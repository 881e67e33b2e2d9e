--------------------------- MODULE WorkspaceFiles ---------------------------
(***************************************************************************)
(* The files of one workspace under FileService and CheckpointService:     *)
(* operations that look at a path, secure what they will replace in a      *)
(* checkpoint row or in the Recovery Trash, and change the path only then, *)
(* with other operations and the retention sweep at work in between.       *)
(***************************************************************************)
EXTENDS Integers, FiniteSets, Functions

CONSTANTS
  MaxFileOps,   \* bound: operations after the history the workspace begins with
  NPaths,       \* paths
  FileKinds,    \* operations asked for
  FileFaults    \* "write_fails", "cross_device", "binary", "not_utf8", "plain_delete", "stop"

FileOps == 1 .. MaxFileOps
FilePaths == 1 .. NPaths
AllFileKinds == {"write", "edit", "patch", "undo", "move", "copy", "delete",
                 "undelete", "external", "sweep"}

ASSUME WorkspaceFilesAssumption ==
  /\ {MaxFileOps, NPaths} \subseteq Nat \ {0}
  /\ FileKinds \subseteq AllFileKinds
  /\ FileFaults \subseteq {"write_fails", "cross_device", "binary", "not_utf8", "plain_delete", "stop"}

VARIABLES
  files,     \* what is on the disk at each path
  rows,      \* the checkpoint row of each operation: kept or swept, contents by path
  trash,     \* Recovery Trash: the item each operation made
  fileOps,   \* where each operation stands
  seen,      \* history: the contents that ever were on the disk
  excused    \* history: contents that came to a path behind the back of the
             \* operation that replaced it, were given up knowingly, or are
             \* kept in a checkpoint that could not hold them

fileVars == <<files, rows, trash, fileOps, seen, excused>>

\* A content is named by the operation that wrote it (0: before them) and the
\* path it was written to; NoFile, a file that is being filled and a copy made of
\* such a file are named too, and so is what the trash held before.
NoFile == <<0, 0>>
TornBy(k) == <<-k, 0>>
Broken == TornBy(MaxFileOps + 1)
Older == <<0, NPaths + 1>>
Whole == ((0 .. MaxFileOps) \X FilePaths) \cup {Older}
Contents == Whole \cup {NoFile, Broken} \cup {TornBy(k) : k \in FileOps}
CopyOf(c) == IF c \in Whole \cup {NoFile} THEN c ELSE Broken

\* The file at the last path may be one a checkpoint refuses.
Binary == IF "binary" \in FileFaults THEN {<<0, NPaths>>} ELSE {}

\* The file in the trash may be one that UTF-8 does not decode: a checkpoint keeps
\* text, so what it keeps of it is not the file.  The trash keeps bytes.
NotUtf8 == IF "not_utf8" \in FileFaults THEN {Older} ELSE {}
DecodedCopy(c) == IF c \in NotUtf8 THEN Broken ELSE CopyOf(c)

FilePlaces == {"idle", "look", "snap", "store", "bin", "take", "unlink", "remove", "aim",
               "transfer", "read", "return", "secure", "overwrite", "torn", "clear",
               "provider", "expire", "done"}

\* todo: paths the present phase has still to deal with, found: those that
\* existed when they were looked at, copy: what has been read for a checkpoint;
\* from: the checkpoint or item that is restored or swept.
FileOp == [kind : AllFileKinds, paths : SUBSET FilePaths, to : 0 .. NPaths,
           from : 0 .. MaxFileOps, at : FilePlaces, todo : SUBSET FilePaths,
           found : SUBSET FilePaths, copy : [FilePaths -> Contents]]

NoCopy == [p \in FilePaths |-> NoFile]
NoRow == [kept |-> FALSE, saved |-> NoCopy]
NoItem == [meta |-> FALSE, kind |-> "deleted", path |-> 1, payload |-> NoFile]
Item == [meta : BOOLEAN, kind : {"deleted", "replacement_backup"}, path : FilePaths,
         payload : Contents]

WorkspaceFilesTypeOK ==
  /\ files \in [FilePaths -> Contents]
  /\ rows \in [0 .. MaxFileOps -> [kept : BOOLEAN, saved : [FilePaths -> Contents]]]
  /\ trash \in [0 .. MaxFileOps -> Item]
  /\ fileOps \in [FileOps -> FileOp]
  /\ seen \subseteq Contents /\ excused \subseteq Contents

IdleOp == [kind |-> "write", paths |-> {}, to |-> 0, from |-> 0, at |-> "idle",
           todo |-> {}, found |-> {}, copy |-> NoCopy]

\* Before the first operation: some paths have a file; a checkpoint has the one at
\* path 1; an item was deleted from the last path, or replaced there.
EarlierItem(kind) == [meta |-> TRUE, kind |-> kind, path |-> NPaths, payload |-> Older]

WorkspaceFilesInit ==
  /\ \E present \in SUBSET FilePaths :
       files = [p \in FilePaths |-> IF p \in present THEN <<0, p>> ELSE NoFile]
  /\ rows = [k \in 0 .. MaxFileOps |->
               IF k = 0 THEN [kept |-> TRUE, saved |-> [NoCopy EXCEPT ![1] = <<0, 1>>]]
                        ELSE NoRow]
  /\ \E kind \in {"deleted", "replacement_backup"} :
       trash = [k \in 0 .. MaxFileOps |-> IF k = 0 THEN EarlierItem(kind) ELSE NoItem]
  /\ fileOps = [k \in FileOps |-> IdleOp]
  /\ seen = {Older, <<0, 1>>} \cup Range(files)
  /\ excused = {}

-----------------------------------------------------------------------------
(* What an operation holds, and what changes at a path                     *)

Exists(p) == files[p] # NoFile
NextOf(todo) == CHOOSE p \in todo : \A q \in todo : p <= q
Cursor(k) == NextOf(fileOps[k].todo)
Target(k) == NextOf(fileOps[k].paths)

\* The operation has looked at, or secured, the path and has not yet replaced
\* it: what comes there meanwhile it will not have seen.
HasSecured(o, p) ==
  \/ o.at = "look" /\ p \in o.paths \ (o.todo \cup o.found)
  \/ o.at = "snap" /\ p \in o.paths \ o.todo
  \/ o.at = "store" /\ p \in o.todo
  \/ o.at \in {"unlink", "remove", "overwrite", "provider"} /\ p \in o.paths
  \/ o.at = "transfer" /\ o.kind = "move" /\ p = o.to
  \/ o.at = "return" /\ p \in o.paths \ o.found

\* Content c is put at path p by operation k.
BehindBack(p, c, k) ==
  IF \E j \in FileOps \ {k} : HasSecured(fileOps[j], p) THEN {c} ELSE {}

Put(p, c, k) ==
  /\ files' = [files EXCEPT ![p] = c]
  /\ seen' = seen \cup {c}
  /\ excused' = excused \cup BehindBack(p, c, k)

Clear(p) == files' = [files EXCEPT ![p] = NoFile] /\ UNCHANGED <<seen, excused>>

Become(k, at) == fileOps' = [fileOps EXCEPT ![k].at = at]
BecomeWith(k, at, todo) == fileOps' = [fileOps EXCEPT ![k] = [@ EXCEPT !.at = at, !.todo = todo]]

FilesRest == UNCHANGED <<files, seen, excused>>
SafetyRests == UNCHANGED <<rows, trash>>

-----------------------------------------------------------------------------
(* Requests                                                                *)

Ask(k, kind, paths, to, from, at) ==
  /\ kind \in FileKinds /\ fileOps[k].at = "idle"
  /\ \A j \in FileOps : j < k => fileOps[j].at # "idle"
  /\ fileOps' = [fileOps EXCEPT ![k] =
       [IdleOp EXCEPT !.kind = kind, !.paths = paths, !.to = to, !.from = from,
                      !.at = at, !.todo = paths]]
  /\ FilesRest /\ SafetyRests

RequestText(k) ==
  \/ \E p \in FilePaths : \E kind \in {"write", "edit"} : Ask(k, kind, {p}, 0, 0, "look")
  \/ Ask(k, "patch", FilePaths, 0, 0, "look")

Saved(j) == {p \in FilePaths : rows[j].saved[p] # NoFile}

RequestUndo(k) ==
  \E j \in 0 .. k - 1 : rows[j].kept /\ Ask(k, "undo", Saved(j), 0, j, "look")

RequestTransfer(k) ==
  \E p, q \in FilePaths : \E kind \in {"move", "copy"} : p # q /\ Ask(k, kind, {p}, q, 0, "look")

RequestDelete(k) == \E p \in FilePaths : Ask(k, "delete", {p}, 0, 0, "look")
RequestExternal(k) == \E p \in FilePaths : Ask(k, "external", {p}, 0, 0, "look")

\* readFile of metadata.json: what a restore or a sweep goes on with.  Retention
\* counts days, so only what was there before is old enough.
RequestItem(k) ==
  \E j \in 0 .. k - 1 : \E kind \in {"undelete", "sweep"} :
    /\ trash[j].meta /\ (kind = "sweep" => j = 0)
    /\ Ask(k, kind, {trash[j].path}, 0, j, IF kind = "sweep" THEN "expire" ELSE "read")

Request(k) ==
  \/ RequestText(k) \/ RequestUndo(k) \/ RequestTransfer(k)
  \/ RequestDelete(k) \/ RequestExternal(k) \/ RequestItem(k)

-----------------------------------------------------------------------------
(* Looking at the paths                                                    *)

\* inspectExistingFile, readFile, resolveForWrite: what each kind goes on with.
Acceptable(o, p) ==
  CASE o.kind = "edit" -> Exists(p) /\ files[p] \notin Binary
    [] o.kind \in {"undo", "delete", "move", "copy"} -> Exists(p)
    [] OTHER -> TRUE

AfterLook(o, found) ==
  CASE o.kind = "delete" -> "snap"
    [] o.kind \in {"move", "copy"} -> "aim"
    [] o.kind = "external" -> IF found = {} THEN "provider" ELSE "secure"
    [] OTHER -> IF found = {} THEN "store" ELSE "snap"

AfterLookTodo(o, found) ==
  CASE o.kind = "delete" -> o.paths
    [] o.kind \in {"write", "edit", "patch", "undo"} -> IF found = {} THEN o.paths ELSE found
    [] OTHER -> {}

Look(k) ==
  LET o == fileOps[k]
      p == Cursor(k)
      found == IF Exists(p) THEN o.found \cup {p} ELSE o.found
      rest == o.todo \ {p} IN
  /\ o.at = "look"
  /\ IF ~Acceptable(o, p) THEN Become(k, "done")
     ELSE fileOps' = [fileOps EXCEPT ![k] =
            [o EXCEPT !.found = found,
                      !.at = IF rest # {} THEN "look" ELSE AfterLook(o, found),
                      !.todo = IF rest # {} THEN rest ELSE AfterLookTodo(o, found)]]
  /\ FilesRest /\ SafetyRests

\* The signal is aborted, the permission refused or a check of the text fails:
\* before each side effect an operation may end.
GiveUp(k) ==
  /\ fileOps[k].at \in {"look", "snap", "store", "aim", "transfer", "remove", "read", "return",
                        "secure", "provider"}
  /\ Become(k, "done") /\ FilesRest /\ SafetyRests

-----------------------------------------------------------------------------
(* CheckpointService.createForFiles, and the writes it secures             *)

\* A file that is gone, or cannot be checkpointed, fails the checkpoint; only a
\* delete goes on without one.
Uncheckpointable(p) == ~Exists(p) \/ files[p] \in Binary

\* Mutant: the row has the file read last.
SnapshotLastOnly(o, p) == [NoCopy EXCEPT ![p] = DecodedCopy(files[p])]
Snapshot(o, p) == [o.copy EXCEPT ![p] = DecodedCopy(files[p])]

\* A delete removes for good only while the Recovery Trash is switched off.
AfterSnap(o) ==
  IF o.kind # "delete" THEN {"store"}
  ELSE {"bin"} \cup (IF "plain_delete" \in FileFaults THEN {"unlink"} ELSE {})

Snap(k) ==
  LET o == fileOps[k]
      p == Cursor(k)
      rest == o.todo \ {p} IN
  /\ o.at = "snap"
  /\ IF Uncheckpointable(p)
     THEN /\ \E at \in IF o.kind = "delete" THEN AfterSnap(o) ELSE {"done"} : Become(k, at)
          /\ UNCHANGED <<rows, excused>>
     ELSE /\ excused' = excused \cup ({files[p]} \cap NotUtf8)
          /\ \E at \in IF rest # {} THEN {"snap"} ELSE AfterSnap(o) :
               fileOps' = [fileOps EXCEPT ![k] =
                 [o EXCEPT !.copy = Snapshot(o, p), !.at = at,
                           !.todo = IF rest # {} THEN rest ELSE o.paths]]
          /\ rows' = IF rest # {} THEN rows
                     ELSE [rows EXCEPT ![k] = [kept |-> TRUE, saved |-> Snapshot(o, p)]]
  /\ UNCHANGED <<files, seen, trash>>

Written(k, p) == IF fileOps[k].kind = "undo" THEN rows[fileOps[k].from].saved[p] ELSE <<k, p>>

\* AtomicFileWriter: a new file is renamed over the path.
Store(k) ==
  LET p == Cursor(k)
      rest == fileOps[k].todo \ {p} IN
  /\ fileOps[k].at = "store"
  /\ BecomeWith(k, IF rest = {} THEN "done" ELSE "store", rest)
  /\ Put(p, Written(k, p), k)
  /\ SafetyRests

StoreFails(k) ==
  /\ fileOps[k].at = "store" /\ "write_fails" \in FileFaults
  /\ Become(k, "done") /\ FilesRest /\ SafetyRests

-----------------------------------------------------------------------------
(* deleteFile                                                              *)

Discarded(p, payload) == [meta |-> TRUE, kind |-> "deleted", path |-> p, payload |-> payload]

\* moveToRecoveryTrash: metadata.json, before the payload.
Bin(k) ==
  /\ fileOps[k].at = "bin"
  /\ trash' = [trash EXCEPT ![k] = Discarded(Target(k), NoFile)]
  /\ Become(k, "take") /\ FilesRest /\ UNCHANGED rows

\* The rename takes what is at the path by now; on another device the file is
\* copied, and removed afterwards.
Take(k) ==
  LET p == Target(k) IN
  /\ fileOps[k].at = "take"
  /\ \/ /\ Exists(p)
        /\ \/ /\ Clear(p) /\ Become(k, "done")
              /\ trash' = [trash EXCEPT ![k].payload = files[p]]
           \/ /\ "cross_device" \in FileFaults /\ FilesRest /\ Become(k, "remove")
              /\ trash' = [trash EXCEPT ![k].payload = CopyOf(files[p])]
     \/ (~Exists(p) \/ "write_fails" \in FileFaults) /\ Become(k, "done") /\ FilesRest /\ UNCHANGED trash
  /\ UNCHANGED rows

\* unlink, or rm after a copy to another device.
Remove(k) ==
  /\ fileOps[k].at = "remove" /\ Become(k, "done")
  /\ Clear(Target(k)) /\ SafetyRests

\* Without a checkpoint the caller is told that nothing can be recovered.
Unlink(k) ==
  LET p == Target(k) IN
  /\ fileOps[k].at = "unlink" /\ Become(k, "done")
  /\ files' = [files EXCEPT ![p] = NoFile]
  /\ excused' = excused \cup (IF fileOps[k].copy = NoCopy THEN {files[p]} ELSE {})
  /\ UNCHANGED seen /\ SafetyRests

-----------------------------------------------------------------------------
(* moveFile and copyFile                                                   *)

Aim(k) ==
  /\ fileOps[k].at = "aim"
  /\ Become(k, IF Exists(fileOps[k].to) THEN "done" ELSE "transfer")
  /\ FilesRest /\ SafetyRests

\* rename replaces what has come to the destination since; a copy refuses to.
Rename(k) ==
  LET p == Target(k)
      q == fileOps[k].to IN
  /\ fileOps[k].at = "transfer" /\ fileOps[k].kind = "move"
  /\ Become(k, "done") /\ SafetyRests
  /\ IF ~Exists(p) THEN FilesRest
     ELSE /\ files' = [files EXCEPT ![q] = files[p], ![p] = NoFile]
          /\ excused' = excused \cup BehindBack(q, files[p], k)
          /\ UNCHANGED seen

CopyOver(k) ==
  LET p == Target(k)
      q == fileOps[k].to IN
  /\ fileOps[k].at = "transfer"
  /\ fileOps[k].kind = "copy" \/ "cross_device" \in FileFaults
  /\ IF ~Exists(p) \/ Exists(q) THEN Become(k, "done") /\ FilesRest
     ELSE /\ Put(q, CopyOf(files[p]), k)
          /\ Become(k, IF fileOps[k].kind = "move" THEN "remove" ELSE "done")
  /\ SafetyRests

-----------------------------------------------------------------------------
(* restoreDeletedFile, prepareExternalFileMutation, the sweep              *)

From(k) == fileOps[k].from
HasPayload(j) == trash[j].payload # NoFile

ReadItem(k) ==
  LET p == Target(k) IN
  /\ fileOps[k].at = "read"
  /\ IF Exists(p) /\ trash[From(k)].kind = "deleted" THEN Become(k, "done")
     ELSE fileOps' = [fileOps EXCEPT ![k] = [@ EXCEPT !.at = IF Exists(p) THEN "secure" ELSE "return",
                                     !.found = IF Exists(p) THEN {p} ELSE {}]]
  /\ FilesRest /\ SafetyRests

\* The payload is renamed to its path; a copy from another device refuses to
\* replace what is there.
Refused(p) == IF Exists(p) /\ "cross_device" \in FileFaults THEN BOOLEAN ELSE {FALSE}

Return(k) ==
  LET p == Target(k) IN
  /\ fileOps[k].at = "return"
  /\ \E refused \in Refused(p) :
     IF ~HasPayload(From(k)) \/ refused
     THEN Become(k, "done") /\ FilesRest /\ UNCHANGED trash
     ELSE /\ Put(p, trash[From(k)].payload, k)
          /\ trash' = [trash EXCEPT ![From(k)].payload = NoFile]
          /\ Become(k, "clear")
  /\ UNCHANGED rows

\* Whose target is copied to the trash before it is replaced.
Secured(k) == fileOps[k].kind \in {"external", "undelete"}

\* copyToRecoveryTrash of the file that is in the way.
Secure(k) ==
  LET p == Target(k)
      restoring == fileOps[k].kind = "undelete" IN
  /\ fileOps[k].at = "secure"
  /\ IF ~Exists(p) \/ (restoring /\ ~HasPayload(From(k)))
     THEN Become(k, "done") /\ UNCHANGED trash
     ELSE /\ trash' = IF ~Secured(k) THEN trash
                      ELSE [trash EXCEPT ![k] = [meta |-> TRUE, kind |-> "replacement_backup",
                                                 path |-> p, payload |-> CopyOf(files[p])]]
          /\ Become(k, IF restoring THEN "overwrite" ELSE "provider")
  /\ FilesRest /\ UNCHANGED rows

\* copyFile truncates the file at the path and fills it afterwards, also when
\* that file has been moved or thrown away meanwhile.
Overwrite(k) ==
  LET p == Target(k) IN
  /\ fileOps[k].at = "overwrite"
  /\ IF ~HasPayload(From(k)) THEN Become(k, "done") /\ FilesRest
     ELSE /\ Put(p, TornBy(k), k)
          /\ fileOps' = [fileOps EXCEPT ![k] =
               [fileOps[k] EXCEPT !.at = "torn",
                  !.copy = [fileOps[k].copy EXCEPT ![p] = CopyOf(trash[From(k)].payload)]]]
  /\ SafetyRests

Filled(k, c) == IF c = TornBy(k) THEN fileOps[k].copy[Target(k)] ELSE c

TornAt(k) == {p \in FilePaths : files[p] = TornBy(k)}
\* The file was replaced while it was being filled.
Lost(k) == TornAt(k) = {} /\ \A j \in 0 .. MaxFileOps : trash[j].payload # TornBy(k)

FillFile(k) ==
  /\ fileOps[k].at = "torn"
  /\ files' = [p \in FilePaths |-> Filled(k, files[p])]
  /\ trash' = [j \in 0 .. MaxFileOps |-> [trash[j] EXCEPT !.payload = Filled(k, trash[j].payload)]]
  /\ excused' = excused \cup (IF Lost(k) THEN {fileOps[k].copy[Target(k)]} ELSE {})
                        \cup UNION {BehindBack(p, Filled(k, files[p]), k) : p \in TornAt(k)}
  /\ Become(k, "clear") /\ UNCHANGED <<rows, seen>>

FillFails(k) ==
  /\ fileOps[k].at = "torn" /\ "write_fails" \in FileFaults
  /\ Become(k, "done") /\ FilesRest /\ SafetyRests

\* rm of the item a restore has used up.
ClearItem(k) ==
  /\ fileOps[k].at = "clear"
  /\ trash' = [trash EXCEPT ![From(k)] = NoItem]
  /\ Become(k, "done") /\ FilesRest /\ UNCHANGED rows

Provide(k) ==
  /\ fileOps[k].at = "provider"
  /\ Put(Target(k), <<k, Target(k)>>, k)
  /\ Become(k, "done") /\ SafetyRests

\* purgeRecoveryItemsOlderThan: the item whose metadata it read is old enough.
Expire(k) ==
  /\ fileOps[k].at = "expire"
  /\ excused' = excused \cup {trash[From(k)].payload}
  /\ trash' = [trash EXCEPT ![From(k)] = NoItem]
  /\ Become(k, "done") /\ UNCHANGED <<files, rows, seen>>

\* deleteOlderThan.
ExpireRow ==
  /\ "sweep" \in FileKinds /\ rows[0].kept
  /\ rows' = [rows EXCEPT ![0].kept = FALSE]
  /\ excused' = excused \cup {rows[0].saved[p] : p \in Saved(0)}
  /\ UNCHANGED <<files, trash, fileOps, seen>>

-----------------------------------------------------------------------------

\* The application stops; what has been asked of it is never finished.
FilesStop ==
  /\ "stop" \in FileFaults
  /\ \E k \in FileOps : fileOps[k].at \notin {"idle", "done"}
  /\ fileOps' = [k \in FileOps |-> IF fileOps[k].at = "idle" THEN IdleOp
                                   ELSE [fileOps[k] EXCEPT !.at = "done"]]
  /\ FilesRest /\ SafetyRests

FileStep(k) ==
  \/ Request(k) \/ Look(k) \/ GiveUp(k) \/ Snap(k) \/ Store(k) \/ StoreFails(k)
  \/ Bin(k) \/ Take(k) \/ Remove(k) \/ Unlink(k) \/ Aim(k) \/ Rename(k) \/ CopyOver(k)
  \/ ReadItem(k) \/ Return(k) \/ Secure(k) \/ Overwrite(k) \/ FillFile(k) \/ FillFails(k)
  \/ ClearItem(k) \/ Provide(k) \/ Expire(k)

WorkspaceFilesNext ==
  \/ \E k \in FileOps : FileStep(k)
  \/ ExpireRow
  \/ FilesStop

WorkspaceFilesSpec == WorkspaceFilesInit /\ [][WorkspaceFilesNext]_fileVars

-----------------------------------------------------------------------------

InRows == {rows[j].saved[p] : j \in {i \in 0 .. MaxFileOps : rows[i].kept}, p \in FilePaths}
InTrash == {trash[j].payload : j \in {i \in 0 .. MaxFileOps : trash[i].meta}}

\* Whatever was in the workspace is still there, or in a checkpoint, or in the
\* Recovery Trash with what is needed to restore it, wherever operations fail or
\* stop: save what came to a path between the moment an operation secured that
\* path and the moment it replaced it, what a restore was still copying into a
\* file that was replaced, what retention swept away, what a caller was told is
\* not recoverable, and a file that is not UTF-8 once a checkpoint has decoded it:
\* readCheckpointFile keeps a string, and nobody is told that it differs.
\* (writeFile, applyPatch, editFile, moveFile, deleteFile, restoreDeletedFile:
\* file-service.ts:336-506, 602-802; restore and
\* readCheckpointFile: checkpoint-service.ts:102-156)
NothingLostUnseen == seen \cap Whole \subseteq Range(files) \cup InRows \cup InTrash \cup excused
=============================================================================
