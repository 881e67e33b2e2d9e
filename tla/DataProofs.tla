----------------------------- MODULE DataProofs ------------------------------
(***************************************************************************)
(* What holds of files that several parties write without a lock, whatever *)
(* fails and for any number of operations and clients: the files of a      *)
(* workspace with their checkpoints and Recovery Trash, of which nothing is*)
(* lost, and the record of a durable shell task, whose verdicts stand.     *)
(***************************************************************************)
EXTENDS WorkspaceFiles, DurableShellTask, NumberLemmas, SequenceTheorems, TLAPS

-----------------------------------------------------------------------------
(* The files of a workspace                                               *)

Single == AllFileKinds \ {"patch", "undo"}
Torn == {TornBy(k) : k \in FileOps}
Ids0 == 0 .. MaxFileOps

\* What is asked of an operation at each of its places.
PlaceFits(k) ==
  LET o == fileOps[k] IN
  /\ o.at # "idle" /\ o.kind \in Single => \E p \in FilePaths : o.paths = {p}
  /\ o.at \in {"look", "snap", "store"} => o.todo # {} /\ o.todo \subseteq o.paths
  /\ o.at = "look" => /\ o.kind \in {"write", "edit", "patch", "undo", "delete", "move", "copy", "external"}
                      /\ o.found \subseteq o.paths \ o.todo /\ o.copy = NoCopy
  /\ o.at = "snap" => /\ o.kind \in {"write", "edit", "patch", "undo", "delete"}
                      /\ o.kind = "delete" => o.todo = o.paths /\ o.copy = NoCopy
  /\ o.at = "store" => o.kind \in {"write", "edit", "patch", "undo"}
  /\ o.at \in {"bin", "take", "unlink"} => o.kind = "delete"
  /\ o.at = "remove" => o.kind \in {"delete", "move"}
  /\ o.at \in {"aim", "transfer"} => o.kind \in {"move", "copy"}
  /\ o.at \in {"read", "return", "overwrite", "torn", "clear"} => o.kind = "undelete"
  /\ o.at = "secure" => o.kind \in {"external", "undelete"}
  /\ o.at = "provider" => o.kind = "external"
  /\ o.at = "expire" => o.kind = "sweep" /\ o.from = 0
  /\ o.at = "return" => o.found = {}
  /\ o.at = "torn" => \A p \in o.paths : o.copy[p] \notin Torn
  /\ o.at # "idle" /\ o.kind \in {"move", "copy"} => o.to \in FilePaths \ o.paths

\* A path an operation has looked at, and what it read of a path for a checkpoint.
LookedAt(k) ==
  LET o == fileOps[k] IN
  /\ o.at = "look" => \A p \in o.paths \ (o.todo \cup o.found) : files[p] \in Whole => files[p] \in excused
  /\ o.at = "snap" => \A p \in o.paths \ o.todo : files[p] \in Whole => files[p] \in excused \/ o.copy[p] = files[p]
  /\ o.at \in {"idle", "look", "snap"} => rows[k].kept = FALSE

\* Operation k restores item i.
Restores(k, i) == fileOps[k].kind = "undelete" /\ fileOps[k].at \notin {"idle", "done"} /\ fileOps[k].from = i

\* What an operation puts into the trash is new there, and a restore takes what fits it.
ItemsFit(k) ==
  LET o == fileOps[k] IN
  /\ o.at \in {"idle", "look", "snap", "bin", "read", "secure"} =>
       trash[k] = NoItem /\ \A j \in FileOps : ~Restores(j, k)
  /\ o.at = "take" => /\ trash[k].meta = TRUE /\ trash[k].payload = NoFile /\ trash[k].kind = "deleted"
                      /\ \A j \in FileOps : Restores(j, k) => fileOps[j].at \in {"read", "return"}
  /\ o.at \in {"secure", "overwrite", "torn"} /\ o.kind = "undelete" =>
       trash[o.from] = NoItem \/ trash[o.from].kind = "replacement_backup"
  /\ o.at = "torn" => (trash[o.from].payload \in Whole => trash[o.from].payload = o.copy[Target(k)])
  /\ o.at = "clear" => trash[o.from].payload \notin Torn

\* An item with a file in it has its metadata; a copy is never torn.
TrashFits ==
  \A j \in Ids0 :
    /\ trash[j].payload # NoFile => trash[j].meta = TRUE
    /\ trash[j].kind = "replacement_backup" => trash[j].payload \notin Torn
RowsFit == \A j \in Ids0 : rows[j].kept = TRUE => \E p \in FilePaths : rows[j].saved[p] # NoFile

\* What an operation is about to replace or to remove without another look, and
\* the item it is about to clear.
DoomedBy(k, p) ==
  LET o == fileOps[k] IN
  \/ o.at = "store" /\ p \in o.todo
  \/ o.at \in {"remove", "overwrite", "provider"} /\ p \in o.paths
  \/ o.at = "unlink" /\ p \in o.paths /\ o.copy # NoCopy
  \/ o.at = "transfer" /\ o.kind = "move" /\ p = o.to
  \/ o.at = "return" /\ p \in o.paths
UsedUpBy(k, j) == fileOps[k].at = "clear" /\ fileOps[k].from = j
Doomed(p) == \E k \in FileOps : DoomedBy(k, p)
UsedUp(j) == \E k \in FileOps : UsedUpBy(k, j)

\* A content that is excused, or where nobody is about to give it up.
InRow(c) == \E j \in Ids0 : rows[j].kept = TRUE /\ \E p \in FilePaths : rows[j].saved[p] = c
AtPath(c) == \E p \in FilePaths : files[p] = c /\ ~Doomed(p)
AsItem(c) == \E j \in Ids0 : trash[j].payload = c /\ ~UsedUp(j)
Lasts(c) == c \in excused \/ InRow(c) \/ AtPath(c) \/ AsItem(c)

FilesInv ==
  /\ WorkspaceFilesTypeOK
  /\ \A k \in FileOps : PlaceFits(k) /\ LookedAt(k) /\ ItemsFit(k)
  /\ TrashFits /\ RowsFit
  /\ \A c \in seen \cap Whole : Lasts(c)

-----------------------------------------------------------------------------

\* Operations and paths are numbers from one on.
LEMMA FileIds == /\ FileOps \subseteq Ids0 /\ 0 \in Ids0 /\ 0 \notin FileOps
                 /\ FilePaths \subseteq 0 .. NPaths /\ 0 \notin FilePaths
                 /\ 1 \in FilePaths /\ NPaths \in FilePaths
                 /\ MaxFileOps \in Nat /\ NPaths \in Nat
BY WorkspaceFilesAssumption DEF FileOps, FilePaths, Ids0

\* The kinds of contents are distinct, and a copy of a whole file is that file.
LEMMA ContentFacts ==
  /\ NoFile \in Contents /\ NoFile \notin Whole /\ NoFile \notin Torn
  /\ Broken \in Contents /\ Broken \notin Whole /\ Broken \notin Torn /\ Broken # NoFile
  /\ Torn \subseteq Contents /\ Torn \cap Whole = {}
  /\ Whole \subseteq Contents /\ Older \in Whole
  /\ \A k \in Ids0, p \in FilePaths : <<k, p>> \in Whole
  /\ \A k \in FileOps : TornBy(k) \in Torn
  /\ \A c \in Contents : /\ CopyOf(c) \in Contents \ Torn
                         /\ c \in Whole => CopyOf(c) = c
                         /\ CopyOf(c) = NoFile <=> c = NoFile
                         /\ DecodedCopy(c) \in Contents
                         /\ c \in Whole \ NotUtf8 => DecodedCopy(c) = c
                         /\ DecodedCopy(c) = NoFile <=> c = NoFile
<1>0. MaxFileOps \in Nat \ {0} /\ NPaths \in Nat \ {0}
  BY WorkspaceFilesAssumption
<1>1. NoFile \in Contents /\ NoFile \notin Whole /\ NoFile \notin Torn
  BY <1>0 DEF NoFile, Contents, Whole, Torn, TornBy, FileOps, FilePaths, Older
<1>2. Broken \in Contents /\ Broken \notin Whole /\ Broken \notin Torn /\ Broken # NoFile
  BY <1>0 DEF NoFile, Broken, Contents, Whole, Torn, TornBy, FileOps, FilePaths, Older
<1>3. Torn \subseteq Contents /\ Torn \cap Whole = {}
  BY <1>0 DEF Contents, Whole, Torn, TornBy, FileOps, FilePaths, Older
<1>4. Whole \subseteq Contents /\ Older \in Whole /\ \A k \in Ids0, p \in FilePaths : <<k, p>> \in Whole
  BY DEF Contents, Whole, Ids0
<1>5. \A k \in FileOps : TornBy(k) \in Torn
  BY DEF Torn
<1>6. \A c \in Contents : /\ CopyOf(c) \in Contents \ Torn
                          /\ c \in Whole => CopyOf(c) = c
                          /\ CopyOf(c) = NoFile <=> c = NoFile
  BY <1>1, <1>2, <1>3, <1>4 DEF CopyOf
<1>7. NotUtf8 \subseteq Whole
  BY <1>4 DEF NotUtf8
<1>8. \A c \in Contents : /\ DecodedCopy(c) \in Contents
                          /\ c \in Whole \ NotUtf8 => DecodedCopy(c) = c
                          /\ DecodedCopy(c) = NoFile <=> c = NoFile
  BY <1>1, <1>2, <1>6, <1>7 DEF DecodedCopy
<1> QED  BY <1>1, <1>2, <1>3, <1>4, <1>5, <1>6, <1>8

\* The first of some paths is one of them.
LEMMA NextIsOne ==
  ASSUME NEW todo \in SUBSET FilePaths, todo # {}
  PROVE  NextOf(todo) \in todo
<1>1. \E k \in todo : \A l \in todo : k <= l
  BY SmallestOfSome, WorkspaceFilesAssumption DEF FilePaths
<1> QED  BY <1>1 DEF NextOf

\* The target of an operation on one path.
LEMMA TargetIsThePath ==
  ASSUME NEW k \in FileOps, fileOps[k] \in FileOp, PlaceFits(k), fileOps[k].at # "idle",
         fileOps[k].kind \in Single
  PROVE  Target(k) \in FilePaths /\ fileOps[k].paths = {Target(k)}
<1>1. PICK p \in FilePaths : fileOps[k].paths = {p}
  BY DEF PlaceFits
<1>2. Target(k) = p
  BY <1>1, NextIsOne DEF Target
<1> QED  BY <1>1, <1>2

\* Who is about to replace a path has secured it.
LEMMA DoomedIsSecured ==
  ASSUME NEW k \in FileOps, NEW p \in FilePaths, PlaceFits(k), DoomedBy(k, p)
  PROVE  HasSecured(fileOps[k], p)
BY DEF DoomedBy, HasSecured, PlaceFits

-----------------------------------------------------------------------------
(* What a step of one operation leaves as it was for the others            *)

\* The other operations stay where they are.
OthersStay(k) ==
  /\ fileOps' \in [FileOps -> FileOp]
  /\ \A j \in FileOps \ {k} : fileOps'[j] = fileOps[j]

\* What comes to a path is excused if somebody else has secured that path.
FilesMove(k) ==
  /\ excused \subseteq excused'
  /\ \A p \in FilePaths :
       \/ files'[p] = files[p] \/ files'[p] \notin Whole
       \/ \A j \in FileOps \ {k} : HasSecured(fileOps[j], p) => files'[p] \in excused'

\* What may become of an item: it is used up, taken back, filled, or made by k.
ItemsMove(k) ==
  \A i \in Ids0 :
    \/ trash'[i] = trash[i]
    \/ trash'[i] = NoItem /\ i = 0
    \/ trash'[i] = NoItem /\ fileOps[k].at = "clear" /\ Restores(k, i)
    \/ /\ trash[i].payload # NoFile /\ trash'[i].payload = NoFile
       /\ trash'[i].kind = trash[i].kind
    \/ /\ trash[i].payload \in Torn /\ trash'[i].payload \notin Torn
       /\ trash'[i].kind = trash[i].kind
    \/ i = k /\ fileOps[k].at \in {"bin", "secure", "take"}

\* A restore begins with an item that is there, and does not overwrite for one
\* that is not yet filled.
RestoreMoves(k) ==
  \A i \in FileOps : Restores(k, i)' =>
    /\ \/ Restores(k, i)
       \/ trash[i].meta = TRUE /\ fileOps'[k].at = "read"
    /\ Restores(k, i) /\ fileOps[k].at \in {"read", "return"} /\ trash[i].kind = "deleted"
         /\ trash[i].payload = NoFile => fileOps'[k].at \in {"read", "return"}

RowsMove(k) == \A j \in FileOps \ {k} : rows'[j] = rows[j]

\* What others have looked at stays true.
LEMMA OthersLookedAt ==
  ASSUME NEW k \in FileOps, OthersStay(k), FilesMove(k), RowsMove(k),
         NEW j \in FileOps \ {k}, PlaceFits(j), LookedAt(j)
  PROVE  LookedAt(j)' /\ PlaceFits(j)'
<1>0. fileOps'[j] = fileOps[j] /\ rows'[j] = rows[j] /\ excused \subseteq excused'
  BY DEF OthersStay, RowsMove, FilesMove
<1>1. PlaceFits(j)'
  BY <1>0 DEF PlaceFits
<1>2. \A p \in FilePaths : HasSecured(fileOps[j], p) =>
        files'[p] = files[p] \/ files'[p] \notin Whole \/ files'[p] \in excused'
  BY DEF FilesMove
<1>3. fileOps'[j] \in FileOp
  BY DEF OthersStay
<1>4. fileOps[j].paths \subseteq FilePaths
  BY <1>0, <1>3 DEF FileOp
<1>5. fileOps[j].at = "look" => \A p \in fileOps[j].paths \ (fileOps[j].todo \cup fileOps[j].found) :
                                 files'[p] \in Whole => files'[p] \in excused'
  BY <1>0, <1>2, <1>4 DEF HasSecured, LookedAt
<1>6. fileOps[j].at = "snap" => \A p \in fileOps[j].paths \ fileOps[j].todo :
                                 files'[p] \in Whole => files'[p] \in excused' \/ fileOps[j].copy[p] = files'[p]
  BY <1>0, <1>2, <1>4 DEF HasSecured, LookedAt
<1> QED  BY <1>0, <1>1, <1>5, <1>6 DEF LookedAt

\* Items others make or restore still fit.
LEMMA OthersItemsFit ==
  ASSUME NEW k \in FileOps, OthersStay(k), ItemsMove(k), trash \in [Ids0 -> Item], TrashFits,
         \A i \in FileOps : ItemsFit(i),
         RestoreMoves(k), NEW j \in FileOps \ {k}, fileOps[j] \in FileOp, PlaceFits(j)
  PROVE  ItemsFit(j)'
<1>0. fileOps'[j] = fileOps[j] /\ \A i \in FileOps \ {k} : fileOps'[i] = fileOps[i]
  BY DEF OthersStay
<1>1. NoItem.meta = FALSE /\ NoItem.payload = NoFile /\ NoItem.kind = "deleted" /\ NoFile \notin Torn /\ NoFile \notin Whole
  BY ContentFacts DEF NoItem
<1>2. ASSUME fileOps[j].at \in {"idle", "look", "snap", "bin", "read", "secure"}
      PROVE  trash'[j] = NoItem /\ \A i \in FileOps : ~Restores(i, j)'
  <2>1. trash[j] = NoItem /\ \A i \in FileOps : ~Restores(i, j)
    BY <1>2 DEF ItemsFit
  <2>2. \A i \in FileOps \ {k} : ~Restores(i, j)'
    BY <1>0, <2>1 DEF Restores
  <2>3. ~Restores(k, j)'
    BY <1>1, <2>1 DEF RestoreMoves
  <2>4. trash'[j] = NoItem
    BY <1>1, <2>1, FileIds DEF ItemsMove
  <2> QED  BY <2>2, <2>3, <2>4
<1>3. ASSUME fileOps[j].at = "take"
      PROVE  /\ trash'[j].meta = TRUE /\ trash'[j].payload = NoFile /\ trash'[j].kind = "deleted"
             /\ \A i \in FileOps : Restores(i, j)' => fileOps'[i].at \in {"read", "return"}
  <2>1. /\ trash[j].meta = TRUE /\ trash[j].payload = NoFile /\ trash[j].kind = "deleted"
        /\ \A i \in FileOps : Restores(i, j) => fileOps[i].at \in {"read", "return"}
    BY <1>3 DEF ItemsFit
  <2>2. trash'[j] = trash[j]
    BY <1>1, <2>1, FileIds DEF ItemsMove
  <2>3. \A i \in FileOps \ {k} : Restores(i, j)' => fileOps'[i].at \in {"read", "return"}
    BY <1>0, <2>1 DEF Restores
  <2>4. Restores(k, j)' => fileOps'[k].at \in {"read", "return"}
    BY <2>1 DEF RestoreMoves
  <2> QED  BY <2>1, <2>2, <2>3, <2>4
<1> DEFINE i == fileOps[j].from
<1>4. i \in Ids0
  BY DEF FileOp, Ids0
<1>5. ASSUME fileOps[j].at \in {"secure", "overwrite", "torn"}, fileOps[j].kind = "undelete"
      PROVE  /\ trash'[i] = NoItem \/ trash'[i].kind = "replacement_backup"
             /\ fileOps[j].at = "torn" => (trash'[i].payload \in Whole => trash'[i].payload = fileOps[j].copy[Target(j)])
  <2>1. /\ trash[i] = NoItem \/ trash[i].kind = "replacement_backup"
        /\ fileOps[j].at = "torn" => (trash[i].payload \in Whole => trash[i].payload = fileOps[j].copy[Target(j)])
    BY <1>5 DEF ItemsFit
  <2>2. i \in FileOps => Restores(j, i)
    BY <1>5 DEF Restores
  <2>3. ~(i = k /\ fileOps[k].at \in {"bin", "secure", "take"})
    BY <1>5, <2>2 DEF ItemsFit
  <2>4. trash[i].payload \notin Torn
    BY <1>1, <1>4, <2>1 DEF TrashFits
  <2>5. \/ trash'[i] = trash[i] \/ trash'[i] = NoItem
        \/ trash[i].payload # NoFile /\ trash'[i].payload = NoFile /\ trash'[i].kind = trash[i].kind
    BY <1>4, <2>3, <2>4 DEF ItemsMove
  <2> QED  BY <1>1, <2>1, <2>5
<1>6. ASSUME fileOps[j].at = "clear", fileOps[j].kind = "undelete"
      PROVE  trash'[i].payload \notin Torn
  <2>1. i \in FileOps => Restores(j, i)
    BY <1>6 DEF Restores
  <2>2. ~(i = k /\ fileOps[k].at \in {"bin", "secure", "take"})
    BY <1>6, <2>1 DEF ItemsFit
  <2>3. trash[i].payload \notin Torn
    BY <1>6 DEF ItemsFit
  <2> QED  BY <1>1, <1>4, <2>2, <2>3 DEF ItemsMove
<1>7. Target(j)' = Target(j)
  BY <1>0 DEF Target
<1>8. fileOps[j].at \in {"torn", "clear"} => fileOps[j].kind = "undelete"
  BY DEF PlaceFits
<1> QED  BY <1>0, <1>2, <1>3, <1>5, <1>6, <1>7, <1>8 DEF ItemsFit

\* A content lasts if each place it was kept at is left as it was, or leads to
\* another one.
LEMMA LastsKept ==
  ASSUME NEW k \in FileOps, OthersStay(k), excused \subseteq excused',
         \A j \in Ids0 : rows[j].kept = TRUE => rows'[j] = rows[j],
         NEW c, Lasts(c),
         \A p \in FilePaths : files[p] = c /\ ~Doomed(p) =>
            Lasts(c)' \/ (files'[p] = c /\ ~DoomedBy(k, p)'),
         \A j \in Ids0 : trash[j].payload = c /\ ~UsedUp(j) =>
            Lasts(c)' \/ (trash'[j].payload = c /\ ~UsedUpBy(k, j)')
  PROVE  Lasts(c)'
<1>0. \A j \in FileOps \ {k} : fileOps'[j] = fileOps[j]
  BY DEF OthersStay
<1>1. CASE c \in excused
  BY <1>1 DEF Lasts
<1>2. CASE InRow(c)
  <2>1. InRow(c)'
    BY <1>2 DEF InRow
  <2> QED  BY <2>1 DEF Lasts
<1>3. CASE AtPath(c)
  <2>1. PICK p \in FilePaths : files[p] = c /\ ~Doomed(p)
    BY <1>3 DEF AtPath
  <2>2. CASE files'[p] = c /\ ~DoomedBy(k, p)'
    <3>1. \A j \in FileOps \ {k} : ~DoomedBy(j, p)'
      BY <1>0, <2>1 DEF Doomed, DoomedBy
    <3>2. ~Doomed(p)'
      BY <2>2, <3>1 DEF Doomed
    <3> QED  BY <2>2, <3>2 DEF AtPath, Lasts
  <2> QED  BY <2>1, <2>2
<1>4. CASE AsItem(c)
  <2>1. PICK j \in Ids0 : trash[j].payload = c /\ ~UsedUp(j)
    BY <1>4 DEF AsItem
  <2>2. CASE trash'[j].payload = c /\ ~UsedUpBy(k, j)'
    <3>1. \A i \in FileOps \ {k} : ~UsedUpBy(i, j)'
      BY <1>0, <2>1 DEF UsedUp, UsedUpBy
    <3>2. ~UsedUp(j)'
      BY <2>2, <3>1 DEF UsedUp
    <3> QED  BY <2>2, <3>2 DEF AsItem, Lasts
  <2> QED  BY <2>1, <2>2
<1> QED  BY <1>1, <1>2, <1>3, <1>4 DEF Lasts

\* What is put at a path lasts, there or as an excuse.
LEMMA PutLasts ==
  ASSUME NEW k \in FileOps, OthersStay(k), NEW p \in FilePaths, NEW c,
         files'[p] = c, BehindBack(p, c, k) \subseteq excused', ~DoomedBy(k, p)',
         \A j \in FileOps : PlaceFits(j)
  PROVE  Lasts(c)'
<1>0. \A j \in FileOps \ {k} : fileOps'[j] = fileOps[j]
  BY DEF OthersStay
<1>1. CASE \E j \in FileOps \ {k} : HasSecured(fileOps[j], p)
  <2>1. c \in excused'
    BY <1>1 DEF BehindBack
  <2> QED  BY <2>1 DEF Lasts
<1>2. CASE ~\E j \in FileOps \ {k} : HasSecured(fileOps[j], p)
  <2>1. \A j \in FileOps \ {k} : ~DoomedBy(j, p)
    BY <1>2, DoomedIsSecured
  <2>2. \A j \in FileOps \ {k} : ~DoomedBy(j, p)'
    BY <1>0, <2>1 DEF DoomedBy
  <2>3. ~Doomed(p)'
    BY <2>2 DEF Doomed
  <2> QED  BY <2>3 DEF AtPath, Lasts
<1> QED  BY <1>1, <1>2

\* A step of one operation, from what it does to the operation itself and to the
\* contents.
LEMMA StepKeeps ==
  ASSUME FilesInv, NEW k \in FileOps, OthersStay(k), FilesMove(k), ItemsMove(k), RowsMove(k),
         RestoreMoves(k), WorkspaceFilesTypeOK', PlaceFits(k)', LookedAt(k)', ItemsFit(k)',
         TrashFits', RowsFit', \A c \in seen' \cap Whole : Lasts(c)'
  PROVE  FilesInv'
<1>1. \A j \in FileOps \ {k} : (PlaceFits(j) /\ LookedAt(j) /\ ItemsFit(j))'
  <2> TAKE j \in FileOps \ {k}
  <2>1. PlaceFits(j) /\ LookedAt(j) /\ (\A i \in FileOps : ItemsFit(i)) /\ TrashFits
        /\ trash \in [Ids0 -> Item] /\ fileOps[j] \in FileOp
    BY DEF FilesInv, WorkspaceFilesTypeOK, Ids0
  <2> QED  BY <2>1, OthersLookedAt, OthersItemsFit
<1> QED  BY <1>1 DEF FilesInv

QuietFiles == FilesRest /\ SafetyRests

\* A step that moves an operation on and nothing else.
LEMMA QuietKeeps ==
  ASSUME FilesInv, NEW k \in FileOps, OthersStay(k), QuietFiles, RestoreMoves(k),
         PlaceFits(k)', LookedAt(k)', ItemsFit(k)',
         \A p \in FilePaths : DoomedBy(k, p)' => DoomedBy(k, p) \/ (files[p] \in Whole => files[p] \in excused),
         \A j \in Ids0 : UsedUpBy(k, j)' => UsedUpBy(k, j)
  PROVE  FilesInv'
<1>1. UNCHANGED <<files, seen, excused, rows, trash>>
  BY DEF QuietFiles, FilesRest, SafetyRests
<1>2. FilesMove(k) /\ ItemsMove(k) /\ RowsMove(k)
  BY <1>1 DEF FilesMove, ItemsMove, RowsMove
<1>3. WorkspaceFilesTypeOK'
  BY <1>1 DEF FilesInv, WorkspaceFilesTypeOK, OthersStay
<1>4. TrashFits' /\ RowsFit'
  BY <1>1 DEF FilesInv, TrashFits, RowsFit
<1>5. \A c \in seen' \cap Whole : Lasts(c)'
  <2> TAKE c \in seen' \cap Whole
  <2>1. Lasts(c)
    BY <1>1 DEF FilesInv
  <2>2. \A p \in FilePaths : files[p] = c /\ ~Doomed(p) => Lasts(c)' \/ (files'[p] = c /\ ~DoomedBy(k, p)')
    BY <1>1 DEF Lasts, Doomed
  <2>3. \A j \in Ids0 : trash[j].payload = c /\ ~UsedUp(j) =>
            Lasts(c)' \/ (trash'[j].payload = c /\ ~UsedUpBy(k, j)')
    BY <1>1 DEF UsedUp
  <2> QED  BY <1>1, <2>1, <2>2, <2>3, LastsKept
<1> QED  BY <1>2, <1>3, <1>4, <1>5, StepKeeps

\* An operation that moves on to another place.
LEMMA BecomeMoves ==
  ASSUME WorkspaceFilesTypeOK, NEW k \in FileOps, NEW at \in FilePlaces, Become(k, at)
  PROVE  /\ OthersStay(k) /\ fileOps'[k].at = at
         /\ fileOps'[k].kind = fileOps[k].kind /\ fileOps'[k].paths = fileOps[k].paths
         /\ fileOps'[k].to = fileOps[k].to /\ fileOps'[k].from = fileOps[k].from
         /\ fileOps'[k].todo = fileOps[k].todo /\ fileOps'[k].found = fileOps[k].found
         /\ fileOps'[k].copy = fileOps[k].copy
<1>1. fileOps \in [FileOps -> FileOp] /\ fileOps' = [fileOps EXCEPT ![k] = [fileOps[k] EXCEPT !.at = at]]
  BY DEF WorkspaceFilesTypeOK, Become
<1>2. [fileOps[k] EXCEPT !.at = at] \in FileOp
  BY <1>1 DEF FileOp
<1> QED  BY <1>1, <1>2 DEF OthersStay, FileOp

\* An operation that ends where it stands.
LEMMA EndKeeps ==
  ASSUME FilesInv, NEW k \in FileOps, fileOps[k].at # "idle", Become(k, "done"), QuietFiles
  PROVE  FilesInv'
<1>1. WorkspaceFilesTypeOK /\ PlaceFits(k)
  BY DEF FilesInv
<1>2. /\ OthersStay(k) /\ fileOps'[k].at = "done"
      /\ fileOps'[k].kind = fileOps[k].kind /\ fileOps'[k].paths = fileOps[k].paths
      /\ fileOps'[k].to = fileOps[k].to
  BY <1>1, BecomeMoves DEF FilePlaces
<1>3. PlaceFits(k)'
  BY <1>1, <1>2 DEF PlaceFits
<1>4. LookedAt(k)' /\ ItemsFit(k)'
  BY <1>2 DEF LookedAt, ItemsFit
<1>5. RestoreMoves(k) /\ (\A p \in FilePaths : ~DoomedBy(k, p)') /\ (\A j \in Ids0 : ~UsedUpBy(k, j)')
  BY <1>2 DEF RestoreMoves, Restores, DoomedBy, UsedUpBy
<1> QED  BY <1>2, <1>3, <1>4, <1>5, QuietKeeps

-----------------------------------------------------------------------------
(* Requests and looks                                                      *)

LookKinds == {"write", "edit", "patch", "undo", "delete", "move", "copy", "external"}

\* A request that is taken up.
LEMMA FileAskKeeps ==
  ASSUME FilesInv, NEW k \in FileOps, NEW kind \in AllFileKinds, NEW paths \in SUBSET FilePaths,
         NEW to \in 0 .. NPaths, NEW from \in Ids0, NEW at \in {"look", "read", "expire"},
         Ask(k, kind, paths, to, from, at), paths # {},
         kind \in Single => \E p \in FilePaths : paths = {p},
         kind \in {"move", "copy"} => to \in FilePaths \ paths,
         at = "look" => kind \in LookKinds,
         at = "read" => kind = "undelete" /\ trash[from].meta = TRUE /\ from # k,
         at = "expire" => kind = "sweep" /\ from = 0
  PROVE  FilesInv'
<1>0. WorkspaceFilesTypeOK /\ LookedAt(k) /\ ItemsFit(k)
  BY DEF FilesInv
<1>1. NoCopy \in [FilePaths -> Contents]
  BY ContentFacts DEF NoCopy
<1> DEFINE o == [kind |-> kind, paths |-> paths, to |-> to, from |-> from, at |-> at,
                 todo |-> paths, found |-> {}, copy |-> NoCopy]
<1>2. o \in FileOp
  BY <1>1 DEF FileOp, FilePlaces, Ids0
<1>3. fileOps' = [fileOps EXCEPT ![k] = o] /\ fileOps[k].at = "idle" /\ QuietFiles
  <2> DEFINE e == [IdleOp EXCEPT !.kind = kind, !.paths = paths, !.to = to, !.from = from,
                                 !.at = at, !.todo = paths]
  <2>1. IdleOp \in FileOp /\ IdleOp.found = {} /\ IdleOp.copy = NoCopy
    BY <1>1, FileIds DEF IdleOp, FileOp, FilePlaces, AllFileKinds, Ids0
  <2>2. /\ e \in FileOp /\ e.kind = kind /\ e.paths = paths /\ e.to = to /\ e.from = from
        /\ e.at = at /\ e.todo = paths /\ e.found = {} /\ e.copy = NoCopy
    <3> HIDE DEF o
    <3> QED  BY <2>1 DEF FileOp, FilePlaces, Ids0
  <2>3. fileOps' = [fileOps EXCEPT ![k] = e]
    BY DEF Ask
  <2> HIDE DEF e
  <2>4. e = o
    BY <1>2, <2>2 DEF FileOp
  <2> QED  BY <2>3, <2>4 DEF Ask, QuietFiles
<1>4. OthersStay(k) /\ fileOps'[k] = o
  BY <1>0, <1>2, <1>3 DEF OthersStay, WorkspaceFilesTypeOK
<1>5. UNCHANGED <<files, seen, excused, rows, trash>>
  BY <1>3 DEF QuietFiles, FilesRest, SafetyRests
<1>6. PlaceFits(k)'
  BY <1>4 DEF PlaceFits, LookKinds
<1>7. LookedAt(k)'
  BY <1>0, <1>3, <1>4, <1>5 DEF LookedAt
<1>8. trash[k] = NoItem /\ \A j \in FileOps : ~Restores(j, k)
  BY <1>0, <1>3 DEF ItemsFit
<1>9. NoItem.meta = FALSE
  BY DEF NoItem
<1>10. \A j \in FileOps : ~Restores(j, k)'
  <2>1. \A j \in FileOps \ {k} : ~Restores(j, k)'
    BY <1>4, <1>8 DEF OthersStay, Restores
  <2>2. ~Restores(k, k)'
    BY <1>4, <1>8, <1>9 DEF Restores, LookKinds
  <2> QED  BY <2>1, <2>2
<1>11. ItemsFit(k)'
  BY <1>4, <1>5, <1>8, <1>10 DEF ItemsFit
<1>12. RestoreMoves(k)
  <2>1. \A i \in FileOps : ~Restores(k, i)
    BY <1>3 DEF Restores
  <2>2. \A i \in FileOps : Restores(k, i)' => trash[i].meta = TRUE /\ fileOps'[k].at = "read"
    BY <1>4 DEF Restores, LookKinds
  <2> QED  BY <2>1, <2>2 DEF RestoreMoves
<1>13. (\A p \in FilePaths : ~DoomedBy(k, p)') /\ (\A j \in Ids0 : ~UsedUpBy(k, j)')
  BY <1>4 DEF DoomedBy, UsedUpBy
<1> QED  BY <1>3, <1>4, <1>6, <1>7, <1>11, <1>12, <1>13, QuietKeeps

\* Requests keep the invariant.
LEMMA RequestKeeps ==
  ASSUME FilesInv, NEW k \in FileOps, Request(k)
  PROVE  FilesInv'
<1>0. WorkspaceFilesTypeOK /\ RowsFit /\ 0 \in 0 .. NPaths /\ 0 \in Ids0 /\ FilePaths \subseteq 0 .. NPaths
      /\ FilePaths # {}
  BY FileIds DEF FilesInv
<1>1. \A j \in 0 .. k - 1 : j \in Ids0 /\ j # k
  BY FileIds DEF Ids0, FileOps
<1>2. AllFileKinds = {"write", "edit", "patch", "undo", "move", "copy", "delete", "undelete", "external", "sweep"}
      /\ Single = {"write", "edit", "move", "copy", "delete", "undelete", "external", "sweep"}
  BY DEF AllFileKinds, Single
<1>3. CASE RequestText(k)
  <2>1. ASSUME NEW p \in FilePaths, NEW kind \in {"write", "edit"}, Ask(k, kind, {p}, 0, 0, "look")
        PROVE  FilesInv'
    BY <1>0, <1>2, <2>1, FileAskKeeps DEF LookKinds
  <2>2. CASE Ask(k, "patch", FilePaths, 0, 0, "look")
    BY <1>0, <1>2, <2>2, FileAskKeeps DEF LookKinds
  <2> QED  BY <1>3, <2>1, <2>2 DEF RequestText
<1>4. CASE RequestUndo(k)
  <2>1. PICK j \in 0 .. k - 1 : rows[j].kept /\ Ask(k, "undo", Saved(j), 0, j, "look")
    BY <1>4 DEF RequestUndo
  <2>2. rows[j].kept = TRUE
    BY <1>0, <1>1, <2>1 DEF WorkspaceFilesTypeOK, Ids0
  <2>3. Saved(j) \in SUBSET FilePaths /\ Saved(j) # {}
    BY <1>0, <1>1, <2>2 DEF RowsFit, Saved
  <2> QED  BY <1>0, <1>1, <1>2, <2>1, <2>3, FileAskKeeps DEF LookKinds
<1>5. CASE RequestTransfer(k)
  <2>1. PICK p \in FilePaths, q \in FilePaths, kind \in {"move", "copy"} : p # q /\ Ask(k, kind, {p}, q, 0, "look")
    BY <1>5 DEF RequestTransfer
  <2> QED  BY <1>0, <1>2, <2>1, FileAskKeeps DEF LookKinds
<1>6. CASE RequestDelete(k) \/ RequestExternal(k)
  <2>1. PICK p \in FilePaths, kind \in {"delete", "external"} : Ask(k, kind, {p}, 0, 0, "look")
    BY <1>6 DEF RequestDelete, RequestExternal
  <2> QED  BY <1>0, <1>2, <2>1, FileAskKeeps DEF LookKinds
<1>7. CASE RequestItem(k)
  <2>1. PICK j \in 0 .. k - 1, kind \in {"undelete", "sweep"} :
          /\ trash[j].meta /\ (kind = "sweep" => j = 0)
          /\ Ask(k, kind, {trash[j].path}, 0, j, IF kind = "sweep" THEN "expire" ELSE "read")
    BY <1>7 DEF RequestItem
  <2>2. trash[j].meta = TRUE /\ trash[j].path \in FilePaths
    BY <1>0, <1>1, <2>1 DEF WorkspaceFilesTypeOK, Ids0, Item
  <2>3. CASE kind = "sweep"
    BY <1>0, <1>1, <1>2, <2>1, <2>2, <2>3, FileAskKeeps DEF LookKinds
  <2>4. CASE kind = "undelete"
    BY <1>0, <1>1, <1>2, <2>1, <2>2, <2>4, FileAskKeeps DEF LookKinds
  <2> QED  BY <2>1, <2>3, <2>4
<1> QED  BY <1>3, <1>4, <1>5, <1>6, <1>7 DEF Request

\* So do looks: what is not there when it is looked at is nothing that could be lost.
LEMMA LookKeeps ==
  ASSUME FilesInv, NEW k \in FileOps, Look(k)
  PROVE  FilesInv'
<1> DEFINE o == fileOps[k]
           p == Cursor(k)
           found == IF Exists(p) THEN o.found \cup {p} ELSE o.found
           rest == o.todo \ {p}
           after == [o EXCEPT !.found = found, !.at = IF rest # {} THEN "look" ELSE AfterLook(o, found),
                              !.todo = IF rest # {} THEN rest ELSE AfterLookTodo(o, found)]
<1>0. /\ WorkspaceFilesTypeOK /\ PlaceFits(k) /\ LookedAt(k) /\ ItemsFit(k) /\ o \in FileOp
      /\ fileOps \in [FileOps -> FileOp]
  BY DEF FilesInv, WorkspaceFilesTypeOK
<1>1. o.at = "look" /\ QuietFiles /\ (Become(k, "done") \/ fileOps' = [fileOps EXCEPT ![k] = after])
  BY DEF Look, QuietFiles
<1>2. /\ o.todo # {} /\ o.todo \subseteq o.paths /\ o.kind \in LookKinds /\ o.found \subseteq o.paths \ o.todo
      /\ o.paths \subseteq FilePaths /\ o.todo \in SUBSET FilePaths
  BY <1>0, <1>1 DEF PlaceFits, LookKinds, FileOp
<1>3. p \in o.todo
  BY <1>2, NextIsOne DEF Cursor
<1>4. UNCHANGED <<files, seen, excused, rows, trash>>
  BY <1>1 DEF QuietFiles, FilesRest, SafetyRests
<1>5. CASE Become(k, "done")
  BY <1>1, <1>5, EndKeeps
<1>6. CASE fileOps' = [fileOps EXCEPT ![k] = after]
  <2>1. found \in SUBSET FilePaths /\ found \subseteq o.paths \ rest /\ o.found \subseteq found
        /\ (Exists(p) => p \in found)
    BY <1>2, <1>3
  <2>2. AfterLook(o, found) \in {"snap", "store", "aim", "provider", "secure"}
    BY DEF AfterLook
  <2>3. AfterLookTodo(o, found) \in SUBSET FilePaths
    BY <1>2, <2>1 DEF AfterLookTodo
  <2>4. rest \in SUBSET FilePaths
    BY <1>2
  <2> HIDE DEF found, rest
  <2>5. /\ after \in FileOp /\ after.kind = o.kind /\ after.paths = o.paths /\ after.to = o.to
        /\ after.from = o.from /\ after.copy = o.copy /\ after.found = found
        /\ after.at = IF rest # {} THEN "look" ELSE AfterLook(o, found)
        /\ after.todo = IF rest # {} THEN rest ELSE AfterLookTodo(o, found)
    BY <1>0, <2>1, <2>2, <2>3, <2>4 DEF FileOp, FilePlaces
  <2> HIDE DEF after
  <2>6. OthersStay(k) /\ fileOps'[k] = after
    BY <1>0, <1>6, <2>5 DEF OthersStay
  <2>7. \A q \in o.paths \ (rest \cup found) : files[q] \in Whole => files[q] \in excused
    <3>1. \A q \in o.paths \ (o.todo \cup o.found) : files[q] \in Whole => files[q] \in excused
      BY <1>0, <1>1 DEF LookedAt
    <3>2. p \notin found => files[p] \notin Whole
      BY <2>1, ContentFacts DEF Exists
    <3> QED  BY <2>1, <3>1, <3>2 DEF rest
  <2>8. after.at # "look" => rest = {}
    BY <2>5
  <2>9. \/ after.at = "look" /\ rest # {} /\ after.todo = rest
        \/ rest = {} /\ o.kind = "delete" /\ after.at = "snap" /\ after.todo = o.paths
        \/ rest = {} /\ o.kind \in {"move", "copy"} /\ after.at = "aim" /\ after.todo = {}
        \/ rest = {} /\ o.kind = "external" /\ found = {} /\ after.at = "provider" /\ after.todo = {}
        \/ rest = {} /\ o.kind = "external" /\ found # {} /\ after.at = "secure" /\ after.todo = {}
        \/ /\ rest = {} /\ o.kind \in {"write", "edit", "patch", "undo"} /\ found = {}
           /\ after.at = "store" /\ after.todo = o.paths
        \/ /\ rest = {} /\ o.kind \in {"write", "edit", "patch", "undo"} /\ found # {}
           /\ after.at = "snap" /\ after.todo = found
    BY <1>2, <2>5 DEF AfterLook, AfterLookTodo, LookKinds
  <2>10. PlaceFits(k)'
    <3>1. o.kind \in Single => \E q \in FilePaths : o.paths = {q}
      BY <1>0, <1>1 DEF PlaceFits
    <3>2. o.kind \in {"move", "copy"} => o.to \in FilePaths \ o.paths
      BY <1>0, <1>1 DEF PlaceFits
    <3>3. o.copy = NoCopy /\ o.paths # {} /\ rest \subseteq o.paths
      BY <1>0, <1>1, <1>2 DEF PlaceFits, rest
    <3> HIDE DEF o
    <3> QED  BY <1>2, <2>1, <2>5, <2>6, <2>9, <3>1, <3>2, <3>3 DEF PlaceFits, LookKinds
  <2>11. LookedAt(k)'
    <3>1. rows[k].kept = FALSE
      BY <1>0, <1>1 DEF LookedAt
    <3> HIDE DEF o
    <3> QED  BY <1>4, <2>1, <2>5, <2>6, <2>7, <2>9, <3>1 DEF LookedAt
  <2>12. ItemsFit(k)'
    <3>1. trash[k] = NoItem /\ \A j \in FileOps : ~Restores(j, k)
      BY <1>0, <1>1 DEF ItemsFit
    <3>2. \A j \in FileOps \ {k} : ~Restores(j, k)'
      BY <2>6, <3>1 DEF OthersStay, Restores
    <3>3. ~Restores(k, k)'
      BY <1>2, <2>5, <2>6 DEF Restores, LookKinds
    <3>4. after.kind # "undelete"
      BY <1>2, <2>5 DEF LookKinds
    <3>5. after.at \in {"look", "snap", "aim", "provider", "secure", "store"}
      BY <2>9
    <3> QED  BY <1>4, <2>6, <3>1, <3>2, <3>3, <3>4, <3>5 DEF ItemsFit
  <2>13. RestoreMoves(k)
    BY <1>2, <2>5, <2>6 DEF RestoreMoves, Restores, LookKinds
  <2>14. \A q \in FilePaths : DoomedBy(k, q)' => (files[q] \in Whole => files[q] \in excused)
    <3> HIDE DEF o
    <3> QED  BY <2>5, <2>6, <2>7, <2>9 DEF DoomedBy
  <2>15. \A j \in Ids0 : ~UsedUpBy(k, j)'
    BY <2>6, <2>9 DEF UsedUpBy
  <2> QED  BY <1>1, <2>6, <2>10, <2>11, <2>12, <2>13, <2>14, <2>15, QuietKeeps
<1> QED  BY <1>1, <1>5, <1>6

\* An operation that has ended is asked for nothing.
LEMMA DoneFits ==
  ASSUME NEW k \in FileOps, PlaceFits(k), fileOps[k].at # "idle", fileOps'[k].at = "done",
         fileOps'[k].kind = fileOps[k].kind, fileOps'[k].paths = fileOps[k].paths,
         fileOps'[k].to = fileOps[k].to
  PROVE  /\ PlaceFits(k)' /\ LookedAt(k)' /\ ItemsFit(k)' /\ RestoreMoves(k)
         /\ (\A p \in FilePaths : ~DoomedBy(k, p)') /\ (\A j \in Ids0 : ~UsedUpBy(k, j)')
<1>1. PlaceFits(k)'
  BY DEF PlaceFits
<1>2. LookedAt(k)' /\ ItemsFit(k)'
  BY DEF LookedAt, ItemsFit
<1>3. RestoreMoves(k) /\ (\A p \in FilePaths : ~DoomedBy(k, p)') /\ (\A j \in Ids0 : ~UsedUpBy(k, j)')
  BY DEF RestoreMoves, Restores, DoomedBy, UsedUpBy
<1> QED  BY <1>1, <1>2, <1>3

\* What a destination is looked at for.
LEMMA AimKeeps ==
  ASSUME FilesInv, NEW k \in FileOps, Aim(k)
  PROVE  FilesInv'
<1>0. WorkspaceFilesTypeOK /\ PlaceFits(k) /\ fileOps[k].at = "aim" /\ QuietFiles
  BY DEF FilesInv, Aim, QuietFiles
<1>1. CASE Become(k, "done")
  BY <1>0, <1>1, EndKeeps
<1>2. CASE ~Exists(fileOps[k].to) /\ Become(k, "transfer")
  <2>1. /\ OthersStay(k) /\ fileOps'[k].at = "transfer"
        /\ fileOps'[k].kind = fileOps[k].kind /\ fileOps'[k].paths = fileOps[k].paths
        /\ fileOps'[k].to = fileOps[k].to
    BY <1>0, <1>2, BecomeMoves DEF FilePlaces
  <2>2. PlaceFits(k)' /\ fileOps[k].kind # "undelete"
    BY <1>0, <2>1 DEF PlaceFits
  <2>3. LookedAt(k)' /\ ItemsFit(k)'
    BY <2>1 DEF LookedAt, ItemsFit
  <2>4. RestoreMoves(k) /\ \A j \in Ids0 : ~UsedUpBy(k, j)'
    BY <2>1, <2>2 DEF RestoreMoves, Restores, UsedUpBy
  <2>5. \A p \in FilePaths : DoomedBy(k, p)' => files[p] \notin Whole
    BY <1>2, <2>1, ContentFacts DEF DoomedBy, Exists
  <2> QED  BY <1>0, <2>1, <2>2, <2>3, <2>4, <2>5, QuietKeeps
<1> QED  BY <1>1, <1>2 DEF Aim

\* What a restore looks at.
LEMMA ReadItemKeeps ==
  ASSUME FilesInv, NEW k \in FileOps, ReadItem(k)
  PROVE  FilesInv'
<1> DEFINE o == fileOps[k]
           p == Target(k)
           at == IF Exists(p) THEN "secure" ELSE "return"
           found == IF Exists(p) THEN {p} ELSE {}
           after == [o EXCEPT !.at = at, !.found = found]
<1>0. /\ WorkspaceFilesTypeOK /\ PlaceFits(k) /\ ItemsFit(k) /\ TrashFits /\ o.at = "read" /\ QuietFiles
      /\ o \in FileOp /\ fileOps \in [FileOps -> FileOp] /\ trash \in [Ids0 -> Item]
  BY DEF FilesInv, ReadItem, QuietFiles, WorkspaceFilesTypeOK, Ids0
<1>1. o.kind = "undelete" /\ p \in FilePaths /\ o.paths = {p} /\ o.from \in Ids0
  <2>1. o.kind = "undelete"
    BY <1>0 DEF PlaceFits
  <2> QED  BY <1>0, <2>1, TargetIsThePath DEF Single, AllFileKinds, FileOp, Ids0
<1>2. UNCHANGED <<files, seen, excused, rows, trash>>
  BY <1>0 DEF QuietFiles, FilesRest, SafetyRests
<1>3. CASE Become(k, "done")
  BY <1>0, <1>3, EndKeeps
<1>4. CASE ~(Exists(p) /\ trash[From(k)].kind = "deleted") /\ fileOps' = [fileOps EXCEPT ![k] = after]
  <2>1. found \in SUBSET FilePaths /\ at \in {"secure", "return"}
    BY <1>1
  <2>2. at = "return" => found = {} /\ files[p] \notin Whole
    BY ContentFacts DEF Exists
  <2>3. at = "secure" => trash[o.from].kind = "replacement_backup"
    BY <1>0, <1>1, <1>4 DEF From, Item
  <2> HIDE DEF found, at
  <2>4. /\ after \in FileOp /\ after.at = at /\ after.found = found /\ after.kind = "undelete"
        /\ after.paths = {p} /\ after.from = o.from /\ after.to = o.to
    BY <1>0, <1>1, <2>1 DEF FileOp, FilePlaces
  <2> HIDE DEF after
  <2>5. OthersStay(k) /\ fileOps'[k] = after
    BY <1>0, <1>4, <2>4 DEF OthersStay
  <2> HIDE DEF o
  <2>6. PlaceFits(k)'
    BY <1>1, <2>1, <2>2, <2>4, <2>5 DEF PlaceFits
  <2>7. LookedAt(k)'
    BY <2>1, <2>4, <2>5 DEF LookedAt
  <2>8. \A i \in FileOps : Restores(k, i)' => Restores(k, i) /\ o.from = i
    BY <1>0, <1>1, <2>4, <2>5 DEF Restores, o
  <2>9. ItemsFit(k)'
    <3>1. trash[k] = NoItem /\ \A j \in FileOps : ~Restores(j, k)
      BY <1>0 DEF ItemsFit, o
    <3>2. \A j \in FileOps : ~Restores(j, k)'
      BY <2>5, <2>8, <3>1 DEF OthersStay, Restores
    <3> QED  BY <1>2, <2>1, <2>3, <2>4, <2>5, <3>1, <3>2 DEF ItemsFit
  <2>10. RestoreMoves(k)
    <3>1. at = "secure" => trash[o.from].kind # "deleted"
      BY <2>3
    <3> QED  BY <2>1, <2>4, <2>5, <2>8, <3>1 DEF RestoreMoves
  <2>11. \A q \in FilePaths : DoomedBy(k, q)' => files[q] \notin Whole
    BY <2>1, <2>2, <2>4, <2>5 DEF DoomedBy
  <2>12. \A j \in Ids0 : ~UsedUpBy(k, j)'
    BY <2>1, <2>4, <2>5 DEF UsedUpBy
  <2> QED  BY <1>0, <2>5, <2>6, <2>7, <2>9, <2>10, <2>11, <2>12, QuietKeeps
<1> QED  BY <1>3, <1>4 DEF ReadItem

-----------------------------------------------------------------------------
(* Checkpoints and writes                                                  *)

\* What is put at a path lasts, and so does everything else, if what was there
\* lasts elsewhere.
LEMMA PutKeepsAll ==
  ASSUME FilesInv, NEW k \in FileOps, OthersStay(k), NEW p \in FilePaths, NEW c \in Contents,
         Put(p, c, k), rows' = rows, ~DoomedBy(k, p)', Doomed(p) \/ files[p] \notin Whole,
         \A q \in FilePaths \ {p} : DoomedBy(k, q)' =>
           DoomedBy(k, q) \/ files[q] = c \/ files[q] \notin Whole,
         \A j \in Ids0 : ~UsedUp(j) => \/ trash'[j].payload = trash[j].payload /\ ~UsedUpBy(k, j)'
                                       \/ trash[j].payload = c \/ trash[j].payload \notin Whole
  PROVE  /\ FilesMove(k) /\ files' \in [FilePaths -> Contents]
         /\ seen' \subseteq Contents /\ excused' \subseteq Contents
         /\ \A d \in seen' \cap Whole : Lasts(d)'
<1>0. /\ files \in [FilePaths -> Contents] /\ seen \subseteq Contents /\ excused \subseteq Contents
      /\ \A j \in FileOps : PlaceFits(j)
  BY DEF FilesInv, WorkspaceFilesTypeOK
<1>1. /\ files' = [files EXCEPT ![p] = c] /\ seen' = seen \cup {c} /\ excused' = excused \cup BehindBack(p, c, k)
  BY DEF Put
<1>2. files' \in [FilePaths -> Contents] /\ files'[p] = c /\ \A q \in FilePaths \ {p} : files'[q] = files[q]
  BY <1>0, <1>1
<1>3. BehindBack(p, c, k) \subseteq {c}
  BY DEF BehindBack
<1>4. seen' \subseteq Contents /\ excused' \subseteq Contents /\ excused \subseteq excused'
  BY <1>0, <1>1, <1>3
<1>5. FilesMove(k)
  BY <1>1, <1>2, <1>4 DEF FilesMove, BehindBack
<1>6. Lasts(c)'
  BY <1>0, <1>1, <1>2, PutLasts
<1>7. ASSUME NEW d \in seen \cap Whole, d # c PROVE Lasts(d)'
  <2>1. Lasts(d)
    BY DEF FilesInv
  <2>2. \A q \in FilePaths : files[q] = d /\ ~Doomed(q) => files'[q] = d /\ ~DoomedBy(k, q)'
    BY <1>2, <1>7 DEF Doomed
  <2>3. \A j \in Ids0 : trash[j].payload = d /\ ~UsedUp(j) => trash'[j].payload = d /\ ~UsedUpBy(k, j)'
    BY <1>7
  <2> QED  BY <1>4, <2>1, <2>2, <2>3, LastsKept
<1> QED  BY <1>1, <1>2, <1>4, <1>5, <1>6, <1>7

\* A store replaces what the checkpoint has, or what came since.
LEMMA StoreKeeps ==
  ASSUME FilesInv, NEW k \in FileOps, Store(k)
  PROVE  FilesInv'
<1> DEFINE o == fileOps[k]
<1>1. /\ o.todo \in SUBSET FilePaths /\ o.todo # {} /\ o.todo \subseteq o.paths
      /\ o.kind \in {"write", "edit", "patch", "undo"} /\ o.from \in Ids0
  BY DEF PlaceFits, FileOp, Ids0, FilesInv, Store, WorkspaceFilesTypeOK
<1>2. PICK p \in o.todo : p = Cursor(k)
  BY <1>1, NextIsOne DEF Cursor
<1>2a. p \in FilePaths
  BY <1>1
<1> DEFINE rest == o.todo \ {p}
<1>3a. PICK c : c = Written(k, p)
  OBVIOUS
<1>0. /\ WorkspaceFilesTypeOK /\ PlaceFits(k) /\ TrashFits /\ RowsFit /\ o.at = "store" /\ SafetyRests
      /\ o \in FileOp /\ fileOps \in [FileOps -> FileOp] /\ Put(p, c, k)
      /\ BecomeWith(k, IF rest = {} THEN "done" ELSE "store", rest)
  BY <1>2, <1>3a DEF FilesInv, Store, WorkspaceFilesTypeOK
<1>3. c \in Contents
  <2>1. <<k, p>> \in Contents
    BY <1>2a, ContentFacts, FileIds
  <2>2. rows[o.from].saved[p] \in Contents
    BY <1>0, <1>1, <1>2a DEF WorkspaceFilesTypeOK, Ids0
  <2> QED  BY <2>1, <2>2, <1>3a DEF Written
<1> DEFINE at == IF rest = {} THEN "done" ELSE "store"
           after == [o EXCEPT !.at = at, !.todo = rest]
<1>4. rest \in SUBSET FilePaths /\ rest \subseteq o.paths /\ rest \subseteq o.todo /\ p \notin rest
  BY <1>1 DEF rest
<1>5. at \in {"done", "store"} /\ (at = "store" => rest # {})
  OBVIOUS
<1> HIDE DEF rest, at
<1>6. /\ after \in FileOp /\ after.at = at /\ after.todo = rest /\ after.kind = o.kind
      /\ after.paths = o.paths /\ after.from = o.from /\ after.to = o.to
  BY <1>0, <1>4, <1>5 DEF FileOp, FilePlaces
<1>7. fileOps' = [fileOps EXCEPT ![k] = after]
  BY <1>0 DEF BecomeWith, at
<1> HIDE DEF after
<1>8. OthersStay(k) /\ fileOps'[k] = after
  BY <1>0, <1>6, <1>7 DEF OthersStay
<1>9. UNCHANGED <<rows, trash>>
  BY <1>0 DEF SafetyRests
<1>10. \A q \in FilePaths : DoomedBy(k, q)' => DoomedBy(k, q) /\ q \in rest
  BY <1>0, <1>4, <1>5, <1>6, <1>8 DEF DoomedBy
<1>11. Doomed(p)
  BY <1>0, <1>2, <1>2a DEF Doomed, DoomedBy
<1>12. \A j \in Ids0 : ~UsedUpBy(k, j)'
  BY <1>5, <1>6, <1>8 DEF UsedUpBy
<1>13. /\ FilesMove(k) /\ files' \in [FilePaths -> Contents]
       /\ seen' \subseteq Contents /\ excused' \subseteq Contents
       /\ \A d \in seen' \cap Whole : Lasts(d)'
  <2>1. ~DoomedBy(k, p)'
    BY <1>2a, <1>4, <1>10
  <2> QED  BY <1>0, <1>2a, <1>3, <1>8, <1>9, <1>10, <1>11, <1>12, <2>1, PutKeepsAll
<1>14. WorkspaceFilesTypeOK' /\ TrashFits' /\ RowsFit'
  BY <1>0, <1>8, <1>9, <1>13 DEF WorkspaceFilesTypeOK, OthersStay, TrashFits, RowsFit
<1>15. ItemsMove(k) /\ RowsMove(k)
  BY <1>9 DEF ItemsMove, RowsMove
<1>16. PlaceFits(k)' /\ LookedAt(k)' /\ ItemsFit(k)' /\ RestoreMoves(k)
  <2> HIDE DEF o
  <2>1. PlaceFits(k)'
    <3>1. o.kind \in Single => \E q \in FilePaths : o.paths = {q}
      BY <1>0 DEF PlaceFits, o
    <3> QED  BY <1>1, <1>4, <1>5, <1>6, <1>8, <3>1 DEF PlaceFits
  <2>2. LookedAt(k)' /\ ItemsFit(k)'
    BY <1>5, <1>6, <1>8 DEF LookedAt, ItemsFit
  <2>3. RestoreMoves(k)
    BY <1>1, <1>6, <1>8 DEF RestoreMoves, Restores
  <2> QED  BY <2>1, <2>2, <2>3
<1> QED  BY <1>8, <1>13, <1>14, <1>15, <1>16, StepKeeps

\* A checkpoint is read file by file, and saved when it has them all: a delete
\* may go on without one, everything else may not.
LEMMA SnapKeeps ==
  ASSUME FilesInv, NEW k \in FileOps, Snap(k)
  PROVE  FilesInv'
<1>1. PICK o : o = fileOps[k]
  OBVIOUS
<1>2. /\ WorkspaceFilesTypeOK /\ PlaceFits(k) /\ LookedAt(k) /\ ItemsFit(k) /\ TrashFits /\ RowsFit
      /\ o.at = "snap" /\ UNCHANGED <<files, seen, trash>> /\ excused \subseteq Contents
      /\ o \in FileOp /\ fileOps \in [FileOps -> FileOp]
      /\ rows \in [Ids0 -> [kept : BOOLEAN, saved : [FilePaths -> Contents]]]
      /\ files \in [FilePaths -> Contents]
  BY <1>1 DEF FilesInv, Snap, WorkspaceFilesTypeOK, Ids0
<1>3. /\ o.todo \in SUBSET FilePaths /\ o.todo # {} /\ o.todo \subseteq o.paths /\ o.paths \in SUBSET FilePaths
      /\ o.kind \in {"write", "edit", "patch", "undo", "delete"}
      /\ o.kind = "delete" => o.todo = o.paths /\ o.copy = NoCopy
      /\ o.copy \in [FilePaths -> Contents] /\ k \in Ids0
  BY <1>1, <1>2, FileIds DEF PlaceFits, FileOp
<1>4. /\ o.kind \in Single => \E q \in FilePaths : o.paths = {q}
      /\ \A q \in o.paths \ o.todo : files[q] \in Whole => files[q] \in excused \/ o.copy[q] = files[q]
      /\ rows[k].kept = FALSE /\ trash[k] = NoItem /\ \A j \in FileOps : ~Restores(j, k)
  BY <1>1, <1>2 DEF PlaceFits, LookedAt, ItemsFit
<1>5. PICK p \in o.todo : p = Cursor(k)
  BY <1>1, <1>3, NextIsOne DEF Cursor
<1>6. PICK rest : rest = o.todo \ {p}
  OBVIOUS
<1>7. AfterSnap(o) \in SUBSET {"store", "bin", "unlink"} /\ (o.kind # "delete" => AfterSnap(o) = {"store"})
      /\ (o.kind = "delete" => AfterSnap(o) \subseteq {"bin", "unlink"})
  BY DEF AfterSnap
<1>8. CASE Uncheckpointable(p)
  <2>1. UNCHANGED <<rows, excused>> /\ \E at \in IF o.kind = "delete" THEN AfterSnap(o) ELSE {"done"} : Become(k, at)
    BY <1>1, <1>5, <1>8 DEF Snap
  <2>2. QuietFiles
    BY <1>2, <2>1 DEF QuietFiles, SafetyRests, FilesRest
  <2>3. CASE o.kind # "delete"
    BY <1>1, <1>2, <2>1, <2>2, <2>3, EndKeeps
  <2>4. CASE o.kind = "delete"
    <3>1. PICK at \in {"bin", "unlink"} : Become(k, at)
      BY <1>7, <2>1, <2>4
    <3>2. /\ OthersStay(k) /\ fileOps'[k].at = at /\ fileOps'[k].kind = "delete"
          /\ fileOps'[k].paths = o.paths /\ fileOps'[k].copy = NoCopy
      BY <1>1, <1>2, <1>3, <2>4, <3>1, BecomeMoves DEF FilePlaces
    <3>3. PlaceFits(k)'
      BY <1>4, <2>4, <3>2 DEF PlaceFits, Single, AllFileKinds
    <3>4. \A j \in FileOps : ~Restores(j, k)'
      BY <1>4, <3>2 DEF OthersStay, Restores
    <3>5. LookedAt(k)' /\ ItemsFit(k)'
      BY <1>2, <1>4, <3>2, <3>4 DEF LookedAt, ItemsFit
    <3>6. RestoreMoves(k)
      BY <3>2 DEF RestoreMoves, Restores
    <3>7. (\A q \in FilePaths : ~DoomedBy(k, q)') /\ (\A j \in Ids0 : ~UsedUpBy(k, j)')
      BY <3>2 DEF DoomedBy, UsedUpBy
    <3> QED  BY <2>2, <3>2, <3>3, <3>5, <3>6, <3>7, QuietKeeps
  <2> QED  BY <2>3, <2>4
<1>9. CASE ~Uncheckpointable(p)
  <2>1. PICK copy : copy = Snapshot(o, p)
    OBVIOUS
  <2>2. PICK todo : todo = IF rest # {} THEN rest ELSE o.paths
    OBVIOUS
  <2>3. PICK at \in IF rest # {} THEN {"snap"} ELSE AfterSnap(o) :
          fileOps' = [fileOps EXCEPT ![k] = [o EXCEPT !.copy = copy, !.at = at, !.todo = todo]]
    BY <1>1, <1>5, <1>6, <1>9, <2>1, <2>2 DEF Snap
  <2>4. rows' = IF rest # {} THEN rows ELSE [rows EXCEPT ![k] = [kept |-> TRUE, saved |-> copy]]
    BY <1>1, <1>5, <1>6, <1>9, <2>1 DEF Snap
  <2>5. files[p] \in Contents /\ files[p] # NoFile
    BY <1>2, <1>3, <1>9 DEF Uncheckpointable, Exists
  <2>6. /\ copy \in [FilePaths -> Contents] /\ copy[p] \in Contents /\ copy[p] # NoFile
        /\ (files[p] \in Whole \ NotUtf8 => copy[p] = files[p])
        /\ \A q \in FilePaths \ {p} : copy[q] = o.copy[q]
    BY <1>3, <2>1, <2>5, ContentFacts DEF Snapshot
  <2>7. todo \in SUBSET FilePaths /\ todo # {} /\ todo \subseteq o.paths
    BY <1>3, <1>6, <2>2
  <2>15. /\ UNCHANGED <<files, seen, trash>> /\ excused \subseteq excused' /\ excused' \subseteq Contents
         /\ files[p] \in NotUtf8 => files[p] \in excused'
    BY <1>1, <1>2, <1>5, <1>9, <2>5 DEF Snap
  <2>8. /\ rest # {} => at = "snap" /\ todo = rest /\ o.kind # "delete"
        /\ rest = {} => at \in {"store", "bin", "unlink"} /\ todo = o.paths
        /\ rest = {} /\ o.kind = "delete" => at \in {"bin", "unlink"}
        /\ rest = {} /\ o.kind # "delete" => at = "store"
    <3>1. o.kind = "delete" => o.todo = {p}
      BY <1>3, <1>4 DEF Single, AllFileKinds
    <3> QED  BY <1>6, <1>7, <2>2, <2>3, <3>1
  <2>9. PICK after : after = [o EXCEPT !.copy = copy, !.at = at, !.todo = todo]
    OBVIOUS
  <2>10. /\ after \in FileOp /\ after.at = at /\ after.todo = todo /\ after.copy = copy
         /\ after.kind = o.kind /\ after.paths = o.paths /\ after.to = o.to
    BY <1>2, <2>6, <2>7, <2>8, <2>9 DEF FileOp, FilePlaces
  <2>11. OthersStay(k) /\ fileOps'[k] = after
    BY <1>2, <2>3, <2>9, <2>10 DEF OthersStay
  <2>12. PlaceFits(k)'
    BY <1>3, <1>4, <2>7, <2>8, <2>10, <2>11 DEF PlaceFits
  <2>13. \A q \in o.paths \ rest : files[q] \in Whole => files[q] \in excused' \/ copy[q] = files[q]
    BY <1>3, <1>4, <1>6, <2>6, <2>15
  <2>14. \A j \in FileOps : ~Restores(j, k)'
    BY <1>3, <1>4, <2>10, <2>11 DEF OthersStay, Restores
  <2>16. ItemsFit(k)'
    BY <1>3, <1>4, <2>8, <2>10, <2>11, <2>14, <2>15 DEF ItemsFit
  <2>17. RestoreMoves(k)
    BY <1>3, <2>10, <2>11 DEF RestoreMoves, Restores
  <2>18. \A j \in Ids0 : ~UsedUpBy(k, j)'
    BY <2>8, <2>10, <2>11 DEF UsedUpBy
  <2>19. CASE rest # {}
    <3>1. LookedAt(k)'
      BY <1>4, <2>4, <2>8, <2>10, <2>11, <2>13, <2>15, <2>19 DEF LookedAt
    <3>2. \A q \in FilePaths : ~DoomedBy(k, q)'
      BY <2>8, <2>10, <2>11, <2>19 DEF DoomedBy
    <3>3. UNCHANGED rows /\ RowsMove(k) /\ FilesMove(k) /\ ItemsMove(k)
      BY <2>4, <2>15, <2>19 DEF RowsMove, FilesMove, ItemsMove
    <3>4. WorkspaceFilesTypeOK' /\ TrashFits' /\ RowsFit'
      BY <1>2, <2>11, <2>15, <3>3 DEF WorkspaceFilesTypeOK, OthersStay, TrashFits, RowsFit, Ids0
    <3>5. \A c \in seen' \cap Whole : Lasts(c)'
      <4> TAKE c \in seen' \cap Whole
      <4>1. Lasts(c)
        BY <2>15 DEF FilesInv
      <4>2. \A q \in FilePaths : files[q] = c /\ ~Doomed(q) => Lasts(c)' \/ (files'[q] = c /\ ~DoomedBy(k, q)')
        BY <2>15, <3>2
      <4>3. \A j \in Ids0 : trash[j].payload = c /\ ~UsedUp(j) =>
              Lasts(c)' \/ (trash'[j].payload = c /\ ~UsedUpBy(k, j)')
        BY <2>15, <2>18
      <4> QED  BY <2>11, <2>15, <3>3, <4>1, <4>2, <4>3, LastsKept
    <3> QED  BY <2>11, <2>12, <2>16, <2>17, <3>1, <3>3, <3>4, <3>5, StepKeeps
  <2>20. CASE rest = {}
    <3>1. LookedAt(k)'
      BY <2>8, <2>10, <2>11, <2>20 DEF LookedAt
    <3>2. /\ rows' \in [Ids0 -> [kept : BOOLEAN, saved : [FilePaths -> Contents]]]
          /\ rows'[k].kept = TRUE /\ rows'[k].saved = copy
          /\ \A j \in Ids0 \ {k} : rows'[j] = rows[j]
      BY <1>2, <1>3, <2>4, <2>6, <2>20
    <3>3. RowsMove(k) /\ \A j \in Ids0 : rows[j].kept = TRUE => rows'[j] = rows[j]
      BY <1>4, <3>2, FileIds DEF RowsMove
    <3>4. RowsFit'
      <4>1. p \in FilePaths /\ rows'[k].saved[p] # NoFile
        BY <1>3, <2>6, <3>2
      <4>2. \A j \in Ids0 \ {k} : rows'[j].kept = TRUE => \E q \in FilePaths : rows'[j].saved[q] # NoFile
        BY <1>2, <3>2 DEF RowsFit
      <4> QED  BY <4>1, <4>2 DEF RowsFit
    <3>5. WorkspaceFilesTypeOK' /\ TrashFits'
      BY <1>2, <2>11, <2>15, <3>2 DEF WorkspaceFilesTypeOK, OthersStay, TrashFits, Ids0
    <3>6. FilesMove(k) /\ ItemsMove(k)
      BY <2>15 DEF FilesMove, ItemsMove
    <3>7. \A c \in seen' \cap Whole : Lasts(c)'
      <4> TAKE c \in seen' \cap Whole
      <4>1. Lasts(c) /\ excused \subseteq excused'
        BY <2>15 DEF FilesInv
      <4>2. ASSUME NEW q \in FilePaths, files[q] = c, DoomedBy(k, q)' PROVE Lasts(c)'
        <5>1. q \in o.paths
          BY <2>7, <2>8, <2>10, <2>11, <2>20, <4>2 DEF DoomedBy
        <5>2. c \in excused' \/ copy[q] = c
          BY <2>13, <2>20, <4>2, <5>1
        <5> QED  BY <1>3, <2>15, <3>2, <4>2, <5>2 DEF Lasts, InRow
      <4>3. \A q \in FilePaths : files[q] = c /\ ~Doomed(q) => Lasts(c)' \/ (files'[q] = c /\ ~DoomedBy(k, q)')
        BY <2>15, <4>2
      <4>4. \A j \in Ids0 : trash[j].payload = c /\ ~UsedUp(j) =>
              Lasts(c)' \/ (trash'[j].payload = c /\ ~UsedUpBy(k, j)')
        BY <2>15, <2>18
      <4> QED  BY <2>11, <3>3, <4>1, <4>3, <4>4, LastsKept
    <3> QED  BY <2>11, <2>12, <2>16, <2>17, <3>1, <3>3, <3>4, <3>5, <3>6, <3>7, StepKeeps
  <2> QED  BY <2>19, <2>20
<1> QED  BY <1>8, <1>9

-----------------------------------------------------------------------------
(* Deletes and moves                                                       *)

\* The place in the trash is made.
LEMMA BinKeeps ==
  ASSUME FilesInv, NEW k \in FileOps, Bin(k)
  PROVE  FilesInv'
<1>1. PICK o : o = fileOps[k]
  OBVIOUS
<1>2. PICK p : p = Target(k)
  OBVIOUS
<1>3. /\ WorkspaceFilesTypeOK /\ PlaceFits(k) /\ ItemsFit(k) /\ TrashFits /\ RowsFit
      /\ o.at = "bin" /\ FilesRest /\ UNCHANGED rows /\ Become(k, "take")
      /\ fileOps[k] \in FileOp /\ trash \in [Ids0 -> Item] /\ k \in Ids0
      /\ trash' = [trash EXCEPT ![k] = [meta |-> TRUE, kind |-> "deleted", path |-> p, payload |-> NoFile]]
  BY <1>1, <1>2, FileIds DEF FilesInv, Bin, WorkspaceFilesTypeOK, Ids0, Discarded
<1>4. o.kind = "delete" /\ p \in FilePaths
  BY <1>1, <1>2, <1>3, TargetIsThePath DEF PlaceFits, Single, AllFileKinds
<1>5. trash[k] = NoItem /\ \A j \in FileOps : ~Restores(j, k)
  BY <1>1, <1>3 DEF ItemsFit
<1>6. /\ trash' \in [Ids0 -> Item] /\ trash'[k].meta = TRUE /\ trash'[k].kind = "deleted"
      /\ trash'[k].payload = NoFile /\ \A j \in Ids0 \ {k} : trash'[j] = trash[j]
  <2>1. [meta |-> TRUE, kind |-> "deleted", path |-> p, payload |-> NoFile] \in Item
    BY <1>4, ContentFacts DEF Item
  <2> QED  BY <1>3, <2>1
<1>7. /\ OthersStay(k) /\ fileOps'[k].at = "take" /\ fileOps'[k].kind = "delete"
      /\ fileOps'[k].paths = o.paths
  BY <1>1, <1>3, <1>4, BecomeMoves DEF FilePlaces
<1>8. UNCHANGED <<files, seen, excused, rows>>
  BY <1>3 DEF FilesRest
<1>9. PlaceFits(k)'
  BY <1>1, <1>3, <1>4, <1>7 DEF PlaceFits, Single, AllFileKinds
<1>10. \A j \in FileOps : ~Restores(j, k)'
  BY <1>5, <1>7 DEF OthersStay, Restores
<1>11. LookedAt(k)' /\ ItemsFit(k)'
  BY <1>6, <1>7, <1>10 DEF LookedAt, ItemsFit
<1>12. RestoreMoves(k)
  BY <1>7 DEF RestoreMoves, Restores
<1>13. ItemsMove(k) /\ RowsMove(k) /\ FilesMove(k)
  BY <1>1, <1>3, <1>6, <1>8 DEF ItemsMove, RowsMove, FilesMove
<1>14. WorkspaceFilesTypeOK'
  BY <1>3, <1>6, <1>7, <1>8 DEF WorkspaceFilesTypeOK, OthersStay, Ids0
<1>15. TrashFits' /\ RowsFit'
  BY <1>3, <1>6, <1>8, ContentFacts DEF TrashFits, RowsFit
<1>16. \A c \in seen' \cap Whole : Lasts(c)'
  <2> TAKE c \in seen' \cap Whole
  <2>1. Lasts(c) /\ c # NoFile
    BY <1>8, ContentFacts DEF FilesInv
  <2>2. (\A q \in FilePaths : ~DoomedBy(k, q)') /\ (\A j \in Ids0 : ~UsedUpBy(k, j)')
    BY <1>7 DEF DoomedBy, UsedUpBy
  <2>3. \A j \in Ids0 : trash[j].payload = c => trash'[j].payload = c
    BY <1>5, <1>6, <2>1 DEF NoItem
  <2> QED  BY <1>7, <1>8, <2>1, <2>2, <2>3, LastsKept
<1> QED  BY <1>7, <1>9, <1>11, <1>12, <1>13, <1>14, <1>15, <1>16, StepKeeps

\* The item gets what is at the path by now, from another device a copy of it.
LEMMA TakeKeeps ==
  ASSUME FilesInv, NEW k \in FileOps, Take(k)
  PROVE  FilesInv'
<1>1. PICK o : o = fileOps[k]
  OBVIOUS
<1>2. PICK p : p = Target(k)
  OBVIOUS
<1>3. /\ WorkspaceFilesTypeOK /\ PlaceFits(k) /\ ItemsFit(k) /\ TrashFits /\ RowsFit
      /\ o.at = "take" /\ UNCHANGED rows /\ fileOps[k] \in FileOp /\ trash \in [Ids0 -> Item] /\ k \in Ids0
      /\ files \in [FilePaths -> Contents]
  BY <1>1, <1>2, FileIds DEF FilesInv, Take, WorkspaceFilesTypeOK, Ids0
<1>4. o.kind = "delete" /\ p \in FilePaths /\ o.paths = {p}
  BY <1>1, <1>2, <1>3, TargetIsThePath DEF PlaceFits, Single, AllFileKinds
<1>5. CASE Become(k, "done") /\ FilesRest /\ UNCHANGED trash
  BY <1>1, <1>3, <1>5, EndKeeps DEF QuietFiles, SafetyRests
<1>6. ASSUME NEW at \in {"done", "remove"}, NEW c \in Contents, Become(k, at), Exists(p),
             trash' = [trash EXCEPT ![k].payload = c],
             files[p] \in Whole => c = files[p],
             UNCHANGED <<seen, excused>>,
             \/ at = "done" /\ files' = [files EXCEPT ![p] = NoFile]
             \/ at = "remove" /\ files' = files
      PROVE  FilesInv'
  <2>1. /\ trash[k].meta = TRUE /\ trash[k].payload = NoFile /\ trash[k].kind = "deleted"
        /\ \A j \in FileOps : Restores(j, k) => fileOps[j].at \in {"read", "return"}
    BY <1>1, <1>3 DEF ItemsFit
  <2>2. /\ trash' \in [Ids0 -> Item] /\ trash'[k].meta = TRUE /\ trash'[k].kind = "deleted"
        /\ trash'[k].payload = c /\ \A j \in Ids0 \ {k} : trash'[j] = trash[j]
    <3>1. [trash[k] EXCEPT !.payload = c] \in Item /\ [trash[k] EXCEPT !.payload = c].meta = TRUE
          /\ [trash[k] EXCEPT !.payload = c].kind = "deleted" /\ [trash[k] EXCEPT !.payload = c].payload = c
      BY <1>3, <2>1 DEF Item
    <3> QED  BY <1>3, <1>6, <3>1
  <2>3. /\ OthersStay(k) /\ fileOps'[k].at = at /\ fileOps'[k].kind = "delete" /\ fileOps'[k].paths = {p}
    BY <1>1, <1>3, <1>4, <1>6, BecomeMoves DEF FilePlaces
  <2>4. files' \in [FilePaths -> Contents] /\ \A q \in FilePaths : files'[q] = files[q] \/ (files'[q] = NoFile /\ q = p)
    BY <1>3, <1>4, <1>6, ContentFacts
  <2>5. PlaceFits(k)'
    BY <1>4, <2>3 DEF PlaceFits, Single, AllFileKinds
  <2>6. LookedAt(k)' /\ ItemsFit(k)'
    BY <2>3 DEF LookedAt, ItemsFit
  <2>7. RestoreMoves(k)
    BY <2>3 DEF RestoreMoves, Restores
  <2>8. ItemsMove(k) /\ RowsMove(k)
    BY <1>1, <1>3, <2>2 DEF ItemsMove, RowsMove
  <2>9. FilesMove(k)
    BY <1>6, <2>4, ContentFacts DEF FilesMove
  <2>10. WorkspaceFilesTypeOK'
    BY <1>3, <1>6, <2>2, <2>3, <2>4 DEF WorkspaceFilesTypeOK, OthersStay, Ids0
  <2>11. TrashFits'
    BY <1>3, <2>2 DEF TrashFits
  <2>12. RowsFit'
    BY <1>3 DEF RowsFit
  <2>13. \A d \in seen' \cap Whole : Lasts(d)'
    <3> TAKE d \in seen' \cap Whole
    <3>1. Lasts(d) /\ d # NoFile
      BY <1>6, ContentFacts DEF FilesInv
    <3>2. \A j \in Ids0 : trash[j].payload = d => trash'[j].payload = d
      BY <2>1, <2>2, <3>1
    <3>3. \A j \in Ids0 : ~UsedUpBy(k, j)'
      BY <2>3 DEF UsedUpBy
    <3>4. \A j \in FileOps : ~UsedUpBy(j, k)'
      <4> TAKE j \in FileOps
      <4>1. CASE j = k
        BY <2>3, <4>1 DEF UsedUpBy
      <4>2. CASE j # k
        <5>1. PlaceFits(j) /\ fileOps'[j] = fileOps[j]
          BY <2>3, <4>2 DEF FilesInv, OthersStay
        <5> QED  BY <2>1, <5>1 DEF UsedUpBy, Restores, PlaceFits
      <4> QED  BY <4>1, <4>2
    <3>5. files[p] = d => Lasts(d)'
      BY <1>3, <1>6, <2>2, <3>4 DEF Lasts, AsItem, UsedUp
    <3>6. \A q \in FilePaths \ {p} : ~DoomedBy(k, q)'
      BY <2>3 DEF DoomedBy
    <3>7. \A q \in FilePaths : files[q] = d /\ ~Doomed(q) => Lasts(d)' \/ (files'[q] = d /\ ~DoomedBy(k, q)')
      BY <2>4, <3>5, <3>6, <3>1
    <3> QED  BY <1>3, <1>6, <2>3, <3>1, <3>2, <3>3, <3>7, LastsKept
  <2> QED  BY <2>3, <2>5, <2>6, <2>7, <2>8, <2>9, <2>10, <2>11, <2>12, <2>13, StepKeeps
<1>7. files[p] \in Contents /\ CopyOf(files[p]) \in Contents /\ (files[p] \in Whole => CopyOf(files[p]) = files[p])
  BY <1>3, <1>4, ContentFacts
<1>8. CASE Exists(p) /\ Clear(p) /\ Become(k, "done") /\ trash' = [trash EXCEPT ![k].payload = files[p]]
  BY <1>6, <1>7, <1>8 DEF Clear
<1>9. CASE Exists(p) /\ FilesRest /\ Become(k, "remove") /\ trash' = [trash EXCEPT ![k].payload = CopyOf(files[p])]
  BY <1>6, <1>7, <1>9 DEF FilesRest
<1> QED  BY <1>2, <1>5, <1>8, <1>9 DEF Take

\* A removal that takes nothing which is not kept elsewhere.
LEMMA ClearingKeeps ==
  ASSUME FilesInv, NEW k \in FileOps, NEW p \in FilePaths, fileOps[k].at # "idle",
         Become(k, "done"), SafetyRests, files' = [files EXCEPT ![p] = NoFile], seen' = seen,
         excused \subseteq excused', excused' \subseteq Contents,
         Doomed(p) \/ files[p] \in excused'
  PROVE  FilesInv'
<1>0. /\ WorkspaceFilesTypeOK /\ PlaceFits(k) /\ TrashFits /\ RowsFit /\ files \in [FilePaths -> Contents]
      /\ UNCHANGED <<rows, trash>>
  BY DEF FilesInv, WorkspaceFilesTypeOK, SafetyRests
<1>1. /\ OthersStay(k) /\ fileOps'[k].at = "done"
      /\ fileOps'[k].kind = fileOps[k].kind /\ fileOps'[k].paths = fileOps[k].paths
      /\ fileOps'[k].to = fileOps[k].to
  BY <1>0, BecomeMoves DEF FilePlaces
<1>2. /\ PlaceFits(k)' /\ LookedAt(k)' /\ ItemsFit(k)' /\ RestoreMoves(k)
      /\ (\A q \in FilePaths : ~DoomedBy(k, q)') /\ (\A j \in Ids0 : ~UsedUpBy(k, j)')
  BY <1>0, <1>1, DoneFits
<1>3. /\ files' \in [FilePaths -> Contents] /\ files'[p] = NoFile
      /\ \A q \in FilePaths \ {p} : files'[q] = files[q]
  BY <1>0, ContentFacts
<1>4. FilesMove(k) /\ ItemsMove(k) /\ RowsMove(k)
  BY <1>0, <1>3, ContentFacts DEF FilesMove, ItemsMove, RowsMove
<1>5. WorkspaceFilesTypeOK' /\ TrashFits' /\ RowsFit'
  BY <1>0, <1>1, <1>3 DEF WorkspaceFilesTypeOK, OthersStay, TrashFits, RowsFit
<1>6. \A c \in seen' \cap Whole : Lasts(c)'
  <2> TAKE c \in seen' \cap Whole
  <2>1. Lasts(c)
    BY DEF FilesInv
  <2>2. \A q \in FilePaths : files[q] = c /\ ~Doomed(q) => Lasts(c)' \/ (files'[q] = c /\ ~DoomedBy(k, q)')
    BY <1>2, <1>3 DEF Lasts
  <2> QED  BY <1>0, <1>1, <1>2, <2>1, <2>2, LastsKept
<1> QED  BY <1>1, <1>2, <1>4, <1>5, <1>6, StepKeeps

\* What is removed is in the trash or in a checkpoint, or was given up knowingly.
LEMMA RemoveKeeps ==
  ASSUME FilesInv, NEW k \in FileOps, Remove(k) \/ Unlink(k)
  PROVE  FilesInv'
<1>1. PICK p : p = Target(k)
  OBVIOUS
<1>2. /\ WorkspaceFilesTypeOK /\ PlaceFits(k) /\ fileOps[k] \in FileOp /\ files \in [FilePaths -> Contents]
      /\ excused \subseteq Contents
  BY DEF FilesInv, WorkspaceFilesTypeOK
<1>3. fileOps[k].at \in {"remove", "unlink"} /\ fileOps[k].kind \in {"delete", "move"}
  BY <1>2 DEF Remove, Unlink, PlaceFits
<1>4. p \in FilePaths /\ fileOps[k].paths = {p}
  BY <1>1, <1>2, <1>3, TargetIsThePath DEF Single, AllFileKinds
<1>5. CASE Remove(k)
  <2>1. Doomed(p)
    BY <1>4, <1>5 DEF Remove, Doomed, DoomedBy
  <2> QED  BY <1>1, <1>2, <1>3, <1>4, <1>5, <2>1, ClearingKeeps DEF Remove, Clear
<1>6. CASE Unlink(k)
  <2>1. excused' = excused \cup (IF fileOps[k].copy = NoCopy THEN {files[p]} ELSE {})
    BY <1>1, <1>6 DEF Unlink
  <2>2. Doomed(p) \/ files[p] \in excused'
    BY <1>4, <1>6, <2>1 DEF Unlink, Doomed, DoomedBy
  <2>3. excused \subseteq excused' /\ excused' \subseteq Contents
    BY <1>2, <1>4, <2>1
  <2> QED  BY <1>1, <1>3, <1>4, <1>6, <2>2, <2>3, ClearingKeeps DEF Unlink
<1> QED  BY <1>5, <1>6

\* A rename takes what is at its path by now, and replaces what has come to its
\* destination since.
LEMMA RenameKeeps ==
  ASSUME FilesInv, NEW k \in FileOps, Rename(k)
  PROVE  FilesInv'
<1>1. PICK p : p = Target(k)
  OBVIOUS
<1>2. PICK q : q = fileOps[k].to
  OBVIOUS
<1>3. /\ WorkspaceFilesTypeOK /\ PlaceFits(k) /\ TrashFits /\ RowsFit /\ fileOps[k] \in FileOp
      /\ files \in [FilePaths -> Contents] /\ excused \subseteq Contents /\ \A j \in FileOps : PlaceFits(j)
      /\ fileOps[k].at = "transfer" /\ fileOps[k].kind = "move" /\ Become(k, "done") /\ SafetyRests
  BY DEF FilesInv, WorkspaceFilesTypeOK, Rename
<1>4. p \in FilePaths /\ fileOps[k].paths = {p} /\ q \in FilePaths /\ q # p
  BY <1>1, <1>2, <1>3, TargetIsThePath DEF PlaceFits, Single, AllFileKinds
<1>5. CASE ~Exists(p)
  BY <1>1, <1>3, <1>5, EndKeeps DEF Rename, QuietFiles
<1>6. CASE Exists(p)
  <2>1. PICK c : c = files[p]
    OBVIOUS
  <2>2. files' = [files EXCEPT ![q] = c, ![p] = NoFile] /\ excused' = excused \cup BehindBack(q, c, k)
        /\ seen' = seen
    BY <1>1, <1>2, <1>6, <2>1 DEF Rename
  <2>3. c \in Contents
    BY <1>3, <1>4, <2>1
  <2>4. /\ files' \in [FilePaths -> Contents] /\ files'[q] = c /\ files'[p] = NoFile
        /\ \A x \in FilePaths \ {p, q} : files'[x] = files[x]
    BY <1>3, <1>4, <2>2, <2>3, ContentFacts
  <2>5. /\ OthersStay(k) /\ fileOps'[k].at = "done"
        /\ fileOps'[k].kind = fileOps[k].kind /\ fileOps'[k].paths = fileOps[k].paths
        /\ fileOps'[k].to = fileOps[k].to
    BY <1>3, BecomeMoves DEF FilePlaces
  <2>6. /\ PlaceFits(k)' /\ LookedAt(k)' /\ ItemsFit(k)' /\ RestoreMoves(k)
        /\ (\A x \in FilePaths : ~DoomedBy(k, x)') /\ (\A j \in Ids0 : ~UsedUpBy(k, j)')
    BY <1>3, <2>5, DoneFits
  <2>7. UNCHANGED <<rows, trash>> /\ excused \subseteq excused' /\ BehindBack(q, c, k) \subseteq {c}
    BY <1>3, <2>2 DEF SafetyRests, BehindBack
  <2>8. FilesMove(k)
    <3>1. (\E j \in FileOps \ {k} : HasSecured(fileOps[j], q)) => c \in excused'
      BY <2>2 DEF BehindBack
    <3> QED  BY <2>4, <2>7, <3>1, ContentFacts DEF FilesMove
  <2>9. ItemsMove(k) /\ RowsMove(k) /\ TrashFits' /\ RowsFit'
    BY <1>3, <2>7 DEF ItemsMove, RowsMove, TrashFits, RowsFit
  <2>10. WorkspaceFilesTypeOK'
    BY <1>3, <2>2, <2>3, <2>4, <2>5, <2>7 DEF WorkspaceFilesTypeOK, OthersStay
  <2>11. Doomed(q)
    BY <1>2, <1>3 DEF Doomed, DoomedBy
  <2>12. Lasts(c)'
    BY <1>3, <1>4, <2>2, <2>4, <2>5, <2>6, PutLasts
  <2>13. \A d \in seen' \cap Whole : Lasts(d)'
    <3> TAKE d \in seen' \cap Whole
    <3>1. Lasts(d)
      BY <2>2 DEF FilesInv
    <3>2. \A x \in FilePaths : files[x] = d /\ ~Doomed(x) => Lasts(d)' \/ (files'[x] = d /\ ~DoomedBy(k, x)')
      BY <2>1, <2>4, <2>6, <2>11, <2>12
    <3> QED  BY <2>5, <2>6, <2>7, <3>1, <3>2, LastsKept
  <2> QED  BY <2>5, <2>6, <2>8, <2>9, <2>10, <2>13, StepKeeps
<1> QED  BY <1>5, <1>6

\* A copy comes to a path where there is nothing.
LEMMA CopyKeeps ==
  ASSUME FilesInv, NEW k \in FileOps, CopyOver(k)
  PROVE  FilesInv'
<1>1. PICK p : p = Target(k)
  OBVIOUS
<1>2. PICK q : q = fileOps[k].to
  OBVIOUS
<1>3. /\ WorkspaceFilesTypeOK /\ PlaceFits(k) /\ TrashFits /\ RowsFit /\ fileOps[k] \in FileOp
      /\ files \in [FilePaths -> Contents] /\ fileOps[k].at = "transfer" /\ SafetyRests
  BY DEF FilesInv, WorkspaceFilesTypeOK, CopyOver
<1>4. p \in FilePaths /\ fileOps[k].paths = {p} /\ q \in FilePaths /\ q # p /\ fileOps[k].kind \in {"move", "copy"}
  BY <1>1, <1>2, <1>3, TargetIsThePath DEF PlaceFits, Single, AllFileKinds
<1>5. CASE ~Exists(p) \/ Exists(q)
  BY <1>1, <1>2, <1>3, <1>5, EndKeeps DEF CopyOver, QuietFiles
<1>6. CASE Exists(p) /\ ~Exists(q)
  <2>1. PICK c : c = CopyOf(files[p])
    OBVIOUS
  <2>2. PICK at : at = IF fileOps[k].kind = "move" THEN "remove" ELSE "done"
    OBVIOUS
  <2>3. Put(q, c, k) /\ Become(k, at)
    BY <1>1, <1>2, <1>6, <2>1, <2>2 DEF CopyOver
  <2>4. c \in Contents /\ (files[p] \in Whole => files[p] = c)
    BY <1>3, <1>4, <2>1, ContentFacts
  <2>5. /\ OthersStay(k) /\ fileOps'[k].at = at
        /\ fileOps'[k].kind = fileOps[k].kind /\ fileOps'[k].paths = {p}
        /\ fileOps'[k].to = q
    BY <1>2, <1>3, <1>4, <2>2, <2>3, BecomeMoves DEF FilePlaces
  <2>6. PlaceFits(k)'
    BY <1>4, <2>2, <2>5 DEF PlaceFits
  <2>7. LookedAt(k)' /\ ItemsFit(k)' /\ RestoreMoves(k) /\ \A j \in Ids0 : ~UsedUpBy(k, j)'
    BY <1>4, <2>2, <2>5 DEF LookedAt, ItemsFit, RestoreMoves, Restores, UsedUpBy
  <2>8. \A x \in FilePaths : DoomedBy(k, x)' => x = p
    BY <2>2, <2>5 DEF DoomedBy
  <2>9. UNCHANGED <<rows, trash>> /\ files[q] \notin Whole
    BY <1>3, <1>6, ContentFacts DEF SafetyRests, Exists
  <2>10. /\ FilesMove(k) /\ files' \in [FilePaths -> Contents]
         /\ seen' \subseteq Contents /\ excused' \subseteq Contents
         /\ \A d \in seen' \cap Whole : Lasts(d)'
    <3>1. ~DoomedBy(k, q)'
      BY <1>4, <2>8
    <3>2. \A x \in FilePaths \ {q} : DoomedBy(k, x)' => DoomedBy(k, x) \/ files[x] = c \/ files[x] \notin Whole
      BY <2>4, <2>8
    <3> QED  BY <1>4, <2>3, <2>4, <2>5, <2>7, <2>9, <3>1, <3>2, PutKeepsAll
  <2>11. WorkspaceFilesTypeOK' /\ TrashFits' /\ RowsFit' /\ ItemsMove(k) /\ RowsMove(k)
    BY <1>3, <2>5, <2>9, <2>10 DEF WorkspaceFilesTypeOK, OthersStay, TrashFits, RowsFit, ItemsMove, RowsMove
  <2> QED  BY <2>5, <2>6, <2>7, <2>10, <2>11, StepKeeps
<1> QED  BY <1>5, <1>6

\* The provider replaces what has been copied to the trash, or what came since.
LEMMA ProvideKeeps ==
  ASSUME FilesInv, NEW k \in FileOps, Provide(k)
  PROVE  FilesInv'
<1>1. PICK p : p = Target(k)
  OBVIOUS
<1>2. PICK c : c = <<k, p>>
  OBVIOUS
<1>3. /\ WorkspaceFilesTypeOK /\ PlaceFits(k) /\ TrashFits /\ RowsFit /\ fileOps[k] \in FileOp
      /\ fileOps[k].at = "provider" /\ SafetyRests /\ Become(k, "done") /\ Put(p, c, k)
  BY <1>1, <1>2 DEF FilesInv, WorkspaceFilesTypeOK, Provide
<1>4. p \in FilePaths /\ fileOps[k].paths = {p}
  BY <1>1, <1>3, TargetIsThePath DEF PlaceFits, Single, AllFileKinds
<1>5. c \in Contents
  BY <1>2, <1>4, ContentFacts, FileIds
<1>6. /\ OthersStay(k) /\ fileOps'[k].at = "done"
      /\ fileOps'[k].kind = fileOps[k].kind /\ fileOps'[k].paths = fileOps[k].paths
      /\ fileOps'[k].to = fileOps[k].to
  BY <1>3, BecomeMoves DEF FilePlaces
<1>7. /\ PlaceFits(k)' /\ LookedAt(k)' /\ ItemsFit(k)' /\ RestoreMoves(k)
      /\ (\A x \in FilePaths : ~DoomedBy(k, x)') /\ (\A j \in Ids0 : ~UsedUpBy(k, j)')
  BY <1>3, <1>6, DoneFits
<1>8. UNCHANGED <<rows, trash>> /\ Doomed(p)
  BY <1>3, <1>4 DEF SafetyRests, Doomed, DoomedBy
<1>9. /\ FilesMove(k) /\ files' \in [FilePaths -> Contents]
      /\ seen' \subseteq Contents /\ excused' \subseteq Contents
      /\ \A d \in seen' \cap Whole : Lasts(d)'
  BY <1>3, <1>4, <1>5, <1>6, <1>7, <1>8, PutKeepsAll
<1>10. WorkspaceFilesTypeOK' /\ TrashFits' /\ RowsFit' /\ ItemsMove(k) /\ RowsMove(k)
  BY <1>3, <1>6, <1>8, <1>9 DEF WorkspaceFilesTypeOK, OthersStay, TrashFits, RowsFit, ItemsMove, RowsMove
<1> QED  BY <1>6, <1>7, <1>9, <1>10, StepKeeps

-----------------------------------------------------------------------------
(* Restores and external changes                                           *)

\* The payload of an item comes back to its path.
LEMMA ReturnKeeps ==
  ASSUME FilesInv, NEW k \in FileOps, Return(k)
  PROVE  FilesInv'
<1>1. PICK p : p = Target(k)
  OBVIOUS
<1>2. PICK i : i = fileOps[k].from
  OBVIOUS
<1>3. /\ WorkspaceFilesTypeOK /\ PlaceFits(k) /\ TrashFits /\ RowsFit /\ fileOps[k] \in FileOp
      /\ trash \in [Ids0 -> Item] /\ fileOps[k].at = "return" /\ UNCHANGED rows
  BY DEF FilesInv, WorkspaceFilesTypeOK, Return, Ids0
<1>4. p \in FilePaths /\ fileOps[k].paths = {p} /\ fileOps[k].kind = "undelete" /\ i \in Ids0
  BY <1>1, <1>2, <1>3, TargetIsThePath DEF PlaceFits, Single, AllFileKinds, FileOp, Ids0
<1>5. CASE Become(k, "done") /\ FilesRest /\ UNCHANGED trash
  BY <1>3, <1>5, EndKeeps DEF QuietFiles, SafetyRests
<1>6. CASE /\ HasPayload(i) /\ Put(p, trash[i].payload, k) /\ Become(k, "clear")
           /\ trash' = [trash EXCEPT ![i].payload = NoFile]
  <2>1. PICK c : c = trash[i].payload
    OBVIOUS
  <2>2. c \in Contents /\ c # NoFile /\ Put(p, c, k)
    BY <1>3, <1>4, <1>6, <2>1 DEF HasPayload, Item
  <2>3. /\ trash' \in [Ids0 -> Item] /\ trash'[i].payload = NoFile /\ trash'[i].kind = trash[i].kind
        /\ \A j \in Ids0 \ {i} : trash'[j] = trash[j]
    <3>1. [trash[i] EXCEPT !.payload = NoFile] \in Item /\ [trash[i] EXCEPT !.payload = NoFile].payload = NoFile
          /\ [trash[i] EXCEPT !.payload = NoFile].kind = trash[i].kind
      BY <1>3, <1>4, ContentFacts DEF Item
    <3> QED  BY <1>3, <1>4, <1>6, <3>1
  <2>4. /\ OthersStay(k) /\ fileOps'[k].at = "clear" /\ fileOps'[k].kind = "undelete"
        /\ fileOps'[k].paths = {p} /\ fileOps'[k].from = i
    BY <1>2, <1>3, <1>4, <1>6, BecomeMoves DEF FilePlaces
  <2>5. PlaceFits(k)'
    BY <1>4, <2>4 DEF PlaceFits
  <2>6. LookedAt(k)' /\ ItemsFit(k)'
    BY <2>3, <2>4, ContentFacts DEF LookedAt, ItemsFit
  <2>7. RestoreMoves(k)
    BY <1>2, <1>3, <1>4, <2>1, <2>2, <2>4 DEF RestoreMoves, Restores
  <2>8. \A x \in FilePaths : ~DoomedBy(k, x)'
    BY <2>4 DEF DoomedBy
  <2>9. Doomed(p)
    BY <1>3, <1>4 DEF Doomed, DoomedBy
  <2>10. \A j \in Ids0 : \/ trash'[j].payload = trash[j].payload /\ ~UsedUpBy(k, j)'
                         \/ trash[j].payload = c
    BY <2>1, <2>3, <2>4 DEF UsedUpBy
  <2>11. /\ FilesMove(k) /\ files' \in [FilePaths -> Contents]
         /\ seen' \subseteq Contents /\ excused' \subseteq Contents
         /\ \A d \in seen' \cap Whole : Lasts(d)'
    BY <1>3, <1>4, <2>2, <2>4, <2>8, <2>9, <2>10, PutKeepsAll
  <2>12. ItemsMove(k) /\ RowsMove(k)
    BY <1>3, <2>1, <2>2, <2>3 DEF ItemsMove, RowsMove
  <2>13. TrashFits'
    BY <1>3, <2>3, ContentFacts DEF TrashFits
  <2>14. WorkspaceFilesTypeOK' /\ RowsFit'
    BY <1>3, <2>3, <2>4, <2>11 DEF WorkspaceFilesTypeOK, OthersStay, RowsFit, Ids0
  <2> QED  BY <2>4, <2>5, <2>6, <2>7, <2>11, <2>12, <2>13, <2>14, StepKeeps
<1> QED  BY <1>1, <1>2, <1>3, <1>5, <1>6 DEF Return, From

\* What is in the way is copied to the trash before it is replaced.
LEMMA SecureKeeps ==
  ASSUME FilesInv, NEW k \in FileOps, Secure(k)
  PROVE  FilesInv'
<1>1. PICK p : p = Target(k)
  OBVIOUS
<1>2. PICK o : o = fileOps[k]
  OBVIOUS
<1>3. /\ WorkspaceFilesTypeOK /\ PlaceFits(k) /\ ItemsFit(k) /\ TrashFits /\ RowsFit /\ fileOps[k] \in FileOp
      /\ trash \in [Ids0 -> Item] /\ files \in [FilePaths -> Contents] /\ k \in Ids0
      /\ o.at = "secure" /\ UNCHANGED rows /\ FilesRest
  BY <1>2, FileIds DEF FilesInv, WorkspaceFilesTypeOK, Secure, Ids0
<1>4. /\ p \in FilePaths /\ o.paths = {p} /\ o.kind \in {"external", "undelete"} /\ o.from \in Ids0
      /\ Secured(k)
  BY <1>1, <1>2, <1>3, TargetIsThePath DEF PlaceFits, Single, AllFileKinds, FileOp, Ids0, Secured
<1>5. CASE Become(k, "done") /\ UNCHANGED trash
  BY <1>2, <1>3, <1>5, EndKeeps DEF QuietFiles, SafetyRests
<1>6. CASE /\ Exists(p) /\ Become(k, IF o.kind = "undelete" THEN "overwrite" ELSE "provider")
           /\ trash' = [trash EXCEPT ![k] = [meta |-> TRUE, kind |-> "replacement_backup",
                                             path |-> p, payload |-> CopyOf(files[p])]]
  <2>1. PICK c : c = CopyOf(files[p])
    OBVIOUS
  <2>2. PICK at : at = IF o.kind = "undelete" THEN "overwrite" ELSE "provider"
    OBVIOUS
  <2>3. c \in Contents /\ c \notin Torn /\ (files[p] \in Whole => files[p] = c)
    BY <1>3, <1>4, <2>1, ContentFacts
  <2>4. /\ trash' \in [Ids0 -> Item] /\ trash'[k].payload = c /\ trash'[k].kind = "replacement_backup"
        /\ trash'[k].meta = TRUE /\ \A j \in Ids0 \ {k} : trash'[j] = trash[j]
    <3>1. [meta |-> TRUE, kind |-> "replacement_backup", path |-> p, payload |-> c] \in Item
      BY <1>4, <2>3 DEF Item
    <3> QED  BY <1>3, <1>6, <2>1, <3>1
  <2>5. trash[k] = NoItem /\ \A j \in FileOps : ~Restores(j, k)
    BY <1>2, <1>3 DEF ItemsFit
  <2>6. /\ OthersStay(k) /\ fileOps'[k].at = at /\ fileOps'[k].kind = o.kind
        /\ fileOps'[k].paths = {p} /\ fileOps'[k].from = o.from
    BY <1>2, <1>3, <1>4, <1>6, <2>2, BecomeMoves DEF FilePlaces
  <2>7. PlaceFits(k)'
    BY <1>4, <2>2, <2>6 DEF PlaceFits
  <2>8. o.kind = "undelete" => o.from # k /\ (trash[o.from] = NoItem \/ trash[o.from].kind = "replacement_backup")
    BY <1>2, <1>3, <2>5 DEF ItemsFit, Restores
  <2>9. LookedAt(k)' /\ ItemsFit(k)'
    BY <1>4, <2>2, <2>4, <2>6, <2>8 DEF LookedAt, ItemsFit
  <2>10. RestoreMoves(k)
    BY <1>2, <1>3, <2>6 DEF RestoreMoves, Restores
  <2>11. UNCHANGED <<files, seen, excused, rows>>
    BY <1>3 DEF FilesRest
  <2>12. ItemsMove(k) /\ RowsMove(k) /\ FilesMove(k)
    BY <1>2, <1>3, <2>4, <2>11 DEF ItemsMove, RowsMove, FilesMove
  <2>13. TrashFits'
    BY <1>3, <2>3, <2>4 DEF TrashFits
  <2>14. WorkspaceFilesTypeOK' /\ RowsFit'
    BY <1>3, <2>4, <2>6, <2>11 DEF WorkspaceFilesTypeOK, OthersStay, RowsFit, Ids0
  <2>15. \A d \in seen' \cap Whole : Lasts(d)'
    <3> TAKE d \in seen' \cap Whole
    <3>1. Lasts(d) /\ d # NoFile
      BY <2>11, ContentFacts DEF FilesInv
    <3>2. \A j \in Ids0 : trash[j].payload = d => trash'[j].payload = d
      BY <2>4, <2>5, <3>1 DEF NoItem
    <3>3. \A j \in Ids0 : ~UsedUpBy(k, j)'
      BY <2>2, <2>6 DEF UsedUpBy
    <3>4. \A j \in FileOps : ~UsedUpBy(j, k)'
      <4> TAKE j \in FileOps
      <4>1. CASE j = k
        BY <1>3, <3>3, <4>1
      <4>2. CASE j # k
        <5>1. PlaceFits(j) /\ fileOps'[j] = fileOps[j]
          BY <2>6, <4>2 DEF FilesInv, OthersStay
        <5> QED  BY <2>5, <5>1 DEF UsedUpBy, Restores, PlaceFits
      <4> QED  BY <4>1, <4>2
    <3>5. files[p] = d => Lasts(d)'
      BY <1>3, <2>3, <2>4, <3>4 DEF Lasts, AsItem, UsedUp
    <3>6. \A q \in FilePaths \ {p} : ~DoomedBy(k, q)'
      BY <2>2, <2>6 DEF DoomedBy
    <3>7. \A q \in FilePaths : files[q] = d /\ ~Doomed(q) => Lasts(d)' \/ (files'[q] = d /\ ~DoomedBy(k, q)')
      BY <2>11, <3>5, <3>6
    <3> QED  BY <2>6, <2>11, <3>1, <3>2, <3>3, <3>7, LastsKept
  <2> QED  BY <2>6, <2>7, <2>9, <2>10, <2>12, <2>13, <2>14, <2>15, StepKeeps
<1> QED  BY <1>1, <1>2, <1>4, <1>5, <1>6 DEF Secure

\* The file that is overwritten has been copied to the trash.
LEMMA OverwriteKeeps ==
  ASSUME FilesInv, NEW k \in FileOps, Overwrite(k)
  PROVE  FilesInv'
<1>1. PICK p : p = Target(k)
  OBVIOUS
<1>2. PICK o : o = fileOps[k]
  OBVIOUS
<1>3. /\ WorkspaceFilesTypeOK /\ PlaceFits(k) /\ ItemsFit(k) /\ TrashFits /\ RowsFit /\ o \in FileOp
      /\ fileOps \in [FileOps -> FileOp] /\ trash \in [Ids0 -> Item] /\ o.at = "overwrite" /\ SafetyRests
  BY <1>2 DEF FilesInv, WorkspaceFilesTypeOK, Overwrite, Ids0
<1>4. p \in FilePaths /\ o.paths = {p} /\ o.kind = "undelete" /\ o.from \in Ids0 /\ o.copy \in [FilePaths -> Contents]
  BY <1>1, <1>2, <1>3, TargetIsThePath DEF PlaceFits, Single, AllFileKinds, FileOp, Ids0
<1>5. CASE Become(k, "done") /\ FilesRest
  BY <1>2, <1>3, <1>5, EndKeeps DEF QuietFiles
<1>6. ASSUME NEW copy, copy = [o.copy EXCEPT ![p] = CopyOf(trash[o.from].payload)],
             Put(p, TornBy(k), k),
             fileOps' = [fileOps EXCEPT ![k] = [o EXCEPT !.at = "torn", !.copy = copy]]
      PROVE  FilesInv'
  <2>1. PICK c : c = TornBy(k)
    OBVIOUS
  <2>2. c \in Contents /\ c \notin Whole /\ Put(p, c, k)
    BY <1>6, <2>1, ContentFacts
  <2>3. trash[o.from].payload \in Contents
    BY <1>3, <1>4 DEF Item
  <2>4. /\ copy \in [FilePaths -> Contents] /\ copy[p] \notin Torn
        /\ trash[o.from].payload \in Whole => trash[o.from].payload = copy[p]
    BY <1>4, <1>6, <2>3, ContentFacts
  <2>5. PICK after : after = [o EXCEPT !.at = "torn", !.copy = copy]
    OBVIOUS
  <2>6. /\ after \in FileOp /\ after.at = "torn" /\ after.copy = copy /\ after.kind = "undelete"
        /\ after.paths = {p} /\ after.from = o.from
    BY <1>3, <1>4, <2>4, <2>5 DEF FileOp, FilePlaces
  <2>7. OthersStay(k) /\ fileOps'[k] = after
    BY <1>3, <1>6, <2>5, <2>6 DEF OthersStay
  <2>8. Target(k)' = p
    BY <1>1, <1>2, <1>4, <2>6, <2>7 DEF Target
  <2>9. UNCHANGED <<rows, trash>>
    BY <1>3 DEF SafetyRests
  <2>10. PlaceFits(k)'
    BY <1>4, <2>4, <2>6, <2>7 DEF PlaceFits
  <2>11. LookedAt(k)'
    BY <2>6, <2>7 DEF LookedAt
  <2>12. ItemsFit(k)'
    <3>1. trash[o.from] = NoItem \/ trash[o.from].kind = "replacement_backup"
      BY <1>2, <1>3, <1>4 DEF ItemsFit
    <3> QED  BY <2>4, <2>6, <2>7, <2>8, <2>9, <3>1 DEF ItemsFit
  <2>13. RestoreMoves(k) /\ ItemsMove(k) /\ RowsMove(k)
    BY <1>2, <1>3, <1>4, <2>6, <2>7, <2>9 DEF RestoreMoves, Restores, ItemsMove, RowsMove
  <2>14. (\A x \in FilePaths : ~DoomedBy(k, x)') /\ (\A j \in Ids0 : ~UsedUpBy(k, j)')
    BY <2>6, <2>7 DEF DoomedBy, UsedUpBy
  <2>15. Doomed(p)
    BY <1>2, <1>3, <1>4 DEF Doomed, DoomedBy
  <2>16. /\ FilesMove(k) /\ files' \in [FilePaths -> Contents]
         /\ seen' \subseteq Contents /\ excused' \subseteq Contents
         /\ \A d \in seen' \cap Whole : Lasts(d)'
    BY <1>4, <2>2, <2>7, <2>9, <2>14, <2>15, PutKeepsAll
  <2>17. WorkspaceFilesTypeOK' /\ TrashFits' /\ RowsFit'
    BY <1>3, <2>7, <2>9, <2>16 DEF WorkspaceFilesTypeOK, OthersStay, TrashFits, RowsFit
  <2> QED  BY <2>7, <2>10, <2>11, <2>12, <2>13, <2>16, <2>17, StepKeeps
<1> QED  BY <1>1, <1>2, <1>5, <1>6 DEF Overwrite, From

\* A file that was torn is filled wherever it is by now; the restore's own item
\* is no longer needed then.
LEMMA FillKeeps ==
  ASSUME FilesInv, NEW k \in FileOps, FillFile(k)
  PROVE  FilesInv'
<1>1. PICK p : p = Target(k)
  OBVIOUS
<1>2. PICK o : o = fileOps[k]
  OBVIOUS
<1>3. PICK t : t = TornBy(k)
  OBVIOUS
<1>4. PICK v : v = o.copy[p]
  OBVIOUS
<1>5. /\ WorkspaceFilesTypeOK /\ PlaceFits(k) /\ ItemsFit(k) /\ TrashFits /\ RowsFit /\ o \in FileOp
      /\ trash \in [Ids0 -> Item] /\ files \in [FilePaths -> Contents] /\ excused \subseteq Contents
      /\ o.at = "torn" /\ Become(k, "clear") /\ UNCHANGED <<rows, seen>> /\ \A j \in FileOps : PlaceFits(j) /\ ItemsFit(j)
  BY <1>2 DEF FilesInv, WorkspaceFilesTypeOK, FillFile, Ids0
<1>6. p \in FilePaths /\ o.paths = {p} /\ o.kind = "undelete" /\ o.from \in Ids0 /\ v \in Contents
  <2>1. o.kind = "undelete"
    BY <1>2, <1>5 DEF PlaceFits
  <2>2. p \in FilePaths /\ o.paths = {p}
    BY <1>1, <1>2, <1>5, <2>1, TargetIsThePath DEF Single, AllFileKinds
  <2> QED  BY <1>4, <1>5, <2>1, <2>2 DEF FileOp, Ids0
<1>7. v \notin Torn /\ t \in Torn /\ t \in Contents /\ t \notin Whole /\ t # NoFile
  BY <1>2, <1>3, <1>4, <1>5, <1>6, ContentFacts DEF PlaceFits
<1>8. \A c : Filled(k, c) = IF c = t THEN v ELSE c
  BY <1>1, <1>2, <1>3, <1>4 DEF Filled
<1>9. files' \in [FilePaths -> Contents] /\ \A q \in FilePaths : files'[q] = IF files[q] = t THEN v ELSE files[q]
  BY <1>5, <1>6, <1>8 DEF FillFile
<1>10. /\ trash' \in [Ids0 -> Item]
       /\ \A j \in Ids0 : /\ trash'[j].payload = IF trash[j].payload = t THEN v ELSE trash[j].payload
                          /\ trash'[j].kind = trash[j].kind /\ trash'[j].meta = trash[j].meta
                          /\ trash[j].payload # t => trash'[j] = trash[j]
  <2>1. trash' = [j \in Ids0 |-> [trash[j] EXCEPT !.payload = Filled(k, trash[j].payload)]]
    BY DEF FillFile, Ids0
  <2>2. ASSUME NEW j \in Ids0
        PROVE  /\ trash'[j] \in Item
               /\ trash'[j].payload = IF trash[j].payload = t THEN v ELSE trash[j].payload
               /\ trash'[j].kind = trash[j].kind /\ trash'[j].meta = trash[j].meta
               /\ trash[j].payload # t => trash'[j] = trash[j]
    <3>1. trash[j] \in Item /\ trash'[j] = [trash[j] EXCEPT !.payload = Filled(k, trash[j].payload)]
      BY <1>5, <2>1
    <3> QED  BY <1>6, <1>8, <3>1 DEF Item
  <2>3. trash' = [j \in Ids0 |-> trash'[j]]
    BY <2>1
  <2> QED  BY <2>2, <2>3
<1>11a. PICK last : last = IF Lost(k) THEN {v} ELSE {}
  OBVIOUS
<1>11b. last \subseteq {v} /\ (Lost(k) => v \in last)
  <2>1. CASE Lost(k)
    BY <1>11a, <2>1
  <2>2. CASE ~Lost(k)
    BY <1>11a, <2>2
  <2> QED  BY <2>1, <2>2
<1>11. excused' = excused \cup last \cup UNION {BehindBack(q, Filled(k, files[q]), k) : q \in TornAt(k)}
  BY <1>1, <1>2, <1>4, <1>11a DEF FillFile
<1>11c. excused \subseteq excused' /\ last \subseteq excused'
  BY <1>11, Zenon
<1>11d. \A x \in excused' : x \in excused \/ x \in last \/ \E q \in TornAt(k) : x \in BehindBack(q, Filled(k, files[q]), k)
  BY <1>11, Zenon
<1>12. TornAt(k) = {q \in FilePaths : files[q] = t} /\ Lost(k) = (TornAt(k) = {} /\ \A j \in Ids0 : trash[j].payload # t)
  BY <1>3 DEF TornAt, Lost, Ids0
<1>13. \A q \in TornAt(k) : BehindBack(q, v, k) \subseteq excused' /\ q \in FilePaths /\ files'[q] = v
  BY <1>8, <1>9, <1>11, <1>12
<1>14. excused \subseteq excused' /\ excused' \subseteq Contents
  <2>1. \A q \in TornAt(k) : BehindBack(q, Filled(k, files[q]), k) \subseteq {v}
    BY <1>8, <1>12 DEF BehindBack
  <2> QED  BY <1>5, <1>6, <1>11c, <1>11d, <1>11b, <2>1
<1>15. /\ OthersStay(k) /\ fileOps'[k].at = "clear" /\ fileOps'[k].kind = "undelete"
       /\ fileOps'[k].paths = {p} /\ fileOps'[k].from = o.from
  BY <1>2, <1>5, <1>6, BecomeMoves DEF FilePlaces
<1>16. trash[o.from].payload \notin Torn
  BY <1>2, <1>5, <1>6, ContentFacts DEF ItemsFit, TrashFits, NoItem
<1>17. PlaceFits(k)' /\ LookedAt(k)'
  BY <1>6, <1>15 DEF PlaceFits, LookedAt
<1>18. ItemsFit(k)'
  BY <1>6, <1>7, <1>10, <1>15, <1>16 DEF ItemsFit
<1>19. RestoreMoves(k)
  BY <1>2, <1>5, <1>6, <1>15 DEF RestoreMoves, Restores
<1>20. (\A x \in FilePaths : ~DoomedBy(k, x)') /\ \A j \in Ids0 : UsedUpBy(k, j)' => j = o.from
  BY <1>15 DEF DoomedBy, UsedUpBy
<1>21. FilesMove(k)
  <2>1. \A q \in TornAt(k) : \A j \in FileOps \ {k} : HasSecured(fileOps[j], q) => v \in excused'
    BY <1>13 DEF BehindBack
  <2>2. \A q \in FilePaths : files'[q] = files[q] \/ q \in TornAt(k)
    BY <1>9, <1>12
  <2> QED  BY <1>13, <1>14, <2>1, <2>2 DEF FilesMove
<1>22. ItemsMove(k) /\ RowsMove(k)
  BY <1>5, <1>7, <1>10 DEF ItemsMove, RowsMove
<1>23. TrashFits'
  BY <1>5, <1>7, <1>10 DEF TrashFits
<1>24. WorkspaceFilesTypeOK' /\ RowsFit'
  BY <1>5, <1>9, <1>10, <1>14, <1>15 DEF WorkspaceFilesTypeOK, OthersStay, RowsFit, Ids0
<1>25. Lasts(v)'
  <2>1. CASE TornAt(k) # {}
    <3>1. PICK q \in TornAt(k) : TRUE
      BY <2>1
    <3> QED  BY <1>5, <1>13, <1>15, <1>20, <3>1, PutLasts
  <2>2. CASE \E j \in Ids0 : trash[j].payload = t
    <3>1. PICK j \in Ids0 : trash[j].payload = t
      BY <2>2
    <3>2. \A i \in FileOps \ {k} : ~UsedUpBy(i, j)'
      BY <1>5, <1>7, <1>15, <3>1 DEF UsedUpBy, ItemsFit, OthersStay
    <3>3. ~UsedUpBy(k, j)'
      BY <1>7, <1>16, <1>20, <3>1
    <3> QED  BY <1>10, <3>1, <3>2, <3>3 DEF Lasts, AsItem, UsedUp
  <2>3. CASE Lost(k)
    BY <1>11b, <1>11c, <2>3 DEF Lasts
  <2> QED  BY <1>12, <2>1, <2>2, <2>3
<1>26. \A d \in seen' \cap Whole : Lasts(d)'
  <2> TAKE d \in seen' \cap Whole
  <2>1. Lasts(d)
    BY <1>5 DEF FilesInv
  <2>2. trash[o.from].payload = d => d = v
    BY <1>1, <1>2, <1>4, <1>5 DEF ItemsFit
  <2>3. \A q \in FilePaths : files[q] = d /\ ~Doomed(q) => Lasts(d)' \/ (files'[q] = d /\ ~DoomedBy(k, q)')
    BY <1>7, <1>9, <1>20
  <2>4. \A j \in Ids0 : trash[j].payload = d /\ ~UsedUp(j) =>
          Lasts(d)' \/ (trash'[j].payload = d /\ ~UsedUpBy(k, j)')
    BY <1>7, <1>10, <1>20, <1>25, <2>2
  <2> QED  BY <1>5, <1>14, <1>15, <2>1, <2>3, <2>4, LastsKept
<1> QED  BY <1>15, <1>17, <1>18, <1>19, <1>21, <1>22, <1>23, <1>24, <1>26, StepKeeps

\* What is cleared from the trash has been used up, or is given up knowingly.
LEMMA ClearKeeps ==
  ASSUME FilesInv, NEW k \in FileOps, NEW i \in Ids0, fileOps[k].at # "idle", Become(k, "done"),
         UNCHANGED <<files, rows, seen>>, trash' = [trash EXCEPT ![i] = NoItem],
         excused \subseteq excused', excused' \subseteq Contents,
         UsedUp(i) \/ trash[i].payload \in excused',
         i = 0 \/ (fileOps[k].at = "clear" /\ Restores(k, i))
  PROVE  FilesInv'
<1>0. WorkspaceFilesTypeOK /\ PlaceFits(k) /\ TrashFits /\ RowsFit /\ trash \in [Ids0 -> Item]
  BY DEF FilesInv, WorkspaceFilesTypeOK, Ids0
<1>1. /\ OthersStay(k) /\ fileOps'[k].at = "done"
      /\ fileOps'[k].kind = fileOps[k].kind /\ fileOps'[k].paths = fileOps[k].paths
      /\ fileOps'[k].to = fileOps[k].to
  BY <1>0, BecomeMoves DEF FilePlaces
<1>2. /\ PlaceFits(k)' /\ LookedAt(k)' /\ ItemsFit(k)' /\ RestoreMoves(k)
      /\ (\A q \in FilePaths : ~DoomedBy(k, q)') /\ (\A j \in Ids0 : ~UsedUpBy(k, j)')
  BY <1>0, <1>1, DoneFits
<1>3. /\ NoItem \in Item /\ NoItem.payload = NoFile /\ NoItem.kind = "deleted"
  BY FileIds, ContentFacts DEF NoItem, Item
<1>4. trash' \in [Ids0 -> Item] /\ trash'[i] = NoItem /\ \A j \in Ids0 \ {i} : trash'[j] = trash[j]
  BY <1>0, <1>3
<1>5. FilesMove(k) /\ ItemsMove(k) /\ RowsMove(k)
  BY <1>4 DEF FilesMove, ItemsMove, RowsMove
<1>6. TrashFits'
  BY <1>0, <1>3, <1>4, ContentFacts DEF TrashFits
<1>7. WorkspaceFilesTypeOK' /\ RowsFit'
  BY <1>0, <1>1, <1>4 DEF WorkspaceFilesTypeOK, OthersStay, RowsFit, Ids0
<1>8. \A c \in seen' \cap Whole : Lasts(c)'
  <2> TAKE c \in seen' \cap Whole
  <2>1. Lasts(c)
    BY DEF FilesInv
  <2>2. \A q \in FilePaths : files[q] = c /\ ~Doomed(q) => files'[q] = c /\ ~DoomedBy(k, q)'
    BY <1>2
  <2>3. \A j \in Ids0 : trash[j].payload = c /\ ~UsedUp(j) =>
          Lasts(c)' \/ (trash'[j].payload = c /\ ~UsedUpBy(k, j)')
    BY <1>2, <1>4 DEF Lasts
  <2> QED  BY <1>1, <2>1, <2>2, <2>3, LastsKept
<1> QED  BY <1>1, <1>2, <1>5, <1>6, <1>7, <1>8, StepKeeps

\* The two ways an item is cleared.
LEMMA ClearItemKeeps ==
  ASSUME FilesInv, NEW k \in FileOps, ClearItem(k) \/ Expire(k)
  PROVE  FilesInv'
<1>1. PICK i : i = fileOps[k].from
  OBVIOUS
<1>2. /\ PlaceFits(k) /\ fileOps[k] \in FileOp /\ excused \subseteq Contents /\ trash \in [Ids0 -> Item]
  BY DEF FilesInv, WorkspaceFilesTypeOK, Ids0
<1>3. i \in Ids0
  BY <1>1, <1>2 DEF FileOp, Ids0
<1>4. CASE ClearItem(k)
  <2>1. fileOps[k].at = "clear" /\ fileOps[k].kind = "undelete"
    BY <1>2, <1>4 DEF ClearItem, PlaceFits
  <2>2. UsedUp(i) /\ Restores(k, i)
    BY <1>1, <2>1 DEF UsedUp, UsedUpBy, Restores
  <2> QED  BY <1>1, <1>2, <1>3, <1>4, <2>1, <2>2, ClearKeeps DEF ClearItem, From, FilesRest
<1>5. CASE Expire(k)
  <2>1. fileOps[k].at = "expire" /\ i = 0
    BY <1>1, <1>2, <1>5 DEF Expire, PlaceFits
  <2>2. trash[i].payload \in Contents
    BY <1>2, <1>3 DEF Item
  <2> QED  BY <1>1, <1>2, <1>3, <1>5, <2>1, <2>2, ClearKeeps DEF Expire, From
<1> QED  BY <1>4, <1>5

-----------------------------------------------------------------------------
(* Retention, the end of the application, and the invariant                *)

\* The row retention deletes is given up knowingly.
LEMMA ExpireRowKeeps ==
  ASSUME FilesInv, ExpireRow
  PROVE  FilesInv'
<1>1. /\ WorkspaceFilesTypeOK /\ TrashFits /\ RowsFit /\ excused \subseteq Contents
      /\ rows \in [Ids0 -> [kept : BOOLEAN, saved : [FilePaths -> Contents]]]
  BY DEF FilesInv, WorkspaceFilesTypeOK, Ids0
<1>2. UNCHANGED <<files, trash, fileOps, seen>> /\ rows' = [rows EXCEPT ![0].kept = FALSE]
  BY DEF ExpireRow
<1>3. /\ rows' \in [Ids0 -> [kept : BOOLEAN, saved : [FilePaths -> Contents]]]
      /\ rows'[0].kept = FALSE /\ \A j \in Ids0 \ {0} : rows'[j] = rows[j]
  <2>1. /\ [rows[0] EXCEPT !.kept = FALSE] \in [kept : BOOLEAN, saved : [FilePaths -> Contents]]
        /\ [rows[0] EXCEPT !.kept = FALSE].kept = FALSE
    BY <1>1, FileIds
  <2> QED  BY <1>1, <1>2, <2>1, FileIds
<1>4. excused' = excused \cup {rows[0].saved[p] : p \in Saved(0)}
  BY DEF ExpireRow
<1>5. excused \subseteq excused' /\ excused' \subseteq Contents
  <2>1. \A p \in FilePaths : rows[0].saved[p] \in Contents
    BY <1>1, FileIds
  <2> QED  BY <1>1, <1>4, <2>1 DEF Saved
<1>6. WorkspaceFilesTypeOK' /\ TrashFits' /\ RowsFit'
  BY <1>1, <1>2, <1>3, <1>5 DEF WorkspaceFilesTypeOK, TrashFits, RowsFit, Ids0
<1>7. ASSUME NEW k \in FileOps PROVE (PlaceFits(k) /\ LookedAt(k) /\ ItemsFit(k))'
  <2>1. PlaceFits(k) /\ LookedAt(k) /\ ItemsFit(k) /\ rows'[k] = rows[k]
    BY <1>3, FileIds DEF FilesInv
  <2>2. PlaceFits(k)'
    BY <1>2, <2>1 DEF PlaceFits
  <2>3. LookedAt(k)'
    BY <1>2, <1>5, <2>1 DEF LookedAt
  <2>4. ItemsFit(k)'
    BY <1>2, <2>1 DEF ItemsFit, Restores, Target
  <2> QED  BY <2>2, <2>3, <2>4
<1>8. \A c \in seen' \cap Whole : Lasts(c)'
  <2> TAKE c \in seen' \cap Whole
  <2>1. Lasts(c) /\ c # NoFile
    BY <1>2, ContentFacts DEF FilesInv
  <2>2. CASE c \in excused
    BY <1>5, <2>2 DEF Lasts
  <2>3. CASE InRow(c)
    <3>1. PICK j \in Ids0, p \in FilePaths : rows[j].kept = TRUE /\ rows[j].saved[p] = c
      BY <2>3 DEF InRow
    <3>2. CASE j = 0
      BY <1>4, <2>1, <3>1, <3>2 DEF Saved, Lasts
    <3>3. CASE j # 0
      BY <1>3, <3>1, <3>3 DEF InRow, Lasts
    <3> QED  BY <3>2, <3>3
  <2>4. CASE AtPath(c)
    BY <1>2, <2>4 DEF AtPath, Doomed, DoomedBy, Lasts
  <2>5. CASE AsItem(c)
    BY <1>2, <2>5 DEF AsItem, UsedUp, UsedUpBy, Lasts
  <2> QED  BY <2>1, <2>2, <2>3, <2>4, <2>5 DEF Lasts
<1> QED  BY <1>6, <1>7, <1>8 DEF FilesInv

\* Where the application stops, nothing is about to be replaced any more.
LEMMA FilesStopKeeps ==
  ASSUME FilesInv, FilesStop
  PROVE  FilesInv'
<1>1. WorkspaceFilesTypeOK /\ TrashFits /\ RowsFit /\ fileOps \in [FileOps -> FileOp]
  BY DEF FilesInv, WorkspaceFilesTypeOK
<1>2. UNCHANGED <<files, seen, excused, rows, trash>>
  BY DEF FilesStop, FilesRest, SafetyRests
<1>3. fileOps' = [k \in FileOps |-> IF fileOps[k].at = "idle" THEN IdleOp ELSE [fileOps[k] EXCEPT !.at = "done"]]
  BY DEF FilesStop
<1>4. IdleOp \in FileOp /\ IdleOp.at = "idle"
  BY FileIds, ContentFacts DEF IdleOp, FileOp, FilePlaces, AllFileKinds, NoCopy
<1>5. ASSUME NEW k \in FileOps
      PROVE  /\ fileOps'[k] \in FileOp
             /\ \/ fileOps[k].at = "idle" /\ fileOps'[k].at = "idle"
                \/ /\ fileOps[k].at # "idle" /\ fileOps'[k].at = "done" /\ fileOps'[k].kind = fileOps[k].kind
                   /\ fileOps'[k].paths = fileOps[k].paths /\ fileOps'[k].to = fileOps[k].to
  <2>1. fileOps[k] \in FileOp
    BY <1>1
  <2>2. CASE fileOps[k].at = "idle"
    <3>1. fileOps'[k] = IdleOp
      BY <1>3, <2>2
    <3> QED  BY <1>4, <2>2, <3>1
  <2>3. CASE fileOps[k].at # "idle"
    <3>1. fileOps'[k] = [fileOps[k] EXCEPT !.at = "done"]
      BY <1>3, <2>3
    <3> QED  BY <2>1, <2>3, <3>1 DEF FileOp, FilePlaces
  <2> QED  BY <2>2, <2>3
<1>6. fileOps' \in [FileOps -> FileOp]
  BY <1>3, <1>5
<1>7. WorkspaceFilesTypeOK' /\ TrashFits' /\ RowsFit'
  BY <1>1, <1>2, <1>6 DEF WorkspaceFilesTypeOK, TrashFits, RowsFit
<1>8. \A j \in FileOps, i \in Ids0 : ~Restores(j, i)'
  BY <1>5 DEF Restores
<1>9. ASSUME NEW k \in FileOps PROVE (PlaceFits(k) /\ LookedAt(k) /\ ItemsFit(k))'
  <2>1. PlaceFits(k) /\ LookedAt(k) /\ ItemsFit(k) /\ k \in Ids0
    BY FileIds DEF FilesInv
  <2>2. fileOps[k].at = "idle" => trash[k] = NoItem /\ rows[k].kept = FALSE
    BY <2>1 DEF LookedAt, ItemsFit
  <2>3. PlaceFits(k)'
    BY <1>5, <2>1 DEF PlaceFits
  <2>4. LookedAt(k)' /\ ItemsFit(k)'
    BY <1>2, <1>5, <1>8, <2>1, <2>2 DEF LookedAt, ItemsFit
  <2> QED  BY <2>3, <2>4
<1>10. \A c \in seen' \cap Whole : Lasts(c)'
  <2>1. (\A p \in FilePaths : ~Doomed(p)') /\ (\A j \in Ids0 : ~UsedUp(j)')
    BY <1>5 DEF Doomed, DoomedBy, UsedUp, UsedUpBy
  <2> QED  BY <1>2, <2>1 DEF FilesInv, Lasts, InRow, AtPath, AsItem
<1> QED  BY <1>7, <1>9, <1>10 DEF FilesInv

\* The workspace begins with files at some paths, a checkpoint and an item of
\* the Recovery Trash.
LEMMA FilesInvInit == WorkspaceFilesInit => FilesInv
<1> SUFFICES ASSUME WorkspaceFilesInit PROVE FilesInv
  OBVIOUS
<1>1. PICK present \in SUBSET FilePaths : files = [p \in FilePaths |-> IF p \in present THEN <<0, p>> ELSE NoFile]
  BY DEF WorkspaceFilesInit
<1>2. PICK kind \in {"deleted", "replacement_backup"} :
        trash = [k \in Ids0 |-> IF k = 0 THEN EarlierItem(kind) ELSE NoItem]
  BY DEF WorkspaceFilesInit, Ids0
<1>3. /\ rows = [k \in Ids0 |-> IF k = 0 THEN [kept |-> TRUE, saved |-> [NoCopy EXCEPT ![1] = <<0, 1>>]] ELSE NoRow]
      /\ fileOps = [k \in FileOps |-> IdleOp]
      /\ seen = {Older, <<0, 1>>} \cup Range(files) /\ excused = {}
  BY DEF WorkspaceFilesInit, Ids0
<1>4. /\ IdleOp \in FileOp /\ IdleOp.at = "idle" /\ NoCopy \in [FilePaths -> Contents]
  BY FileIds, ContentFacts DEF IdleOp, FileOp, FilePlaces, AllFileKinds, NoCopy
<1>5. <<0, 1>> \in Contents /\ <<0, 1>> # NoFile
  BY FileIds, ContentFacts
<1>6. files \in [FilePaths -> Contents]
  BY <1>1, FileIds, ContentFacts
<1>7. /\ rows \in [Ids0 -> [kept : BOOLEAN, saved : [FilePaths -> Contents]]]
      /\ rows[0].kept = TRUE /\ rows[0].saved[1] = <<0, 1>> /\ \A k \in Ids0 \ {0} : rows[k].kept = FALSE
  <2>1. /\ [kept |-> TRUE, saved |-> [NoCopy EXCEPT ![1] = <<0, 1>>]] \in [kept : BOOLEAN, saved : [FilePaths -> Contents]]
        /\ NoRow \in [kept : BOOLEAN, saved : [FilePaths -> Contents]] /\ NoRow.kept = FALSE
        /\ [NoCopy EXCEPT ![1] = <<0, 1>>][1] = <<0, 1>>
    BY <1>4, <1>5, FileIds DEF NoRow
  <2> QED  BY <1>3, <2>1, FileIds
<1>8. /\ trash \in [Ids0 -> Item] /\ trash[0].meta = TRUE /\ trash[0].payload = Older
      /\ \A k \in Ids0 \ {0} : trash[k] = NoItem
  <2>1. EarlierItem(kind) \in Item /\ EarlierItem(kind).meta = TRUE /\ EarlierItem(kind).payload = Older
    BY FileIds, ContentFacts DEF EarlierItem, Item
  <2>2. NoItem \in Item
    BY FileIds, ContentFacts DEF NoItem, Item
  <2> QED  BY <1>2, <2>1, <2>2, FileIds
<1>9. \A k \in FileOps : fileOps[k] = IdleOp /\ fileOps[k].at = "idle"
  BY <1>3, <1>4
<1>10. fileOps \in [FileOps -> FileOp]
  BY <1>3, <1>4
<1>11. seen \subseteq Contents
  BY <1>3, <1>5, <1>6, ContentFacts DEF Range
<1>12. WorkspaceFilesTypeOK
  BY <1>3, <1>6, <1>7, <1>8, <1>10, <1>11 DEF WorkspaceFilesTypeOK, Ids0
<1>13. ASSUME NEW k \in FileOps PROVE PlaceFits(k) /\ LookedAt(k) /\ ItemsFit(k)
  <2>1. k \in Ids0 \ {0}
    BY FileIds
  <2>2. PlaceFits(k)
    BY <1>9 DEF PlaceFits
  <2>3. LookedAt(k)
    BY <1>7, <1>9, <2>1 DEF LookedAt
  <2>4. ItemsFit(k)
    BY <1>8, <1>9, <2>1 DEF ItemsFit, Restores
  <2> QED  BY <2>2, <2>3, <2>4
<1>14. TrashFits
  BY <1>8, ContentFacts DEF TrashFits, NoItem
<1>15. RowsFit
  BY <1>5, <1>7, FileIds DEF RowsFit
<1>16. ASSUME NEW c \in seen \cap Whole PROVE Lasts(c)
  <2>1. (\A p \in FilePaths : ~Doomed(p)) /\ (\A j \in Ids0 : ~UsedUp(j))
    BY <1>9 DEF Doomed, DoomedBy, UsedUp, UsedUpBy
  <2>2. CASE c = Older
    BY <1>8, <2>1, <2>2, FileIds DEF Lasts, AsItem
  <2>3. CASE c = <<0, 1>>
    BY <1>7, <2>3, FileIds DEF Lasts, InRow
  <2>4. CASE c \in Range(files)
    BY <1>6, <2>1, <2>4 DEF Lasts, AtPath, Range
  <2> QED  BY <1>3, <2>2, <2>3, <2>4
<1> QED  BY <1>12, <1>13, <1>14, <1>15, <1>16 DEF FilesInv

\* Every step keeps the invariant.
LEMMA FilesInvStep == FilesInv /\ [WorkspaceFilesNext]_fileVars => FilesInv'
<1> SUFFICES ASSUME FilesInv, [WorkspaceFilesNext]_fileVars PROVE FilesInv'
  OBVIOUS
<1>1. ASSUME NEW k \in FileOps, FileStep(k) PROVE FilesInv'
  <2>1. CASE Request(k)
    BY <2>1, RequestKeeps
  <2>2. CASE Look(k)
    BY <2>2, LookKeeps
  <2>3. CASE GiveUp(k) \/ StoreFails(k) \/ FillFails(k)
    BY <2>3, EndKeeps DEF GiveUp, StoreFails, FillFails, QuietFiles
  <2>4. CASE Snap(k)
    BY <2>4, SnapKeeps
  <2>5. CASE Store(k)
    BY <2>5, StoreKeeps
  <2>6. CASE Bin(k)
    BY <2>6, BinKeeps
  <2>7. CASE Take(k)
    BY <2>7, TakeKeeps
  <2>8. CASE Remove(k) \/ Unlink(k)
    BY <2>8, RemoveKeeps
  <2>9. CASE Aim(k)
    BY <2>9, AimKeeps
  <2>10. CASE Rename(k)
    BY <2>10, RenameKeeps
  <2>11. CASE CopyOver(k)
    BY <2>11, CopyKeeps
  <2>12. CASE ReadItem(k)
    BY <2>12, ReadItemKeeps
  <2>13. CASE Return(k)
    BY <2>13, ReturnKeeps
  <2>14. CASE Secure(k)
    BY <2>14, SecureKeeps
  <2>15. CASE Overwrite(k)
    BY <2>15, OverwriteKeeps
  <2>16. CASE FillFile(k)
    BY <2>16, FillKeeps
  <2>17. CASE ClearItem(k) \/ Expire(k)
    BY <2>17, ClearItemKeeps
  <2>18. CASE Provide(k)
    BY <2>18, ProvideKeeps
  <2> QED  BY <1>1, <2>1, <2>2, <2>3, <2>4, <2>5, <2>6, <2>7, <2>8, <2>9, <2>10, <2>11, <2>12,
              <2>13, <2>14, <2>15, <2>16, <2>17, <2>18 DEF FileStep
<1>2. CASE ExpireRow
  BY <1>2, ExpireRowKeeps
<1>3. CASE FilesStop
  BY <1>3, FilesStopKeeps
<1>4. CASE UNCHANGED fileVars
  BY <1>4 DEF fileVars, FilesInv, WorkspaceFilesTypeOK, PlaceFits, LookedAt, ItemsFit, Restores, Target,
              TrashFits, RowsFit, Lasts, InRow, AtPath, AsItem, Doomed, DoomedBy, UsedUp, UsedUpBy
<1> QED  BY <1>1, <1>2, <1>3, <1>4 DEF WorkspaceFilesNext

\* A content that lasts is on the disk, or in a checkpoint, or in the trash with
\* its metadata.
LEMMA FilesInvNothingLost == FilesInv => NothingLostUnseen
<1> SUFFICES ASSUME FilesInv, NEW c \in seen \cap Whole
             PROVE  c \in Range(files) \cup InRows \cup InTrash \cup excused
  BY DEF NothingLostUnseen
<1>1. Lasts(c) /\ TrashFits /\ files \in [FilePaths -> Contents] /\ c # NoFile
  BY ContentFacts DEF FilesInv, WorkspaceFilesTypeOK
<1>2. CASE c \in excused
  BY <1>2
<1>3. CASE InRow(c)
  BY <1>3 DEF InRow, InRows, Ids0
<1>4. CASE AtPath(c)
  BY <1>1, <1>4 DEF AtPath, Range
<1>5. CASE AsItem(c)
  BY <1>1, <1>5 DEF AsItem, InTrash, TrashFits, Ids0
<1> QED  BY <1>1, <1>2, <1>3, <1>4, <1>5 DEF Lasts

\* Whoever is about to replace or remove a file has a copy of it elsewhere.
THEOREM FilesInvariant == WorkspaceFilesSpec => []FilesInv
BY FilesInvInit, FilesInvStep, PTL DEF WorkspaceFilesSpec

\* Nothing that was in a workspace is lost, save what is excused.
THEOREM NothingIsLost == WorkspaceFilesSpec => []NothingLostUnseen
BY FilesInvariant, FilesInvNothingLost, PTL

-----------------------------------------------------------------------------
(* A durable shell task                                                   *)

\* A party that is between two writes may go on to any of its places.
LEMMA LauncherMoves ==
  ASSUME launcher \in Launchers, ~launcher.torn,
         NEW at \in LauncherWrites \cup {"idle", "spawn", "publish", "done", "failed", "stopped"}
  PROVE  [launcher EXCEPT !.at = at] \in Launchers
BY DEF Launchers

\* So may the worker.
LEMMA WorkerMoves ==
  ASSUME worker \in Workers, ~worker.torn,
         NEW at \in WorkerWrites \cup {"none", "born", "spawn", "watch", "stop", "ended", "dead"}
  PROVE  [worker EXCEPT !.at = at] \in Workers
BY DEF Workers

\* Moving a client on leaves a client.
LEMMA GotoType ==
  ASSUME ShellTaskTypeOK, NEW c \in Clients, NEW copy \in Record,
         NEW at \in ClientWrites \cup {"idle", "assess", "recheck", "reassess", "stop", "judge"},
         Goto(c, at, copy)
  PROVE  client' \in [Clients -> ClientStates]
<1>1. client[c] \in ClientStates /\ client[c].op \in Ops
  BY DEF ShellTaskTypeOK, ClientStates
<1>2. [at |-> at, torn |-> FALSE, op |-> client[c].op, copy |-> copy] \in ClientStates
  BY <1>1 DEF ClientStates
<1> QED BY <1>2 DEF ShellTaskTypeOK, Goto

\* Every answer a client can give to a second look moves it on.
LEMMA ReassessedType ==
  ASSUME ShellTaskTypeOK, NEW c \in Clients, Reassessed(c)
  PROVE  \E at \in ClientWrites \cup {"idle", "stop"}, copy \in Record : Goto(c, at, copy)
<1> DEFINE copy == client[c].copy
<1>1. client[c] \in ClientStates
  BY DEF ShellTaskTypeOK
<1>2. copy \in Record /\ Onward(c) \in {"idle", "stop"}
  BY <1>1 DEF ClientStates, Onward
<1>3. \A s \in {"failed", "termination_unverified"} : [copy EXCEPT !.state = s] \in Record
  BY <1>2 DEF Record, Terminal, Unsettled
<1>4. CASE copy.wpid /\ WorkerAlive
  <2>1. Goto(c, Onward(c), copy)
    BY <1>4 DEF Reassessed
  <2> QED BY <2>1, <1>2
<1>5. CASE ~(copy.wpid /\ WorkerAlive) /\ copy.cpid /\ child = "running"
  <2>1. Goto(c, "mark", [copy EXCEPT !.state = "termination_unverified"])
    BY <1>5 DEF Reassessed
  <2> QED BY <2>1, <1>3 DEF ClientWrites
<1>6. CASE ~(copy.wpid /\ WorkerAlive) /\ ~(copy.cpid /\ child = "running")
  <2>1. \/ Goto(c, Onward(c), copy)
        \/ Goto(c, "write", [copy EXCEPT !.state = "failed"])
    BY <1>6 DEF Reassessed
  <2> QED BY <2>1, <1>2, <1>3 DEF ClientWrites
<1> QED BY <1>4, <1>5, <1>6

-----------------------------------------------------------------------------
(* Type correctness                                                       *)

\* A durable task starts with these types.
LEMMA TypeInit == ShellTaskInit => ShellTaskTypeOK
<1> SUFFICES ASSUME ShellTaskInit PROVE ShellTaskTypeOK
  OBVIOUS
<1>1. NewRecord \in Record
  BY DEF NewRecord, Record, Unsettled
<1>2. Idle \in ClientStates
  BY <1>1 DEF Idle, ClientStates, Ops
<1> QED BY <1>1, <1>2 DEF ShellTaskInit, ShellTaskTypeOK, Launchers, Workers

\* launch writes records and moves itself and the worker on.
LEMMA LauncherTypes ==
  ASSUME ShellTaskTypeOK, LauncherStep
  PROVE  ShellTaskTypeOK'
<1>1. NewRecord \in Record
      /\ [NewRecord EXCEPT !.state = "failed", !.wpid = worker.at # "none"] \in Record
  BY DEF NewRecord, Record, Terminal, Unsettled
<1>2. launcher.at \notin LauncherWrites => ~launcher.torn
  BY DEF ShellTaskTypeOK, Launchers
<1>3. CASE LaunchBegins
  BY <1>2, <1>3, LauncherMoves DEF LaunchBegins, ShellTaskTypeOK, LauncherWrites
<1>4. CASE LaunchSpawns
  <2>1. worker' \in Workers
    BY <1>4 DEF LaunchSpawns, Workers
  <2> QED BY <1>2, <1>4, <2>1, LauncherMoves DEF LaunchSpawns, ShellTaskTypeOK, LauncherWrites
<1>5. CASE LaunchPublishes
  BY <1>2, <1>5, LauncherMoves DEF LaunchPublishes, ShellTaskTypeOK, LauncherWrites
<1>6. CASE LaunchFails
  <2>1. PICK at \in {"fail", "failed"} : launcher' = [at |-> at, torn |-> FALSE]
    BY <1>6 DEF LaunchFails
  <2>2. launcher' \in Launchers
    BY <2>1 DEF Launchers, LauncherWrites
  <2> QED BY <1>6, <2>2 DEF LaunchFails, ShellTaskTypeOK
<1>7. CASE LaunchTruncates
  BY <1>7 DEF LaunchTruncates, Truncate, ShellTaskTypeOK, Launchers
<1>8. CASE LaunchFills
  <2>1. meta' \in Record /\ text' \in {"ok", "garbled"}
    BY <1>1, <1>8 DEF LaunchFills, Fill
  <2>2. PICK at \in {"spawn", "failed"} : launcher' = [at |-> at, torn |-> FALSE]
    BY <1>8 DEF LaunchFills
  <2>3. launcher' \in Launchers
    BY <2>2 DEF Launchers
  <2> QED BY <1>8, <2>1, <2>3 DEF LaunchFills, ShellTaskTypeOK
<1> QED BY <1>3, <1>4, <1>5, <1>6, <1>7, <1>8 DEF LauncherStep

\* The worker, its child and the worker's crash.
LEMMA WorkerTypes ==
  ASSUME ShellTaskTypeOK, DetachedWorkerStep \/ WorkerCrashes \/ ChildExits
  PROVE  ShellTaskTypeOK'
<1>1. mine \in Record /\ meta \in Record
  BY DEF ShellTaskTypeOK
<1>2. /\ [meta EXCEPT !.wpid = TRUE] \in Record
      /\ [mine EXCEPT !.cpid = TRUE] \in Record
      /\ \A s \in Terminal \cup Unsettled : [mine EXCEPT !.state = s] \in Record
  BY <1>1 DEF Record
<1>3. worker.at \notin WorkerWrites => ~worker.torn
  BY DEF ShellTaskTypeOK, Workers
<1>4. [at |-> "dead", torn |-> FALSE] \in Workers
  BY DEF Workers
<1>5. ASSUME NEW s \in Terminal \cup Unsettled, Settle(s), ~worker.torn
      PROVE  worker' \in Workers /\ mine' \in Record
  BY <1>2, <1>5, WorkerMoves DEF Settle, ShellTaskTypeOK, WorkerWrites
<1>6. CASE WorkerReads
  <2>1. worker' \in Workers /\ mine' \in Record
    BY <1>1, <1>2, <1>3, <1>4, <1>6, WorkerMoves DEF WorkerReads, Die, ShellTaskTypeOK, WorkerWrites
  <2> QED BY <1>6, <2>1 DEF WorkerReads, ShellTaskTypeOK
<1>7. CASE WorkerTruncates
  BY <1>7 DEF WorkerTruncates, Truncate, ShellTaskTypeOK, Workers
<1>8. CASE WorkerFills
  <2>1. meta' \in Record /\ text' \in {"ok", "garbled"}
    BY <1>1, <1>8 DEF WorkerFills, Fill
  <2>2. worker.at \in {"announce", "name", "settle"}
    BY <1>3, <1>8 DEF WorkerFills, WorkerWrites
  <2>3. PICK at \in {"spawn", "watch", "ended"} : worker' = [at |-> at, torn |-> FALSE]
    <3>1. NextAt[worker.at] \in {"spawn", "watch", "ended"}
      BY <2>2 DEF NextAt
    <3>2. worker' = [at |-> NextAt[worker.at], torn |-> FALSE]
      BY <1>8 DEF WorkerFills
    <3> QED BY <3>1, <3>2
  <2>4. worker' \in Workers
    BY <2>3 DEF Workers
  <2> QED BY <1>8, <2>1, <2>4 DEF WorkerFills, ShellTaskTypeOK
<1>9. CASE WorkerWriteFails
  <2>1. /\ [at |-> "settle", torn |-> FALSE] \in Workers
        /\ [at |-> "ended", torn |-> FALSE] \in Workers
    BY DEF Workers, WorkerWrites
  <2>2. worker' \in Workers
    BY <1>4, <1>9, <2>1 DEF WorkerWriteFails, Die
  <2>3. mine' \in Record
    BY <1>1, <1>2, <1>9 DEF WorkerWriteFails, Terminal
  <2> QED BY <1>9, <2>2, <2>3 DEF WorkerWriteFails, ShellTaskTypeOK
<1>10. CASE WorkerSpawns
  <2>1. worker' \in Workers /\ mine' \in Record
    BY <1>2, <1>3, <1>10, WorkerMoves DEF WorkerSpawns, ShellTaskTypeOK, WorkerWrites
  <2> QED BY <1>10, <2>1 DEF WorkerSpawns, ShellTaskTypeOK
<1>11. CASE WorkerSpawnFails
  <2>1. worker' \in Workers /\ mine' \in Record
    BY <1>1, <1>3, <1>4, <1>5, <1>11 DEF WorkerSpawnFails, Die, WorkerWrites, Terminal
  <2>2. text' \in {text, "empty"}
    BY <1>11 DEF WorkerSpawnFails
  <2> QED BY <1>11, <2>1, <2>2 DEF WorkerSpawnFails, ShellTaskTypeOK
<1>12. CASE CloseUnheard \/ ChildExits
  BY <1>12 DEF CloseUnheard, ChildExits, ShellTaskTypeOK
<1>13. CASE CloseHeard
  <2>1. worker' \in Workers /\ mine' \in Record
    BY <1>3, <1>5, <1>13 DEF CloseHeard, WorkerWrites, Terminal
  <2> QED BY <1>13, <2>1 DEF CloseHeard, ShellTaskTypeOK
<1>14. CASE TimerFires
  <2>1. worker' \in Workers
    BY <1>3, <1>14, WorkerMoves DEF TimerFires, TimerDue, ShellTaskTypeOK, WorkerWrites
  <2>2. child' \in {child, "killed", "running"}
    BY <1>14 DEF TimerFires, Signalled
  <2> QED BY <1>14, <2>1, <2>2 DEF TimerFires, ShellTaskTypeOK
<1>15. CASE TimerJudges
  <2>1. \E s \in Terminal \cup Unsettled : Settle(s)
    BY <1>15 DEF TimerJudges, Terminal, Unsettled
  <2>2. worker' \in Workers /\ mine' \in Record
    BY <1>3, <1>5, <1>15, <2>1 DEF TimerJudges, WorkerWrites
  <2> QED BY <1>15, <2>2 DEF TimerJudges, ShellTaskTypeOK
<1>16. CASE WorkerCrashes
  BY <1>4, <1>16 DEF WorkerCrashes, Die, ShellTaskTypeOK
<1> QED BY <1>6, <1>7, <1>8, <1>9, <1>10, <1>11, <1>12, <1>13, <1>14, <1>15, <1>16 DEF DetachedWorkerStep

\* A client's read, judgement, signal and write.
LEMMA ClientTypes ==
  ASSUME ShellTaskTypeOK, NEW c \in Clients, ClientStep(c)
  PROVE  ShellTaskTypeOK'
<1> DEFINE copy == client[c].copy
<1> client[c] \in ClientStates /\ meta \in Record /\ published \in BOOLEAN
  BY DEF ShellTaskTypeOK
<1>1. copy \in Record /\ Seen \in Record /\ Onward(c) \in {"idle", "stop"}
  <2>1. copy \in Record /\ Onward(c) \in {"idle", "stop"}
    BY DEF ClientStates, Onward
  <2>2. Seen \in Record
    BY DEF Seen, Record
  <2> QED BY <2>1, <2>2
<1>2. \A s \in Terminal \cup Unsettled : [copy EXCEPT !.state = s] \in Record
  BY <1>1 DEF Record
<1>3. CASE ClientReads(c)
  <2>1. ASSUME NEW op \in Ops
        PROVE  [at |-> "assess", torn |-> FALSE, op |-> op, copy |-> Seen] \in ClientStates
    BY <1>1 DEF ClientStates
  <2> QED BY <1>3, <2>1 DEF ClientReads, ShellTaskTypeOK
<1>4. CASE ClientAssesses(c)
  <2>1. \E at \in {"idle", "stop", "recheck"} : Goto(c, at, copy)
    BY <1>1, <1>4 DEF ClientAssesses
  <2>2. UNCHANGED <<text, meta, published, launcher, worker, mine, child>>
    BY <1>4 DEF ClientAssesses
  <2> QED BY <1>1, <2>1, <2>2, GotoType DEF ShellTaskTypeOK
<1>5. CASE ClientRechecks(c)
  <2>1. \E at \in {"idle", "reassess"}, r \in Record : Goto(c, at, r)
    BY <1>1, <1>5 DEF ClientRechecks
  <2>2. UNCHANGED <<text, meta, published, launcher, worker, mine, child>>
    BY <1>5 DEF ClientRechecks
  <2> QED BY <2>1, <2>2, GotoType DEF ShellTaskTypeOK
<1>6. CASE ClientReassesses(c)
  <2>1. \E at \in ClientWrites \cup {"idle", "stop"}, r \in Record : Goto(c, at, r)
    BY <1>6, ReassessedType DEF ClientReassesses
  <2>2. UNCHANGED <<text, meta, published, launcher, worker, mine, child>>
    BY <1>6 DEF ClientReassesses
  <2> QED BY <2>1, <2>2, GotoType DEF ShellTaskTypeOK
<1>7. CASE ClientStops(c)
  <2>1. \E at \in {"judge", "write"}, r \in Record : Goto(c, at, r)
    BY <1>1, <1>2, <1>7 DEF ClientStops, Unsettled
  <2>2. UNCHANGED <<text, meta, published, launcher, mine>>
    BY <1>7 DEF ClientStops
  <2>3. worker' \in Workers
    <3>1. worker' = worker \/ worker' = [at |-> "dead", torn |-> FALSE]
      BY <1>7 DEF ClientStops, Die
    <3>2. worker \in Workers /\ [at |-> "dead", torn |-> FALSE] \in Workers
      BY DEF ShellTaskTypeOK, Workers
    <3> QED BY <3>1, <3>2
  <2>4. child' \in {child, "killed", "running"}
    BY <1>7 DEF ClientStops, Signalled
  <2> QED BY <2>1, <2>2, <2>3, <2>4, GotoType DEF ShellTaskTypeOK, ClientWrites
<1>8. CASE ClientJudges(c)
  <2>1. \E s \in Terminal \cup Unsettled : Goto(c, "write", [copy EXCEPT !.state = s])
    BY <1>8 DEF ClientJudges, Terminal, Unsettled
  <2>2. UNCHANGED <<text, meta, published, launcher, worker, mine, child>>
    BY <1>8 DEF ClientJudges
  <2> QED BY <1>2, <2>1, <2>2, GotoType DEF ShellTaskTypeOK, ClientWrites
<1>9. CASE ClientTruncates(c)
  <2>1. [client[c] EXCEPT !.torn = TRUE] \in ClientStates
    BY <1>9 DEF ClientTruncates, ShellTaskTypeOK, ClientStates
  <2> QED BY <1>9, <2>1 DEF ClientTruncates, Truncate, ShellTaskTypeOK
<1>10. CASE ClientFills(c)
  <2>1. \E at \in {"idle", "stop"} : Goto(c, at, copy)
    BY <1>1, <1>10 DEF ClientFills
  <2>2. meta' \in Record /\ text' \in {"ok", "garbled"}
    BY <1>1, <1>10 DEF ClientFills, Fill
  <2>3. UNCHANGED <<published, launcher, worker, mine, child>>
    BY <1>10 DEF ClientFills
  <2> QED BY <1>1, <2>1, <2>2, <2>3, GotoType DEF ShellTaskTypeOK
<1>11. CASE ClientWriteFails(c)
  <2>1. Goto(c, "idle", copy)
    BY <1>11 DEF ClientWriteFails
  <2>2. UNCHANGED <<text, meta, published, launcher, worker, mine, child>>
    BY <1>11 DEF ClientWriteFails
  <2> QED BY <1>1, <2>1, <2>2, GotoType DEF ShellTaskTypeOK
<1> QED BY <1>3, <1>4, <1>5, <1>6, <1>7, <1>8, <1>9, <1>10, <1>11 DEF ClientStep

\* The application stops: its launch and its clients are gone.
LEMMA AppTypes ==
  ASSUME ShellTaskTypeOK, AppStops
  PROVE  ShellTaskTypeOK'
<1>1. Idle \in ClientStates
  BY DEF Idle, ClientStates, NewRecord, Record, Ops, Unsettled
<1>2. launcher' \in Launchers
  BY DEF AppStops, ShellTaskTypeOK, Launchers
<1> QED BY <1>1, <1>2 DEF AppStops, ShellTaskTypeOK

\* And every step keeps them.
LEMMA TypeStep == ShellTaskTypeOK /\ [ShellTaskNext]_taskVars => ShellTaskTypeOK'
<1> SUFFICES ASSUME ShellTaskTypeOK, [ShellTaskNext]_taskVars PROVE ShellTaskTypeOK'
  OBVIOUS
<1>1. CASE ShellTaskNext
  BY <1>1, LauncherTypes, WorkerTypes, ClientTypes, AppTypes DEF ShellTaskNext
<1>2. CASE UNCHANGED taskVars
  BY <1>2 DEF taskVars, ShellTaskTypeOK
<1> QED BY <1>1, <1>2

\* The file, the processes and every copy of the record keep their types, and
\* a truncated write belongs to a writer that is writing.
THEOREM ShellTaskTypes == ShellTaskSpec => []ShellTaskTypeOK
BY TypeInit, TypeStep, PTL DEF ShellTaskSpec

-----------------------------------------------------------------------------
(* The inductive invariant                                                *)

Verdicts == {"completed", "timed_out"}

\* The worker is born after the record, and its child after the announcement.
InOrder ==
  /\ launcher.at \in {"idle", "record", "spawn"} => worker.at = "none"
  /\ worker.at \in {"none", "born", "announce", "spawn"} => child = "none"

\* Whoever names the child names one that was spawned.
NamedWasSpawned ==
  /\ meta.cpid => child # "none"
  /\ mine.cpid => child # "none"
  /\ \A c \in Clients : client[c].copy.cpid => child # "none"

\* Verdicts come from a worker that has settled, and no writer that may act
\* after it holds a record that says running.
VerdictsSettle ==
  /\ worker.at \notin {"settle", "ended", "dead"} => mine.state \notin Verdicts /\ meta.state \notin Verdicts
  /\ worker.at = "settle" => mine.state # "running"
  /\ \A c \in Clients :
       client[c].at \in ClientWrites => client[c].copy.state \notin Verdicts \cup {"running"}

ShellInv == ShellTaskTypeOK /\ InOrder /\ NamedWasSpawned /\ VerdictsSettle /\ NoVerdictOverLiveChild

Rest == InOrder /\ NamedWasSpawned /\ VerdictsSettle /\ NoVerdictOverLiveChild

\* A signal revives nobody, and needs somebody to reach.
LEMMA SignalledChild ==
  ASSUME child' \in Signalled
  PROVE  /\ child' = "running" => child = "running"
         /\ child' = "none" <=> child = "none"
BY DEF Signalled

\* A client that moves leaves the others where they are.
LEMMA GotoEffect ==
  ASSUME ShellTaskTypeOK, NEW c \in Clients, NEW at, NEW copy, Goto(c, at, copy)
  PROVE  /\ client'[c].at = at /\ client'[c].copy = copy
         /\ \A d \in Clients \ {c} : client'[d] = client[d]
BY DEF ShellTaskTypeOK, Goto

\* The invariant of a durable task holds before it is launched.
LEMMA InvInit == ShellTaskInit => ShellInv
BY TypeInit DEF ShellTaskInit, ShellInv, InOrder, NamedWasSpawned, VerdictsSettle, NoVerdictOverLiveChild,
                NewRecord, Idle, Verdicts, ClientWrites

\* The launcher keeps the invariant.
LEMMA LauncherInv ==
  ASSUME ShellInv, LauncherStep
  PROVE  Rest'
<1> USE DEF ShellInv
<1>1. CASE LaunchBegins \/ LaunchTruncates \/ LaunchPublishes \/ LaunchFails
  <2>1. launcher'.at \in {"idle", "record", "spawn"} => launcher.at \in {"idle", "record", "spawn"}
    <3>1. CASE LaunchBegins \/ LaunchTruncates \/ LaunchPublishes
      BY <3>1 DEF LaunchBegins, LaunchTruncates, LaunchPublishes, ShellTaskTypeOK, Launchers
    <3>2. CASE LaunchFails
      <4>1. PICK at \in {"fail", "failed"} : launcher' = [at |-> at, torn |-> FALSE]
        BY <3>2 DEF LaunchFails
      <4> QED BY <4>1
    <3> QED BY <1>1, <3>1, <3>2
  <2>2. UNCHANGED <<meta, worker, mine, child, client>>
    BY <1>1 DEF LaunchBegins, LaunchTruncates, LaunchPublishes, LaunchFails, Truncate
  <2> QED BY <2>1, <2>2 DEF Rest, InOrder, NamedWasSpawned, VerdictsSettle, NoVerdictOverLiveChild
<1>2. CASE LaunchFills
  <2>1. \/ launcher.at = "record" /\ launcher'.at = "spawn" /\ meta' = NewRecord
        \/ /\ launcher.at = "fail" /\ launcher'.at = "failed"
           /\ meta' = [NewRecord EXCEPT !.state = "failed", !.wpid = worker.at # "none"]
    BY <1>2 DEF LaunchFills, Fill
  <2>2. meta'.state \in {"running", "failed"} /\ ~meta'.cpid
    <3>1. NewRecord.state = "running" /\ ~NewRecord.cpid
      BY DEF NewRecord
    <3>2. \A w \in BOOLEAN : LET r == [NewRecord EXCEPT !.state = "failed", !.wpid = w]
                             IN  r.state = "failed" /\ ~r.cpid
      BY DEF NewRecord
    <3>3. (worker.at # "none") \in BOOLEAN
      OBVIOUS
    <3> QED BY <2>1, <3>1, <3>2, <3>3
  <2>3. UNCHANGED <<worker, mine, child, client>>
    BY <1>2 DEF LaunchFills
  <2> QED BY <2>1, <2>2, <2>3 DEF Rest, InOrder, NamedWasSpawned, VerdictsSettle,
                                  NoVerdictOverLiveChild, Verdicts
<1>3. CASE LaunchSpawns
  BY <1>3 DEF LaunchSpawns, Rest, InOrder, NamedWasSpawned, VerdictsSettle, NoVerdictOverLiveChild
<1> QED BY <1>1, <1>2, <1>3 DEF LauncherStep

\* The worker and its child keep it.
LEMMA WorkerInv ==
  ASSUME ShellInv, DetachedWorkerStep \/ WorkerCrashes \/ ChildExits
  PROVE  Rest'
<1> USE DEF ShellInv
<1>0. worker.at \notin WorkerWrites => ~worker.torn
  BY DEF ShellTaskTypeOK, Workers
<1>1. CASE WorkerReads
  <2>1. \/ worker'.at = "announce" /\ mine'.state = meta.state /\ mine'.cpid = meta.cpid
        \/ worker'.at = "dead" /\ mine' = mine
    <3>1. /\ [meta EXCEPT !.wpid = TRUE].state = meta.state
          /\ [meta EXCEPT !.wpid = TRUE].cpid = meta.cpid
      BY DEF ShellTaskTypeOK, Record
    <3>2. [worker EXCEPT !.at = "announce"].at = "announce"
      BY DEF ShellTaskTypeOK, Workers
    <3>3. \/ mine' = [meta EXCEPT !.wpid = TRUE] /\ worker' = [worker EXCEPT !.at = "announce"]
          \/ mine' = mine /\ worker' = [at |-> "dead", torn |-> FALSE]
      BY <1>1 DEF WorkerReads, Die
    <3>4. CASE mine' = [meta EXCEPT !.wpid = TRUE] /\ worker' = [worker EXCEPT !.at = "announce"]
      BY <3>1, <3>2, <3>4
    <3>5. CASE mine' = mine /\ worker' = [at |-> "dead", torn |-> FALSE]
      BY <3>5
    <3> QED BY <3>3, <3>4, <3>5
  <2>2. worker.at = "born" /\ UNCHANGED <<meta, launcher, child, client>>
    BY <1>1 DEF WorkerReads
  <2> QED BY <2>1, <2>2 DEF Rest, InOrder, NamedWasSpawned, VerdictsSettle, NoVerdictOverLiveChild, Verdicts
<1>2. CASE WorkerTruncates
  BY <1>2 DEF WorkerTruncates, Truncate, Rest, InOrder, NamedWasSpawned, VerdictsSettle, NoVerdictOverLiveChild, ShellTaskTypeOK, Workers
<1>3. CASE WorkerFills
  <2>1. worker.at \in {"announce", "name", "settle"}
    BY <1>0, <1>3 DEF WorkerFills, WorkerWrites
  <2>2. /\ worker.at = "announce" => worker'.at = "spawn"
        /\ worker.at = "name" => worker'.at = "watch"
        /\ worker.at = "settle" => worker'.at = "ended"
    BY <1>3 DEF WorkerFills, NextAt
  <2>3. meta' = mine /\ UNCHANGED <<launcher, mine, child, client>>
    BY <1>3 DEF WorkerFills, Fill
  <2> QED BY <2>1, <2>2, <2>3 DEF Rest, InOrder, NamedWasSpawned, VerdictsSettle, NoVerdictOverLiveChild
<1>4. CASE WorkerWriteFails
  BY <1>4 DEF WorkerWriteFails, Die, Rest, InOrder, NamedWasSpawned, VerdictsSettle, NoVerdictOverLiveChild, Verdicts, ShellTaskTypeOK, Record
<1>5. CASE WorkerSpawns
  BY <1>5 DEF WorkerSpawns, Rest, InOrder, NamedWasSpawned, VerdictsSettle, NoVerdictOverLiveChild, Verdicts, ShellTaskTypeOK, Record, Workers
<1>6. CASE WorkerSpawnFails
  BY <1>6 DEF WorkerSpawnFails, Settle, Die, Rest, InOrder, NamedWasSpawned, VerdictsSettle, NoVerdictOverLiveChild, Verdicts, ShellTaskTypeOK, Record, Workers
<1>7. CASE CloseUnheard \/ ChildExits
  BY <1>7 DEF CloseUnheard, ChildExits, Rest, InOrder, NamedWasSpawned, VerdictsSettle, NoVerdictOverLiveChild
<1>8. CASE CloseHeard
  BY <1>8 DEF CloseHeard, Settle, Rest, InOrder, NamedWasSpawned, VerdictsSettle, NoVerdictOverLiveChild, ShellTaskTypeOK, Record, Workers
<1>9. CASE TimerFires
  BY <1>9, SignalledChild DEF TimerFires, TimerDue, Rest, InOrder, NamedWasSpawned, VerdictsSettle, NoVerdictOverLiveChild, ShellTaskTypeOK, Workers
<1>10. CASE TimerJudges
  BY <1>10 DEF TimerJudges, Settle, Rest, InOrder, NamedWasSpawned, VerdictsSettle, NoVerdictOverLiveChild, Verdicts, ShellTaskTypeOK, Record, Workers
<1>11. CASE WorkerCrashes
  BY <1>11 DEF WorkerCrashes, Die, WorkerAlive, Rest, InOrder, NamedWasSpawned, VerdictsSettle, NoVerdictOverLiveChild
<1> QED BY <1>1, <1>2, <1>3, <1>4, <1>5, <1>6, <1>7, <1>8, <1>9, <1>10, <1>11 DEF DetachedWorkerStep

\* So does any client, whatever it judges from.
LEMMA ClientInv ==
  ASSUME ShellInv, NEW c \in Clients, ClientStep(c)
  PROVE  Rest'
<1> USE DEF ShellInv
<1> DEFINE copy == client[c].copy
<1> copy \in Record /\ meta \in Record /\ Seen.cpid = meta.cpid
  BY DEF ShellTaskTypeOK, ClientStates, Seen, Record
\* A client that moves on with a record it may hold there disturbs nothing.
<1>1. ASSUME NEW at, NEW r \in Record, Goto(c, at, r),
             r.cpid => copy.cpid \/ meta.cpid,
             at \in ClientWrites => r.state \notin Verdicts \cup {"running"},
             at \in ClientWrites /\ r.state \in Terminal /\ r.cpid => child' # "running",
             UNCHANGED <<launcher, mine>>, worker' = worker \/ (Die /\ worker.at # "none"),
             child' = child \/ child' \in Signalled,
             meta' = meta \/ (meta' = copy /\ client[c].at \in ClientWrites)
      PROVE  Rest'
  <2>1. /\ client'[c].at = at /\ client'[c].copy = r
        /\ \A d \in Clients \ {c} : client'[d] = client[d]
    BY <1>1, GotoEffect
  <2>2. /\ child' = "running" => child = "running"
        /\ child' = "none" <=> child = "none"
    BY <1>1, SignalledChild
  <2>3. worker' = worker \/ (worker'.at = "dead" /\ worker.at # "none")
    BY <1>1 DEF Die
  <2>4. InOrder'
    BY <1>1, <2>2, <2>3 DEF InOrder
  <2>5. NamedWasSpawned'
    BY <1>1, <2>1, <2>2 DEF NamedWasSpawned
  <2>6. VerdictsSettle'
    <3>1. meta'.state \in Verdicts => meta.state \in Verdicts
      BY <1>1 DEF VerdictsSettle
    <3>2. \A d \in Clients : client'[d].at \in ClientWrites => client'[d].copy.state \notin Verdicts \cup {"running"}
      BY <1>1, <2>1 DEF VerdictsSettle
    <3> QED BY <1>1, <2>3, <3>1, <3>2 DEF VerdictsSettle
  <2>7. NoVerdictOverLiveChild'
    <3>1. ASSUME NEW d \in Clients, client'[d].at \in ClientWrites, client'[d].copy.state \in Terminal,
                 client'[d].copy.cpid
          PROVE  child' # "running"
      BY <1>1, <2>1, <2>2, <3>1 DEF NoVerdictOverLiveChild
    <3> QED BY <1>1, <2>2, <3>1 DEF NoVerdictOverLiveChild
  <2> QED BY <2>4, <2>5, <2>6, <2>7 DEF Rest
<1>2. \A s \in Terminal \cup Unsettled :
        /\ [copy EXCEPT !.state = s] \in Record
        /\ [copy EXCEPT !.state = s].state = s
        /\ [copy EXCEPT !.state = s].cpid = copy.cpid
  BY DEF Record
<1>3. CASE ClientReads(c)
  <2>1. PICK op \in Ops :
          client' = [client EXCEPT ![c] = [at |-> "assess", torn |-> FALSE, op |-> op, copy |-> Seen]]
    BY <1>3 DEF ClientReads
  <2>2. /\ client'[c].at = "assess" /\ client'[c].copy = Seen
        /\ \A d \in Clients \ {c} : client'[d] = client[d]
    BY <2>1 DEF ShellTaskTypeOK
  <2>3. UNCHANGED <<meta, launcher, worker, mine, child>>
    BY <1>3 DEF ClientReads
  <2> QED BY <2>2, <2>3 DEF Rest, InOrder, NamedWasSpawned, VerdictsSettle, NoVerdictOverLiveChild, ClientWrites
<1>4. CASE ClientAssesses(c)
  <2>1. PICK at \in {"idle", "stop", "recheck"} : Goto(c, at, copy)
    BY <1>4 DEF ClientAssesses, Onward
  <2>2. UNCHANGED <<meta, launcher, worker, mine, child>>
    BY <1>4 DEF ClientAssesses
  <2> QED BY <1>1, <2>1, <2>2 DEF ClientWrites
<1>5. CASE ClientRechecks(c)
  <2>1. PICK at \in {"idle", "reassess"}, r \in {copy, Seen} : Goto(c, at, r)
    BY <1>5 DEF ClientRechecks
  <2>2. UNCHANGED <<meta, launcher, worker, mine, child>>
    BY <1>5 DEF ClientRechecks
  <2>3. r \in Record /\ (r.cpid => copy.cpid \/ meta.cpid)
    BY <2>1 DEF Seen, ShellTaskTypeOK, Record
  <2> QED BY <1>1, <2>1, <2>2, <2>3 DEF ClientWrites
<1>6. CASE ClientReassesses(c)
  <2>1. Reassessed(c) /\ UNCHANGED <<meta, launcher, worker, mine, child>>
    BY <1>6 DEF ClientReassesses
  <2>2. \/ \E at \in {"idle", "stop"} : Goto(c, at, copy)
        \/ Goto(c, "mark", [copy EXCEPT !.state = "termination_unverified"])
        \/ Goto(c, "write", [copy EXCEPT !.state = "failed"]) /\ ~(copy.cpid /\ child = "running")
    BY <2>1 DEF Reassessed, Onward
  <2>3. CASE \E at \in {"idle", "stop"} : Goto(c, at, copy)
    BY <1>1, <2>1, <2>3 DEF ClientWrites
  <2>4. CASE Goto(c, "mark", [copy EXCEPT !.state = "termination_unverified"])
    BY <1>1, <1>2, <2>1, <2>4 DEF ClientWrites, Verdicts, Terminal, Unsettled
  <2>5. CASE Goto(c, "write", [copy EXCEPT !.state = "failed"]) /\ ~(copy.cpid /\ child = "running")
    BY <1>1, <1>2, <2>1, <2>5 DEF ClientWrites, Verdicts, Terminal
  <2> QED BY <2>2, <2>3, <2>4, <2>5
<1>7. CASE ClientStops(c)
  <2>1. /\ UNCHANGED <<meta, launcher, mine>>
        /\ worker' = worker \/ (Die /\ worker.at # "none")
        /\ child' = child \/ child' \in Signalled
    BY <1>7 DEF ClientStops, WorkerAlive
  <2>2. \/ Goto(c, "judge", copy)
        \/ Goto(c, "write", [copy EXCEPT !.state = "termination_unverified"])
    BY <1>7 DEF ClientStops
  <2>3. CASE Goto(c, "judge", copy)
    BY <1>1, <2>1, <2>3 DEF ClientWrites
  <2>4. CASE Goto(c, "write", [copy EXCEPT !.state = "termination_unverified"])
    <3> DEFINE r == [copy EXCEPT !.state = "termination_unverified"]
    <3>1. r \in Record /\ r.state = "termination_unverified" /\ r.cpid = copy.cpid
      BY <1>2 DEF Unsettled
    <3>2. r.state \notin Verdicts \cup {"running"} /\ r.state \notin Terminal
      BY <3>1 DEF Verdicts, Terminal
    <3>3. Goto(c, "write", r)
      BY <2>4
    <3> HIDE DEF r
    <3> QED BY <1>1, <2>1, <3>1, <3>2, <3>3
  <2> QED BY <2>2, <2>3, <2>4
<1>8. CASE ClientJudges(c)
  <2>1. UNCHANGED <<meta, launcher, worker, mine, child>>
    BY <1>8 DEF ClientJudges
  <2>2. \/ Goto(c, "write", [copy EXCEPT !.state = "termination_unverified"])
        \/ Goto(c, "write", [copy EXCEPT !.state = "cancelled"]) /\ ~(copy.cpid /\ child = "running")
    BY <1>8 DEF ClientJudges
  <2>3. CASE Goto(c, "write", [copy EXCEPT !.state = "termination_unverified"])
    BY <1>1, <1>2, <2>1, <2>3 DEF ClientWrites, Verdicts, Terminal, Unsettled
  <2>4. CASE Goto(c, "write", [copy EXCEPT !.state = "cancelled"]) /\ ~(copy.cpid /\ child = "running")
    BY <1>1, <1>2, <2>1, <2>4 DEF ClientWrites, Verdicts, Terminal
  <2> QED BY <2>2, <2>3, <2>4
<1>9. CASE ClientTruncates(c)
  <2>1. /\ client'[c].at = client[c].at /\ client'[c].copy = copy
        /\ \A d \in Clients \ {c} : client'[d] = client[d]
    BY <1>9 DEF ClientTruncates, ShellTaskTypeOK, ClientStates
  <2>2. UNCHANGED <<meta, launcher, worker, mine, child>>
    BY <1>9 DEF ClientTruncates, Truncate
  <2> QED BY <2>1, <2>2 DEF Rest, InOrder, NamedWasSpawned, VerdictsSettle, NoVerdictOverLiveChild
<1>10. CASE ClientFills(c)
  <2>1. PICK at \in {"idle", "stop"} : Goto(c, at, copy)
    BY <1>10 DEF ClientFills, Onward
  <2>2. client[c].at \in ClientWrites
    BY <1>10 DEF ClientFills, ShellTaskTypeOK, ClientStates
  <2>3. meta' = copy /\ UNCHANGED <<launcher, worker, mine, child>>
    BY <1>10 DEF ClientFills, Fill
  <2> QED BY <1>1, <2>1, <2>2, <2>3 DEF ClientWrites
<1>11. CASE ClientWriteFails(c)
  <2>1. Goto(c, "idle", copy) /\ UNCHANGED <<meta, launcher, worker, mine, child>>
    BY <1>11 DEF ClientWriteFails
  <2> QED BY <1>1, <2>1 DEF ClientWrites
<1> QED BY <1>3, <1>4, <1>5, <1>6, <1>7, <1>8, <1>9, <1>10, <1>11 DEF ClientStep

\* And the application, when it stops.
LEMMA AppInv ==
  ASSUME ShellInv, AppStops
  PROVE  Rest'
<1>1. /\ launcher'.at \in {"idle", "record", "spawn"} => launcher.at \in {"idle", "record", "spawn"}
      /\ \A c \in Clients : client'[c] = Idle
      /\ UNCHANGED <<meta, worker, mine, child>>
  BY DEF AppStops
<1> QED BY <1>1 DEF ShellInv, Rest, InOrder, NamedWasSpawned, VerdictsSettle, NoVerdictOverLiveChild,
                    Idle, NewRecord, ClientWrites

\* Every step of a durable task keeps its invariant.
LEMMA InvStep == ShellInv /\ [ShellTaskNext]_taskVars => ShellInv'
<1> SUFFICES ASSUME ShellInv, [ShellTaskNext]_taskVars PROVE ShellInv'
  OBVIOUS
<1>1. ShellTaskTypeOK'
  BY TypeStep DEF ShellInv
<1>2. CASE ShellTaskNext
  <2>1. Rest'
    BY <1>2, LauncherInv, WorkerInv, ClientInv, AppInv DEF ShellTaskNext
  <2> QED BY <1>1, <2>1 DEF ShellInv, Rest
<1>3. CASE UNCHANGED taskVars
  BY <1>1, <1>3 DEF taskVars, ShellInv, InOrder, NamedWasSpawned, VerdictsSettle, NoVerdictOverLiveChild
<1> QED BY <1>2, <1>3

\* Reconcile, cancel and the worker's deadline never conclude a task over a
\* child they know of and that still runs, whatever fails and however many
\* clients look at once.
THEOREM VerdictsSpareLiveChildren == ShellTaskSpec => []NoVerdictOverLiveChild
<1>1. ShellInv => NoVerdictOverLiveChild
  BY DEF ShellInv
<1> QED BY <1>1, InvInit, InvStep, PTL DEF ShellTaskSpec

-----------------------------------------------------------------------------
(* No writer brings a settled task back                                   *)

\* No step makes a verdict of a durable task a running one.
LEMMA VerdictKept ==
  ASSUME ShellInv, [ShellTaskNext]_taskVars, meta.state \in {"completed", "timed_out"}
  PROVE  meta'.state # "running"
<1> USE DEF ShellInv
<1>1. worker.at \in {"settle", "ended", "dead"}
  BY DEF VerdictsSettle, Verdicts
<1>2. CASE UNCHANGED meta
  BY <1>2
<1>3. CASE LaunchFills
  <2>1. launcher.at = "fail"
    BY <1>1, <1>3 DEF LaunchFills, InOrder
  <2> QED BY <1>3, <2>1 DEF LaunchFills, Fill, NewRecord
<1>4. CASE WorkerFills
  <2>1. worker.at = "settle"
    BY <1>1, <1>4 DEF WorkerFills, ShellTaskTypeOK, Workers, WorkerWrites
  <2> QED BY <1>4, <2>1 DEF WorkerFills, Fill, VerdictsSettle
<1>5. ASSUME NEW c \in Clients, ClientFills(c)
      PROVE  meta'.state # "running"
  <2>1. client[c].at \in ClientWrites
    BY <1>5 DEF ClientFills, ShellTaskTypeOK, ClientStates
  <2> QED BY <1>5, <2>1 DEF ClientFills, Fill, VerdictsSettle
<1>6. \/ UNCHANGED meta \/ LaunchFills \/ WorkerFills
      \/ \E c \in Clients : ClientFills(c)
  <2>1. CASE LauncherStep
    BY <2>1 DEF LauncherStep, LaunchBegins, LaunchTruncates, Truncate, LaunchSpawns, LaunchPublishes, LaunchFails
  <2>2. CASE DetachedWorkerStep
    BY <2>2 DEF DetachedWorkerStep, WorkerReads, WorkerTruncates, Truncate, WorkerWriteFails, WorkerSpawns,
                WorkerSpawnFails, CloseUnheard, CloseHeard, TimerFires, TimerJudges
  <2>3. ASSUME NEW c \in Clients, ClientStep(c)
        PROVE  UNCHANGED meta \/ ClientFills(c)
    BY <2>3 DEF ClientStep, ClientReads, ClientAssesses, ClientRechecks, ClientReassesses, ClientStops,
                ClientJudges, ClientTruncates, Truncate, ClientWriteFails
  <2>4. CASE WorkerCrashes \/ ChildExits \/ AppStops \/ UNCHANGED taskVars
    BY <2>4 DEF WorkerCrashes, ChildExits, AppStops, taskVars
  <2> QED BY <2>1, <2>2, <2>3, <2>4 DEF ShellTaskNext
<1> QED BY <1>2, <1>3, <1>4, <1>5, <1>6

\* A completed or timed-out task never reads as running again, although the
\* launcher and every client write back copies older than the verdict.
THEOREM CompletionNeverUndone == ShellTaskSpec => CompletionStands
<1>1. ShellInv /\ [ShellTaskNext]_taskVars => [meta.state \in {"completed", "timed_out"} => meta'.state # "running"]_taskVars
  BY VerdictKept
<1> QED BY <1>1, InvInit, InvStep, PTL DEF ShellTaskSpec, CompletionStands
=============================================================================
