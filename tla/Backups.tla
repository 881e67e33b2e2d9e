------------------------------ MODULE Backups ------------------------------
(***************************************************************************)
(* The backups of the SQLite database and the restore of one of them when  *)
(* a process starts.  Several processes share the directory: each may make *)
(* backups, rotate them into the archive, schedule a restore, and stop     *)
(* between any two file operations.  A file another process has open can   *)
(* be neither renamed nor replaced.                                        *)
(***************************************************************************)
EXTENDS Integers, FiniteSets, Sequences

CONSTANTS
  Apps,          \* processes that open the database
  MaxBackups,    \* bound: backups made
  MaxWrites,     \* bound: changes of the data
  Retention,     \* manual backups that stay out of the archive
  BackupFaults   \* "rename_fails"

ASSUME BackupsAssumption ==
  /\ {MaxBackups, MaxWrites, Retention} \subseteq Nat
  /\ BackupFaults \subseteq {"rename_fails"}

VARIABLES
  data,       \* the database, the file it was moved to, the marker, writes so far
  backups,    \* the backups in the order of their creation
  apps,       \* where each process stands, and its backup job
  displaced,  \* history: contents a restore took out of the database
  split       \* history: backups whose move to the archive was cut short

backupVars == <<data, backups, apps, displaced, split>>

Missing == -1
DataContents == Missing .. MaxWrites
Ids == 1 .. Len(backups)

\* job: the next step of create; todo: what it has still to archive.
\* beside: another process ran while this one restored.
App == [at : {"down", "emergency", "aside", "place", "open", "up"},
        claim : 0 .. MaxBackups, beside : BOOLEAN,
        job : {"none", "rotate", "file", "moved"}, todo : SUBSET (1 .. MaxBackups)]

BackupsTypeOK ==
  /\ data \in [db : DataContents, old : DataContents, marker : 0 .. MaxBackups,
               writes : 0 .. MaxWrites]
  /\ Len(backups) \in 0 .. MaxBackups
  /\ \A k \in Ids : backups[k] \in
       [data : DataContents, file : {"main", "archive"}, manifest : {"main", "archive"}]
  /\ apps \in [Apps -> App]
  /\ displaced \subseteq DataContents /\ split \subseteq Ids

DownApp == [at |-> "down", claim |-> 0, beside |-> FALSE, job |-> "none", todo |-> {}]

BackupsInit ==
  /\ data = [db |-> 0, old |-> Missing, marker |-> 0, writes |-> 0]
  /\ backups = <<>>
  /\ apps = [p \in Apps |-> DownApp]
  /\ displaced = {} /\ split = {}

\* readStoredManifestById: the manifest, and the database file next to it.
Restorable(k) == backups[k].manifest = backups[k].file

OpenElsewhere(p) == \E q \in Apps \ {p} : apps[q].at = "up"

\* A backup without its manifest is in no list and cannot be restored: it is
\* stored when both files are there.
Stored(content) == Append(backups, [data |-> content, file |-> "main", manifest |-> "main"])

-----------------------------------------------------------------------------
(* create and rotateRetention                                             *)

WriteData(p) ==
  /\ apps[p].at = "up" /\ data.writes < MaxWrites
  /\ data' = [data EXCEPT !.db = data.writes + 1, !.writes = @ + 1]
  /\ UNCHANGED <<backups, apps, displaced, split>>

BackupJob(p, job, todo) == apps' = [apps EXCEPT ![p] = [@ EXCEPT !.job = job, !.todo = todo]]

CreateBackup(p) ==
  /\ apps[p].at = "up" /\ apps[p].job = "none" /\ Len(backups) < MaxBackups
  /\ backups' = Stored(data.db)
  /\ BackupJob(p, "rotate", {})
  /\ UNCHANGED <<data, displaced, split>>

\* listManifests: backups whose two files lie in the directory.
Listed == {k \in Ids : backups[k].manifest = "main" /\ backups[k].file = "main"}
Surplus == {k \in Listed : Cardinality({l \in Listed : l > k}) >= Retention}

ListBackups(p) ==
  /\ apps[p].job = "rotate"
  /\ IF Surplus = {} THEN BackupJob(p, "none", {}) ELSE BackupJob(p, "file", Surplus)
  /\ UNCHANGED <<data, backups, displaced, split>>

\* The newest of those that are to go.
NewestOf(todo) == CHOOSE k \in todo : \A l \in todo : l <= k
Moving(p) == NewestOf(apps[p].todo)

\* The database file goes first.  When it is not there any more create fails.
ArchiveFile(p) ==
  /\ apps[p].job = "file"
  /\ \/ /\ backups[Moving(p)].file = "main"
        /\ backups' = [backups EXCEPT ![Moving(p)].file = "archive"]
        /\ BackupJob(p, "moved", apps[p].todo)
     \/ /\ backups[Moving(p)].file # "main" \/ "rename_fails" \in BackupFaults
        /\ BackupJob(p, "none", {}) /\ UNCHANGED backups
  /\ UNCHANGED <<data, displaced, split>>

\* Mutant: the database file stays in the archive.
NotPutBack(k) == backups
\* A manifest that cannot follow lets the database file come back, unless that
\* rename fails, too, which nobody is told.
PutBack(k) == [backups EXCEPT ![k].file = "main"]

ArchiveManifest(p) ==
  /\ apps[p].job = "moved"
  /\ LET k == Moving(p)
         rest == apps[p].todo \ {k} IN
       \/ /\ backups' = [backups EXCEPT ![k].manifest = "archive"]
          /\ BackupJob(p, IF rest = {} THEN "none" ELSE "file", rest)
          /\ UNCHANGED split
       \/ /\ "rename_fails" \in BackupFaults
          /\ \/ backups' = PutBack(k) /\ UNCHANGED split
             \/ UNCHANGED backups /\ split' = split \cup {k}
          /\ BackupJob(p, "none", {})
  /\ UNCHANGED <<data, displaced>>

ScheduleRestore(p) ==
  /\ apps[p].at = "up"
  /\ \E k \in Ids : Restorable(k) /\ data' = [data EXCEPT !.marker = k]
  /\ UNCHANGED <<backups, apps, displaced, split>>

-----------------------------------------------------------------------------
(* applyPendingSqliteRestoreSync                                          *)

GoAt(p, place) == apps' = [apps EXCEPT ![p].at = place]
Proceed(p) == apps' = [apps EXCEPT ![p] = [DownApp EXCEPT !.at = "open"]]
Restoring(p) == apps[p].at \in {"emergency", "aside", "place"}

\* Only one process can rename the marker.
LaunchApp(p) ==
  /\ apps[p].at = "down"
  /\ data' = [data EXCEPT !.marker = 0]
  /\ apps' = [q \in Apps |->
       IF q # p THEN [apps[q] EXCEPT !.beside = Restoring(q)]
       ELSE [DownApp EXCEPT !.at = IF data.marker = 0 THEN "open" ELSE "emergency",
                            !.claim = data.marker,
                            !.beside = data.marker # 0 /\ \E o \in Apps \ {p} : apps[o].at # "down"]]
  /\ UNCHANGED <<backups, displaced, split>>

NeedsEmergency == data.db # Missing

EmergencyBackup(p) ==
  /\ apps[p].at = "emergency" /\ Len(backups) < MaxBackups
  /\ IF Restorable(apps[p].claim)
     THEN /\ backups' = IF NeedsEmergency THEN Stored(data.db) ELSE backups
          /\ GoAt(p, "aside")
     ELSE Proceed(p) /\ UNCHANGED backups
  /\ UNCHANGED <<data, displaced, split>>

\* Contents taken away are to be found again, unless another process may have
\* changed them after the backup.
Displaced(p) == IF apps[p].beside \/ data.db = Missing THEN displaced ELSE displaced \cup {data.db}

\* What an earlier restore left aside is removed; a database that is open
\* elsewhere cannot be moved, and the restore fails.
MoveDatabaseAside(p) ==
  /\ apps[p].at = "aside"
  /\ IF data.db # Missing /\ OpenElsewhere(p)
     THEN Proceed(p) /\ data' = [data EXCEPT !.old = Missing] /\ UNCHANGED displaced
     ELSE /\ data' = [data EXCEPT !.old = data.db, !.db = Missing]
          /\ displaced' = Displaced(p) /\ GoAt(p, "place")
  /\ UNCHANGED <<backups, split>>

\* The copy takes its place and the old one is removed; when that fails the old one returns, unless a
\* process has made a new one meanwhile.
PlaceRestored(p) ==
  /\ apps[p].at = "place"
  /\ \/ /\ data.db = Missing \/ ~OpenElsewhere(p)
        /\ data' = [data EXCEPT !.db = backups[apps[p].claim].data, !.old = Missing]
        /\ displaced' = Displaced(p) /\ Proceed(p)
     \/ /\ "rename_fails" \in BackupFaults \/ (data.db # Missing /\ OpenElsewhere(p))
        /\ data' = IF data.db = Missing THEN [data EXCEPT !.db = data.old, !.old = Missing] ELSE data
        /\ Proceed(p) /\ UNCHANGED displaced
  /\ UNCHANGED <<backups, split>>

\* A database that is not there is created empty.
OpenDatabase(p) ==
  /\ apps[p].at = "open"
  /\ apps' = [apps EXCEPT ![p] = [DownApp EXCEPT !.at = "up"]]
  /\ data' = [data EXCEPT !.db = IF @ = Missing THEN 0 ELSE @]
  /\ UNCHANGED <<backups, displaced, split>>

\* A process ends, orderly or not, wherever it stands.
StopApp(p) ==
  /\ apps[p].at # "down"
  /\ apps' = [apps EXCEPT ![p] = DownApp]
  /\ split' = IF apps[p].job = "moved" THEN split \cup {Moving(p)} ELSE split
  /\ UNCHANGED <<data, backups, displaced>>

-----------------------------------------------------------------------------

AppStep(p) ==
  \/ WriteData(p) \/ CreateBackup(p) \/ ListBackups(p)
  \/ ArchiveFile(p) \/ ArchiveManifest(p) \/ ScheduleRestore(p)
  \/ LaunchApp(p) \/ EmergencyBackup(p) \/ MoveDatabaseAside(p) \/ PlaceRestored(p)
  \/ OpenDatabase(p) \/ StopApp(p)

BackupsNext == \E p \in Apps : AppStep(p)

BackupsSpec == BackupsInit /\ [][BackupsNext]_backupVars

-----------------------------------------------------------------------------
(* Properties                                                             *)

UnderWay(k) == \E p \in Apps : apps[p].job = "moved" /\ Moving(p) = k

\* What a restore took out of the database, no other process running beside
\* it, can itself be restored, wherever processes stop, whatever fails, and
\* whoever rotates the backups later: it is in a backup with its manifest,
\* except while that is moved to the archive, or when the move was cut short: a
\* process stopped in the middle of it, or its manifest could not follow and the
\* file could not be moved back either.
\* (applyPendingSqliteRestoreSync, archiveBackup: backup-service.ts:152-199, 358-373)
ReplacedDataCanBeRestored ==
  \A v \in displaced : \E k \in Ids :
    backups[k].data = v /\ (Restorable(k) \/ UnderWay(k) \/ k \in split)
=============================================================================
