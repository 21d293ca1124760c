------------------------------ MODULE Backups -------------------------------
(***************************************************************************)
(* Backup and restore of a home (export/backup.py).  A backup copies the   *)
(* database with SQLite's backup API, notes a hash of every file, and then *)
(* archives the copy and the other files as they are by then.  A restore   *)
(* checks every file of the archive against its hash and only then copies  *)
(* them, one by one.  Another process goes on recording meanwhile.         *)
(* A file's content is the number of changes it has seen; the database has *)
(* one row, and the journal one line, for every event.                     *)
(***************************************************************************)
EXTENDS Naturals

CONSTANTS MaxEvents,  \* bound on the recorded events
          MaxBackups, MaxRestores

VARIABLES home,      \* the live files
          present,   \* those that exist
          unwritten, \* events whose journal line is still to be written
          backup,    \* the backup under way
          archives,  \* finished archives: [content, manifest]
          restore,   \* the restore under way, onto another home
          target,    \* that other home: file -> content, 0 for no file
          events, backups, restores
vars == <<home, present, unwritten, backup, archives, restore, target, events, backups, restores>>

Names == {"graph.sqlite", "audit.log", "evidence.ledger", "config.json"}
Included == <<"graph.sqlite", "audit.log", "evidence.ledger", "config.json">>
Sorted == <<"audit.log", "config.json", "evidence.ledger", "graph.sqlite">>
Empty == [f \in {} |-> 0]
NoBackup == [at |-> "idle", files |-> {}, todo |-> {}, content |-> Empty, manifest |-> Empty]
NoRestore == [at |-> "idle", from |-> [content |-> Empty, manifest |-> Empty], todo |-> {}]
First(order, S) == order[CHOOSE i \in DOMAIN order : order[i] \in S /\ \A k \in 1..(i - 1) : order[k] \notin S]
With(f, x, v) == [n \in DOMAIN f \cup {x} |-> IF n = x THEN v ELSE f[n]]

Init == /\ present \in {{"graph.sqlite"} \cup S : S \in SUBSET (Names \ {"graph.sqlite"})}
        /\ home = [f \in Names |-> 1] /\ unwritten = 0
        /\ backup = NoBackup /\ archives = {} /\ restore = NoRestore
        /\ target = [f \in Names |-> 0]
        /\ events = 0 /\ backups = 0 /\ restores = 0

(* AuditLog.record: the row, then the line.                                *)
RecordRow == /\ events < MaxEvents /\ events' = events + 1 /\ unwritten' = unwritten + 1
             /\ home' = [home EXCEPT !["graph.sqlite"] = @ + 1]
             /\ UNCHANGED <<present, backup, archives, restore, target, backups, restores>>
RecordLine == /\ unwritten > 0 /\ unwritten' = unwritten - 1
              /\ home' = [home EXCEPT !["audit.log"] = @ + 1]
              /\ present' = present \cup {"audit.log"}
              /\ UNCHANGED <<backup, archives, restore, target, events, backups, restores>>

(* The snapshot of the database, and the list of the files that exist.     *)
SnapshotDatabase ==
    /\ backup.at = "idle" /\ backups < MaxBackups /\ backups' = backups + 1
    /\ backup' = [NoBackup EXCEPT !.at = "hash", !.files = present, !.todo = present,
                                  !.content = With(Empty, "graph.sqlite", home["graph.sqlite"])]
    /\ UNCHANGED <<home, present, unwritten, archives, restore, target, events, restores>>
Reading(f) == IF f = "graph.sqlite" THEN backup.content[f] ELSE home[f]
HashFile ==
    /\ backup.at = "hash"
    /\ LET f    == First(Included, backup.todo)
           rest == backup.todo \ {f}
       IN  backup' = [backup EXCEPT !.manifest = With(@, f, Reading(f)),
                                    !.at = IF rest = {} THEN "archive" ELSE "hash",
                                    !.todo = IF rest = {} THEN backup.files ELSE rest]
    /\ UNCHANGED <<home, present, unwritten, archives, restore, target, events, backups, restores>>
ArchiveFile ==
    /\ backup.at = "archive"
    /\ LET f       == First(Included, backup.todo)
           content == With(backup.content, f, Reading(f))
       IN  IF backup.todo = {f}
           THEN /\ archives' = archives \cup {[content |-> content, manifest |-> backup.manifest]}
                /\ backup' = NoBackup
           ELSE /\ backup' = [backup EXCEPT !.content = content, !.todo = @ \ {f}]
                /\ UNCHANGED archives
    /\ UNCHANGED <<home, present, unwritten, restore, target, events, backups, restores>>

(* Extract, verify every file, then copy in the manifest's (sorted) order. *)
Verified_DatabaseOnly(a) == a.content["graph.sqlite"] = a.manifest["graph.sqlite"]
Verified(a) == \A f \in DOMAIN a.manifest : a.content[f] = a.manifest[f]
BeginRestore == \E a \in archives :
    /\ restore.at = "idle" /\ restores < MaxRestores /\ restores' = restores + 1
    /\ restore' = IF Verified(a)
                  THEN [at |-> "copy", from |-> a, todo |-> DOMAIN a.manifest]
                  ELSE [NoRestore EXCEPT !.at = "refused", !.from = a]
    /\ UNCHANGED <<home, present, unwritten, backup, archives, target, events, backups>>
CopyFile ==
    /\ restore.at = "copy"
    /\ LET f == First(Sorted, restore.todo)
       IN  /\ target' = With(target, f, restore.from.content[f])
           /\ restore' = [restore EXCEPT !.todo = @ \ {f},
                                         !.at = IF restore.todo = {f} THEN "restored" ELSE @]
    /\ UNCHANGED <<home, present, unwritten, backup, archives, events, backups, restores>>
EndRestore == /\ restore.at \in {"copy", "restored", "refused"} /\ restore' = NoRestore
              /\ UNCHANGED <<home, present, unwritten, backup, archives, target, events, backups, restores>>
AbortBackup == /\ backup.at # "idle" /\ backup' = NoBackup
               /\ UNCHANGED <<home, present, unwritten, archives, restore, target, events, backups, restores>>

Next == \/ RecordRow \/ RecordLine \/ SnapshotDatabase \/ HashFile \/ ArchiveFile \/ AbortBackup
        \/ BeginRestore \/ CopyFile \/ EndRestore
Spec == Init /\ [][Next]_vars

-----------------------------------------------------------------------------

(* A restore that ends has put there what the backup hashed, every file of *)
(* it; one that is refused has changed nothing.  (export/backup.py: all of *)
(* the hashes are compared before the first copy; the window between       *)
(* hashing and archiving is what makes a refusal possible.)                *)
RestoreStep ==
    /\ restore'.at = "restored" =>
          \A f \in DOMAIN restore'.from.manifest : target'[f] = restore'.from.manifest[f]
    /\ target' # target => \A f \in DOMAIN restore.from.manifest :
                              restore.from.content[f] = restore.from.manifest[f]
RestoresWhatWasHashed == [][RestoreStep]_vars

(* `dkg backup` "writes a consistent portable archive"                     *)
(* (docs/TROUBLESHOOTING.md:193): every archive passes its own check.      *)
EveryBackupRestores == \A a \in archives : Verified(a)
=============================================================================
