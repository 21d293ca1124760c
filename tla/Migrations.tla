----------------------------- MODULE Migrations -----------------------------
(***************************************************************************)
(* Opening a database (core/db.py open_database, apply_migrations;         *)
(* core/version.py record_open).  An opener reads which migrations are     *)
(* recorded, then runs the scripts of the others, one after another.  A    *)
(* script is executed outside any transaction, so each of its statements   *)
(* commits on its own; the row that records it is a further statement.     *)
(* All statements are CREATE ... IF NOT EXISTS or INSERT OR IGNORE.        *)
(* Several processes may do this to one new file, and die anywhere.        *)
(***************************************************************************)
EXTENDS Naturals, FiniteSets

CONSTANTS Openers,     \* processes that open the file
          Scripts,     \* number of migration scripts
          Statements,  \* number of statements of a script
          MaxCrashes   \* bound on the processes that die

VARIABLES tables,      \* the statements that took effect: <<script, statement>>
          recorded,    \* the rows of schema_migrations
          major,       \* meta.schema_major, 0 when there is no row
          opener,      \* what each process is doing and knows
          crashes
vars == <<tables, recorded, major, opener, crashes>>

CurrentMajor == 1
Closed == [at |-> "closed", already |-> {}, script |-> 1, statement |-> 1, missing |-> FALSE]

(* A new file, or one that an older or a newer build left behind.          *)
Init == /\ \E n \in 0..Scripts : /\ recorded = 1..n
                                 /\ tables = (1..n) \X (1..Statements)
        /\ major \in {0, CurrentMajor, CurrentMajor + 1}
        /\ major # 0 => 1 \in recorded
        /\ opener = [p \in Openers |-> Closed]
        /\ crashes = 0

Goes(p, to) == opener' = [opener EXCEPT ![p].at = to]

(* The list of applied migrations is read once.                            *)
ReadApplied(p) ==
    /\ opener[p].at = "closed"
    /\ opener' = [opener EXCEPT ![p] = [Closed EXCEPT !.at = "migrate", !.already = recorded]]
    /\ UNCHANGED <<tables, recorded, major, crashes>>

SkipScript_Never(p) == FALSE
SkipScript(p) ==
    /\ opener[p].at = "migrate" /\ opener[p].script \in opener[p].already
    /\ opener' = [opener EXCEPT ![p].script = @ + 1]
    /\ UNCHANGED <<tables, recorded, major, crashes>>

RunStatement(p) ==
    LET o == opener[p]
    IN  /\ o.at = "migrate" /\ o.script <= Scripts /\ o.script \notin o.already
        /\ o.statement <= Statements
        /\ tables' = tables \cup {<<o.script, o.statement>>}
        /\ opener' = [opener EXCEPT ![p].statement = @ + 1]
        /\ UNCHANGED <<recorded, major, crashes>>

Finished_FirstStatement(o) == o.script <= Scripts /\ o.statement > 1
Finished(o) == o.script <= Scripts /\ o.statement > Statements

(* The name is the primary key of schema_migrations: the second process to *)
(* record a migration gets an IntegrityError, a MigrationError, and ends.  *)
RecordMigration(p) ==
    LET o == opener[p]
    IN  /\ o.at = "migrate" /\ o.script \notin o.already /\ Finished(o)
        /\ IF o.script \in recorded
           THEN Goes(p, "failed") /\ UNCHANGED recorded
           ELSE /\ recorded' = recorded \cup {o.script}
                /\ opener' = [opener EXCEPT ![p].script = @ + 1, ![p].statement = 1]
        /\ UNCHANGED <<tables, major, crashes>>

(* record_open: look the major version up; insert it, or compare it.       *)
LookUpMajor(p) ==
    /\ opener[p].at = "migrate" /\ opener[p].script > Scripts
    /\ IF major > CurrentMajor THEN Goes(p, "refused")
       ELSE opener' = [opener EXCEPT ![p].at = "version", ![p].missing = major = 0]
    /\ UNCHANGED <<tables, recorded, major, crashes>>
RecordOpen(p) ==
    /\ opener[p].at = "version"
    /\ IF opener[p].missing /\ major # 0
       THEN Goes(p, "failed") /\ UNCHANGED major
       ELSE Goes(p, "open") /\ major' = IF opener[p].missing THEN CurrentMajor ELSE major
    /\ UNCHANGED <<tables, recorded, crashes>>

(* The user runs the command again after an error.                         *)
Retry(p) == /\ opener[p].at = "failed" /\ opener' = [opener EXCEPT ![p] = Closed]
            /\ UNCHANGED <<tables, recorded, major, crashes>>
Crash(p) == /\ opener[p].at \notin {"closed", "refused"} /\ crashes < MaxCrashes
            /\ opener' = [opener EXCEPT ![p] = Closed] /\ crashes' = crashes + 1
            /\ UNCHANGED <<tables, recorded, major>>

(* Beginning to open, and running the command again, are the user's.       *)
Step(p) == SkipScript(p) \/ RunStatement(p) \/ RecordMigration(p) \/ LookUpMajor(p) \/ RecordOpen(p)
Next == \E p \in Openers : ReadApplied(p) \/ Step(p) \/ Retry(p) \/ Crash(p)
Spec == Init /\ [][Next]_vars /\ \A p \in Openers : WF_vars(Step(p))

-----------------------------------------------------------------------------

(* Whoever has the database open finds every table there, whatever its     *)
(* rivals did and wherever earlier openers died; a migration is recorded   *)
(* only after all of its statements; and a file of a newer schema is never *)
(* opened.  (core/db.py:195-199 in this order; core/version.py:37.)        *)
OpenMeansMigrated ==
    /\ \A m \in recorded, s \in 1..Statements : <<m, s>> \in tables
    /\ \A p \in Openers : opener[p].at = "open" =>
          recorded = 1..Scripts /\ major = CurrentMajor

(* Every opening comes to an end, and for good: the database is open,      *)
(* refused for a newer schema, or left after a lost race or a death; and   *)
(* nobody who runs the command again each time it fails does so for ever,  *)
(* since a race is lost only to a migration that is then recorded          *)
(* (core/db.py:195-205).                                                   *)
Unoccupied == \A p \in Openers : opener[p].at \notin {"migrate", "version"}
=============================================================================
