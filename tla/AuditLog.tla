------------------------------ MODULE AuditLog ------------------------------
(***************************************************************************)
(* core/audit.py: the append-only audit table with its per-row hash chain, *)
(* the mirrored journal file, and the processes that record into them.     *)
(*                                                                         *)
(* Every caller commits its change first and records afterwards, outside   *)
(* that transaction.  A record is three steps with nothing held in         *)
(* between: SELECT the last hash, INSERT the row, append the journal line. *)
(*                                                                         *)
(* A SHA-256 is taken to be injective: a hash is the sequence of the       *)
(* bodies it chains.  A body is an entry and a flag that says whether the  *)
(* stored row was rewritten after the fact.                                *)
(***************************************************************************)
EXTENDS Sequences, Naturals, FiniteSets

CONSTANTS
  Recorders,   \* threads and processes that record into the one database
  Entries,     \* what they record, each once (audit_id is unique)
  Tampering,   \* what happens to the table behind the program's back
  MaxCrashes,  \* bound: how often recorders may die half-way
  NoEntry      \* no entry

ASSUME AuditAssumption ==
  /\ Tampering \subseteq {"rewrite", "relink", "rehash", "delete"}
  /\ MaxCrashes \in Nat
  /\ NoEntry \notin Entries

VARIABLES
  rows,      \* table audit_log in ROWID order
  journal,   \* the lines of $DKG_HOME/audit.log
  pc,        \* where each recorder is
  entry,     \* the entry a recorder is recording
  prev,      \* the last hash it read
  changes,   \* entries whose change is committed to the other tables
  written,   \* history: the rows as record() inserted them, in that order
  crashes    \* how often a recorder has died

vars == <<rows, journal, pc, entry, prev, changes, written, crashes>>

-----------------------------------------------------------------------------

NoHash == <<>>
Body(e) == [entry |-> e, rewritten |-> FALSE]
Bodies == [entry : Entries, rewritten : BOOLEAN]

\* The hash of a body chained to the previous row's hash.
Link(h, b) == Append(h, b)

Row(b, h) == [body |-> b, prev |-> h, hash |-> Link(h, b)]

\* Mutant: the oldest row is read.
LastHash_Oldest(s) == IF s = <<>> THEN NoHash ELSE s[1].hash

\* _last_hash: ORDER BY ROWID DESC LIMIT 1.
LastHash(s) == IF s = <<>> THEN NoHash ELSE s[Len(s)].hash

\* verify_chain walks the rows, chaining each body to the hash stored in the row
\* before it and comparing with the row's own; the column prev_hash is not read.
\* The first row that differs, 0 if none.
Preceding(s, i) == IF i = 1 THEN NoHash ELSE s[i - 1].hash
Expected(s, i) == Link(Preceding(s, i), s[i].body)
Broken(s) == {i \in 1..Len(s) : s[i].hash # Expected(s, i)}

\* Mutant: the walk starts at the second row.
FirstBreak_SkipsFirst(s) ==
  LET B == Broken(s) \ {1}
  IN  IF B = {} THEN 0 ELSE CHOOSE i \in B : \A j \in B : i <= j

FirstBreak(s) ==
  LET B == Broken(s)
  IN  IF B = {} THEN 0 ELSE CHOOSE i \in B : \A j \in B : i <= j

-----------------------------------------------------------------------------

Init ==
  /\ rows = <<>> /\ journal = <<>>
  /\ pc = [r \in Recorders |-> "idle"]
  /\ entry = [r \in Recorders |-> NoEntry]
  /\ prev = [r \in Recorders |-> NoHash]
  /\ changes = {}
  /\ written = <<>> /\ crashes = 0

Goto(r, from, to) == pc[r] = from /\ pc' = [pc EXCEPT ![r] = to]

\* The caller's own transaction commits (write_code_graph, forget, ingest).
Change(r, e) ==
  /\ Goto(r, "idle", "changed")
  /\ e \notin changes
  /\ changes' = changes \cup {e}
  /\ entry' = [entry EXCEPT ![r] = e]
  /\ UNCHANGED <<rows, journal, prev, written, crashes>>

ReadLastHash(r) ==
  /\ Goto(r, "changed", "read")
  /\ prev' = [prev EXCEPT ![r] = LastHash(rows)]
  /\ UNCHANGED <<rows, journal, entry, changes, written, crashes>>

\* Mutant: only the first row is kept (INSERT OR IGNORE over a fixed id).
Insert_OnlyFirst(r) ==
  /\ Goto(r, "read", "inserted")
  /\ LET row == Row(Body(entry[r]), prev[r])
     IN  /\ rows' = IF rows = <<>> THEN <<row>> ELSE rows
         /\ written' = IF rows = <<>> THEN <<row>> ELSE written
  /\ UNCHANGED <<journal, entry, prev, changes, crashes>>

Insert(r) ==
  /\ Goto(r, "read", "inserted")
  /\ LET row == Row(Body(entry[r]), prev[r])
     IN  /\ rows' = Append(rows, row)
         /\ written' = Append(written, row)
  /\ UNCHANGED <<journal, entry, prev, changes, crashes>>

\* Mutant: the line is chained to the tail as it is now.
AppendJournal_Rechained(r) ==
  /\ Goto(r, "inserted", "idle")
  /\ journal' = Append(journal, Row(Body(entry[r]), LastHash(rows)))
  /\ entry' = [entry EXCEPT ![r] = NoEntry]
  /\ prev' = [prev EXCEPT ![r] = NoHash]
  /\ UNCHANGED <<rows, changes, written, crashes>>

\* The journal line carries the body and the row hash.
AppendJournal(r) ==
  /\ Goto(r, "inserted", "idle")
  /\ journal' = Append(journal, Row(Body(entry[r]), prev[r]))
  /\ entry' = [entry EXCEPT ![r] = NoEntry]
  /\ prev' = [prev EXCEPT ![r] = NoHash]
  /\ UNCHANGED <<rows, changes, written, crashes>>

\* The process dies, or the INSERT raises ("database is locked").
Crash(r) ==
  /\ crashes < MaxCrashes
  /\ crashes' = crashes + 1
  /\ pc[r] # "idle"
  /\ pc' = [pc EXCEPT ![r] = "idle"]
  /\ entry' = [entry EXCEPT ![r] = NoEntry]
  /\ prev' = [prev EXCEPT ![r] = NoHash]
  /\ UNCHANGED <<rows, journal, changes, written>>

\* Somebody edits the database file: a row's body or its prev_hash is rewritten, or
\* its hash is computed again for what it has become.
Tamper(how, newRows) ==
  /\ how \in Tampering
  /\ rows' = newRows
  /\ UNCHANGED <<journal, pc, entry, prev, changes, written, crashes>>

Rewrite(i) ==
  /\ ~rows[i].body.rewritten
  /\ Tamper("rewrite", [rows EXCEPT ![i].body.rewritten = TRUE])

Relink(i) == Tamper("relink", [rows EXCEPT ![i].prev = NoHash])

\* Not the newest row's: with nothing chained to it, nothing would tell.
Rehash(i) ==
  /\ i < Len(rows)
  /\ Tamper("rehash", [rows EXCEPT ![i] = Row(rows[i].body, Preceding(rows, i))])

\* Nor is the newest row deleted, for the same reason.
Delete(i) ==
  /\ i < Len(rows)
  /\ Tamper("delete", SubSeq(rows, 1, i - 1) \o SubSeq(rows, i + 1, Len(rows)))

Next ==
  \/ \E r \in Recorders :
       \/ \E e \in Entries : Change(r, e)
       \/ ReadLastHash(r)
       \/ Insert(r)
       \/ AppendJournal(r)
       \/ Crash(r)
  \/ \E i \in 1..Len(rows) : Rewrite(i) \/ Relink(i) \/ Rehash(i) \/ Delete(i)

Spec == Init /\ [][Next]_vars

-----------------------------------------------------------------------------
(* Properties *)

AuditRow == [body : Bodies, prev : Seq(Bodies), hash : Seq(Bodies)]
PcValues == {"idle", "changed", "read", "inserted"}

\* Rows, lines and locals have their declared shape.
TypeOK ==
  /\ rows \in Seq(AuditRow)
  /\ journal \in Seq(AuditRow)
  /\ written \in Seq(AuditRow)
  /\ pc \in [Recorders -> PcValues]
  /\ entry \in [Recorders -> Entries \cup {NoEntry}]
  /\ prev \in [Recorders -> Seq(Bodies)]
  /\ changes \subseteq Entries
  /\ crashes \in Nat

\* The first row that does not say what record() inserted there, 0 if there is
\* none.  The column prev_hash is left out: nothing reads it.
Says(row, as) == row.body = as.body /\ row.hash = as.hash
Differing ==
  {i \in 1..Len(written) : i <= Len(rows) => ~Says(rows[i], written[i])}
FirstDifference ==
  IF Differing = {} THEN 0 ELSE CHOOSE i \in Differing : \A j \in Differing : i <= j

\* audit.py:3-4 and 111-116: verification fails exactly when the table no longer says
\* what was recorded, whatever was recorded before, between and after.  The row it
\* names is the first that differs, or comes after it, and then every row from that
\* one on has had its hash computed again.
Issued == {written[k].hash : k \in 1..Len(written)}
VerifyTellsTheTruth ==
  /\ FirstBreak(rows) = 0 <=> FirstDifference = 0
  /\ FirstDifference <= FirstBreak(rows)
  /\ FirstDifference # 0 =>
       \A i \in FirstDifference..(FirstBreak(rows) - 1) : rows[i].hash \notin Issued

\* A journal line is written after its INSERT returned and with what was
\* inserted: whatever interleaves or dies, none lacks its row (audit.py:93-96).
RowIn(s, row) == \E i \in 1..Len(s) : s[i] = row
JournalSound == \A j \in 1..Len(journal) : RowIn(written, journal[j])

\* Change, row and journal line are three writes.  What is missing, a row of a
\* committed change or a line of a row, is in flight or was lost to a crash,
\* one piece to each: nothing else goes unrecorded (audit.py:54-97).
RecordedIn(s) == {s[i].body.entry : i \in 1..Len(s)}
Accounted ==
  LET unrecorded == changes \ RecordedIn(written)
      unmirrored == RecordedIn(written) \ RecordedIn(journal)
      inFlight   == {r \in Recorders : pc[r] # "idle"}
  IN  Cardinality(unrecorded) + Cardinality(unmirrored)
        <= crashes + Cardinality(inFlight)

\* What record() inserts is inserted atomically: AuditLog implements AtomicAudit,
\* even while stored rows are tampered with before the last.
Atomic == INSTANCE AtomicAudit
            WITH Entries <- {Body(e) : e \in Entries}, log <- written
RecordsAtomically == Atomic!Spec

-----------------------------------------------------------------------------
(* The arguments, as invariants *)

\* For any recorders and any tampering: whoever is under way has an entry, and one
\* that is about to write its line has its row in.
EntryHeld == \A r \in Recorders : pc[r] # "idle" => entry[r] \in Entries
RowBeforeLine ==
  \A r \in Recorders : pc[r] = "inserted" =>
    RowIn(written, Row(Body(entry[r]), prev[r]))
LineInv == TypeOK /\ EntryHeld /\ RowBeforeLine /\ JournalSound

\* No two recorders carry the same entry, and what one carries is exactly a piece
\* that is missing: a row of a change until it is inserted, then a line of a row.
Unrecorded == changes \ RecordedIn(written)
Unmirrored == RecordedIn(written) \ RecordedIn(journal)
InFlight   == {r \in Recorders : pc[r] # "idle"}
Carried ==
  /\ RecordedIn(journal) \subseteq RecordedIn(written)
  /\ RecordedIn(written) \subseteq changes
  /\ \A r \in InFlight :
       entry[r] \in IF pc[r] = "inserted" THEN Unmirrored ELSE Unrecorded
  /\ \A r, s \in InFlight : entry[r] = entry[s] => r = s
Counted ==
  /\ IsFiniteSet(Unrecorded) /\ IsFiniteSet(Unmirrored) /\ IsFiniteSet(InFlight)
  /\ Cardinality(Unrecorded) + Cardinality(Unmirrored) <= crashes + Cardinality(InFlight)

\* With one recorder, whatever is done to the table behind its back: what it
\* inserted is a chain, the k-th row's hash covering k bodies; no more rows are stored
\* than that, the last one still has the last hash, and that is the one it has read.
OneRecorder == \A r, s \in Recorders : r = s
ChainWritten ==
  \A k \in 1..Len(written) :
    /\ written[k].hash = Expected(written, k)
    /\ Len(written[k].hash) = k
NoLonger == Len(rows) <= Len(written)
LastStays == LastHash(rows) = LastHash(written)
PrevIsLast == \A r \in Recorders : pc[r] = "read" => prev[r] = LastHash(rows)
ChainInv == ChainWritten /\ NoLonger /\ LastStays /\ PrevIsLast

=============================================================================
