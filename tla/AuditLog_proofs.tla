--------------------------- MODULE AuditLog_proofs ---------------------------
(***************************************************************************)
(* Theorems about AuditLog, for every set of recorders and entries and     *)
(* every number of crashes.                                                *)
(*                                                                         *)
(* JournalSoundEver and AccountedEver hold for any number of recorders.    *)
(* The other two assume OneRecorder: two recorders fork the chain, as      *)
(* AuditLog_fork shows.  All hold whatever is rewritten or deleted, as     *)
(* long as the last row keeps its hash.                                    *)
(***************************************************************************)
EXTENDS AuditLog, TLAPS, FiniteSetTheorems, SequenceTheorems,
        WellFoundedInduction

\* A row is typed when its body and the hash it is chained to are.
LEMMA RowType ==
  ASSUME NEW b \in Bodies, NEW h \in Seq(Bodies)
  PROVE  Row(b, h) \in AuditRow
BY DEF Row, AuditRow, Link

\* The hash of the last row is a hash.
LEMMA LastHashType ==
  ASSUME NEW s \in Seq(AuditRow)
  PROVE  LastHash(s) \in Seq(Bodies)
<1>1. CASE s = <<>>
  BY <1>1 DEF LastHash, NoHash
<1>2. CASE s # <<>>
  <2>1. Len(s) \in 1..Len(s)
    BY <1>2
  <2>2. s[Len(s)] \in AuditRow
    BY <2>1
  <2> QED  BY <1>2, <2>2 DEF LastHash, AuditRow
<1> QED  BY <1>1, <1>2

\* A row stays in the table it was appended to.
LEMMA AppendKeepsRows ==
  ASSUME NEW s \in Seq(AuditRow), NEW x \in AuditRow, NEW row, RowIn(s, row)
  PROVE  RowIn(Append(s, x), row)
<1>1. PICK i \in 1..Len(s) : s[i] = row
  BY DEF RowIn
<1>2. i \in 1..Len(Append(s, x)) /\ Append(s, x)[i] = row
  BY <1>1
<1> QED  BY <1>2 DEF RowIn

\* Whatever somebody does to the table leaves it a table and the last row's hash where
\* it is, and touches nothing else.
LEMMA TamperKeepsLast ==
  ASSUME TypeOK, NEW i \in 1..Len(rows), Rewrite(i) \/ Relink(i) \/ Rehash(i) \/ Delete(i)
  PROVE  /\ rows' \in Seq(AuditRow) /\ Len(rows') <= Len(rows)
         /\ LastHash(rows') = LastHash(rows)
         /\ UNCHANGED <<journal, pc, entry, prev, changes, written, crashes>>
<1> USE DEF Tamper
<1>1. rows \in Seq(AuditRow) /\ rows[i] \in AuditRow /\ Len(rows) \in 1..Len(rows)
      /\ rows # <<>> /\ rows[Len(rows)] \in AuditRow
  BY DEF TypeOK
<1>2. ASSUME NEW x \in AuditRow, rows' = [rows EXCEPT ![i] = x],
             i < Len(rows) \/ x.hash = rows[i].hash
      PROVE  /\ rows' \in Seq(AuditRow) /\ Len(rows') <= Len(rows)
             /\ LastHash(rows') = LastHash(rows)
  <2>1. rows' \in Seq(AuditRow) /\ Len(rows') = Len(rows) /\ rows' # <<>>
    BY <1>1, <1>2
  <2>2. rows'[Len(rows)].hash = rows[Len(rows)].hash
    BY <1>1, <1>2
  <2> QED  BY <1>1, <2>1, <2>2 DEF LastHash
<1>3. CASE Rewrite(i)
  <2> DEFINE x == [rows[i] EXCEPT !.body.rewritten = TRUE]
  <2>1. x \in AuditRow /\ x.hash = rows[i].hash
    BY <1>1 DEF AuditRow, Bodies
  <2>2. rows' = [rows EXCEPT ![i] = x]
        /\ UNCHANGED <<journal, pc, entry, prev, changes, written, crashes>>
    BY <1>3 DEF Rewrite
  <2> HIDE DEF x
  <2> QED  BY <1>2, <2>1, <2>2
<1>4. CASE Relink(i)
  <2> DEFINE x == [rows[i] EXCEPT !.prev = NoHash]
  <2>1. x \in AuditRow /\ x.hash = rows[i].hash
    <3>1. NoHash \in Seq(Bodies)
      BY DEF NoHash
    <3> QED  BY <1>1, <3>1 DEF AuditRow
  <2>2. rows' = [rows EXCEPT ![i] = x]
        /\ UNCHANGED <<journal, pc, entry, prev, changes, written, crashes>>
    BY <1>4 DEF Relink
  <2> HIDE DEF x
  <2> QED  BY <1>2, <2>1, <2>2
<1>5. CASE Rehash(i)
  <2> DEFINE x == Row(rows[i].body, Preceding(rows, i))
  <2>1. Preceding(rows, i) \in Seq(Bodies)
    <3>1. CASE i = 1
      BY <3>1 DEF Preceding, NoHash
    <3>2. CASE i # 1
      <4>1. i - 1 \in 1..Len(rows)
        BY <1>1, <3>2
      <4>2. rows[i - 1] \in AuditRow
        BY <1>1, <4>1
      <4> QED  BY <3>2, <4>2 DEF Preceding, AuditRow
    <3> QED  BY <3>1, <3>2
  <2>2. x \in AuditRow
    BY <1>1, <2>1, RowType DEF AuditRow
  <2>3. rows' = [rows EXCEPT ![i] = x] /\ i < Len(rows)
        /\ UNCHANGED <<journal, pc, entry, prev, changes, written, crashes>>
    BY <1>5 DEF Rehash
  <2> HIDE DEF x
  <2> QED  BY <1>2, <2>2, <2>3
<1>6. CASE Delete(i)
  <2> DEFINE a == SubSeq(rows, 1, i - 1)
             c == SubSeq(rows, i + 1, Len(rows))
  <2>1. rows' = a \o c /\ i < Len(rows) /\ Len(rows) \in Nat /\ i \in Nat
        /\ UNCHANGED <<journal, pc, entry, prev, changes, written, crashes>>
    BY <1>1, <1>6 DEF Delete
  <2>2. a \in Seq(AuditRow) /\ Len(a) = i - 1
    BY <1>1, <2>1
  <2>3. c \in Seq(AuditRow) /\ Len(c) = Len(rows) - i
        /\ c[Len(rows) - i] = rows[Len(rows)]
    BY <1>1, <2>1
  <2> HIDE DEF a, c
  <2>4. Len(a \o c) = Len(rows) - 1 /\ a \o c \in Seq(AuditRow)
    <3>1. Len(a \o c) = Len(a) + Len(c) /\ a \o c \in Seq(AuditRow)
      BY <2>2, <2>3, ConcatProperties
    <3> QED  BY <2>1, <2>2, <2>3, <3>1
  <2>5. (a \o c)[Len(rows) - 1] = c[Len(rows) - i]
    <3>1. Len(rows) - 1 \in 1..(Len(a) + Len(c)) /\ Len(rows) - 1 > Len(a)
          /\ Len(rows) - 1 - Len(a) = Len(rows) - i
      BY <2>1, <2>2, <2>3
    <3>2. (a \o c)[Len(rows) - 1]
            = IF Len(rows) - 1 <= Len(a) THEN a[Len(rows) - 1] ELSE c[Len(rows) - 1 - Len(a)]
      BY <2>2, <2>3, <3>1, ConcatProperties
    <3> QED  BY <2>1, <2>2, <3>1, <3>2
  <2>6. rows' # <<>>
    BY <2>1, <2>4
  <2> QED  BY <1>1, <2>1, <2>3, <2>4, <2>5, <2>6 DEF LastHash
<1> QED  BY <1>3, <1>4, <1>5, <1>6

-----------------------------------------------------------------------------
(* The journal and the accounts: any recorders, any tampering *)

\* Rows are inserted before their line and, in the history, never removed.
LEMMA LineStep ==
  ASSUME LineInv, [Next]_vars
  PROVE  LineInv'
<1> USE DEF LineInv
<1>1. CASE UNCHANGED vars
  BY <1>1 DEF vars, TypeOK, EntryHeld, RowBeforeLine, JournalSound
<1>2. ASSUME NEW r \in Recorders, NEW e \in Entries, Change(r, e)
      PROVE  LineInv'
  <2>1. TypeOK'
    BY <1>2 DEF Change, Goto, TypeOK, PcValues
  <2>2. EntryHeld'
    BY <1>2 DEF Change, Goto, TypeOK, EntryHeld
  <2>3. RowBeforeLine'
    BY <1>2 DEF Change, Goto, TypeOK, RowBeforeLine
  <2>4. JournalSound'
    BY <1>2 DEF Change, JournalSound
  <2> QED  BY <2>1, <2>2, <2>3, <2>4
<1>3. ASSUME NEW r \in Recorders, ReadLastHash(r)
      PROVE  LineInv'
  <2>1. TypeOK'
    BY <1>3, LastHashType DEF ReadLastHash, Goto, TypeOK, PcValues
  <2>2. EntryHeld'
    BY <1>3 DEF ReadLastHash, Goto, TypeOK, EntryHeld
  <2>3. RowBeforeLine'
    BY <1>3 DEF ReadLastHash, Goto, TypeOK, RowBeforeLine
  <2>4. JournalSound'
    BY <1>3 DEF ReadLastHash, JournalSound
  <2> QED  BY <2>1, <2>2, <2>3, <2>4
<1>4. ASSUME NEW r \in Recorders, Insert(r)
      PROVE  LineInv'
  <2> DEFINE row == Row(Body(entry[r]), prev[r])
  <2>1. /\ pc[r] = "read" /\ pc' = [pc EXCEPT ![r] = "inserted"]
        /\ written' = Append(written, row) /\ rows' = Append(rows, row)
        /\ UNCHANGED <<journal, entry, prev, changes, crashes>>
    BY <1>4 DEF Insert, Goto
  <2>2. row \in AuditRow
    <3>1. Body(entry[r]) \in Bodies
      BY <2>1 DEF EntryHeld, Body, Bodies
    <3> QED  BY <3>1, RowType DEF TypeOK
  <2> HIDE DEF row
  <2>3. TypeOK'
    BY <2>1, <2>2 DEF TypeOK, PcValues
  <2>4. EntryHeld'
    BY <2>1 DEF TypeOK, EntryHeld
  <2>5. \A x : RowIn(written, x) => RowIn(written', x)
    BY <2>1, <2>2, AppendKeepsRows DEF TypeOK
  <2>6. RowIn(written', row)
    <3> DEFINE n == Len(written) + 1
    <3>1. written \in Seq(AuditRow)
      BY DEF TypeOK
    <3>2. n \in 1..Len(written') /\ written'[n] = row
      BY <2>1, <2>2, <3>1
    <3> QED  BY <3>2 DEF RowIn
  <2>7. RowBeforeLine'
    <3>1. SUFFICES ASSUME NEW q \in Recorders, pc'[q] = "inserted"
                   PROVE  RowIn(written', Row(Body(entry[q]), prev[q]))
      BY <2>1 DEF RowBeforeLine
    <3>2. CASE q = r
      BY <2>6, <3>2 DEF row
    <3>3. CASE q # r
      <4>1. pc[q] = "inserted"
        BY <2>1, <3>1, <3>3 DEF TypeOK
      <4> QED  BY <2>5, <4>1 DEF RowBeforeLine
    <3> QED  BY <3>2, <3>3
  <2>8. JournalSound'
    BY <2>1, <2>5 DEF JournalSound
  <2> QED  BY <2>3, <2>4, <2>7, <2>8
<1>5. ASSUME NEW r \in Recorders, AppendJournal(r)
      PROVE  LineInv'
  <2> DEFINE row == Row(Body(entry[r]), prev[r])
  <2>1. /\ pc[r] = "inserted" /\ pc' = [pc EXCEPT ![r] = "idle"]
        /\ journal' = Append(journal, row)
        /\ entry' = [entry EXCEPT ![r] = NoEntry]
        /\ prev' = [prev EXCEPT ![r] = NoHash]
        /\ UNCHANGED <<rows, changes, written, crashes>>
    BY <1>5 DEF AppendJournal, Goto
  <2>2. row \in AuditRow
    <3>1. Body(entry[r]) \in Bodies
      BY <2>1 DEF EntryHeld, Body, Bodies
    <3> QED  BY <3>1, RowType DEF TypeOK
  <2>3. RowIn(written, row)
    BY <2>1 DEF RowBeforeLine
  <2> HIDE DEF row
  <2>4. TypeOK'
    BY <2>1, <2>2 DEF TypeOK, PcValues, NoHash
  <2>5. EntryHeld' /\ RowBeforeLine'
    <3>1. \A q \in Recorders : pc'[q] # "idle" =>
            q # r /\ pc[q] = pc'[q] /\ entry'[q] = entry[q] /\ prev'[q] = prev[q]
      BY <2>1 DEF TypeOK
    <3> QED  BY <2>1, <3>1 DEF EntryHeld, RowBeforeLine
  <2>6. JournalSound'
    <3>1. journal \in Seq(AuditRow)
      BY DEF TypeOK
    <3>2. \A j \in 1..Len(journal') :
            journal'[j] = row \/ (j \in 1..Len(journal) /\ journal'[j] = journal[j])
      BY <2>1, <2>2, <3>1
    <3> QED  BY <2>1, <2>3, <3>2 DEF JournalSound
  <2> QED  BY <2>4, <2>5, <2>6
<1>6. ASSUME NEW r \in Recorders, Crash(r)
      PROVE  LineInv'
  <2>1. TypeOK'
    BY <1>6 DEF Crash, TypeOK, PcValues, NoHash
  <2>2. EntryHeld' /\ RowBeforeLine'
    <3>1. \A q \in Recorders : pc'[q] # "idle" =>
            q # r /\ pc[q] = pc'[q] /\ entry'[q] = entry[q] /\ prev'[q] = prev[q]
      BY <1>6 DEF Crash, TypeOK
    <3> QED  BY <1>6, <3>1 DEF Crash, EntryHeld, RowBeforeLine
  <2>3. JournalSound'
    BY <1>6 DEF Crash, JournalSound
  <2> QED  BY <2>1, <2>2, <2>3
<1>7. ASSUME NEW i \in 1..Len(rows), Rewrite(i) \/ Relink(i) \/ Rehash(i) \/ Delete(i)
      PROVE  LineInv'
  <2>1. rows' \in Seq(AuditRow)
        /\ UNCHANGED <<journal, pc, entry, prev, changes, written, crashes>>
    BY <1>7, TamperKeepsLast
  <2> QED  BY <2>1 DEF TypeOK, EntryHeld, RowBeforeLine, JournalSound
<1> QED  BY <1>1, <1>2, <1>3, <1>4, <1>5, <1>6, <1>7 DEF Next

\* Any number of recorders, dying anywhere, over a table somebody rewrites: no
\* journal line lacks the row it repeats (audit.py:93-96).
THEOREM JournalSoundEver == Spec => []JournalSound
<1>1. Init => LineInv
  BY DEF Init, LineInv, TypeOK, PcValues, NoHash, EntryHeld, RowBeforeLine,
         JournalSound
<1>2. LineInv /\ [Next]_vars => LineInv'
  BY LineStep
<1>3. LineInv => JournalSound
  BY DEF LineInv
<1> QED  BY <1>1, <1>2, <1>3, PTL DEF Spec

\* What a table records grows by the entry of the row it is given.
LEMMA RecordedAppend ==
  ASSUME NEW s \in Seq(AuditRow), NEW e \in Entries, NEW h \in Seq(Bodies)
  PROVE  RecordedIn(Append(s, Row(Body(e), h))) = RecordedIn(s) \cup {e}
<1> DEFINE x == Row(Body(e), h)
           t == Append(s, x)
<1>1. Body(e) \in Bodies /\ Body(e).entry = e
  BY DEF Body, Bodies
<1>2. x \in AuditRow /\ x.body = Body(e)
  BY <1>1, RowType DEF Row
<1> HIDE DEF x
<1>3. Len(t) = Len(s) + 1 /\ t[Len(s) + 1] = x /\ \A i \in 1..Len(s) : t[i] = s[i]
  BY <1>2
<1>4. Len(s) \in Nat
  OBVIOUS
<1> HIDE DEF t
<1>5. 1..Len(t) = (1..Len(s)) \cup {Len(s) + 1}
  BY <1>3, <1>4
<1>6. t[Len(s) + 1].body.entry = e
  BY <1>1, <1>2, <1>3
<1>7. RecordedIn(t) = RecordedIn(s) \cup {e}
  BY <1>3, <1>4, <1>5, <1>6 DEF RecordedIn
<1> QED
  BY <1>7 DEF t, x

\* A recorder carries what is missing, and hands it over: the INSERT turns its
\* missing row into a missing line, and the append fills that in (audit.py:54-97).
LEMMA CarriedStep ==
  ASSUME LineInv, Carried, [Next]_vars
  PROVE  Carried'
<1>0. pc \in [Recorders -> PcValues] /\ entry \in [Recorders -> Entries \cup {NoEntry}]
      /\ prev \in [Recorders -> Seq(Bodies)]
      /\ written \in Seq(AuditRow) /\ journal \in Seq(AuditRow)
      /\ \A r \in InFlight : entry[r] \in Entries
  BY DEF LineInv, TypeOK, EntryHeld, InFlight
<1>1. CASE UNCHANGED <<journal, pc, entry, changes, written>>
  <2>1. RecordedIn(written)' = RecordedIn(written) /\ RecordedIn(journal)' = RecordedIn(journal)
        /\ InFlight' = InFlight
    BY <1>1 DEF RecordedIn, InFlight
  <2> QED
    BY <1>1, <2>1 DEF Carried, Unrecorded, Unmirrored
<1>2. ASSUME NEW r \in Recorders, NEW e \in Entries, Change(r, e)
      PROVE  Carried'
  <2>1. /\ pc' = [pc EXCEPT ![r] = "changed"] /\ entry' = [entry EXCEPT ![r] = e]
           /\ e \notin changes
        /\ changes' = changes \cup {e} /\ UNCHANGED <<journal, written>> /\ pc[r] = "idle"
    BY <1>2 DEF Change, Goto
  <2>2. RecordedIn(written)' = RecordedIn(written) /\ RecordedIn(journal)' = RecordedIn(journal)
    BY <2>1 DEF RecordedIn
  <2>3. InFlight' = InFlight \cup {r} /\ pc'[r] = "changed" /\ entry'[r] = e /\ r \notin InFlight
        /\ \A q \in InFlight : pc'[q] = pc[q] /\ entry'[q] = entry[q] /\ entry[q] \in changes
    BY <1>0, <2>1 DEF InFlight, Carried, Unrecorded, Unmirrored
  <2> QED
    BY <2>1, <2>2, <2>3 DEF Carried, Unrecorded, Unmirrored
<1>3. ASSUME NEW r \in Recorders, ReadLastHash(r)
      PROVE  Carried'
  <2>1. pc' = [pc EXCEPT ![r] = "read"] /\ pc[r] = "changed"
        /\ UNCHANGED <<entry, changes, written, journal>>
    BY <1>3 DEF ReadLastHash, Goto
  <2>2. RecordedIn(written)' = RecordedIn(written) /\ RecordedIn(journal)' = RecordedIn(journal)
        /\ InFlight' = InFlight
    BY <1>0, <2>1 DEF RecordedIn, InFlight
  <2> QED
    BY <1>0, <2>1, <2>2 DEF Carried, Unrecorded, Unmirrored, InFlight
<1>4. ASSUME NEW r \in Recorders, Insert(r)
      PROVE  Carried'
  <2>1. pc' = [pc EXCEPT ![r] = "inserted"] /\ pc[r] = "read"
        /\ UNCHANGED <<entry, changes, journal>>
        /\ written' = Append(written, Row(Body(entry[r]), prev[r]))
    BY <1>4 DEF Insert, Goto
  <2>2. r \in InFlight /\ entry[r] \in Entries /\ entry[r] \in Unrecorded
    BY <1>0, <2>1 DEF InFlight, Carried
  <2>3. RecordedIn(written)' = RecordedIn(written) \cup {entry[r]}
        /\ RecordedIn(journal)' = RecordedIn(journal)
    <3>1. RecordedIn(written') = RecordedIn(written) \cup {entry[r]}
      BY <1>0, <2>1, <2>2, RecordedAppend
    <3> QED
      BY <2>1, <3>1 DEF RecordedIn
  <2>4. InFlight' = InFlight /\ pc'[r] = "inserted" /\ \A q \in InFlight \ {r} : pc'[q] = pc[q]
        /\ entry[q] # entry[r]
    BY <1>0, <2>1, <2>2 DEF InFlight, Carried
  <2>5. \A q \in InFlight' : entry'[q] \in IF pc'[q] = "inserted" THEN Unmirrored' ELSE Unrecorded'
    BY <2>1, <2>2, <2>3, <2>4 DEF Carried, Unrecorded, Unmirrored
  <2> QED
    BY <2>1, <2>2, <2>3, <2>4, <2>5 DEF Carried, Unrecorded
<1>5. ASSUME NEW r \in Recorders, AppendJournal(r)
      PROVE  Carried'
  <2>1. pc' = [pc EXCEPT ![r] = "idle"] /\ pc[r] = "inserted"
        /\ entry' = [entry EXCEPT ![r] = NoEntry]
        /\ UNCHANGED <<changes, written>>
           /\ journal' = Append(journal, Row(Body(entry[r]), prev[r]))
    BY <1>5 DEF AppendJournal, Goto
  <2>2. r \in InFlight /\ entry[r] \in Entries /\ entry[r] \in Unmirrored
    BY <1>0, <2>1 DEF InFlight, Carried
  <2>3. RecordedIn(written)' = RecordedIn(written)
        /\ RecordedIn(journal)' = RecordedIn(journal) \cup {entry[r]}
    <3>1. RecordedIn(journal') = RecordedIn(journal) \cup {entry[r]}
      BY <1>0, <2>1, <2>2, RecordedAppend
    <3> QED
      BY <2>1, <3>1 DEF RecordedIn
  <2>4. InFlight' = InFlight \ {r} /\ \A q \in InFlight \ {r} : pc'[q] = pc[q]
        /\ entry'[q] = entry[q] /\ entry[q] # entry[r]
    BY <1>0, <2>1, <2>2 DEF InFlight, Carried
  <2>5. \A q \in InFlight' : entry'[q] \in IF pc'[q] = "inserted" THEN Unmirrored' ELSE Unrecorded'
    BY <2>1, <2>2, <2>3, <2>4 DEF Carried, Unrecorded, Unmirrored
  <2> QED
    BY <2>1, <2>2, <2>3, <2>4, <2>5 DEF Carried, Unmirrored
<1>6. ASSUME NEW r \in Recorders, Crash(r)
      PROVE  Carried'
  <2>1. pc' = [pc EXCEPT ![r] = "idle"] /\ entry' = [entry EXCEPT ![r] = NoEntry]
        /\ UNCHANGED <<changes, written, journal>>
    BY <1>6 DEF Crash
  <2>2. RecordedIn(written)' = RecordedIn(written) /\ RecordedIn(journal)' = RecordedIn(journal)
    BY <2>1 DEF RecordedIn
  <2>3. InFlight' = InFlight \ {r} /\ \A q \in InFlight \ {r} : pc'[q] = pc[q]
        /\ entry'[q] = entry[q]
    BY <1>0, <2>1 DEF InFlight
  <2> QED
    BY <2>1, <2>2, <2>3 DEF Carried, Unrecorded, Unmirrored
<1>7. ASSUME NEW i \in 1..Len(rows), Rewrite(i) \/ Relink(i) \/ Rehash(i) \/ Delete(i)
      PROVE  Carried'
  BY <1>1, <1>7, TamperKeepsLast DEF LineInv
<1>8. CASE UNCHANGED vars
  BY <1>1, <1>8 DEF vars
<1> QED
  BY <1>2, <1>3, <1>4, <1>5, <1>6, <1>7, <1>8 DEF Next

\* A change adds a missing row and a recorder in flight; the INSERT trades a row for
\* a line; the append takes one of each away; a crash leaves its piece behind.
LEMMA CountedStep ==
  ASSUME LineInv, Carried, Counted, [Next]_vars
  PROVE  Counted'
<1>0. pc \in [Recorders -> PcValues] /\ entry \in [Recorders -> Entries \cup {NoEntry}]
      /\ prev \in [Recorders -> Seq(Bodies)]
      /\ written \in Seq(AuditRow) /\ journal \in Seq(AuditRow) /\ crashes \in Nat
      /\ \A r \in InFlight : entry[r] \in Entries
  BY DEF LineInv, TypeOK, EntryHeld, InFlight
<1> DEFINE u == Cardinality(Unrecorded)
           m == Cardinality(Unmirrored)
           f == Cardinality(InFlight)
<1>A. /\ IsFiniteSet(Unrecorded) /\ IsFiniteSet(Unmirrored) /\ IsFiniteSet(InFlight)
      /\ u \in Nat /\ m \in Nat /\ f \in Nat /\ u + m <= crashes + f
  BY FS_CardinalityType DEF Counted
<1> HIDE DEF u, m, f
<1>1. CASE UNCHANGED <<journal, pc, changes, written, crashes>>
  BY <1>1 DEF Counted, Unrecorded, Unmirrored, InFlight, RecordedIn
<1>2. ASSUME NEW r \in Recorders, NEW e \in Entries, Change(r, e)
      PROVE  Counted'
  <2>1. /\ pc' = [pc EXCEPT ![r] = "changed"] /\ e \notin changes /\ pc[r] = "idle"
        /\ changes' = changes \cup {e} /\ UNCHANGED <<journal, written, crashes>>
    BY <1>2 DEF Change, Goto
  <2>2. RecordedIn(written)' = RecordedIn(written) /\ Unmirrored' = Unmirrored
    BY <2>1 DEF RecordedIn, Unmirrored
  <2>3. Unrecorded' = Unrecorded \cup {e} /\ e \notin Unrecorded
    BY <2>1, <2>2 DEF Unrecorded, Carried
  <2>4. InFlight' = InFlight \cup {r} /\ r \notin InFlight
    BY <1>0, <2>1 DEF InFlight
  <2>5. IsFiniteSet(Unrecorded') /\ Cardinality(Unrecorded') = u + 1
    BY <1>A, <2>3, FS_AddElement DEF u
  <2>6. IsFiniteSet(InFlight') /\ Cardinality(InFlight') = f + 1
    BY <1>A, <2>4, FS_AddElement DEF f
  <2> QED
    BY <1>0, <1>A, <2>1, <2>2, <2>5, <2>6 DEF Counted, m
<1>4. ASSUME NEW r \in Recorders, Insert(r)
      PROVE  Counted'
  <2>1. pc' = [pc EXCEPT ![r] = "inserted"] /\ pc[r] = "read"
        /\ UNCHANGED <<changes, journal, crashes>>
        /\ written' = Append(written, Row(Body(entry[r]), prev[r]))
    BY <1>4 DEF Insert, Goto
  <2>2. r \in InFlight /\ entry[r] \in Entries /\ entry[r] \in Unrecorded
    BY <1>0, <2>1 DEF InFlight, Carried
  <2>3. RecordedIn(written') = RecordedIn(written) \cup {entry[r]}
    BY <1>0, <2>1, <2>2, RecordedAppend
  <2>4. Unrecorded' = Unrecorded \ {entry[r]}
    BY <2>1, <2>3 DEF Unrecorded
  <2>5. Unmirrored' = Unmirrored \cup {entry[r]}
    <3>1. RecordedIn(journal') = RecordedIn(journal)
      BY <2>1
    <3>2. entry[r] \notin RecordedIn(journal)
      BY <2>2 DEF Unrecorded, Carried
    <3> QED
      BY <2>3, <3>1, <3>2 DEF Unmirrored
  <2>6. InFlight' = InFlight
    BY <1>0, <2>1 DEF InFlight
  <2>7. IsFiniteSet(Unrecorded') /\ Cardinality(Unrecorded') = u - 1
    BY <1>A, <2>2, <2>4, FS_RemoveElement DEF u
  <2>8. IsFiniteSet(Unmirrored') /\ Cardinality(Unmirrored') \in Nat
        /\ Cardinality(Unmirrored') <= m + 1
    <3> DEFINE e == entry[r]
    <3>1. Unmirrored' = Unmirrored \cup {e}
      BY <2>5
    <3> HIDE DEF e
    <3>2. IsFiniteSet(Unmirrored')
          /\ Cardinality(Unmirrored') = IF e \in Unmirrored THEN m ELSE m + 1
      BY <1>A, <3>1, FS_AddElement DEF m
    <3> QED
      BY <1>A, <3>2
  <2> QED
    BY <1>0, <1>A, <2>1, <2>6, <2>7, <2>8 DEF Counted, f
<1>5. ASSUME NEW r \in Recorders, AppendJournal(r)
      PROVE  Counted'
  <2>1. pc' = [pc EXCEPT ![r] = "idle"] /\ pc[r] = "inserted"
        /\ UNCHANGED <<changes, written, crashes>>
           /\ journal' = Append(journal, Row(Body(entry[r]), prev[r]))
    BY <1>5 DEF AppendJournal, Goto
  <2>2. r \in InFlight /\ entry[r] \in Entries /\ entry[r] \in Unmirrored
    BY <1>0, <2>1 DEF InFlight, Carried
  <2>3. RecordedIn(journal') = RecordedIn(journal) \cup {entry[r]}
    BY <1>0, <2>1, <2>2, RecordedAppend
  <2>4. Unrecorded' = Unrecorded /\ Unmirrored' = Unmirrored \ {entry[r]}
    BY <2>1, <2>3 DEF Unrecorded, Unmirrored, RecordedIn
  <2>6. InFlight' = InFlight \ {r}
    BY <1>0, <2>1 DEF InFlight
  <2>7. IsFiniteSet(Unmirrored') /\ Cardinality(Unmirrored') = m - 1
    BY <1>A, <2>2, <2>4, FS_RemoveElement DEF m
  <2>8. IsFiniteSet(InFlight') /\ Cardinality(InFlight') = f - 1
    BY <1>A, <2>2, <2>6, FS_RemoveElement DEF f
  <2> QED
    BY <1>0, <1>A, <2>1, <2>4, <2>7, <2>8 DEF Counted, u
<1>6. ASSUME NEW r \in Recorders, Crash(r)
      PROVE  Counted'
  <2>1. pc' = [pc EXCEPT ![r] = "idle"] /\ pc[r] # "idle" /\ crashes' = crashes + 1
        /\ UNCHANGED <<changes, written, journal>>
    BY <1>6 DEF Crash
  <2>2. Unrecorded' = Unrecorded /\ Unmirrored' = Unmirrored
    BY <2>1 DEF Unrecorded, Unmirrored, RecordedIn
  <2>3. InFlight' = InFlight \ {r} /\ r \in InFlight
    BY <1>0, <2>1 DEF InFlight
  <2>4. IsFiniteSet(InFlight') /\ Cardinality(InFlight') = f - 1
    BY <1>A, <2>3, FS_RemoveElement DEF f
  <2> QED
    BY <1>0, <1>A, <2>1, <2>2, <2>4 DEF Counted, u, m
<1>3. ASSUME NEW r \in Recorders, ReadLastHash(r)
      PROVE  Counted'
  <2>1. InFlight' = InFlight /\ UNCHANGED <<journal, changes, written, crashes>>
    BY <1>0, <1>3 DEF InFlight, ReadLastHash, Goto
  <2> QED
    BY <2>1 DEF Counted, Unrecorded, Unmirrored, RecordedIn
<1>7. ASSUME NEW i \in 1..Len(rows), Rewrite(i) \/ Relink(i) \/ Rehash(i) \/ Delete(i)
      PROVE  Counted'
  BY <1>1, <1>7, TamperKeepsLast DEF LineInv
<1>8. CASE UNCHANGED vars
  BY <1>1, <1>8 DEF vars
<1> QED
  BY <1>2, <1>3, <1>4, <1>5, <1>6, <1>7, <1>8 DEF Next

\* At first nothing is committed, recorded or in flight.
LEMMA AccountInit ==
  ASSUME Init
  PROVE  Carried /\ Counted
<1>1. RecordedIn(written) = {} /\ RecordedIn(journal) = {}
  BY DEF Init, RecordedIn
<1>2. InFlight = {} /\ Unrecorded = {} /\ Unmirrored = {}
  BY <1>1 DEF Init, InFlight, Unrecorded, Unmirrored
<1> QED
  BY <1>1, <1>2, FS_EmptySet DEF Carried, Counted, Init

\* Any number of recorders, dying anywhere, over a table somebody rewrites: what is
\* missing from the table or from the journal is in flight or was lost to a crash,
\* one piece to each (audit.py:54-97).
THEOREM AccountedEver == Spec => []Accounted
<1>1. Init => LineInv /\ Carried /\ Counted
  BY AccountInit DEF Init, LineInv, TypeOK, PcValues, NoHash, EntryHeld, RowBeforeLine, JournalSound
<1>2. LineInv /\ Carried /\ Counted /\ [Next]_vars => (LineInv /\ Carried /\ Counted)'
  BY LineStep, CarriedStep, CountedStep
<1>3. Counted => Accounted
  BY DEF Counted, Accounted, Unrecorded, Unmirrored, InFlight
<1> QED
  BY <1>1, <1>2, <1>3, PTL DEF Spec
-----------------------------------------------------------------------------
(* The chain: one recorder, any tampering *)

\* A set of positions that is not empty has its first.
LEMMA FirstOf ==
  ASSUME NEW S, S \subseteq Nat, S # {}
  PROVE  \E d \in S : \A i \in S : d <= i
<1> DEFINE Less == {p \in Nat \X Nat : p[1] < p[2]}
<1>1. Less = OpToRel(<, Nat)
  BY DEF OpToRel
<1> HIDE DEF Less
<1>2. PICK d \in S : \A i \in S : ~(<<i, d>> \in Less)
  BY <1>1, WFMin, NatLessThanWellFounded
<1>3. ASSUME NEW i \in S
      PROVE  d <= i
  <2>1. d \in Nat /\ i \in Nat /\ <<i, d>> \in Nat \X Nat
    OBVIOUS
  <2>2. ~(i < d)
    BY <1>2, <2>1 DEF Less
  <2> QED  BY <2>1, <2>2
<1> QED  BY <1>3

\* The first of them is the one the models choose.
LEMMA FirstIs ==
  ASSUME NEW S, S \subseteq Nat, NEW d \in S, \A i \in S : d <= i
  PROVE  (CHOOSE i \in S : \A j \in S : i <= j) = d
<1>1. \A c \in S : (\A j \in S : c <= j) => c = d
  <2> SUFFICES ASSUME NEW c \in S, \A j \in S : c <= j
               PROVE  c = d
    OBVIOUS
  <2>1. c <= d /\ d <= c /\ c \in Nat /\ d \in Nat
    OBVIOUS
  <2> QED  BY <2>1
<1> QED  BY <1>1

\* The hash of the last row written covers every body written.
LEMMA LastCovers ==
  ASSUME written \in Seq(AuditRow), ChainWritten
  PROVE  Len(LastHash(written)) = Len(written)
<1>1. CASE written = <<>>
  BY <1>1 DEF LastHash, NoHash
<1>2. CASE written # <<>>
  <2>1. Len(written) \in 1..Len(written)
    BY <1>2
  <2> QED  BY <1>2, <2>1 DEF LastHash, ChainWritten
<1> QED  BY <1>1, <1>2

\* A table of no rows is the empty table.
LEMMA EmptyIsNone ==
  ASSUME NEW s \in Seq(AuditRow), Len(s) = 0
  PROVE  s = <<>>
OBVIOUS

\* A row chained to the last hash written keeps what is written a chain.
LEMMA AppendKeepsChain ==
  ASSUME written \in Seq(AuditRow), ChainWritten, NEW b \in Bodies,
         NEW h \in Seq(Bodies), h = LastHash(written), NEW x, x = Row(b, h),
         NEW n \in Nat, n = Len(written), written' = Append(written, x)
  PROVE  /\ ChainWritten'
         /\ LastHash(written') = x.hash
<1>1. x \in AuditRow /\ x.hash = Append(h, b) /\ x.body = b
  BY RowType DEF Row, Link
<1>2. Len(h) = n
  BY LastCovers
<1>3. Len(Append(h, b)) = n + 1
  BY <1>2
<1>4. Len(written') = n + 1 /\ written'[n + 1] = x /\ \A k \in 1..n : written'[k] = written[k]
  BY <1>1
<1>5. n + 1 \in 1..(n + 1) /\ n + 1 - 1 = n
  OBVIOUS
<1>7. LastHash(written') = x.hash
  <2>1. written' # <<>>
    BY <1>4
  <2> QED  BY <1>4, <2>1 DEF LastHash
<1>8. h = IF n + 1 = 1 THEN NoHash ELSE written'[n].hash
  <2>1. CASE n = 0
    <3>1. written = <<>>
      BY <2>1, EmptyIsNone
    <3> QED  BY <2>1, <3>1 DEF LastHash
  <2>2. CASE n # 0
    <3>1. written # <<>> /\ n \in 1..n
      BY <2>2
    <3> QED  BY <2>2, <3>1, <1>4 DEF LastHash
  <2> QED  BY <2>1, <2>2
<1>9. Expected(written', n + 1) = Append(h, b)
  BY <1>1, <1>4, <1>5, <1>8 DEF Expected, Preceding, Link
<1>10. ChainWritten'
  <2> SUFFICES ASSUME NEW k \in 1..(n + 1)
               PROVE  /\ written'[k].hash = Expected(written', k)
                      /\ Len(written'[k].hash) = k
    BY <1>4 DEF ChainWritten
  <2>1. CASE k \in 1..n
    <3>1. written[k].hash = Expected(written, k) /\ Len(written[k].hash) = k
      BY <2>1 DEF ChainWritten
    <3>2. k # 1 => k - 1 \in 1..n
      BY <2>1
    <3>3. Expected(written', k) = Expected(written, k)
      BY <1>4, <2>1, <3>2 DEF Expected, Preceding
    <3> QED  BY <1>4, <2>1, <3>1, <3>3
  <2>2. CASE k = n + 1
    <3>1. written'[k] = x
      BY <1>4, <2>2
    <3>2. written'[k].hash = Expected(written', k) /\ Len(written'[k].hash) = k
      BY <1>1, <1>3, <1>9, <2>2, <3>1
    <3> QED  BY <3>2
  <2>3. k \in 1..n \/ k = n + 1
    OBVIOUS
  <2> QED  BY <2>1, <2>2, <2>3
<1> QED  BY <1>7, <1>10

\* One recorder appends to the last hash there is, and nothing done to the table
\* behind its back takes that hash away (audit.py:54-97).
LEMMA ChainStep ==
  ASSUME OneRecorder, LineInv, ChainInv, [Next]_vars
  PROVE  ChainInv'
<1>0. /\ rows \in Seq(AuditRow) /\ written \in Seq(AuditRow)
      /\ pc \in [Recorders -> PcValues] /\ prev \in [Recorders -> Seq(Bodies)]
  BY DEF LineInv, TypeOK
<1>1. CASE UNCHANGED <<rows, written>> /\ PrevIsLast'
  BY <1>1 DEF ChainInv, ChainWritten, NoLonger, Expected, Preceding, LastStays
<1>2. ASSUME NEW r \in Recorders, NEW e \in Entries, Change(r, e)
      PROVE  ChainInv'
  <2>1. pc' = [pc EXCEPT ![r] = "changed"] /\ UNCHANGED <<rows, written, prev>>
    BY <1>2 DEF Change, Goto
  <2>2. PrevIsLast'
    BY <1>0, <2>1 DEF ChainInv, PrevIsLast
  <2> QED  BY <1>1, <2>1, <2>2
<1>3. ASSUME NEW r \in Recorders, ReadLastHash(r)
      PROVE  ChainInv'
  <2>1. prev' = [prev EXCEPT ![r] = LastHash(rows)] /\ UNCHANGED <<rows, written>>
    BY <1>3 DEF ReadLastHash
  <2>2. PrevIsLast'
    BY <1>0, <2>1 DEF OneRecorder, PrevIsLast
  <2> QED  BY <1>1, <2>1, <2>2
<1>4. ASSUME NEW r \in Recorders, Insert(r)
      PROVE  ChainInv'
  <2> PICK b, h, x, n : /\ b = Body(entry[r]) /\ h = prev[r]
                        /\ x = Row(b, h) /\ n = Len(written)
    OBVIOUS
  <2>1. /\ pc[r] = "read" /\ pc' = [pc EXCEPT ![r] = "inserted"]
        /\ rows' = Append(rows, x) /\ written' = Append(written, x)
    BY <1>4 DEF Insert, Goto
  <2>2. b \in Bodies
    BY <2>1 DEF LineInv, EntryHeld, Body, Bodies
  <2>3. h \in Seq(Bodies) /\ h = LastHash(written)
    BY <1>0, <2>1 DEF ChainInv, PrevIsLast, LastStays
  <2>4. n \in Nat
    BY <1>0
  <2>5. x \in AuditRow
    BY <2>2, <2>3, RowType
  <2>6. ChainWritten
    BY DEF ChainInv
  <2>7. ChainWritten' /\ LastHash(written') = x.hash
    BY <1>0, <2>1, <2>2, <2>3, <2>4, <2>6, AppendKeepsChain
  <2>8. PrevIsLast'
    BY <1>0, <2>1 DEF OneRecorder, PrevIsLast
  <2>9. rows' # <<>> /\ LastHash(rows') = x.hash
    BY <1>0, <2>1, <2>5 DEF LastHash
  <2>10. LastStays'
    BY <2>7, <2>9 DEF LastStays
  <2>11. NoLonger'
    BY <1>0, <2>1, <2>5 DEF ChainInv, NoLonger
  <2> QED  BY <2>7, <2>8, <2>10, <2>11 DEF ChainInv
<1>5. ASSUME NEW r \in Recorders, AppendJournal(r) \/ Crash(r)
      PROVE  ChainInv'
  <2>1. /\ pc' = [pc EXCEPT ![r] = "idle"] /\ UNCHANGED <<rows, written>>
        /\ prev' = [prev EXCEPT ![r] = NoHash]
    BY <1>5 DEF AppendJournal, Crash, Goto
  <2>2. PrevIsLast'
    BY <1>0, <2>1 DEF ChainInv, PrevIsLast
  <2> QED  BY <1>1, <2>1, <2>2
<1>6. ASSUME NEW i \in 1..Len(rows), Rewrite(i) \/ Relink(i) \/ Rehash(i) \/ Delete(i)
      PROVE  ChainInv'
  <2>1. LastHash(rows') = LastHash(rows) /\ UNCHANGED <<pc, prev, written>>
    BY <1>6, TamperKeepsLast DEF LineInv
  <2>2. rows' \in Seq(AuditRow) /\ Len(rows') <= Len(rows)
    BY <1>6, TamperKeepsLast DEF LineInv
  <2> QED
    BY <1>0, <2>1, <2>2 DEF ChainInv, ChainWritten, Expected, Preceding, LastStays, PrevIsLast,
       NoLonger
<1>7. CASE UNCHANGED vars
  BY <1>1, <1>7 DEF vars, ChainInv, PrevIsLast
<1> QED  BY <1>2, <1>3, <1>4, <1>5, <1>6, <1>7 DEF Next

\* The chain, with what it needs of the journal and of the accounts.
LEMMA ChainAlways == ASSUME OneRecorder PROVE Spec => [](LineInv /\ Carried /\ ChainInv)
<1>1. Init => LineInv /\ Carried /\ ChainInv
  BY AccountInit DEF Init, LineInv, TypeOK, PcValues, NoHash, EntryHeld, RowBeforeLine,
     JournalSound, ChainInv, ChainWritten, NoLonger, LastStays, PrevIsLast
<1>2. LineInv /\ Carried /\ ChainInv /\ [Next]_vars => (LineInv /\ Carried /\ ChainInv)'
  BY LineStep, CarriedStep, ChainStep
<1> QED  BY <1>1, <1>2, PTL DEF Spec


\* Rows that say what was inserted there, up to the i-th, verify.
LEMMA KeptVerifies ==
  ASSUME TypeOK, ChainWritten, NEW i \in 1..Len(rows), i <= Len(written),
         \A j \in 1..i : Says(rows[j], written[j])
  PROVE  i \notin Broken(rows)
<1>1. i \in Nat /\ i \in 1..i /\ i \in 1..Len(written) /\ (i # 1 => i - 1 \in 1..i)
  OBVIOUS
<1>2. Expected(rows, i) = Expected(written, i)
  BY <1>1 DEF Expected, Preceding, Says
<1> QED  BY <1>1, <1>2 DEF ChainWritten, Broken, Says

\* A hash that chains a body to another hash is one record() has issued only when
\* that other hash is, or is that of no row, and the body is the one inserted there.
LEMMA IssuedBefore ==
  ASSUME TypeOK, ChainWritten, NEW h \in Seq(Bodies), NEW b \in Bodies, Link(h, b) \in Issued
  PROVE  LET k == Len(h) + 1
         IN  k \in 1..Len(written) /\ h = Preceding(written, k) /\ b = written[k].body
<1>1. PICK k \in 1..Len(written) : written[k].hash = Append(h, b)
  BY DEF Issued, Link
<1>2. k \in Nat /\ written[k] \in AuditRow /\ (k # 1 => written[k - 1] \in AuditRow)
  <2>1. written \in Seq(AuditRow)
    BY DEF TypeOK
  <2>2. k # 1 => k - 1 \in 1..Len(written)
    BY <2>1
  <2> QED  BY <2>1, <2>2
<1>3. Len(written[k].hash) = k
      /\ written[k].hash = Append(Preceding(written, k), written[k].body)
  BY DEF ChainWritten, Expected, Link
<1>4. Len(Append(h, b)) = Len(h) + 1 /\ Len(h) \in Nat
  OBVIOUS
<1>5. k = Len(h) + 1
  BY <1>1, <1>2, <1>3, <1>4
<1>6. Preceding(written, k) \in Seq(Bodies) /\ written[k].body \in Bodies
  BY <1>2 DEF Preceding, NoHash, AuditRow
<1>7. h = Preceding(written, k) /\ b = written[k].body
  <2> DEFINE p == Preceding(written, k)
             c == written[k].body
  <2>1. p \in Seq(Bodies) /\ c \in Bodies /\ Append(h, b) = Append(p, c)
    BY <1>1, <1>3, <1>6
  <2> HIDE DEF p, c
  <2>2. h = p /\ b = c
    BY <2>1, AppendInjective
  <2> QED  BY <2>2 DEF p, c
<1> QED  BY <1>5, <1>7

\* The first row that differs and verifies carries a hash record() never issued: its
\* own would be that of the row inserted there.
LEMMA FirstDifferingIsNew ==
  ASSUME TypeOK, ChainWritten, NEW d \in 1..Len(rows), d \in 1..Len(written),
         ~Says(rows[d], written[d]),
         \A j \in 1..(d - 1) : j \in 1..Len(rows) /\ Says(rows[j], written[j]),
         d \notin Broken(rows)
  PROVE  rows[d].hash \notin Issued
<1> DEFINE h == Preceding(rows, d)
<1>1. rows \in Seq(AuditRow) /\ written \in Seq(AuditRow) /\ d \in Nat
      /\ rows[d] \in AuditRow
  BY DEF TypeOK
<1>2. h = Preceding(written, d) /\ h \in Seq(Bodies) /\ Len(h) = d - 1
  <2>1. CASE d = 1
    BY <2>1 DEF Preceding, NoHash
  <2>2. CASE d # 1
    <3>1. d - 1 \in 1..(d - 1) /\ d - 1 \in 1..Len(written) /\ d - 1 \in 1..Len(rows)
      BY <1>1, <2>2
    <3>2. rows[d - 1].hash = written[d - 1].hash /\ rows[d - 1] \in AuditRow
      BY <1>1, <3>1 DEF Says
    <3> QED  BY <2>2, <3>1, <3>2 DEF ChainWritten, AuditRow, Preceding
  <2> QED  BY <2>1, <2>2
<1>3. rows[d].hash = Link(h, rows[d].body) /\ rows[d].body \in Bodies
  BY <1>1 DEF Broken, Expected, AuditRow
<1> HIDE DEF h
<1>4. SUFFICES ASSUME Link(h, rows[d].body) \in Issued
               PROVE  FALSE
  BY <1>3
<1>5. Len(h) + 1 = d
  BY <1>1, <1>2
<1>6. rows[d].body = written[d].body
  BY <1>2, <1>3, <1>4, <1>5, IssuedBefore
<1>7. written[d].hash = Link(h, written[d].body)
  BY <1>2 DEF ChainWritten, Expected
<1> QED  BY <1>3, <1>6, <1>7 DEF Says

\* And so does every row after it that verifies when the one before it carries such
\* a hash.
LEMMA NextIsNew ==
  ASSUME TypeOK, ChainWritten, NEW i \in 1..Len(rows), i + 1 \in 1..Len(rows),
         rows[i].hash \notin Issued, i \notin Broken(rows), i + 1 \notin Broken(rows)
  PROVE  rows[i + 1].hash \notin Issued
<1>1. rows \in Seq(AuditRow) /\ rows[i] \in AuditRow /\ rows[i + 1] \in AuditRow /\ i \in Nat
  BY DEF TypeOK
<1>2. rows[i + 1].hash = Link(rows[i].hash, rows[i + 1].body)
  BY <1>1 DEF Broken, Expected, Preceding
<1>3. SUFFICES ASSUME Link(rows[i].hash, rows[i + 1].body) \in Issued
               PROVE  FALSE
  BY <1>2
<1> DEFINE h == rows[i].hash
           k == Len(h) + 1
<1>4. k \in 1..Len(written) /\ h = Preceding(written, k) /\ h \in Seq(Bodies)
  BY <1>1, <1>3, IssuedBefore DEF AuditRow
<1>5. h # NoHash
  <2>1. h = Append(Preceding(rows, i), rows[i].body)
    BY <1>1 DEF Broken, Expected, Link
  <2>2. Preceding(rows, i) \in Seq(Bodies) /\ rows[i].body \in Bodies
    <3>1. i # 1 => i - 1 \in 1..Len(rows)
      BY <1>1
    <3>2. i # 1 => rows[i - 1] \in AuditRow
      BY <1>1, <3>1
    <3> QED  BY <1>1, <3>2 DEF Preceding, NoHash, AuditRow
  <2> QED  BY <2>1, <2>2 DEF NoHash
<1>6. k # 1 /\ k - 1 \in 1..Len(written)
  BY <1>4, <1>5 DEF Preceding
<1> QED  BY <1>4, <1>6 DEF Preceding, Issued

\* From the first row that differs on, as long as the rows verify, they carry hashes
\* record() never issued.
LEMMA NewFromThereOn ==
  ASSUME TypeOK, ChainWritten, NEW d \in Differing, \A i \in Differing : d <= i,
         NEW m \in d..Len(rows), \A j \in d..m : j \notin Broken(rows)
  PROVE  rows[m].hash \notin Issued
<1> DEFINE S == {i \in d..m : rows[i].hash \in Issued}
<1>1. Len(rows) \in Nat /\ Len(written) \in Nat /\ d \in Nat /\ d \in 1..Len(written) /\ m \in Nat
      /\ d \in 1..Len(rows) /\ ~Says(rows[d], written[d])
  BY DEF TypeOK, Differing
<1>2. SUFFICES ASSUME S # {}
               PROVE  FALSE
  BY <1>1
<1>3. PICK i \in S : \A j \in S : i <= j
  <2>1. S \subseteq Nat
    BY <1>1
  <2> QED  BY <1>2, <2>1, FirstOf
<1>4. i \in d..m /\ rows[i].hash \in Issued /\ i \in 1..Len(rows) /\ i \notin Broken(rows)
  BY <1>1, <1>3
<1>5. CASE i = d
  <2>1. ASSUME NEW j \in 1..(d - 1)
        PROVE  j \in 1..Len(rows) /\ Says(rows[j], written[j])
    <3>1. j \notin Differing /\ j \in 1..Len(written)
      BY <1>1
    <3> QED  BY <1>1, <3>1 DEF Differing
  <2> QED  BY <1>1, <1>4, <1>5, <2>1, FirstDifferingIsNew
<1>6. CASE i # d
  <2>1. i - 1 \in d..m /\ i - 1 \in 1..Len(rows) /\ i - 1 + 1 = i /\ ~(i <= i - 1)
    BY <1>1, <1>4, <1>6
  <2>2. rows[i - 1].hash \notin Issued /\ i - 1 \notin Broken(rows)
    BY <1>3, <2>1
  <2> HIDE DEF S
  <2>3. rows[i - 1 + 1].hash \notin Issued
    BY <1>4, <2>1, <2>2, NextIsNew
  <2> QED  BY <1>4, <2>1, <2>3
<1> QED  BY <1>5, <1>6

\* A table that differs does not verify: its last row has a hash record() issued, the
\* last one, and that of the last row inserted covers every body.
LEMMA DifferingBreaks ==
  ASSUME TypeOK, ChainWritten, LastStays, NEW d \in Differing, \A i \in Differing : d <= i
  PROVE  Broken(rows) # {}
<1>1. rows \in Seq(AuditRow) /\ written \in Seq(AuditRow) /\ d \in Nat
      /\ Len(rows) \in Nat /\ Len(written) \in Nat /\ d \in 1..Len(written)
  BY DEF TypeOK, Differing
<1>2. Len(LastHash(rows)) = Len(written) /\ LastHash(written) \in Issued
  <2>1. written # <<>> /\ Len(written) \in 1..Len(written)
    BY <1>1
  <2> QED  BY <1>1, <2>1, LastCovers DEF LastStays, LastHash, Issued
<1>3. rows # <<>> /\ Len(rows) \in 1..Len(rows) /\ LastHash(rows) = rows[Len(rows)].hash
  <2>1. rows # <<>>
    BY <1>1, <1>2 DEF LastHash, NoHash
  <2> QED  BY <1>1, <2>1 DEF LastHash
<1>4. CASE Len(rows) < d
  <2>1. Len(rows) \notin Differing /\ Len(rows) \in 1..Len(written)
    BY <1>1, <1>3, <1>4
  <2>2. rows[Len(rows)].hash = written[Len(rows)].hash
    BY <1>1, <2>1 DEF Differing, Says
  <2>3. Len(rows) = Len(written)
    BY <1>2, <1>3, <2>1, <2>2 DEF ChainWritten
  <2> QED  BY <1>1, <1>4, <2>3
<1>5. CASE d <= Len(rows)
  <2>1. Len(rows) \in d..Len(rows) /\ rows[Len(rows)].hash \in Issued
    BY <1>1, <1>2, <1>3, <1>5 DEF LastStays
  <2> QED  BY <2>1, NewFromThereOn
<1> QED  BY <1>1, <1>4, <1>5

\* Verification fails exactly when the table differs, at the first row that differs or
\* at one that only rows with new hashes separate from it.
LEMMA VerifyFindsIt ==
  ASSUME TypeOK, ChainWritten, NoLonger, LastStays
  PROVE  VerifyTellsTheTruth
<1>1. Len(rows) \in Nat /\ Len(written) \in Nat /\ Len(rows) <= Len(written)
  BY DEF TypeOK, NoLonger
<1>2. ASSUME NEW i \in Broken(rows)
      PROVE  \E j \in Differing : j <= i
  <2>1. i \in 1..Len(rows) /\ i \in Nat /\ i <= Len(written)
    BY <1>1, <1>2 DEF Broken
  <2>2. PICK j \in 1..i : ~Says(rows[j], written[j])
    BY <1>2, <2>1, KeptVerifies
  <2>3. j \in Differing /\ j <= i
    BY <1>1, <2>1, <2>2 DEF Differing
  <2> QED  BY <2>3
<1>3. CASE Differing = {}
  <2>1. Broken(rows) = {}
    BY <1>2, <1>3
  <2> QED  BY <1>3, <2>1 DEF VerifyTellsTheTruth, FirstBreak, FirstDifference
<1>4. CASE Differing # {}
  <2>1. Differing \subseteq Nat \ {0} /\ Broken(rows) \subseteq Nat \ {0}
    BY <1>1 DEF Differing, Broken
  <2>2. PICK d \in Differing : \A i \in Differing : d <= i
    BY <1>4, <2>1, FirstOf
  <2>3. Broken(rows) # {}
    BY <2>2, DifferingBreaks
  <2>4. PICK b \in Broken(rows) : \A i \in Broken(rows) : b <= i
    BY <2>1, <2>3, FirstOf
  <2>5. FirstDifference = d
    <3>1. Differing \subseteq Nat
      BY <2>1
    <3> QED  BY <1>4, <2>2, <3>1, FirstIs DEF FirstDifference
  <2>6. FirstBreak(rows) = b
    <3>1. Broken(rows) \subseteq Nat
      BY <2>1
    <3> QED  BY <2>3, <2>4, <3>1, FirstIs DEF FirstBreak
  <2>7. d <= b /\ b # 0 /\ d # 0 /\ b \in Nat /\ d \in Nat
    <3>1. PICK j \in Differing : j <= b
      BY <1>2
    <3> QED  BY <2>1, <2>2, <3>1
  <2>8. ASSUME NEW i \in d..(b - 1)
        PROVE  rows[i].hash \notin Issued
    <3>1. i \in d..Len(rows) /\ \A j \in d..i : ~(b <= j)
      BY <1>1, <2>7 DEF Broken
    <3>2. \A j \in d..i : j \notin Broken(rows)
      BY <2>4, <3>1
    <3> QED  BY <2>2, <3>1, <3>2, NewFromThereOn
  <2> QED  BY <2>5, <2>6, <2>7, <2>8 DEF VerifyTellsTheTruth
<1> QED  BY <1>3, <1>4

\* One recorder, dying anywhere, over a table whose rows are rewritten, chained anew or
\* deleted before the last: verify_chain fails exactly when the table no longer says
\* what was recorded, and names the first row that differs or, when that one's hash
\* was computed again, the first below whose own was not (audit.py:3-4, 111-139).
THEOREM VerifiedEver == ASSUME OneRecorder PROVE Spec => []VerifyTellsTheTruth
<1>1. LineInv /\ Carried /\ ChainInv => VerifyTellsTheTruth
  BY VerifyFindsIt DEF LineInv, ChainInv
<1> QED  BY <1>1, ChainAlways, PTL

\* One recorder, dying anywhere, records atomically, whatever is done to the rows
\* before the last: every step of AuditLog is a Record of AtomicAudit or leaves the
\* written rows alone (audit.py:54-97).
THEOREM RecordsAtomicallyEver == ASSUME OneRecorder PROVE Spec => RecordsAtomically
<1>1. Init => Atomic!Init
  BY DEF Init, Atomic!Init
<1>2. LineInv /\ Carried /\ ChainInv /\ [Next]_vars => [Atomic!Next]_written
  <2> SUFFICES ASSUME LineInv, Carried, ChainInv, [Next]_vars, written' # written
               PROVE  Atomic!Next
    OBVIOUS
  <2>1. PICK r \in Recorders : Insert(r)
    BY DEF Next, vars, Change, ReadLastHash, AppendJournal, Crash, Rewrite, Relink,
           Rehash, Delete, Tamper
  <2>2. /\ pc[r] = "read"
        /\ written' = Append(written, Row(Body(entry[r]), prev[r]))
    BY <2>1 DEF Insert, Goto
  <2>3. /\ prev[r] = LastHash(written)
        /\ entry[r] \in Entries
        /\ entry[r] \notin RecordedIn(written)
    BY <2>2 DEF ChainInv, LastStays, PrevIsLast, LineInv, EntryHeld, Carried, InFlight,
                Unrecorded
  <2>4. \A i \in 1..Len(written) : written[i].body # Body(entry[r])
    BY <2>3 DEF RecordedIn, Body
  <2>5. written' = Append(written, Atomic!Row(Body(entry[r]), Atomic!LastHash(written)))
    BY <2>2, <2>3 DEF Row, Link, LastHash, NoHash,
       Atomic!Row, Atomic!Link, Atomic!LastHash, Atomic!NoHash
  <2>6. Atomic!Record(Body(entry[r]))
    BY <2>4, <2>5 DEF Atomic!Record
  <2> QED  BY <2>3, <2>6 DEF Atomic!Next
<1> QED  BY <1>1, <1>2, ChainAlways, PTL DEF Spec, RecordsAtomically, Atomic!Spec

=============================================================================
