----------------------------- MODULE AtomicAudit -----------------------------
(***************************************************************************)
(* What the audit log promises its readers: entries are recorded one at a  *)
(* time, each linked to the entry recorded just before it.                 *)
(***************************************************************************)
EXTENDS Sequences, Naturals

CONSTANT Entries   \* what can be recorded, each at most once

VARIABLE log       \* a sequence of [body, prev, hash]

\* SHA-256 over the entry and its predecessor's hash, taken to be injective:
\* a hash is the sequence of the bodies it chains.
NoHash == <<>>
Link(prev, body) == Append(prev, body)

LastHash(s) == IF s = <<>> THEN NoHash ELSE s[Len(s)].hash
Row(body, prev) == [body |-> body, prev |-> prev, hash |-> Link(prev, body)]

Init == log = <<>>

Record(e) ==
  /\ \A i \in 1..Len(log) : log[i].body # e
  /\ log' = Append(log, Row(e, LastHash(log)))

Next == \E e \in Entries : Record(e)

Spec == Init /\ [][Next]_log

=============================================================================
