---------------------------- MODULE Store_proofs ----------------------------
(***************************************************************************)
(* The parts around the database: opening and migrating it (Migrations),   *)
(* document ingest with the vector index (Documents), the derived views    *)
(* (DerivedViews), backup and restore (Backups).  For each its inductive   *)
(* invariant, that it holds in the first states, that every step and every *)
(* step of another part keeps it, and what it promises.  The parts are     *)
(* instantiated as in Installation, whose theorems cite these lemmas.      *)
(***************************************************************************)
EXTENDS Naturals, Sequences, FiniteSets, TLAPS, FiniteSetTheorems, WellFoundedInduction

CONSTANTS Openers, Scripts, Statements, MaxCrashes,
          Workers, Sources, Contents, MaxEdits, MaxJobs, BatchSize,
          Runners, SymbolSets, MaxChanges, MaxRuns,
          MaxEvents, MaxBackups, MaxRestores
VARIABLES tables, recorded, major, opener, crashes,
          files, docs, vectors, lock, job, edits, jobs,
          graph, stored, lastRun, run, had, again, changes, runs,
          home, present, unwritten, backup, archives, restore, target, events, backups, restores

M == INSTANCE Migrations
D == INSTANCE Documents
V == INSTANCE DerivedViews
B == INSTANCE Backups

-----------------------------------------------------------------------------

(* Opening a database.  What an opener has passed is recorded, and what is *)
(* recorded has its tables; once it is past the scripts all are recorded,  *)
(* and a major version it has looked up is not newer.                      *)
OpenerFields == {"at", "already", "script", "statement", "missing"}
OpenTypes == /\ recorded \subseteq 1..Scripts /\ major \in {0, M!CurrentMajor, M!CurrentMajor + 1}
             /\ DOMAIN opener = Openers
             /\ \A p \in Openers : /\ DOMAIN opener[p] = OpenerFields
                                   /\ opener[p].script \in Nat \ {0} /\ opener[p].statement \in Nat
                                   /\ opener[p].missing \in BOOLEAN
Passed(o) == /\ o.already \subseteq recorded
             /\ o.at = "migrate" => /\ o.script \in o.already => o.statement = 1
                                    /\ \A m \in 1..Scripts : m < o.script => m \in recorded
                                    /\ \A s \in 1..Statements : s < o.statement => <<o.script, s>> \in tables
             /\ o.at \in {"version", "open"} => recorded = 1..Scripts
             /\ o.at = "version" => major # M!CurrentMajor + 1 /\ (~o.missing => major = M!CurrentMajor)
             /\ o.at = "open" => major = M!CurrentMajor
OpenInd == /\ OpenTypes /\ \A p \in Openers : Passed(opener[p])
           /\ \A m \in recorded, s \in 1..Statements : <<m, s>> \in tables

(* A process that has not begun.                                           *)
LEMMA OpenClosed ==
    /\ DOMAIN M!Closed = OpenerFields /\ M!Closed.at = "closed" /\ M!Closed.already = {}
    /\ M!Closed.script \in Nat \ {0} /\ M!Closed.script = 1 /\ M!Closed.statement \in Nat /\ M!Closed.statement = 1
    /\ M!Closed.missing \in BOOLEAN
BY DEF M!Closed, OpenerFields

LEMMA OpenInit == Scripts \in Nat /\ M!Init => OpenInd
<1> SUFFICES ASSUME Scripts \in Nat, M!Init PROVE OpenInd
  OBVIOUS
<1>1. PICK n \in 0..Scripts : recorded = 1..n /\ tables = (1..n) \X (1..Statements)
  BY DEF M!Init
<1>2. DOMAIN opener = Openers /\ \A p \in Openers : opener[p] = M!Closed
  BY DEF M!Init
<1>3. OpenTypes
  BY <1>1, <1>2, OpenClosed DEF M!Init, OpenTypes
<1>4. \A p \in Openers : Passed(opener[p])
  BY <1>2, OpenClosed DEF Passed
<1> QED
  BY <1>1, <1>3, <1>4 DEF OpenInd

(* A step of one process: the others' records are as they were, and what   *)
(* is stored has grown.                                                    *)
LEMMA OpenMoves ==
    ASSUME OpenInd, NEW p \in Openers,
           DOMAIN opener' = Openers, \A q \in Openers \ {p} : opener'[q] = opener[q],
           DOMAIN opener'[p] = OpenerFields, opener'[p].script \in Nat \ {0}, opener'[p].statement \in Nat,
           opener'[p].missing \in BOOLEAN, Passed(opener[p])',
           recorded \subseteq recorded', recorded' \subseteq 1..Scripts, tables \subseteq tables',
           major' = major \/ (major = 0 /\ major' = M!CurrentMajor),
           \A m \in recorded' \ recorded : \A s \in 1..Statements : <<m, s>> \in tables'
    PROVE  OpenInd'
<1>1. OpenTypes'
  BY DEF OpenInd, OpenTypes
<1>2. ASSUME NEW q \in Openers PROVE Passed(opener[q])'
  <2>1. CASE q = p
    BY <2>1
  <2>2. CASE q # p
    <3>1. Passed(opener[q]) /\ recorded \subseteq 1..Scripts /\ opener'[q] = opener[q]
      BY <2>2 DEF OpenInd, OpenTypes
    <3> DEFINE o == opener[q]
    <3>2. o.already \subseteq recorded'
      BY <3>1 DEF Passed
    <3>3. o.at = "migrate" => /\ o.script \in o.already => o.statement = 1
                              /\ \A m \in 1..Scripts : m < o.script => m \in recorded'
                              /\ \A s \in 1..Statements : s < o.statement => <<o.script, s>> \in tables'
      BY <3>1 DEF Passed
    <3>4. o.at \in {"version", "open"} => recorded' = 1..Scripts
      BY <3>1 DEF Passed
    <3>5. /\ o.at = "version" => major' # M!CurrentMajor + 1 /\ (~o.missing => major' = M!CurrentMajor)
          /\ o.at = "open" => major' = M!CurrentMajor
      BY <3>1 DEF Passed, M!CurrentMajor
    <3> QED
      BY <3>1, <3>2, <3>3, <3>4, <3>5 DEF Passed
  <2> QED
    BY <2>1, <2>2
<1>3. \A m \in recorded', s \in 1..Statements : <<m, s>> \in tables'
  BY DEF OpenInd
<1> QED
  BY <1>1, <1>2, <1>3 DEF OpenInd

LEMMA OpenStep == Scripts \in Nat /\ Statements \in Nat /\ OpenInd /\ M!Next => OpenInd'
<1> SUFFICES ASSUME Scripts \in Nat, Statements \in Nat, OpenInd, NEW p \in Openers,
                    M!ReadApplied(p) \/ M!Step(p) \/ M!Retry(p) \/ M!Crash(p)
             PROVE  OpenInd'
  BY DEF M!Next
<1> DEFINE o == opener[p]
<1>0. DOMAIN opener = Openers /\ DOMAIN o = OpenerFields /\ o.script \in Nat \ {0} /\ o.statement \in Nat
      /\ o.missing \in BOOLEAN /\ Passed(o) /\ recorded \subseteq 1..Scripts
      /\ major \in {0, M!CurrentMajor, M!CurrentMajor + 1}
  BY DEF OpenInd, OpenTypes
<1> DEFINE u == opener'[p]
<1>m. ASSUME DOMAIN opener' = Openers, \A q \in Openers \ {p} : opener'[q] = opener[q],
             DOMAIN u = OpenerFields, u.script \in Nat \ {0}, u.statement \in Nat, u.missing \in BOOLEAN,
             Passed(opener[p])', UNCHANGED <<tables, recorded, major>>
      PROVE  OpenInd'
  BY <1>0, <1>m, OpenMoves
<1> HIDE DEF o, u
<1>1. CASE M!ReadApplied(p)
  <2>1. DOMAIN opener' = Openers /\ (\A q \in Openers \ {p} : opener'[q] = opener[q])
        /\ u = [M!Closed EXCEPT !.at = "migrate", !.already = recorded]
    BY <1>0, <1>1 DEF M!ReadApplied, u
  <2>2. /\ DOMAIN u = OpenerFields /\ u.at = "migrate" /\ u.already = recorded
        /\ u.script = 1 /\ u.statement = 1 /\ u.missing \in BOOLEAN
    BY <2>1, OpenClosed DEF OpenerFields
  <2>3. UNCHANGED <<tables, recorded, major>>
    BY <1>1 DEF M!ReadApplied
  <2>4. Passed(opener[p])'
    BY <2>2, <2>3 DEF Passed, u
  <2> QED
    BY <1>m, <2>1, <2>2, <2>3, <2>4
<1>2. CASE M!SkipScript(p)
  <2>1. o.at = "migrate" /\ o.script \in o.already /\ UNCHANGED <<tables, recorded, major>>
    BY <1>2 DEF M!SkipScript, o
  <2>2. DOMAIN opener' = Openers /\ (\A q \in Openers \ {p} : opener'[q] = opener[q])
        /\ u = [o EXCEPT !.script = o.script + 1]
    BY <1>0, <1>2 DEF M!SkipScript, o, u
  <2>3. /\ DOMAIN u = OpenerFields /\ u.at = "migrate" /\ u.already = o.already
        /\ u.script = o.script + 1 /\ u.statement = o.statement /\ u.missing = o.missing
    BY <1>0, <2>1, <2>2 DEF OpenerFields
  <2>4. u.statement = 1 /\ \A m \in 1..Scripts : m < u.script => m \in recorded
    BY <1>0, <2>1, <2>3 DEF Passed
  <2>5. Passed(opener[p])'
    BY <1>0, <2>1, <2>3, <2>4 DEF Passed, u
  <2> QED
    BY <1>0, <1>m, <2>1, <2>2, <2>3, <2>5
<1>3. CASE M!RunStatement(p)
  <2>1. /\ o.at = "migrate" /\ o.script \notin o.already /\ UNCHANGED <<recorded, major>>
        /\ tables' = tables \cup {<<o.script, o.statement>>}
    BY <1>3 DEF M!RunStatement, o
  <2>2. DOMAIN opener' = Openers /\ (\A q \in Openers \ {p} : opener'[q] = opener[q])
        /\ u = [o EXCEPT !.statement = o.statement + 1]
    BY <1>0, <1>3 DEF M!RunStatement, o, u
  <2>3. /\ DOMAIN u = OpenerFields /\ u.at = "migrate" /\ u.already = o.already
        /\ u.script = o.script /\ u.statement = o.statement + 1 /\ u.missing = o.missing
    BY <1>0, <2>1, <2>2 DEF OpenerFields
  <2>4. \A s \in 1..Statements : s < u.statement => <<u.script, s>> \in tables'
    BY <1>0, <2>1, <2>3 DEF Passed
  <2>5. Passed(opener[p])'
    BY <1>0, <2>1, <2>3, <2>4 DEF Passed, u
  <2>6. /\ u.script \in Nat \ {0} /\ u.statement \in Nat /\ u.missing \in BOOLEAN
        /\ tables \subseteq tables' /\ recorded' \ recorded = {} /\ recorded' \subseteq 1..Scripts
    BY <1>0, <2>1, <2>3
  <2> QED
    BY <2>1, <2>2, <2>3, <2>5, <2>6, OpenMoves DEF u
<1>4. CASE M!RecordMigration(p)
  <2>1. o.at = "migrate" /\ o.script \notin o.already /\ o.script <= Scripts /\ o.statement > Statements
        /\ UNCHANGED <<tables, major>>
    BY <1>4 DEF M!RecordMigration, M!Finished, o
  <2>2. CASE o.script \in recorded
    <3>1. DOMAIN opener' = Openers /\ (\A q \in Openers \ {p} : opener'[q] = opener[q])
          /\ u = [o EXCEPT !.at = "failed"] /\ UNCHANGED recorded
      BY <1>0, <1>4, <2>2 DEF M!RecordMigration, M!Goes, o, u
    <3>2. /\ DOMAIN u = OpenerFields /\ u.at = "failed" /\ u.already = o.already
          /\ u.script = o.script /\ u.statement = o.statement /\ u.missing = o.missing
      BY <1>0, <3>1 DEF OpenerFields
    <3>3. Passed(opener[p])'
      BY <1>0, <3>1, <3>2 DEF Passed, u
    <3> QED
      BY <1>0, <1>m, <2>1, <3>1, <3>2, <3>3
  <2>3. CASE o.script \notin recorded
    <3>1. recorded' = recorded \cup {o.script}
          /\ opener' = [opener EXCEPT ![p].script = opener[p].script + 1, ![p].statement = 1]
      BY <1>4, <2>3 DEF M!RecordMigration, o
    <3>2. DOMAIN opener' = Openers /\ (\A q \in Openers \ {p} : opener'[q] = opener[q])
          /\ u = [o EXCEPT !.script = o.script + 1, !.statement = 1]
      BY <1>0, <3>1 DEF o, u
    <3>3. /\ DOMAIN u = OpenerFields /\ u.at = "migrate" /\ u.already = o.already
          /\ u.script = o.script + 1 /\ u.statement = 1 /\ u.missing = o.missing
      BY <1>0, <2>1, <3>2 DEF OpenerFields
    <3>4. \A m \in 1..Scripts : m < u.script => m \in recorded'
      BY <1>0, <2>1, <3>1, <3>3 DEF Passed
    <3>5. \A m \in recorded' \ recorded : \A s \in 1..Statements : <<m, s>> \in tables'
      BY <1>0, <2>1, <3>1 DEF Passed
    <3>6. Passed(opener[p])'
      <4>1. o.already \subseteq recorded' /\ u.script \in u.already => u.statement = 1
        BY <1>0, <3>1, <3>3 DEF Passed
      <4> QED
        BY <1>0, <3>1, <3>3, <3>4, <4>1 DEF Passed, u
    <3>7. /\ u.script \in Nat \ {0} /\ u.statement \in Nat /\ u.missing \in BOOLEAN
          /\ tables \subseteq tables' /\ recorded \subseteq recorded' /\ recorded' \subseteq 1..Scripts
      BY <1>0, <2>1, <3>1, <3>3
    <3> QED
      BY <2>1, <3>2, <3>3, <3>5, <3>6, <3>7, OpenMoves DEF u
  <2> QED
    BY <2>2, <2>3
<1>5. CASE M!LookUpMajor(p)
  <2>1. o.at = "migrate" /\ o.script > Scripts /\ UNCHANGED <<tables, recorded, major>>
    BY <1>5 DEF M!LookUpMajor, o
  <2>2. recorded = 1..Scripts
    <3>1. \A m \in 1..Scripts : m < o.script => m \in recorded
      BY <1>0, <2>1 DEF Passed
    <3>2. \A m \in 1..Scripts : m < o.script
      BY <1>0, <2>1
    <3> QED
      BY <1>0, <3>1, <3>2
  <2>3. DOMAIN opener' = Openers /\ \A q \in Openers \ {p} : opener'[q] = opener[q]
    BY <1>0, <1>5 DEF M!LookUpMajor, M!Goes
  <2>4. CASE major > M!CurrentMajor
    <3>1. u = [o EXCEPT !.at = "refused"]
      BY <1>0, <1>5, <2>4 DEF M!LookUpMajor, M!Goes, o, u
    <3>2. /\ DOMAIN u = OpenerFields /\ u.at = "refused" /\ u.already = o.already
          /\ u.script = o.script /\ u.statement = o.statement /\ u.missing = o.missing
      BY <1>0, <3>1 DEF OpenerFields
    <3>3. Passed(opener[p])'
      BY <1>0, <2>1, <3>2 DEF Passed, u
    <3> QED
      BY <1>0, <1>m, <2>1, <2>3, <3>2, <3>3
  <2>5. CASE ~(major > M!CurrentMajor)
    <3>1. u = [o EXCEPT !.at = "version", !.missing = (major = 0)]
      BY <1>0, <1>5, <2>5 DEF M!LookUpMajor, o, u
    <3>2. /\ DOMAIN u = OpenerFields /\ u.at = "version" /\ u.already = o.already
          /\ u.script = o.script /\ u.statement = o.statement /\ u.missing = (major = 0)
      BY <1>0, <3>1 DEF OpenerFields
    <3>3. Passed(opener[p])'
      <4>1. major # M!CurrentMajor + 1 /\ (~u.missing => major = M!CurrentMajor)
        <5>1. ~u.missing => major # 0
          BY <3>2, Zenon
        <5> QED
          BY <1>0, <2>5, <5>1 DEF M!CurrentMajor
      <4>2. u.already \subseteq recorded
        BY <1>0, <3>2 DEF Passed
      <4> QED
        BY <2>1, <2>2, <3>2, <4>1, <4>2 DEF Passed, u
    <3>4. u.missing \in BOOLEAN
      BY <3>2
    <3> QED
      BY <1>0, <1>m, <2>1, <2>3, <3>2, <3>3, <3>4
  <2> QED
    BY <2>4, <2>5
<1>6. CASE M!RecordOpen(p)
  <2>1. o.at = "version" /\ UNCHANGED <<tables, recorded>> /\ recorded = 1..Scripts
        /\ major # M!CurrentMajor + 1 /\ (~o.missing => major = M!CurrentMajor)
    BY <1>0, <1>6 DEF M!RecordOpen, Passed, o
  <2>2. DOMAIN opener' = Openers /\ \A q \in Openers \ {p} : opener'[q] = opener[q]
    BY <1>0, <1>6 DEF M!RecordOpen, M!Goes
  <2>3. CASE o.missing /\ major # 0
    <3>1. u = [o EXCEPT !.at = "failed"] /\ UNCHANGED major
      BY <1>0, <1>6, <2>3 DEF M!RecordOpen, M!Goes, o, u
    <3>2. /\ DOMAIN u = OpenerFields /\ u.at = "failed" /\ u.already = o.already
          /\ u.script = o.script /\ u.statement = o.statement /\ u.missing = o.missing
      BY <1>0, <3>1 DEF OpenerFields
    <3>3. Passed(opener[p])'
      BY <1>0, <2>1, <3>2 DEF Passed, u
    <3> QED
      BY <1>0, <1>m, <2>1, <2>2, <3>1, <3>2, <3>3
  <2>4. CASE ~(o.missing /\ major # 0)
    <3>1. u = [o EXCEPT !.at = "open"] /\ major' = IF o.missing THEN M!CurrentMajor ELSE major
      BY <1>0, <1>6, <2>4 DEF M!RecordOpen, M!Goes, o, u
    <3>2. /\ DOMAIN u = OpenerFields /\ u.at = "open" /\ u.already = o.already
          /\ u.script = o.script /\ u.statement = o.statement /\ u.missing = o.missing
      BY <1>0, <3>1 DEF OpenerFields
    <3>3. major' = M!CurrentMajor /\ (major' = major \/ major = 0)
      BY <2>1, <2>4, <3>1
    <3>4. Passed(opener[p])'
      BY <1>0, <2>1, <3>2, <3>3 DEF Passed, u
    <3>5. recorded \subseteq recorded' /\ recorded' \subseteq 1..Scripts /\ tables \subseteq tables'
          /\ recorded' \ recorded = {}
      BY <2>1
    <3> QED
      BY <1>0, <2>2, <3>2, <3>3, <3>4, <3>5, OpenMoves DEF u
  <2> QED
    BY <2>3, <2>4
<1>7. CASE M!Retry(p) \/ M!Crash(p)
  <2>1. DOMAIN opener' = Openers /\ (\A q \in Openers \ {p} : opener'[q] = opener[q]) /\ u = M!Closed
        /\ UNCHANGED <<tables, recorded, major>>
    BY <1>0, <1>7 DEF M!Retry, M!Crash, u
  <2>2. Passed(opener[p])'
    BY <2>1, OpenClosed DEF Passed, u
  <2> QED
    BY <1>m, <2>1, <2>2, OpenClosed
<1> QED
  BY <1>1, <1>2, <1>3, <1>4, <1>5, <1>6, <1>7 DEF M!Step

LEMMA OpenStays == OpenInd /\ UNCHANGED M!vars => OpenInd'
BY DEF M!vars, OpenInd, OpenTypes, Passed

LEMMA OpenPromise == OpenInd => M!OpenMeansMigrated
BY DEF OpenInd, OpenTypes, M!OpenMeansMigrated, Passed

-----------------------------------------------------------------------------

(* The invariant.  A transaction that has looked up its version holds the  *)
(* lock until it has inserted it; rows are remembered only on the way from *)
(* a re-index to an answer; what an undisturbed re-index has passed has    *)
(* its vector, or is in the batch that is being written.                   *)
DocFields == {"at", "todo", "content", "prior", "rows", "batch", "next", "alone", "search", "found"}
DocJobs == /\ IsFiniteSet(docs) /\ DOMAIN job = Workers
           /\ \A p \in Workers : /\ DOMAIN job[p] = DocFields
                                 /\ job[p].alone \in BOOLEAN /\ job[p].search \in BOOLEAN
                                 /\ job[p].next \in Nat /\ job[p].rows \in Seq(docs)
DocInserts(p, j) == /\ lock = p /\ ~D!Stored(Head(j.todo), j.content)
                    /\ j.prior = D!Highest(D!Latest(Head(j.todo)))
DocInsert == \A p \in Workers : job[p].at = "insert" => DocInserts(p, job[p])
DocPlaces == \A p \in Workers :
    /\ job[p].rows # <<>> => job[p].at \in {"purge", "embed", "indexed", "query", "answered"}
    /\ job[p].at = "query" /\ job[p].rows # <<>> => job[p].search
    /\ job[p].batch # {} => job[p].at = "embed"
    /\ job[p].at = "purge" => job[p].next = 1
DocAlone == \A p \in Workers : job[p].alone /\ D!Indexing(p) => \A q \in Workers \ {p} : ~D!Indexing(q)
Covered(j, embedded) ==
    /\ j.at = "embed" => \A i \in DOMAIN j.rows : i < j.next => j.rows[i] \in embedded \cup j.batch
    /\ j.at \in {"indexed", "query"} => \A i \in DOMAIN j.rows : j.rows[i] \in embedded
    /\ j.at = "answered" => \A i \in DOMAIN j.rows : j.rows[i] \in j.found
DocCovers == \A p \in Workers : job[p].alone => Covered(job[p], vectors)
DocInd == DocJobs /\ DocInsert /\ D!OneVersionChain /\ DocPlaces /\ DocAlone /\ DocCovers

(* What a process has that does nothing.                                   *)
LEMMA IdleJob ==
    /\ DOMAIN D!Idle = DocFields /\ D!Idle.at = "idle" /\ D!Idle.rows = <<>> /\ D!Idle.batch = {}
    /\ D!Idle.alone \in BOOLEAN /\ D!Idle.search \in BOOLEAN /\ D!Idle.next = 1 /\ ~D!Idle.search
BY DEF D!Idle, DocFields

LEMMA DocInit == D!Init => DocInd
<1> SUFFICES ASSUME D!Init PROVE DocInd
  OBVIOUS
<1>0. docs = {} /\ vectors = {} /\ DOMAIN job = Workers /\ \A p \in Workers : job[p] = D!Idle
  BY DEF D!Init
<1>1. DocJobs
  <2>1. IsFiniteSet(docs)
    BY <1>0, FS_EmptySet
  <2>2. <<>> \in Seq(docs)
    OBVIOUS
  <2>3. \A p \in Workers : /\ DOMAIN job[p] = DocFields /\ job[p].alone \in BOOLEAN
        /\ job[p].search \in BOOLEAN
                           /\ job[p].next \in Nat /\ job[p].rows \in Seq(docs)
    <3>1. DOMAIN D!Idle = DocFields /\ D!Idle.alone \in BOOLEAN /\ D!Idle.search \in BOOLEAN
          /\ D!Idle.next \in Nat /\ D!Idle.rows \in Seq(docs)
      BY IdleJob, <2>2
    <3> QED
      BY <1>0, <3>1, Zenon
  <2> QED
    BY <1>0, <2>1, <2>3 DEF DocJobs
<1>2. DocInsert /\ DocPlaces /\ DocCovers
  BY <1>0, IdleJob DEF DocInsert, DocPlaces, DocCovers, Covered
<1>3. DocAlone
  BY <1>0, IdleJob DEF DocAlone, D!Indexing
<1>4. D!OneVersionChain
  <2> SUFFICES ASSUME NEW s \in Sources
               PROVE  LET mine == {d \in docs : d.src = s}
                      IN  /\ {d.version : d \in mine} = 1..Cardinality(mine)
                          /\ \A d \in mine : d.prior = d.version - 1
                          /\ \A d, e \in mine : d.content = e.content => d = e
    BY DEF D!OneVersionChain, D!Cardinality, Cardinality
  <2>1. {d \in docs : d.src = s} = {}
    BY <1>0
  <2>2. 1..0 = {}
    OBVIOUS
  <2> QED
    BY <2>1, <2>2, FS_EmptySet
<1> QED
  BY <1>1, <1>2, <1>3, <1>4 DEF DocInd

(* A step of one worker that leaves the tables alone.                      *)
LEMMA DocMoves ==
    ASSUME DocInd, NEW p \in Workers, NEW j, job' = [job EXCEPT ![p] = j],
           docs' = docs, lock' = lock \/ lock = p \/ lock = D!Nobody, D!Nobody \notin Workers,
           DOMAIN j = DocFields, j.alone \in BOOLEAN, j.search \in BOOLEAN,
           j.next \in Nat, j.rows \in Seq(docs),
           j.at = "insert" => DocInserts(p, j)'
    PROVE  DocInsert' /\ D!OneVersionChain' /\ DocJobs'
<1>1. DOMAIN job' = Workers /\ job'[p] = j /\ \A q \in Workers \ {p} : job'[q] = job[q]
  BY DEF DocInd, DocJobs
<1>2. DocJobs'
  BY <1>1 DEF DocInd, DocJobs
<1>3. D!OneVersionChain'
  BY DEF DocInd, D!OneVersionChain
<1>4. \A r \in Workers : \A i : lock' = r /\ lock = r => (DocInserts(r, i)' <=> DocInserts(r, i))
  BY DEF DocInserts, D!Stored, D!Latest, D!Highest
<1>5. ASSUME NEW q \in Workers, job'[q].at = "insert" PROVE DocInserts(q, job[q])'
  <2>1. CASE q = p
    <3>1. j.at = "insert" /\ DocInserts(p, j)'
      BY <1>1, <1>5, <2>1
    <3> QED
      BY <1>1, <2>1, <3>1
  <2>2. CASE q # p
    <3>1. job'[q] = job[q] /\ job[q].at = "insert"
      BY <1>1, <1>5, <2>2
    <3>2. lock = q /\ lock # p /\ lock # D!Nobody
      BY <3>1, <2>2 DEF DocInd, DocInsert, DocInserts
    <3>3. lock' = q
      BY <3>2
    <3>4. PICK i : i = job[q]
      OBVIOUS
    <3>5. DocInserts(q, i)'
      BY <3>1, <3>2, <3>3, <3>4, <1>4 DEF DocInd, DocInsert
    <3> QED
      BY <3>1, <3>4, <3>5 DEF DocInserts
  <2> QED
    BY <2>1, <2>2
<1>6. DocInsert'
  BY <1>5 DEF DocInsert
<1> QED
  BY <1>2, <1>3, <1>6

(* A step to where no vector is written.                                   *)
LEMMA DocAway ==
    ASSUME DocInd, NEW p \in Workers, NEW j, job' = [job EXCEPT ![p] = j], vectors \subseteq vectors',
           j.rows = <<>>, j.batch = {}, j.at \notin {"purge", "embed", "indexed"}, j.at = "query" => ~j.search
    PROVE  DocPlaces' /\ DocAlone' /\ DocCovers'
<1>1. DOMAIN job' = Workers /\ job'[p] = j /\ \A q \in Workers \ {p} : job'[q] = job[q]
  BY DEF DocInd, DocJobs
<1>2. ~D!Indexing(p)' /\ \A q \in Workers \ {p} : D!Indexing(q)' <=> D!Indexing(q)
  BY <1>1 DEF D!Indexing
<1>3. DocPlaces'
  BY <1>1 DEF DocInd, DocPlaces
<1>4. DocAlone'
  BY <1>1, <1>2 DEF DocInd, DocAlone
<1>5. DocCovers'
  <2> SUFFICES ASSUME NEW q \in Workers, job'[q].alone
               PROVE  Covered(job'[q], vectors')
    BY DEF DocCovers, Covered
  <2>1. CASE q = p
    BY <1>1, <2>1 DEF Covered
  <2>2. CASE q # p
    BY <1>1, <2>2 DEF DocInd, DocCovers, Covered
  <2> QED
    BY <2>1, <2>2
<1> QED
  BY <1>3, <1>4, <1>5

(* A place at which nothing is indexed and no row is remembered.           *)
DocRest(j) == /\ DOMAIN j = DocFields /\ j.alone \in BOOLEAN /\ j.search \in BOOLEAN
              /\ j.next \in Nat /\ j.rows = <<>> /\ j.batch = {}
              /\ j.at \notin {"purge", "embed", "indexed"}
              /\ j.at = "query" => ~j.search

(* A command that ends, and one that stores nothing.                       *)
LEMMA DocRests ==
    ASSUME DocInd, D!Nobody \notin Workers, NEW p \in Workers, NEW j, job' = [job EXCEPT ![p] = j],
           docs' = docs, vectors' = vectors, lock' = lock \/ lock = p \/ lock = D!Nobody,
           DocRest(j), j.at = "insert" => DocInserts(p, j)'
    PROVE  DocInd'
<1>1. <<>> \in Seq(docs)
  OBVIOUS
<1>2. DocInsert' /\ D!OneVersionChain' /\ DocJobs'
  BY <1>1, DocMoves DEF DocRest
<1>3. DocPlaces' /\ DocAlone' /\ DocCovers'
  BY DocAway DEF DocRest
<1> QED
  BY <1>2, <1>3 DEF DocInd

LEMMA DocNextFile ==
    ASSUME NEW j, DocRest(j)
    PROVE  DocRest(D!NextFile(j)) /\ D!NextFile(j).at \in {"idle", "read"}
<1>1. DocRest(D!Idle) /\ D!Idle.at = "idle"
  BY IdleJob DEF DocRest
<1>2. DocRest([j EXCEPT !.at = "read", !.todo = Tail(@)])
      /\ [j EXCEPT !.at = "read", !.todo = Tail(@)].at = "read"
  BY DEF DocRest, DocFields
<1> QED
  BY <1>1, <1>2 DEF D!NextFile

(* Reading a file, and the lookup that begins its transaction.             *)
LEMMA DocIngest ==
    ASSUME DocInd, D!Nobody \notin Workers, NEW p \in Workers,
           D!IngestPath(p) \/ D!ReadFile(p) \/ D!Begin(p) \/ D!Return(p) \/ D!Crash(p)
    PROVE  DocInd'
<1>0. job[p].at \in {"read", "begin"} => DocRest(job[p])
  BY DEF DocInd, DocJobs, DocPlaces, DocRest
<1>1. DocRest(D!Idle) /\ D!Idle.at = "idle"
  BY IdleJob DEF DocRest
<1>2. CASE D!IngestPath(p)
  <2>1. PICK todo : job' = [job EXCEPT ![p] = [D!Idle EXCEPT !.at = "read", !.todo = todo]]
        /\ UNCHANGED <<docs, vectors, lock>>
    BY <1>2 DEF D!IngestPath, D!Starts, D!Becomes
  <2>2. DocRest([D!Idle EXCEPT !.at = "read", !.todo = todo])
        /\ [D!Idle EXCEPT !.at = "read", !.todo = todo].at = "read"
    BY <1>1, IdleJob DEF DocRest, DocFields
  <2> QED
    BY <2>1, <2>2, DocRests
<1>3. CASE D!ReadFile(p)
  <2> DEFINE c == files[Head(job[p].todo)]
             j == [job[p] EXCEPT !.at = "begin", !.content = c]
  <2>1. /\ job[p].at = "read" /\ UNCHANGED <<docs, vectors, lock>>
        /\ job' = [job EXCEPT ![p] = IF c = D!NoContent THEN D!NextFile(job[p]) ELSE j]
    BY <1>3 DEF D!ReadFile, D!Becomes
  <2>2. DocRest(j) /\ j.at = "begin"
    BY <1>0, <2>1 DEF DocRest, DocFields
  <2> HIDE DEF j
  <2> QED
    BY <1>0, <2>1, <2>2, DocNextFile, DocRests
<1>4. CASE D!Begin(p)
  <2> DEFINE s == Head(job[p].todo)
             j == [job[p] EXCEPT !.at = "insert", !.prior = D!Highest(D!Latest(s))]
  <2>1. job[p].at = "begin" /\ lock = D!Nobody /\ UNCHANGED <<docs, vectors>>
    BY <1>4 DEF D!Begin
  <2>2. CASE D!Stored(s, job[p].content)
    <3>1. job' = [job EXCEPT ![p] = D!NextFile(job[p])] /\ lock' = lock
      BY <1>4, <2>2 DEF D!Begin, D!Becomes
    <3> QED
      BY <1>0, <2>1, <3>1, DocNextFile, DocRests
  <2>3. CASE ~D!Stored(s, job[p].content)
    <3>1. job' = [job EXCEPT ![p] = j] /\ lock' = p
      BY <1>4, <2>3 DEF D!Begin, D!Becomes
    <3>2. DocRest(j) /\ j.at = "insert" /\ j.todo = job[p].todo /\ j.content = job[p].content
          /\ j.prior = D!Highest(D!Latest(s))
      BY <1>0, <2>1 DEF DocRest, DocFields
    <3> HIDE DEF j
    <3>3. PICK i : i = j
      OBVIOUS
    <3>4. ~D!Stored(Head(i.todo), i.content) /\ i.prior = D!Highest(D!Latest(Head(i.todo)))
      BY <2>3, <3>2, <3>3
    <3>5. DocInserts(p, i)'
      BY <2>1, <3>1, <3>4 DEF DocInserts, D!Stored, D!Latest
    <3> QED
      BY <2>1, <3>1, <3>2, <3>3, <3>5, DocRests
  <2> QED
    BY <2>2, <2>3
<1>5. CASE D!Return(p) \/ D!Crash(p)
  <2>1. job' = [job EXCEPT ![p] = D!Idle] /\ UNCHANGED <<docs, vectors>> /\ (lock' = lock \/ lock = p)
    BY <1>5 DEF D!Return, D!Crash, D!Becomes
  <2> QED
    BY <1>1, <2>1, DocRests
<1> QED
  BY <1>2, <1>3, <1>4, <1>5

(* The highest of the versions 1..n, and 0 when there is none.             *)
LEMMA DocHighest == ASSUME NEW n \in Nat PROVE D!Highest((1..n) \cup {0}) = n
<1> DEFINE X == (1..n) \cup {0}
<1>1. n \in X /\ \A m \in X : m <= n
  OBVIOUS
<1>2. X \subseteq Nat
  OBVIOUS
<1> HIDE DEF X
<1>3. D!Highest(X) \in X /\ \A m \in X : m <= D!Highest(X)
  BY <1>1 DEF D!Highest
<1>4. D!Highest(X) \in Nat /\ n <= D!Highest(X) /\ D!Highest(X) <= n
  BY <1>1, <1>2, <1>3
<1>5. D!Highest(X) = n
  BY <1>4
<1> QED
  BY <1>5 DEF X

(* The version that is inserted follows the last one of its source.        *)
LEMMA DocCommit ==
    ASSUME DocInd, D!Nobody \notin Workers, NEW p \in Workers, D!Commit(p)
    PROVE  DocInd'
<1> DEFINE s == Head(job[p].todo)
           c == job[p].content
           k == job[p].prior
<1>1. /\ job[p].at = "insert" /\ vectors' = vectors /\ lock' = D!Nobody
         /\ job' = [job EXCEPT ![p] = D!NextFile(job[p])]
      /\ docs' = docs \cup {[src |-> s, content |-> c, version |-> k + 1, prior |-> k]}
  BY DEF D!Commit, D!Becomes
<1>2. lock = p /\ ~D!Stored(s, c) /\ k = D!Highest(D!Latest(s))
  BY <1>1 DEF DocInd, DocInsert, DocInserts
<1>3. DocRest(job[p])
  BY <1>1 DEF DocInd, DocJobs, DocPlaces, DocRest
<1>4. PICK j : j = D!NextFile(job[p]) /\ DocRest(j) /\ j.at \in {"idle", "read"}
  BY <1>3, DocNextFile
<1>5. PICK new : new = [src |-> s, content |-> c, version |-> k + 1, prior |-> k]
  OBVIOUS
<1>6. new.src = s /\ new.content = c /\ new.version = k + 1 /\ new.prior = k
  BY <1>5
<1>7. docs' = docs \cup {new} /\ job' = [job EXCEPT ![p] = j] /\ IsFiniteSet(docs)
  BY <1>1, <1>4, <1>5 DEF DocInd, DocJobs
<1>8. PICK t, u : t = s /\ u = c
  OBVIOUS
<1> HIDE DEF s, c, k
<1>9. DOMAIN job' = Workers /\ job'[p] = j /\ \A q \in Workers \ {p} : job'[q] = job[q]
  BY <1>7 DEF DocInd, DocJobs
<1>10. DocPlaces' /\ DocAlone' /\ DocCovers'
  BY <1>1, <1>4, <1>7, DocAway DEF DocRest
<1>11. DocInsert'
  <2>1. \A q \in Workers : job'[q].at # "insert"
    BY <1>2, <1>4, <1>9 DEF DocInd, DocInsert, DocInserts
  <2> QED
    BY <2>1 DEF DocInsert
<1>12. DocJobs'
  <2>1. IsFiniteSet(docs')
    BY <1>7, FS_AddElement
  <2>2. \A x : x \in Seq(docs) => x \in Seq(docs')
    BY <1>7
  <2>3. <<>> \in Seq(docs')
    OBVIOUS
  <2>4. ASSUME NEW q \in Workers
        PROVE  /\ DOMAIN job'[q] = DocFields /\ job'[q].alone \in BOOLEAN
                  /\ job'[q].search \in BOOLEAN
               /\ job'[q].next \in Nat /\ job'[q].rows \in Seq(docs')
    <3>1. CASE q = p
      BY <1>4, <1>9, <2>3, <3>1 DEF DocRest
    <3>2. CASE q # p
      <4>1. /\ DOMAIN job[q] = DocFields /\ job[q].alone \in BOOLEAN /\ job[q].search \in BOOLEAN
            /\ job[q].next \in Nat /\ job[q].rows \in Seq(docs)
        BY DEF DocInd, DocJobs
      <4> QED
        BY <1>9, <2>2, <3>2, <4>1
    <3> QED
      BY <3>1, <3>2
  <2> QED
    BY <1>9, <2>1, <2>4 DEF DocJobs
<1>13. D!OneVersionChain'
  <2> SUFFICES ASSUME NEW r \in Sources
               PROVE  LET mine == {d \in docs' : d.src = r}
                      IN  /\ {d.version : d \in mine} = 1..Cardinality(mine)
                          /\ \A d \in mine : d.prior = d.version - 1
                          /\ \A d, e \in mine : d.content = e.content => d = e
    BY DEF D!OneVersionChain, D!Cardinality, Cardinality
  <2> DEFINE mine == {d \in docs : d.src = r}
             then == {d \in docs' : d.src = r}
             n == Cardinality(mine)
  <2>1. /\ {d.version : d \in mine} = 1..n
        /\ \A d \in mine : d.prior = d.version - 1
        /\ \A d, e \in mine : d.content = e.content => d = e
    BY DEF DocInd, D!OneVersionChain, D!Cardinality, Cardinality
  <2>2. IsFiniteSet(mine) /\ n \in Nat
    BY <1>7, FS_Subset, FS_CardinalityType
  <2>3. CASE r # s
    <3>1. then = mine
      BY <1>6, <1>7, <2>3
    <3> QED
      BY <2>1, <3>1
  <2>4. CASE r = s
    <3>1. then = mine \cup {new} /\ new \notin mine /\ \A d \in mine : d.content # new.content
      BY <1>2, <1>6, <1>7, <2>4 DEF D!Stored
    <3>2. D!Latest(s) = (1..n) \cup {0}
      BY <2>1, <2>4 DEF D!Latest
    <3>3. k = n
      BY <1>2, <2>2, <3>2, DocHighest
    <3> HIDE DEF mine, then
    <3>4. IsFiniteSet(then) /\ Cardinality(then) = n + 1
      BY <2>2, <3>1, FS_AddElement
    <3> HIDE DEF n
    <3>5. {d.version : d \in then} = (1..n) \cup {n + 1}
      BY <1>6, <2>1, <3>1, <3>3
    <3>6. (1..n) \cup {n + 1} = 1..(n + 1)
      BY <2>2
    <3>7. \A d \in then : d.prior = d.version - 1
      BY <1>6, <2>1, <2>2, <3>1, <3>3
    <3>8. \A d, e \in then : d.content = e.content => d = e
      BY <2>1, <3>1
    <3>9. /\ {d.version : d \in then} = 1..Cardinality(then)
          /\ \A d \in then : d.prior = d.version - 1
          /\ \A d, e \in then : d.content = e.content => d = e
      BY <3>4, <3>5, <3>6, <3>7, <3>8
    <3> QED
      BY <3>9 DEF then
  <2> QED
    BY <2>3, <2>4
<1> QED
  BY <1>10, <1>11, <1>12, <1>13 DEF DocInd

(* The sequence of the documents has each of them.                         *)
LEMMA DocRows == ASSUME NEW X, IsFiniteSet(X) PROVE D!SetToSeq(X) \in Seq(X)
<1>1. Cardinality(X) \in Nat /\ ExistsBijection(1..Cardinality(X), X)
  BY FS_CardinalityType
<1>2. \E f \in [1..Cardinality(X) -> X] : D!IsInjective(f)
  BY <1>1 DEF ExistsBijection, Bijection, Injection, D!IsInjective, IsInjective
<1>3. D!SetToSeq(X) \in [1..Cardinality(X) -> X]
  BY <1>2 DEF D!SetToSeq, D!Cardinality, Cardinality, D!IsInjective
<1> QED
  BY <1>1, <1>3

(* A re-index begins: it is alone if no other one is under way, and takes  *)
(* that from those that are.                                               *)
LEMMA DocStart ==
    ASSUME DocInd, NEW p \in Workers, NEW search \in BOOLEAN, job[p] = D!Idle, D!StartIndex(p, D!Idle, search),
           docs' = docs, vectors' = vectors, lock' = lock
    PROVE  DocInd'
<1> DEFINE free == \A r \in Workers \ {p} : ~D!Indexing(r)
           j == [D!Idle EXCEPT !.at = "purge", !.rows = D!SetToSeq(docs), !.next = 1, !.alone = free, !.search = search]
<1>0. /\ DOMAIN job = Workers /\ IsFiniteSet(docs)
      /\ \A q \in Workers : /\ DOMAIN job[q] = DocFields
                            /\ job[q].alone \in BOOLEAN /\ job[q].search \in BOOLEAN
                            /\ job[q].next \in Nat /\ job[q].rows \in Seq(docs)
  BY DEF DocInd, DocJobs
<1>1. /\ DOMAIN job' = Workers /\ job'[p] = j
      /\ \A q \in Workers \ {p} : job'[q] = [job[q] EXCEPT !.alone = @ /\ ~D!Indexing(q)]
  BY DEF D!StartIndex
<1>2. /\ DOMAIN j = DocFields /\ j.at = "purge" /\ j.rows = D!SetToSeq(docs) /\ j.next = 1
         /\ j.batch = {}
      /\ j.search = search
  BY IdleJob DEF DocFields
<1>3. j.alone \in BOOLEAN /\ (j.alone <=> free)
  <2>1. "alone" \in DOMAIN D!Idle
    BY IdleJob DEF DocFields
  <2>2. j.alone = free
    BY <2>1
  <2> HIDE DEF j
  <2> QED
    BY <2>2
<1> HIDE DEF j
<1>4. ASSUME NEW q \in Workers \ {p}
      PROVE  /\ DOMAIN job'[q] = DocFields /\ job'[q].at = job[q].at /\ job'[q].rows = job[q].rows
             /\ job'[q].next = job[q].next /\ job'[q].batch = job[q].batch
                /\ job'[q].found = job[q].found
             /\ job'[q].search = job[q].search /\ job'[q].todo = job[q].todo
                /\ job'[q].content = job[q].content
             /\ job'[q].prior = job[q].prior
  BY <1>0, <1>1 DEF DocFields
<1>5. ASSUME NEW q \in Workers \ {p}
      PROVE  job'[q].alone \in BOOLEAN /\ (job'[q].alone <=> job[q].alone /\ ~D!Indexing(q))
  <2>1. "alone" \in DOMAIN job[q]
    BY <1>0 DEF DocFields
  <2>2. job'[q].alone = (job[q].alone /\ ~D!Indexing(q))
    BY <1>1, <2>1
  <2> QED
    BY <2>2
<1>6. D!Indexing(p)' /\ \A q \in Workers \ {p} : D!Indexing(q)' <=> D!Indexing(q)
  BY <1>1, <1>2, <1>4 DEF D!Indexing
<1>7. DocJobs'
  <2>1. D!SetToSeq(docs) \in Seq(docs)
    BY <1>0, DocRows
  <2>2. ASSUME NEW q \in Workers
        PROVE  /\ DOMAIN job'[q] = DocFields /\ job'[q].alone \in BOOLEAN
                  /\ job'[q].search \in BOOLEAN
               /\ job'[q].next \in Nat /\ job'[q].rows \in Seq(docs')
    <3>1. CASE q = p
      BY <1>1, <1>2, <1>3, <2>1, <3>1
    <3>2. CASE q # p
      BY <1>0, <1>4, <1>5, <3>2
    <3> QED
      BY <3>1, <3>2
  <2> QED
    BY <1>0, <1>1, <2>2 DEF DocJobs
<1>8. DocInsert'
  <2>1. \A q \in Workers : job'[q].at = "insert" => q # p /\ job[q].at = "insert"
    BY <1>1, <1>2, <1>4
  <2> QED
    BY <1>4, <2>1 DEF DocInd, DocInsert, DocInserts, D!Stored, D!Latest
<1>9. D!OneVersionChain'
  BY DEF DocInd, D!OneVersionChain
<1>10. DocPlaces'
  BY <1>1, <1>2, <1>4 DEF DocInd, DocPlaces
<1>11. DocAlone'
  <2>1. ASSUME NEW q \in Workers, job'[q].alone, D!Indexing(q)', NEW r \in Workers \ {q} PROVE ~D!Indexing(r)'
    <3>1. q = p
      BY <1>5, <1>6, <2>1
    <3> QED
      BY <1>1, <1>3, <1>6, <2>1, <3>1
  <2> QED
    BY <2>1 DEF DocAlone
<1>12. DocCovers'
  <2> SUFFICES ASSUME NEW q \in Workers, job'[q].alone
               PROVE  Covered(job'[q], vectors')
    BY DEF DocCovers, Covered
  <2>1. CASE q = p
    BY <1>1, <1>2, <2>1 DEF Covered
  <2>2. CASE q # p
    BY <1>4, <1>5, <2>2 DEF DocInd, DocCovers, Covered
  <2> QED
    BY <2>1, <2>2
<1> QED
  BY <1>7, <1>8, <1>9, <1>10, <1>11, <1>12 DEF DocInd

(* A step inside a re-index, of the only one or one of several.            *)
LEMMA DocIndexes ==
    ASSUME DocInd, D!Nobody \notin Workers, NEW p \in Workers, NEW j, job' = [job EXCEPT ![p] = j],
           docs' = docs, lock' = lock,
           DOMAIN j = DocFields, j.alone = job[p].alone, j.search = job[p].search, j.rows = job[p].rows, j.next \in Nat,
           D!Indexing(p), j.at \in {"embed", "indexed", "query", "answered"}, j.batch # {} => j.at = "embed",
           j.at = "query" /\ j.rows # <<>> => j.search,
           vectors \subseteq vectors' \/ job[p].at = "purge",
           j.alone => /\ j.at = "embed" => \A i \in DOMAIN j.rows : i < j.next => j.rows[i] \in vectors' \cup j.batch
                      /\ j.at \in {"indexed", "query"} => \A i \in DOMAIN j.rows : j.rows[i] \in vectors'
                      /\ j.at = "answered" => \A i \in DOMAIN j.rows : j.rows[i] \in j.found
    PROVE  DocInd'
<1>1. DOMAIN job' = Workers /\ job'[p] = j /\ \A q \in Workers \ {p} : job'[q] = job[q]
  BY DEF DocInd, DocJobs
<1>2. job[p].alone \in BOOLEAN /\ job[p].search \in BOOLEAN /\ job[p].rows \in Seq(docs)
  BY DEF DocInd, DocJobs
<1>3. DocInsert' /\ D!OneVersionChain' /\ DocJobs'
  BY <1>2, DocMoves
<1>4. DocPlaces'
  BY <1>1 DEF DocInd, DocPlaces
<1>5. \A q \in Workers \ {p} : D!Indexing(q)' <=> D!Indexing(q)
  BY <1>1 DEF D!Indexing
<1>6. DocAlone'
  <2>1. ASSUME NEW q \in Workers, job'[q].alone, D!Indexing(q)', NEW r \in Workers \ {q} PROVE ~D!Indexing(r)'
    <3>1. CASE q = p
      BY <1>1, <1>5, <2>1, <3>1 DEF DocInd, DocAlone
    <3>2. CASE q # p
      <4>1. job[q].alone /\ D!Indexing(q)
        BY <1>1, <1>5, <2>1, <3>2
      <4>2. ~D!Indexing(p)
        BY <3>2, <4>1 DEF DocInd, DocAlone
      <4> QED
        BY <4>2
    <3> QED
      BY <3>1, <3>2
  <2> QED
    BY <2>1 DEF DocAlone
<1>7. DocCovers'
  <2> SUFFICES ASSUME NEW q \in Workers, job'[q].alone
               PROVE  Covered(job'[q], vectors')
    BY DEF DocCovers, Covered
  <2>1. CASE q = p
    BY <1>1, <2>1 DEF Covered
  <2>2. CASE q # p
    <3>1. job'[q] = job[q] /\ job[q].alone
      BY <1>1, <2>2
    <3>2. ~D!Indexing(q)
      BY <2>2, <3>1 DEF DocInd, DocAlone
    <3>3. job[q].rows \in Seq(docs) /\ (job[q].at = "query" => job[q].rows = <<>>)
      BY <3>2 DEF DocInd, DocJobs, DocPlaces, D!Indexing
    <3>4. job[q].at \notin {"embed", "indexed"}
      BY <3>2 DEF D!Indexing
    <3> QED
      BY <3>1, <3>3, <3>4 DEF DocInd, DocCovers, Covered
  <2> QED
    BY <2>1, <2>2
<1> QED
  BY <1>3, <1>4, <1>6, <1>7 DEF DocInd

LEMMA DocReindex ==
    ASSUME DocInd, D!Nobody \notin Workers, BatchSize \in Nat, NEW p \in Workers,
           D!Reindex(p) \/ D!Purge(p) \/ D!Embed(p) \/ D!InsertVector(p) \/ D!IndexDone(p) \/ D!VectorSearch(p)
           \/ D!Query(p)
    PROVE  DocInd'
<1>0. /\ DOMAIN job[p] = DocFields /\ job[p].alone \in BOOLEAN /\ job[p].search \in BOOLEAN
      /\ job[p].next \in Nat /\ job[p].rows \in Seq(docs)
  BY DEF DocInd, DocJobs
<1>1. DocRest(D!Idle) /\ D!Idle.at = "idle"
  BY IdleJob DEF DocRest
<1>2. CASE D!Reindex(p)
  <2>1. job[p] = D!Idle /\ D!StartIndex(p, D!Idle, FALSE) /\ UNCHANGED <<docs, vectors, lock>>
    BY <1>2 DEF D!Reindex
  <2> QED
    BY <2>1, DocStart
<1>3. CASE D!Purge(p)
  <2>1. PICK j : j = [job[p] EXCEPT !.at = "embed"]
    OBVIOUS
  <2>2. job[p].at = "purge" /\ job' = [job EXCEPT ![p] = j] /\ docs' = docs /\ lock' = lock
    BY <1>3, <2>1 DEF D!Purge, D!Becomes
  <2>3. /\ DOMAIN j = DocFields /\ j.at = "embed" /\ j.alone = job[p].alone
           /\ j.search = job[p].search
        /\ j.rows = job[p].rows /\ j.next = job[p].next
    BY <1>0, <2>1 DEF DocFields
  <2>4. j.next = 1
    BY <2>2, <2>3 DEF DocInd, DocPlaces
  <2>5. \A i \in DOMAIN j.rows : ~(i < j.next)
    BY <1>0, <2>3, <2>4
  <2>6. D!Indexing(p) /\ j.next \in Nat
    BY <2>2, <2>4 DEF D!Indexing
  <2>7. j.alone => \A i \in DOMAIN j.rows : i < j.next => j.rows[i] \in vectors' \cup j.batch
    BY <2>5
  <2> QED
    BY <2>2, <2>3, <2>6, <2>7, DocIndexes
<1>4. CASE D!Embed(p)
  <2>0. job[p].at = "embed" /\ job[p].batch = {} /\ docs' = docs /\ lock' = lock
        /\ vectors' = vectors /\ D!Indexing(p)
    BY <1>4 DEF D!Embed, D!Indexing
  <2>1. job[p].alone => \A i \in DOMAIN job[p].rows : i < job[p].next => job[p].rows[i] \in vectors
    BY <2>0 DEF DocInd, DocCovers, Covered
  <2>2. CASE job[p].next > Len(job[p].rows)
    <3>1. PICK j : j = [job[p] EXCEPT !.at = "indexed"]
      OBVIOUS
    <3>2. job' = [job EXCEPT ![p] = j]
      BY <1>4, <2>2, <3>1 DEF D!Embed, D!Becomes
    <3>3. /\ DOMAIN j = DocFields /\ j.at = "indexed" /\ j.alone = job[p].alone
             /\ j.search = job[p].search
          /\ j.rows = job[p].rows /\ j.next = job[p].next /\ j.batch = {}
      BY <1>0, <2>0, <3>1 DEF DocFields
    <3>4. j.alone => \A i \in DOMAIN j.rows : j.rows[i] \in vectors
      BY <1>0, <2>1, <2>2, <3>3
    <3> QED
      BY <1>0, <2>0, <3>2, <3>3, <3>4, DocIndexes
  <2>3. CASE ~(job[p].next > Len(job[p].rows))
    <3> DEFINE slice == D!Batch(job[p].rows, job[p].next)
    <3>1. PICK j : j = [job[p] EXCEPT !.batch = slice, !.next = @ + BatchSize]
      OBVIOUS
    <3>2. job' = [job EXCEPT ![p] = j]
      BY <1>4, <2>3, <3>1 DEF D!Embed, D!Becomes
    <3>3. /\ DOMAIN j = DocFields /\ j.at = "embed" /\ j.alone = job[p].alone
             /\ j.search = job[p].search
          /\ j.rows = job[p].rows /\ j.next = job[p].next + BatchSize /\ j.batch = slice
      BY <1>0, <2>0, <3>1 DEF DocFields
    <3>4. \A i \in DOMAIN job[p].rows : job[p].next <= i
          /\ i < job[p].next + BatchSize => job[p].rows[i] \in slice
      BY <1>0 DEF D!Batch
    <3> HIDE DEF slice
    <3>5. j.alone => \A i \in DOMAIN j.rows : i < j.next => j.rows[i] \in vectors' \cup j.batch
      BY <1>0, <2>0, <2>1, <3>3, <3>4
    <3>6. j.next \in Nat
      BY <1>0, <3>3
    <3> QED
      BY <1>0, <2>0, <3>2, <3>3, <3>5, <3>6, DocIndexes
  <2> QED
    BY <2>2, <2>3
<1>5. CASE D!InsertVector(p)
  <2>1. PICK row \in job[p].batch : /\ vectors' = vectors \cup {row} /\ docs' = docs /\ lock' = lock
                                   /\ job' = [job EXCEPT ![p] = [job[p] EXCEPT !.batch = @ \ {row}]]
    BY <1>5 DEF D!InsertVector, D!Becomes
  <2>2. job[p].at = "embed" /\ D!Indexing(p)
    BY <2>1 DEF DocInd, DocPlaces, D!Indexing
  <2>3. PICK j : j = [job[p] EXCEPT !.batch = @ \ {row}]
    OBVIOUS
  <2>4. /\ DOMAIN j = DocFields /\ j.at = "embed" /\ j.alone = job[p].alone
           /\ j.search = job[p].search
        /\ j.rows = job[p].rows /\ j.next = job[p].next /\ j.batch = job[p].batch \ {row}
    BY <1>0, <2>2, <2>3 DEF DocFields
  <2>5. job[p].alone => \A i \in DOMAIN job[p].rows : i < job[p].next => job[p].rows[i] \in vectors \cup job[p].batch
    BY <2>2 DEF DocInd, DocCovers, Covered
  <2>6. j.alone => \A i \in DOMAIN j.rows : i < j.next => j.rows[i] \in vectors' \cup j.batch
    BY <2>1, <2>4, <2>5
  <2> QED
    BY <1>0, <2>1, <2>2, <2>3, <2>4, <2>6, DocIndexes
<1>6. CASE D!IndexDone(p)
  <2>1. job[p].at = "indexed" /\ docs' = docs /\ vectors' = vectors /\ lock' = lock /\ D!Indexing(p)
    BY <1>6 DEF D!IndexDone, D!Indexing
  <2>2. CASE job[p].search
    <3>1. PICK j : j = [job[p] EXCEPT !.at = "query"]
      OBVIOUS
    <3>2. job' = [job EXCEPT ![p] = j]
      BY <1>6, <2>2, <3>1 DEF D!IndexDone, D!Becomes
    <3>3. /\ DOMAIN j = DocFields /\ j.at = "query" /\ j.alone = job[p].alone
             /\ j.search = job[p].search
          /\ j.rows = job[p].rows /\ j.next = job[p].next /\ j.batch = job[p].batch
      BY <1>0, <3>1 DEF DocFields
    <3>4. job[p].batch = {}
          /\ (job[p].alone => \A i \in DOMAIN job[p].rows : job[p].rows[i] \in vectors)
      BY <2>1 DEF DocInd, DocPlaces, DocCovers, Covered
    <3> QED
      BY <1>0, <2>1, <2>2, <3>2, <3>3, <3>4, DocIndexes
  <2>3. CASE ~job[p].search
    <3>1. job' = [job EXCEPT ![p] = D!Idle]
      BY <1>6, <2>3 DEF D!IndexDone, D!Becomes
    <3> QED
      BY <1>1, <2>1, <3>1, DocRests
  <2> QED
    BY <2>2, <2>3
<1>7. CASE D!VectorSearch(p)
  <2>1. job[p] = D!Idle /\ docs' = docs /\ vectors' = vectors /\ lock' = lock
    BY <1>7 DEF D!VectorSearch
  <2>2. CASE vectors = {}
    <3>1. D!StartIndex(p, D!Idle, TRUE)
      BY <1>7, <2>2 DEF D!VectorSearch
    <3> QED
      BY <2>1, <3>1, DocStart
  <2>3. CASE vectors # {}
    <3>1. PICK j : j = [D!Idle EXCEPT !.at = "query"]
      OBVIOUS
    <3>2. job' = [job EXCEPT ![p] = j]
      BY <1>7, <2>3, <3>1 DEF D!VectorSearch, D!Becomes
    <3>3. DocRest(j) /\ j.at = "query"
      BY <3>1, IdleJob DEF DocRest, DocFields
    <3> QED
      BY <2>1, <3>2, <3>3, DocRests
  <2> QED
    BY <2>2, <2>3
<1>8. CASE D!Query(p)
  <2>1. job[p].at = "query" /\ docs' = docs /\ vectors' = vectors /\ lock' = lock
    BY <1>8 DEF D!Query
  <2>2. PICK j : j = [job[p] EXCEPT !.at = "answered", !.found = vectors]
    OBVIOUS
  <2>3. job' = [job EXCEPT ![p] = j]
    BY <1>8, <2>2 DEF D!Query, D!Becomes
  <2>4. /\ DOMAIN j = DocFields /\ j.at = "answered" /\ j.alone = job[p].alone
           /\ j.search = job[p].search
        /\ j.rows = job[p].rows /\ j.next = job[p].next /\ j.batch = job[p].batch
           /\ j.found = vectors
    BY <1>0, <2>2 DEF DocFields
  <2>5. job[p].batch = {} /\ (job[p].rows # <<>> => job[p].search)
    BY <2>1 DEF DocInd, DocPlaces
  <2>6. CASE job[p].search
    <3>1. D!Indexing(p)
      BY <2>1, <2>6 DEF D!Indexing
    <3>2. job[p].alone => \A i \in DOMAIN job[p].rows : job[p].rows[i] \in vectors
      BY <2>1 DEF DocInd, DocCovers, Covered
    <3> QED
      BY <1>0, <2>1, <2>3, <2>4, <2>5, <3>1, <3>2, DocIndexes
  <2>7. CASE ~job[p].search
    <3>1. DocRest(j)
      BY <1>0, <2>4, <2>5, <2>7 DEF DocRest
    <3> QED
      BY <2>1, <2>3, <2>4, <3>1, DocRests
  <2> QED
    BY <2>6, <2>7
<1> QED
  BY <1>2, <1>3, <1>4, <1>5, <1>6, <1>7, <1>8

LEMMA DocStep ==
    ASSUME DocInd, D!Nobody \notin Workers, BatchSize \in Nat, D!Next
    PROVE  DocInd'
<1>1. CASE \E s \in Sources, c \in Contents \cup {D!NoContent} : D!Edit(s, c)
  <2>1. UNCHANGED <<docs, vectors, lock, job>>
    BY <1>1 DEF D!Edit
  <2>2. DocJobs' /\ DocPlaces' /\ DocCovers' /\ D!OneVersionChain'
    BY <2>1 DEF DocInd, DocJobs, DocPlaces, DocCovers, Covered, D!OneVersionChain
  <2>3. DocAlone'
    BY <2>1 DEF DocInd, DocAlone, D!Indexing
  <2>4. DocInsert'
    BY <2>1 DEF DocInd, DocInsert, DocInserts, D!Stored, D!Latest
  <2> QED
    BY <2>2, <2>3, <2>4 DEF DocInd
<1>2. CASE \E p \in Workers :
             \/ D!IngestPath(p) \/ D!ReadFile(p) \/ D!Begin(p) \/ D!Commit(p)
             \/ D!Reindex(p) \/ D!Purge(p) \/ D!Embed(p) \/ D!InsertVector(p) \/ D!IndexDone(p)
             \/ D!VectorSearch(p) \/ D!Query(p) \/ D!Return(p) \/ D!Crash(p)
  BY <1>2, DocIngest, DocCommit, DocReindex
<1> QED
  BY <1>1, <1>2 DEF D!Next

LEMMA DocStays == DocInd /\ UNCHANGED D!vars => DocInd'
<1> SUFFICES ASSUME DocInd, UNCHANGED D!vars PROVE DocInd'
  OBVIOUS
<1>1. docs' = docs /\ vectors' = vectors /\ lock' = lock /\ job' = job
  BY DEF D!vars
<1>2. DocJobs' /\ DocPlaces' /\ DocCovers'
  BY <1>1 DEF DocInd, DocJobs, DocPlaces, DocCovers, Covered
<1>3. DocInsert'
  BY <1>1 DEF DocInd, DocInsert, DocInserts, D!Stored, D!Latest
<1>4. D!OneVersionChain'
  BY <1>1 DEF DocInd, D!OneVersionChain
<1>5. DocAlone'
  BY <1>1 DEF DocInd, DocAlone, D!Indexing
<1> QED
  BY <1>2, <1>3, <1>4, <1>5 DEF DocInd

LEMMA DocPromise == DocInd => D!OneVersionChain /\ D!ReindexRepairs
<1> SUFFICES ASSUME DocInd PROVE D!ReindexRepairs
  BY DEF DocInd
<1>1. \A p \in Workers : job[p].rows \in Seq(docs)
  BY DEF DocInd, DocJobs
<1> QED
  BY <1>1 DEF DocInd, DocCovers, Covered, D!ReindexRepairs, D!ToSet

-----------------------------------------------------------------------------

(* Derived views.  Rows, and what a run has loaded, are of the graph as it *)
(* stands if they carry its revision, unless a change brought that         *)
(* revision back.                                                          *)
Right(of, revision) == revision = V!Revision(graph) /\ revision \notin again => of = graph
RunFields == {"at", "level", "view", "revision", "todo", "ran"}
ViewInd == /\ V!Revision(graph) \in had
           /\ DOMAIN stored = {"communities", "flows", "risk"} /\ DOMAIN run = Runners
           /\ \A s \in DOMAIN stored : \/ stored[s].of = {}
                                       \/ stored[s].revision \in had /\ Right(stored[s].of, stored[s].revision)
           /\ \A p \in Runners :
                 /\ DOMAIN run[p] = RunFields
                 /\ run[p].at \in {"load", "stage"} => run[p].revision \in had
                 /\ run[p].at = "stage" => Right(run[p].view, run[p].revision)

LEMMA ViewInit == V!Init => ViewInd
BY DEF V!Init, V!NoRows, V!Idle, ViewInd, RunFields

LEMMA ViewStep == ViewInd /\ V!Next => ViewInd'
<1> SUFFICES ASSUME ViewInd, V!Next PROVE ViewInd'
  OBVIOUS
<1>0. /\ V!Revision(graph) \in had
      /\ DOMAIN stored = {"communities", "flows", "risk"} /\ DOMAIN run = Runners
      /\ \A p \in Runners : DOMAIN run[p] = RunFields
  BY DEF ViewInd
<1>1. ASSUME NEW g \in SymbolSets, V!Change(g) PROVE ViewInd'
  <2>1. /\ UNCHANGED <<stored, run>> /\ V!Revision(graph)' = V!Revision(g)
        /\ had' = had \cup {V!Revision(g)} /\ again' = again \cup (had \cap {V!Revision(g)})
    BY <1>1 DEF V!Change, V!Revision
  <2>2. ASSUME NEW of, NEW revision \in had PROVE Right(of, revision)'
    BY <2>1, <2>2 DEF Right
  <2> QED
    BY <1>0, <2>1, <2>2 DEF ViewInd
<1>2. ASSUME NEW p \in Runners, V!ReadRevision(p) PROVE ViewInd'
  <2>1. PICK level : run' = [run EXCEPT ![p] = [V!Idle EXCEPT !.at = "load", !.level = level,
                                             !.revision = V!Revision(graph), !.todo = V!LevelStages[level]]]
    BY <1>2 DEF V!ReadRevision, V!Becomes
  <2>2. UNCHANGED <<graph, stored, had, again>>
    BY <1>2 DEF V!ReadRevision
  <2>3. PICK r : r = [V!Idle EXCEPT !.at = "load", !.level = level,
                                             !.revision = V!Revision(graph), !.todo = V!LevelStages[level]]
    OBVIOUS
  <2>4. r.at = "load" /\ r.revision = V!Revision(graph) /\ DOMAIN r = RunFields
    BY <2>3 DEF V!Idle, RunFields
  <2>5. DOMAIN run' = Runners /\ run'[p] = r /\ \A q \in Runners \ {p} : run'[q] = run[q]
    BY <1>0, <2>1, <2>3
  <2> QED
    BY <1>0, <2>2, <2>4, <2>5 DEF ViewInd, Right, V!Revision
<1>3. ASSUME NEW p \in Runners, V!LoadView(p) PROVE ViewInd'
  <2>1. PICK r : r = [run[p] EXCEPT !.at = "stage", !.view = graph]
    OBVIOUS
  <2>2. run' = [run EXCEPT ![p] = r] /\ run[p].at = "load" /\ UNCHANGED <<graph, stored, had, again>>
    BY <1>3, <2>1 DEF V!LoadView, V!Becomes
  <2>3. r.at = "stage" /\ r.view = graph /\ r.revision = run[p].revision /\ DOMAIN r = RunFields
    BY <1>0, <2>1 DEF RunFields
  <2>4. DOMAIN run' = Runners /\ run'[p] = r /\ \A q \in Runners \ {p} : run'[q] = run[q]
    BY <1>0, <2>2
  <2>5. r.revision \in had /\ Right(r.view, r.revision)
    BY <2>2, <2>3 DEF ViewInd, Right
  <2> QED
    BY <1>0, <2>2, <2>3, <2>4, <2>5 DEF ViewInd, Right, V!Revision
<1>4. ASSUME NEW p \in Runners, V!Stage(p) PROVE ViewInd'
  <2>1. PICK s : s = Head(run[p].todo)
    OBVIOUS
  <2>2. PICK ran : /\ stored' = IF ran /\ s # "index" THEN [stored EXCEPT ![s] = V!Row(run[p])] ELSE stored
                   /\ V!Becomes(p, [run[p] EXCEPT !.todo = Tail(@), !.ran = IF ran THEN @ \cup {s} ELSE @])
    BY <1>4, <2>1 DEF V!Stage
  <2>3. run[p].at = "stage" /\ UNCHANGED <<graph, had, again>>
    BY <1>4 DEF V!Stage
  <2>4. PICK r : r = [run[p] EXCEPT !.todo = Tail(@), !.ran = IF ran THEN @ \cup {s} ELSE @]
    OBVIOUS
  <2>5. r.at = "stage" /\ r.view = run[p].view /\ r.revision = run[p].revision /\ DOMAIN r = RunFields
    BY <1>0, <2>3, <2>4 DEF RunFields
  <2>6. DOMAIN run' = Runners /\ run'[p] = r /\ \A q \in Runners \ {p} : run'[q] = run[q]
    BY <1>0, <2>2, <2>4 DEF V!Becomes
  <2>7. PICK row : row = V!Row(run[p])
    OBVIOUS
  <2>8. row.of = run[p].view /\ row.revision = run[p].revision
    BY <2>7 DEF V!Row
  <2>9. stored' = stored \/ stored' = [stored EXCEPT ![s] = row]
    BY <2>2, <2>7
  <2>10. DOMAIN stored' = DOMAIN stored /\ \A x \in DOMAIN stored : stored'[x] = stored[x] \/ stored'[x] = row
    BY <2>9
  <2>11. r.revision \in had /\ Right(row.of, row.revision)
    BY <2>3, <2>5, <2>8 DEF ViewInd
  <2>12. \A x \in DOMAIN stored' : \/ stored'[x].of = {}
                                   \/ stored'[x].revision \in had /\ Right(stored'[x].of, stored'[x].revision)
    BY <2>5, <2>8, <2>10, <2>11 DEF ViewInd
  <2> QED
    BY <1>0, <2>3, <2>5, <2>6, <2>8, <2>10, <2>11, <2>12 DEF ViewInd, Right, V!Revision
<1>5. ASSUME NEW p \in Runners, V!RecordRun(p) \/ V!Crash(p) PROVE ViewInd'
  <2>1. run' = [run EXCEPT ![p] = V!Idle] /\ UNCHANGED <<graph, stored, had, again>>
    BY <1>5 DEF V!RecordRun, V!Crash, V!Becomes
  <2>2. V!Idle.at = "idle" /\ DOMAIN V!Idle = RunFields
    BY DEF V!Idle, RunFields
  <2>3. DOMAIN run' = Runners /\ run'[p] = V!Idle /\ \A q \in Runners \ {p} : run'[q] = run[q]
    BY <1>0, <2>1
  <2> QED
    BY <1>0, <2>1, <2>2, <2>3 DEF ViewInd, Right, V!Revision
<1> QED
  BY <1>1, <1>2, <1>3, <1>4, <1>5 DEF V!Next

LEMMA ViewStays == ViewInd /\ UNCHANGED V!vars => ViewInd'
BY DEF V!vars, ViewInd, Right, V!Revision

LEMMA ViewPromise == ViewInd => V!ServedRight
BY DEF ViewInd, Right, V!ServedRight, V!Serve, V!Currency

-----------------------------------------------------------------------------

(* Backup and restore.  An archive's manifest names files that a backup    *)
(* found; a restore under way has an archive that passed its check, and    *)
(* what it has copied so far is what the manifest says.                    *)
Placed(m, S) == \A f \in S : target[f] = m[f]
BackupInd ==
    /\ "graph.sqlite" \in present /\ present \subseteq B!Names
    /\ DOMAIN backup = {"at", "files", "todo", "content", "manifest"} /\ DOMAIN backup.manifest \subseteq B!Names
    /\ backup.at \in {"hash", "archive"} => /\ backup.files \subseteq B!Names /\ backup.files # {}
                                            /\ backup.todo \subseteq backup.files /\ backup.todo # {}
    /\ backup.at = "archive" => DOMAIN backup.manifest # {}
    /\ \A a \in archives : DOMAIN a.manifest \subseteq B!Names /\ DOMAIN a.manifest # {}
    /\ DOMAIN restore = {"at", "from", "todo"} /\ B!Names \subseteq DOMAIN target
    /\ restore.at \in {"copy", "restored"} => B!Verified(restore.from) /\ DOMAIN restore.from.manifest \subseteq B!Names
    /\ restore.at = "copy" => /\ restore.todo \subseteq DOMAIN restore.from.manifest /\ restore.todo # {}
                              /\ Placed(restore.from.manifest, DOMAIN restore.from.manifest \ restore.todo)
    /\ restore.at = "restored" => Placed(restore.from.manifest, DOMAIN restore.from.manifest)

LEMMA BackupInit == B!Init => BackupInd
<1> SUFFICES ASSUME B!Init PROVE BackupInd
  OBVIOUS
<1>1. "graph.sqlite" \in present /\ present \subseteq B!Names
  BY DEF B!Init, B!Names
<1>2. DOMAIN B!Empty = {}
  BY DEF B!Empty
<1> QED
  BY <1>1, <1>2 DEF B!Init, BackupInd, B!NoBackup, B!NoRestore

(* The first in the order of a set of the names is one of the set.         *)
LEMMA FirstIn ==
    ASSUME NEW S, S \subseteq B!Names, S # {}
    PROVE  B!First(B!Included, S) \in S /\ B!First(B!Sorted, S) \in S
<1> DEFINE Is(order, i) == order[i] \in S /\ \A k \in 1..(i - 1) : order[k] \notin S
<1>1. B!First(B!Included, S) \in S
  <2>1. DOMAIN B!Included = 1..4 /\ B!Included[1] = "graph.sqlite" /\ B!Included[2] = "audit.log"
        /\ B!Included[3] = "evidence.ledger" /\ B!Included[4] = "config.json"
    BY DEF B!Included
  <2>2. \E i \in 1..4 : Is(B!Included, i)
    <3>1. CASE "graph.sqlite" \in S
      BY <2>1, <3>1
    <3>2. CASE "graph.sqlite" \notin S /\ "audit.log" \in S
      <4>1. \A k \in 1..(2 - 1) : k = 1
        OBVIOUS
      <4> QED
        BY <2>1, <3>2, <4>1
    <3>3. CASE "graph.sqlite" \notin S /\ "audit.log" \notin S /\ "evidence.ledger" \in S
      <4>1. \A k \in 1..(3 - 1) : k = 1 \/ k = 2
        OBVIOUS
      <4> QED
        BY <2>1, <3>3, <4>1
    <3>4. CASE "graph.sqlite" \notin S /\ "audit.log" \notin S /\ "evidence.ledger" \notin S
      <4>1. \A k \in 1..(4 - 1) : k = 1 \/ k = 2 \/ k = 3
        OBVIOUS
      <4>2. "config.json" \in S
        BY <3>4 DEF B!Names
      <4> QED
        BY <2>1, <3>4, <4>1, <4>2
    <3> QED
      BY <3>1, <3>2, <3>3, <3>4
  <2> QED
    BY <2>1, <2>2 DEF B!First
<1>2. B!First(B!Sorted, S) \in S
  <2>1. DOMAIN B!Sorted = 1..4 /\ B!Sorted[1] = "audit.log" /\ B!Sorted[2] = "config.json"
        /\ B!Sorted[3] = "evidence.ledger" /\ B!Sorted[4] = "graph.sqlite"
    BY DEF B!Sorted
  <2>2. \E i \in 1..4 : Is(B!Sorted, i)
    <3>1. CASE "audit.log" \in S
      BY <2>1, <3>1
    <3>2. CASE "audit.log" \notin S /\ "config.json" \in S
      <4>1. \A k \in 1..(2 - 1) : k = 1
        OBVIOUS
      <4> QED
        BY <2>1, <3>2, <4>1
    <3>3. CASE "audit.log" \notin S /\ "config.json" \notin S /\ "evidence.ledger" \in S
      <4>1. \A k \in 1..(3 - 1) : k = 1 \/ k = 2
        OBVIOUS
      <4> QED
        BY <2>1, <3>3, <4>1
    <3>4. CASE "audit.log" \notin S /\ "config.json" \notin S /\ "evidence.ledger" \notin S
      <4>1. \A k \in 1..(4 - 1) : k = 1 \/ k = 2 \/ k = 3
        OBVIOUS
      <4>2. "graph.sqlite" \in S
        BY <3>4 DEF B!Names
      <4> QED
        BY <2>1, <3>4, <4>1, <4>2
    <3> QED
      BY <3>1, <3>2, <3>3, <3>4
  <2> QED
    BY <2>1, <2>2 DEF B!First
<1> QED
  BY <1>1, <1>2

(* A step keeps the invariant; while a file is copied the archive is one   *)
(* that passed its check.                                                  *)
LEMMA BackupStep == BackupInd /\ B!Next => BackupInd' /\ B!RestoreStep
<1> SUFFICES ASSUME BackupInd, B!Next PROVE BackupInd' /\ B!RestoreStep
  OBVIOUS
<1>0. BackupInd' /\ UNCHANGED target => BackupInd' /\ B!RestoreStep
  BY DEF BackupInd, B!RestoreStep, Placed
<1>1. CASE B!RecordRow \/ B!RecordLine
  <2>1. "audit.log" \in B!Names /\ present \subseteq present' /\ present' \subseteq present \cup {"audit.log"}
    BY <1>1 DEF B!Names, B!RecordRow, B!RecordLine
  <2>2. UNCHANGED <<backup, archives, restore, target>>
    BY <1>1 DEF B!RecordRow, B!RecordLine
  <2> QED
    BY <1>0, <2>1, <2>2 DEF BackupInd, Placed
<1>2. CASE B!SnapshotDatabase \/ B!AbortBackup
  <2>1. UNCHANGED <<present, archives, restore, target>>
    BY <1>2 DEF B!SnapshotDatabase, B!AbortBackup
  <2>2. DOMAIN B!Empty = {}
    BY DEF B!Empty
  <2>3. CASE B!SnapshotDatabase
    <3>1. /\ DOMAIN backup' = {"at", "files", "todo", "content", "manifest"}
          /\ backup'.at = "hash" /\ backup'.files = present /\ backup'.todo = present /\ backup'.manifest = B!Empty
      BY <2>3 DEF B!SnapshotDatabase, B!NoBackup
    <3> QED
      BY <1>0, <2>1, <2>2, <3>1 DEF BackupInd, Placed
  <2>4. CASE B!AbortBackup
    <3>1. /\ DOMAIN backup' = {"at", "files", "todo", "content", "manifest"}
          /\ backup'.at = "idle" /\ backup'.manifest = B!Empty
      BY <2>4 DEF B!AbortBackup, B!NoBackup
    <3> QED
      BY <1>0, <2>1, <2>2, <3>1 DEF BackupInd, Placed
  <2> QED
    BY <1>2, <2>3, <2>4
<1>3. CASE B!HashFile
  <2> DEFINE f == B!First(B!Included, backup.todo)
             rest == backup.todo \ {f}
             more == B!With(backup.manifest, f, B!Reading(f))
  <2>1. f \in backup.todo /\ f \in B!Names
    BY <1>3, FirstIn DEF BackupInd, B!HashFile
  <2>2. DOMAIN more = DOMAIN backup.manifest \cup {f}
    BY DEF B!With
  <2>3. UNCHANGED <<present, archives, restore, target>>
    BY <1>3 DEF B!HashFile
  <2>4. /\ DOMAIN backup' = DOMAIN backup
        /\ backup'.at = IF rest = {} THEN "archive" ELSE "hash"
        /\ backup'.todo = IF rest = {} THEN backup.files ELSE rest
        /\ backup'.files = backup.files /\ backup'.manifest = more
    BY <1>3 DEF B!HashFile, BackupInd
  <2> HIDE DEF f, more
  <2>5. backup.at = "hash"
    BY <1>3 DEF B!HashFile
  <2>6. BackupInd'
    BY <2>1, <2>2, <2>3, <2>4, <2>5 DEF BackupInd, Placed
  <2> QED
    BY <1>0, <2>3, <2>6
<1>4. CASE B!ArchiveFile
  <2> DEFINE f == B!First(B!Included, backup.todo)
             content == B!With(backup.content, f, B!Reading(f))
             a == [content |-> content, manifest |-> backup.manifest]
  <2>1. backup.at = "archive" /\ UNCHANGED <<present, restore, target>>
    BY <1>4 DEF B!ArchiveFile
  <2>2. CASE backup.todo = {f}
    <3>1. archives' = archives \cup {a} /\ backup' = B!NoBackup
      BY <1>4, <2>2 DEF B!ArchiveFile
    <3>2. a.manifest = backup.manifest
      OBVIOUS
    <3>3. DOMAIN B!NoBackup = {"at", "files", "todo", "content", "manifest"} /\ B!NoBackup.at = "idle"
          /\ DOMAIN B!NoBackup.manifest = {}
      BY DEF B!NoBackup, B!Empty
    <3> HIDE DEF a
    <3>4. BackupInd'
      BY <2>1, <3>1, <3>2, <3>3 DEF BackupInd, Placed
    <3> QED
      BY <1>0, <2>1, <3>4
  <2>3. CASE backup.todo # {f}
    <3>1. UNCHANGED archives /\ backup' = [backup EXCEPT !.content = content, !.todo = @ \ {f}]
      BY <1>4, <2>3 DEF B!ArchiveFile
    <3>2. /\ DOMAIN backup' = DOMAIN backup /\ backup'.at = backup.at /\ backup'.todo = backup.todo \ {f}
          /\ backup'.files = backup.files /\ backup'.manifest = backup.manifest
      BY <3>1 DEF BackupInd
    <3> HIDE DEF f
    <3>3. BackupInd'
      BY <2>1, <2>3, <3>1, <3>2 DEF BackupInd, Placed
    <3> QED
      BY <1>0, <2>1, <3>3
  <2> QED
    BY <2>2, <2>3
<1>5. CASE B!BeginRestore
  <2>1. PICK a \in archives : restore' = IF B!Verified(a)
                  THEN [at |-> "copy", from |-> a, todo |-> DOMAIN a.manifest]
                  ELSE [B!NoRestore EXCEPT !.at = "refused", !.from = a]
    BY <1>5 DEF B!BeginRestore
  <2>2. UNCHANGED <<present, backup, archives, target>>
    BY <1>5 DEF B!BeginRestore
  <2>3. DOMAIN restore' = {"at", "from", "todo"} /\ restore'.from = a
        /\ \/ restore'.at = "copy" /\ B!Verified(a) /\ restore'.todo = DOMAIN a.manifest
           \/ restore'.at = "refused"
    BY <2>1 DEF B!NoRestore
  <2>4. BackupInd'
    BY <2>2, <2>3 DEF BackupInd, Placed, B!Verified
  <2> QED
    BY <1>0, <2>2, <2>4
<1>6. CASE B!CopyFile
  <2> DEFINE f == B!First(B!Sorted, restore.todo)
             m == restore.from.manifest
  <2>1. restore.at = "copy" /\ UNCHANGED <<present, backup, archives>>
    BY <1>6 DEF B!CopyFile
  <2>2. f \in restore.todo
    BY <2>1, FirstIn DEF BackupInd
  <2>3. target' = B!With(target, f, restore.from.content[f])
    BY <1>6 DEF B!CopyFile
  <2>4. /\ DOMAIN restore' = DOMAIN restore /\ restore'.from = restore.from
        /\ restore'.todo = restore.todo \ {f}
        /\ restore'.at = IF restore.todo = {f} THEN "restored" ELSE "copy"
    BY <1>6, <2>1 DEF B!CopyFile, BackupInd
  <2> HIDE DEF f
  <2>5. restore.from.content[f] = m[f] /\ f \in B!Names
    BY <2>1, <2>2 DEF BackupInd, B!Verified
  <2>6. B!Names \subseteq DOMAIN target' /\ target'[f] = m[f] /\ \A g \in B!Names \ {f} : target'[g] = target[g]
    BY <2>3, <2>5 DEF B!With, BackupInd
  <2>7. \A g \in DOMAIN m \ (restore.todo \ {f}) : target'[g] = m[g]
    <3>1. TAKE g \in DOMAIN m \ (restore.todo \ {f})
    <3>2. g \in B!Names /\ (g # f => g \in DOMAIN m \ restore.todo)
      BY <2>1 DEF BackupInd
    <3> QED
      BY <2>1, <2>6, <3>2 DEF BackupInd, Placed
  <2>8. BackupInd'
    BY <2>1, <2>2, <2>4, <2>6, <2>7 DEF BackupInd, Placed, B!Verified
  <2> QED
    BY <2>1, <2>4, <2>8 DEF BackupInd, B!RestoreStep, Placed, B!Verified
<1>7. CASE B!EndRestore
  <2>1. UNCHANGED <<present, backup, archives, target>> /\ restore' = B!NoRestore
    BY <1>7 DEF B!EndRestore
  <2>2. DOMAIN B!NoRestore = {"at", "from", "todo"} /\ B!NoRestore.at = "idle"
    BY DEF B!NoRestore
  <2> QED
    BY <1>0, <2>1, <2>2 DEF BackupInd, Placed
<1> QED
  BY <1>1, <1>2, <1>3, <1>4, <1>5, <1>6, <1>7 DEF B!Next

LEMMA BackupStays == BackupInd /\ UNCHANGED B!vars => BackupInd' /\ B!RestoreStep
BY DEF B!vars, BackupInd, B!RestoreStep, Placed, B!Verified
=============================================================================
