--------------------------- MODULE Serving_proofs ---------------------------
(***************************************************************************)
(* The parts that answer and keep what they hold: the agents (Agents), the *)
(* sessions (Session), the query server (Server), the viewer (Viewer), the *)
(* language server (CodeServer), the wiki (Wiki) and the tenants           *)
(* (Tenants).  For each its inductive invariant, that it holds in the      *)
(* first states, that every step and every step of another part keeps it,  *)
(* and what it promises.  The parts are instantiated as in Installation,   *)
(* whose theorems cite these lemmas.                                       *)
(***************************************************************************)
EXTENDS Integers, Sequences, FiniteSets, TLAPS, WellFoundedInduction, FiniteSetTheorems

CONSTANTS Threads, Duplicates, Mentions, MaxTasks, MaxDeaths,
          Keys, TokenBudgets, MaxTurns, MaxTextEdits,
          Connections, PerMinute, Tokens, MaxCalls, MaxLines, MaxClock,
          MaxRequests, RequestTimeout, Polls, Slack, MaxConnects, MaxStarts,
          Sites, MaxAsks,
          MaxWikiRuns, MaxWikiChanges, MaxWikiDeaths, MaxWikiEdits,
          Admins, Subjects, MaxRoles, MaxPrincipals, MaxDeletes, MaxBinds
VARIABLES entities, refers, dropped, rows, journal, worker, policy, around,
          text, seen, held, turn, lost, turns,
          settings, issued, conn, reply, bucket, clock, admitted, overlap, pipe, calls,
          document, httpd, loop, flag, owner, sent, met,
          server, reader, open, responses, nextId, caller, pipeFull, resolved, asks,
          clusters, pages, manifest, build, marks, strays, wear,
          tenants, roles, principals, bindings, admin, meant, usage

A == INSTANCE Agents
C == INSTANCE Session
E == INSTANCE Server
U == INSTANCE Viewer
L == INSTANCE CodeServer
K == INSTANCE Wiki
T == INSTANCE Tenants

(* There is something to merge, and 0 is no entity.                        *)
Mergeable == Duplicates \subseteq Nat \ {0} /\ Duplicates # {}

(* A set of numbers that is not empty has its least element.               *)
LEMMA Least ==
    ASSUME NEW X, X \subseteq Nat, X # {}
    PROVE  \E x \in X : \A y \in X : x <= y
<1> DEFINE Less == {ss \in Nat \X Nat : ss[1] < ss[2]}
<1>1. Less = OpToRel(<, Nat)
  BY DEF OpToRel
<1> HIDE DEF Less
<1>2. PICK x \in X : \A y \in X : ~(<<y, x>> \in Less)
  BY <1>1, WFMin, NatLessThanWellFounded
<1>3. ASSUME NEW y \in X PROVE x <= y
  <2>1. x \in Nat /\ y \in Nat /\ ~(<<y, x>> \in Less)
    BY <1>2
  <2>2. <<y, x>> \in Nat \X Nat /\ <<y, x>>[1] = y /\ <<y, x>>[2] = x
    BY <2>1
  <2>3. ~(y < x)
    BY <2>1, <2>2 DEF Less
  <2> QED
    BY <2>1, <2>3
<1> QED
  BY <1>3

(* A finite set of numbers that is not empty has its largest element: the  *)
(* one with the fewest above it.                                           *)
LEMMA Largest ==
    ASSUME NEW X, X \subseteq Nat, X # {}, IsFiniteSet(X)
    PROVE  \E x \in X : \A y \in X : y <= x
<1> DEFINE Above(x) == {z \in X : z > x}
<1> DEFINE Numbers == {Cardinality(Above(x)) : x \in X}
<1>1. \A x \in X : IsFiniteSet(Above(x)) /\ Cardinality(Above(x)) \in Nat
  BY FS_Subset, FS_CardinalityType
<1>2. Numbers \subseteq Nat /\ Numbers # {}
  BY <1>1
<1>3. PICK n \in Numbers : \A m \in Numbers : n <= m
  BY <1>2, Least
<1>4. PICK x \in X : n = Cardinality(Above(x))
  BY <1>3
<1>5. ASSUME NEW y \in X, ~(y <= x) PROVE FALSE
  <2>1. x \in Nat /\ y \in Nat /\ y > x
    BY <1>5
  <2>2. \A z \in X : z > y => z > x
    BY <2>1
  <2>3. Above(y) \subseteq Above(x)
    BY <2>2
  <2>6. y \in Above(x)
    BY <2>1
  <2>7. y \notin Above(y)
    BY <2>1
  <2>4. Cardinality(Above(y)) <= Cardinality(Above(x)) /\ Cardinality(Above(y)) # Cardinality(Above(x))
    BY <1>1, <2>3, <2>6, <2>7, FS_Subset
  <2>5. n <= Cardinality(Above(y))
    BY <1>3
  <2> QED
    BY <1>1, <1>4, <2>4, <2>5
<1> QED
  BY <1>5

(* Min0 is that element.                                                   *)
LEMMA Smallest ==
    ASSUME NEW X, X \subseteq Nat, X # {}
    PROVE  A!Min0(X) \in X /\ \A y \in X : A!Min0(X) <= y
BY Least DEF A!Min0

-----------------------------------------------------------------------------

(* The agents.  Whoever merges keeps the least of the duplicates, which is  *)
(* never deleted, so a mention always has its entity; and as long as no    *)
(* two agents that write meet, a duplicate that is about to be deleted has *)
(* no mention left.                                                        *)
First == A!Min0(Duplicates)
Merging(t) == worker[t].at \in {"merge", "delete"}
Busy(t) == worker[t].at \in {"merge", "delete", "insert"}
AgentPlaces == {"rest", "run", "insert", "merge", "delete", "answer"}
Said == {"nothing", "refused", "ok", "error", "timeout"}
Agent == [at : AgentPlaces, run : Nat, kind : A!Kinds \cup {"none"}, budget : Nat, used : Nat,
          keep : Nat, todo : SUBSET Duplicates, ok : BOOLEAN, said : Said]
AgentType ==
    /\ entities \subseteq Duplicates /\ First \in entities
    /\ refers \in [Mentions -> Nat]
    /\ worker \in [Threads -> Agent]
    /\ around.met \in BOOLEAN
    /\ around = [tasks |-> around.tasks, deaths |-> around.deaths, met |-> around.met]
AgentRefers == \A m \in Mentions : refers[m] # 0 => refers[m] \in entities
AgentMerges == \A t \in Threads : Merging(t) =>
    worker[t].keep = First /\ worker[t].todo # {} /\ First \notin worker[t].todo
AgentAlone == ~around.met =>
    /\ dropped = {}
    /\ \A s, t \in Threads : Busy(s) /\ Busy(t) => s = t
    /\ \A t \in Threads, m \in Mentions : worker[t].at = "delete" => refers[m] # A!Min0(worker[t].todo)
AgentInd == AgentType /\ AgentRefers /\ AgentMerges /\ AgentAlone

(* A field of a thread's record is updated within its type.                *)
LEMMA AgentUpdates ==
    ASSUME NEW f \in [Threads -> Agent], NEW t \in Threads
    PROVE  /\ \A x \in Agent : [f EXCEPT ![t] = x] \in [Threads -> Agent]
           /\ \A x \in AgentPlaces : [f EXCEPT ![t].at = x] \in [Threads -> Agent]
           /\ \A x \in Nat : [f EXCEPT ![t].used = x] \in [Threads -> Agent]
           /\ \A x \in Nat : [f EXCEPT ![t].keep = x] \in [Threads -> Agent]
           /\ \A x \in BOOLEAN : [f EXCEPT ![t].ok = x] \in [Threads -> Agent]
           /\ \A x \in SUBSET Duplicates : [f EXCEPT ![t].todo = x] \in [Threads -> Agent]
BY DEF Agent

(* A thread at rest has a record of the type.                              *)
LEMMA RestingType == A!Resting \in Agent /\ A!Resting.at = "rest"
BY DEF A!Resting, Agent, AgentPlaces, Said

(* A step that changes a thread which does not write, and no entity.       *)
LEMMA Elsewhere ==
    ASSUME NEW t \in Threads, AgentType, AgentRefers, AgentMerges, AgentAlone,
           worker' \in [Threads -> Agent], \A s \in Threads \ {t} : worker'[s] = worker[s],
           ~Busy(t)', UNCHANGED <<entities, refers, dropped>>,
           around' = [tasks |-> around'.tasks, deaths |-> around'.deaths, met |-> around'.met],
           around'.met \in BOOLEAN, around.met => around'.met
    PROVE  AgentInd'
<1>1. \A s \in Threads : Busy(s)' => s # t /\ Busy(s) /\ worker'[s] = worker[s]
  BY DEF Busy
<1>2. AgentType' /\ AgentRefers'
  BY DEF AgentType, AgentRefers
<1>3. AgentMerges'
  BY <1>1 DEF AgentMerges, Busy, Merging
<1>4. AgentAlone'
  BY <1>1 DEF AgentAlone, Busy
<1> QED
  BY <1>2, <1>3, <1>4 DEF AgentInd

(* A task: a thread that rests does not write before it has read.          *)
LEMMA AgentTask ==
    ASSUME NEW t \in Threads, AgentInd, A!Task(t)
    PROVE  AgentInd'
<1>0. AgentType /\ AgentRefers /\ AgentMerges /\ AgentAlone
  BY DEF AgentInd
<1>1. PICK kind \in A!Kinds, asking \in BOOLEAN, budget \in A!Budgets :
        IF (asking /\ A!Evaluate(kind) # "allow") \/ ~A!Handled(kind)
        THEN worker' = [worker EXCEPT ![t] = [A!Resting EXCEPT !.said = "refused"]]
        ELSE worker' = [worker EXCEPT ![t] = [A!Resting EXCEPT !.at = "run", !.run = Len(rows) + 1,
                                                   !.kind = kind, !.budget = budget]]
  BY DEF A!Task
<1>2. PICK w \in Agent : worker' = [worker EXCEPT ![t] = w] /\ w.at \in {"rest", "run"}
  <2> DEFINE w1 == [A!Resting EXCEPT !.said = "refused"]
             w2 == [A!Resting EXCEPT !.at = "run", !.run = Len(rows) + 1, !.kind = kind, !.budget = budget]
  <2>1. w1 \in Agent /\ w1.at = "rest"
    BY RestingType DEF Said, Agent
  <2>2. w2 \in Agent /\ w2.at = "run"
    <3> DEFINE r1 == [A!Resting EXCEPT !.at = "run"]
               r2 == [r1 EXCEPT !.run = Len(rows) + 1]
               r3 == [r2 EXCEPT !.kind = kind]
    <3>1. r1 \in Agent /\ r1.at = "run"
      BY RestingType DEF AgentPlaces, Agent
    <3>2. r2 \in Agent /\ r2.at = "run"
      <4> HIDE DEF r1
      <4> QED
        BY <3>1 DEF Agent
    <3>3. r3 \in Agent /\ r3.at = "run"
      <4> HIDE DEF r2
      <4> QED
        BY <3>2, <1>1 DEF Agent
    <3>4. w2 = [r3 EXCEPT !.budget = budget]
      OBVIOUS
    <3> HIDE DEF r3, w2
    <3> QED
      BY <3>3, <3>4 DEF Agent, A!Budgets
  <2> QED
    BY <1>1, <2>1, <2>2
<1>3. worker' \in [Threads -> Agent] /\ worker'[t] = w /\ \A s \in Threads \ {t} : worker'[s] = worker[s]
  BY <1>0, <1>2 DEF AgentType
<1>4. around' = [tasks |-> around'.tasks, deaths |-> around'.deaths, met |-> around.met] /\ around'.met = around.met
  BY <1>0 DEF A!Task, AgentType
<1>5. ~Busy(t)'
  BY <1>2, <1>3 DEF Busy
<1> QED
  BY <1>0, <1>3, <1>4, <1>5, Elsewhere DEF A!Task, AgentType

(* The outcome: the thread writes no more.                                 *)
LEMMA AgentAnswer ==
    ASSUME NEW t \in Threads, AgentInd, A!Answer(t)
    PROVE  AgentInd'
<1>0. AgentType /\ AgentRefers /\ AgentMerges /\ AgentAlone
  BY DEF AgentInd
<1> DEFINE w == worker[t]
<1>1. PICK status \in Said :
        worker' = [worker EXCEPT ![t] = [A!Resting EXCEPT !.run = w.run, !.kind = w.kind,
                              !.budget = w.budget, !.used = w.used, !.said = status]]
  BY DEF A!Answer, Said
<1>2. w \in Agent
  BY <1>0 DEF AgentType
<1> DEFINE r1 == [A!Resting EXCEPT !.run = w.run]
           r2 == [r1 EXCEPT !.kind = w.kind]
           r3 == [r2 EXCEPT !.budget = w.budget]
           r4 == [r3 EXCEPT !.used = w.used]
           r5 == [r4 EXCEPT !.said = status]
<1>3. worker' = [worker EXCEPT ![t] = r5]
  BY <1>1
<1> HIDE DEF w
<1>4. r1 \in Agent /\ r1.at = "rest"
  BY <1>2, RestingType DEF Agent
<1> HIDE DEF r1
<1>5. r2 \in Agent /\ r2.at = "rest"
  BY <1>2, <1>4 DEF Agent
<1> HIDE DEF r2
<1>6. r3 \in Agent /\ r3.at = "rest"
  BY <1>2, <1>5 DEF Agent
<1> HIDE DEF r3
<1>7. r4 \in Agent /\ r4.at = "rest"
  BY <1>2, <1>6 DEF Agent
<1> HIDE DEF r4
<1>8. r5 \in Agent /\ r5.at = "rest"
  BY <1>2, <1>7 DEF Agent
<1> HIDE DEF r5
<1>9. worker' \in [Threads -> Agent] /\ worker'[t] = r5 /\ \A s \in Threads \ {t} : worker'[s] = worker[s]
  BY <1>0, <1>3, <1>8 DEF AgentType
<1>10. ~Busy(t)'
  BY <1>8, <1>9 DEF Busy
<1> QED
  BY <1>0, <1>9, <1>10, Elsewhere DEF A!Answer, AgentType

(* The least of the duplicates is the least of those that are left.        *)
LEMMA LeastStays ==
    ASSUME Mergeable, entities \subseteq Duplicates, First \in entities
    PROVE  A!Min0(entities) = First
<1>1. entities \subseteq Nat /\ entities # {} /\ Duplicates \subseteq Nat /\ Duplicates # {}
  BY DEF Mergeable
<1>2. A!Min0(entities) \in entities /\ A!Min0(entities) <= First
  BY <1>1, Smallest
<1>3. First <= A!Min0(entities)
  BY <1>1, <1>2, Smallest DEF First
<1>4. First \in Nat /\ A!Min0(entities) \in Nat
  BY <1>1, <1>2
<1> QED
  BY <1>2, <1>3, <1>4

(* What the agent reads: the entity of a name, or the duplicates and their least.*)
LEMMA AgentRead ==
    ASSUME NEW t \in Threads, Mergeable, AgentInd, A!Read(t)
    PROVE  AgentInd'
<1>0. AgentType /\ AgentRefers /\ AgentMerges /\ AgentAlone
  BY DEF AgentInd
<1> DEFINE meeting == around.met \/ (worker[t].kind # "research" /\ A!Writers # {})
<1>1. around' = [tasks |-> around.tasks, deaths |-> around.deaths, met |-> meeting]
  BY <1>0 DEF A!Read, AgentType
<1>2. meeting \in BOOLEAN /\ (around.met => meeting)
  BY <1>0 DEF AgentType
<1>3. meeting \/ worker[t].kind = "research" \/ \A s \in Threads : ~Busy(s)
  BY DEF A!Writers, Busy
<1>4. worker[t].at = "run" /\ ~Busy(t)
  BY DEF A!Read, Busy
<1> HIDE DEF meeting
<1>5. around' = [tasks |-> around'.tasks, deaths |-> around'.deaths, met |-> around'.met] /\ around'.met = meeting
  BY <1>1
<1>6. UNCHANGED <<entities, refers, dropped>>
  BY DEF A!Read
<1>7. CASE \E charge \in {0, 2}, ok \in BOOLEAN :
              worker' = [worker EXCEPT ![t].at = "answer", ![t].used = charge, ![t].ok = ok]
  <2>1. PICK charge \in {0, 2}, ok \in BOOLEAN :
              worker' = [worker EXCEPT ![t].at = "answer", ![t].used = charge, ![t].ok = ok]
    BY <1>7
  <2> DEFINE f1 == [worker EXCEPT ![t].at = "answer"]
             f2 == [f1 EXCEPT ![t].used = charge]
             f3 == [f2 EXCEPT ![t].ok = ok]
  <2>2. worker' = f3
    BY <2>1
  <2>3. f1 \in [Threads -> Agent] /\ f1[t].at = "answer" /\ \A s \in Threads \ {t} : f1[s] = worker[s]
    BY <1>0 DEF AgentType, Agent, AgentPlaces
  <2> HIDE DEF f1
  <2>4. f2 \in [Threads -> Agent] /\ f2[t].at = "answer" /\ \A s \in Threads \ {t} : f2[s] = worker[s]
    BY <2>3 DEF Agent
  <2> HIDE DEF f2
  <2>5. f3 \in [Threads -> Agent]
    BY <2>4, AgentUpdates
  <2>6. f3[t].at = "answer" /\ \A s \in Threads \ {t} : f3[s] = worker[s]
    BY <2>4 DEF Agent
  <2> HIDE DEF f3
  <2>7. ~Busy(t)'
    BY <2>2, <2>6 DEF Busy
  <2> QED
    BY <1>0, <1>2, <1>5, <1>6, <2>2, <2>5, <2>6, <2>7, Elsewhere
<1>8. CASE /\ worker[t].kind = "ingest"
           /\ \E e \in entities :
                worker' = [worker EXCEPT ![t].at = "insert", ![t].keep = e, ![t].used = 1]
  <2>1. PICK e \in entities : worker' = [worker EXCEPT ![t].at = "insert", ![t].keep = e, ![t].used = 1]
    BY <1>8
  <2>2. e \in Nat
    BY <1>0 DEF Mergeable, AgentType
  <2> DEFINE f1 == [worker EXCEPT ![t].at = "insert"]
             f2 == [f1 EXCEPT ![t].keep = e]
             f3 == [f2 EXCEPT ![t].used = 1]
  <2>3. worker' = f3
    BY <2>1
  <2>4. f1 \in [Threads -> Agent] /\ f1[t].at = "insert" /\ \A s \in Threads \ {t} : f1[s] = worker[s]
    BY <1>0 DEF AgentType, Agent, AgentPlaces
  <2> HIDE DEF f1
  <2>5. f2 \in [Threads -> Agent] /\ f2[t].at = "insert" /\ \A s \in Threads \ {t} : f2[s] = worker[s]
    BY <2>2, <2>4 DEF Agent
  <2> HIDE DEF f2
  <2>6. f3 \in [Threads -> Agent] /\ f3[t].at = "insert" /\ \A s \in Threads \ {t} : f3[s] = worker[s]
    BY <2>5 DEF Agent
  <2> HIDE DEF f3
  <2>7. AgentType' /\ AgentRefers'
    BY <1>0, <1>2, <1>5, <1>6, <2>3, <2>6 DEF AgentType, AgentRefers
  <2>8. AgentMerges'
    BY <1>0, <2>3, <2>6 DEF AgentMerges, Merging
  <2>9. AgentAlone'
    BY <1>0, <1>2, <1>3, <1>5, <1>6, <1>8, <2>3, <2>6 DEF AgentAlone, Busy
  <2> QED
    BY <2>7, <2>8, <2>9 DEF AgentInd
<1>9. CASE /\ worker[t].kind = "curate"
           /\ worker' = [worker EXCEPT ![t].at = IF A!Cardinality(entities) < 2 THEN "answer" ELSE "merge",
                                      ![t].keep = A!Min0(entities),
                                      ![t].todo = entities \ {A!Min0(entities)}]
  <2> DEFINE place == IF A!Cardinality(entities) < 2 THEN "answer" ELSE "merge"
             f1 == [worker EXCEPT ![t].at = place]
             f2 == [f1 EXCEPT ![t].keep = A!Min0(entities)]
             f3 == [f2 EXCEPT ![t].todo = entities \ {A!Min0(entities)}]
  <2>1. worker' = f3
    BY <1>9
  <2>2. A!Min0(entities) = First
    BY <1>0, LeastStays DEF AgentType
  <2>3. First \in Nat /\ entities \ {First} \in SUBSET Duplicates /\ First \in entities
    BY <1>0 DEF Mergeable, AgentType
  <2>4. place \in AgentPlaces
    BY DEF AgentPlaces
  <2>5. place = "merge" => entities \ {First} # {}
    <3>1. entities \ {First} = {} => entities = {First}
      BY <2>3
    <3>2. A!Cardinality({First}) = 1
      BY FS_Singleton DEF A!Cardinality, Cardinality
    <3> QED
      BY <3>1, <3>2
  <2>6. place \in {"answer", "merge"}
    OBVIOUS
  <2> HIDE DEF place
  <2>7. f1 \in [Threads -> Agent] /\ f1[t].at = place /\ \A s \in Threads \ {t} : f1[s] = worker[s]
    BY <1>0, <2>4 DEF AgentType, Agent
  <2> HIDE DEF f1
  <2>8. f2 \in [Threads -> Agent] /\ f2[t].at = place /\ f2[t].keep = First /\ \A s \in Threads \ {t} : f2[s] = worker[s]
    BY <2>2, <2>3, <2>7 DEF Agent
  <2> HIDE DEF f2
  <2>9. /\ f3 \in [Threads -> Agent] /\ f3[t].at = place /\ f3[t].keep = First /\ f3[t].todo = entities \ {First}
        /\ \A s \in Threads \ {t} : f3[s] = worker[s]
    BY <2>2, <2>3, <2>8 DEF Agent
  <2> HIDE DEF f3
  <2>10. AgentType' /\ AgentRefers'
    BY <1>0, <1>2, <1>5, <1>6, <2>1, <2>9 DEF AgentType, AgentRefers
  <2>11. AgentMerges'
    BY <1>0, <2>1, <2>5, <2>6, <2>9 DEF AgentMerges, Merging
  <2>12. AgentAlone'
    BY <1>0, <1>2, <1>3, <1>5, <1>6, <1>9, <2>1, <2>6, <2>9 DEF AgentAlone, Busy
  <2> QED
    BY <2>10, <2>11, <2>12 DEF AgentInd
<1> QED
  BY <1>7, <1>8, <1>9 DEF A!Read

(* A new mention: of an entity that is there.                              *)
LEMMA AgentInsert ==
    ASSUME NEW t \in Threads, Mergeable, AgentInd, A!Insert(t)
    PROVE  AgentInd'
<1>0. AgentType /\ AgentRefers /\ AgentMerges /\ AgentAlone
  BY DEF AgentInd
<1>1. worker[t].at = "insert" /\ Busy(t) /\ UNCHANGED <<entities, dropped, around>>
  BY DEF A!Insert, Busy
<1>2. CASE /\ worker[t].keep \in entities
           /\ \E m \in {n \in Mentions : refers[n] = 0} : refers' = [refers EXCEPT ![m] = worker[t].keep]
           /\ worker' = [worker EXCEPT ![t].at = "answer"]
  <2>1. worker' \in [Threads -> Agent] /\ worker'[t].at = "answer" /\ \A s \in Threads \ {t} : worker'[s] = worker[s]
    BY <1>0, <1>2 DEF AgentType, Agent, AgentPlaces
  <2>2. refers' \in [Mentions -> Nat] /\ \A m \in Mentions : refers'[m] = refers[m] \/ refers'[m] = worker[t].keep
    BY <1>0, <1>2 DEF Mergeable, AgentType
  <2>3. AgentType' /\ AgentRefers'
    BY <1>0, <1>1, <1>2, <2>1, <2>2 DEF AgentType, AgentRefers
  <2>4. AgentMerges'
    BY <1>0, <2>1 DEF AgentMerges, Merging
  <2>5. AgentAlone'
    BY <1>0, <1>1, <2>1 DEF AgentAlone, Busy
  <2> QED
    BY <2>3, <2>4, <2>5 DEF AgentInd
<1>3. CASE worker' = [worker EXCEPT ![t].at = "answer", ![t].ok = FALSE] /\ UNCHANGED refers
  <2> DEFINE f1 == [worker EXCEPT ![t].at = "answer"]
             f2 == [f1 EXCEPT ![t].ok = FALSE]
  <2>1. worker' = f2
    BY <1>3
  <2>2. f1 \in [Threads -> Agent] /\ f1[t].at = "answer" /\ \A s \in Threads \ {t} : f1[s] = worker[s]
    BY <1>0 DEF AgentType, Agent, AgentPlaces
  <2> HIDE DEF f1
  <2>3. f2 \in [Threads -> Agent]
    BY <2>2, AgentUpdates
  <2>4. f2[t].at = "answer" /\ \A s \in Threads \ {t} : f2[s] = worker[s]
    BY <2>2 DEF Agent
  <2> HIDE DEF f2
  <2>5. ~Busy(t)'
    BY <2>1, <2>4 DEF Busy
  <2> QED
    BY <1>0, <1>1, <1>3, <2>1, <2>3, <2>4, <2>5, Elsewhere DEF AgentType
<1> QED
  BY <1>2, <1>3 DEF A!Insert

(* The mentions of a duplicate go to the one that is kept.                 *)
LEMMA AgentMerge ==
    ASSUME NEW t \in Threads, Mergeable, AgentInd, A!Merge(t)
    PROVE  AgentInd'
<1>0. AgentType /\ AgentRefers /\ AgentMerges /\ AgentAlone
  BY DEF AgentInd
<1> DEFINE dup == A!Min0(worker[t].todo)
<1>1. /\ worker[t].at = "merge" /\ Merging(t) /\ Busy(t) /\ UNCHANGED <<entities, dropped, around>>
      /\ refers' = [m \in Mentions |-> IF refers[m] = dup THEN worker[t].keep ELSE refers[m]]
      /\ worker' = [worker EXCEPT ![t].at = "delete"]
  BY DEF A!Merge, Busy, Merging
<1>2. worker[t].keep = First /\ First \in Nat /\ First \in entities
  BY <1>0, <1>1 DEF Mergeable, AgentMerges, AgentType
<1>3. dup # First
  <2>1. worker[t].todo \subseteq Nat /\ worker[t].todo # {} /\ First \notin worker[t].todo
    BY <1>0, <1>1 DEF Mergeable, AgentMerges, AgentType, Agent
  <2> QED
    BY <2>1, Smallest
<1>4. /\ worker' \in [Threads -> Agent] /\ worker'[t].at = "delete" /\ worker'[t].todo = worker[t].todo /\ worker'[t].keep = worker[t].keep
      /\ \A s \in Threads \ {t} : worker'[s] = worker[s]
  BY <1>0, <1>1 DEF AgentType, Agent, AgentPlaces
<1>5. \A m \in Mentions : refers'[m] # dup /\ (refers'[m] = refers[m] \/ refers'[m] = First)
  BY <1>0, <1>1, <1>2, <1>3 DEF AgentType
<1>6. refers' \in [Mentions -> Nat]
  BY <1>0, <1>1, <1>2 DEF AgentType
<1> HIDE DEF dup
<1>7. AgentType' /\ AgentRefers'
  BY <1>0, <1>1, <1>2, <1>4, <1>5, <1>6 DEF AgentType, AgentRefers
<1>8. AgentMerges'
  BY <1>0, <1>1, <1>4 DEF AgentMerges, Merging
<1>9. AgentAlone'
  <2> SUFFICES ASSUME ~around.met PROVE AgentAlone'
    BY <1>1 DEF AgentAlone
  <2>1. \A s \in Threads : Busy(s)' => s = t
    BY <1>0, <1>1, <1>4 DEF AgentAlone, Busy
  <2>2. \A m \in Mentions : refers'[m] # A!Min0(worker'[t].todo)
    BY <1>4, <1>5 DEF dup
  <2> QED
    BY <1>0, <1>1, <2>1, <2>2 DEF AgentAlone, Busy
<1> QED
  BY <1>7, <1>8, <1>9 DEF AgentInd

(* The duplicate goes; no mention is left at it unless agents met.         *)
LEMMA AgentDelete ==
    ASSUME NEW t \in Threads, Mergeable, AgentInd, A!Delete(t)
    PROVE  AgentInd'
<1>0. AgentType /\ AgentRefers /\ AgentMerges /\ AgentAlone
  BY DEF AgentInd
<1> DEFINE dup == A!Min0(worker[t].todo)
           rest == worker[t].todo \ {dup}
           place == IF rest = {} THEN "answer" ELSE "merge"
           f1 == [worker EXCEPT ![t].todo = rest]
           f2 == [f1 EXCEPT ![t].used = worker[t].used + 1]
           f3 == [f2 EXCEPT ![t].at = place]
<1>1. /\ worker[t].at = "delete" /\ Merging(t) /\ Busy(t) /\ UNCHANGED around
      /\ entities' = entities \ {dup}
      /\ refers' = [m \in Mentions |-> IF refers[m] = dup THEN 0 ELSE refers[m]]
      /\ dropped' = dropped \cup {m \in Mentions : refers[m] = dup}
  BY DEF A!Delete, Busy, Merging
<1>2. /\ worker[t].todo \in SUBSET Duplicates /\ worker[t].todo # {} /\ First \notin worker[t].todo /\ worker[t].keep = First
      /\ worker[t].used \in Nat
  BY <1>0, <1>1 DEF AgentMerges, AgentType, Agent
<1>3. dup # First
  <2>1. worker[t].todo \subseteq Nat
    BY <1>2 DEF Mergeable
  <2>2. dup \in worker[t].todo
    BY <1>2, <2>1, Smallest
  <2> QED
    BY <1>2, <2>2
<1>4. worker' = f3
  <2>1. f1[t].used = worker[t].used
    BY <1>0, <1>2 DEF AgentType, Agent
  <2> QED
    BY <2>1, <1>0, <1>2 DEF A!Delete, AgentType, Agent
<1>5. rest \in SUBSET Duplicates /\ First \notin rest /\ place \in AgentPlaces /\ (place = "merge" => rest # {}) /\ place \in {"answer", "merge"}
  BY <1>2 DEF AgentPlaces
<1> HIDE DEF rest, place, dup
<1>6. f1 \in [Threads -> Agent] /\ f1[t].todo = rest /\ f1[t].keep = First /\ \A s \in Threads \ {t} : f1[s] = worker[s]
  BY <1>0, <1>2, <1>5 DEF AgentType, Agent
<1> HIDE DEF f1
<1>7. f2 \in [Threads -> Agent] /\ f2[t].todo = rest /\ f2[t].keep = First /\ \A s \in Threads \ {t} : f2[s] = worker[s]
  BY <1>2, <1>6 DEF Agent
<1> HIDE DEF f2
<1>8. f3 \in [Threads -> Agent] /\ f3[t].todo = rest /\ f3[t].at = place /\ f3[t].keep = First /\ \A s \in Threads \ {t} : f3[s] = worker[s]
  BY <1>5, <1>7 DEF Agent
<1> HIDE DEF f3
<1>9. AgentType' /\ AgentRefers'
  BY <1>0, <1>1, <1>3, <1>4, <1>8 DEF AgentType, AgentRefers
<1>10. AgentMerges'
  BY <1>0, <1>4, <1>5, <1>8 DEF AgentMerges, Merging
<1>11. AgentAlone'
  <2> SUFFICES ASSUME ~around.met PROVE AgentAlone'
    BY <1>1 DEF AgentAlone
  <2>1. \A s \in Threads : Busy(s)' => s = t
    BY <1>0, <1>1, <1>4, <1>8 DEF AgentAlone, Busy
  <2>2. dropped' = {}
    BY <1>0, <1>1 DEF AgentAlone, dup
  <2>3. \A s \in Threads : worker'[s].at # "delete"
    BY <1>4, <1>5, <1>8, <2>1 DEF Busy
  <2> QED
    BY <2>1, <2>2, <2>3 DEF AgentAlone
<1> QED
  BY <1>9, <1>10, <1>11 DEF AgentInd

(* Whoever dies writes no more.                                            *)
LEMMA AgentDie ==
    ASSUME AgentInd, A!Die
    PROVE  AgentInd'
<1>0. AgentType /\ AgentRefers /\ AgentMerges /\ AgentAlone
  BY DEF AgentInd
<1>1. worker' \in [Threads -> Agent] /\ \A s \in Threads : worker'[s].at = "rest"
  BY RestingType DEF A!Die
<1>2. around' = [tasks |-> around'.tasks, deaths |-> around'.deaths, met |-> around.met] /\ around'.met = around.met
  BY <1>0 DEF A!Die, AgentType
<1>3. UNCHANGED <<entities, refers, dropped>>
  BY DEF A!Die
<1> QED
  BY <1>0, <1>1, <1>2, <1>3 DEF AgentInd, AgentType, AgentRefers, AgentMerges, AgentAlone, Merging, Busy

(* The agents begin at rest.                                               *)
LEMMA AgentInit == Mergeable /\ A!Init => AgentInd
<1> SUFFICES ASSUME Mergeable, A!Init PROVE AgentInd
  OBVIOUS
<1>1. First \in Duplicates /\ Duplicates \subseteq Nat \ {0}
  BY Smallest DEF Mergeable, First
<1>2. worker \in [Threads -> Agent] /\ \A s \in Threads : worker[s].at = "rest"
  BY RestingType DEF A!Init
<1>3. AgentType /\ AgentRefers
  BY <1>1, <1>2 DEF A!Init, AgentType, AgentRefers
<1>4. AgentMerges /\ AgentAlone
  BY <1>2 DEF A!Init, AgentMerges, AgentAlone, Merging, Busy
<1> QED
  BY <1>3, <1>4 DEF AgentInd

(* Every step of the agents keeps the invariant.                           *)
LEMMA AgentStep == Mergeable /\ AgentInd /\ A!Next => AgentInd'
BY AgentTask, AgentRead, AgentInsert, AgentMerge, AgentDelete, AgentAnswer, AgentDie DEF A!Next

LEMMA AgentStays == AgentInd /\ UNCHANGED A!agentVars => AgentInd'
BY DEF A!agentVars, AgentInd, AgentType, AgentRefers, AgentMerges, AgentAlone, Merging, Busy

(* It gives what the module promises.                                      *)
LEMMA AgentPromise == AgentInd => A!MentionsKept
BY DEF AgentInd, AgentRefers, AgentAlone, A!MentionsKept

-----------------------------------------------------------------------------

(* The runs of the agents.  Each thread's run is a row of its own; what a  *)
(* thread was told is in its row and in the journal, and an agent that     *)
(* merges has still to do all but the entity it keeps.                     *)
Ended == {"ok", "error", "timeout"}
Events == {"start"} \cup Ended
Row == [status : {"running"} \cup Ended, used : Nat]
Numbered(w) == w.at # "rest" \/ w.said \in Ended
Listed(run, event) == \E i \in 1..Len(journal) : journal[i] = <<run, event>>
Reported(w) == w.said \in Ended =>
    /\ w.at = "rest" /\ rows[w.run].status = w.said /\ Listed(w.run, w.said)
    /\ w.said = "ok" => rows[w.run].used = w.used /\ w.used <= w.budget
    /\ w.said = "ok" /\ w.kind = "curate" => entities = {First}
Curated(w) == w.kind = "curate" =>
    /\ w.at \in {"merge", "delete"} => entities \subseteq {First} \cup w.todo
    /\ w.at = "answer" => entities = {First}
    /\ w.at # "insert"
RunsApart == \A s \in Threads : Numbered(worker[s]) =>
    /\ worker[s].run \in 1..Len(rows)
    /\ \A t \in Threads \ {s} : Numbered(worker[t]) => worker[t].run # worker[s].run
RunInd == /\ rows \in Seq(Row) /\ journal \in Seq(Nat \X Events)
          /\ RunsApart /\ \A t \in Threads : Reported(worker[t]) /\ Curated(worker[t])

LEMMA RunInit == Mergeable /\ A!Init => RunInd
<1> SUFFICES ASSUME A!Init PROVE RunInd
  OBVIOUS
<1>1. \A t \in Threads : worker[t] = A!Resting
  BY DEF A!Init
<1>2. A!Resting.at = "rest" /\ A!Resting.said = "nothing"
  BY DEF A!Resting
<1>3. rows = <<>> /\ journal = <<>>
  BY DEF A!Init
<1> QED
  BY <1>1, <1>2, <1>3 DEF RunInd, RunsApart, Reported, Curated, Numbered, Ended

(* A step of an agent on its way: its row and its number stay, and         *)
(* entities only go.                                                       *)
LEMMA RunMoves ==
    ASSUME NEW t \in Threads, RunInd, \A s \in Threads \ {t} : worker'[s] = worker[s],
           worker[t].at # "rest", worker'[t].at # "rest",
           worker'[t].run = worker[t].run, worker'[t].said = worker[t].said,
           UNCHANGED <<rows, journal>>, entities' \subseteq entities, First \in entities',
           worker'[t].kind = "curate" =>
              /\ worker'[t].at \in {"merge", "delete"} => entities' \subseteq {First} \cup worker'[t].todo
              /\ worker'[t].at = "answer" => entities' = {First}
              /\ worker'[t].at # "insert"
    PROVE  RunInd'
<1>1. worker'[t].said \notin Ended
  BY DEF RunInd, Reported
<1>2. RunsApart'
  <2>1. \A s \in Threads : worker'[s].run = worker[s].run /\ (Numbered(worker[s])' => Numbered(worker[s]))
    BY DEF Numbered
  <2> QED
    BY <2>1 DEF RunsApart, RunInd
<1>3. ASSUME NEW s \in Threads PROVE Reported(worker[s])' /\ Curated(worker[s])'
  <2>1. CASE s = t
    BY <1>1, <2>1 DEF Reported, Curated
  <2>2. CASE s # t
    <3>1. Reported(worker[s]) /\ Curated(worker[s]) /\ worker'[s] = worker[s]
      BY <2>2 DEF RunInd
    <3>2. entities = {First} => entities' = {First}
      OBVIOUS
    <3>3. \A i, x : Listed(i, x)' <=> Listed(i, x)
      BY DEF Listed
    <3> QED
      BY <3>1, <3>2, <3>3 DEF Reported, Curated
  <2> QED
    BY <2>1, <2>2
<1> QED
  BY <1>2, <1>3 DEF RunInd

(* A line more: what was listed stays listed, and the new line is.         *)
LEMMA JournalGrows ==
    ASSUME journal \in Seq(Nat \X Events), NEW run \in Nat, NEW event \in Events,
           journal' = Append(journal, <<run, event>>)
    PROVE  /\ journal' \in Seq(Nat \X Events) /\ \E k \in 1..Len(journal') : journal'[k] = <<run, event>>
           /\ \A i, x : Listed(i, x) => Listed(i, x)'
<1>1. <<run, event>> \in Nat \X Events
  OBVIOUS
<1>2. /\ Len(journal') = Len(journal) + 1 /\ Len(journal) \in Nat /\ journal'[Len(journal) + 1] = <<run, event>>
      /\ \A k \in 1..Len(journal) : journal'[k] = journal[k]
  BY <1>1
<1>3. journal' \in Seq(Nat \X Events)
  BY <1>1
<1>4. ASSUME NEW i, NEW x, Listed(i, x) PROVE Listed(i, x)'
  <2>1. PICK k \in 1..Len(journal) : journal[k] = <<i, x>>
    BY <1>4 DEF Listed
  <2>2. k \in 1..Len(journal') /\ journal'[k] = <<i, x>>
    BY <1>2, <2>1
  <2> QED
    BY <2>2 DEF Listed
<1>5. \E k \in 1..Len(journal') : journal'[k] = <<run, event>>
  <2>1. Len(journal) + 1 \in 1..Len(journal')
    BY <1>2
  <2> QED
    BY <1>2, <2>1
<1> QED
  BY <1>3, <1>4, <1>5

(* A task: refused without a row, or begun with a row of its own.          *)
LEMMA RunTask ==
    ASSUME NEW t \in Threads, AgentInd, RunInd, A!Task(t)
    PROVE  RunInd'
<1>0. worker \in [Threads -> Agent] /\ UNCHANGED entities
  BY DEF AgentInd, AgentType, A!Task
<1>1. PICK kind \in A!Kinds, asking \in BOOLEAN, budget \in A!Budgets :
        IF (asking /\ A!Evaluate(kind) # "allow") \/ ~A!Handled(kind)
        THEN /\ worker' = [worker EXCEPT ![t] = [A!Resting EXCEPT !.said = "refused"]]
             /\ UNCHANGED <<rows, journal>>
        ELSE /\ A!LedgerStart
             /\ worker' = [worker EXCEPT ![t] = [A!Resting EXCEPT !.at = "run", !.run = Len(rows) + 1,
                                                   !.kind = kind, !.budget = budget]]
  BY DEF A!Task
<1>2. \A s \in Threads \ {t} : worker'[s] = worker[s]
  BY <1>0, <1>1
<1>3. CASE worker' = [worker EXCEPT ![t] = [A!Resting EXCEPT !.said = "refused"]] /\ UNCHANGED <<rows, journal>>
  <2>1. worker'[t].at = "rest" /\ worker'[t].said = "refused"
    BY <1>0, <1>3 DEF A!Resting
  <2>2. ~Numbered(worker'[t])
    BY <2>1 DEF Numbered, Ended
  <2>3. Reported(worker[t])' /\ Curated(worker[t])'
    BY <2>1 DEF Reported, Curated, Ended
  <2>4. \A i, x : Listed(i, x)' <=> Listed(i, x)
    BY <1>3 DEF Listed
  <2>5. \A s \in Threads \ {t} : Reported(worker[s])' /\ Curated(worker[s])'
    BY <1>0, <1>2, <1>3, <2>4 DEF RunInd, Reported, Curated
  <2>6. RunsApart'
    BY <1>2, <1>3, <2>2 DEF RunInd, RunsApart, Numbered
  <2> QED
    BY <1>3, <2>3, <2>5, <2>6 DEF RunInd
<1>4. CASE /\ A!LedgerStart
           /\ worker' = [worker EXCEPT ![t] = [A!Resting EXCEPT !.at = "run", !.run = Len(rows) + 1,
                                                   !.kind = kind, !.budget = budget]]
  <2>1. worker'[t].at = "run" /\ worker'[t].said = "nothing" /\ worker'[t].run = Len(rows) + 1
    BY <1>0, <1>4 DEF A!Resting
  <2>2. [status |-> "running", used |-> 0] \in Row
    BY DEF Row
  <2>3. rows \in Seq(Row) /\ rows' = Append(rows, [status |-> "running", used |-> 0])
    BY <1>4 DEF RunInd, A!LedgerStart
  <2>4. /\ rows' \in Seq(Row) /\ Len(rows) \in Nat /\ Len(rows') = Len(rows) + 1
        /\ \A k \in 1..Len(rows) : rows'[k] = rows[k]
    BY <2>2, <2>3
  <2>5. journal' = Append(journal, <<Len(rows) + 1, "start">>) /\ journal \in Seq(Nat \X Events)
    BY <1>4 DEF RunInd, A!LedgerStart
  <2>6. journal' \in Seq(Nat \X Events) /\ \A i, x : Listed(i, x) => Listed(i, x)'
    <3>1. Len(rows) + 1 \in Nat /\ "start" \in Events
      BY <2>4 DEF Events
    <3> QED
      BY <2>5, <3>1, JournalGrows
  <2>7. Reported(worker[t])' /\ Curated(worker[t])'
    BY <2>1 DEF Reported, Curated, Ended
  <2>8. ASSUME NEW s \in Threads \ {t} PROVE Reported(worker[s])' /\ Curated(worker[s])'
    <3>1. worker'[s] = worker[s] /\ Reported(worker[s]) /\ Curated(worker[s])
      BY <1>2 DEF RunInd
    <3>2. worker[s].said \in Ended => rows'[worker[s].run] = rows[worker[s].run]
      BY <2>4 DEF RunInd, RunsApart, Numbered
    <3> QED
      BY <1>0, <2>6, <3>1, <3>2 DEF Reported, Curated
  <2>9. RunsApart'
    <3>1. ASSUME NEW s \in Threads \ {t}, Numbered(worker'[s])
          PROVE  worker'[s].run \in 1..Len(rows) /\ worker'[s].run # worker'[t].run
      <4>1. worker[s].run \in 1..Len(rows)
        BY <1>2, <3>1 DEF RunInd, RunsApart, Numbered
      <4> QED
        BY <1>2, <2>1, <2>4, <4>1
    <3>2. worker'[t].run \in 1..Len(rows')
      BY <2>1, <2>4
    <3>3. ASSUME NEW s \in Threads, NEW u \in Threads \ {s}, Numbered(worker'[s]), Numbered(worker'[u])
          PROVE  worker'[u].run # worker'[s].run
      BY <1>2, <3>1, <3>3 DEF RunInd, RunsApart, Numbered
    <3>4. ASSUME NEW s \in Threads, Numbered(worker'[s]) PROVE worker'[s].run \in 1..Len(rows')
      BY <2>4, <3>1, <3>2, <3>4
    <3> QED
      BY <3>3, <3>4 DEF RunsApart, Numbered
  <2> QED
    BY <2>4, <2>6, <2>7, <2>8, <2>9 DEF RunInd
<1> QED
  BY <1>1, <1>3, <1>4

(* A thread's record where two or three of its fields are replaced.        *)
LEMMA RunRecords ==
    ASSUME NEW t \in Threads, worker \in [Threads -> Agent],
           NEW place \in AgentPlaces, NEW keep \in Nat, NEW charge \in Nat, NEW good \in BOOLEAN,
           NEW todo \in SUBSET Duplicates,
           \/ worker' = [worker EXCEPT ![t].at = place]
           \/ worker' = [worker EXCEPT ![t].at = place, ![t].ok = good]
           \/ worker' = [worker EXCEPT ![t].at = place, ![t].used = charge, ![t].ok = good]
           \/ worker' = [worker EXCEPT ![t].at = place, ![t].keep = keep, ![t].used = charge]
           \/ worker' = [worker EXCEPT ![t].at = place, ![t].keep = keep, ![t].todo = todo]
           \/ worker' = [worker EXCEPT ![t].todo = todo, ![t].used = @ + 1, ![t].at = place]
    PROVE  /\ \A s \in Threads \ {t} : worker'[s] = worker[s]
           /\ worker'[t].at = place /\ worker'[t].run = worker[t].run
           /\ worker'[t].kind = worker[t].kind /\ worker'[t].said = worker[t].said
<1>1. worker[t] \in Agent
  OBVIOUS
<1> QED
  BY <1>1 DEF Agent

(* What the agents do on their way.                                        *)
LEMMA RunRead ==
    ASSUME NEW t \in Threads, Mergeable, IsFiniteSet(Duplicates), AgentInd, RunInd, A!Read(t)
    PROVE  RunInd'
<1>0. /\ worker \in [Threads -> Agent] /\ worker[t].at = "run" /\ First \in entities /\ entities \subseteq Duplicates
      /\ Duplicates \subseteq Nat /\ UNCHANGED <<entities, rows, journal>>
  BY DEF AgentInd, AgentType, A!Read, Mergeable
<1>1. CASE \E charge \in {0, 2}, good \in BOOLEAN :
              /\ worker[t].kind = "research"
              /\ worker' = [worker EXCEPT ![t].at = "answer", ![t].used = charge, ![t].ok = good]
  <2>1. PICK charge \in {0, 2}, good \in BOOLEAN :
              worker' = [worker EXCEPT ![t].at = "answer", ![t].used = charge, ![t].ok = good]
    BY <1>1
  <2>2. charge \in Nat /\ "answer" \in AgentPlaces
    BY DEF AgentPlaces
  <2>3. /\ \A s \in Threads \ {t} : worker'[s] = worker[s]
        /\ worker'[t].at = "answer" /\ worker'[t].run = worker[t].run
        /\ worker'[t].kind = worker[t].kind /\ worker'[t].said = worker[t].said
    BY <1>0, <2>1, <2>2, RunRecords
  <2> QED
    BY <1>0, <1>1, <2>3, RunMoves
<1>2. CASE /\ worker[t].kind = "ingest"
           /\ \E e \in entities :
                worker' = [worker EXCEPT ![t].at = "insert", ![t].keep = e, ![t].used = 1]
  <2>1. PICK e \in entities : worker' = [worker EXCEPT ![t].at = "insert", ![t].keep = e, ![t].used = 1]
    BY <1>2
  <2>2. e \in Nat /\ 1 \in Nat /\ "insert" \in AgentPlaces
    BY <1>0 DEF AgentPlaces
  <2>3. /\ \A s \in Threads \ {t} : worker'[s] = worker[s]
        /\ worker'[t].at = "insert" /\ worker'[t].run = worker[t].run
        /\ worker'[t].kind = worker[t].kind /\ worker'[t].said = worker[t].said
    BY <1>0, <2>1, <2>2, RunRecords
  <2> QED
    BY <1>0, <1>2, <2>3, RunMoves
<1>3. CASE /\ worker[t].kind = "curate"
           /\ worker' = [worker EXCEPT ![t].at = IF A!Cardinality(entities) < 2 THEN "answer" ELSE "merge",
                                      ![t].keep = A!Min0(entities),
                                      ![t].todo = entities \ {A!Min0(entities)}]
  <2> DEFINE place == IF A!Cardinality(entities) < 2 THEN "answer" ELSE "merge"
  <2>1. A!Min0(entities) = First
    BY <1>0, LeastStays
  <2>2. place = "answer" => entities = {First}
    <3> SUFFICES ASSUME A!Cardinality(entities) < 2, entities # {First} PROVE FALSE
      OBVIOUS
    <3>1. PICK y \in entities : y # First
      BY <1>0
    <3>2. IsFiniteSet({First}) /\ Cardinality({First}) = 1
      BY FS_Singleton
    <3>3. IsFiniteSet({First} \cup {y}) /\ Cardinality({First} \cup {y}) = 2
      <4>1. y \notin {First}
        BY <3>1
      <4>2. Cardinality({First} \cup {y}) = Cardinality({First}) + 1 /\ IsFiniteSet({First} \cup {y})
        BY <3>2, <4>1, FS_AddElement
      <4> QED
        BY <3>2, <4>2
    <3>4. IsFiniteSet(entities)
      BY <1>0, FS_Subset
    <3>5. Cardinality({First} \cup {y}) <= Cardinality(entities) /\ Cardinality(entities) \in Nat
      BY <1>0, <3>1, <3>4, FS_Subset, FS_CardinalityType
    <3>6. A!Cardinality(entities) = Cardinality(entities)
      BY DEF A!Cardinality, Cardinality
    <3> QED
      BY <3>3, <3>5, <3>6
  <2>3. place \in AgentPlaces /\ First \in Nat /\ entities \ {First} \in SUBSET Duplicates /\ place \in {"answer", "merge"}
    BY <1>0 DEF AgentPlaces
  <2>4. worker' = [worker EXCEPT ![t].at = place, ![t].keep = First, ![t].todo = entities \ {First}]
    BY <1>3, <2>1
  <2> HIDE DEF place
  <2>5. /\ \A s \in Threads \ {t} : worker'[s] = worker[s]
        /\ worker'[t].at = place /\ worker'[t].run = worker[t].run
        /\ worker'[t].kind = worker[t].kind /\ worker'[t].said = worker[t].said
    BY <1>0, <2>4 DEF Agent
  <2>6. worker'[t].todo = entities \ {First}
    BY <1>0, <2>4 DEF Agent
  <2> QED
    BY <1>0, <2>2, <2>3, <2>5, <2>6, RunMoves
<1> QED
  BY <1>1, <1>2, <1>3 DEF A!Read

LEMMA RunInsert ==
    ASSUME NEW t \in Threads, AgentInd, RunInd, A!Insert(t)
    PROVE  RunInd'
<1>0. /\ worker \in [Threads -> Agent] /\ worker[t].at = "insert" /\ First \in entities
      /\ UNCHANGED <<entities, rows, journal>>
  BY DEF AgentInd, AgentType, A!Insert
<1>1. \/ worker' = [worker EXCEPT ![t].at = "answer"]
      \/ worker' = [worker EXCEPT ![t].at = "answer", ![t].ok = FALSE]
  BY DEF A!Insert
<1>2. "answer" \in AgentPlaces
  BY DEF AgentPlaces
<1>3. /\ \A s \in Threads \ {t} : worker'[s] = worker[s]
      /\ worker'[t].at = "answer" /\ worker'[t].run = worker[t].run
      /\ worker'[t].kind = worker[t].kind /\ worker'[t].said = worker[t].said
  BY <1>0, <1>1, <1>2, RunRecords
<1>4. worker[t].kind # "curate"
  BY <1>0 DEF RunInd, Curated
<1> QED
  BY <1>0, <1>3, <1>4, RunMoves

LEMMA RunMerge ==
    ASSUME NEW t \in Threads, AgentInd, RunInd, A!Merge(t)
    PROVE  RunInd'
<1>0. /\ worker \in [Threads -> Agent] /\ worker[t].at = "merge" /\ First \in entities
      /\ UNCHANGED <<entities, rows, journal>> /\ worker' = [worker EXCEPT ![t].at = "delete"]
  BY DEF AgentInd, AgentType, A!Merge
<1>1. "delete" \in AgentPlaces
  BY DEF AgentPlaces
<1>2. /\ \A s \in Threads \ {t} : worker'[s] = worker[s]
      /\ worker'[t].at = "delete" /\ worker'[t].run = worker[t].run
      /\ worker'[t].kind = worker[t].kind /\ worker'[t].said = worker[t].said
  BY <1>0, <1>1, RunRecords
<1>3. worker'[t].todo = worker[t].todo
  BY <1>0 DEF Agent
<1>4. worker[t].kind = "curate" => entities \subseteq {First} \cup worker[t].todo
  BY <1>0 DEF RunInd, Curated
<1> QED
  BY <1>0, <1>2, <1>3, <1>4, RunMoves

LEMMA RunDelete ==
    ASSUME NEW t \in Threads, Mergeable, AgentInd, RunInd, A!Delete(t)
    PROVE  RunInd'
<1> DEFINE dup == A!Min0(worker[t].todo)
           rest == worker[t].todo \ {dup}
           place == IF rest = {} THEN "answer" ELSE "merge"
<1>0. /\ worker \in [Threads -> Agent] /\ worker[t].at = "delete" /\ First \in entities
      /\ UNCHANGED <<rows, journal>> /\ entities' = entities \ {dup}
      /\ worker' = [worker EXCEPT ![t].todo = rest, ![t].used = @ + 1, ![t].at = place]
  BY DEF AgentInd, AgentType, A!Delete
<1>1. worker[t].todo \in SUBSET Duplicates /\ worker[t].todo # {} /\ First \notin worker[t].todo
  BY <1>0 DEF AgentInd, AgentMerges, Merging, Agent
<1>2. dup \in worker[t].todo
  <2>1. worker[t].todo \subseteq Nat
    BY <1>1 DEF Mergeable
  <2> QED
    BY <1>1, <2>1, Smallest
<1>3. worker[t].kind = "curate" => entities \subseteq {First} \cup worker[t].todo
  BY <1>0 DEF RunInd, Curated
<1>4. First \in entities' /\ entities' \subseteq entities
  BY <1>0, <1>1, <1>2
<1>5. worker[t].kind = "curate" => /\ entities' \subseteq {First} \cup rest
                                   /\ rest = {} => entities' = {First}
  BY <1>0, <1>3, <1>4
<1>6. place \in AgentPlaces /\ place \in {"answer", "merge"} /\ (place = "answer" => rest = {})
  BY DEF AgentPlaces
<1>7. rest \in SUBSET Duplicates
  BY <1>1
<1> HIDE DEF dup, rest, place
<1>8. /\ \A s \in Threads \ {t} : worker'[s] = worker[s]
      /\ worker'[t].at = place /\ worker'[t].run = worker[t].run
      /\ worker'[t].kind = worker[t].kind /\ worker'[t].said = worker[t].said
  BY <1>0, <1>6, <1>7, RunRecords
<1>9. worker'[t].todo = rest
  BY <1>0 DEF Agent
<1> QED
  BY <1>0, <1>4, <1>5, <1>6, <1>8, <1>9, RunMoves

(* The outcome: the row of the run, the journal and the caller get it.     *)
LEMMA RunAnswer ==
    ASSUME NEW t \in Threads, AgentInd, RunInd, A!Answer(t)
    PROVE  RunInd'
<1> DEFINE w == worker[t]
<1>0. /\ worker \in [Threads -> Agent] /\ w \in Agent /\ w.at = "answer" /\ UNCHANGED entities
  BY DEF AgentInd, AgentType, A!Answer
<1>1. PICK late \in BOOLEAN :
        LET status == IF ~A!Charged(w) THEN "error" ELSE IF late THEN "timeout"
                      ELSE IF w.ok THEN "ok" ELSE "error"
        IN  /\ A!LedgerFinish(w.run, status, IF ~A!Charged(w) \/ late THEN 0 ELSE w.used)
            /\ worker' = [worker EXCEPT ![t] = [A!Resting EXCEPT !.run = w.run, !.kind = w.kind,
                              !.budget = w.budget, !.used = w.used, !.said = status]]
  BY DEF A!Answer
<1> DEFINE status == IF ~A!Charged(w) THEN "error" ELSE IF late THEN "timeout"
                     ELSE IF w.ok THEN "ok" ELSE "error"
           charge == IF ~A!Charged(w) \/ late THEN 0 ELSE w.used
<1>2. /\ rows' = [rows EXCEPT ![w.run] = [status |-> status, used |-> charge]]
      /\ journal' = Append(journal, <<w.run, status>>)
      /\ worker' = [worker EXCEPT ![t] = [A!Resting EXCEPT !.run = w.run, !.kind = w.kind,
                              !.budget = w.budget, !.used = w.used, !.said = status]]
  BY <1>1 DEF A!LedgerFinish
<1>3. status \in Ended /\ status \in Events /\ charge \in Nat
  BY <1>0 DEF Ended, Events, Agent
<1>4. status = "ok" => charge = w.used /\ w.used <= w.budget
  BY <1>1 DEF A!Charged
<1> HIDE DEF status, charge
<1>5. /\ \A s \in Threads \ {t} : worker'[s] = worker[s]
      /\ worker'[t].at = "rest" /\ worker'[t].run = w.run /\ worker'[t].kind = w.kind
      /\ worker'[t].budget = w.budget /\ worker'[t].used = w.used /\ worker'[t].said = status
  BY <1>0, <1>2 DEF A!Resting
<1>6. Numbered(w) /\ w.run \in 1..Len(rows) /\ rows \in Seq(Row) /\ Len(rows) \in Nat
  BY <1>0 DEF RunInd, RunsApart, Numbered
<1>7. [status |-> status, used |-> charge] \in Row
  BY <1>3 DEF Row, Ended
<1>8. /\ rows' \in Seq(Row) /\ Len(rows') = Len(rows) /\ rows'[w.run] = [status |-> status, used |-> charge]
      /\ \A k \in 1..Len(rows) : k # w.run => rows'[k] = rows[k]
  BY <1>2, <1>6, <1>7
<1>9. journal' \in Seq(Nat \X Events) /\ (\E k \in 1..Len(journal') : journal'[k] = <<w.run, status>>) /\ \A i, x : Listed(i, x) => Listed(i, x)'
  <2>1. w.run \in Nat /\ journal \in Seq(Nat \X Events)
    BY <1>6 DEF RunInd
  <2> HIDE DEF w
  <2> QED
    BY <1>2, <1>3, <2>1, JournalGrows
<1>10. RunsApart'
  <2>1. \A s \in Threads : Numbered(worker'[s]) => Numbered(worker[s]) /\ worker'[s].run = worker[s].run
    BY <1>5, <1>6
  <2> QED
    BY <1>8, <2>1 DEF RunInd, RunsApart, Numbered
<1>11. Reported(worker[t])' /\ Curated(worker[t])'
  <2>1. Curated(worker[t])'
    BY <1>5 DEF Curated
  <2>2. w.kind = "curate" => entities = {First}
    BY <1>0 DEF RunInd, Curated
  <2>3. rows'[w.run].status = status /\ rows'[w.run].used = charge
    BY <1>8
  <2> QED
    BY <1>0, <1>4, <1>5, <1>9, <2>1, <2>2, <2>3 DEF Reported, Listed
<1>12. ASSUME NEW s \in Threads \ {t} PROVE Reported(worker[s])' /\ Curated(worker[s])'
  <2>1. worker'[s] = worker[s] /\ Reported(worker[s]) /\ Curated(worker[s])
    BY <1>5 DEF RunInd
  <2>2. worker[s].said \in Ended => rows'[worker[s].run] = rows[worker[s].run]
    BY <1>6, <1>8 DEF RunInd, RunsApart, Numbered
  <2> QED
    BY <1>0, <1>9, <2>1, <2>2 DEF Reported, Curated
<1> QED
  BY <1>8, <1>9, <1>10, <1>11, <1>12 DEF RunInd

LEMMA RunStep == Mergeable /\ IsFiniteSet(Duplicates) /\ AgentInd /\ RunInd /\ A!Next => RunInd'
<1> SUFFICES ASSUME Mergeable, IsFiniteSet(Duplicates), AgentInd, RunInd, A!Next PROVE RunInd'
  OBVIOUS
<1>1. CASE A!Die
  <2>1. \A t \in Threads : worker'[t] = A!Resting
    BY <1>1 DEF A!Die
  <2>2. A!Resting.at = "rest" /\ A!Resting.said = "nothing"
    BY DEF A!Resting
  <2>3. UNCHANGED <<rows, journal>>
    BY <1>1 DEF A!Die
  <2> QED
    BY <2>1, <2>2, <2>3 DEF RunInd, RunsApart, Reported, Curated, Numbered, Ended
<1> QED
  BY <1>1, RunTask, RunRead, RunInsert, RunMerge, RunDelete, RunAnswer DEF A!Next

LEMMA RunStays == RunInd /\ UNCHANGED A!agentVars => RunInd'
BY DEF A!agentVars, RunInd, RunsApart, Reported, Curated, Numbered, Listed

LEMMA RunPromise == RunInd => A!RunsAccounted
<1> SUFFICES ASSUME RunInd, NEW t \in Threads, worker[t].said \in {"ok", "error", "timeout"}
             PROVE  /\ rows[worker[t].run].status = worker[t].said
                    /\ A!Contains(journal, <<worker[t].run, worker[t].said>>)
                    /\ worker[t].said = "ok" => rows[worker[t].run].used = worker[t].used /\ worker[t].used <= worker[t].budget
                    /\ (worker[t].said = "ok" /\ worker[t].kind = "curate") => A!Cardinality(entities) = 1
  BY DEF A!RunsAccounted
<1>1. Reported(worker[t]) /\ worker[t].said \in Ended
  BY DEF RunInd, Ended
<1>2. A!Cardinality({First}) = 1
  BY FS_Singleton DEF A!Cardinality, Cardinality
<1> QED
  BY <1>1, <1>2 DEF Reported, Listed, A!Contains

-----------------------------------------------------------------------------

(* The units asked about are finitely many numbers, and so are budgets.    *)
KeysCounted == Keys \subseteq Nat /\ IsFiniteSet(Keys) /\ TokenBudgets \subseteq Nat

(* What units cost: the number of their tokens.                            *)
Pieces(S) == UNION {{k} \X (1..text[k]) : k \in S}
LEMMA CostIs ==
    ASSUME KeysCounted, text \in [Keys -> Nat \ {0}], NEW S, S \subseteq Keys
    PROVE  /\ IsFiniteSet(Pieces(S)) /\ C!Cost(S) = Cardinality(Pieces(S))
           /\ C!Cost(S) \in Nat
<1> DEFINE Parts == {{k} \X (1..text[k]) : k \in S}
<1> DEFINE f == [k \in S |-> {k} \X (1..text[k])]
<1>1. IsFiniteSet(S)
  BY FS_Subset DEF KeysCounted
<1>2. f \in Surjection(S, Parts)
  BY DEF Surjection
<1>3. IsFiniteSet(Parts)
  BY <1>1, <1>2, FS_Surjection
<1>4. ASSUME NEW k \in S PROVE IsFiniteSet({k} \X (1..text[k]))
  <2>1. text[k] \in Int /\ 1 \in Int
    OBVIOUS
  <2> QED
    BY <2>1, FS_Interval, FS_Singleton, FS_Product
<1>5. \A P \in Parts : IsFiniteSet(P)
  BY <1>4
<1>6. IsFiniteSet(Pieces(S))
  BY <1>3, <1>5, FS_UNION DEF Pieces
<1>7. C!Cost(S) = Cardinality(Pieces(S))
  BY DEF C!Cost, C!UnitTokens, Pieces, C!Cardinality, Cardinality
<1> QED
  BY <1>6, <1>7, FS_CardinalityType

LEMMA CostGrows ==
    ASSUME KeysCounted, text \in [Keys -> Nat \ {0}], NEW S, NEW R, R \subseteq Keys, S \subseteq R
    PROVE  C!Cost(S) <= C!Cost(R)
<1>1. Pieces(S) \subseteq Pieces(R)
  BY DEF Pieces
<1>2. IsFiniteSet(Pieces(R)) /\ C!Cost(R) = Cardinality(Pieces(R)) /\ C!Cost(S) = Cardinality(Pieces(S))
  BY CostIs
<1> QED
  BY <1>1, <1>2, FS_Subset

LEMMA CostAdds ==
    ASSUME KeysCounted, text \in [Keys -> Nat \ {0}], NEW S, S \subseteq Keys, NEW k \in Keys, k \notin S
    PROVE  C!Cost(S \cup {k}) = C!Cost(S) + C!UnitTokens(k)
<1> DEFINE New == {k} \X (1..text[k])
<1>1. Pieces(S \cup {k}) = Pieces(S) \cup New
  BY DEF Pieces
<1>2. Pieces(S) \cap New = {}
  BY DEF Pieces
<1>3. text[k] \in Nat \ {0} /\ 1 \in Int
  OBVIOUS
<1>4. IsFiniteSet(1..text[k]) /\ Cardinality(1..text[k]) = text[k]
  BY <1>3, FS_Interval
<1>5. IsFiniteSet({k}) /\ Cardinality({k}) = 1
  BY FS_Singleton
<1>6. IsFiniteSet(New) /\ Cardinality(New) = 1 * text[k]
  BY <1>4, <1>5, FS_Product
<1>7. /\ IsFiniteSet(Pieces(S)) /\ C!Cost(S) = Cardinality(Pieces(S)) /\ C!Cost(S) \in Nat
      /\ C!Cost(S \cup {k}) = Cardinality(Pieces(S \cup {k}))
  BY CostIs
<1> HIDE DEF New
<1>8. Cardinality(Pieces(S) \cup New) = Cardinality(Pieces(S)) + Cardinality(New) - Cardinality({})
  BY <1>2, <1>6, <1>7, FS_Union
<1>9. Cardinality(New) = text[k] /\ Cardinality({}) = 0
  BY <1>3, <1>6, FS_EmptySet
<1>10. C!Cost(S \cup {k}) = C!Cost(S) + text[k] - 0
  BY <1>1, <1>7, <1>8, <1>9
<1> QED
  BY <1>3, <1>7, <1>10 DEF C!UnitTokens

(* A packing.  The last unit in it that is not required was taken when all *)
(* the others of the packing were there.                                   *)
WithEarlier(k, packed, required, best) == {j \in packed : C!Before(j, k, required, best)} \cup {k}
LEMMA LastTaken ==
    KeysCounted => \A packed, required, best :
        packed \subseteq Keys /\ ~(packed \subseteq required)
        => \E k \in packed \ required :
               WithEarlier(k, packed, required, best) = packed
<1> HAVE KeysCounted
<1> TAKE packed, required, best
<1> HAVE packed \subseteq Keys /\ ~(packed \subseteq required)
<1> DEFINE Others == packed \ required
<1> DEFINE Worse == Others \ best
<1> DEFINE Rank(k) == IF k \in required THEN 0 ELSE IF k \in best THEN 1 ELSE 2
<1>1. IsFiniteSet(Others) /\ IsFiniteSet(Worse) /\ Others \subseteq Nat /\ Worse \subseteq Nat /\ Others # {}
  BY FS_Subset DEF KeysCounted
<1>2. PICK k \in Others : \A j \in Others : Rank(j) < Rank(k) \/ (Rank(j) = Rank(k) /\ j <= k)
  <2>1. CASE Worse # {}
    <3>1. PICK k \in Worse : \A j \in Worse : j <= k
      BY <1>1, <2>1, Largest
    <3>2. Rank(k) = 2 /\ \A j \in Others : j \in Worse \/ Rank(j) = 1
      BY <3>1
    <3>3. \A j \in Worse : Rank(j) = 2
      OBVIOUS
    <3> QED
      BY <3>1, <3>2, <3>3
  <2>2. CASE Worse = {}
    <3>1. PICK k \in Others : \A j \in Others : j <= k
      BY <1>1, Largest
    <3>2. \A j \in Others : Rank(j) = 1
      BY <2>2
    <3> QED
      BY <3>1, <3>2
  <2> QED
    BY <2>1, <2>2
<1>3. ASSUME NEW j \in packed, j # k PROVE C!Before(j, k, required, best)
  <2>1. Rank(k) \in {1, 2} /\ Rank(j) \in {0, 1, 2} /\ j \in Nat /\ k \in Nat
    BY <1>1, <1>2 DEF KeysCounted
  <2>2. Rank(j) < Rank(k) \/ (Rank(j) = Rank(k) /\ j < k)
    <3>1. CASE j \in required
      BY <2>1, <3>1
    <3>2. CASE j \notin required
      <4>1. Rank(j) < Rank(k) \/ (Rank(j) = Rank(k) /\ j <= k)
        BY <1>2, <3>2
      <4> QED
        BY <1>3, <2>1, <4>1
    <3> QED
      BY <3>1, <3>2
  <2> QED
    BY <2>2 DEF C!Before
<1>4. k \in packed \ required /\ WithEarlier(k, packed, required, best) = packed
  BY <1>2, <1>3 DEF WithEarlier
<1> QED
  BY <1>4

FilledWell(fresh, required, budget, packed) ==
    /\ packed \subseteq fresh /\ fresh \cap required \subseteq packed
    /\ C!Cost(packed) \in Nat
    /\ C!Cost(packed) > budget => packed \subseteq required
    /\ \A k \in fresh \ packed : C!Cost(packed) + C!UnitTokens(k) > budget
LEMMA PackedRight ==
    KeysCounted /\ text \in [Keys -> Nat \ {0}] => \A fresh, required, best, budget, packed :
        fresh \subseteq Keys /\ budget \in Nat \ {0} /\ packed \in C!PackUnits(fresh, required, best, budget)
        => FilledWell(fresh, required, budget, packed)
<1> HAVE KeysCounted /\ text \in [Keys -> Nat \ {0}]
<1> TAKE fresh, required, best, budget, packed
<1> HAVE fresh \subseteq Keys /\ budget \in Nat \ {0} /\ packed \in C!PackUnits(fresh, required, best, budget)
<1>1. packed \subseteq fresh /\ packed \subseteq Keys
  BY DEF C!PackUnits
<1>2. \A k \in fresh : k \in packed <=>
        \/ k \in required \/ budget = 0
        \/ C!Cost(WithEarlier(k, packed, required, best)) <= budget
  BY Zenon DEF C!PackUnits, WithEarlier
<1>3. C!Cost(packed) \in Nat
  BY <1>1, CostIs
<1>4. ASSUME ~(packed \subseteq required) PROVE C!Cost(packed) <= budget
  <2>1. PICK k \in packed \ required :
             WithEarlier(k, packed, required, best) = packed
    BY <1>1, <1>4, LastTaken
  <2>2. k \in fresh /\ k \in packed /\ k \notin required /\ budget # 0
    BY <1>1, <2>1
  <2> QED
    BY <1>2, <2>1, <2>2
<1>5. ASSUME NEW k \in fresh \ packed PROVE C!Cost(packed) + C!UnitTokens(k) > budget
  <2> DEFINE Upto == WithEarlier(k, packed, required, best)
  <2>1. ~(C!Cost(Upto) <= budget)
    BY <1>2
  <2>2. Upto \subseteq packed \cup {k} /\ packed \cup {k} \subseteq Keys /\ k \in Keys /\ k \notin packed
    BY <1>1 DEF WithEarlier
  <2> HIDE DEF Upto
  <2>3. Upto \subseteq Keys
    BY <2>2
  <2>4. C!Cost(Upto) <= C!Cost(packed \cup {k}) /\ C!Cost(Upto) \in Nat
    BY <2>2, <2>3, CostGrows, CostIs
  <2>5. C!Cost(packed \cup {k}) = C!Cost(packed) + C!UnitTokens(k) /\ C!Cost(packed \cup {k}) \in Nat
    BY <1>1, <2>2, CostAdds, CostIs
  <2> QED
    BY <2>1, <2>4, <2>5
<1>6. C!Cost(packed) > budget => packed \subseteq required
  BY <1>3, <1>4
<1>7. fresh \cap required \subseteq packed
  BY <1>2
<1> QED
  BY <1>1, <1>3, <1>5, <1>6, <1>7 DEF FilledWell

(* A session.  Until its history is lost, the client has what is marked as *)
(* shown to it.                                                            *)
SessionInd == /\ text \in [Keys -> Nat \ {0}] /\ DOMAIN seen = Keys /\ DOMAIN held = Keys
              /\ ~lost => \A k \in Keys : seen[k] = 0 \/ held[k] = seen[k]
              /\ turn.asked \subseteq Keys
              /\ C!ClientUpToDate
              /\ C!BudgetKept

LEMMA SessionInit == C!Init => SessionInd
<1> SUFFICES ASSUME C!Init PROVE SessionInd
  OBVIOUS
<1>1. turn.asked = {} /\ turn.budget = 0
  BY DEF C!Init, C!NoTurn
<1>2. text = [k \in Keys |-> 1] /\ seen = [k \in Keys |-> 0] /\ held = [k \in Keys |-> 0]
  BY DEF C!Init
<1>3. C!BudgetKept
  BY <1>1 DEF C!BudgetKept
<1> QED
  BY <1>1, <1>2, <1>3 DEF SessionInd, C!ClientUpToDate

(* A turn: what goes out is what is marked, and what does not go out is    *)
(* there already or is reported.                                           *)
LEMMA SessionTurn == KeysCounted /\ SessionInd /\ C!Turn => SessionInd'
<1> SUFFICES ASSUME KeysCounted, SessionInd, C!Turn PROVE SessionInd'
  OBVIOUS
<1>a. PICK asked \in (SUBSET Keys) \ {{}}, budget \in TokenBudgets \cup {0}, full \in BOOLEAN :
      \E required \in SUBSET asked : \E best \in SUBSET (asked \ required) :
          /\ turns < MaxTurns
          /\ LET fresh == {k \in asked : full \/ seen[k] # text[k]} IN
             \E packed \in C!PackUnits(fresh, required, best, budget) :
                 /\ turn' = [asked |-> asked, required |-> required, sent |-> packed,
                             omitted |-> fresh \ packed, suppressed |-> asked \ fresh, budget |-> budget,
                             used |-> C!Cost(packed), exceeded |-> budget > 0 /\ C!Cost(packed) > budget,
                             full |-> full]
                 /\ seen' = [k \in Keys |-> IF k \in C!Shown(fresh, packed) THEN text[k] ELSE seen[k]]
                 /\ held' = [k \in Keys |-> IF k \in packed THEN text[k] ELSE held[k]]
                 /\ lost' = (lost /\ ~(full /\ {k \in Keys : seen[k] # 0} \subseteq packed))
          /\ turns' = turns + 1 /\ UNCHANGED text
  BY Zenon DEF C!Turn
<1>b. PICK required \in SUBSET asked, best \in SUBSET Keys :
          /\ turns < MaxTurns
          /\ LET fresh == {k \in asked : full \/ seen[k] # text[k]} IN
             \E packed \in C!PackUnits(fresh, required, best, budget) :
                 /\ turn' = [asked |-> asked, required |-> required, sent |-> packed,
                             omitted |-> fresh \ packed, suppressed |-> asked \ fresh, budget |-> budget,
                             used |-> C!Cost(packed), exceeded |-> budget > 0 /\ C!Cost(packed) > budget,
                             full |-> full]
                 /\ seen' = [k \in Keys |-> IF k \in C!Shown(fresh, packed) THEN text[k] ELSE seen[k]]
                 /\ held' = [k \in Keys |-> IF k \in packed THEN text[k] ELSE held[k]]
                 /\ lost' = (lost /\ ~(full /\ {k \in Keys : seen[k] # 0} \subseteq packed))
          /\ turns' = turns + 1 /\ UNCHANGED text
  BY Zenon, <1>a
<1>c. PICK fresh : fresh = {k \in asked : full \/ seen[k] # text[k]}
  OBVIOUS
<1>d. PICK packed \in C!PackUnits(fresh, required, best, budget) :
                 /\ turn' = [asked |-> asked, required |-> required, sent |-> packed,
                             omitted |-> fresh \ packed, suppressed |-> asked \ fresh, budget |-> budget,
                             used |-> C!Cost(packed), exceeded |-> budget > 0 /\ C!Cost(packed) > budget,
                             full |-> full]
                 /\ seen' = [k \in Keys |-> IF k \in packed THEN text[k] ELSE seen[k]]
                 /\ held' = [k \in Keys |-> IF k \in packed THEN text[k] ELSE held[k]]
                 /\ lost' = (lost /\ ~(full /\ {k \in Keys : seen[k] # 0} \subseteq packed))
  BY Zenon, <1>b, <1>c DEF C!Shown
<1>e. PICK cost, exceeded : cost = C!Cost(packed) /\ exceeded = (budget > 0 /\ C!Cost(packed) > budget)
  OBVIOUS
<1>f. PICK now : now = [asked |-> asked, required |-> required, sent |-> packed,
                         omitted |-> fresh \ packed, suppressed |-> asked \ fresh, budget |-> budget,
                         used |-> cost, exceeded |-> exceeded, full |-> full]
  OBVIOUS
<1>g. /\ now.asked = asked /\ now.omitted = fresh \ packed /\ now.required = required
      /\ now.sent = packed /\ now.budget = budget /\ now.used = cost /\ now.exceeded = exceeded
  BY <1>f
<1>h. turn' = now
  BY Zenon, <1>d, <1>e, <1>f
<1>i. asked \in SUBSET Keys /\ budget \in Nat /\ text' = text
  BY <1>b DEF KeysCounted
<1>j. exceeded <=> budget > 0 /\ C!Cost(packed) > budget
  BY Zenon, <1>e
<1>1. /\ asked \in SUBSET Keys /\ full \in BOOLEAN /\ budget \in Nat
      /\ fresh = {k \in asked : full \/ seen[k] # text[k]}
      /\ packed \in C!PackUnits(fresh, required, best, budget)
      /\ turn'.asked = asked /\ turn'.omitted = fresh \ packed /\ turn'.required = required
      /\ turn'.sent = packed /\ turn'.budget = budget /\ turn'.used = C!Cost(packed)
      /\ turn'.exceeded = exceeded
      /\ seen' = [k \in Keys |-> IF k \in packed THEN text[k] ELSE seen[k]]
      /\ held' = [k \in Keys |-> IF k \in packed THEN text[k] ELSE held[k]]
      /\ lost' = (lost /\ ~(full /\ {k \in Keys : seen[k] # 0} \subseteq packed))
      /\ text' = text
  <2>1. turn'.asked = asked /\ turn'.omitted = fresh \ packed /\ turn'.required = required
        /\ turn'.sent = packed /\ turn'.budget = budget /\ turn'.used = C!Cost(packed) /\ turn'.exceeded = exceeded
    BY Zenon, <1>e, <1>g, <1>h
  <2> QED
    BY Zenon, <1>a, <1>c, <1>d, <1>i, <2>1
<1>2. text' \in [Keys -> Nat \ {0}] /\ DOMAIN seen' = Keys /\ DOMAIN held' = Keys /\ turn'.asked \subseteq Keys
  BY <1>1 DEF SessionInd
<1>3. \A k \in Keys : /\ seen'[k] = IF k \in packed THEN text[k] ELSE seen[k]
                      /\ held'[k] = IF k \in packed THEN text[k] ELSE held[k]
  BY <1>1
<1>4. lost' <=> lost /\ ~(full /\ {k \in Keys : seen[k] # 0} \subseteq packed)
  BY Zenon, <1>1
<1>5. ASSUME ~lost', NEW k \in Keys PROVE seen'[k] = 0 \/ held'[k] = seen'[k]
  <2>1. CASE k \in packed
    BY <1>3, <2>1
  <2>2. CASE k \notin packed
    <3>1. seen[k] = 0 \/ ~lost
      BY <1>4, <1>5, <2>2
    <3> QED
      BY <1>3, <2>2, <3>1 DEF SessionInd
  <2> QED
    BY <2>1, <2>2
<1>6. ASSUME ~lost', NEW k \in asked PROVE held'[k] = text[k] \/ k \in turn'.omitted
  <2>1. k \in Keys
    BY <1>1
  <2>2. CASE k \in packed
    BY <1>3, <2>1, <2>2
  <2>3. CASE k \notin packed /\ k \in fresh
    BY <1>1, <2>3
  <2>4. CASE k \notin packed /\ k \notin fresh
    <3>1. ~full /\ seen[k] = text[k]
      BY <1>1, <1>6, <2>4
    <3>2. ~lost
      BY <1>4, <1>6, <3>1
    <3>3. held[k] = text[k]
      BY <2>1, <3>1, <3>2 DEF SessionInd
    <3> QED
      BY <1>3, <2>1, <2>4, <3>3
  <2> QED
    BY <2>2, <2>3, <2>4
<1>7. C!ClientUpToDate'
  BY <1>1, <1>6 DEF C!ClientUpToDate
<1>8. ASSUME budget # 0
      PROVE  /\ packed \subseteq fresh /\ fresh \cap required \subseteq packed /\ C!Cost(packed) \in Nat
             /\ C!Cost(packed) > budget => packed \subseteq required
             /\ \A k \in fresh \ packed : C!Cost(packed) + C!UnitTokens(k) > budget
             /\ C!Cost(packed) > budget <=> C!Cost(fresh \cap required) > budget
  <2>1. fresh \subseteq Keys /\ budget \in Nat \ {0} /\ text \in [Keys -> Nat \ {0}]
    BY <1>1, <1>8 DEF SessionInd
  <2>2. /\ packed \subseteq fresh /\ fresh \cap required \subseteq packed /\ C!Cost(packed) \in Nat
        /\ C!Cost(packed) > budget => packed \subseteq required
        /\ \A k \in fresh \ packed : C!Cost(packed) + C!UnitTokens(k) > budget
    <3>1. KeysCounted /\ text \in [Keys -> Nat \ {0}]
      BY <2>1
    <3>2. fresh \subseteq Keys /\ budget \in Nat \ {0} /\ packed \in C!PackUnits(fresh, required, best, budget)
      BY Zenon, <1>1, <2>1
    <3>3. FilledWell(fresh, required, budget, packed)
      BY Zenon, <3>1, <3>2, PackedRight
    <3> QED
      BY <3>3 DEF FilledWell
  <2>3. packed \subseteq Keys /\ fresh \cap required \subseteq Keys
    BY <2>1, <2>2
  <2>4. C!Cost(fresh \cap required) <= C!Cost(packed) /\ C!Cost(fresh \cap required) \in Nat
    BY <2>1, <2>2, <2>3, CostGrows, CostIs
  <2>5. ASSUME C!Cost(packed) > budget PROVE fresh \cap required = packed
    BY <2>2, <2>5
  <2>6. ASSUME C!Cost(fresh \cap required) > budget PROVE C!Cost(packed) > budget
    BY <1>1, <2>2, <2>4, <2>6
  <2> QED
    BY <2>2, <2>5, <2>6
<1>9. (\A X : C!Cost(X)' = C!Cost(X)) /\ \A k : C!UnitTokens(k)' = C!UnitTokens(k)
  BY <1>1 DEF C!Cost, C!UnitTokens
<1>10. C!BudgetKept'
  <2> SUFFICES ASSUME budget > 0
               PROVE  LET shown == turn'.sent \cup turn'.omitted IN
                      /\ turn'.exceeded <=> C!Cost(shown \cap turn'.required) > turn'.budget
                      /\ turn'.exceeded => turn'.sent \subseteq turn'.required
                      /\ turn'.omitted \cap turn'.required = {}
                      /\ \A k \in turn'.omitted : turn'.used + C!UnitTokens(k) > turn'.budget
    BY <1>1, <1>9 DEF C!BudgetKept
  <2>1. budget # 0
    BY <1>1
  <2>2. turn'.exceeded <=> C!Cost(packed) > budget
    BY Zenon, <1>1, <1>j
  <2>3. turn'.sent \cup turn'.omitted = fresh
    BY <1>1, <1>8, <2>1
  <2> QED
    BY <1>1, <1>8, <2>1, <2>2, <2>3
<1> QED
  BY <1>2, <1>5, <1>7, <1>10 DEF SessionInd

LEMMA SessionStep == KeysCounted /\ SessionInd /\ C!Next => SessionInd'
<1> SUFFICES ASSUME KeysCounted, SessionInd, C!Next PROVE SessionInd'
  OBVIOUS
<1>0. C!NoTurn.asked = {} /\ C!NoTurn.budget = 0
  BY DEF C!NoTurn
<1>a. turn' = C!NoTurn => C!BudgetKept'
  BY <1>0 DEF C!BudgetKept
<1>1. CASE C!Reset
  BY <1>0, <1>a, <1>1 DEF C!Reset, SessionInd, C!ClientUpToDate
<1>2. CASE C!EditText
  <2>1. PICK k \in Keys, v \in 1..MaxTextEdits + 1 :
          text' = [text EXCEPT ![k] = v] /\ turn' = C!NoTurn /\ UNCHANGED <<seen, held, lost>>
    BY <1>2 DEF C!EditText
  <2>2. v \in Nat \ {0}
    OBVIOUS
  <2> QED
    BY <1>0, <1>a, <2>1, <2>2 DEF SessionInd, C!ClientUpToDate
<1>3. CASE C!LoseHistory
  BY <1>0, <1>a, <1>3 DEF C!LoseHistory, SessionInd, C!ClientUpToDate
<1> QED
  BY <1>1, <1>2, <1>3, SessionTurn DEF C!Next

LEMMA SessionStays == SessionInd /\ UNCHANGED C!sessionVars => SessionInd'
BY DEF C!sessionVars, SessionInd, C!ClientUpToDate, C!BudgetKept, C!Cost, C!UnitTokens

LEMMA SessionPromise == SessionInd => C!ClientUpToDate /\ C!BudgetKept
BY DEF SessionInd

-----------------------------------------------------------------------------

(* The server.  Whom it lets in.                                           *)
ServerCounted == PerMinute \in Nat /\ "none" \notin Tokens
Started == /\ settings = E!OverPipe \/ (settings \in E!Settings /\ E!Distinct(settings) /\ ~E!StartupRefusal(settings))
           /\ issued \subseteq Tokens
LEMMA StartedUsable == ServerCounted /\ Started => E!UsableWhenStarted
<1> SUFFICES ASSUME ServerCounted, Started,
                    settings # E!OverPipe,
                    ~(settings.bind = "loopback" /\ ~settings.token /\ ~settings.secret /\ ~settings.optIn),
                    ~(settings.bind = "wildcard" /\ ~settings.named),
                    ~(settings.secret /\ ~settings.token /\ issued = {})
             PROVE  \E h \in E!Headers, bearer \in E!Bearers, peer \in E!Peers :
                       E!GuardRequest(settings, issued, E!Request(h, bearer, peer), TRUE, TRUE) = 200
  BY DEF E!UsableWhenStarted
<1>1. /\ settings.bind \in {"loopback", "address", "wildcard"} /\ settings.token \in BOOLEAN
      /\ settings.secret \in BOOLEAN /\ settings.optIn \in BOOLEAN /\ settings.named \in BOOLEAN
      /\ ~E!StartupRefusal(settings)
  BY DEF Started, E!Settings
<1>2. PICK h \in E!Headers : h.host \in E!Authorities(settings) /\ h.origin \in {"none", "listed"} /\ h.json = TRUE
  <2> DEFINE own == [host |-> "own", origin |-> "none", json |-> TRUE]
             named == [host |-> "named", origin |-> "listed", json |-> TRUE]
  <2>1. own \in E!Headers /\ named \in E!Headers
    BY DEF E!Headers
  <2>2. CASE settings.bind # "wildcard"
    <3>1. own.host \in E!Authorities(settings) /\ own.origin \in {"none", "listed"} /\ own.json = TRUE
      BY <2>2 DEF E!Authorities
    <3> QED
      BY <2>1, <3>1
  <2>3. CASE settings.bind = "wildcard"
    <3>1. named.host \in E!Authorities(settings) /\ named.origin \in {"none", "listed"} /\ named.json = TRUE
      BY <1>1, <2>3 DEF E!Authorities
    <3> QED
      BY <2>1, <3>1
  <2> QED
    BY <2>2, <2>3
<1>3. PICK bearer \in E!Bearers : E!CheckAuthorisation(settings, issued, E!Request(h, bearer, "local"))
  <2>1. CASE settings.token
    <3>1. E!CheckAuthorisation(settings, issued, E!Request(h, "configured", "local"))
      BY <2>1 DEF E!CheckAuthorisation, E!Request
    <3> QED
      BY <3>1 DEF E!Bearers
  <2>2. CASE ~settings.token /\ settings.secret
    <3>1. PICK t \in issued : TRUE
      BY <2>2
    <3>2. t \in Tokens /\ t # "none"
      BY DEF Started, ServerCounted
    <3>3. E!CheckAuthorisation(settings, issued, E!Request(h, t, "local"))
      BY <3>2 DEF E!CheckAuthorisation, E!Request
    <3> QED
      BY <3>2, <3>3 DEF E!Bearers
  <2>3. CASE ~settings.token /\ ~settings.secret
    <3>1. settings.bind = "loopback" /\ settings.optIn
      BY <1>1, <2>3 DEF E!StartupRefusal
    <3>2. E!CheckAuthorisation(settings, issued, E!Request(h, "none", "local"))
      BY <2>3, <3>1 DEF E!CheckAuthorisation, E!Request
    <3> QED
      BY <3>2 DEF E!Bearers
  <2> QED
    BY <1>1, <2>1, <2>2, <2>3
<1>4. E!GuardRequest(settings, issued, E!Request(h, bearer, "local"), TRUE, TRUE) = 200
  <2> DEFINE r == E!Request(h, bearer, "local")
  <2>1. r.host = h.host /\ r.origin = h.origin /\ r.json = TRUE
    BY <1>2 DEF E!Request
  <2>2. E!CheckHost(settings, r) /\ E!CheckOrigin(r) /\ E!CheckContentType(r) /\ E!CheckAuthorisation(settings, issued, r)
    BY <1>2, <1>3, <2>1 DEF E!CheckHost, E!CheckOrigin, E!CheckContentType
  <2> HIDE DEF r
  <2> QED
    BY <2>2 DEF E!GuardRequest, r
<1> QED
  BY <1>4 DEF E!Peers

(* The pipe: a line has its number, and what was said is about lines that  *)
(* were read.                                                              *)
Outcomes == {"result", "error", "raises"}
Line == [id : Nat, kind : {"blank", "garbled", "lists", "call"}, outcome : Outcomes]
Due(read) == {i \in DOMAIN read : read[i].kind # "blank" /\ read[i].outcome # "raises"}
PipeInd == /\ pipe.read \in Seq(Line) /\ pipe.said \in Seq(Nat \X Outcomes)
           /\ \A i \in DOMAIN pipe.read : pipe.read[i].id = i
           /\ \A i \in DOMAIN pipe.said : pipe.said[i][1] <= Len(pipe.read)
           /\ IsFiniteSet(Due(pipe.read)) /\ Len(pipe.said) = Cardinality(Due(pipe.read))
           /\ \A i, j \in DOMAIN pipe.said : (i < j /\ pipe.said[i][1] # 0 /\ pipe.said[j][1] # 0)
                                              => pipe.said[i][1] < pipe.said[j][1]
           /\ \A i \in DOMAIN pipe.said : pipe.said[i][1] # 0 =>
                 pipe.read[pipe.said[i][1]].outcome = pipe.said[i][2]
LEMMA PipePromise == PipeInd => E!RepliesInOrder
BY DEF PipeInd, Due, E!RepliesInOrder, E!Cardinality, Cardinality

LEMMA PipeInit == pipe.read = <<>> /\ pipe.said = <<>> => PipeInd
<1> SUFFICES ASSUME pipe.read = <<>>, pipe.said = <<>> PROVE PipeInd
  OBVIOUS
<1>1. Due(pipe.read) = {}
  BY DEF Due
<1>2. IsFiniteSet(Due(pipe.read)) /\ Cardinality(Due(pipe.read)) = 0
  BY <1>1, FS_EmptySet
<1> QED
  BY <1>2 DEF PipeInd

LEMMA PipeRead == PipeInd /\ E!ReadLine => PipeInd'
<1> SUFFICES ASSUME PipeInd, E!ReadLine PROVE PipeInd'
  OBVIOUS
<1>0. PICK n : n = Len(pipe.read)
  OBVIOUS
<1>1. PICK kind \in {"blank", "garbled", "lists", "call"}, known \in BOOLEAN,
           tool \in {"result", "error", "raises"}, a \in E!Arguments :
        /\ pipe.open /\ Len(pipe.read) < MaxLines
        /\ LET line == [id |-> Len(pipe.read) + 1, kind |-> kind,
                        outcome |-> IF kind = "call" THEN E!Called(a, known, tool) ELSE "result"]
               dies == kind = "call" /\ line.outcome = "raises"
           IN  pipe' = [read |-> Append(pipe.read, line), open |-> ~dies,
                        said |-> IF dies THEN pipe.said ELSE pipe.said \o E!Reply(line)]
        /\ UNCHANGED <<settings, issued, conn, reply, bucket, clock, admitted, overlap, calls>>
  BY Zenon DEF E!ReadLine
<1>2. PICK outcome : outcome = IF kind = "call" THEN E!Called(a, known, tool) ELSE "result"
  OBVIOUS
<1>3. outcome \in Outcomes
  BY <1>2 DEF E!Called, Outcomes
<1>4. PICK line : line = [id |-> n + 1, kind |-> kind, outcome |-> outcome]
  OBVIOUS
<1>5. line.id = n + 1 /\ line.kind = kind /\ line.outcome = outcome
  BY <1>4
<1>6. /\ pipe'.read = Append(pipe.read, line)
      /\ pipe'.said = IF kind = "call" /\ outcome = "raises" THEN pipe.said ELSE pipe.said \o E!Reply(line)
  BY <1>0, <1>1, <1>2, <1>4, <1>5
<1>7. n \in Nat /\ pipe.read \in Seq(Line) /\ line \in Line
  BY <1>0, <1>3, <1>4 DEF PipeInd, Line
<1>8. /\ pipe'.read \in Seq(Line) /\ Len(pipe'.read) = n + 1 /\ pipe'.read[n + 1] = line
      /\ DOMAIN pipe'.read = 1..(n + 1) /\ DOMAIN pipe.read = 1..n
      /\ \A i \in 1..n : pipe'.read[i] = pipe.read[i]
  BY <1>0, <1>6, <1>7
<1>9. \A i \in DOMAIN pipe'.read : pipe'.read[i].id = i
  <2> SUFFICES ASSUME NEW i \in 1..(n + 1) PROVE pipe'.read[i].id = i
    BY <1>8
  <2>1. CASE i \in 1..n
    BY <1>8, <2>1 DEF PipeInd
  <2>2. CASE i = n + 1
    BY <1>5, <1>8, <2>2
  <2> QED
    BY <1>7, <2>1, <2>2
<1>a. PICK m : m = Len(pipe.said)
  OBVIOUS
<1>b. /\ m \in Nat /\ DOMAIN pipe.said = 1..m /\ pipe.said \in Seq(Nat \X Outcomes)
      /\ \A i \in 1..m : /\ pipe.said[i][1] \in Nat /\ pipe.said[i][1] <= n
                         /\ pipe.said[i][1] # 0 => pipe.read[pipe.said[i][1]].outcome = pipe.said[i][2]
  BY <1>0, <1>a DEF PipeInd
<1>c. \A i \in 1..m : /\ pipe.said[i][1] <= n + 1
                      /\ pipe.said[i][1] # 0 => pipe'.read[pipe.said[i][1]].outcome = pipe.said[i][2]
  <2> SUFFICES ASSUME NEW i \in 1..m
               PROVE  /\ pipe.said[i][1] <= n + 1
                      /\ pipe.said[i][1] # 0 => pipe'.read[pipe.said[i][1]].outcome = pipe.said[i][2]
    OBVIOUS
  <2>1. PICK x : x = pipe.said[i][1]
    OBVIOUS
  <2>2. x \in Nat /\ x <= n /\ (x # 0 => pipe.read[x].outcome = pipe.said[i][2])
    BY Zenon, <1>b, <2>1
  <2>3. x # 0 => x \in 1..n
    BY <1>7, <2>2
  <2>4. x # 0 => pipe'.read[x] = pipe.read[x]
    BY <1>8, <2>3
  <2> QED
    <3>1. x <= n + 1
      BY <1>7, <2>2
    <3>2. x # 0 => pipe'.read[x].outcome = pipe.said[i][2]
      BY Zenon, <2>2, <2>4
    <3> QED
      BY Zenon, <2>1, <3>1, <3>2
<1>10. CASE kind = "blank" \/ outcome = "raises"
  <2>1. pipe'.said = pipe.said
    <3>1. CASE kind = "blank"
      <4>1. E!Reply(line) = <<>>
        BY <1>5, <3>1 DEF E!Reply
      <4> QED
        BY <1>6, <1>b, <3>1, <4>1
    <3>2. CASE kind # "blank"
      BY <1>2, <1>6, <1>10, <3>2
    <3> QED
      BY <3>1, <3>2
  <2>2. Due(pipe'.read) = Due(pipe.read)
    BY <1>5, <1>7, <1>8, <1>10 DEF Due
  <2> QED
    BY <1>8, <1>9, <1>b, <1>c, <2>1, <2>2 DEF PipeInd
<1>11. CASE kind # "blank" /\ outcome # "raises"
  <2>1. PICK x \in {0, n + 1}, o \in Outcomes :
            E!Reply(line) = <<<<x, o>>>> /\ (x = n + 1 => o = outcome)
    <3>1. CASE kind = "garbled"
      <4>1. E!Reply(line) = <<<<0, "error">>>>
        BY <1>5, <3>1 DEF E!Reply
      <4>2. 0 # n + 1 /\ "error" \in Outcomes
        BY <1>7 DEF Outcomes
      <4> QED
        BY <4>1, <4>2
    <3>2. CASE kind = "lists" \/ kind = "call"
      <4>1. E!Reply(line) = <<<<n + 1, outcome>>>>
        BY <1>2, <1>5, <3>2 DEF E!Reply
      <4> QED
        BY <1>3, <4>1
    <3> QED
      BY <1>11, <3>1, <3>2
  <2>2. <<x, o>> \in Nat \X Outcomes
    BY <1>7
  <2>3. pipe'.said = Append(pipe.said, <<x, o>>)
    BY <1>6, <1>11, <1>b, <2>1, <2>2
  <2>4. /\ pipe'.said \in Seq(Nat \X Outcomes) /\ Len(pipe'.said) = m + 1 /\ DOMAIN pipe'.said = 1..(m + 1)
        /\ pipe'.said[m + 1] = <<x, o>> /\ \A i \in 1..m : pipe'.said[i] = pipe.said[i]
    BY <1>a, <1>b, <2>2, <2>3
  <2>5. pipe'.said[m + 1][1] = x /\ pipe'.said[m + 1][2] = o
    BY <2>4
  <2>6. x <= n + 1 /\ x \in Nat /\ (m + 1) \in 1..(m + 1) /\ \A i \in 1..(m + 1) : i \in 1..m \/ i = m + 1
    BY <1>7, <1>b
  <2>7. Due(pipe'.read) = Due(pipe.read) \cup {n + 1} /\ n + 1 \notin Due(pipe.read)
    BY <1>5, <1>7, <1>8, <1>11 DEF Due
  <2>8. IsFiniteSet(Due(pipe'.read)) /\ Cardinality(Due(pipe'.read)) = Cardinality(Due(pipe.read)) + 1
    <3>1. IsFiniteSet(Due(pipe.read))
      BY DEF PipeInd
    <3> HIDE DEF Due
    <3> QED
      BY <2>7, <3>1, FS_AddElement
  <2>9. \A i \in DOMAIN pipe'.said : pipe'.said[i][1] <= Len(pipe'.read)
    BY <1>8, <1>c, <2>4, <2>5, <2>6
  <2>10. \A i, j \in DOMAIN pipe'.said : (i < j /\ pipe'.said[i][1] # 0 /\ pipe'.said[j][1] # 0)
                                          => pipe'.said[i][1] < pipe'.said[j][1]
    <3> SUFFICES ASSUME NEW i \in 1..(m + 1), NEW j \in 1..(m + 1), i < j,
                        pipe'.said[i][1] # 0, pipe'.said[j][1] # 0
                 PROVE  pipe'.said[i][1] < pipe'.said[j][1]
      BY <2>4
    <3>1. i \in 1..m /\ pipe'.said[i] = pipe.said[i]
      BY <1>b, <2>4
    <3>2. CASE j \in 1..m
      BY <1>b, <2>4, <3>1, <3>2 DEF PipeInd
    <3>3. CASE j = m + 1
      <4>1. pipe'.said[j][1] = n + 1
        BY <2>1, <2>5, <3>3
      <4>2. pipe.said[i][1] \in Nat /\ pipe.said[i][1] <= n
        BY Zenon, <1>b, <3>1
      <4> QED
        BY <1>7, <3>1, <4>1, <4>2
    <3> QED
      BY <2>6, <3>2, <3>3
  <2>11. \A i \in DOMAIN pipe'.said : pipe'.said[i][1] # 0 =>
                 pipe'.read[pipe'.said[i][1]].outcome = pipe'.said[i][2]
    <3> SUFFICES ASSUME NEW i \in 1..(m + 1), pipe'.said[i][1] # 0
                 PROVE  pipe'.read[pipe'.said[i][1]].outcome = pipe'.said[i][2]
      BY <2>4
    <3>1. CASE i \in 1..m
      BY <1>c, <2>4, <3>1
    <3>2. CASE i = m + 1
      BY <1>5, <1>8, <2>1, <2>5, <3>2
    <3> QED
      BY <2>6, <3>1, <3>2
  <2>12. Len(pipe'.said) = Cardinality(Due(pipe'.read))
    BY <1>a, <2>4, <2>8 DEF PipeInd
  <2> QED
    BY <1>8, <1>9, <2>4, <2>8, <2>9, <2>10, <2>11, <2>12 DEF PipeInd
<1> QED
  BY <1>10, <1>11

(* The rate.  As long as no two requests of a caller are counted at once,  *)
(* what was dropped from a caller's entries is older than a minute for     *)
(* whoever counts, so what is counted is what there was in the minute.     *)
Stamp == Nat \X Nat
Places == {"idle", "count", "keep", "look", "append", "dispatch"}
Thread == [at : Places, key : E!Callers, entry : Stamp, kept : SUBSET Stamp]
Younger(e, now) == e[1] + 2 > now
InMinute(k, now) == {d \in admitted[k] : d[1] <= now /\ Younger(d, now)}
RateType == /\ conn \in [Connections -> Thread]
            /\ bucket \in [E!Callers -> SUBSET Stamp] /\ admitted \in [E!Callers -> SUBSET Stamp]
            /\ \A k \in E!Callers : IsFiniteSet(admitted[k])
            /\ clock \in Nat /\ calls \in Nat
(* Of one caller no two are counted at once, and no time is yet to come.   *)
OneCounts == \A c, d \in Connections : E!Counting(c) /\ E!Counting(d) /\ conn[c].key = conn[d].key => c = d
NoneAhead == /\ \A c \in Connections : E!Counting(c) => conn[c].entry[1] <= clock
             /\ \A k \in E!Callers : \A e \in admitted[k] :
                  e[1] <= clock /\ \A c \in Connections : E!Counting(c) /\ conn[c].key = k => e[1] <= conn[c].entry[1]
(* An entry that is gone is older than a minute.                           *)
GoneIsOld == \A k \in E!Callers :
    /\ bucket[k] \subseteq admitted[k]
    /\ \A e \in admitted[k] \ bucket[k] :
         /\ ~Younger(e, clock)
         /\ \A c \in Connections : E!Counting(c) /\ conn[c].key = k => ~Younger(e, conn[c].entry[1])
(* What a thread that counts has found out holds until it is done.         *)
KeptIsRecent == \A c \in Connections :
    conn[c].at = "keep" => conn[c].kept = E!Recent(bucket[conn[c].key], conn[c].entry[1])
RoomLeft == \A c \in Connections : conn[c].at = "append" => Cardinality(bucket[conn[c].key]) < PerMinute
Bounded == \A k \in E!Callers : \A e \in admitted[k] : Cardinality(InMinute(k, e[1])) <= PerMinute
RateInd == /\ RateType
           /\ ~overlap => OneCounts /\ NoneAhead /\ GoneIsOld /\ KeptIsRecent /\ RoomLeft /\ Bounded

LEMMA RatePromise == RateInd => E!RateKept
BY DEF RateInd, Bounded, InMinute, Younger, E!RateKept, E!Cardinality, Cardinality

LEMMA IdleType == E!Idle \in Thread /\ E!Idle.at = "idle"
BY DEF E!Idle, Thread, Places, Stamp, E!Callers, E!Peers, E!Bearers

LEMMA RateInit == E!Init => RateInd
<1> SUFFICES ASSUME E!Init PROVE RateInd
  OBVIOUS
<1>1. /\ conn = [c \in Connections |-> E!Idle] /\ bucket = [k \in E!Callers |-> {}]
      /\ admitted = [k \in E!Callers |-> {}] /\ clock = 1 /\ calls = 0
  BY DEF E!Init
<1>2. RateType
  BY <1>1, IdleType, FS_EmptySet DEF RateType
<1>3. \A c \in Connections : conn[c].at = "idle"
  BY <1>1, IdleType
<1>4. OneCounts /\ NoneAhead /\ GoneIsOld /\ KeptIsRecent /\ RoomLeft /\ Bounded
  BY <1>1, <1>3 DEF OneCounts, NoneAhead, GoneIsOld, KeptIsRecent, RoomLeft, Bounded, E!Counting
<1> QED
  BY <1>2, <1>4 DEF RateInd

(* A thread comes to rest, or leaves the counter, and nobody's entries change. *)
LEMMA RateRests ==
    ASSUME NEW c \in Connections, RateInd, conn' \in [Connections -> Thread],
           \A d \in Connections \ {c} : conn'[d] = conn[d], conn'[c].at \in {"idle", "dispatch"},
           UNCHANGED <<bucket, admitted, clock>>, overlap => overlap', calls' \in Nat
    PROVE  RateInd'
<1>1. RateType'
  BY DEF RateInd, RateType
<1>2. \A d \in Connections : E!Counting(d)' => d # c /\ E!Counting(d) /\ conn'[d] = conn[d]
  BY DEF E!Counting
<1>3. \A d \in Connections : conn'[d].at \in {"keep", "append"} => conn'[d] = conn[d]
  OBVIOUS
<1>4. ASSUME ~overlap PROVE (OneCounts /\ NoneAhead /\ GoneIsOld /\ KeptIsRecent /\ RoomLeft /\ Bounded)'
  <2>0. OneCounts /\ NoneAhead /\ GoneIsOld /\ KeptIsRecent /\ RoomLeft /\ Bounded
    BY <1>4 DEF RateInd
  <2>1. OneCounts'
    BY <1>2, <2>0 DEF OneCounts
  <2>2. NoneAhead'
    BY <1>2, <2>0 DEF NoneAhead
  <2>3. GoneIsOld'
    BY <1>2, <2>0 DEF GoneIsOld, Younger
  <2>4. KeptIsRecent'
    BY <1>3, <2>0 DEF KeptIsRecent, E!Recent
  <2>5. RoomLeft'
    BY <1>3, <2>0 DEF RoomLeft
  <2>6. Bounded'
    BY <2>0 DEF Bounded, InMinute, Younger
  <2> QED
    BY <2>1, <2>2, <2>3, <2>4, <2>5, <2>6
<1> QED
  BY <1>1, <1>4 DEF RateInd

(* A request is let in, and reads the clock.                               *)
LEMMA RateBegins ==
    ASSUME NEW c \in Connections, NEW k \in E!Callers, NEW w, RateInd,
           w = [at |-> "count", key |-> k, entry |-> <<clock, calls + 1>>, kept |-> {}],
           conn' = [conn EXCEPT ![c] = w], calls' = calls + 1,
           UNCHANGED <<bucket, admitted, clock>>,
           overlap' \/ (~overlap /\ \A d \in Connections \ {c} : ~(E!Counting(d) /\ conn[d].key = k))
    PROVE  RateInd'
<1>0. clock \in Nat /\ calls \in Nat /\ conn \in [Connections -> Thread] /\ RateType
  BY DEF RateInd, RateType
<1>1. w \in Thread /\ w.at = "count" /\ w.key = k /\ w.entry[1] = clock
  BY <1>0 DEF Thread, Places, Stamp
<1>2. conn' \in [Connections -> Thread] /\ conn'[c] = w /\ \A d \in Connections \ {c} : conn'[d] = conn[d]
  BY <1>0, <1>1
<1>3. RateType'
  BY <1>0, <1>2 DEF RateType
<1>4. \A d \in Connections : E!Counting(d)' => d = c \/ (E!Counting(d) /\ conn'[d] = conn[d])
  BY <1>2 DEF E!Counting
<1>5. \A d \in Connections : conn'[d].at \in {"keep", "append"} => conn'[d] = conn[d]
  BY <1>1, <1>2
<1>6. ASSUME ~overlap' PROVE (OneCounts /\ NoneAhead /\ GoneIsOld /\ KeptIsRecent /\ RoomLeft /\ Bounded)'
  <2>0. /\ OneCounts /\ NoneAhead /\ GoneIsOld /\ KeptIsRecent /\ RoomLeft /\ Bounded
        /\ \A d \in Connections \ {c} : ~(E!Counting(d) /\ conn[d].key = k)
    BY <1>6 DEF RateInd
  <2>1. OneCounts'
    BY <1>1, <1>2, <1>4, <2>0 DEF OneCounts
  <2>2. NoneAhead'
    BY <1>0, <1>1, <1>2, <1>4, <2>0 DEF NoneAhead
  <2>3. GoneIsOld'
    BY <1>1, <1>2, <1>4, <2>0 DEF GoneIsOld, Younger
  <2>4. KeptIsRecent'
    BY <1>5, <2>0 DEF KeptIsRecent, E!Recent
  <2>5. RoomLeft'
    BY <1>5, <2>0 DEF RoomLeft
  <2>6. Bounded'
    BY <2>0 DEF Bounded, InMinute, Younger
  <2> QED
    BY <2>1, <2>2, <2>3, <2>4, <2>5, <2>6
<1> QED
  BY <1>3, <1>6 DEF RateInd

(* Within the counter a thread keeps its caller and the time it has read.  *)
LEMMA RateMoves ==
    ASSUME NEW c \in Connections, RateInd, E!Counting(c), conn' \in [Connections -> Thread],
           \A d \in Connections \ {c} : conn'[d] = conn[d],
           conn'[c].key = conn[c].key, conn'[c].entry = conn[c].entry,
           UNCHANGED <<admitted, clock, overlap, calls>>, bucket' \in [E!Callers -> SUBSET Stamp], ~overlap
    PROVE  RateType' /\ OneCounts' /\ NoneAhead' /\ Bounded'
<1>0. RateType /\ OneCounts /\ NoneAhead /\ GoneIsOld /\ KeptIsRecent /\ RoomLeft /\ Bounded
  BY DEF RateInd
<1>1. RateType'
  BY <1>0 DEF RateType
<1>2. \A d \in Connections : /\ E!Counting(d)' => E!Counting(d)
                             /\ conn'[d].key = conn[d].key /\ conn'[d].entry = conn[d].entry
  BY DEF E!Counting
<1>3. OneCounts'
  BY <1>0, <1>2 DEF OneCounts
<1>4. NoneAhead'
  BY <1>0, <1>2 DEF NoneAhead
<1>5. Bounded'
  BY <1>0 DEF Bounded, InMinute, Younger
<1> QED
  BY <1>1, <1>3, <1>4, <1>5

LEMMA RateFilter ==
    ASSUME NEW c \in Connections, RateInd, E!Filter(c)
    PROVE  RateInd'
<1>0. RateType /\ conn \in [Connections -> Thread] /\ bucket \in [E!Callers -> SUBSET Stamp]
  BY DEF RateInd, RateType
<1> DEFINE recent == E!Recent(bucket[conn[c].key], conn[c].entry[1])
           f1 == [conn EXCEPT ![c].at = "keep"]
<1>1. conn[c].at = "count" /\ conn' = [f1 EXCEPT ![c].kept = recent]
      /\ UNCHANGED <<bucket, clock, admitted, overlap, calls>>
  BY DEF E!Filter
<1>2. conn[c] \in Thread /\ recent \in SUBSET Stamp
  BY <1>0 DEF Thread, E!Recent
<1> HIDE DEF recent
<1>3. /\ f1 \in [Connections -> Thread] /\ f1[c].at = "keep" /\ f1[c].key = conn[c].key /\ f1[c].entry = conn[c].entry
      /\ \A d \in Connections \ {c} : f1[d] = conn[d]
  BY <1>0 DEF Thread, Places
<1> HIDE DEF f1
<1>4. /\ conn' \in [Connections -> Thread] /\ conn'[c].at = "keep" /\ conn'[c].key = conn[c].key
      /\ conn'[c].entry = conn[c].entry /\ conn'[c].kept = recent
      /\ \A d \in Connections \ {c} : conn'[d] = conn[d]
  BY <1>1, <1>2, <1>3 DEF Thread
<1>5. ASSUME overlap PROVE RateInd'
  BY <1>0, <1>1, <1>4, <1>5 DEF RateInd, RateType
<1>6. ASSUME ~overlap PROVE RateInd'
  <2>0. OneCounts /\ NoneAhead /\ GoneIsOld /\ KeptIsRecent /\ RoomLeft /\ Bounded /\ E!Counting(c)
    BY <1>1, <1>6 DEF RateInd, E!Counting
  <2>1. RateType' /\ OneCounts' /\ NoneAhead' /\ Bounded'
    BY <1>0, <1>1, <1>4, <1>6, <2>0, RateMoves
  <2>2. \A d \in Connections : /\ E!Counting(d)' => E!Counting(d)
                               /\ conn'[d].key = conn[d].key /\ conn'[d].entry = conn[d].entry
    BY <1>4, <2>0 DEF E!Counting
  <2>3. GoneIsOld'
    BY <1>1, <2>0, <2>2 DEF GoneIsOld, Younger
  <2>4. KeptIsRecent'
    BY <1>1, <1>4, <2>0 DEF KeptIsRecent, recent, E!Recent
  <2>5. RoomLeft'
    BY <1>1, <1>4, <2>0 DEF RoomLeft
  <2> QED
    BY <2>1, <2>3, <2>4, <2>5 DEF RateInd
<1> QED
  BY <1>5, <1>6

LEMMA RateKeep ==
    ASSUME NEW c \in Connections, RateInd, E!Keep(c)
    PROVE  RateInd'
<1>0. RateType /\ conn \in [Connections -> Thread] /\ bucket \in [E!Callers -> SUBSET Stamp]
  BY DEF RateInd, RateType
<1> DEFINE k == conn[c].key
           now == conn[c].entry[1]
           f1 == [conn EXCEPT ![c].at = "look"]
<1>1. conn[c].at = "keep" /\ conn' = [f1 EXCEPT ![c].kept = {}] /\ bucket' = [bucket EXCEPT ![k] = conn[c].kept]
      /\ UNCHANGED <<clock, admitted, overlap, calls>>
  BY DEF E!Keep
<1>2. conn[c] \in Thread /\ k \in E!Callers /\ conn[c].kept \in SUBSET Stamp
  BY <1>0 DEF Thread
<1>3. /\ f1 \in [Connections -> Thread] /\ f1[c].at = "look" /\ f1[c].key = conn[c].key /\ f1[c].entry = conn[c].entry
      /\ \A d \in Connections \ {c} : f1[d] = conn[d]
  BY <1>0 DEF Thread, Places
<1> HIDE DEF f1
<1>4. /\ conn' \in [Connections -> Thread] /\ conn'[c].at = "look" /\ conn'[c].key = conn[c].key
      /\ conn'[c].entry = conn[c].entry /\ \A d \in Connections \ {c} : conn'[d] = conn[d]
  BY <1>1, <1>2, <1>3 DEF Thread
<1>5. /\ bucket' \in [E!Callers -> SUBSET Stamp] /\ bucket'[k] = conn[c].kept
      /\ \A j \in E!Callers \ {k} : bucket'[j] = bucket[j]
  BY <1>0, <1>1, <1>2
<1>6. ASSUME overlap PROVE RateInd'
  BY <1>0, <1>1, <1>4, <1>5, <1>6 DEF RateInd, RateType
<1>7. ASSUME ~overlap PROVE RateInd'
  <2>0. OneCounts /\ NoneAhead /\ GoneIsOld /\ KeptIsRecent /\ RoomLeft /\ Bounded /\ E!Counting(c)
    BY <1>1, <1>7 DEF RateInd, E!Counting
  <2>1. RateType' /\ OneCounts' /\ NoneAhead' /\ Bounded'
    BY <1>0, <1>1, <1>4, <1>5, <1>7, <2>0, RateMoves
  <2>2. \A d \in Connections : /\ E!Counting(d)' => E!Counting(d)
                               /\ conn'[d].key = conn[d].key /\ conn'[d].entry = conn[d].entry
    BY <1>4, <2>0 DEF E!Counting
  <2>3. \A d \in Connections \ {c} : E!Counting(d) => conn[d].key # k
    BY <2>0 DEF OneCounts
  <2>4. bucket'[k] = E!Recent(bucket[k], now)
    BY <1>1, <1>5, <2>0 DEF KeptIsRecent
  <2>5. GoneIsOld'
    <3>1. ASSUME NEW j \in E!Callers, j # k
          PROVE  /\ bucket'[j] \subseteq admitted'[j]
                 /\ \A e \in admitted'[j] \ bucket'[j] :
                      /\ ~Younger(e, clock')
                      /\ \A d \in Connections : E!Counting(d)' /\ conn'[d].key = j => ~Younger(e, conn'[d].entry[1])
      BY <1>1, <1>5, <2>0, <2>2, <3>1 DEF GoneIsOld
    <3>2. bucket'[k] \subseteq admitted'[k]
      BY <1>1, <1>2, <2>0, <2>4 DEF GoneIsOld, E!Recent
    <3>3. ASSUME NEW e \in admitted'[k] \ bucket'[k]
          PROVE  ~Younger(e, clock') /\ ~Younger(e, now)
      <4>1. CASE e \in bucket[k]
        <5>1. ~Younger(e, now)
          BY <2>4, <3>3, <4>1 DEF E!Recent, Younger
        <5>2. now <= clock /\ now \in Nat /\ clock \in Nat /\ e[1] \in Nat
          BY <1>0, <1>1, <1>2, <2>0, <4>1 DEF NoneAhead, RateType, Thread, Stamp
        <5> QED
          BY <1>1, <5>1, <5>2 DEF Younger
      <4>2. CASE e \notin bucket[k]
        BY <1>1, <1>2, <2>0, <3>3, <4>2 DEF GoneIsOld
      <4> QED
        BY <4>1, <4>2
    <3>4. \A d \in Connections : E!Counting(d)' /\ conn'[d].key = k => d = c
      BY <2>2, <2>3
    <3> QED
      BY <1>4, <3>1, <3>2, <3>3, <3>4 DEF GoneIsOld
  <2>6. \A d \in Connections : conn'[d].at \in {"keep", "append"} =>
            conn'[d] = conn[d] /\ conn[d].key # k /\ conn[d].key \in E!Callers
    BY <1>0, <1>4, <2>3 DEF E!Counting, Thread
  <2>7. KeptIsRecent'
    BY <1>5, <2>0, <2>6 DEF KeptIsRecent, E!Recent
  <2>8. RoomLeft'
    BY <1>5, <2>0, <2>6 DEF RoomLeft
  <2> QED
    BY <2>1, <2>5, <2>7, <2>8 DEF RateInd
<1> QED
  BY <1>6, <1>7

LEMMA RateLooks ==
    ASSUME NEW c \in Connections, PerMinute \in Nat, RateInd, conn[c].at = "look", ~E!Full(bucket[conn[c].key]),
           conn' = [conn EXCEPT ![c].at = "append"],
           UNCHANGED <<bucket, clock, admitted, overlap, calls>>
    PROVE  RateInd'
<1>0. RateType /\ conn \in [Connections -> Thread] /\ bucket \in [E!Callers -> SUBSET Stamp]
  BY DEF RateInd, RateType
<1>1. /\ conn' \in [Connections -> Thread] /\ conn'[c].at = "append" /\ conn'[c].key = conn[c].key
      /\ conn'[c].entry = conn[c].entry /\ \A d \in Connections \ {c} : conn'[d] = conn[d]
      /\ conn[c].key \in E!Callers
  BY <1>0 DEF Thread, Places
<1>2. ASSUME overlap PROVE RateInd'
  BY <1>0, <1>1, <1>2 DEF RateInd, RateType
<1>3. ASSUME ~overlap PROVE RateInd'
  <2>0. OneCounts /\ NoneAhead /\ GoneIsOld /\ KeptIsRecent /\ RoomLeft /\ Bounded /\ E!Counting(c)
    BY <1>3 DEF RateInd, E!Counting
  <2>1. RateType' /\ OneCounts' /\ NoneAhead' /\ Bounded'
    BY <1>0, <1>1, <1>3, <2>0, RateMoves
  <2>2. \A d \in Connections : /\ E!Counting(d)' => E!Counting(d)
                               /\ conn'[d].key = conn[d].key /\ conn'[d].entry = conn[d].entry
    BY <1>1, <2>0 DEF E!Counting
  <2>3. GoneIsOld'
    BY <2>0, <2>2 DEF GoneIsOld, Younger
  <2>4. KeptIsRecent'
    BY <1>1, <2>0 DEF KeptIsRecent, E!Recent
  <2>5. Cardinality(bucket[conn[c].key]) < PerMinute
    <3>1. IsFiniteSet(bucket[conn[c].key])
      BY <1>0, <1>1, <2>0, FS_Subset DEF GoneIsOld, RateType
    <3>2. ~(Cardinality(bucket[conn[c].key]) >= PerMinute)
      BY DEF E!Full, E!Cardinality, Cardinality
    <3> QED
      BY <3>1, <3>2, FS_CardinalityType
  <2>6. RoomLeft'
    BY <1>1, <2>0, <2>5 DEF RoomLeft
  <2> QED
    BY <2>1, <2>3, <2>4, <2>6 DEF RateInd
<1> QED
  BY <1>2, <1>3

(* A request is let through: what there was in the minute before it is     *)
(* among the entries that were counted.                                    *)
LEMMA RateAdmit ==
    ASSUME NEW c \in Connections, PerMinute \in Nat, RateInd, E!Admit(c)
    PROVE  RateInd'
<1>0. RateType /\ conn \in [Connections -> Thread] /\ bucket \in [E!Callers -> SUBSET Stamp]
      /\ admitted \in [E!Callers -> SUBSET Stamp] /\ clock \in Nat
  BY DEF RateInd, RateType
<1> DEFINE k == conn[c].key
           new == conn[c].entry
           w == [E!Idle EXCEPT !.at = "dispatch"]
<1>1. /\ conn[c].at = "append" /\ conn' = [conn EXCEPT ![c] = w]
      /\ bucket' = [bucket EXCEPT ![k] = bucket[k] \cup {new}]
      /\ admitted' = [admitted EXCEPT ![k] = admitted[k] \cup {new}]
      /\ UNCHANGED <<clock, overlap, calls>>
  BY DEF E!Admit
<1>2. conn[c] \in Thread /\ k \in E!Callers /\ new \in Stamp /\ new[1] \in Nat
  BY <1>0 DEF Thread, Stamp
<1>3. w \in Thread /\ w.at = "dispatch"
  BY IdleType DEF Thread, Places
<1> HIDE DEF w
<1>4. conn' \in [Connections -> Thread] /\ conn'[c].at = "dispatch" /\ \A d \in Connections \ {c} : conn'[d] = conn[d]
  BY <1>0, <1>1, <1>3
<1>5. /\ bucket' \in [E!Callers -> SUBSET Stamp] /\ admitted' \in [E!Callers -> SUBSET Stamp]
      /\ bucket'[k] = bucket[k] \cup {new} /\ admitted'[k] = admitted[k] \cup {new}
      /\ \A j \in E!Callers \ {k} : bucket'[j] = bucket[j] /\ admitted'[j] = admitted[j]
  BY <1>0, <1>1, <1>2
<1>6. \A j \in E!Callers : IsFiniteSet(admitted'[j])
  <2> SUFFICES ASSUME NEW j \in E!Callers PROVE IsFiniteSet(admitted'[j])
    OBVIOUS
  <2>1. IsFiniteSet(admitted[j])
    BY <1>0 DEF RateType
  <2>2. IsFiniteSet(admitted[j] \cup {new})
    BY <2>1, FS_AddElement
  <2> QED
    BY <1>5, <2>1, <2>2
<1>7. RateType'
  BY <1>0, <1>1, <1>4, <1>5, <1>6 DEF RateType
<1>8. ASSUME ~overlap PROVE (OneCounts /\ NoneAhead /\ GoneIsOld /\ KeptIsRecent /\ RoomLeft /\ Bounded)'
  <2>0. OneCounts /\ NoneAhead /\ GoneIsOld /\ KeptIsRecent /\ RoomLeft /\ Bounded /\ E!Counting(c)
    BY <1>1, <1>8 DEF RateInd, E!Counting
  <2>1. \A d \in Connections : E!Counting(d)' => d # c /\ E!Counting(d) /\ conn'[d] = conn[d] /\ conn[d].key # k
    BY <1>4, <2>0 DEF E!Counting, OneCounts
  <2>2. \A d \in Connections : conn'[d].at \in {"keep", "append"} =>
            conn'[d] = conn[d] /\ conn[d].key # k /\ conn[d].key \in E!Callers
    BY <1>0, <1>4, <2>0 DEF E!Counting, OneCounts, Thread
  <2>3. OneCounts'
    BY <2>0, <2>1 DEF OneCounts
  <2>4. NoneAhead'
    BY <1>1, <1>5, <2>0, <2>1 DEF NoneAhead
  <2>5. GoneIsOld'
    BY <1>1, <1>5, <2>0, <2>1 DEF GoneIsOld, Younger
  <2>6. KeptIsRecent'
    BY <1>5, <2>0, <2>2 DEF KeptIsRecent, E!Recent
  <2>7. RoomLeft'
    BY <1>5, <2>0, <2>2 DEF RoomLeft
  <2>8. Bounded'
    <3> DEFINE Now(e) == {d \in admitted'[k] : d[1] <= e[1] /\ Younger(d, e[1])}
    <3>1. ASSUME NEW j \in E!Callers, j # k, NEW e \in admitted'[j]
          PROVE  Cardinality({d \in admitted'[j] : d[1] <= e[1] /\ Younger(d, e[1])}) <= PerMinute
      BY <1>5, <2>0, <3>1 DEF Bounded, InMinute
    <3>2. Cardinality(Now(new)) <= PerMinute
      <4>1. Now(new) \subseteq bucket[k] \cup {new}
        BY <1>2, <1>5, <2>0 DEF GoneIsOld
      <4>2. IsFiniteSet(bucket[k])
        BY <1>0, <1>2, <2>0, FS_Subset DEF GoneIsOld, RateType
      <4>3. IsFiniteSet(bucket[k] \cup {new}) /\ Cardinality(bucket[k] \cup {new}) <= Cardinality(bucket[k]) + 1
        <5> DEFINE N == Cardinality(bucket[k])
        <5>1. N \in Nat
          BY <4>2, FS_CardinalityType
        <5>2. /\ IsFiniteSet(bucket[k] \cup {new})
              /\ Cardinality(bucket[k] \cup {new}) = IF new \in bucket[k] THEN N ELSE N + 1
          BY <4>2, FS_AddElement
        <5> HIDE DEF N
        <5>3. Cardinality(bucket[k] \cup {new}) <= N + 1
          BY <5>1, <5>2
        <5> QED
          BY <5>2, <5>3 DEF N
      <4>4. Cardinality(bucket[k]) < PerMinute /\ Cardinality(bucket[k]) \in Nat
        BY <1>1, <2>0, <4>2, FS_CardinalityType DEF RoomLeft
      <4> HIDE DEF Now
      <4>5. /\ Cardinality(Now(new)) <= Cardinality(bucket[k] \cup {new}) /\ Cardinality(Now(new)) \in Nat
            /\ Cardinality(bucket[k] \cup {new}) \in Nat
        BY <4>1, <4>3, FS_Subset, FS_CardinalityType
      <4> QED
        BY <4>3, <4>4, <4>5
    <3>3. ASSUME NEW e \in admitted'[k] PROVE Cardinality(Now(e)) <= PerMinute
      <4>1. CASE e[1] = new[1]
        <5>1. Now(e) = Now(new)
          BY <4>1
        <5> QED
          BY <3>2, <5>1
      <4>2. CASE e[1] # new[1]
        <5>1. e \in admitted[k] /\ e[1] \in Nat /\ e[1] <= new[1]
          BY <1>0, <1>2, <1>5, <2>0, <4>2 DEF NoneAhead, Stamp
        <5>2. Now(e) = {d \in admitted[k] : d[1] <= e[1] /\ Younger(d, e[1])}
          BY <1>2, <1>5, <4>2, <5>1
        <5>3. Cardinality({d \in admitted[k] : d[1] <= e[1] /\ Younger(d, e[1])}) <= PerMinute
          BY <1>2, <2>0, <5>1 DEF Bounded, InMinute
        <5> QED
          BY <5>2, <5>3
      <4> QED
        BY <4>1, <4>2
    <3> QED
      BY <3>1, <3>3 DEF Bounded, InMinute, Younger
  <2> QED
    BY <2>3, <2>4, <2>5, <2>6, <2>7, <2>8
<1> QED
  BY <1>1, <1>7, <1>8 DEF RateInd

LEMMA RateTick == RateInd /\ E!Tick => RateInd'
<1> SUFFICES ASSUME RateInd, E!Tick PROVE RateInd'
  OBVIOUS
<1>1. clock' = clock + 1 /\ UNCHANGED <<conn, bucket, admitted, overlap, calls>>
  BY DEF E!Tick
<1>2. RateType /\ RateType' /\ clock \in Nat
  BY <1>1 DEF RateInd, RateType
<1>3. ASSUME ~overlap PROVE (OneCounts /\ NoneAhead /\ GoneIsOld /\ KeptIsRecent /\ RoomLeft /\ Bounded)'
  <2>0. OneCounts /\ NoneAhead /\ GoneIsOld /\ KeptIsRecent /\ RoomLeft /\ Bounded
    BY <1>3 DEF RateInd
  <2>1. OneCounts' /\ KeptIsRecent' /\ RoomLeft' /\ Bounded'
    BY <1>1, <2>0 DEF OneCounts, KeptIsRecent, RoomLeft, Bounded, InMinute, Younger, E!Counting, E!Recent
  <2>2. \A c \in Connections : conn[c].entry[1] \in Nat
    BY <1>2 DEF RateType, Thread, Stamp
  <2>3. \A k \in E!Callers : \A e \in admitted[k] : e[1] \in Nat
    BY <1>2 DEF RateType, Stamp
  <2>4. NoneAhead'
    BY <1>1, <1>2, <2>0, <2>2, <2>3 DEF NoneAhead, E!Counting
  <2>5. GoneIsOld'
    BY <1>1, <1>2, <2>0, <2>3 DEF GoneIsOld, E!Counting, Younger
  <2> QED
    BY <2>1, <2>4, <2>5
<1> QED
  BY <1>1, <1>2, <1>3 DEF RateInd

LEMMA RateStays == RateInd /\ UNCHANGED <<conn, bucket, clock, admitted, overlap, calls>> => RateInd'
BY DEF RateInd, RateType, OneCounts, NoneAhead, GoneIsOld, KeptIsRecent, RoomLeft, Bounded, InMinute, E!Counting, E!Recent

(* The steps of a connection.                                              *)
LEMMA RateAnswers ==
    ASSUME NEW c \in Connections, RateInd, conn' = [conn EXCEPT ![c] = E!Idle],
           UNCHANGED <<bucket, clock, admitted>>, calls' \in Nat, overlap => overlap'
    PROVE  RateInd'
<1>1. conn \in [Connections -> Thread]
  BY DEF RateInd, RateType
<1>2. conn' \in [Connections -> Thread] /\ conn'[c].at = "idle" /\ \A d \in Connections \ {c} : conn'[d] = conn[d]
  BY <1>1, IdleType
<1> QED
  BY <1>2, RateRests

LEMMA RateStep ==
    ASSUME PerMinute \in Nat, RateInd, NEW c \in Connections,
           \/ E!Get(c) \/ E!PostToken(c) \/ E!PostRpc(c) \/ E!Filter(c) \/ E!Keep(c)
           \/ E!CountIt(c) \/ E!Admit(c) \/ E!Dispatch(c)
    PROVE  RateInd'
<1>0. calls \in Nat
  BY DEF RateInd, RateType
<1>1. CASE E!Get(c)
  <2>1. conn' = [conn EXCEPT ![c] = E!Idle] /\ calls' = calls + 1 /\ UNCHANGED <<bucket, clock, admitted, overlap>>
    BY <1>1 DEF E!Get, E!Answered
  <2>2. calls' \in Nat
    BY <1>0, <2>1
  <2> QED
    BY <2>1, <2>2, RateAnswers
<1>2. CASE E!PostToken(c)
  <2>1. conn' = [conn EXCEPT ![c] = E!Idle] /\ calls' = calls + 1 /\ UNCHANGED <<bucket, clock, admitted, overlap>>
    BY <1>2 DEF E!PostToken, E!Answered
  <2>2. calls' \in Nat
    BY <1>0, <2>1
  <2> QED
    BY <2>1, <2>2, RateAnswers
<1>3. CASE E!PostRpc(c)
  <2>1. PICK h \in E!Headers, bearer \in E!Bearers :
          \E peer \in IF bearer = "none" THEN E!Peers ELSE {"local"} :
            /\ conn[c].at = "idle" /\ calls < MaxCalls /\ calls' = calls + 1
            /\ LET status == E!GuardRequest(settings, issued, E!Request(h, bearer, peer), TRUE, TRUE)
               IN  IF status # 200 THEN E!Answered(c, status) /\ UNCHANGED overlap
                   ELSE /\ conn' = [conn EXCEPT ![c] = [at |-> "count", key |-> <<peer, bearer>>,
                                                        entry |-> <<clock, calls + 1>>, kept |-> {}]]
                        /\ overlap' = (overlap \/ \E d \in Connections \ {c} :
                                              E!Counting(d) /\ conn[d].key = <<peer, bearer>>)
                        /\ UNCHANGED reply
            /\ UNCHANGED <<settings, issued, bucket, clock, admitted, pipe>>
    BY Zenon, <1>3 DEF E!PostRpc
  <2>2. PICK peer \in IF bearer = "none" THEN E!Peers ELSE {"local"} :
            /\ conn[c].at = "idle" /\ calls < MaxCalls /\ calls' = calls + 1
            /\ LET status == E!GuardRequest(settings, issued, E!Request(h, bearer, peer), TRUE, TRUE)
               IN  IF status # 200 THEN E!Answered(c, status) /\ UNCHANGED overlap
                   ELSE /\ conn' = [conn EXCEPT ![c] = [at |-> "count", key |-> <<peer, bearer>>,
                                                        entry |-> <<clock, calls + 1>>, kept |-> {}]]
                        /\ overlap' = (overlap \/ \E d \in Connections \ {c} :
                                              E!Counting(d) /\ conn[d].key = <<peer, bearer>>)
                        /\ UNCHANGED reply
            /\ UNCHANGED <<settings, issued, bucket, clock, admitted, pipe>>
    BY Zenon, <2>1
  <2> DEFINE status == E!GuardRequest(settings, issued, E!Request(h, bearer, peer), TRUE, TRUE)
             k == <<peer, bearer>>
  <2>3. CASE status # 200
    <3>1. conn' = [conn EXCEPT ![c] = E!Idle] /\ UNCHANGED <<bucket, clock, admitted, overlap>> /\ calls' = calls + 1
      BY <2>2, <2>3 DEF E!Answered
    <3>2. calls' \in Nat
      BY <1>0, <3>1
    <3> QED
      BY <3>1, <3>2, RateAnswers
  <2>4. CASE status = 200
    <3>1. peer \in E!Peers
      BY <2>2 DEF E!Peers
    <3>2. k \in E!Callers
      BY <3>1 DEF E!Callers
    <3>3. PICK w : w = [at |-> "count", key |-> k, entry |-> <<clock, calls + 1>>, kept |-> {}]
      OBVIOUS
    <3>4. /\ conn' = [conn EXCEPT ![c] = w] /\ calls' = calls + 1 /\ UNCHANGED <<bucket, admitted, clock>>
          /\ overlap' = (overlap \/ \E d \in Connections \ {c} : E!Counting(d) /\ conn[d].key = k)
      BY <2>2, <2>4, <3>3
    <3>5. overlap' \/ (~overlap /\ \A d \in Connections \ {c} : ~(E!Counting(d) /\ conn[d].key = k))
      BY Zenon, <3>4
    <3> HIDE DEF k
    <3> QED
      BY <3>2, <3>3, <3>4, <3>5, RateBegins
  <2> QED
    BY <2>3, <2>4
<1>4. CASE E!Filter(c) \/ E!Keep(c) \/ E!Admit(c)
  BY <1>4, RateFilter, RateKeep, RateAdmit
<1>5. CASE E!CountIt(c)
  <2>1. conn[c].at = "look" /\ UNCHANGED <<bucket, clock, admitted, overlap, calls>>
    BY <1>5 DEF E!CountIt
  <2>2. CASE E!Full(bucket[conn[c].key])
    <3>1. conn' = [conn EXCEPT ![c] = E!Idle]
      BY <1>5, <2>2 DEF E!CountIt, E!Answered
    <3> QED
      BY <1>0, <2>1, <3>1, RateAnswers
  <2>3. CASE ~E!Full(bucket[conn[c].key])
    <3>1. conn' = [conn EXCEPT ![c].at = "append"]
      BY <1>5, <2>3 DEF E!CountIt
    <3> QED
      BY <2>1, <2>3, <3>1, RateLooks
  <2> QED
    BY <2>2, <2>3
<1>6. CASE E!Dispatch(c)
  <2>1. conn' = [conn EXCEPT ![c] = E!Idle] /\ UNCHANGED <<bucket, clock, admitted, overlap, calls>>
    BY <1>6 DEF E!Dispatch, E!Answered
  <2> QED
    BY <1>0, <2>1, RateAnswers
<1> QED
  BY <1>1, <1>2, <1>3, <1>4, <1>5, <1>6

(* The server.                                                             *)
ServerInd == Started /\ PipeInd /\ RateInd
LEMMA ServerInit == ServerCounted /\ E!Init => ServerInd
<1> SUFFICES ASSUME E!Init PROVE ServerInd
  OBVIOUS
<1>1. Started
  BY DEF E!Init, Started
<1>2. pipe.read = <<>> /\ pipe.said = <<>>
  BY DEF E!Init
<1> QED
  BY <1>1, <1>2, PipeInit, RateInit DEF ServerInd

LEMMA ServerStep == ServerCounted /\ ServerInd /\ E!Next => ServerInd'
<1> SUFFICES ASSUME ServerCounted, ServerInd, E!Next PROVE ServerInd'
  OBVIOUS
<1>0. Started /\ PipeInd /\ RateInd /\ PerMinute \in Nat
  BY DEF ServerInd, ServerCounted
<1>1. ASSUME NEW c \in Connections,
             \/ E!Get(c) \/ E!PostToken(c) \/ E!PostRpc(c) \/ E!Filter(c) \/ E!Keep(c)
             \/ E!CountIt(c) \/ E!Admit(c) \/ E!Dispatch(c)
      PROVE  ServerInd'
  <2>1. RateInd'
    BY <1>0, <1>1, RateStep
  <2>2. UNCHANGED <<settings, pipe>>
    BY <1>1 DEF E!Get, E!PostToken, E!PostRpc, E!Filter, E!Keep, E!CountIt, E!Admit, E!Dispatch
  <2>3. issued' = issued \/ \E t \in Tokens \ issued : issued' = issued \cup {t}
    BY <1>1 DEF E!Get, E!PostToken, E!PostRpc, E!Filter, E!Keep, E!CountIt, E!Admit, E!Dispatch
  <2>4. Started'
    BY <1>0, <2>2, <2>3 DEF Started
  <2>5. PipeInd'
    BY <1>0, <2>2 DEF PipeInd, Due
  <2> QED
    BY <2>1, <2>4, <2>5 DEF ServerInd
<1>2. CASE E!Tick
  <2>1. UNCHANGED <<settings, issued, pipe>>
    BY <1>2 DEF E!Tick
  <2> QED
    BY <1>0, <1>2, <2>1, RateTick DEF ServerInd, Started, PipeInd, Due
<1>3. CASE E!ReadLine
  <2>1. UNCHANGED <<settings, issued, conn, bucket, clock, admitted, overlap, calls>>
    BY <1>3 DEF E!ReadLine
  <2> QED
    BY <1>0, <1>3, <2>1, RateStays, PipeRead DEF ServerInd, Started
<1> QED
  BY <1>1, <1>2, <1>3 DEF E!Next

LEMMA ServerStays == ServerInd /\ UNCHANGED E!serverVars => ServerInd'
BY RateStays DEF E!serverVars, ServerInd, Started, PipeInd, Due

LEMMA ServerPromise == ServerCounted /\ ServerInd => E!RateKept /\ E!UsableWhenStarted /\ E!RepliesInOrder
BY StartedUsable, PipePromise, RatePromise DEF ServerInd

-----------------------------------------------------------------------------

(* The viewer's server.  Every answer was counted; whoever stops it has    *)
(* set the flag, so that no connection is accepted any more, and unless    *)
(* the peer of the last one goes on sending it is let go before the owner  *)
(* has waited for as long as the owner does: a request that is there is    *)
(* handled at once, so that the wait for its answer to be read begins with *)
(* the owner's.                                                            *)
Times == RequestTimeout \in Nat /\ Polls \in Nat /\ Slack \in Nat \ {0} /\ MaxRequests \in Nat
PeerFields == {"sends", "verb", "path", "host", "size", "stays", "reads"}
ViewerTypes ==
    /\ DOMAIN httpd = {"socket", "payload", "served"} /\ httpd.served \in Nat
    /\ DOMAIN loop = {"at", "peer", "left"} /\ loop.at \in {"none", "poll", "held", "write", "ended"}
    /\ loop.left \in 0..RequestTimeout /\ DOMAIN loop.peer = PeerFields
    /\ DOMAIN owner = {"at", "left", "count"} /\ owner.at \in {"idle", "join", "stopped", "raised"}
    /\ owner.left \in Nat
    /\ DOMAIN met = {"starts", "connects", "slow"} /\ met.slow \in BOOLEAN
    /\ DOMAIN sent = {"count", "bodies", "last"} /\ sent.count \in Nat
Longest == IF loop.at \in {"held", "write"} THEN loop.left ELSE 0
MayHoldAnew == loop.at = "held" /\ loop.peer.sends = "request" /\ ~loop.peer.reads
ViewerStops ==
    /\ ViewerTypes
    /\ sent.count <= httpd.served
    /\ loop.at = "write" => loop.peer.sends = "request"
    /\ httpd.socket # "none" => loop.at # "none"
    /\ owner.at = "join" => /\ flag = TRUE /\ loop.at # "none"
                            /\ met.slow = TRUE \/ owner.left >= Slack + Longest
                            /\ met.slow = TRUE \/ (MayHoldAnew => owner.left >= Slack + RequestTimeout)
    /\ owner.at \in {"stopped", "raised"} => httpd.socket = "none"
    /\ owner.at = "stopped" => loop.at = "ended" /\ owner.count = httpd.served
    /\ owner.at = "raised" => met.slow = TRUE

LEMMA StopsInit == Times /\ U!Init => ViewerStops
<1> SUFFICES ASSUME Times, U!Init PROVE ViewerStops
  OBVIOUS
<1>1. /\ DOMAIN httpd = {"socket", "payload", "served"} /\ httpd.served = 0 /\ httpd.socket = "none"
      /\ DOMAIN loop = {"at", "peer", "left"} /\ loop.at = "none" /\ loop.left = 0 /\ DOMAIN loop.peer = PeerFields
      /\ DOMAIN owner = {"at", "left", "count"} /\ owner.at = "idle" /\ owner.left = 0
      /\ DOMAIN met = {"starts", "connects", "slow"} /\ met.slow \in BOOLEAN
      /\ DOMAIN sent = {"count", "bodies", "last"} /\ sent.count = 0
  BY DEF U!Init, U!Closed, U!NoLoop, U!Nothing, U!Plain, PeerFields
<1> QED
  BY <1>1 DEF ViewerStops, ViewerTypes, Times

LEMMA LongEnough == Times => U!ShutdownBudget \in Nat /\ U!ShutdownBudget >= RequestTimeout + Slack
<1> SUFFICES ASSUME Times PROVE U!ShutdownBudget \in Nat /\ U!ShutdownBudget >= RequestTimeout + Slack
  OBVIOUS
<1> DEFINE M == U!Max({Polls, RequestTimeout})
<1>1. \E x \in {Polls, RequestTimeout} : \A y \in {Polls, RequestTimeout} : x >= y
  BY DEF Times
<1>2. M \in {Polls, RequestTimeout} /\ \A y \in {Polls, RequestTimeout} : M >= y
  BY <1>1 DEF U!Max
<1> HIDE DEF M
<1>3. M \in Nat /\ M >= RequestTimeout /\ Slack \in Nat /\ RequestTimeout \in Nat
  BY <1>2 DEF Times
<1> QED
  BY <1>3 DEF U!ShutdownBudget, M

LEMMA PeersHaveFields == \A p \in U!Peers : DOMAIN p = PeerFields
BY DEF U!Peers, U!Plain, PeerFields

(* A connection that is finished with, answered or not.                    *)
LEMMA LetGo ==
    ASSUME Times, ViewerStops, loop.at \in {"held", "write"}, U!Finish(loop.peer), UNCHANGED <<flag, owner, met>>,
           \/ sent' = sent
           \/ U!Answer(loop.peer) /\ loop.peer.sends = "request"
           \/ U!Answer(loop.peer) /\ loop.at = "write"
    PROVE  ViewerStops'
<1>0. RequestTimeout \in Nat /\ Slack \in Nat
  BY DEF Times
<1>1. DOMAIN httpd' = DOMAIN httpd /\ httpd'.socket = httpd.socket
      /\ httpd'.served = IF U!Counted(loop.peer) THEN httpd.served + 1 ELSE httpd.served
  BY DEF U!Finish, ViewerStops, ViewerTypes
<1>2. DOMAIN loop' = {"at", "peer", "left"} /\ loop'.at = "poll" /\ loop'.left = 0 /\ DOMAIN loop'.peer = PeerFields
  BY DEF U!Finish, U!NoLoop, U!Plain, PeerFields
<1>3. DOMAIN sent' = DOMAIN sent /\ sent'.count \in Nat /\ sent'.count <= httpd'.served /\ httpd'.served \in Nat
  <2>1. CASE sent' = sent
    BY <1>1, <2>1 DEF ViewerStops, ViewerTypes
  <2>2. CASE sent' # sent
    <3>1. loop.peer.stays /\ loop.peer.sends = "request"
          /\ sent' = [count |-> sent.count + 1, bodies |-> sent.bodies \cup {U!Body(loop.peer)}, last |-> U!Code(loop.peer)]
      BY <2>2 DEF U!Answer, ViewerStops
    <3>2. U!Counted(loop.peer)
      BY <3>1 DEF U!Counted
    <3>3. DOMAIN sent' = {"count", "bodies", "last"} /\ sent'.count = sent.count + 1
      BY <3>1
    <3> QED
      BY <1>1, <3>2, <3>3 DEF ViewerStops, ViewerTypes
  <2> QED
    BY <2>1, <2>2
<1> QED
  BY <1>0, <1>1, <1>2, <1>3 DEF ViewerStops, ViewerTypes, Longest, MayHoldAnew

LEMMA StopsStep == Times /\ ViewerStops /\ U!Next => ViewerStops'
<1> SUFFICES ASSUME Times, ViewerStops, U!Next PROVE ViewerStops'
  OBVIOUS
<1>0. RequestTimeout \in Nat /\ Slack \in Nat
  BY DEF Times
<1>1. CASE U!Render
  BY <1>1 DEF U!Render, ViewerStops, ViewerTypes, Longest, MayHoldAnew
<1>2. CASE U!Start
  <2>1. PICK host \in U!HostKinds :
          httpd' = [socket |-> U!ResolveBindHost(host), payload |-> document, served |-> 0]
    BY <1>2 DEF U!Start
  <2>2. /\ DOMAIN httpd' = {"socket", "payload", "served"} /\ httpd'.served = 0
        /\ sent' = U!Nothing /\ loop' = [U!NoLoop EXCEPT !.at = "poll"] /\ owner' = [owner EXCEPT !.at = "idle"]
        /\ met' = [met EXCEPT !.starts = @ + 1, !.slow = FALSE]
    BY <1>2, <2>1 DEF U!Start
  <2>3. DOMAIN sent' = {"count", "bodies", "last"} /\ sent'.count = 0
    BY <2>2 DEF U!Nothing
  <2>4. DOMAIN loop' = {"at", "peer", "left"} /\ loop'.at = "poll" /\ loop'.left = 0 /\ DOMAIN loop'.peer = PeerFields
    BY <2>2 DEF U!NoLoop, U!Plain, PeerFields
  <2>5. DOMAIN owner' = {"at", "left", "count"} /\ owner'.at = "idle" /\ owner'.left = owner.left
    BY <2>2 DEF ViewerStops, ViewerTypes
  <2>6. DOMAIN met' = {"starts", "connects", "slow"} /\ met'.slow \in BOOLEAN
    BY <2>2 DEF ViewerStops, ViewerTypes
  <2> QED
    BY <1>0, <2>2, <2>3, <2>4, <2>5, <2>6 DEF ViewerStops, ViewerTypes
<1>3. CASE U!LoopEnds
  <2>1. loop.at = "poll" /\ UNCHANGED <<httpd, flag, owner, sent, met>>
        /\ loop' = [loop EXCEPT !.at = "ended"]
    BY <1>3 DEF U!LoopEnds
  <2>2. DOMAIN loop' = DOMAIN loop /\ loop'.at = "ended" /\ loop'.left = loop.left /\ loop'.peer = loop.peer
    BY <2>1 DEF ViewerStops, ViewerTypes
  <2> QED
    BY <2>1, <2>2 DEF ViewerStops, ViewerTypes, Longest, MayHoldAnew
<1>4. CASE U!Accept
  <2>1. PICK p \in U!Peers : loop' = [at |-> "held", peer |-> p, left |-> RequestTimeout]
                           /\ met' = [met EXCEPT !.connects = @ + 1]
    BY <1>4 DEF U!Accept
  <2>2. loop.at = "poll" /\ ~flag /\ UNCHANGED <<httpd, flag, owner, sent>>
    BY <1>4 DEF U!Accept
  <2>3. DOMAIN loop' = {"at", "peer", "left"} /\ loop'.at = "held" /\ loop'.left = RequestTimeout
        /\ DOMAIN loop'.peer = PeerFields
    BY <2>1, PeersHaveFields
  <2>4. DOMAIN met' = DOMAIN met /\ met'.slow = met.slow
    BY <2>1 DEF ViewerStops, ViewerTypes
  <2> QED
    BY <1>0, <2>2, <2>3, <2>4 DEF ViewerStops, ViewerTypes
<1>5. CASE U!Handle
  <2>1. CASE ~U!WriteWaits(loop.peer)
    BY <1>5, <2>1, LetGo DEF U!Handle, U!Answer
  <2>2. CASE U!WriteWaits(loop.peer)
    <3>1. /\ loop.at = "held" /\ loop.peer.sends = "request" /\ ~loop.peer.reads
          /\ loop' = [loop EXCEPT !.at = "write", !.left = RequestTimeout] /\ UNCHANGED <<httpd, sent, flag, owner, met>>
      BY <1>5, <2>2 DEF U!Handle, U!WriteWaits
    <3>2. DOMAIN loop' = DOMAIN loop /\ loop'.at = "write" /\ loop'.left = RequestTimeout /\ loop'.peer = loop.peer
      BY <3>1 DEF ViewerStops, ViewerTypes
    <3> QED
      BY <1>0, <3>1, <3>2 DEF ViewerStops, ViewerTypes, Longest, MayHoldAnew
  <2> QED
    BY <2>1, <2>2
<1>6. CASE U!TimedOut
  BY <1>6, LetGo DEF U!TimedOut
<1>7. CASE U!ReadLate
  BY <1>7, LetGo DEF U!ReadLate, U!Answer
<1>8. CASE U!SendLate
  <2>1. loop.at = "held" /\ loop' = [loop EXCEPT !.peer.sends = "request"] /\ UNCHANGED <<httpd, flag, owner, sent>>
        /\ met' = [met EXCEPT !.slow = (met.slow \/ (owner.at = "join" /\ ~loop.peer.reads))]
    BY <1>8 DEF U!SendLate
  <2>2. DOMAIN loop' = DOMAIN loop /\ loop'.at = "held" /\ loop'.left = loop.left
        /\ loop'.peer = [loop.peer EXCEPT !.sends = "request"]
    BY <2>1 DEF ViewerStops, ViewerTypes
  <2>3. DOMAIN loop'.peer = PeerFields /\ loop'.peer.reads = loop.peer.reads
    BY <2>2 DEF ViewerStops, ViewerTypes, PeerFields
  <2>4. DOMAIN met' = DOMAIN met /\ met'.slow = (met.slow \/ (owner.at = "join" /\ ~loop.peer.reads))
    BY <2>1 DEF ViewerStops, ViewerTypes
  <2>5. met'.slow \in BOOLEAN /\ (met.slow = TRUE \/ (owner.at = "join" /\ ~loop.peer.reads) => met'.slow = TRUE)
    BY <2>4
  <2>6. owner'.at = "join" => met'.slow = TRUE \/ ~MayHoldAnew'
    BY <2>1, <2>3, <2>5 DEF MayHoldAnew
  <2> QED
    BY <1>0, <2>1, <2>2, <2>3, <2>4, <2>5, <2>6 DEF ViewerStops, ViewerTypes, Longest
<1>9. CASE U!Trickle
  <2>1. loop.at = "held" /\ loop' = [loop EXCEPT !.left = RequestTimeout]
        /\ met' = [met EXCEPT !.slow = (met.slow \/ owner.at = "join")] /\ UNCHANGED <<httpd, flag, owner, sent>>
    BY <1>9 DEF U!Trickle
  <2>2. DOMAIN loop' = DOMAIN loop /\ loop'.at = "held" /\ loop'.left = RequestTimeout /\ loop'.peer = loop.peer
    BY <2>1 DEF ViewerStops, ViewerTypes
  <2>3. DOMAIN met' = DOMAIN met /\ met'.slow = (met.slow \/ owner.at = "join")
    BY <2>1 DEF ViewerStops, ViewerTypes
  <2>4. met'.slow \in BOOLEAN /\ (met.slow = TRUE \/ owner.at = "join" => met'.slow = TRUE)
    BY <2>3
  <2> QED
    BY <1>0, <2>1, <2>2, <2>3, <2>4 DEF ViewerStops, ViewerTypes
<1>10. CASE U!Tick
  <2>1. /\ loop' = [loop EXCEPT !.left = U!Less(loop.left)] /\ owner' = [owner EXCEPT !.left = U!Less(owner.left)]
        /\ UNCHANGED <<httpd, flag, sent, met>> /\ ~(loop.at \in {"held", "write"} /\ loop.left = 0)
        /\ ~(loop.at = "held" /\ loop.peer.sends = "request")
        /\ ~(owner.at = "join" /\ (owner.left = 0 \/ loop.at \in {"ended", "poll"}))
    BY <1>10 DEF U!Tick
  <2>2. DOMAIN loop' = DOMAIN loop /\ loop'.at = loop.at /\ loop'.left = U!Less(loop.left) /\ loop'.peer = loop.peer
    BY <2>1 DEF ViewerStops, ViewerTypes
  <2>3. DOMAIN owner' = DOMAIN owner /\ owner'.at = owner.at /\ owner'.left = U!Less(owner.left)
        /\ owner'.count = owner.count
    BY <2>1 DEF ViewerStops, ViewerTypes
  <2>4. \A n \in Nat : U!Less(n) \in Nat /\ U!Less(n) <= n /\ (n # 0 => U!Less(n) = n - 1)
    BY DEF U!Less
  <2>5. loop'.left \in 0..RequestTimeout /\ owner'.left \in Nat
    BY <1>0, <2>2, <2>3, <2>4 DEF ViewerStops, ViewerTypes
  <2>6. ASSUME owner.at = "join", met.slow # TRUE PROVE owner'.left >= Slack + Longest'
    <3>1. loop.at \in {"held", "write"} /\ loop.left # 0 /\ owner.left # 0 /\ owner.left >= Slack + loop.left
      BY <2>1, <2>6 DEF ViewerStops, ViewerTypes, Longest
    <3>2. loop'.left = loop.left - 1 /\ owner'.left = owner.left - 1 /\ loop.left \in Nat /\ owner.left \in Nat
      BY <1>0, <2>2, <2>3, <2>4, <3>1 DEF ViewerStops, ViewerTypes
    <3> QED
      BY <1>0, <2>2, <3>1, <3>2 DEF Longest
  <2> QED
    BY <1>0, <2>1, <2>2, <2>3, <2>5, <2>6 DEF ViewerStops, ViewerTypes, MayHoldAnew
<1>11. CASE U!Stop
  <2>1. httpd.socket # "none" /\ flag' = TRUE /\ owner' = [owner EXCEPT !.at = "join", !.left = U!ShutdownBudget]
        /\ UNCHANGED <<httpd, loop, sent, met>>
    BY <1>11 DEF U!Stop
  <2>2. DOMAIN owner' = DOMAIN owner /\ owner'.at = "join" /\ owner'.left = U!ShutdownBudget
    BY <2>1 DEF ViewerStops, ViewerTypes
  <2>3. U!ShutdownBudget \in Nat /\ U!ShutdownBudget >= RequestTimeout + Slack
    BY LongEnough
  <2>4. Longest \in 0..RequestTimeout /\ Longest' = Longest
    BY <1>0, <2>1 DEF Longest, ViewerStops, ViewerTypes
  <2>5. owner'.left >= Slack + Longest'
    BY <1>0, <2>2, <2>3, <2>4
  <2> QED
    BY <1>0, <2>1, <2>2, <2>3, <2>5 DEF ViewerStops, ViewerTypes
<1>12. CASE U!Join
  <2>1. /\ owner.at = "join" /\ (loop.at = "ended" \/ owner.left = 0)
        /\ owner' = [at |-> IF loop.at = "ended" THEN "stopped" ELSE "raised", left |-> 0, count |-> httpd.served]
        /\ httpd' = [httpd EXCEPT !.socket = "none"] /\ UNCHANGED <<loop, flag, sent, met>>
    BY <1>12 DEF U!Join
  <2>2. DOMAIN owner' = {"at", "left", "count"} /\ owner'.left = 0 /\ owner'.count = httpd.served
        /\ owner'.at = IF loop.at = "ended" THEN "stopped" ELSE "raised"
    BY <2>1
  <2>3. DOMAIN httpd' = DOMAIN httpd /\ httpd'.socket = "none" /\ httpd'.served = httpd.served
    BY <2>1 DEF ViewerStops, ViewerTypes
  <2>4. loop.at # "ended" => met.slow = TRUE
    BY <1>0, <2>1 DEF ViewerStops, ViewerTypes, Longest, Times
  <2> QED
    BY <2>1, <2>2, <2>3, <2>4 DEF ViewerStops, ViewerTypes
<1> QED
  BY <1>1, <1>2, <1>3, <1>4, <1>5, <1>6, <1>7, <1>8, <1>9, <1>10, <1>11, <1>12 DEF U!Next, U!ThreadStep

LEMMA StopsStay == ViewerStops /\ UNCHANGED U!viewerVars => ViewerStops'
BY DEF U!viewerVars, ViewerStops, ViewerTypes, Longest, MayHoldAnew

(* The budget: while a connection is held, one more request may be counted; *)
(* and a loop that ended without being told to has used it up.             *)
ViewerBudget ==
    /\ flag \in BOOLEAN
    /\ httpd.served <= MaxRequests
    /\ loop.at \in {"held", "write"} => httpd.served < MaxRequests
    /\ sent.bodies \subseteq {0, httpd.payload}
    /\ loop.at = "ended" /\ flag = FALSE => httpd.served = MaxRequests
    /\ httpd.socket \in {"none", "127.0.0.1", "::1"}

LEMMA BudgetInit == Times /\ U!Init => ViewerBudget
<1> SUFFICES ASSUME Times, U!Init PROVE ViewerBudget
  OBVIOUS
<1>1. httpd.served = 0 /\ httpd.socket = "none" /\ loop.at = "none" /\ sent.bodies = {} /\ flag = FALSE
  BY DEF U!Init, U!Closed, U!NoLoop, U!Nothing
<1>2. flag \in BOOLEAN /\ sent.bodies \subseteq {0, httpd.payload}
  BY Zenon, <1>1
<1>3. httpd.served <= MaxRequests /\ loop.at \notin {"held", "write", "ended"} /\ httpd.socket \in {"none", "127.0.0.1", "::1"}
  BY <1>1 DEF Times
<1> QED
  BY Zenon, <1>2, <1>3 DEF ViewerBudget

LEMMA BudgetStep == Times /\ ViewerStops /\ ViewerBudget /\ U!Next => ViewerBudget'
<1> SUFFICES ASSUME Times, ViewerStops, ViewerBudget, U!Next PROVE ViewerBudget'
  OBVIOUS
<1>0. MaxRequests \in Nat /\ ViewerTypes
  BY DEF Times, ViewerStops
<1>1. CASE U!Render
  BY <1>1 DEF U!Render, ViewerBudget
<1>2. CASE U!Start
  <2>1. PICK host \in U!HostKinds :
          /\ U!ResolveBindHost(host) # "refused"
          /\ httpd' = [socket |-> U!ResolveBindHost(host), payload |-> document, served |-> 0]
    BY <1>2 DEF U!Start
  <2>2. U!ResolveBindHost(host) \in {"127.0.0.1", "::1"}
    BY <2>1 DEF U!ResolveBindHost
  <2>3. httpd'.socket = U!ResolveBindHost(host) /\ httpd'.served = 0
    BY <2>1
  <2>4. loop' = [U!NoLoop EXCEPT !.at = "poll"] /\ flag' = FALSE /\ sent' = U!Nothing
    BY <1>2 DEF U!Start
  <2>5. loop'.at = "poll" /\ sent'.bodies = {}
    BY <2>4 DEF U!NoLoop, U!Nothing
  <2>6. flag' \in BOOLEAN /\ sent'.bodies \subseteq {0, httpd'.payload}
    BY Zenon, <2>4, <2>5
  <2>7. /\ httpd'.served <= MaxRequests /\ loop'.at \notin {"held", "write", "ended"}
        /\ httpd'.socket \in {"none", "127.0.0.1", "::1"}
    BY <1>0, <2>2, <2>3, <2>5
  <2> QED
    BY Zenon, <2>6, <2>7 DEF ViewerBudget
<1>3. CASE U!LoopEnds
  <2>1. (flag \/ httpd.served >= MaxRequests) /\ UNCHANGED <<httpd, flag, sent>>
        /\ loop' = [loop EXCEPT !.at = "ended"]
    BY <1>3 DEF U!LoopEnds
  <2>2. loop'.at = "ended"
    BY <1>0, <2>1 DEF ViewerTypes
  <2> QED
    BY <1>0, <2>1, <2>2 DEF ViewerBudget, ViewerTypes
<1>4. CASE U!Accept
  <2>1. httpd.served < MaxRequests /\ UNCHANGED <<httpd, flag, sent>> /\ loop'.at = "held"
    BY <1>4 DEF U!Accept
  <2> QED
    BY <2>1 DEF ViewerBudget
<1>5. CASE (U!Handle /\ ~U!WriteWaits(loop.peer)) \/ U!TimedOut \/ U!ReadLate
  <2>1. loop.at \in {"held", "write"} /\ U!Finish(loop.peer) /\ UNCHANGED flag
    BY <1>5 DEF U!Handle, U!TimedOut, U!ReadLate, U!Answer
  <2>2. httpd'.socket = httpd.socket /\ httpd'.payload = httpd.payload
        /\ httpd'.served \in {httpd.served, httpd.served + 1}
    BY <1>0, <2>1 DEF U!Finish, ViewerTypes
  <2>3. loop'.at = "poll"
    BY <2>1 DEF U!Finish, U!NoLoop
  <2>4. sent'.bodies \subseteq {0, httpd.payload}
    <3>1. CASE sent' = sent
      BY <3>1 DEF ViewerBudget
    <3>2. CASE sent' # sent
      <4>1. sent' = [count |-> sent.count + 1, bodies |-> sent.bodies \cup {U!Body(loop.peer)}, last |-> U!Code(loop.peer)]
        BY <1>5, <3>2 DEF U!Handle, U!TimedOut, U!ReadLate, U!Answer
      <4>2. U!Body(loop.peer) \in {0, httpd.payload}
        BY DEF U!Body
      <4>3. sent'.bodies = sent.bodies \cup {U!Body(loop.peer)}
        BY <4>1
      <4> QED
        BY <4>2, <4>3 DEF ViewerBudget
    <3> QED
      BY <3>1, <3>2
  <2>5. httpd'.served <= MaxRequests
    BY <1>0, <2>1, <2>2 DEF ViewerBudget, ViewerTypes
  <2> QED
    BY <2>1, <2>2, <2>3, <2>4, <2>5 DEF ViewerBudget
<1>6. CASE U!Trickle \/ U!Tick
  <2>1. PICK left : loop' = [loop EXCEPT !.left = left]
    BY <1>6 DEF U!Trickle, U!Tick
  <2>2. loop'.at = loop.at /\ UNCHANGED <<httpd, flag, sent>>
    BY <1>0, <1>6, <2>1 DEF U!Trickle, U!Tick, ViewerTypes
  <2> QED
    BY <2>2 DEF ViewerBudget
<1>7. CASE U!SendLate \/ (U!Handle /\ U!WriteWaits(loop.peer))
  <2>1. loop.at = "held" /\ loop'.at \in {"held", "write"} /\ UNCHANGED <<httpd, flag, sent>>
    BY <1>0, <1>7 DEF U!SendLate, U!Handle, ViewerTypes
  <2> QED
    BY <2>1 DEF ViewerBudget
<1>8. CASE U!Stop
  BY <1>8 DEF U!Stop, ViewerBudget
<1>9. CASE U!Join
  <2>1. httpd' = [httpd EXCEPT !.socket = "none"] /\ UNCHANGED <<loop, flag, sent>>
    BY <1>9 DEF U!Join
  <2>2. httpd'.socket = "none" /\ httpd'.served = httpd.served /\ httpd'.payload = httpd.payload
    BY <1>0, <2>1 DEF ViewerTypes
  <2> QED
    BY <2>1, <2>2 DEF ViewerBudget
<1> QED
  BY <1>1, <1>2, <1>3, <1>4, <1>5, <1>6, <1>7, <1>8, <1>9 DEF U!Next, U!ThreadStep

LEMMA BudgetStay == ViewerBudget /\ UNCHANGED U!viewerVars => ViewerBudget'
BY DEF ViewerBudget, U!viewerVars

ViewerInd == ViewerStops /\ ViewerBudget
LEMMA ViewerInit == Times /\ U!Init => ViewerInd
BY StopsInit, BudgetInit DEF ViewerInd
LEMMA ViewerStep == Times /\ ViewerInd /\ U!Next => ViewerInd'
BY StopsStep, BudgetStep DEF ViewerInd
LEMMA ViewerStays == ViewerInd /\ UNCHANGED U!viewerVars => ViewerInd'
BY StopsStay, BudgetStay DEF ViewerInd
LEMMA ViewerPromise == Times /\ ViewerInd => U!StopReleases /\ U!WithinBudget
<1> SUFFICES ASSUME Times, ViewerInd PROVE U!StopReleases /\ U!WithinBudget
  OBVIOUS
<1>1. U!StopReleases
  BY DEF ViewerInd, ViewerStops, ViewerTypes, U!StopReleases
<1>2. sent.count <= MaxRequests
  BY DEF ViewerInd, ViewerStops, ViewerTypes, ViewerBudget, Times
<1> QED
  BY <1>1, <1>2 DEF ViewerInd, ViewerBudget, U!WithinBudget

-----------------------------------------------------------------------------

(* The language server.  An id is never used twice: every id about is less *)
(* than the next, and what is open or filed under the id of the definition *)
(* that is waited for is about its site.  Nothing revives the process.     *)
CallerFields == {"at", "rid", "about"}
ClientInd ==
    /\ nextId \in Nat /\ (\A i \in DOMAIN open : i \in Nat /\ i < nextId)
    /\ (\A i \in DOMAIN responses : i \in Nat /\ i < nextId)
    /\ DOMAIN caller = CallerFields
    /\ caller.at = "definition" =>
          /\ caller.rid \in Nat /\ caller.rid < nextId
          /\ caller.rid \in DOMAIN open => open[caller.rid] = caller.about
          /\ caller.rid \in DOMAIN responses => responses[caller.rid].about = caller.about
    /\ \A s \in DOMAIN resolved : resolved[s] = s
    /\ caller.at \in {"failed", "stopped"} => server = "gone"

LEMMA ClientInit == L!Init => ClientInd
<1>1. DOMAIN L!Empty = {}
  BY DEF L!Empty
<1> QED
  BY <1>1 DEF L!Init, ClientInd, CallerFields

(* The caller goes on to something that is not an answer to wait for.      *)
LEMMA CallerElsewhere ==
    ASSUME ClientInd, DOMAIN caller' = CallerFields, caller'.at # "definition",
           caller'.at \in {"failed", "stopped"} => server' = "gone",
           nextId' \in Nat, nextId <= nextId', \A i \in DOMAIN open' : i \in Nat /\ i < nextId',
           \A i \in DOMAIN responses' : i \in Nat /\ i < nextId',
           \A s \in DOMAIN resolved' : resolved'[s] = s
    PROVE  ClientInd'
BY DEF ClientInd

LEMMA CallerReady ==
    ASSUME ClientInd, NEW at, L!Ready(at)
    PROVE  DOMAIN caller' = CallerFields /\ caller'.at = at /\ caller'.rid = caller.rid /\ caller'.about = caller.about
BY DEF ClientInd, L!Ready, CallerFields

LEMMA LaterIs ==
    ASSUME NEW s
    PROVE  DOMAIN L!Later(s) = CallerFields /\ L!Later(s).at \in {"closing", "sites"}
BY DEF L!Later, CallerFields

(* What is dropped or popped is about nothing any more.                    *)
LEMMA ClientStep == ClientInd /\ L!Next => ClientInd'
<1> SUFFICES ASSUME ClientInd, L!Next PROVE ClientInd'
  OBVIOUS
<1>0. /\ nextId \in Nat /\ \A i \in DOMAIN open \cup DOMAIN responses : i \in Nat /\ i < nextId
      /\ DOMAIN caller = CallerFields /\ \A s \in DOMAIN resolved : resolved[s] = s
  BY DEF ClientInd
<1>1. CASE L!Start
  <2>1. /\ nextId' = nextId + 1 /\ open' = L!Set(open, nextId, 0) /\ UNCHANGED <<responses, resolved>>
        /\ caller' = [at |-> "initialize", rid |-> nextId, about |-> 0]
    BY <1>1 DEF L!Start, L!Taken
  <2>2. DOMAIN caller' = CallerFields /\ caller'.at = "initialize"
    BY <2>1 DEF CallerFields
  <2>3. \A i \in DOMAIN open' \cup DOMAIN responses' : i \in Nat /\ i < nextId'
    <3>1. DOMAIN open' \subseteq DOMAIN open \cup {nextId}
      BY <2>1 DEF L!Set
    <3> QED
      BY <1>0, <2>1, <3>1
  <2> QED
    BY <1>0, <2>1, <2>2, <2>3, CallerElsewhere
<1>2. CASE L!Initialized
  <2>1. responses' = L!Drop(responses, caller.rid) /\ UNCHANGED <<open, nextId, resolved>>
        /\ ((L!Ready("failed") /\ server' = "gone") \/ L!Ready("opening"))
    BY <1>2 DEF L!Initialized, L!Pop, L!FailStart
  <2>2. DOMAIN caller' = CallerFields /\ caller'.at \in {"failed", "opening"}
        /\ (caller'.at = "failed" => server' = "gone")
    BY <2>1, CallerReady
  <2>3. \A i \in DOMAIN open' \cup DOMAIN responses' : i \in Nat /\ i < nextId'
    <3>1. DOMAIN responses' \subseteq DOMAIN responses
      BY <2>1 DEF L!Drop
    <3> QED
      BY <1>0, <2>1, <3>1
  <2> QED
    BY <1>0, <2>1, <2>2, <2>3, CallerElsewhere
<1>3. CASE L!NotInitialized
  <2>1. L!Ready("failed") /\ server' = "gone" /\ UNCHANGED <<open, responses, nextId, resolved>>
    BY <1>3 DEF L!NotInitialized, L!FailStart
  <2>2. DOMAIN caller' = CallerFields /\ caller'.at = "failed"
    BY <2>1, CallerReady
  <2> QED
    BY <1>0, <2>1, <2>2, CallerElsewhere
<1>4. CASE L!AskDefinition
  <2> DEFINE site == caller.about + 1
  <2>1. /\ UNCHANGED <<server, responses, resolved>> /\ nextId' = nextId + 1
        /\ IF server = "gone" THEN caller' = L!Later(site) /\ UNCHANGED open
           ELSE /\ open' = IF server = "deaf" THEN open ELSE L!Set(open, nextId, site)
                /\ caller' = [at |-> "definition", rid |-> nextId, about |-> site]
    BY <1>4 DEF L!AskDefinition, L!Request, L!Taken
  <2> HIDE DEF site
  <2>2. CASE server = "gone"
    <3>1. DOMAIN caller' = CallerFields /\ caller'.at \in {"closing", "sites"}
      BY <2>1, <2>2, LaterIs
    <3> QED
      BY <1>0, <2>1, <2>2, <3>1, CallerElsewhere
  <2>3. CASE server # "gone"
    <3>1. /\ DOMAIN caller' = CallerFields /\ caller'.at = "definition" /\ caller'.rid = nextId
          /\ caller'.about = site
      BY <2>1, <2>3 DEF CallerFields
    <3>2. open' = open \/ open' = L!Set(open, nextId, site)
      BY <2>1, <2>3
    <3>3. nextId \notin DOMAIN open /\ nextId \notin DOMAIN responses
      BY <1>0
    <3>4. (\A i \in DOMAIN open' : i \in Nat /\ i < nextId') /\ (nextId \in DOMAIN open' => open'[nextId] = site)
      <4>1. CASE open' = open
        BY <1>0, <2>1, <3>3, <4>1
      <4>2. CASE open' = L!Set(open, nextId, site)
        <5>1. DOMAIN open' = DOMAIN open \cup {nextId} /\ open'[nextId] = site
          BY <4>2 DEF L!Set
        <5> QED
          BY <1>0, <2>1, <5>1
      <4> QED
        BY <3>2, <4>1, <4>2
    <3>5. \A i \in DOMAIN responses' : i \in Nat /\ i < nextId'
      BY <1>0, <2>1
    <3> QED
      BY <1>0, <2>1, <3>1, <3>3, <3>4, <3>5 DEF ClientInd
  <2> QED
    BY <2>2, <2>3
<1>5. CASE L!Definition
  <2>1. /\ caller.at = "definition" /\ caller.rid \in DOMAIN responses /\ responses' = L!Drop(responses, caller.rid)
        /\ resolved' = IF L!Result.ok THEN L!Set(resolved, caller.about, L!Result.about) ELSE resolved
        /\ caller' = L!Later(caller.about) /\ UNCHANGED <<server, open, nextId>>
    BY <1>5 DEF L!Definition, L!Pop, L!Answered
  <2>2. DOMAIN caller' = CallerFields /\ caller'.at \in {"closing", "sites"}
    BY <2>1, LaterIs
  <2>3. \A i \in DOMAIN open' \cup DOMAIN responses' : i \in Nat /\ i < nextId'
    <3>1. DOMAIN responses' \subseteq DOMAIN responses
      BY <2>1 DEF L!Drop
    <3> QED
      BY <1>0, <2>1, <3>1
  <2>4. L!Result.about = caller.about
    BY <2>1 DEF ClientInd, L!Result
  <2>5. \A s \in DOMAIN resolved' : resolved'[s] = s
    <3>1. CASE resolved' = L!Set(resolved, caller.about, caller.about)
      BY <1>0, <3>1 DEF L!Set
    <3>2. CASE resolved' = resolved
      BY <1>0, <3>2
    <3> QED
      BY <2>1, <2>4, <3>1, <3>2
  <2> QED
    BY <1>0, <2>1, <2>2, <2>3, <2>5, CallerElsewhere
<1>6. CASE L!NoDefinition
  <2>1. caller' = L!Later(caller.about) /\ UNCHANGED <<server, open, responses, nextId, resolved>>
    BY <1>6 DEF L!NoDefinition
  <2>2. DOMAIN caller' = CallerFields /\ caller'.at \in {"closing", "sites"}
    BY <2>1, LaterIs
  <2> QED
    BY <1>0, <2>1, <2>2, CallerElsewhere
<1>7. CASE L!OpenDocuments \/ L!FillsPipe \/ L!Exit
  <2>1. /\ UNCHANGED <<open, responses, nextId, resolved>>
        /\ \/ L!Ready("closing") \/ L!Ready("sites") \/ (L!Ready("stopped") /\ server' = "gone")
           \/ caller.at = "opening" /\ UNCHANGED caller
    BY <1>7 DEF L!OpenDocuments, L!FillsPipe, L!Exit, L!Reap
  <2>2. DOMAIN caller' = CallerFields /\ caller'.at \in {"closing", "sites", "opening", "stopped"}
        /\ (caller'.at = "stopped" => server' = "gone")
    BY <1>0, <2>1, CallerReady
  <2> QED
    BY <1>0, <2>1, <2>2, CallerElsewhere
<1>8. CASE L!Shutdown
  <2>1. /\ UNCHANGED <<server, responses, resolved>> /\ nextId' = nextId + 1
        /\ \/ L!Ready("exit") /\ UNCHANGED open
           \/ /\ open' = open \/ open' = L!Set(open, nextId, 0)
              /\ caller' = [at |-> "shutdown", rid |-> nextId, about |-> 0]
    BY <1>8 DEF L!Shutdown, L!Request, L!Taken
  <2>2. DOMAIN caller' = CallerFields /\ caller'.at \in {"exit", "shutdown"}
    BY <2>1, CallerReady DEF CallerFields
  <2>3. \A i \in DOMAIN open' \cup DOMAIN responses' : i \in Nat /\ i < nextId'
    <3>1. DOMAIN open' \subseteq DOMAIN open \cup {nextId}
      BY <2>1 DEF L!Set
    <3> QED
      BY <1>0, <2>1, <3>1
  <2> QED
    BY <1>0, <2>1, <2>2, <2>3, CallerElsewhere
<1>9. CASE L!ShutDown \/ L!Abandon
  <2>1. (L!Ready("exit") \/ L!Ready("closing")) /\ UNCHANGED <<server, open, nextId, resolved>>
        /\ (responses' = L!Drop(responses, caller.rid) \/ UNCHANGED responses)
    BY <1>9 DEF L!ShutDown, L!Abandon, L!Pop
  <2>2. DOMAIN caller' = CallerFields /\ caller'.at \in {"exit", "closing"}
    BY <2>1, CallerReady
  <2>3. \A i \in DOMAIN open' \cup DOMAIN responses' : i \in Nat /\ i < nextId'
    <3>1. DOMAIN responses' \subseteq DOMAIN responses
      BY <2>1 DEF L!Drop
    <3> QED
      BY <1>0, <2>1, <3>1
  <2> QED
    BY <1>0, <2>1, <2>2, <2>3, CallerElsewhere
<1>10. CASE L!Respond
  <2>1. PICK i \in DOMAIN open, ok \in BOOLEAN :
           /\ open' = L!Drop(open, i)
           /\ responses' = IF reader = "reads" THEN L!Set(responses, i, [ok |-> ok, about |-> open[i]]) ELSE responses
    BY <1>10 DEF L!Respond
  <2>2. UNCHANGED <<server, nextId, caller, resolved>>
    BY <1>10 DEF L!Respond
  <2> DEFINE filed == [ok |-> ok, about |-> open[i]]
  <2>3. filed.about = open[i]
    OBVIOUS
  <2> HIDE DEF filed
  <2>4. responses' = responses \/ responses' = L!Set(responses, i, filed)
    BY <2>1 DEF filed
  <2>5. \A k \in DOMAIN open' \cup DOMAIN responses' : k \in Nat /\ k < nextId'
    <3>1. DOMAIN open' \subseteq DOMAIN open /\ DOMAIN responses' \subseteq DOMAIN responses \cup {i}
      BY <2>1, <2>4 DEF L!Set, L!Drop
    <3> QED
      BY <1>0, <2>2, <3>1
  <2>6. ASSUME caller.at = "definition", caller.rid \in DOMAIN responses'
        PROVE  responses'[caller.rid].about = caller.about
    <3>1. CASE responses' = responses
      BY <2>6, <3>1 DEF ClientInd
    <3>2. CASE responses' = L!Set(responses, i, filed)
      <4>1. CASE caller.rid = i
        <5>1. responses'[i] = filed
          BY <3>2 DEF L!Set
        <5> QED
          BY <2>3, <2>6, <4>1, <5>1 DEF ClientInd
      <4>2. CASE caller.rid # i
        <5>1. caller.rid \in DOMAIN responses /\ responses'[caller.rid] = responses[caller.rid]
          BY <2>6, <3>2, <4>2 DEF L!Set
        <5> QED
          BY <2>6, <5>1 DEF ClientInd
      <4> QED
        BY <4>1, <4>2
    <3> QED
      BY <2>4, <3>1, <3>2
  <2>7. ASSUME caller.at = "definition", caller.rid \in DOMAIN open' PROVE open'[caller.rid] = caller.about
    <3>1. caller.rid \in DOMAIN open /\ open'[caller.rid] = open[caller.rid]
      BY <2>1, <2>7 DEF L!Drop
    <3> QED
      BY <2>7, <3>1 DEF ClientInd
  <2> QED
    BY <2>2, <2>5, <2>6, <2>7 DEF ClientInd
<1>11. CASE L!ServerAsks \/ L!Reply \/ L!EndOfStream
  BY <1>11 DEF L!ServerAsks, L!Reply, L!EndOfStream, ClientInd
<1>12. CASE L!GoesDeaf
  BY <1>12 DEF L!GoesDeaf, ClientInd
<1>13. CASE L!Dies
  <2>1. DOMAIN L!Empty = {}
    BY DEF L!Empty
  <2> QED
    BY <1>13, <2>1 DEF L!Dies, ClientInd
<1> QED
  BY <1>1, <1>2, <1>3, <1>4, <1>5, <1>6, <1>7, <1>8, <1>9, <1>10, <1>11, <1>12, <1>13 DEF L!Next, L!CallerStep

LEMMA ClientStays == ClientInd /\ UNCHANGED L!clientVars => ClientInd'
BY DEF L!clientVars, ClientInd

LEMMA ClientPromise == ClientInd => L!NoServerLeft /\ L!AnswersOwnQuestion
BY DEF ClientInd, L!NoServerLeft, L!AnswersOwnQuestion

-----------------------------------------------------------------------------

(* The wiki.  What the manifest records of a page that nobody marked and   *)
(* the run has not written is what the page holds; a page is listed in the *)
(* manifest, of this run, or a stray; and while nothing was edited and no  *)
(* run died, what is recorded is there.                                    *)
BuildFields == {"at", "incremental", "content", "previous", "todo", "written"}
WikiType ==
    /\ clusters \in K!Graphs
    /\ build.at \in {"rest", "page", "fill", "remove", "manifest", "written"}
    /\ DOMAIN build = BuildFields /\ build.incremental \in BOOLEAN
    /\ build.todo \subseteq Nat /\ DOMAIN build.content \subseteq Nat
    /\ DOMAIN manifest \subseteq Nat /\ DOMAIN build.previous \subseteq Nat
    /\ wear.edits \in Nat /\ wear.deaths \in Nat
    /\ wear = [runs |-> wear.runs, changes |-> wear.changes, deaths |-> wear.deaths, edits |-> wear.edits]
InRun == build.at \in {"page", "fill", "remove"}
WikiRun ==
    /\ InRun => /\ build.incremental => build.previous = manifest
                /\ ~build.incremental => build.previous = K!Nothing /\ DOMAIN manifest \subseteq strays
    /\ build.written \subseteq DOMAIN build.content
    /\ build.at \in {"page", "fill"} => build.todo \subseteq DOMAIN build.content
    /\ build.at = "page" => build.written \cap build.todo = {}
    /\ build.at = "fill" => build.todo # {} /\ K!Page \in build.written /\ build.written \cap build.todo \subseteq {K!Page}
    /\ build.at = "remove" => build.todo \cap DOMAIN build.content = {}
    /\ build.at = "manifest" => manifest = K!Nothing
    /\ build.at = "written" => manifest = build.content
    /\ build.at = "rest" => build.written = {}
WikiFaithful ==
    \A p \in DOMAIN manifest \cap DOMAIN pages :
        p \in marks \/ (InRun /\ p \in build.written) \/ pages[p] = manifest[p]
Right(p) == (p \in DOMAIN pages /\ pages[p] = build.content[p]) \/ (p \in marks /\ K!Recorded(p))
WikiRight == /\ build.at \in {"page", "fill"} => \A p \in DOMAIN build.content \ build.todo : Right(p)
             /\ build.at \in {"remove", "manifest", "written"} => \A p \in DOMAIN build.content : Right(p)
WikiListed == /\ build.at \in {"rest", "page", "fill", "remove"} =>
                    DOMAIN pages \subseteq DOMAIN manifest \cup strays \cup build.written
              /\ build.at \in {"remove", "manifest", "written"} =>
                    DOMAIN pages \subseteq DOMAIN build.content \cup strays
                                           \cup (IF build.at = "remove" THEN build.todo ELSE {})
Quiet == wear.edits = 0 /\ wear.deaths = 0
WikiQuiet == Quiet =>
    /\ build.at \in {"rest", "page", "fill"} => DOMAIN manifest \subseteq DOMAIN pages
    /\ build.at \in {"page", "fill"} => DOMAIN build.content \ build.todo \subseteq DOMAIN pages
    /\ build.at \in {"remove", "manifest", "written"} => DOMAIN build.content \subseteq DOMAIN pages
    /\ build.at # "rest" /\ build.incremental /\ build.previous = build.content => build.written = {}
WikiInd == WikiType /\ WikiRun /\ WikiFaithful /\ WikiRight /\ WikiListed /\ WikiQuiet

(* A set of numbers that is not empty has its least element.               *)
LEMMA PageIn == ASSUME build.todo \subseteq Nat, build.todo # {} PROVE K!Page \in build.todo
<1> DEFINE Less == {ss \in Nat \X Nat : ss[1] < ss[2]}
<1>1. Less = OpToRel(<, Nat)
  BY DEF OpToRel
<1> HIDE DEF Less
<1>2. PICK x \in build.todo : \A y \in build.todo : ~(<<y, x>> \in Less)
  BY <1>1, WFMin, NatLessThanWellFounded
<1>3. ASSUME NEW y \in build.todo PROVE x <= y
  <2>1. x \in Nat /\ y \in Nat /\ ~(<<y, x>> \in Less)
    BY <1>2
  <2>2. <<y, x>> \in Nat \X Nat /\ <<y, x>>[1] = y /\ <<y, x>>[2] = x
    BY <2>1
  <2>3. ~(y < x)
    BY <2>1, <2>2 DEF Less
  <2> QED
    BY <2>1, <2>3
<1> QED
  BY <1>3 DEF K!Page, K!Min

LEMMA WikiInit == K!Init => WikiInd
<1> SUFFICES ASSUME K!Init PROVE WikiInd
  OBVIOUS
<1>1. /\ K!Resting.at = "rest" /\ DOMAIN K!Resting = BuildFields
      /\ K!Resting.incremental \in BOOLEAN /\ K!Resting.todo = {}
      /\ DOMAIN K!Resting.content = {} /\ DOMAIN K!Resting.previous = {} /\ K!Resting.written = {}
  BY DEF K!Resting, BuildFields, K!Nothing
<1>2. build = K!Resting /\ manifest = K!Nothing /\ pages = K!Nothing /\ DOMAIN K!Nothing = {} /\ clusters \in K!Graphs
  BY DEF K!Init, K!Nothing
<1>3. wear = [runs |-> 0, changes |-> 0, deaths |-> 0, edits |-> 0]
  BY DEF K!Init
<1>4. WikiType
  BY <1>1, <1>2, <1>3 DEF WikiType
<1>5. WikiRun /\ WikiFaithful /\ WikiRight /\ WikiListed /\ WikiQuiet
  BY <1>1, <1>2 DEF WikiRun, WikiFaithful, WikiRight, WikiListed, WikiQuiet, InRun
<1> QED
  BY <1>4, <1>5 DEF WikiInd

(* The graph changes, and pages are edited between the runs.               *)
LEMMA WikiAround == WikiInd /\ (K!Change \/ K!Edits) => WikiInd'
<1> SUFFICES ASSUME WikiInd, K!Change \/ K!Edits PROVE WikiInd'
  OBVIOUS
<1>0. WikiType /\ WikiRun /\ WikiFaithful /\ WikiRight /\ WikiListed /\ WikiQuiet
  BY DEF WikiInd
<1>1. CASE K!Change
  <2>1. /\ clusters' \in K!Graphs /\ UNCHANGED <<pages, manifest, build, marks, strays>>
        /\ wear' = [wear EXCEPT !.changes = @ + 1]
    BY <1>1 DEF K!Change
  <2>2. wear'.edits = wear.edits /\ wear'.deaths = wear.deaths
        /\ wear' = [runs |-> wear'.runs, changes |-> wear'.changes, deaths |-> wear'.deaths, edits |-> wear'.edits]
    BY <1>0, <2>1 DEF WikiType
  <2>3. WikiType'
    BY <1>0, <2>1, <2>2 DEF WikiType
  <2>4. WikiRun' /\ WikiFaithful' /\ WikiListed'
    BY <1>0, <2>1 DEF WikiRun, WikiFaithful, WikiListed, InRun, K!Page
  <2>5. WikiRight'
    BY <1>0, <2>1 DEF WikiRight, Right, K!Recorded
  <2>6. WikiQuiet'
    BY <1>0, <2>1, <2>2 DEF WikiQuiet, Quiet
  <2> QED
    BY <2>3, <2>4, <2>5, <2>6 DEF WikiInd
<1>2. CASE K!Edits
  <2>1. PICK p \in DOMAIN pages, deleted \in BOOLEAN :
          /\ build.at = "rest"
          /\ pages' = IF deleted THEN K!Drop(pages, p) ELSE K!Set(pages, p, K!Theirs)
          /\ marks' = marks \cup {p} /\ wear' = [wear EXCEPT !.edits = @ + 1]
          /\ UNCHANGED <<clusters, manifest, build, strays>>
    BY <1>2 DEF K!Edits
  <2>2. wear'.edits = wear.edits + 1 /\ wear'.deaths = wear.deaths
        /\ wear' = [runs |-> wear'.runs, changes |-> wear'.changes, deaths |-> wear'.deaths, edits |-> wear'.edits]
    BY <1>0, <2>1 DEF WikiType
  <2>3. WikiType'
    BY <1>0, <2>1, <2>2 DEF WikiType
  <2>4. DOMAIN pages' \subseteq DOMAIN pages /\ \A q \in DOMAIN pages' : q = p \/ pages'[q] = pages[q]
    BY <2>1 DEF K!Drop, K!Set
  <2>5. WikiRun' /\ WikiFaithful' /\ WikiListed'
    BY <1>0, <2>1, <2>4 DEF WikiRun, WikiFaithful, WikiListed, InRun, K!Page
  <2>6. WikiRight'
    BY <1>0, <2>1 DEF WikiRight
  <2>7. WikiQuiet'
    BY <1>0, <2>1, <2>2 DEF WikiQuiet, Quiet, WikiType
  <2> QED
    BY <2>3, <2>5, <2>6, <2>7 DEF WikiInd
<1> QED
  BY <1>1, <1>2

(* A run begins with the pages of the graph as it is.                      *)
LEMMA WikiBegin == WikiInd /\ K!Begin => WikiInd'
<1> SUFFICES ASSUME WikiInd, K!Begin PROVE WikiInd'
  OBVIOUS
<1>0. WikiType /\ WikiRun /\ WikiFaithful /\ WikiRight /\ WikiListed /\ WikiQuiet
  BY DEF WikiInd
<1>1. PICK incremental \in BOOLEAN :
        /\ build.at = "rest"
        /\ build' = [K!Resting EXCEPT !.at = "page", !.incremental = incremental, !.content = K!Pages(clusters),
                                    !.previous = K!LoadManifest(incremental),
                                    !.todo = DOMAIN K!Pages(clusters)]
        /\ strays' = IF incremental THEN strays ELSE strays \cup DOMAIN manifest
        /\ wear' = [wear EXCEPT !.runs = @ + 1]
        /\ UNCHANGED <<clusters, pages, manifest, marks>>
  BY DEF K!Begin
<1>2. PICK fresh, previous : fresh = K!Pages(clusters) /\ previous = K!LoadManifest(incremental)
  OBVIOUS
<1>3. PICK b : b = [K!Resting EXCEPT !.at = "page", !.incremental = incremental, !.content = fresh,
                                   !.previous = previous, !.todo = DOMAIN fresh]
  OBVIOUS
<1>4. b = [at |-> "page", incremental |-> incremental, content |-> fresh, previous |-> previous,
           todo |-> DOMAIN fresh, written |-> {}]
  BY <1>3 DEF K!Resting
<1>5. /\ b.at = "page" /\ b.incremental = incremental /\ b.content = fresh /\ b.previous = previous
      /\ b.todo = DOMAIN fresh /\ b.written = {} /\ DOMAIN b = BuildFields
  BY <1>4 DEF BuildFields
<1>6. build' = b
  BY <1>1, <1>2, <1>3
<1>7. b.incremental \in BOOLEAN /\ (b.incremental <=> incremental)
  BY Zenon, <1>5
<1>8. DOMAIN fresh \subseteq Nat
  <2>1. \A g \in K!Graphs : DOMAIN g \subseteq Nat
    BY DEF K!Graphs
  <2>2. DOMAIN fresh = DOMAIN clusters \cup {K!Index}
    BY <1>2 DEF K!Pages
  <2> QED
    BY <1>0, <2>1, <2>2 DEF WikiType, K!Index
<1>9. /\ incremental => previous = manifest
      /\ ~incremental => previous = K!Nothing /\ DOMAIN previous = {} /\ DOMAIN manifest \subseteq strays'
      /\ strays \subseteq strays'
  BY <1>1, <1>2 DEF K!LoadManifest, K!Nothing
<1>10. wear'.edits = wear.edits /\ wear'.deaths = wear.deaths
       /\ wear' = [runs |-> wear'.runs, changes |-> wear'.changes, deaths |-> wear'.deaths, edits |-> wear'.edits]
  BY <1>0, <1>1 DEF WikiType
<1>11. WikiType'
  BY <1>0, <1>1, <1>5, <1>6, <1>7, <1>8, <1>9, <1>10 DEF WikiType
<1>12. WikiRun'
  BY <1>1, <1>5, <1>6, <1>7, <1>9 DEF WikiRun, InRun
<1>13. WikiFaithful'
  BY <1>0, <1>1, <1>5, <1>6 DEF WikiFaithful, InRun
<1>14. WikiRight'
  BY <1>5, <1>6 DEF WikiRight
<1>15. WikiListed'
  BY <1>0, <1>1, <1>5, <1>6, <1>9 DEF WikiListed, WikiRun
<1>16. WikiQuiet'
  BY <1>0, <1>1, <1>5, <1>6, <1>10 DEF WikiQuiet, Quiet
<1> QED
  BY <1>11, <1>12, <1>13, <1>14, <1>15, <1>16 DEF WikiInd

(* A page that is recorded and there holds what is recorded, or is marked. *)
LEMMA WikiSkip == WikiInd /\ K!Skip => WikiInd'
<1> SUFFICES ASSUME WikiInd, K!Skip PROVE WikiInd'
  OBVIOUS
<1>0. WikiType /\ WikiRun /\ WikiFaithful /\ WikiRight /\ WikiListed /\ WikiQuiet
  BY DEF WikiInd
<1>1. /\ build.at = "page" /\ build.todo # {} /\ K!Unchanged(K!Page)
      /\ UNCHANGED <<clusters, pages, manifest, marks, strays, wear>>
  BY DEF K!Skip
<1>2. PICK p : p = K!Page
  OBVIOUS
<1>3. p \in build.todo /\ p \in DOMAIN pages /\ K!Recorded(p) /\ build.incremental
  BY <1>0, <1>1, <1>2, PageIn DEF K!Unchanged, WikiType
<1>4. PICK b : b = [build EXCEPT !.todo = @ \ {p}]
  OBVIOUS
<1>5. build' = b
  BY <1>2, <1>4 DEF K!Skip
<1>6. /\ b.at = build.at /\ b.incremental = build.incremental /\ b.content = build.content
      /\ b.previous = build.previous /\ b.written = build.written /\ b.todo = build.todo \ {p}
      /\ DOMAIN b = BuildFields
  BY <1>0, <1>4 DEF WikiType, BuildFields
<1>7. b.incremental \in BOOLEAN /\ (b.incremental <=> build.incremental)
  BY Zenon, <1>0, <1>6 DEF WikiType
<1>8. WikiType'
  BY <1>0, <1>1, <1>5, <1>6, <1>7 DEF WikiType
<1>9. WikiRun'
  BY <1>0, <1>1, <1>5, <1>6, <1>7 DEF WikiRun, InRun
<1>10. WikiFaithful' /\ WikiListed'
  BY <1>0, <1>1, <1>5, <1>6 DEF WikiFaithful, WikiListed, InRun
<1>11. Right(p)
  <2>1. build.previous = manifest /\ p \notin build.written
    BY <1>0, <1>1, <1>3 DEF WikiRun, InRun
  <2> QED
    BY <1>0, <1>3, <2>1 DEF Right, K!Recorded, WikiFaithful
<1>12. WikiRight'
  <2>1. \A q \in DOMAIN build.content \ b.todo : Right(q)
    BY <1>0, <1>1, <1>6, <1>11 DEF WikiRight
  <2>2. \A q : Right(q)' <=> Right(q)
    BY <1>1, <1>5, <1>6 DEF Right, K!Recorded
  <2> QED
    BY <1>1, <1>5, <1>6, <2>1, <2>2 DEF WikiRight
<1>13. WikiQuiet'
  BY <1>0, <1>1, <1>3, <1>5, <1>6, <1>7 DEF WikiQuiet, Quiet
<1> QED
  BY <1>8, <1>9, <1>10, <1>12, <1>13 DEF WikiInd

(* write_text: the file is empty, then it has the content.                 *)
LEMMA WikiTruncate == WikiInd /\ K!Truncate => WikiInd'
<1> SUFFICES ASSUME WikiInd, K!Truncate PROVE WikiInd'
  OBVIOUS
<1>0. WikiType /\ WikiRun /\ WikiFaithful /\ WikiRight /\ WikiListed /\ WikiQuiet
  BY DEF WikiInd
<1>1. /\ build.at = "page" /\ build.todo # {} /\ ~K!Unchanged(K!Page) /\ pages' = K!Set(pages, K!Page, K!Torn)
      /\ UNCHANGED <<clusters, manifest, marks, strays, wear>>
  BY DEF K!Truncate
<1>2. PICK p : p = K!Page
  OBVIOUS
<1>3. p \in build.todo /\ p \in DOMAIN build.content /\ p \notin build.written
  BY <1>0, <1>1, <1>2, PageIn DEF WikiType, WikiRun
<1>4. PICK b : b = [build EXCEPT !.at = "fill", !.written = @ \cup {p}]
  OBVIOUS
<1>5. build' = b
  BY <1>2, <1>4 DEF K!Truncate
<1>6. /\ b.at = "fill" /\ b.incremental = build.incremental /\ b.content = build.content
      /\ b.previous = build.previous /\ b.written = build.written \cup {p} /\ b.todo = build.todo
      /\ DOMAIN b = BuildFields
  BY <1>0, <1>4 DEF WikiType, BuildFields
<1>7. b.incremental \in BOOLEAN /\ (b.incremental <=> build.incremental)
  BY Zenon, <1>0, <1>6 DEF WikiType
<1>8. DOMAIN pages' = DOMAIN pages \cup {p} /\ \A q \in DOMAIN pages : q = p \/ pages'[q] = pages[q]
  BY <1>1, <1>2 DEF K!Set
<1>9. WikiType'
  BY <1>0, <1>1, <1>5, <1>6, <1>7 DEF WikiType
<1>10. K!Page' = p
  BY <1>2, <1>5, <1>6 DEF K!Page
<1>11. WikiRun'
  BY <1>0, <1>1, <1>3, <1>5, <1>6, <1>7, <1>10 DEF WikiRun, InRun
<1>12. WikiFaithful' /\ WikiListed'
  BY <1>0, <1>1, <1>3, <1>5, <1>6, <1>8 DEF WikiFaithful, WikiListed, InRun
<1>13. WikiRight'
  <2>1. \A q \in DOMAIN build.content \ build.todo : Right(q)'
    BY <1>0, <1>1, <1>3, <1>5, <1>6, <1>8 DEF WikiRight, Right, K!Recorded
  <2> QED
    BY <1>5, <1>6, <2>1 DEF WikiRight
<1>14. ASSUME Quiet, build.incremental, build.previous = build.content PROVE FALSE
  <2>1. K!Recorded(p)
    BY <1>3, <1>14 DEF K!Recorded
  <2>2. p \in DOMAIN pages
    BY <1>0, <1>1, <1>3, <1>14 DEF WikiQuiet, WikiRun, InRun
  <2> QED
    BY <1>1, <1>2, <1>14, <2>1, <2>2 DEF K!Unchanged
<1>15. WikiQuiet'
  BY <1>0, <1>1, <1>5, <1>6, <1>7, <1>8, <1>14 DEF WikiQuiet, Quiet
<1> QED
  BY <1>9, <1>11, <1>12, <1>13, <1>15 DEF WikiInd

LEMMA WikiFill == WikiInd /\ K!Fill => WikiInd'
<1> SUFFICES ASSUME WikiInd, K!Fill PROVE WikiInd'
  OBVIOUS
<1>0. WikiType /\ WikiRun /\ WikiFaithful /\ WikiRight /\ WikiListed /\ WikiQuiet
  BY DEF WikiInd
<1>1. /\ build.at = "fill" /\ pages' = K!Set(pages, K!Page, build.content[K!Page]) /\ marks' = marks \ {K!Page}
      /\ UNCHANGED <<clusters, manifest, strays, wear>>
  BY DEF K!Fill
<1>2. PICK p : p = K!Page
  OBVIOUS
<1>3. p \in build.todo /\ p \in DOMAIN build.content /\ p \in build.written /\ build.written \cap build.todo \subseteq {p}
  BY <1>0, <1>1, <1>2, PageIn DEF WikiType, WikiRun
<1>4. PICK b : b = [build EXCEPT !.at = "page", !.todo = @ \ {p}]
  OBVIOUS
<1>5. build' = b
  BY <1>2, <1>4 DEF K!Fill
<1>6. /\ b.at = "page" /\ b.incremental = build.incremental /\ b.content = build.content
      /\ b.previous = build.previous /\ b.written = build.written /\ b.todo = build.todo \ {p}
      /\ DOMAIN b = BuildFields
  BY <1>0, <1>4 DEF WikiType, BuildFields
<1>7. b.incremental \in BOOLEAN /\ (b.incremental <=> build.incremental)
  BY Zenon, <1>0, <1>6 DEF WikiType
<1>8. /\ DOMAIN pages' = DOMAIN pages \cup {p} /\ pages'[p] = build.content[p]
      /\ \A q \in DOMAIN pages : q = p \/ pages'[q] = pages[q]
      /\ marks' = marks \ {p}
  BY <1>1, <1>2 DEF K!Set
<1>9. WikiType'
  BY <1>0, <1>1, <1>5, <1>6, <1>7 DEF WikiType
<1>10. WikiRun'
  BY <1>0, <1>1, <1>3, <1>5, <1>6, <1>7 DEF WikiRun, InRun
<1>11. WikiFaithful' /\ WikiListed'
  BY <1>0, <1>1, <1>3, <1>5, <1>6, <1>8 DEF WikiFaithful, WikiListed, InRun
<1>12. WikiRight'
  <2>1. \A q \in DOMAIN build.content \ b.todo : Right(q)'
    BY <1>0, <1>1, <1>3, <1>5, <1>6, <1>8 DEF WikiRight, Right, K!Recorded
  <2> QED
    BY <1>5, <1>6, <2>1 DEF WikiRight
<1>13. WikiQuiet'
  BY <1>0, <1>1, <1>5, <1>6, <1>7, <1>8 DEF WikiQuiet, Quiet
<1> QED
  BY <1>9, <1>10, <1>11, <1>12, <1>13 DEF WikiInd

(* The pages of the previous run go that this one has not.                 *)
LEMMA WikiRemove == WikiInd /\ (K!PagesDone \/ K!Remove) => WikiInd'
<1> SUFFICES ASSUME WikiInd, K!PagesDone \/ K!Remove PROVE WikiInd'
  OBVIOUS
<1>0. WikiType /\ WikiRun /\ WikiFaithful /\ WikiRight /\ WikiListed /\ WikiQuiet
  BY DEF WikiInd
<1>1. CASE K!PagesDone
  <2>1. build.at = "page" /\ build.todo = {} /\ UNCHANGED <<clusters, pages, manifest, marks, strays, wear>>
    BY <1>1 DEF K!PagesDone
  <2>2. PICK b : b = [build EXCEPT !.at = "remove", !.todo = K!Stale]
    OBVIOUS
  <2>3. build' = b
    BY <1>1, <2>2 DEF K!PagesDone
  <2>4. /\ b.at = "remove" /\ b.incremental = build.incremental /\ b.content = build.content
        /\ b.previous = build.previous /\ b.written = build.written
        /\ b.todo = DOMAIN build.previous \ DOMAIN build.content /\ DOMAIN b = BuildFields
    BY <1>0, <2>2 DEF WikiType, BuildFields, K!Stale
  <2>5. b.incremental \in BOOLEAN /\ (b.incremental <=> build.incremental)
    BY Zenon, <1>0, <2>4 DEF WikiType
  <2>6. WikiType'
    BY <1>0, <2>1, <2>3, <2>4, <2>5 DEF WikiType
  <2>7. WikiRun'
    BY <1>0, <2>1, <2>3, <2>4, <2>5 DEF WikiRun, InRun
  <2>8. WikiFaithful'
    BY <1>0, <2>1, <2>3, <2>4 DEF WikiFaithful, InRun
  <2>9. WikiListed'
    <3>1. DOMAIN pages \subseteq DOMAIN manifest \cup strays \cup build.written /\ build.written \subseteq DOMAIN build.content
      BY <1>0, <2>1 DEF WikiListed, WikiRun
    <3>2. DOMAIN manifest \subseteq DOMAIN build.previous \cup strays
      BY <1>0, <2>1 DEF WikiRun, InRun, WikiType
    <3> QED
      BY <2>1, <2>3, <2>4, <3>1, <3>2 DEF WikiListed
  <2>10. WikiRight'
    BY <1>0, <2>1, <2>3, <2>4 DEF WikiRight, Right, K!Recorded
  <2>11. WikiQuiet'
    BY <1>0, <2>1, <2>3, <2>4, <2>5 DEF WikiQuiet, Quiet
  <2> QED
    BY <2>6, <2>7, <2>8, <2>9, <2>10, <2>11 DEF WikiInd
<1>2. CASE K!Remove
  <2>1. /\ build.at = "remove" /\ build.todo # {} /\ UNCHANGED <<clusters, manifest, marks, strays, wear>>
        /\ pages' = IF K!Page \in DOMAIN pages THEN K!Drop(pages, K!Page) ELSE pages
    BY <1>2 DEF K!Remove
  <2>2. PICK p : p = K!Page
    OBVIOUS
  <2>3. p \in build.todo /\ p \notin DOMAIN build.content
    BY <1>0, <2>1, <2>2, PageIn DEF WikiType, WikiRun
  <2>4. PICK b : b = [build EXCEPT !.todo = @ \ {p}]
    OBVIOUS
  <2>5. build' = b
    BY <1>2, <2>2, <2>4 DEF K!Remove
  <2>6. /\ b.at = "remove" /\ b.incremental = build.incremental /\ b.content = build.content
        /\ b.previous = build.previous /\ b.written = build.written
        /\ b.todo = build.todo \ {p} /\ DOMAIN b = BuildFields
    BY <1>0, <2>1, <2>4 DEF WikiType, BuildFields
  <2>7. b.incremental \in BOOLEAN /\ (b.incremental <=> build.incremental)
    BY Zenon, <1>0, <2>6 DEF WikiType
  <2>8. DOMAIN pages' = DOMAIN pages \ {p} /\ \A q \in DOMAIN pages' : pages'[q] = pages[q]
    BY <2>1, <2>2 DEF K!Drop
  <2>9. WikiType'
    BY <1>0, <2>1, <2>5, <2>6, <2>7 DEF WikiType
  <2>10. WikiRun'
    BY <1>0, <2>1, <2>5, <2>6, <2>7 DEF WikiRun, InRun
  <2>11. WikiFaithful' /\ WikiListed'
    BY <1>0, <2>1, <2>5, <2>6, <2>8 DEF WikiFaithful, WikiListed, InRun
  <2>12. WikiRight'
    BY <1>0, <2>1, <2>3, <2>5, <2>6, <2>8 DEF WikiRight, Right, K!Recorded
  <2>13. WikiQuiet'
    BY <1>0, <2>1, <2>3, <2>5, <2>6, <2>7, <2>8 DEF WikiQuiet, Quiet
  <2> QED
    BY <2>9, <2>10, <2>11, <2>12, <2>13 DEF WikiInd
<1> QED
  BY <1>1, <1>2

(* The manifest, and the end of the run.                                   *)
LEMMA WikiManifest == WikiInd /\ (K!TruncateManifest \/ K!WriteManifest \/ K!Return) => WikiInd'
<1> SUFFICES ASSUME WikiInd, K!TruncateManifest \/ K!WriteManifest \/ K!Return PROVE WikiInd'
  OBVIOUS
<1>0. WikiType /\ WikiRun /\ WikiFaithful /\ WikiRight /\ WikiListed /\ WikiQuiet
  BY DEF WikiInd
<1>1. DOMAIN K!Nothing = {}
  BY DEF K!Nothing
<1>2. CASE K!TruncateManifest
  <2>1. /\ build.at = "remove" /\ build.todo = {} /\ manifest' = K!Nothing
        /\ UNCHANGED <<clusters, pages, marks, strays, wear>>
    BY <1>2 DEF K!TruncateManifest
  <2>2. PICK b : b = [build EXCEPT !.at = "manifest"]
    OBVIOUS
  <2>3. build' = b
    BY <1>2, <2>2 DEF K!TruncateManifest
  <2>4. /\ b.at = "manifest" /\ b.incremental = build.incremental /\ b.content = build.content
        /\ b.previous = build.previous /\ b.written = build.written
        /\ b.todo = build.todo /\ DOMAIN b = BuildFields
    BY <1>0, <2>2 DEF WikiType, BuildFields
  <2>5. b.incremental \in BOOLEAN /\ (b.incremental <=> build.incremental)
    BY Zenon, <1>0, <2>4 DEF WikiType
  <2>6. WikiType'
    BY <1>0, <1>1, <2>1, <2>3, <2>4, <2>5 DEF WikiType
  <2>7. WikiRun' /\ WikiFaithful'
    BY <1>0, <1>1, <2>1, <2>3, <2>4 DEF WikiRun, WikiFaithful, InRun
  <2>8. WikiListed'
    BY <1>0, <2>1, <2>3, <2>4 DEF WikiListed
  <2>9. WikiRight'
    BY <1>0, <2>1, <2>3, <2>4 DEF WikiRight, Right, K!Recorded
  <2>10. WikiQuiet'
    BY <1>0, <2>1, <2>3, <2>4, <2>5 DEF WikiQuiet, Quiet
  <2> QED
    BY <2>6, <2>7, <2>8, <2>9, <2>10 DEF WikiInd
<1>3. CASE K!WriteManifest
  <2>1. /\ build.at = "manifest" /\ manifest' = build.content /\ strays' = strays \ DOMAIN build.content
        /\ UNCHANGED <<clusters, pages, marks, wear>>
    BY <1>3 DEF K!WriteManifest
  <2>2. PICK b : b = [build EXCEPT !.at = "written"]
    OBVIOUS
  <2>3. build' = b
    BY <1>3, <2>2 DEF K!WriteManifest
  <2>4. /\ b.at = "written" /\ b.incremental = build.incremental /\ b.content = build.content
        /\ b.previous = build.previous /\ b.written = build.written
        /\ b.todo = build.todo /\ DOMAIN b = BuildFields
    BY <1>0, <2>2 DEF WikiType, BuildFields
  <2>5. b.incremental \in BOOLEAN /\ (b.incremental <=> build.incremental)
    BY Zenon, <1>0, <2>4 DEF WikiType
  <2>6. WikiType'
    BY <1>0, <2>1, <2>3, <2>4, <2>5 DEF WikiType
  <2>7. WikiRun'
    BY <1>0, <2>1, <2>3, <2>4 DEF WikiRun, InRun
  <2>8. WikiFaithful'
    BY <1>0, <2>1, <2>3, <2>4 DEF WikiFaithful, WikiRight, Right
  <2>9. WikiListed'
    BY <1>0, <2>1, <2>3, <2>4 DEF WikiListed
  <2>10. WikiRight'
    BY <1>0, <2>1, <2>3, <2>4 DEF WikiRight, Right, K!Recorded
  <2>11. WikiQuiet'
    BY <1>0, <2>1, <2>3, <2>4, <2>5 DEF WikiQuiet, Quiet
  <2> QED
    BY <2>6, <2>7, <2>8, <2>9, <2>10, <2>11 DEF WikiInd
<1>4. CASE K!Return
  <2>1. build.at = "written" /\ build' = K!Resting /\ UNCHANGED <<clusters, pages, manifest, marks, strays, wear>>
    BY <1>4 DEF K!Return
  <2>2. /\ K!Resting.at = "rest" /\ DOMAIN K!Resting = BuildFields
        /\ K!Resting.incremental \in BOOLEAN /\ K!Resting.todo = {}
        /\ DOMAIN K!Resting.content = {} /\ DOMAIN K!Resting.previous = {} /\ K!Resting.written = {}
    BY DEF K!Resting, BuildFields, K!Nothing
  <2>3. manifest = build.content
    BY <1>0, <2>1 DEF WikiRun
  <2>4. WikiType'
    BY <1>0, <2>1, <2>2 DEF WikiType
  <2>5. WikiRun' /\ WikiRight'
    BY <2>1, <2>2 DEF WikiRun, WikiRight, InRun
  <2>6. WikiFaithful'
    BY <1>0, <2>1, <2>2 DEF WikiFaithful, InRun
  <2>7. WikiListed'
    BY <1>0, <2>1, <2>2, <2>3 DEF WikiListed
  <2>8. WikiQuiet'
    BY <1>0, <2>1, <2>2, <2>3 DEF WikiQuiet, Quiet
  <2> QED
    BY <2>4, <2>5, <2>6, <2>7, <2>8 DEF WikiInd
<1> QED
  BY <1>2, <1>3, <1>4

(* A run that dies marks what it has written.                              *)
LEMMA WikiDies == WikiInd /\ K!Dies => WikiInd'
<1> SUFFICES ASSUME WikiInd, K!Dies PROVE WikiInd'
  OBVIOUS
<1>0. WikiType /\ WikiRun /\ WikiFaithful /\ WikiRight /\ WikiListed /\ WikiQuiet
  BY DEF WikiInd
<1>1. /\ build.at # "rest" /\ build.at # "written" /\ marks' = marks \cup build.written
      /\ strays' = strays \cup build.written \cup (IF build.at = "manifest" THEN DOMAIN pages ELSE {})
      /\ build' = K!Resting /\ wear' = [wear EXCEPT !.deaths = @ + 1]
      /\ UNCHANGED <<clusters, pages, manifest>>
  BY DEF K!Dies
<1>2. /\ K!Resting.at = "rest" /\ DOMAIN K!Resting = BuildFields
      /\ K!Resting.incremental \in BOOLEAN /\ K!Resting.todo = {}
      /\ DOMAIN K!Resting.content = {} /\ DOMAIN K!Resting.previous = {} /\ K!Resting.written = {}
  BY DEF K!Resting, BuildFields, K!Nothing
<1>3. wear'.edits = wear.edits /\ wear'.deaths = wear.deaths + 1
      /\ wear' = [runs |-> wear'.runs, changes |-> wear'.changes, deaths |-> wear'.deaths, edits |-> wear'.edits]
  BY <1>0, <1>1 DEF WikiType
<1>4. WikiType'
  BY <1>0, <1>1, <1>2, <1>3 DEF WikiType
<1>5. WikiRun' /\ WikiRight'
  BY <1>1, <1>2 DEF WikiRun, WikiRight, InRun
<1>6. WikiFaithful'
  BY <1>0, <1>1, <1>2 DEF WikiFaithful, InRun
<1>7. WikiListed'
  BY <1>0, <1>1, <1>2 DEF WikiListed, WikiType
<1>8. WikiQuiet'
  BY <1>0, <1>3 DEF WikiQuiet, Quiet, WikiType
<1> QED
  BY <1>4, <1>5, <1>6, <1>7, <1>8 DEF WikiInd

LEMMA WikiStep == WikiInd /\ K!Next => WikiInd'
BY WikiAround, WikiBegin, WikiSkip, WikiTruncate, WikiFill, WikiRemove, WikiManifest, WikiDies DEF K!Next

LEMMA WikiStays == WikiInd /\ UNCHANGED K!wikiVars => WikiInd'
<1> SUFFICES ASSUME WikiInd, UNCHANGED K!wikiVars PROVE WikiInd'
  OBVIOUS
<1>1. WikiType' /\ WikiFaithful' /\ WikiListed' /\ WikiQuiet'
  BY DEF K!wikiVars, WikiInd, WikiType, WikiFaithful, WikiListed, WikiQuiet, Quiet, InRun
<1>2. WikiRun' /\ WikiRight'
  BY DEF K!wikiVars, WikiInd, WikiRun, WikiRight, Right, K!Recorded, InRun, K!Page
<1> QED
  BY <1>1, <1>2 DEF WikiInd

LEMMA WikiPromise == WikiInd => K!PagesCurrent /\ K!NoStalePages /\ K!WritesNothing
BY DEF WikiInd, WikiRight, Right, WikiListed, WikiQuiet, Quiet, K!PagesCurrent, K!NoStalePages, K!WritesNothing,
       K!Complete

-----------------------------------------------------------------------------

(* The tenants.  A principal's id is the number it was made as, so a       *)
(* binding names the principal it was made for, whatever was deleted since; *)
(* a process that is between load and save has loaded what is there.       *)
Uses == [made : Nat, deletes : Nat, binds : Nat, overlap : BOOLEAN]
TenantRows ==
    /\ roles = [r \in DOMAIN roles |-> roles[r]] /\ principals = [p \in DOMAIN principals |-> principals[p]]
    /\ \A r \in DOMAIN roles : roles[r] \in tenants
    /\ \A p \in DOMAIN principals : principals[p].tenant \in tenants /\ principals[p].role \in DOMAIN roles
Bound ==
    /\ DOMAIN principals \subseteq Nat /\ \A p \in DOMAIN principals : principals[p].made = p
    /\ \A x \in DOMAIN meant : meant[x].made = meant[x].pid
    /\ \A a \in Admins : admin[a].at = "save" /\ admin[a].pid # -1 => admin[a].of = admin[a].pid
    /\ ~usage.overlap =>
        /\ bindings = [x \in DOMAIN meant |-> meant[x].pid]
        /\ \A a \in Admins : admin[a].at = "save" => admin[a].loaded = bindings
        /\ \A a, b \in Admins : admin[a].at = "save" /\ admin[b].at = "save" => a = b
TenantInd == TenantRows /\ Bound /\ usage \in Uses /\ DOMAIN admin = Admins

(* The local tenant with its owner.                                        *)
LEMMA TenantInit == T!Init => TenantInd
<1> SUFFICES ASSUME T!Init PROVE TenantInd
  OBVIOUS
<1>1. TenantRows
  BY DEF T!Init, TenantRows
<1>2. usage \in Uses
  BY DEF T!Init, Uses
<1>3. DOMAIN meant = {} /\ bindings = [x \in DOMAIN meant |-> meant[x].pid]
  BY DEF T!Init, T!Empty
<1>4. DOMAIN admin = Admins /\ \A a \in Admins : admin[a].at = "rest"
  BY DEF T!Init, T!Resting
<1>5. DOMAIN principals \subseteq Nat /\ \A p \in DOMAIN principals : principals[p].made = p
  BY DEF T!Init
<1>6. Bound
  BY <1>3, <1>4, <1>5 DEF Bound
<1> QED
  BY <1>1, <1>2, <1>4, <1>6 DEF TenantInd

(* It gives what the module promises.                                      *)
LEMMA TenantPromise == TenantInd => T!RowsHaveTenants /\ T!SubjectsAsBound
<1> SUFFICES ASSUME TenantInd PROVE T!RowsHaveTenants /\ T!SubjectsAsBound
  OBVIOUS
<1>1. T!RowsHaveTenants
  BY DEF TenantInd, TenantRows, T!RowsHaveTenants
<1>2. T!SubjectsAsBound
  BY DEF TenantInd, Bound, T!SubjectsAsBound, T!Resolve
<1> QED
  BY <1>1, <1>2

(* Every command keeps the invariant.                                      *)
LEMMA TenantStep == TenantInd /\ T!Next => TenantInd'
<1> SUFFICES ASSUME TenantInd, T!Next PROVE TenantInd'
  OBVIOUS
<1>0. TenantRows /\ Bound /\ usage \in Uses /\ DOMAIN admin = Admins
  BY DEF TenantInd
<1>1. CASE T!CreateTenant
  BY <1>0, <1>1 DEF T!CreateTenant, TenantInd, TenantRows, Bound
<1>2. CASE T!CreateRole
  <2>1. TenantRows'
    BY <1>0, <1>2 DEF T!CreateRole, T!Set, TenantRows
  <2>2. Bound' /\ usage' \in Uses /\ DOMAIN admin' = Admins
    BY <1>0, <1>2 DEF T!CreateRole, Bound
  <2> QED
    BY <2>1, <2>2 DEF TenantInd
<1>3. CASE T!CreatePrincipal
  <2>1. PICK t \in tenants, r \in DOMAIN roles :
            principals' = T!Set(principals, usage.made + 1, [tenant |-> t, role |-> r, made |-> usage.made + 1])
    BY <1>3 DEF T!CreatePrincipal, T!PrincipalId
  <2>2. usage' \in Uses /\ usage'.overlap = usage.overlap
    BY <1>0, <1>3 DEF T!CreatePrincipal, Uses
  <2>3. UNCHANGED <<tenants, roles, bindings, admin, meant>>
    BY <1>3 DEF T!CreatePrincipal
  <2>4. TenantRows'
    BY <1>0, <2>1, <2>3 DEF T!Set, TenantRows
  <2>5. usage.made + 1 \in Nat
    BY <1>0 DEF Uses
  <2>6. Bound'
    BY <1>0, <2>1, <2>2, <2>3, <2>5 DEF T!Set, Bound
  <2> QED
    BY <1>0, <2>2, <2>3, <2>4, <2>6 DEF TenantInd
<1>4. CASE T!DeleteTenant
  <2>1. usage' \in Uses /\ usage'.overlap = usage.overlap /\ UNCHANGED <<bindings, admin, meant>>
    BY <1>0, <1>4 DEF T!DeleteTenant, Uses
  <2>2. PICK t \in tenants :
            \/ UNCHANGED <<tenants, roles, principals>>
            \/ /\ T!Held(t) = {} /\ tenants' = tenants \ {t}
               /\ roles' = T!Without(roles, T!RolesOf(t)) /\ principals' = T!Without(principals, T!Owned(principals, t))
    BY <1>4 DEF T!DeleteTenant
  <2>3. TenantRows'
    BY <1>0, <2>2 DEF TenantRows, T!Held, T!Without, T!Owned, T!RolesOf
  <2>4. DOMAIN principals' \subseteq DOMAIN principals /\ \A p \in DOMAIN principals' : principals'[p] = principals[p]
    BY <2>2 DEF T!Without
  <2>5. Bound'
    BY <1>0, <2>1, <2>4 DEF Bound
  <2> QED
    BY <1>0, <2>1, <2>3, <2>5 DEF TenantInd
<1>5. ASSUME NEW a \in Admins, T!Load(a) PROVE TenantInd'
  <2>1. PICK s \in Subjects, pid \in (DOMAIN principals \ {0}) \cup {-1} :
            admin' = [admin EXCEPT ![a] = [at |-> "save", loaded |-> bindings, subject |-> s, pid |-> pid,
                                  of |-> IF pid = -1 THEN 0 ELSE principals[pid].made]]
    BY <1>5 DEF T!Load
  <2> DEFINE meeting == usage.overlap \/ \E b \in Admins : admin[b].at = "save"
  <2>2. usage' = [usage EXCEPT !.binds = @ + 1, !.overlap = meeting]
    BY <1>5 DEF T!Load
  <2>3. meeting \in BOOLEAN /\ (meeting \/ (~usage.overlap /\ \A b \in Admins : admin[b].at # "save"))
    BY <1>0 DEF Uses
  <2> HIDE DEF meeting
  <2>4. usage' \in Uses /\ usage'.overlap = meeting
    <3> DEFINE u == [usage EXCEPT !.binds = @ + 1]
    <3>1. u \in Uses
      BY <1>0 DEF Uses
    <3>2. usage' = [u EXCEPT !.overlap = meeting]
      BY <2>2
    <3> HIDE DEF u
    <3> QED
      BY <2>3, <3>1, <3>2 DEF Uses
  <2>5. UNCHANGED <<tenants, roles, principals, bindings, meant>>
    BY <1>5 DEF T!Load
  <2>6. /\ DOMAIN admin' = Admins /\ \A b \in Admins \ {a} : admin'[b] = admin[b]
        /\ admin'[a].loaded = bindings /\ (pid # -1 => admin'[a].of = pid) /\ admin'[a].pid = pid
    BY <1>0, <2>1 DEF Bound
  <2>7. Bound'
    BY <1>0, <2>3, <2>4, <2>5, <2>6 DEF Bound
  <2> QED
    BY <1>0, <2>4, <2>5, <2>6, <2>7 DEF TenantInd, TenantRows
<1>6. ASSUME NEW a \in Admins, T!Save(a) PROVE TenantInd'
  <2> DEFINE s == admin[a].subject
             pid == admin[a].pid
  <2>1. /\ admin[a].at = "save" /\ bindings' = T!Changed(admin[a].loaded, s, pid)
        /\ meant' = IF pid = -1 THEN T!Without(meant, {s}) ELSE T!Set(meant, s, [pid |-> pid, made |-> admin[a].of])
        /\ UNCHANGED <<tenants, roles, principals, usage>>
    BY <1>6 DEF T!Save
  <2>2. DOMAIN admin' = Admins /\ admin'[a].at = "rest" /\ \A b \in Admins \ {a} : admin'[b] = admin[b]
    BY <1>0, <1>6 DEF T!Save, T!Resting
  <2>3. pid # -1 => admin[a].of = pid
    BY <1>0, <2>1 DEF Bound
  <2> HIDE DEF s, pid
  <2>4. \A x \in DOMAIN meant' : meant'[x].made = meant'[x].pid
    BY <1>0, <2>1, <2>3 DEF Bound, T!Set, T!Without
  <2>5. ~usage.overlap => bindings' = [x \in DOMAIN meant' |-> meant'[x].pid]
    <3> SUFFICES ASSUME ~usage.overlap PROVE bindings' = [x \in DOMAIN meant' |-> meant'[x].pid]
      OBVIOUS
    <3>1. admin[a].loaded = [x \in DOMAIN meant |-> meant[x].pid]
      BY <1>0, <2>1 DEF Bound
    <3> QED
      BY <2>1, <3>1 DEF T!Changed, T!Set, T!Without
  <2>6. ~usage.overlap => \A b \in Admins : admin'[b].at # "save"
    BY <1>0, <2>1, <2>2 DEF Bound
  <2>7. Bound'
    <3>1. \A b \in Admins : admin'[b].at = "save" => b # a /\ admin'[b] = admin[b]
      BY <2>2
    <3>2. \A b \in Admins : admin'[b].at = "save" /\ admin'[b].pid # -1 => admin'[b].of = admin'[b].pid
      BY <1>0, <3>1 DEF Bound
    <3> QED
      BY <1>0, <2>1, <2>4, <2>5, <2>6, <3>2 DEF Bound
  <2> QED
    BY <1>0, <2>1, <2>2, <2>7 DEF TenantInd, TenantRows
<1> QED
  BY <1>1, <1>2, <1>3, <1>4, <1>5, <1>6 DEF T!Next
LEMMA TenantStays == TenantInd /\ UNCHANGED T!tenantVars => TenantInd'
BY DEF T!tenantVars, TenantInd, TenantRows, Bound
=============================================================================
