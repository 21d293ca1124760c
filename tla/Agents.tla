------------------------------- MODULE Agents -------------------------------
(***************************************************************************)
(* The coordinator and its agents (agents/coordinator.py, ledger.py,       *)
(* budget.py, base.py and the agents; core/policy.py).  A task goes to the *)
(* first agent that handles its kind, on a thread of its own; its run is a *)
(* row of task_runs and lines of a journal.  Submitted tasks are put to    *)
(* the policy first, tasks run in parallel are not.  Two agents write: the *)
(* ingestion agent adds mentions of entities, the curation agent merges    *)
(* duplicate entities, statement after statement, each its own commit.     *)
(***************************************************************************)
EXTENDS Naturals, FiniteSets, Sequences, SequencesExt

CONSTANTS Threads,
          Duplicates,   \* entities of one kind and canonical name, Nat
          Mentions,     \* mentions that may come to be
          MaxTasks,     \* bound on the tasks
          MaxDeaths     \* bound on the process dying

VARIABLES entities,   \* the duplicates that are left
          refers,     \* mention -> its entity, 0 for none
          dropped,    \* mentions a delete took along
          rows,       \* task_runs: run -> [status, used]
          journal,    \* <<run, event>> lines
          worker,     \* each thread: its run, and where the agent is
          policy,     \* whether outbound calls are allowed
          around      \* [tasks, deaths, met]: bounds, and two writers at once
agentVars == <<entities, refers, dropped, rows, journal, worker, policy, around>>

Kinds == {"curate", "ingest", "research", "ingest.web", "unknown"}
Budgets == {1, 2}
Resting == [at |-> "rest", run |-> 0, kind |-> "none", budget |-> 1, used |-> 0,
            keep |-> 0, todo |-> {}, ok |-> TRUE, said |-> "nothing"]

Init ==
    /\ entities = Duplicates /\ dropped = {}
    /\ \E e \in Duplicates : refers = [m \in Mentions |-> e]
    /\ rows = <<>> /\ journal = <<>>
    /\ worker = [t \in Threads |-> Resting]
    /\ policy \in BOOLEAN
    /\ around = [tasks |-> 0, deaths |-> 0, met |-> FALSE]

-----------------------------------------------------------------------------

(* PolicyEngine.evaluate, for the principal of this machine: what goes out *)
(* is denied when the network is off, and otherwise wants a consent that   *)
(* the coordinator never passes on.                                        *)
Evaluate(kind) == IF kind = "ingest.web" THEN IF policy THEN "require_consent" ELSE "deny"
                  ELSE "allow"
Handled(kind) == kind \in {"curate", "ingest", "research"}
Writers == {t \in Threads : worker[t].at \in {"merge", "delete", "insert"}}

(* AgentLedger: the row, and then a line of the journal.                   *)
LedgerStart ==
    /\ rows' = Append(rows, [status |-> "running", used |-> 0])
    /\ journal' = Append(journal, <<Len(rows) + 1, "start">>)
LedgerFinish(run, status, used) ==
    /\ rows' = [rows EXCEPT ![run] = [status |-> status, used |-> used]]
    /\ journal' = Append(journal, <<run, status>>)

(* submit, and run_parallel, which does not ask the policy: a kind nobody  *)
(* handles is an exception, and no run.                                    *)
Task(t) == \E kind \in Kinds, asks \in BOOLEAN, budget \in Budgets :
    /\ worker[t].at = "rest" /\ around.tasks < MaxTasks
    /\ IF (asks /\ Evaluate(kind) # "allow") \/ ~Handled(kind)
       THEN /\ worker' = [worker EXCEPT ![t] = [Resting EXCEPT !.said = "refused"]]
            /\ UNCHANGED <<rows, journal>>
       ELSE /\ LedgerStart
            /\ worker' = [worker EXCEPT ![t] = [Resting EXCEPT !.at = "run", !.run = Len(rows) + 1,
                                                   !.kind = kind, !.budget = budget]]
    /\ around' = [around EXCEPT !.tasks = @ + 1]
    /\ UNCHANGED <<entities, refers, dropped, policy>>

(* The agent reads: the research agent then has its answer, or an error;   *)
(* the ingestion agent the entity of a name; the curation agent the        *)
(* duplicates, of which it keeps the first.                                *)
Min0(S) == CHOOSE e \in S : \A f \in S : e <= f
Read(t) ==
    /\ worker[t].at = "run"
    /\ \/ /\ worker[t].kind = "research"
          /\ \E used \in {0, 2}, ok \in BOOLEAN :
                worker' = [worker EXCEPT ![t].at = "answer", ![t].used = used, ![t].ok = ok]
       \/ /\ worker[t].kind = "ingest"
          /\ \E e \in entities :
                worker' = [worker EXCEPT ![t].at = "insert", ![t].keep = e, ![t].used = 1]
       \/ /\ worker[t].kind = "curate"
          /\ worker' = [worker EXCEPT ![t].at = IF Cardinality(entities) < 2 THEN "answer" ELSE "merge",
                                      ![t].keep = Min0(entities),
                                      ![t].todo = entities \ {Min0(entities)}]
    /\ around' = [around EXCEPT !.met = @ \/ (worker[t].kind # "research" /\ Writers # {})]
    /\ UNCHANGED <<entities, refers, dropped, rows, journal, policy>>
(* A new mention: of an entity that is gone, the foreign key refuses it.   *)
Insert(t) ==
    /\ worker[t].at = "insert"
    /\ \/ /\ worker[t].keep \in entities
          /\ \E m \in {n \in Mentions : refers[n] = 0} : refers' = [refers EXCEPT ![m] = worker[t].keep]
          /\ worker' = [worker EXCEPT ![t].at = "answer"]
       \/ /\ worker[t].keep \notin entities \/ \A m \in Mentions : refers[m] # 0
          /\ worker' = [worker EXCEPT ![t].at = "answer", ![t].ok = FALSE]
          /\ UNCHANGED refers
    /\ UNCHANGED <<entities, dropped, rows, journal, policy, around>>
(* Merge the next duplicate: everything that refers to it to the one that  *)
(* is kept, and then the delete, which takes along what refers to it.      *)
Merge(t) ==
    /\ worker[t].at = "merge"
    /\ LET dup == Min0(worker[t].todo)
       IN  refers' = [m \in Mentions |-> IF refers[m] = dup THEN worker[t].keep ELSE refers[m]]
    /\ worker' = [worker EXCEPT ![t].at = "delete"]
    /\ UNCHANGED <<entities, dropped, rows, journal, policy, around>>
Delete(t) ==
    /\ worker[t].at = "delete"
    /\ LET dup == Min0(worker[t].todo)
           rest == worker[t].todo \ {dup}
       IN  /\ entities' = entities \ {dup}
           /\ refers' = [m \in Mentions |-> IF refers[m] = dup THEN 0 ELSE refers[m]]
           /\ dropped' = dropped \cup {m \in Mentions : refers[m] = dup}
           /\ worker' = [worker EXCEPT ![t].todo = rest, ![t].used = @ + 1,
                                       ![t].at = IF rest = {} THEN "answer" ELSE "merge"]
    /\ UNCHANGED <<rows, journal, policy, around>>

(* _execute: the units are charged, and the time looked at, only now that  *)
(* all is done; the row, the journal and the caller get the outcome.       *)
Charged_Never(w) == TRUE
Charged(w) == w.used <= w.budget
Answer(t) == \E late \in BOOLEAN :
    /\ worker[t].at = "answer"
    /\ LET w == worker[t]
           status == IF ~Charged(w) THEN "error" ELSE IF late THEN "timeout"
                     ELSE IF w.ok THEN "ok" ELSE "error"
       IN  /\ LedgerFinish(w.run, status, IF ~Charged(w) \/ late THEN 0 ELSE w.used)
           /\ worker' = [worker EXCEPT ![t] = [Resting EXCEPT !.run = w.run, !.kind = w.kind,
                              !.budget = w.budget, !.used = w.used, !.said = status]]
    /\ UNCHANGED <<entities, refers, dropped, policy, around>>
(* The process dies with all its threads.                                  *)
Die ==
    /\ around.deaths < MaxDeaths /\ \E t \in Threads : worker[t].at # "rest"
    /\ worker' = [t \in Threads |-> Resting]
    /\ around' = [around EXCEPT !.deaths = @ + 1]
    /\ UNCHANGED <<entities, refers, dropped, rows, journal, policy>>

Next == (\E t \in Threads : Task(t) \/ Read(t) \/ Insert(t) \/ Merge(t) \/ Delete(t) \/ Answer(t)) \/ Die

-----------------------------------------------------------------------------

(* No mention is lost and none is without its entity, also while entities  *)
(* are merged, when that dies half way and is run again, as long as only   *)
(* one agent writes at a time: a mention added to a duplicate after its    *)
(* mentions were moved goes with it.  (agents/curation.py:37-49.)          *)
MentionsKept == /\ \A m \in Mentions : refers[m] # 0 => refers[m] \in entities
                /\ ~around.met => dropped = {}
(* The caller, the row and the journal agree on how a run ended; what is   *)
(* called ok was within its budget, and was done; a merge that says ok     *)
(* leaves one entity, unless others wrote.                                 *)
RunsAccounted ==
    \A t \in Threads : worker[t].said \in {"ok", "error", "timeout"} =>
        LET w == worker[t]
        IN  /\ rows[w.run].status = w.said
            /\ Contains(journal, <<w.run, w.said>>)
            /\ w.said = "ok" => rows[w.run].used = w.used /\ w.used <= w.budget
            /\ (w.said = "ok" /\ w.kind = "curate") => Cardinality(entities) = 1
=============================================================================
