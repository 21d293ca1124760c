-------------------------- MODULE WatchSupervisor --------------------------
(***************************************************************************)
(* Inside the watch service (watch/service.py, Supervisor and RepoWorker): *)
(* a supervisor thread that reconciles its workers with registry.json on   *)
(* every cycle and replaces the dead ones, one worker thread per           *)
(* registered name that polls its repository and re-ingests it, the        *)
(* SIGTERM handler, and the `dkg registry' commands that edit the file.    *)
(*                                                                         *)
(* A working tree is the number of its current state: the signature hashes *)
(* sizes and modification times, so a state never comes back.  `graph' is  *)
(* the state the last committed ingest had read; what an ingest does is    *)
(* module CodeGraph.  The loops over sorted names take them in any order.  *)
(***************************************************************************)
EXTENDS Naturals

CONSTANTS
  Names,        \* registered names
  Repos,        \* repository paths
  Threads,      \* worker threads alive or referenced at one time
  MaxVersion,   \* bound on the edits of a tree
  MaxDeaths,    \* bound on the worker threads that die
  Hazards,      \* subset of {"timeout", "torn", "kill", "elapse"}
  NoRepo,
  NoThread

ASSUME SupervisorAssumption ==
  /\ MaxVersion \in Nat \ {0} /\ MaxDeaths \in Nat
  /\ Hazards \subseteq {"timeout", "torn", "kill", "elapse"}
  /\ NoRepo \notin Repos
  /\ NoThread \notin Threads

VARIABLES
  tree,     \* the current state of each repository
  graph,    \* the state of it that the database holds, 0 before any ingest
  disk,     \* registry.json: each name's path
  torn,     \* whether an edit of registry.json is half-written
  edited,   \* the registry that edit is writing
  sup,      \* where the supervisor is
  stop,     \* Supervisor._stop
  wanted,   \* the registry as reconcile has loaded it
  workers,  \* Supervisor._workers
  busy,     \* the worker being stopped or started, its name, and what comes next
  halt,     \* Supervisor.stop under way: the names left to stop, the thread it
            \* joins, and where the supervisor goes on
  todo,     \* the names check_health has still to look at
  thread,   \* the worker threads
  deaths    \* worker threads that have died

registry == <<disk, torn, edited>>
supervisor == <<sup, stop, wanted, workers, busy, halt, todo>>
vars == <<tree, graph, registry, supervisor, thread, deaths>>

-----------------------------------------------------------------------------

Registries == [Names -> Repos \cup {NoRepo}]
Unregistered == [n \in Names |-> NoRepo]
NoWorkers == [n \in Names |-> NoThread]

\* A worker thread: its repository, where it is, its stop event, the signature
\* of its last success and of this poll, and the tree its ingest has read.
Gone == [repo |-> NoRepo, at |-> "gone", stop |-> FALSE, sig |-> 0, next |-> 0, seen |-> 0]
Started(r) == [Gone EXCEPT !.repo = r, !.at = "loop"]
NeverStarted(r) == [Gone EXCEPT !.repo = r]

Alive(t) == thread[t].at # "gone"
Referenced(t) == t \in {busy.thread, halt.on} \/ \E n \in Names : workers[n] = t

\* A new thread: which of the unused ones makes no difference.
Free(t) == ~Alive(t) /\ ~Referenced(t)
Fresh == CHOOSE t \in Threads : Free(t)
CanStart == \E t \in Threads : Free(t)
Up == sup \notin {"final", "stopped", "exited"} /\ halt.back # "stopped"
NotBusy == [thread |-> NoThread, name |-> NoRepo, back |-> "adopt"]
NotHalting == [left |-> {}, on |-> NoThread, back |-> "adopt"]
Watched == {n \in Names : workers[n] # NoThread}

Init ==
  /\ tree = [r \in Repos |-> 1]
  /\ graph = [r \in Repos |-> 0]
  /\ disk = Unregistered /\ torn = FALSE /\ edited = Unregistered
  /\ sup = "exited" /\ stop = FALSE
  /\ wanted = Unregistered
  /\ workers = NoWorkers
  /\ busy = NotBusy /\ halt = NotHalting
  /\ todo = {}
  /\ thread = [t \in Threads |-> Gone]
  /\ deaths = 0

-----------------------------------------------------------------------------
(* The developer and the registry commands *)

Edit(r) ==
  /\ tree[r] < MaxVersion
  /\ tree' = [tree EXCEPT ![r] = @ + 1]
  /\ UNCHANGED <<graph, registry, supervisor, thread, deaths>>

\* `dkg registry add' of a name not registered, `remove' of one that is.
Changes ==
  {[disk EXCEPT ![n] = r] : n \in {m \in Names : disk[m] = NoRepo}, r \in Repos}
  \cup {[disk EXCEPT ![n] = NoRepo] : n \in {n \in Names : disk[n] # NoRepo}}

\* _save: write_text truncates the file, then writes it.
Truncate ==
  /\ "torn" \in Hazards /\ ~torn
  /\ edited' \in Changes
  /\ torn' = TRUE
  /\ UNCHANGED <<tree, graph, disk, supervisor, thread, deaths>>

Save ==
  /\ \/ torn /\ disk' = edited /\ edited' = Unregistered
     \/ "torn" \notin Hazards /\ disk' \in Changes /\ UNCHANGED edited
  /\ torn' = FALSE
  /\ UNCHANGED <<tree, graph, supervisor, thread, deaths>>

-----------------------------------------------------------------------------
(* The supervisor *)

Goto(from, to) == sup = from /\ sup' = to

Launch ==
  /\ Goto("exited", "load")
  /\ stop' = FALSE
  /\ UNCHANGED <<tree, graph, registry, wanted, workers, busy, halt, todo, thread, deaths>>

\* reconcile reads the registry; a file that is not JSON raises through run.
Load ==
  /\ IF torn THEN Goto("load", "final") /\ UNCHANGED wanted
             ELSE Goto("load", "retire") /\ wanted' = disk
  /\ UNCHANGED <<tree, graph, registry, stop, workers, busy, halt, todo, thread, deaths>>

\* Mutant: the worker leaves the map without being told to stop.
StopWorker_Unsignalled(n, back) ==
  /\ workers' = [workers EXCEPT ![n] = NoThread]
  /\ sup' = back
  /\ UNCHANGED <<tree, graph, registry, stop, wanted, busy, halt, todo, thread, deaths>>

\* worker.stop: set its event, then join it for at most five seconds.
StopWorker(n, back) ==
  /\ busy' = [thread |-> workers[n], name |-> n, back |-> back]
  /\ workers' = [workers EXCEPT ![n] = NoThread]
  /\ thread' = [thread EXCEPT ![workers[n]].stop = TRUE]
  /\ sup' = "join"
  /\ UNCHANGED <<tree, graph, registry, stop, wanted, halt, todo, deaths>>

\* First the names that left the registry ...
Unwanted(n) == workers[n] # NoThread /\ wanted[n] = NoRepo
Retire(n) == sup = "retire" /\ Unwanted(n) /\ StopWorker(n, "retire")

EndRetire ==
  /\ Goto("retire", "adopt")
  /\ \A n \in Names : ~Unwanted(n)
  /\ UNCHANGED <<tree, graph, registry, stop, wanted, workers, busy, halt, todo, thread, deaths>>

\* ... then those whose path moved, and those without a worker.
Displaced(n) ==
  workers[n] # NoThread /\ wanted[n] # NoRepo /\ thread[workers[n]].repo # wanted[n]
Displace(n) == sup = "adopt" /\ Displaced(n) /\ StopWorker(n, "adopt")

Unwatched(n) == workers[n] = NoThread /\ wanted[n] # NoRepo
Adopt(n) ==
  /\ sup = "adopt" /\ Unwatched(n) /\ CanStart
  /\ workers' = [workers EXCEPT ![n] = Fresh]
  /\ thread' = [thread EXCEPT ![Fresh] = NeverStarted(wanted[n])]
  /\ IF stop THEN UNCHANGED <<sup, busy>>
             ELSE sup' = "start" /\ busy' = [thread |-> Fresh, name |-> n, back |-> "adopt"]
  /\ UNCHANGED <<tree, graph, registry, stop, wanted, halt, todo, deaths>>

\* worker.start(), of a worker that the handler may have told to stop by now.
Start ==
  /\ sup = "start" /\ sup' = busy.back
  /\ thread' = [thread EXCEPT ![busy.thread].at = "loop"]
  /\ busy' = NotBusy
  /\ UNCHANGED <<tree, graph, registry, stop, wanted, workers, halt, todo, deaths>>

\* The worker has gone, or five seconds have.
Join ==
  /\ sup = "join"
  /\ ~Alive(busy.thread) \/ "timeout" \in Hazards
  /\ sup' = busy.back
  /\ busy' = NotBusy
  /\ UNCHANGED <<tree, graph, registry, stop, wanted, workers, halt, todo, thread, deaths>>

EndAdopt ==
  /\ Goto("adopt", "health")
  /\ \A n \in Names : ~Displaced(n) /\ ~Unwatched(n)
  /\ todo' = Watched
  /\ wanted' = Unregistered
  /\ UNCHANGED <<tree, graph, registry, stop, workers, busy, halt, thread, deaths>>

Replace(n) ==
  /\ CanStart
  /\ Goto("health", "replace")
  /\ busy' = [thread |-> Fresh, name |-> n, back |-> "health"]
  /\ thread' = [thread EXCEPT ![Fresh] = NeverStarted(thread[workers[n]].repo)]

\* Mutant: a worker is replaced without asking whether it is alive.
Check_Always(n) ==
  /\ sup = "health" /\ n \in todo
  /\ todo' = todo \ {n}
  /\ Replace(n)
  /\ UNCHANGED <<tree, graph, registry, stop, wanted, workers, halt, deaths>>

\* check_health: a dead worker is to be replaced by one for the same repository.
Check(n) ==
  /\ sup = "health" /\ n \in todo
  /\ todo' = todo \ {n}
  /\ IF Alive(workers[n]) \/ stop THEN UNCHANGED <<sup, busy, thread>> ELSE Replace(n)
  /\ UNCHANGED <<tree, graph, registry, stop, wanted, workers, halt, deaths>>

\* The replacement enters the map, then starts.
Install ==
  /\ Goto("replace", "start")
  /\ workers' = [workers EXCEPT ![busy.name] = busy.thread]
  /\ UNCHANGED <<tree, graph, registry, stop, wanted, busy, halt, todo, thread, deaths>>

EndHealth ==
  /\ Goto("health", "wait")
  /\ todo = {}
  /\ UNCHANGED <<tree, graph, registry, stop, wanted, workers, busy, halt, todo, thread, deaths>>

\* Mutant: the wait between two cycles does not look at the event.
Wait_Deaf ==
  /\ Goto("wait", "load")
  /\ UNCHANGED <<tree, graph, registry, stop, wanted, workers, busy, halt, todo, thread, deaths>>

\* The wait between two cycles ends early, and the loop with it, on a stop.
Wait ==
  /\ Goto("wait", IF stop THEN "final" ELSE "load")
  /\ UNCHANGED <<tree, graph, registry, stop, wanted, workers, busy, halt, todo, thread, deaths>>

\* --max-seconds have passed.
Elapse ==
  /\ "elapse" \in Hazards
  /\ Goto("wait", "final")
  /\ UNCHANGED <<tree, graph, registry, stop, wanted, workers, busy, halt, todo, thread, deaths>>

\* Supervisor.stop begins: in the SIGTERM handler, which interrupts the
\* supervisor anywhere ...
Sigterm ==
  /\ Up /\ ~stop
  /\ stop' = TRUE
  /\ sup' = "halt" /\ halt' = [left |-> Watched, on |-> NoThread, back |-> sup]
  /\ UNCHANGED <<tree, graph, registry, wanted, workers, busy, todo, thread, deaths>>

\* ... and, once more, in the `finally' of run.
FinalStop ==
  /\ Goto("final", "halt")
  /\ stop' = TRUE
  /\ halt' = [left |-> Watched, on |-> NoThread, back |-> "stopped"]
  /\ UNCHANGED <<tree, graph, registry, wanted, workers, busy, todo, thread, deaths>>

\* Each worker in turn is told, then joined for at most five seconds.
Tell(n) ==
  /\ sup = "halt" /\ n \in halt.left /\ halt.on = NoThread
  /\ halt' = [halt EXCEPT !.left = @ \ {n}, !.on = workers[n]]
  /\ thread' = [thread EXCEPT ![workers[n]].stop = TRUE]
  /\ UNCHANGED <<tree, graph, registry, sup, stop, wanted, workers, busy, todo, deaths>>

JoinTold ==
  /\ sup = "halt" /\ halt.on # NoThread
  /\ ~Alive(halt.on) \/ "timeout" \in Hazards
  /\ halt' = [halt EXCEPT !.on = NoThread]
  /\ UNCHANGED <<tree, graph, registry, sup, stop, wanted, workers, busy, todo, thread, deaths>>

Halted ==
  /\ sup = "halt" /\ halt.left = {} /\ halt.on = NoThread
  /\ sup' = halt.back
  /\ halt' = NotHalting
  /\ UNCHANGED <<tree, graph, registry, stop, wanted, workers, busy, todo, thread, deaths>>

\* The process exits, or is killed; its daemon threads go with it.
Exit ==
  /\ sup = "stopped" \/ ("kill" \in Hazards /\ sup # "exited")
  /\ sup' = "exited" /\ stop' = FALSE
  /\ wanted' = Unregistered /\ workers' = NoWorkers /\ busy' = NotBusy
  /\ halt' = NotHalting /\ todo' = {}
  /\ thread' = [t \in Threads |-> Gone]
  /\ UNCHANGED <<tree, graph, registry, deaths>>

-----------------------------------------------------------------------------
(* A worker thread *)

Worker(t, at, w) ==
  /\ thread[t].at = at
  /\ thread' = [thread EXCEPT ![t] = w]
  /\ UNCHANGED <<tree, registry, supervisor>>

\* poll_once: an unchanged signature is all there is to do.
Scan(t) ==
  LET w == thread[t]
  IN  /\ w.at = "loop" /\ ~w.stop
      /\ w.sig # tree[w.repo]
      /\ Worker(t, "loop", [w EXCEPT !.at = "ingest", !.next = tree[w.repo]])
      /\ UNCHANGED <<graph, deaths>>

\* The ingest reads the tree, later than the signature did ...
Read(t) ==
  /\ Worker(t, "ingest", [thread[t] EXCEPT !.at = "commit", !.seen = tree[thread[t].repo]])
  /\ UNCHANGED <<graph, deaths>>

\* Mutant: the signature is taken when the ingest is over.
Commit_LateSignature(t) ==
  LET w == thread[t]
  IN  /\ Worker(t, "commit", [Started(w.repo) EXCEPT !.stop = w.stop, !.sig = tree[w.repo]])
      /\ graph' = [graph EXCEPT ![w.repo] = w.seen]
      /\ UNCHANGED deaths

\* ... and commits; the signature advances only now.
Commit(t) ==
  LET w == thread[t]
  IN  /\ Worker(t, "commit", [Started(w.repo) EXCEPT !.stop = w.stop, !.sig = w.next])
      /\ graph' = [graph EXCEPT ![w.repo] = w.seen]
      /\ UNCHANGED deaths

\* Mutant: a failed ingest advances the signature too.
Fail_Latches(t) ==
  LET w == thread[t]
  IN  /\ Worker(t, "commit", [Started(w.repo) EXCEPT !.stop = w.stop, !.sig = w.next])
      /\ UNCHANGED <<graph, deaths>>

\* The ingest raises: retried at the next poll.
Fail(t) ==
  /\ Worker(t, "commit", [thread[t] EXCEPT !.at = "loop", !.next = 0, !.seen = 0])
  /\ UNCHANGED <<graph, deaths>>

\* run leaves its loop: between two polls, on its event.
Leave(t) ==
  /\ thread[t].stop
  /\ Worker(t, "loop", NeverStarted(thread[t].repo))
  /\ UNCHANGED <<graph, deaths>>

\* An exception poll_once does not catch ends the thread.
Die(t) ==
  /\ deaths < MaxDeaths
  /\ deaths' = deaths + 1
  /\ Worker(t, "loop", NeverStarted(thread[t].repo))
  /\ UNCHANGED graph

-----------------------------------------------------------------------------

Reconcile ==
  \/ Load \/ EndRetire \/ Join \/ Start \/ EndAdopt
  \/ \E n \in Names : Retire(n) \/ Displace(n) \/ Adopt(n)
Supervise ==
  \/ Reconcile
  \/ \E n \in Names : Check(n) \/ Tell(n)
  \/ Install \/ EndHealth \/ Wait \/ Elapse
  \/ FinalStop \/ JoinTold \/ Halted \/ Exit
Poll(t) == Scan(t) \/ Read(t) \/ Commit(t) \/ Fail(t) \/ Leave(t)

Next ==
  \/ \E r \in Repos : Edit(r)
  \/ Truncate \/ Save
  \/ Launch \/ Sigterm \/ Supervise
  \/ \E t \in Threads : Poll(t) \/ Die(t)

Spec == Init /\ [][Next]_vars

\* Threads and supervisor are scheduled, and an ingest does not fail for ever.
FairSpec ==
  /\ Spec
  /\ WF_vars(Supervise)
  /\ \A t \in Threads : WF_vars(Poll(t)) /\ SF_vars(Commit(t))

-----------------------------------------------------------------------------
(* Properties *)

SupValues == {"load", "retire", "join", "adopt", "start", "health", "replace", "wait",
              "final", "halt", "stopped", "exited"}
Versions == 0..MaxVersion

\* Every variable has its declared shape, and a live worker has a repository.
TypeOK ==
  /\ tree \in [Repos -> Versions] /\ graph \in [Repos -> Versions]
  /\ disk \in Registries /\ torn \in BOOLEAN /\ edited \in Registries
  /\ sup \in SupValues /\ stop \in BOOLEAN
  /\ wanted \in Registries
  /\ workers \in [Names -> Threads \cup {NoThread}]
  /\ busy \in [thread : Threads \cup {NoThread}, name : Names \cup {NoRepo},
               back : {"retire", "adopt", "health"}]
  /\ halt \in [left : SUBSET Names, on : Threads \cup {NoThread},
               back : SupValues \ {"halt", "exited"}]
  /\ todo \subseteq Names
  /\ thread \in [Threads -> [repo : Repos \cup {NoRepo},
                             at : {"gone", "loop", "ingest", "commit"}, stop : BOOLEAN,
                             sig : Versions, next : Versions, seen : Versions]]
  /\ \A t \in Threads : Alive(t) => thread[t].repo \in Repos
  /\ deaths \in 0..MaxDeaths

\* service.py:12: one worker per repository, so no two threads ingest the same.
OneWorkerPerRepository ==
  \A t, u \in Threads :
    Alive(t) /\ Alive(u) /\ thread[t].repo = thread[u].repo => t = u

\* service.py:283-284: a repository is not latched and left stale.  A worker
\* that sees no change is right that the graph holds the tree.
NotLeftStale ==
  \A t \in Threads :
    LET w == thread[t]
    IN  w.at = "loop" /\ w.sig = tree[w.repo] => graph[w.repo] = tree[w.repo]

\* No thread goes on polling that the supervisor has lost or, once it has
\* stopped, has not told.
NoOrphans ==
  \A t \in Threads :
    Alive(t) /\ ~thread[t].stop => sup # "stopped" /\ \E n \in Names : workers[n] = t

\* COMMANDS.md:524-525, service.py:21-28: in a service that stays up, every
\* registered repository is eventually and from then on held by the graph, if
\* its tree and the registry are left alone.
InSync == \A n \in Names : disk[n] # NoRepo => graph[disk[n]] = tree[disk[n]]
Followed ==
  <>[]Up /\ <>[][UNCHANGED <<tree, disk>>]_vars => <>[]InSync

\* A stop is obeyed: the process exits.
StopEnds == stop ~> sup = "exited"

=============================================================================
