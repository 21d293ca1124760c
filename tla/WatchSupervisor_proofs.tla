---------------------- MODULE WatchSupervisor_proofs ----------------------
(***************************************************************************)
(* Theorems about WatchSupervisor, for every set of names, repositories    *)
(* and threads and every number of versions and deaths.                    *)
(*                                                                         *)
(* NoOrphansEver holds with every hazard: a torn registry file, joins that *)
(* time out, kills, elapsed waits.  OneWorker and NotLeftStaleEver assume  *)
(* that no join times out (a worker that outlives its join goes on beside  *)
(* its successor) and that no repository is registered under two names,    *)
(* which `dkg registry add' allows (watch/service.py:390).                *)
(***************************************************************************)
EXTENDS WatchSupervisor, TLAPS

\* The stage of the loop: a signal handler that interrupts it leaves it alone.
Stage == IF sup = "halt" THEN halt.back ELSE sup
\* The parts of TypeOK.
Record == [repo : Repos \cup {NoRepo}, at : {"gone", "loop", "ingest", "commit"}, stop : BOOLEAN,
           sig : Versions, next : Versions, seen : Versions]
Handling == [thread : Threads \cup {NoThread}, name : Names \cup {NoRepo}, back : {"retire", "adopt", "health"}]
Halting == [left : SUBSET Names, on : Threads \cup {NoThread}, back : SupValues \ {"halt", "exited"}]

TypeTree == tree \in [Repos -> Versions] /\ graph \in [Repos -> Versions] /\ deaths \in 0..MaxDeaths
TypeRegistry == disk \in Registries /\ torn \in BOOLEAN /\ edited \in Registries
TypeSup ==
  /\ sup \in SupValues /\ stop \in BOOLEAN /\ wanted \in Registries
  /\ workers \in [Names -> Threads \cup {NoThread}] /\ busy \in Handling
  /\ halt \in Halting /\ todo \subseteq Names
TypeThread ==
  /\ thread \in [Threads -> Record]
  /\ \A t \in Threads : Alive(t) => thread[t].repo \in Repos

\* TypeOK is the conjunction of its four parts.
LEMMA TypeParts == TypeOK <=> TypeTree /\ TypeRegistry /\ TypeSup /\ TypeThread
  BY DEF TypeOK, TypeTree, TypeRegistry, TypeSup, TypeThread, Record, Handling, Halting

\* The records a Worker begins with and leaves behind are typed (service.py:226-240).
LEMMA Records ==
    ASSUME NEW r \in Repos \cup {NoRepo}
    PROVE  /\ Gone \in Record
           /\ Started(r) \in Record /\ Started(r).repo = r /\ Started(r).at = "loop"
              /\ ~Started(r).stop /\ Started(r).sig = 0
           /\ NeverStarted(r) \in Record /\ NeverStarted(r).repo = r /\ NeverStarted(r).at = "gone"
              /\ NeverStarted(r).sig = 0
<1>1. 0 \in Versions
  BY SupervisorAssumption DEF Versions
<1>2. Gone \in Record /\ ~Gone.stop /\ Gone.sig = 0 /\ Gone.at = "gone"
  BY <1>1, Zenon DEF Gone, Record
<1>3. NeverStarted(r) \in Record /\ NeverStarted(r).repo = r /\ NeverStarted(r).at = "gone"
      /\ NeverStarted(r).sig = 0
  <2> HIDE DEF Gone
  <2> QED
    BY <1>2 DEF NeverStarted, Record
<1>4. Started(r) = [[Gone EXCEPT !.repo = r] EXCEPT !.at = "loop"]
  BY DEF Started
<1> DEFINE s1 == [Gone EXCEPT !.repo = r]
<1>5. s1 \in Record /\ s1.repo = r /\ ~s1.stop /\ s1.sig = 0
  BY <1>2 DEF Record
<1> HIDE DEF s1
<1> DEFINE s2 == [s1 EXCEPT !.at = "loop"]
<1>6. s2 \in Record /\ s2.repo = r /\ s2.at = "loop" /\ ~s2.stop /\ s2.sig = 0
  BY <1>5 DEF Record
<1>7. Started(r) = s2
  BY <1>4 DEF s1
<1> QED
  BY <1>2, <1>3, <1>6, <1>7

\* A step of one thread leaves the others as they are.
LEMMA ThreadReplaced ==
    ASSUME NEW f \in [Threads -> Record], NEW t \in Threads, NEW w \in Record, NEW g, g = [f EXCEPT ![t] = w]
    PROVE  g \in [Threads -> Record] /\ g[t] = w /\ \A s \in Threads \ {t} : g[s] = f[s]
  OBVIOUS

\* Setting the stop event changes nothing else of a worker (service.py:242-244).
LEMMA RecordTold ==
    ASSUME NEW r \in Record
    PROVE  /\ [r EXCEPT !.stop = TRUE] \in Record
           /\ [r EXCEPT !.stop = TRUE].stop = TRUE
           /\ [r EXCEPT !.stop = TRUE].repo = r.repo
           /\ [r EXCEPT !.stop = TRUE].at = r.at
           /\ [r EXCEPT !.stop = TRUE].sig = r.sig
           /\ [r EXCEPT !.stop = TRUE].next = r.next
           /\ [r EXCEPT !.stop = TRUE].seen = r.seen
  BY DEF Record

\* Thread.start changes nothing else of a worker (service.py:246-250).
LEMMA ThreadStarted ==
    ASSUME NEW f \in [Threads -> Record], NEW t \in Threads, NEW g, g = [f EXCEPT ![t].at = "loop"]
    PROVE  /\ g \in [Threads -> Record]
           /\ g[t].at = "loop" /\ g[t].repo = f[t].repo
           /\ g[t].sig = f[t].sig /\ g[t].next = f[t].next /\ g[t].seen = f[t].seen
           /\ \A s \in Threads \ {t} : g[s] = f[s]
<1> DEFINE w == [f[t] EXCEPT !.at = "loop"]
<1>1. /\ w \in Record /\ w.repo = f[t].repo /\ w.at = "loop"
      /\ w.sig = f[t].sig /\ w.next = f[t].next /\ w.seen = f[t].seen
  BY DEF Record
<1>2. g = [f EXCEPT ![t] = w]
  OBVIOUS
<1> HIDE DEF w
<1> QED
  BY <1>1, <1>2, ThreadReplaced

-----------------------------------------------------------------------------
\* Which stage uses which of the supervisor's locals.
Stages ==
  /\ sup # "halt" => halt = NotHalting
  /\ sup = "halt" => stop
  /\ halt.left \subseteq Watched
  /\ Stage \in {"join", "start", "replace"} => busy.thread \in Threads /\ busy.name \in Names
  /\ Stage \notin {"join", "start", "replace"} => busy = NotBusy
  /\ Stage = "replace" => busy.back = "health"
  /\ Stage = "join" => busy.back # "health"
  /\ todo \subseteq Watched
  /\ todo # {} => Stage = "health" \/ (Stage \in {"replace", "start"} /\ busy.back = "health")
  /\ sup = "exited" => \A t \in Threads : thread[t] = Gone
\* Every name in the map has a worker of some repository; the worker being started is
\* in the map, the replacement about to enter it is not, and the one it replaces is dead.
Handover ==
  /\ \A n \in Watched : thread[workers[n]].repo \in Repos
  /\ Stage \in {"start", "replace"} => ~Alive(busy.thread) /\ thread[busy.thread].repo \in Repos
  /\ Stage = "start" => workers[busy.name] = busy.thread
  /\ Stage = "replace" => /\ busy.name \in Watched
                        /\ ~Alive(workers[busy.name])
                        /\ \A n \in Names : workers[n] # busy.thread
\* A thread that polls and has not been told to stop is in the map, and once the loop
\* has stopped it is one the handler has still to tell.
Untold(t) == Alive(t) /\ ~thread[t].stop
Told ==
  \A t \in Threads : Untold(t) =>
     /\ \E n \in Names : workers[n] = t
     /\ Stage = "stopped" => \E n \in halt.left : workers[n] = t
\* The inductive invariant.
Ind == TypeTree /\ TypeRegistry /\ TypeSup /\ TypeThread /\ Stages /\ Handover /\ Told

\* The supervisor moves on and leaves the map and the threads alone.
LEMMA Moves ==
    ASSUME Ind, UNCHANGED <<tree, graph, deaths, workers, thread>>, TypeRegistry', TypeSup', Stages',
           Stage' \in {"start", "replace"} => Stage' = Stage /\ busy' = busy,
           Stage' = "stopped" =>
             halt'.left = Watched \/ (Stage = "stopped" /\ halt'.left = halt.left)
    PROVE  Ind'
<1>1. TypeTree' /\ TypeThread'
  BY DEF Ind, TypeTree, TypeThread, Alive
<1>2. Watched' = Watched
  BY DEF Watched
<1>3. Handover'
  BY <1>2 DEF Ind, Handover, Alive
<1>4. Told'
  <2> SUFFICES ASSUME NEW t \in Threads, Untold(t)
               PROVE  /\ \E n \in Names : workers[n] = t
                      /\ Stage' = "stopped" => \E n \in halt'.left : workers[n] = t
    BY DEF Told, Untold, Alive
  <2>1. \E n \in Watched : workers[n] = t
    BY SupervisorAssumption DEF Ind, Told, Watched
  <2> QED
    BY <2>1 DEF Ind, Told, Watched
<1> QED
  BY <1>1, <1>3, <1>4 DEF Ind

\* The steps of the loop and of the signal handler between two workers: load the
\* registry, end a stage, join, wait, time out, stop (service.py:365-452).
LEMMA StepMoves ==
    ASSUME Ind, \/ Load \/ EndRetire \/ Join \/ EndAdopt \/ EndHealth
                \/ Wait \/ Elapse \/ FinalStop \/ JoinTold \/ Halted
    PROVE  Ind'
<1> USE DEF Load, EndRetire, Join, EndAdopt, EndHealth, Wait, Elapse, FinalStop, JoinTold, Halted
<1>1. UNCHANGED <<tree, graph, deaths, workers, thread, disk, torn, edited>>
  BY DEF registry
<1>2. TypeRegistry'
  BY <1>1 DEF Ind, TypeRegistry
<1>3. TypeSup'
  <2> USE DEF Ind, TypeSup, Goto, SupValues, Handling, Halting, NotBusy, NotHalting, Watched,
              Stages, Stage, TypeRegistry
  <2>1. CASE Load
    BY <2>1
  <2>2. CASE EndRetire
    BY <2>2
  <2>3. CASE Join
    BY <2>3
  <2>4. CASE EndAdopt
    BY <2>4 DEF Unregistered, Registries
  <2>5. CASE EndHealth
    BY <2>5
  <2>6. CASE Wait
    BY <2>6
  <2>7. CASE Elapse
    BY <2>7
  <2>8. CASE FinalStop
    BY <2>8
  <2>9. CASE JoinTold
    BY <2>9
  <2>10. CASE Halted
    BY <2>10
  <2> QED
    BY <2>1, <2>2, <2>3, <2>4, <2>5, <2>6, <2>7, <2>8, <2>9, <2>10
<1>4. Stages'
  BY DEF Ind, Stages, Goto, NotBusy, NotHalting, Watched, Stage, Handling, Halting, TypeSup
<1>5. /\ Stage' \in {"start", "replace"} => Stage' = Stage /\ busy' = busy
      /\ Stage' = "stopped" => halt'.left = Watched \/ (Stage = "stopped" /\ halt'.left = halt.left)
  BY DEF Ind, Stages, Goto, NotBusy, NotHalting, Watched, Stage, Handling, Halting, TypeSup
<1> QED
  BY <1>1, <1>2, <1>3, <1>4, <1>5, Moves

\* The registry file is being written; the supervisor begins, takes a replacement into
\* the map, or ends with every thread (service.py:398-452).
LEMMA StepMade ==
    ASSUME Ind, Truncate \/ Launch \/ Install \/ Exit
    PROVE  Ind'
<1> USE DEF Truncate, Launch, Install, Exit
<1>1. TypeTree'
  BY DEF Ind, TypeTree, registry, supervisor
<1>2. TypeRegistry'
  <2>1. CASE Truncate
    BY <2>1 DEF Ind, TypeRegistry, registry, Changes, Registries, Unregistered
  <2>2. CASE Launch \/ Install \/ Exit
    BY <2>2 DEF Ind, TypeRegistry, registry
  <2> QED
    BY <2>1, <2>2
<1>3. Unregistered \in Registries
  BY DEF Unregistered, Registries
<1>4. TypeSup' /\ TypeThread'
  <2> USE DEF Ind, TypeSup, TypeThread, supervisor, Goto, SupValues, Handling, Halting, NotBusy,
              NotHalting, NoWorkers, Up, Watched, Stages, Stage, Alive
  <2>1. CASE Truncate
    BY <2>1
  <2>2. CASE Launch
    BY <1>3, <2>2
  <2>3. CASE Install
    BY <2>3
  <2>4. CASE Exit
    <3>1. Gone \in Record /\ Gone.at = "gone"
      BY Records DEF Gone
    <3>2. \A t \in Threads : thread'[t] = Gone
      BY <2>4
    <3>3. TypeThread'
      BY <2>4, <3>1, <3>2
    <3>4. TypeSup'
      BY <1>3, <2>4
    <3> QED
      BY <3>3, <3>4
  <2> HIDE DEF TypeSup, TypeThread
  <2> QED
    BY <2>1, <2>2, <2>3, <2>4
<1>5. Stages'
  BY SupervisorAssumption DEF Ind, Stages, supervisor, Goto, NotBusy, NotHalting, NoWorkers, Up,
     Watched, Stage, TypeSup, Handling, Halting
<1>6. Handover'
  BY DEF Ind, Handover, Stages, supervisor, Goto, NotBusy, NotHalting, NoWorkers, Up, Watched,
         Stage, TypeSup, Handling, Halting, Alive
<1>7. Told'
  BY DEF Ind, Told, Untold, Stages, Handover, supervisor, Goto, NotBusy, NotHalting, NoWorkers,
         Up, Watched, Stage, TypeSup, Handling, Halting, Alive, Gone
<1> QED
  BY <1>1, <1>2, <1>4, <1>5, <1>6, <1>7 DEF Ind

\* A registry file that is complete again is a registry.
LEMMA StepSave ==
    ASSUME Ind, Save
    PROVE  Ind'
<1>1. disk' \in Registries /\ edited' \in Registries
  <2>1. CASE torn /\ disk' = edited /\ edited' = Unregistered
    BY <2>1 DEF Ind, TypeRegistry, Unregistered, Registries
  <2>2. CASE "torn" \notin Hazards /\ disk' \in Changes /\ UNCHANGED edited
    BY <2>2 DEF Ind, TypeRegistry, Registries, Changes
  <2> QED
    BY <2>1, <2>2 DEF Save
<1>2. torn' = FALSE /\ UNCHANGED <<tree, graph, deaths>>
  BY DEF Save
<1>3. UNCHANGED <<sup, stop, wanted, workers, busy, halt, todo, thread>>
  BY DEF Save, supervisor
<1>4. TypeTree' /\ TypeRegistry' /\ TypeSup' /\ TypeThread'
  BY <1>1, <1>2, <1>3 DEF Ind, TypeTree, TypeRegistry, TypeSup, TypeThread, Alive
<1>5. Stages' /\ Handover' /\ Told'
  BY <1>3 DEF Ind, Stages, Handover, Told, Untold, Stage, Alive, Watched
<1> QED
  BY <1>4, <1>5 DEF Ind

\* The handler interrupts a stage and leaves it as it was (service.py:438-452).
LEMMA StepSigterm ==
    ASSUME Ind, Sigterm
    PROVE  Ind'
<1>1. sup \notin {"final", "stopped", "exited", "halt"} /\ sup \in SupValues
  <2>1. sup = "halt" => stop
    BY DEF Ind, Stages
  <2> QED
    BY <2>1 DEF Sigterm, Up, Ind, TypeSup
<1>2. sup' = "halt" /\ stop' = TRUE /\ halt'.left = Watched /\ halt'.on = NoThread
      /\ halt'.back = sup
  BY DEF Sigterm
<1>3. UNCHANGED <<tree, graph, disk, torn, edited, wanted, workers, busy, todo, thread, deaths>>
  BY DEF Sigterm, registry
<1>4. halt' \in Halting
  BY <1>1 DEF Sigterm, Halting, Watched
<1>5. TypeTree' /\ TypeRegistry' /\ TypeThread'
  BY <1>3 DEF Ind, TypeTree, TypeRegistry, TypeThread, Alive
<1>6. TypeSup'
  BY <1>2, <1>3, <1>4 DEF Ind, TypeSup, SupValues
<1>7. Stage' = Stage /\ Stage = sup /\ Watched' = Watched
  BY <1>1, <1>2, <1>3 DEF Stage, Watched
<1>8. Stages'
  BY <1>1, <1>2, <1>3, <1>7 DEF Ind, Stages
<1>9. Handover' /\ Told'
  BY <1>1, <1>2, <1>3, <1>7 DEF Ind, Handover, Told, Untold, Alive
<1> QED
  BY <1>5, <1>6, <1>8, <1>9 DEF Ind

\* A file of a repository changes.
LEMMA StepEdit ==
    ASSUME Ind, NEW r \in Repos, Edit(r)
    PROVE  Ind'
<1>1. TypeTree'
  BY SupervisorAssumption DEF Ind, TypeTree, Edit, Versions
<1>2. UNCHANGED <<disk, torn, edited, sup, stop, wanted, workers, busy, halt, todo, thread>>
  BY DEF Edit, supervisor, registry
<1>3. TypeRegistry' /\ TypeSup' /\ TypeThread'
  BY <1>2 DEF Ind, TypeRegistry, TypeSup, TypeThread, Alive
<1>4. Stages' /\ Handover' /\ Told'
  BY <1>2 DEF Ind, Stages, Handover, Told, Untold, Stage, Alive, Watched
<1> QED
  BY <1>1, <1>3, <1>4 DEF Ind

\* Retiring a worker, or displacing one that watches the wrong repository, tells it
\* before it leaves the map (service.py:398-420).
LEMMA StepStopWorker ==
    ASSUME Ind, NEW n \in Names, NEW back \in {"retire", "adopt"}, sup = back,
           workers[n] # NoThread, StopWorker(n, back)
    PROVE  Ind'
<1> DEFINE u == workers[n]
<1>1. u \in Threads /\ thread \in [Threads -> Record]
  BY DEF Ind, TypeSup, TypeThread
<1>2. /\ thread' \in [Threads -> Record]
      /\ thread'[u].stop = TRUE /\ thread'[u].at = thread[u].at /\ thread'[u].repo = thread[u].repo
      /\ \A s \in Threads \ {u} : thread'[s] = thread[s]
  <2> DEFINE w == [thread[u] EXCEPT !.stop = TRUE]
  <2>1. thread' = [thread EXCEPT ![u] = w]
    BY DEF StopWorker
  <2>2. thread[u] \in Record
    BY <1>1
  <2> HIDE DEF u
  <2>3. w \in Record /\ w.stop = TRUE /\ w.at = thread[u].at /\ w.repo = thread[u].repo
    BY <2>2, RecordTold, Zenon
  <2> HIDE DEF w
  <2>5. w \in Record
    BY <2>3, Zenon
  <2>4. thread' \in [Threads -> Record] /\ thread'[u] = w
        /\ \A s \in Threads \ {u} : thread'[s] = thread[s]
    BY <1>1, <2>1, <2>5, ThreadReplaced
  <2> QED
    BY <2>3, <2>4, Zenon
<1>3. busy'.thread = u /\ busy'.name = n /\ busy'.back = back /\ busy' \in Handling
  BY <1>1 DEF StopWorker, Handling
<1>4. workers' \in [Names -> Threads \cup {NoThread}] /\ workers'[n] = NoThread
      /\ \A m \in Names \ {n} : workers'[m] = workers[m]
  BY DEF StopWorker, Ind, TypeSup
<1>5. sup' = "join" /\ Stage' = "join" /\ Stage = back
  BY DEF StopWorker, Stage
<1>6. UNCHANGED <<tree, graph, disk, torn, edited, stop, wanted, halt, todo, deaths>>
  BY DEF StopWorker, registry
<1> HIDE DEF u
<1>7. TypeTree' /\ TypeRegistry' /\ TypeSup'
  BY <1>3, <1>4, <1>5, <1>6 DEF Ind, TypeTree, TypeRegistry, TypeSup, SupValues
<1>8. TypeThread'
  <2>1. \A t \in Threads : Alive(t)' => thread[t].repo \in Repos /\ thread'[t].repo = thread[t].repo
    BY <1>1, <1>2 DEF Ind, TypeThread, Alive
  <2> QED
    BY <1>2, <2>1 DEF TypeThread
<1>9. halt.left = {} /\ halt = NotHalting /\ todo = {}
  BY <1>5 DEF Ind, Stages, NotHalting, Stage
<1>10. Stages'
  BY <1>3, <1>5, <1>6, <1>9, <1>1 DEF Stages
<1>11. Handover'
  BY <1>1, <1>2, <1>4, <1>5 DEF Handover, Ind, Watched
<1>12. Told'
  <2> SUFFICES ASSUME NEW t \in Threads, Untold(t)' PROVE \E m \in Names : workers'[m] = t
    BY <1>5 DEF Told
  <2>1. t # u /\ Untold(t)
    BY <1>2 DEF Untold, Alive
  <2>2. PICK m \in Names : workers[m] = t
    BY <2>1 DEF Ind, Told
  <2> QED
    BY <1>4, <2>1, <2>2 DEF u
<1> QED
  BY <1>7, <1>8, <1>10, <1>11, <1>12 DEF Ind

\* A new thread is one nothing refers to.
LEMMA FreshFree ==
    ASSUME CanStart
    PROVE  Fresh \in Threads /\ Free(Fresh)
  BY DEF CanStart, Fresh

\* A registered name without a worker gets one (service.py:398-420).
LEMMA StepAdopt ==
    ASSUME Ind, NEW n \in Names, Adopt(n)
    PROVE  Ind'
<1> DEFINE u == Fresh
<1>1. u \in Threads /\ thread[u].at = "gone" /\ u # busy.thread /\ u # halt.on
      /\ \A m \in Names : workers[m] # u
  BY FreshFree DEF Adopt, Free, Referenced, Alive
<1>2. wanted[n] \in Repos /\ workers[n] = NoThread /\ sup = "adopt" /\ Stage = "adopt"
  BY DEF Adopt, Unwatched, Ind, TypeSup, Registries, Stage
<1>3. thread \in [Threads -> Record]
  BY DEF Ind, TypeThread
<1>4. thread' \in [Threads -> Record] /\ thread'[u].at = "gone" /\ thread'[u].repo = wanted[n]
      /\ \A s \in Threads \ {u} : thread'[s] = thread[s]
  BY <1>1, <1>2, <1>3, Records, ThreadReplaced DEF Adopt
<1>5. workers' \in [Names -> Threads \cup {NoThread}] /\ workers'[n] = u
      /\ \A m \in Names \ {n} : workers'[m] = workers[m]
  BY <1>1 DEF Adopt, Ind, TypeSup
<1>6. UNCHANGED <<tree, graph, disk, torn, edited, stop, wanted, halt, todo, deaths>>
  BY DEF Adopt, registry
<1>7. \/ sup' = "adopt" /\ busy' = busy
      \/ sup' = "start" /\ busy' \in Handling /\ busy'.thread = u /\ busy'.name = n
         /\ busy'.back = "adopt"
  BY <1>1, <1>2 DEF Adopt, Handling
<1> HIDE DEF u
<1>8. Stage' = sup'
  BY <1>7 DEF Stage
<1>9. halt = NotHalting /\ halt.left = {} /\ todo = {}
  BY <1>2 DEF Ind, Stages, NotHalting
<1>10. TypeTree' /\ TypeRegistry' /\ TypeSup'
  BY <1>2, <1>5, <1>6, <1>7 DEF Ind, TypeTree, TypeRegistry, TypeSup, SupValues
<1>11. TypeThread'
  BY <1>2, <1>3, <1>4 DEF Ind, TypeThread, Alive
<1>12. Stages'
  BY <1>1, <1>2, <1>6, <1>7, <1>8, <1>9 DEF Ind, Stages
<1>13. Handover'
  BY <1>1, <1>2, <1>3, <1>4, <1>5, <1>7, <1>8 DEF Ind, Handover, Watched, Alive, TypeSup
<1>14. Told'
  <2> SUFFICES ASSUME NEW t \in Threads, Untold(t)' PROVE \E m \in Names : workers'[m] = t
    BY <1>7, <1>8 DEF Told
  <2>1. t # u /\ Untold(t)
    BY <1>4 DEF Untold, Alive
  <2>2. PICK m \in Names : workers[m] = t
    BY <2>1 DEF Ind, Told
  <2> QED
    BY <1>2, <1>5, <2>1, <2>2, SupervisorAssumption
<1> QED
  BY <1>10, <1>11, <1>12, <1>13, <1>14 DEF Ind

\* A worker in the map is started (service.py:246-250).
LEMMA StepStart ==
    ASSUME Ind, Start
    PROVE  Ind'
<1> DEFINE u == busy.thread
<1>1. u \in Threads /\ thread[u].at = "gone" /\ thread[u].repo \in Repos /\ busy.name \in Names
      /\ workers[busy.name] = u /\ sup = "start" /\ Stage = "start"
  BY DEF Ind, Stages, Handover, Start, Stage, Alive
<1>2. thread \in [Threads -> Record] /\ busy \in Handling
  BY DEF Ind, TypeThread, TypeSup
<1>3. thread' \in [Threads -> Record] /\ thread'[u].at = "loop" /\ thread'[u].repo = thread[u].repo
      /\ \A s \in Threads \ {u} : thread'[s] = thread[s]
  <2>1. thread' = [thread EXCEPT ![u].at = "loop"]
    BY DEF Start
  <2> HIDE DEF u
  <2> QED
    BY <1>1, <1>2, <2>1, ThreadStarted
<1>4. UNCHANGED <<tree, graph, disk, torn, edited, stop, wanted, workers, halt, todo, deaths>>
      /\ busy' = NotBusy /\ sup' = busy.back /\ busy.back \in {"retire", "adopt", "health"}
  BY <1>2 DEF Start, registry, Handling
<1>5. Stage' = busy.back
  BY <1>4 DEF Stage
<1>6. halt = NotHalting /\ halt.left = {}
  BY <1>1 DEF Ind, Stages, NotHalting
<1>7. TypeTree' /\ TypeRegistry' /\ TypeSup'
  BY <1>4 DEF Ind, TypeTree, TypeRegistry, TypeSup, SupValues, Handling, NotBusy
<1>8. TypeThread'
  BY <1>1, <1>2, <1>3 DEF Ind, TypeThread, Alive
<1> HIDE DEF u
<1>9. Watched' = Watched
  BY <1>4 DEF Watched
<1>10. Stages'
  BY <1>1, <1>4, <1>5, <1>6, <1>9 DEF Ind, Stages
<1>11. Handover'
  BY <1>1, <1>3, <1>4, <1>5, <1>9 DEF Ind, Handover, Watched, TypeSup
<1>12. Told'
  <2> SUFFICES ASSUME NEW t \in Threads, Untold(t)' PROVE \E m \in Names : workers[m] = t
    BY <1>4, <1>5 DEF Told
  <2>1. CASE t = u
    BY <1>1, <2>1
  <2>2. CASE t # u
    BY <1>3, <2>2 DEF Ind, Told, Untold, Alive
  <2> QED
    BY <2>1, <2>2
<1> QED
  BY <1>7, <1>8, <1>10, <1>11, <1>12 DEF Ind

\* A worker found dead is replaced by one for the same repository (service.py:422-432).
LEMMA StepCheck ==
    ASSUME Ind, NEW n \in Names, Check(n)
    PROVE  Ind'
<1>1. /\ sup = "health" /\ Stage = "health" /\ n \in todo /\ workers[n] \in Threads
         /\ todo' = todo \ {n}
      /\ thread[workers[n]].repo \in Repos
  BY DEF Ind, Stages, Handover, Watched, TypeSup, Check, Stage
<1>2. UNCHANGED <<tree, graph, disk, torn, edited, stop, wanted, workers, halt, deaths>>
  BY DEF Check, registry
<1>3. halt = NotHalting /\ halt.left = {} /\ Watched' = Watched /\ busy = NotBusy
  BY <1>1, <1>2 DEF Ind, Stages, NotHalting, Watched
<1>4. TypeTree' /\ TypeRegistry'
  BY <1>2 DEF Ind, TypeTree, TypeRegistry
<1>5. CASE UNCHANGED <<sup, busy, thread>>
  <2>1. Stage' = "health"
    BY <1>1, <1>5 DEF Stage
  <2>2. TypeSup' /\ TypeThread'
    BY <1>1, <1>2, <1>5 DEF Ind, TypeSup, TypeThread, Alive
  <2>3. Stages'
    BY <1>1, <1>2, <1>3, <1>5, <2>1 DEF Ind, Stages
  <2>4. Handover' /\ Told'
    BY <1>1, <1>2, <1>3, <1>5, <2>1 DEF Ind, Handover, Told, Untold, Alive
  <2> QED
    BY <1>4, <2>2, <2>3, <2>4 DEF Ind
<1>6. CASE ~Alive(workers[n]) /\ Replace(n)
  <2> DEFINE u == Fresh
  <2>1. u \in Threads /\ thread[u].at = "gone" /\ \A m \in Names : workers[m] # u
    BY <1>6, FreshFree DEF Replace, Free, Referenced, Alive
  <2>2. thread \in [Threads -> Record]
    BY DEF Ind, TypeThread
  <2>3. thread' \in [Threads -> Record] /\ thread'[u].at = "gone"
        /\ thread'[u].repo = thread[workers[n]].repo
        /\ \A s \in Threads \ {u} : thread'[s] = thread[s]
    BY <1>1, <1>6, <2>1, <2>2, Records, ThreadReplaced DEF Replace
  <2>4. sup' = "replace" /\ busy'.thread = u /\ busy'.name = n /\ busy'.back = "health"
        /\ busy' \in Handling
    BY <1>6, <2>1 DEF Replace, Goto, Handling
  <2> HIDE DEF u
  <2>5. Stage' = "replace"
    BY <2>4 DEF Stage
  <2>6. TypeSup' /\ TypeThread'
    BY <1>1, <1>2, <2>2, <2>3, <2>4 DEF Ind, TypeSup, TypeThread, Alive, SupValues
  <2>7. Stages'
    BY <1>1, <1>2, <1>3, <2>1, <2>4, <2>5 DEF Ind, Stages
  <2>8. Handover'
    BY <1>1, <1>2, <1>3, <1>6, <2>1, <2>3, <2>4, <2>5, SupervisorAssumption DEF Ind, Handover,
       Watched, Alive, TypeSup
  <2>9. Told'
    BY <1>1, <1>2, <2>3, <2>5 DEF Ind, Told, Untold, Alive
  <2> QED
    BY <1>4, <2>6, <2>7, <2>8, <2>9 DEF Ind
<1> QED
  BY <1>5, <1>6 DEF Check

\* The handler tells the workers in the map one by one (service.py:438-452).
LEMMA StepTell ==
    ASSUME Ind, NEW n \in Names, Tell(n)
    PROVE  Ind'
<1> DEFINE u == workers[n]
<1>1. u \in Threads /\ sup = "halt" /\ n \in halt.left
  BY DEF Ind, Stages, Watched, TypeSup, Tell
<1>2. thread \in [Threads -> Record] /\ halt \in Halting
  BY DEF Ind, TypeThread, TypeSup
<1>3. /\ thread' \in [Threads -> Record]
      /\ thread'[u].stop = TRUE /\ thread'[u].at = thread[u].at /\ thread'[u].repo = thread[u].repo
      /\ \A s \in Threads \ {u} : thread'[s] = thread[s]
  <2> DEFINE w == [thread[u] EXCEPT !.stop = TRUE]
  <2>1. thread' = [thread EXCEPT ![u] = w]
    BY DEF Tell
  <2>2. thread[u] \in Record
    BY <1>1, <1>2
  <2> HIDE DEF u
  <2>3. w \in Record /\ w.stop = TRUE /\ w.at = thread[u].at /\ w.repo = thread[u].repo
    BY <2>2, RecordTold, Zenon
  <2> HIDE DEF w
  <2>5. w \in Record
    BY <2>3, Zenon
  <2>4. thread' \in [Threads -> Record] /\ thread'[u] = w
        /\ \A s \in Threads \ {u} : thread'[s] = thread[s]
    BY <1>1, <1>2, <2>1, <2>5, ThreadReplaced
  <2> QED
    BY <2>3, <2>4, Zenon
<1>4. halt' \in Halting /\ halt'.left = halt.left \ {n} /\ halt'.back = halt.back
  <2> DEFINE h == [halt EXCEPT !.left = @ \ {n}]
  <2>1. h \in Halting /\ h.left = halt.left \ {n} /\ h.back = halt.back
    BY <1>2 DEF Halting
  <2>2. halt' = [h EXCEPT !.on = workers[n]]
    BY DEF Tell
  <2> HIDE DEF h
  <2> QED
    BY <1>1, <2>1, <2>2 DEF Halting
<1>5. UNCHANGED <<tree, graph, disk, torn, edited, sup, stop, wanted, workers, busy, todo, deaths>>
  BY DEF Tell, registry
<1>6. Stage' = Stage /\ Watched' = Watched
  BY <1>4, <1>5 DEF Stage, Watched
<1>7. TypeTree' /\ TypeRegistry' /\ TypeSup'
  BY <1>4, <1>5 DEF Ind, TypeTree, TypeRegistry, TypeSup
<1> HIDE DEF u
<1>8. TypeThread'
  BY <1>1, <1>2, <1>3 DEF Ind, TypeThread, Alive
<1>9. Stages'
  BY <1>1, <1>4, <1>5, <1>6 DEF Ind, Stages
<1>10. Handover'
  BY <1>1, <1>2, <1>3, <1>5, <1>6 DEF Ind, Handover, Watched, Alive, TypeSup, Stages
<1>11. Told'
  <2> SUFFICES ASSUME NEW t \in Threads, Untold(t)'
               PROVE  /\ \E m \in Names : workers[m] = t
                      /\ Stage = "stopped" => \E m \in halt.left \ {n} : workers[m] = t
    BY <1>4, <1>5, <1>6 DEF Told
  <2>1. t # u /\ Untold(t)
    BY <1>3 DEF Untold, Alive
  <2> QED
    BY <2>1 DEF Ind, Told, u
<1> QED
  BY <1>7, <1>8, <1>9, <1>10, <1>11 DEF Ind

\* What the steps of a worker make of its record r.
Scanned(r, v) == [r EXCEPT !.at = "ingest", !.next = v]
ReadBy(r, v) == [r EXCEPT !.at = "commit", !.seen = v]
Committed(r, v) == [Started(r.repo) EXCEPT !.stop = r.stop, !.sig = v]
Failed(r) == [r EXCEPT !.at = "loop", !.next = 0, !.seen = 0]

\* What a worker does to its own record disturbs no one else.
LEMMA StepWorker ==
    ASSUME Ind, NEW t \in Threads, Alive(t), NEW w \in Record, w.repo = thread[t].repo,
           w.at = "gone" \/ w.stop = thread[t].stop,
           thread' = [thread EXCEPT ![t] = w], UNCHANGED <<registry, supervisor>>, TypeTree'
    PROVE  Ind'
<1>1. UNCHANGED <<disk, torn, edited, sup, stop, wanted, workers, busy, halt, todo>>
  BY DEF registry, supervisor
<1>2. thread \in [Threads -> Record]
  BY DEF Ind, TypeThread
<1>3. thread' \in [Threads -> Record] /\ thread'[t] = w
      /\ \A s \in Threads \ {t} : thread'[s] = thread[s]
  BY <1>2, ThreadReplaced
<1>4. thread[t].repo \in Repos
  BY DEF Ind, TypeThread
<1>5. TypeRegistry' /\ TypeSup' /\ TypeThread'
  BY <1>1, <1>3, <1>4 DEF Ind, TypeRegistry, TypeSup, TypeThread, Alive
<1>6. sup # "exited"
  BY DEF Ind, Stages, Alive, Gone
<1>7. Stage' = Stage /\ Watched' = Watched
  BY <1>1 DEF Stage, Watched
<1>8. Stages'
  BY <1>1, <1>6, <1>7 DEF Ind, Stages
<1>9. Handover'
  BY <1>1, <1>3, <1>4, <1>7 DEF Ind, Handover, Alive, Watched, Stages, TypeSup
<1>10. Told'
  <2> SUFFICES ASSUME NEW s \in Threads, Untold(s)'
               PROVE  /\ \E m \in Names : workers[m] = s
                      /\ Stage = "stopped" => \E m \in halt.left : workers[m] = s
    BY <1>1, <1>7 DEF Told
  <2>1. CASE s = t
    <3>1. w.at # "gone" /\ ~w.stop
      BY <1>3, <2>1, Zenon DEF Untold, Alive
    <3>2. ~thread[t].stop
      BY <3>1, Zenon
    <3> QED
      BY <3>2, <2>1 DEF Ind, Told, Untold
  <2>2. CASE s # t
    <3>1. thread'[s] = thread[s]
      BY <1>3, <2>2
    <3>2. Untold(s)
      BY <3>1, Zenon DEF Untold, Alive
    <3> QED
      BY <3>2 DEF Ind, Told
  <2> QED
    BY <2>1, <2>2
<1> QED
  BY <1>5, <1>8, <1>9, <1>10 DEF Ind

\* The record of a worker that found its tree changed.
LEMMA RecordScans ==
    ASSUME NEW r \in Record, NEW v \in Versions
    PROVE  Scanned(r, v) \in Record /\ Scanned(r, v).repo = r.repo /\ Scanned(r, v).at = "ingest"
           /\ Scanned(r, v).stop = r.stop
           /\ Scanned(r, v).sig = r.sig /\ Scanned(r, v).next = v
<1> DEFINE w1 == [r EXCEPT !.at = "ingest"]
<1>1. w1 \in Record /\ w1.repo = r.repo /\ w1.at = "ingest" /\ w1.sig = r.sig
  BY DEF Record
<1>2. w1.stop = r.stop
  BY DEF Record
<1>3. Scanned(r, v) = [w1 EXCEPT !.next = v]
  BY DEF Scanned
<1> HIDE DEF w1
<1> QED
  BY <1>1, <1>2, <1>3 DEF Record

\* The record of a worker that has read its tree.
LEMMA RecordReads ==
    ASSUME NEW r \in Record, NEW v \in Versions
    PROVE  ReadBy(r, v) \in Record /\ ReadBy(r, v).repo = r.repo /\ ReadBy(r, v).at = "commit"
           /\ ReadBy(r, v).stop = r.stop
           /\ ReadBy(r, v).sig = r.sig /\ ReadBy(r, v).next = r.next /\ ReadBy(r, v).seen = v
<1> DEFINE w1 == [r EXCEPT !.at = "commit"]
<1>1. w1 \in Record /\ w1.repo = r.repo /\ w1.at = "commit" /\ w1.sig = r.sig /\ w1.next = r.next
  BY DEF Record
<1>2. w1.stop = r.stop
  BY DEF Record
<1>3. ReadBy(r, v) = [w1 EXCEPT !.seen = v]
  BY DEF ReadBy
<1> HIDE DEF w1
<1> QED
  BY <1>1, <1>2, <1>3 DEF Record

\* The record of a worker whose ingest is committed.
LEMMA RecordCommits ==
    ASSUME NEW r \in Record, NEW v \in Versions
    PROVE  Committed(r, v) \in Record /\ Committed(r, v).repo = r.repo
           /\ Committed(r, v).at = "loop" /\ Committed(r, v).stop = r.stop
              /\ Committed(r, v).sig = v
<1> DEFINE w0 == Started(r.repo)
           w1 == [w0 EXCEPT !.stop = r.stop]
<1>1. w0 \in Record /\ w0.repo = r.repo /\ w0.at = "loop"
  <2>1. r.repo \in Repos \cup {NoRepo}
    BY DEF Record
  <2> QED
    BY <2>1, Records, Zenon
<1> HIDE DEF w0
<1>2. w1 \in Record /\ w1.repo = r.repo /\ w1.at = "loop" /\ w1.stop = r.stop
  BY <1>1 DEF Record
<1>3. Committed(r, v) = [w1 EXCEPT !.sig = v]
  BY DEF Committed, w0
<1> HIDE DEF w1
<1> QED
  BY <1>2, <1>3 DEF Record

\* The record of a worker whose ingest failed.
LEMMA RecordFails ==
    ASSUME NEW r \in Record
    PROVE  Failed(r) \in Record /\ Failed(r).repo = r.repo /\ Failed(r).at = "loop"
           /\ Failed(r).stop = r.stop /\ Failed(r).sig = r.sig /\ Failed(r).next = 0
<1>0. 0 \in Versions
  BY SupervisorAssumption DEF Versions
<1> DEFINE w1 == [r EXCEPT !.at = "loop"]
           w2 == [w1 EXCEPT !.next = 0]
<1>1. w1 \in Record /\ w1.repo = r.repo /\ w1.at = "loop" /\ w1.sig = r.sig
  BY DEF Record
<1>2. w1.stop = r.stop
  BY DEF Record
<1> HIDE DEF w1
<1>3. w2 \in Record /\ w2.repo = r.repo /\ w2.at = "loop" /\ w2.sig = r.sig /\ w2.stop = r.stop
      /\ w2.next = 0
  BY <1>0, <1>1, <1>2 DEF Record
<1>4. Failed(r) = [w2 EXCEPT !.seen = 0]
  BY DEF Failed, w1
<1> HIDE DEF w2
<1> QED
  BY <1>0, <1>3, <1>4 DEF Record

\* Each step of the loop of a worker, its exit and its death (service.py:259-330).
LEMMA StepPoll ==
    ASSUME Ind, NEW t \in Threads, Poll(t) \/ Die(t)
    PROVE  Ind'
<1> DEFINE r == thread[t]
<1>1. r \in Record /\ tree \in [Repos -> Versions] /\ graph \in [Repos -> Versions]
      /\ deaths \in 0..MaxDeaths
  BY DEF Ind, TypeThread, TypeTree
<1>2. Alive(t) => r.repo \in Repos
  BY DEF Ind, TypeThread
<1>3. CASE Scan(t)
  <2>1. Alive(t) /\ UNCHANGED <<tree, graph, deaths, registry, supervisor>>
        /\ thread' = [thread EXCEPT ![t] = Scanned(r, tree[r.repo])]
    BY <1>3 DEF Scan, Worker, Alive, Scanned
  <2> DEFINE w == Scanned(r, tree[r.repo])
  <2>2. thread' = [thread EXCEPT ![t] = w]
    BY <2>1
  <2>3. w \in Record /\ w.repo = r.repo /\ w.stop = r.stop
    <3>1. tree[r.repo] \in Versions
      BY <1>1, <1>2, <2>1
    <3> QED
      BY <1>1, <3>1, RecordScans
  <2> HIDE DEF w
  <2>4. TypeTree'
    BY <2>1 DEF Ind, TypeTree
  <2> QED
    BY <2>1, <2>2, <2>3, <2>4, StepWorker
<1>4. CASE Read(t)
  <2>1. Alive(t) /\ UNCHANGED <<tree, graph, deaths, registry, supervisor>>
        /\ thread' = [thread EXCEPT ![t] = ReadBy(r, tree[r.repo])]
    BY <1>4 DEF Read, Worker, Alive, ReadBy
  <2> DEFINE w == ReadBy(r, tree[r.repo])
  <2>2. thread' = [thread EXCEPT ![t] = w]
    BY <2>1
  <2>3. w \in Record /\ w.repo = r.repo /\ w.stop = r.stop
    <3>1. tree[r.repo] \in Versions
      BY <1>1, <1>2, <2>1
    <3> QED
      BY <1>1, <3>1, RecordReads
  <2> HIDE DEF w
  <2>4. TypeTree'
    BY <2>1 DEF Ind, TypeTree
  <2> QED
    BY <2>1, <2>2, <2>3, <2>4, StepWorker
<1>5. CASE Commit(t)
  <2>1. Alive(t) /\ UNCHANGED <<tree, deaths, registry, supervisor>>
        /\ thread' = [thread EXCEPT ![t] = Committed(r, r.next)]
        /\ graph' = [graph EXCEPT ![r.repo] = r.seen]
    BY <1>5 DEF Commit, Worker, Alive, Committed
  <2> DEFINE w == Committed(r, r.next)
  <2>2. thread' = [thread EXCEPT ![t] = w]
    BY <2>1
  <2>3. w \in Record /\ w.repo = r.repo /\ w.stop = r.stop
    <3>1. r.next \in Versions
      BY <1>1 DEF Record
    <3> QED
      BY <1>1, <3>1, RecordCommits
  <2> HIDE DEF w
  <2>4. TypeTree'
    <3>1. r.seen \in Versions
      BY <1>1 DEF Record
    <3> QED
      BY <1>1, <2>1, <3>1 DEF TypeTree
  <2> QED
    BY <2>1, <2>2, <2>3, <2>4, StepWorker
<1>6. CASE Fail(t)
  <2>1. Alive(t) /\ UNCHANGED <<tree, graph, deaths, registry, supervisor>>
        /\ thread' = [thread EXCEPT ![t] = Failed(r)]
    BY <1>6 DEF Fail, Worker, Alive, Failed
  <2> DEFINE w == Failed(r)
  <2>2. thread' = [thread EXCEPT ![t] = w]
    BY <2>1
  <2>3. w \in Record /\ w.repo = r.repo /\ w.stop = r.stop
    BY <1>1, RecordFails
  <2> HIDE DEF w
  <2>4. TypeTree'
    BY <2>1 DEF Ind, TypeTree
  <2> QED
    BY <2>1, <2>2, <2>3, <2>4, StepWorker
<1>7. CASE Leave(t) \/ Die(t)
  <2>1. Alive(t) /\ UNCHANGED <<tree, graph, registry, supervisor>>
        /\ thread' = [thread EXCEPT ![t] = NeverStarted(r.repo)] /\ deaths' \in 0..MaxDeaths
    BY <1>1, <1>7, SupervisorAssumption DEF Leave, Die, Worker, Alive
  <2> DEFINE w == NeverStarted(r.repo)
  <2>2. thread' = [thread EXCEPT ![t] = w]
    BY <2>1
  <2>3. w \in Record /\ w.repo = r.repo /\ w.at = "gone"
    BY <1>2, <2>1, Records
  <2> HIDE DEF w
  <2>4. TypeTree'
    BY <1>1, <2>1 DEF TypeTree
  <2> QED
    BY <2>1, <2>2, <2>3, <2>4, StepWorker
<1> QED
  BY <1>3, <1>4, <1>5, <1>6, <1>7 DEF Poll

\* Nothing runs and nothing is registered.
LEMMA StepInitial ==
    ASSUME Init
    PROVE  Ind
<1>0. Unregistered \in Registries /\ NotBusy \in Handling /\ NotHalting \in Halting
  BY DEF Unregistered, Registries, NotBusy, NotHalting, Handling, Halting, SupValues
<1>1. TypeTree
  BY SupervisorAssumption DEF Init, TypeTree, Versions
<1>5. TypeRegistry
  BY <1>0 DEF Init, TypeRegistry
<1>6. TypeSup
  BY <1>0 DEF Init, TypeSup, SupValues, NoWorkers
<1>2. \A t \in Threads : thread[t] = Gone /\ ~Alive(t)
  BY DEF Init, Alive, Gone
<1>3. TypeThread
  <2>1. Gone \in Record
    BY Records
  <2> HIDE DEF Gone
  <2> QED
    BY <1>2, <2>1 DEF Init, TypeThread
<1>4. Stages /\ Handover /\ Told
  BY <1>2, SupervisorAssumption DEF Init, Stages, Handover, Told, Untold, Stage, Watched,
     NoWorkers, NotBusy, NotHalting
<1> QED
  BY <1>1, <1>3, <1>4, <1>5, <1>6 DEF Ind

\* Every step keeps the argument.
LEMMA Step ==
    ASSUME Ind, [Next]_vars
    PROVE  Ind'
<1>1. CASE UNCHANGED vars
  <2>1. UNCHANGED <<tree, graph, deaths, disk, torn, edited, sup, stop, wanted, workers, busy, halt, todo, thread>>
    BY <1>1 DEF vars, registry, supervisor
  <2> QED
    BY <2>1 DEF Ind, TypeTree, TypeRegistry, TypeSup, TypeThread, Stages, Handover, Told,
       Untold, Stage, Watched, Alive
<1>2. CASE \E n \in Names : Retire(n) \/ Displace(n)
  BY <1>2, StepStopWorker DEF Retire, Displace, Unwanted, Displaced
<1> QED
  BY <1>1, <1>2, StepMoves, StepMade, StepSave, StepSigterm,
     StepEdit, StepAdopt, StepStart, StepCheck, StepTell, StepPoll DEF Next, Supervise, Reconcile

\* The argument holds always, whatever is edited, torn, killed, or times out.
THEOREM Inductive == Spec => []Ind
  BY StepInitial, Step, PTL DEF Spec

\* The supervisor's and the workers' variables have their shape always.
THEOREM TypeCorrect == Spec => []TypeOK
<1>1. Ind => TypeOK
  BY TypeParts DEF Ind
<1> QED
  BY <1>1, Inductive, PTL

\* Whatever is edited, torn, killed, or times out, and however the signal handler
\* interrupts the loop: no thread goes on polling that the supervisor has lost, or has
\* not told once it has stopped (service.py:398-452).
THEOREM NoOrphansEver == Spec => []NoOrphans
<1>1. Ind => NoOrphans
  <2> SUFFICES ASSUME Ind, NEW t \in Threads, Alive(t), ~thread[t].stop
               PROVE  sup # "stopped" /\ \E n \in Names : workers[n] = t
    BY DEF NoOrphans
  <2>1. sup = "stopped" => halt.left = {} /\ Stage = "stopped"
    BY DEF Ind, Stages, NotHalting, Stage
  <2> QED
    BY <2>1 DEF Ind, Told, Untold
<1> QED
  BY <1>1, Inductive, PTL


-----------------------------------------------------------------------------
\* The registry gives no repository two names: Owner says which name it has.
Owned(Owner) == \A n \in Names : disk[n] # NoRepo => Owner[disk[n]] = n
\* A worker is its repository's owner's, and every live thread is in the map or is the
\* one being joined.
Single(Owner) ==
  /\ \A n \in Names : wanted[n] # NoRepo => Owner[wanted[n]] = n
  /\ \A n \in Watched : Owner[thread[workers[n]].repo] = n
  /\ Stage \in {"join", "start", "replace"} => Owner[thread[busy.thread].repo] = busy.name
  /\ Stage = "join" => workers[busy.name] = NoThread
  /\ \A t \in Threads : Alive(t) => (\E n \in Names : workers[n] = t)
     \/ (Stage = "join" /\ busy.thread = t)

\* Two threads of one repository would be workers of its one name, or one of them the
\* worker being joined, whose name has none.
LEMMA SingleSuffices ==
    ASSUME NEW Owner, Ind, Single(Owner)
    PROVE  OneWorkerPerRepository
<1> SUFFICES ASSUME NEW t \in Threads, NEW u \in Threads, Alive(t), Alive(u), thread[t].repo = thread[u].repo
             PROVE  t = u
  BY DEF OneWorkerPerRepository
<1> DEFINE n == Owner[thread[t].repo]
<1>1. \A s \in {t, u} : \/ n \in Names /\ workers[n] = s
                        \/ Stage = "join" /\ busy.thread = s /\ busy.name = n
                           /\ workers[n] = NoThread
  BY SupervisorAssumption DEF Single, Watched
<1> QED
  BY <1>1, SupervisorAssumption

\* A step that neither starts nor moves a worker.
LEMMA SingleKept ==
    ASSUME NEW Owner, Ind, Single(Owner), Ind', UNCHANGED workers,
           \/ Stage' \notin {"join", "start", "replace"} /\ (Stage = "join" => ~Alive(busy.thread))
           \/ Stage' = Stage /\ UNCHANGED busy,
           \A t \in Threads : thread'[t].repo = thread[t].repo /\ (Alive(t)' => Alive(t)),
           wanted' \in {wanted, Unregistered} \/ (Owned(Owner) /\ wanted' = disk)
    PROVE  Single(Owner)'
<1>1. \A n \in Names : wanted'[n] # NoRepo => Owner[wanted'[n]] = n
  BY DEF Single, Owned, Unregistered
<1>2. Watched' = Watched /\ \A n \in Watched : workers[n] \in Threads
  BY DEF Watched, Ind, TypeSup
<1>3. \A n \in Watched : Owner[thread'[workers[n]].repo] = n
  BY <1>2 DEF Single
<1>4. Stage' \in {"join", "start", "replace"} => Owner[thread'[busy'.thread].repo] = busy'.name
  BY DEF Single, Ind, Stages
<1>5. Stage' = "join" => workers[busy'.name] = NoThread
  BY DEF Single
<1>6. \A t \in Threads : Alive(t)' => (\E n \in Names : workers[n] = t)
      \/ (Stage' = "join" /\ busy'.thread = t)
  BY DEF Single
<1> QED
  BY <1>1, <1>2, <1>3, <1>4, <1>5, <1>6 DEF Single

\* The worker taken out of the map is the one being joined (service.py:398-420).
LEMMA SingleStopWorker ==
    ASSUME NEW Owner, Ind, Single(Owner), Ind', NEW n \in Names, NEW back \in {"retire", "adopt"}, sup = back,
           workers[n] # NoThread, StopWorker(n, back)
    PROVE  Single(Owner)'
<1> DEFINE u == workers[n]
<1>1. u \in Threads /\ thread \in [Threads -> Record] /\ n \in Watched
  BY DEF Ind, TypeSup, TypeThread, Watched
<1>2. \A s \in Threads : thread'[s].repo = thread[s].repo /\ (Alive(s)' => Alive(s))
  BY <1>1 DEF StopWorker, Alive, Record
<1>3. busy'.thread = u /\ busy'.name = n /\ Stage' = "join" /\ Stage = back /\ UNCHANGED wanted
  BY DEF StopWorker, Stage
<1>4. workers' \in [Names -> Threads \cup {NoThread}] /\ workers'[n] = NoThread
      /\ \A m \in Names \ {n} : workers'[m] = workers[m]
  BY DEF StopWorker, Ind, TypeSup
<1>5. \A m \in Watched' : m \in Watched /\ workers'[m] = workers[m] /\ workers[m] \in Threads
  BY <1>4 DEF Watched
<1>6. \A m \in Watched' : Owner[thread'[workers'[m]].repo] = m
  BY <1>2, <1>5 DEF Single
<1>7. Owner[thread'[u].repo] = n
  BY <1>1, <1>2 DEF Single
<1>8. \A t \in Threads : Alive(t)' => (\E m \in Names : workers'[m] = t) \/ t = u
  BY <1>2, <1>3, <1>4 DEF Single
<1> HIDE DEF u
<1> QED
  BY <1>3, <1>4, <1>6, <1>7, <1>8 DEF Single

\* A name gets a worker when it has none, and none is being joined.
LEMMA SingleAdopt ==
    ASSUME NEW Owner, Ind, Single(Owner), Ind', NEW n \in Names, Adopt(n)
    PROVE  Single(Owner)'
<1> DEFINE u == Fresh
<1>1. u \in Threads /\ thread[u].at = "gone" /\ \A m \in Names : workers[m] # u
  BY FreshFree DEF Adopt, Free, Referenced, Alive
<1>2. wanted[n] \in Repos /\ Stage = "adopt" /\ UNCHANGED wanted
  BY DEF Adopt, Unwatched, Ind, TypeSup, Registries, Stage
<1>3. thread \in [Threads -> Record]
  BY DEF Ind, TypeThread
<1>4. thread'[u].at = "gone" /\ thread'[u].repo = wanted[n]
      /\ \A s \in Threads \ {u} : thread'[s] = thread[s]
  BY <1>1, <1>2, <1>3, Records, ThreadReplaced DEF Adopt
<1>5. workers'[n] = u /\ \A m \in Names \ {n} : workers'[m] = workers[m]
  BY <1>1 DEF Adopt, Ind, TypeSup
<1>6. Stage' # "join" /\ (Stage' \in {"start", "replace"} => busy'.thread = u /\ busy'.name = n)
  BY <1>2 DEF Adopt, Stage, Ind, Stages
<1> HIDE DEF u
<1>7. Owner[wanted[n]] = n
  BY <1>2, SupervisorAssumption DEF Single
<1>8. \A m \in Watched' : Owner[thread'[workers'[m]].repo] = m
  BY <1>1, <1>4, <1>5, <1>7 DEF Single, Watched, Ind, TypeSup
<1>9. \A t \in Threads : Alive(t)' => \E m \in Names : workers'[m] = t
  <2> SUFFICES ASSUME NEW t \in Threads, Alive(t)' PROVE \E m \in Names : workers'[m] = t
    OBVIOUS
  <2>1. t # u /\ Alive(t)
    BY <1>4 DEF Alive
  <2>2. PICK m \in Names : workers[m] = t
    BY <1>2, <2>1 DEF Single
  <2>3. m # n
    BY <2>2, SupervisorAssumption DEF Adopt, Unwatched
  <2> QED
    BY <1>5, <2>2, <2>3
<1> QED
  BY <1>2, <1>4, <1>6, <1>7, <1>8, <1>9 DEF Single

\* A started worker is in the map.
LEMMA SingleStart ==
    ASSUME NEW Owner, Ind, Single(Owner), Ind', Start
    PROVE  Single(Owner)'
<1> DEFINE u == busy.thread
<1>1. u \in Threads /\ busy.name \in Names /\ workers[busy.name] = u /\ Stage = "start"
  BY DEF Ind, Stages, Handover, Start, Stage
<1>2. thread \in [Threads -> Record] /\ busy \in Handling
  BY DEF Ind, TypeThread, TypeSup
<1>3. thread'[u].repo = thread[u].repo /\ \A s \in Threads \ {u} : thread'[s] = thread[s]
  <2>1. thread' = [thread EXCEPT ![u].at = "loop"]
    BY DEF Start
  <2> HIDE DEF u
  <2> QED
    BY <1>1, <1>2, <2>1, ThreadStarted
<1>4. UNCHANGED <<workers, wanted>> /\ Stage' \in {"retire", "adopt", "health"}
  BY <1>2 DEF Start, Stage, Handling
<1> HIDE DEF u
<1>5. Watched' = Watched /\ \A m \in Watched : workers[m] \in Threads
  BY <1>4 DEF Watched, Ind, TypeSup
<1>6. \A t \in Threads : Alive(t)' => \E m \in Names : workers[m] = t
  BY <1>1, <1>3 DEF Single, Alive
<1> QED
  BY <1>3, <1>4, <1>5, <1>6 DEF Single

\* A replacement is for a dead worker and is not in the map yet (service.py:422-432).
LEMMA SingleCheck ==
    ASSUME NEW Owner, Ind, Single(Owner), Ind', NEW n \in Names, Check(n)
    PROVE  Single(Owner)'
<1>1. Stage = "health" /\ n \in Watched /\ workers[n] \in Threads
      /\ thread[workers[n]].repo \in Repos
      /\ UNCHANGED <<workers, wanted, halt>>
  BY DEF Ind, Stages, Handover, Watched, TypeSup, Check, Stage
<1>2. CASE UNCHANGED <<sup, busy, thread>>
  BY <1>1, <1>2, SingleKept DEF Stage, Alive
<1>3. CASE Replace(n)
  <2> DEFINE u == Fresh
  <2>1. u \in Threads /\ thread[u].at = "gone" /\ \A m \in Names : workers[m] # u
    BY <1>3, FreshFree DEF Replace, Free, Referenced, Alive
  <2>2. thread \in [Threads -> Record]
    BY DEF Ind, TypeThread
  <2>3. thread'[u].at = "gone" /\ thread'[u].repo = thread[workers[n]].repo
        /\ \A s \in Threads \ {u} : thread'[s] = thread[s]
    BY <1>1, <1>3, <2>1, <2>2, Records, ThreadReplaced DEF Replace
  <2>4. Stage' = "replace" /\ busy'.thread = u /\ busy'.name = n
    BY <1>3 DEF Replace, Goto, Stage
  <2> HIDE DEF u
  <2>5. Watched' = Watched /\ \A m \in Watched : workers[m] \in Threads \ {u}
    BY <1>1, <2>1 DEF Watched, Ind, TypeSup
  <2>6. \A t \in Threads : Alive(t)' => \E m \in Names : workers[m] = t
    BY <1>1, <2>3 DEF Single, Alive
  <2> QED
    BY <1>1, <2>3, <2>4, <2>5, <2>6 DEF Single
<1> QED
  BY <1>2, <1>3 DEF Check

\* It takes the dead worker's place.
LEMMA SingleInstall ==
    ASSUME NEW Owner, Ind, Single(Owner), Ind', Install
    PROVE  Single(Owner)'
<1> DEFINE u == busy.thread
           n == busy.name
<1>1. u \in Threads /\ n \in Watched /\ ~Alive(workers[n]) /\ Stage = "replace"
  BY DEF Ind, Stages, Handover, Install, Goto, Stage
<1>2. workers'[n] = u /\ (\A m \in Names \ {n} : workers'[m] = workers[m])
      /\ UNCHANGED <<thread, wanted, busy>> /\ Stage' = "start"
  BY <1>1 DEF Install, Goto, Stage, Watched, Ind, TypeSup
<1>3. Owner[thread[u].repo] = n
  BY <1>1 DEF Single
<1> HIDE DEF u, n
<1>4. \A m \in Watched' : Owner[thread[workers'[m]].repo] = m
  BY <1>2, <1>3 DEF Single, Watched
<1>5. \A t \in Threads : Alive(t) => \E m \in Names : workers'[m] = t
  <2> SUFFICES ASSUME NEW t \in Threads, Alive(t) PROVE \E m \in Names : workers'[m] = t
    OBVIOUS
  <2>1. PICK m \in Names : workers[m] = t
    BY <1>1 DEF Single
  <2> QED
    BY <1>1, <1>2, <2>1
<1> QED
  BY <1>2, <1>3, <1>4, <1>5 DEF Single, Alive, u, n

\* There is no worker at first.
LEMMA SingleInitial ==
    ASSUME NEW Owner, Init
    PROVE  Single(Owner)
<1>1. \A t \in Threads : ~Alive(t)
  BY DEF Init, Alive, Gone
<1> QED
  BY <1>1, SupervisorAssumption DEF Init, Single, Unregistered, NoWorkers, Watched, Stage,
     NotHalting

\* No worker changes its repository or comes back to life.
LEMMA RepoKept ==
    ASSUME Ind, NEW t \in Threads, Poll(t) \/ Die(t)
    PROVE  \A s \in Threads : thread'[s].repo = thread[s].repo /\ (Alive(s)' => Alive(s))
<1> DEFINE r == thread[t]
<1>1. r \in Record /\ thread \in [Threads -> Record]
  BY DEF Ind, TypeThread
<1>2. Alive(t) /\ \E w \in Record : w.repo = r.repo /\ thread' = [thread EXCEPT ![t] = w]
  <2>1. Alive(t) /\ r.repo \in Repos /\ tree[r.repo] \in Versions /\ r.next \in Versions
    BY <1>1 DEF Ind, TypeThread, TypeTree, Poll, Scan, Read, Commit, Fail, Leave, Die, Worker,
       Alive, Record
  <2>2. \E w \in {Scanned(r, tree[r.repo]), ReadBy(r, tree[r.repo]), Committed(r, r.next), Failed(r), NeverStarted(r.repo)} :
          thread' = [thread EXCEPT ![t] = w]
    BY DEF Poll, Scan, Read, Commit, Fail, Leave, Die, Worker, Scanned, ReadBy, Committed,
       Failed
  <2> HIDE DEF r
  <2>3. Scanned(r, tree[r.repo]) \in Record /\ Scanned(r, tree[r.repo]).repo = r.repo
    BY <1>1, <2>1, RecordScans
  <2>4. ReadBy(r, tree[r.repo]) \in Record /\ ReadBy(r, tree[r.repo]).repo = r.repo
    BY <1>1, <2>1, RecordReads
  <2>5. Committed(r, r.next) \in Record /\ Committed(r, r.next).repo = r.repo
    BY <1>1, <2>1, RecordCommits
  <2>6. Failed(r) \in Record /\ Failed(r).repo = r.repo
    BY <1>1, RecordFails
  <2>7. NeverStarted(r.repo) \in Record /\ NeverStarted(r.repo).repo = r.repo
    BY <2>1, Records
  <2> QED
    BY <2>1, <2>2, <2>3, <2>4, <2>5, <2>6, <2>7
<1>3. PICK w \in Record : w.repo = r.repo /\ thread' = [thread EXCEPT ![t] = w]
  BY <1>2
<1> QED
  BY <1>1, <1>2, <1>3, ThreadReplaced DEF Alive

\* Every step keeps it while the registry gives each repository one name.
LEMMA SingleStep ==
    ASSUME NEW Owner, Ind, Single(Owner), Owned(Owner), Ind', "timeout" \notin Hazards, [Next]_vars
    PROVE  Single(Owner)'
<1>1. CASE UNCHANGED <<supervisor, thread>>
  BY <1>1, SingleKept DEF supervisor, Stage, Alive
<1>2. CASE Launch \/ Load \/ EndRetire \/ Join \/ EndAdopt \/ EndHealth \/ Wait \/ Elapse
           \/ Sigterm \/ FinalStop \/ JoinTold \/ Halted
  <2>1. UNCHANGED <<workers, thread>> /\ (wanted' \in {wanted, Unregistered} \/ wanted' = disk)
    BY <1>2 DEF Launch, Load, EndRetire, Join, EndAdopt, EndHealth, Wait, Elapse, Sigterm,
       FinalStop, JoinTold, Halted, Goto
  <2>2. \/ Stage' \notin {"join", "start", "replace"} /\ (Stage = "join" => ~Alive(busy.thread))
        \/ Stage' = Stage /\ UNCHANGED busy
    <3>1. CASE Join
      BY <3>1 DEF Join, Stage, Ind, TypeSup, Handling
    <3>2. CASE Sigterm \/ Halted \/ JoinTold
      BY <3>2 DEF Sigterm, Halted, JoinTold, Stage, Up, Ind, Stages, TypeSup, Halting
    <3>3. CASE Launch \/ Load \/ EndRetire \/ EndAdopt \/ EndHealth \/ Wait \/ Elapse \/ FinalStop
      BY <3>3 DEF Launch, Load, EndRetire, EndAdopt, EndHealth, Wait, Elapse, FinalStop, Goto,
         Stage, Ind, Stages, NotHalting
    <3> QED
      BY <1>2, <3>1, <3>2, <3>3
  <2> QED
    BY <2>1, <2>2, SingleKept DEF Alive
<1>3. CASE \E n \in Names : Tell(n)
  <2>1. PICK n \in Names : Tell(n)
    BY <1>3
  <2>2. UNCHANGED <<workers, busy, wanted, sup>> /\ halt'.back = halt.back
        /\ thread' = [thread EXCEPT ![workers[n]].stop = TRUE]
    BY <2>1 DEF Tell, Ind, TypeSup, Halting
  <2>3. \A t \in Threads : thread'[t].repo = thread[t].repo /\ thread'[t].at = thread[t].at
    BY <2>2 DEF Ind, TypeThread, Record
  <2> QED
    BY <2>2, <2>3, SingleKept DEF Stage, Alive
<1>4. CASE \E t \in Threads : Poll(t) \/ Die(t)
  <2>1. PICK t \in Threads : Poll(t) \/ Die(t)
    BY <1>4
  <2>2. UNCHANGED <<workers, busy, wanted, sup, halt>>
    BY <2>1 DEF Poll, Scan, Read, Commit, Fail, Leave, Die, Worker, supervisor
  <2> QED
    BY <2>1, <2>2, RepoKept, SingleKept DEF Stage
<1>5. CASE Exit
  <2>1. \A t \in Threads : ~Alive(t)'
    BY <1>5 DEF Exit, Alive, Gone
  <2> QED
    BY <1>5, <2>1, SupervisorAssumption DEF Exit, Single, Unregistered, NoWorkers, Watched,
       Stage, NotHalting
<1>6. CASE \E n \in Names : Retire(n) \/ Displace(n)
  BY <1>6, SingleStopWorker DEF Retire, Displace, Unwanted, Displaced
<1>7. CASE (\E r \in Repos : Edit(r)) \/ Truncate \/ Save
  BY <1>1, <1>7 DEF Edit, Truncate, Save
<1>8. CASE UNCHANGED vars
  BY <1>1, <1>8 DEF vars
<1> QED
  BY <1>2, <1>3, <1>4, <1>5, <1>6, <1>7, <1>8, SingleAdopt, SingleStart, SingleCheck,
     SingleInstall DEF Next, Supervise, Reconcile

\* When the registry never gives a repository two names, and no join times out: one
\* worker per repository at any moment, across retiring, displacing, replacing the dead
\* and restarting (service.py:12).
THEOREM OneWorker ==
    ASSUME NEW Owner, "timeout" \notin Hazards
    PROVE  Spec /\ []Owned(Owner) => []OneWorkerPerRepository
<1>1. Init => Single(Owner)
  BY SingleInitial
<1>2. Ind /\ Ind' /\ Single(Owner) /\ Owned(Owner) /\ [Next]_vars => Single(Owner)'
  BY SingleStep
<1>3. Ind /\ Single(Owner) => OneWorkerPerRepository
  BY SingleSuffices
<1> QED
  BY <1>1, <1>2, <1>3, Inductive, PTL DEF Spec

-----------------------------------------------------------------------------
\* A live worker's signature is of a tree the graph has; what it is about to record is
\* no newer than what it reads, and that no newer than the tree.
Current(t) ==
  LET w == thread[t]
  IN  /\ ~Alive(t) => w.sig = 0
      /\ Alive(t) => w.sig <= graph[w.repo]
      /\ w.at = "ingest" => w.next <= tree[w.repo]
      /\ w.at = "commit" => w.next <= w.seen /\ w.seen <= tree[w.repo]
\* So the graph is never newer than the tree, nor older than what a worker last saw.
Fresher == (\A t \in Threads : Current(t)) /\ \A r \in Repos : graph[r] <= tree[r]

\* No worker has seen anything.
LEMMA FresherInitial ==
    ASSUME Init
    PROVE  Fresher
<1>1. \A t \in Threads : thread[t].sig = 0 /\ thread[t].at = "gone"
  BY DEF Init, Gone
<1> QED
  BY <1>1 DEF Init, Fresher, Current, Alive

\* A worker that sees no change has ingested the tree there is.
LEMMA FresherSuffices ==
    ASSUME Ind, Fresher
    PROVE  NotLeftStale
<1> SUFFICES ASSUME NEW t \in Threads, thread[t].at = "loop", thread[t].sig = tree[thread[t].repo]
             PROVE  graph[thread[t].repo] = tree[thread[t].repo]
  BY DEF NotLeftStale
<1>1. thread[t].repo \in Repos /\ thread[t].sig <= graph[thread[t].repo]
  BY DEF Ind, TypeThread, Fresher, Current, Alive
<1> QED
  BY <1>1 DEF Ind, TypeTree, Fresher, Versions

\* A thread that is started, told or replaced, and the ones nobody touches.
LEMMA FresherKept ==
    ASSUME Ind, Fresher, UNCHANGED <<tree, graph>>,
           \A t \in Threads : \/ thread'[t] = thread[t]
                              \/ thread'[t].at = "gone" /\ thread'[t].sig = 0
                              \/ /\ thread'[t].at = thread[t].at /\ thread'[t].repo = thread[t].repo
                                 /\ thread'[t].sig = thread[t].sig
                                    /\ thread'[t].next = thread[t].next
                                       /\ thread'[t].seen = thread[t].seen
                              \/ thread'[t].at = "loop" /\ thread'[t].sig = 0
                                 /\ thread'[t].repo \in Repos
    PROVE  Fresher'
<1> SUFFICES ASSUME NEW t \in Threads PROVE Current(t)'
  BY DEF Fresher
<1>1. \A r \in Repos : graph[r] \in Nat
  BY SupervisorAssumption DEF Ind, TypeTree, Versions
<1> QED
  BY <1>1 DEF Fresher, Current, Alive

\* A worker records the signature it scanned before it read: what the graph gets is at
\* least that fresh (service.py:277-330).
LEMMA FresherStep ==
    ASSUME Ind, Fresher, OneWorkerPerRepository, [Next]_vars
    PROVE  Fresher'
<1>0. /\ thread \in [Threads -> Record] /\ tree \in [Repos -> Versions]
         /\ graph \in [Repos -> Versions] /\ Versions \subseteq Nat
      /\ \A t \in Threads : Alive(t) => thread[t].repo \in Repos
  BY SupervisorAssumption DEF Ind, TypeThread, TypeTree, Versions
<1>1. CASE UNCHANGED <<tree, graph, thread>>
  BY <1>1, FresherKept
<1>2. CASE \E r \in Repos : Edit(r)
  <2>1. PICK r \in Repos : Edit(r)
    BY <1>2
  <2>6. \A q \in Repos : tree[q] \in Nat /\ graph[q] \in Nat
    BY <1>0
  <2>7. UNCHANGED <<graph, thread>> /\ tree' = [tree EXCEPT ![r] = tree[r] + 1]
    BY <2>1 DEF Edit
  <2>2. \A q \in Repos : tree[q] <= tree'[q]
    BY <1>0, <2>6, <2>7
  <2>3. \A t \in Threads : thread[t].seen \in Nat /\ thread[t].next \in Nat
    BY <1>0 DEF Record
  <2>5. \A q \in Repos : tree'[q] \in Nat
    BY <1>0, <2>6, <2>7
  <2>4. \A t \in Threads : Current(t)'
    BY <1>0, <2>2, <2>3, <2>5, <2>6, <2>7 DEF Fresher, Current, Alive
  <2> QED
    BY <1>0, <2>2, <2>4, <2>5, <2>6, <2>7 DEF Fresher
<1>3. CASE \E n \in Names : Tell(n) \/ Retire(n) \/ Displace(n)
  <2>1. PICK n \in Names : Tell(n) \/ Retire(n) \/ Displace(n)
    BY <1>3
  <2>2. UNCHANGED <<tree, graph>> /\ thread' = [thread EXCEPT ![workers[n]].stop = TRUE]
    BY <2>1 DEF Tell, Retire, Displace, StopWorker
  <2>3. \A t \in Threads : /\ thread'[t].at = thread[t].at /\ thread'[t].repo = thread[t].repo
                           /\ thread'[t].sig = thread[t].sig /\ thread'[t].next = thread[t].next
                              /\ thread'[t].seen = thread[t].seen
    BY <1>0, <2>2 DEF Record
  <2> QED
    BY <2>2, <2>3, FresherKept
<1>4. CASE Start
  <2> DEFINE u == busy.thread
  <2>1. u \in Threads /\ ~Alive(u) /\ thread[u].repo \in Repos
    BY <1>4 DEF Ind, Stages, Handover, Start, Stage
  <2>2. thread' = [thread EXCEPT ![u].at = "loop"] /\ UNCHANGED <<tree, graph>>
    BY <1>4 DEF Start
  <2> HIDE DEF u
  <2>3. thread'[u].at = "loop" /\ thread'[u].repo = thread[u].repo /\ thread'[u].sig = thread[u].sig
        /\ \A s \in Threads \ {u} : thread'[s] = thread[s]
    BY <1>0, <2>1, <2>2, ThreadStarted
  <2>4. thread[u].sig = 0
    BY <2>1 DEF Fresher, Current
  <2> QED
    BY <2>1, <2>2, <2>3, <2>4, FresherKept
<1>5. CASE \E n \in Names : Adopt(n) \/ Check(n)
  <2>1. UNCHANGED <<tree, graph>>
        /\ (thread' = thread \/ \E r \in Repos : CanStart /\ thread' = [thread EXCEPT ![Fresh] = NeverStarted(r)])
    <3>1. \A n \in Names : Adopt(n) => wanted[n] \in Repos
      BY DEF Adopt, Unwatched, Ind, TypeSup, Registries
    <3>2. \A n \in Names : Check(n) => thread[workers[n]].repo \in Repos
      BY DEF Check, Ind, Stages, Handover
    <3> QED
      BY <1>5, <3>1, <3>2 DEF Adopt, Check, Replace
  <2>2. CASE thread' = thread
    BY <2>1, <2>2, FresherKept
  <2>3. CASE \E r \in Repos : CanStart /\ thread' = [thread EXCEPT ![Fresh] = NeverStarted(r)]
    <3>1. PICK r \in Repos : CanStart /\ thread' = [thread EXCEPT ![Fresh] = NeverStarted(r)]
      BY <2>3
    <3>2. NeverStarted(r) \in Record /\ NeverStarted(r).at = "gone" /\ NeverStarted(r).sig = 0
      BY Records
    <3>3. Fresh \in Threads
      BY <3>1, FreshFree
    <3>4. \A t \in Threads : thread'[t] = thread[t]
          \/ (thread'[t].at = "gone" /\ thread'[t].sig = 0)
      BY <1>0, <3>1, <3>2, <3>3, ThreadReplaced
    <3> QED
      BY <2>1, <3>4, FresherKept
  <2> QED
    BY <2>1, <2>2, <2>3
<1>6. CASE Exit
  BY <1>6, FresherKept DEF Exit, Gone
<1>7. CASE \E t \in Threads : Poll(t) \/ Die(t)
  <2>1. PICK t \in Threads : Poll(t) \/ Die(t)
    BY <1>7
  <2> DEFINE r == thread[t]
  <2>2. r \in Record /\ Alive(t) /\ r.repo \in Repos /\ tree' = tree /\ tree[r.repo] \in Versions
        /\ r.next \in Versions
        /\ r.sig \in Versions /\ r.seen \in Versions /\ graph[r.repo] \in Versions
    BY <1>0, <2>1 DEF Poll, Scan, Read, Commit, Fail, Leave, Die, Worker, Alive, Record
  <2>3. /\ graph' \in [Repos -> Versions] /\ (\A q \in Repos \ {r.repo} : graph'[q] = graph[q])
        /\ graph'[r.repo] <= tree[r.repo]
        /\ \E w \in Record : thread' = [thread EXCEPT ![t] = w] /\ w.repo = r.repo
             /\ (w.at = "gone" => w.sig = 0)
             /\ (w.at # "gone" => w.sig <= graph'[r.repo])
             /\ (w.at = "ingest" => w.next <= tree[r.repo])
             /\ (w.at = "commit" => w.next <= w.seen /\ w.seen <= tree[r.repo])
    <3> HIDE DEF r
    <3>0. graph[r.repo] <= tree[r.repo] /\ r.sig <= graph[r.repo]
      BY <2>2 DEF Fresher, Current, r
    <3>1. CASE Scan(t)
      <4>1. thread' = [thread EXCEPT ![t] = Scanned(r, tree[r.repo])] /\ graph' = graph
        BY <3>1 DEF Scan, Worker, Scanned, r
      <4>2. Scanned(r, tree[r.repo]) \in Record /\ Scanned(r, tree[r.repo]).repo = r.repo
            /\ Scanned(r, tree[r.repo]).at = "ingest" /\ Scanned(r, tree[r.repo]).sig = r.sig
               /\ Scanned(r, tree[r.repo]).next = tree[r.repo]
        BY <2>2, RecordScans
      <4>4. tree[r.repo] \in Nat
        BY <1>0, <2>2
      <4>3. tree[r.repo] <= tree[r.repo]
        BY <4>4
      <4> QED
        BY <1>0, <2>2, <3>0, <4>1, <4>2, <4>3
    <3>2. CASE Read(t)
      <4>1. thread' = [thread EXCEPT ![t] = ReadBy(r, tree[r.repo])] /\ graph' = graph
            /\ r.next <= tree[r.repo]
        BY <3>2 DEF Read, Worker, ReadBy, r, Fresher, Current
      <4>2. ReadBy(r, tree[r.repo]) \in Record /\ ReadBy(r, tree[r.repo]).repo = r.repo
            /\ ReadBy(r, tree[r.repo]).at = "commit" /\ ReadBy(r, tree[r.repo]).sig = r.sig
               /\ ReadBy(r, tree[r.repo]).next = r.next
                  /\ ReadBy(r, tree[r.repo]).seen = tree[r.repo]
        BY <2>2, RecordReads
      <4>4. tree[r.repo] \in Nat
        BY <1>0, <2>2
      <4>3. tree[r.repo] <= tree[r.repo]
        BY <4>4
      <4> QED
        BY <1>0, <2>2, <3>0, <4>1, <4>2, <4>3
    <3>3. CASE Commit(t)
      <4>1. thread' = [thread EXCEPT ![t] = Committed(r, r.next)]
            /\ graph' = [graph EXCEPT ![r.repo] = r.seen]
            /\ r.next <= r.seen /\ r.seen <= tree[r.repo]
        BY <3>3 DEF Commit, Worker, Committed, r, Fresher, Current
      <4> QED
        BY <1>0, <2>2, <3>0, <4>1, RecordCommits
    <3>4. CASE Fail(t)
      <4>1. thread' = [thread EXCEPT ![t] = Failed(r)] /\ graph' = graph
        BY <3>4 DEF Fail, Worker, Failed, r
      <4> QED
        BY <1>0, <2>2, <3>0, <4>1, RecordFails
    <3>5. CASE Leave(t) \/ Die(t)
      <4>1. thread' = [thread EXCEPT ![t] = NeverStarted(r.repo)] /\ graph' = graph
        BY <3>5 DEF Leave, Die, Worker, r
      <4> QED
        BY <1>0, <2>2, <3>0, <4>1, Records
    <3> QED
      BY <2>1, <3>1, <3>2, <3>3, <3>4, <3>5 DEF Poll
  <2>4. PICK w \in Record : /\ thread' = [thread EXCEPT ![t] = w] /\ w.repo = r.repo
             /\ (w.at = "gone" => w.sig = 0)
             /\ (w.at # "gone" => w.sig <= graph'[r.repo])
             /\ (w.at = "ingest" => w.next <= tree[r.repo])
             /\ (w.at = "commit" => w.next <= w.seen /\ w.seen <= tree[r.repo])
    BY <2>3
  <2>5. thread'[t] = w /\ \A s \in Threads \ {t} : thread'[s] = thread[s]
    BY <1>0, <2>4, ThreadReplaced
  <2> HIDE DEF r
  <2>6. Current(t)'
    BY <2>2, <2>4, <2>5 DEF Current, Alive
  <2>7. \A s \in Threads \ {t} : Alive(s) => thread[s].repo # r.repo
    BY <2>2 DEF OneWorkerPerRepository, r
  <2>8. \A s \in Threads \ {t} : Current(s)'
    BY <1>0, <2>2, <2>3, <2>5, <2>7 DEF Fresher, Current, Alive
  <2>9. \A q \in Repos : graph'[q] <= tree[q]
    BY <2>3 DEF Fresher
  <2> QED
    BY <2>2, <2>6, <2>8, <2>9 DEF Fresher
<1>8. CASE \/ Truncate \/ Save \/ Launch \/ Load \/ EndRetire \/ Join \/ EndAdopt \/ EndHealth
              \/ Wait \/ Elapse
           \/ Sigterm \/ FinalStop \/ JoinTold \/ Halted \/ Install
  BY <1>1, <1>8 DEF Truncate, Save, Launch, Load, EndRetire, Join, EndAdopt, EndHealth, Wait,
     Elapse, Sigterm,
     FinalStop, JoinTold, Halted, Install
<1>9. CASE UNCHANGED vars
  BY <1>1, <1>9 DEF vars
<1> QED
  BY <1>2, <1>3, <1>4, <1>5, <1>6, <1>7, <1>8, <1>9 DEF Next, Supervise, Reconcile

\* Under the same conditions: a worker that sees no change is right that the graph
\* holds the tree, whatever is edited between its scan, its read and its commit
\* (service.py:283-284).
THEOREM NotLeftStaleEver ==
    ASSUME NEW Owner, "timeout" \notin Hazards
    PROVE  Spec /\ []Owned(Owner) => []NotLeftStale
<1>1. Ind /\ Fresher => NotLeftStale
  BY FresherSuffices
<1>2. Init => Fresher
  BY FresherInitial
<1>3. Ind /\ Fresher /\ OneWorkerPerRepository /\ [Next]_vars => Fresher'
  BY FresherStep
<1> QED
  BY <1>1, <1>2, <1>3, OneWorker, Inductive, PTL DEF Spec

\* A registry of one name, which can be registered for one repository after the other:
\* one worker per repository, and none left stale.
THEOREM OneNameEver ==
    ASSUME NEW n, Names = {n}, "timeout" \notin Hazards
    PROVE  Spec => [](OneWorkerPerRepository /\ NotLeftStale)
<1> DEFINE Owner == [r \in Repos |-> n]
<1>1. Ind => Owned(Owner)
  BY DEF Ind, TypeRegistry, Registries, Owned
<1> HIDE DEF Owner
<1>2. Init => Single(Owner) /\ Fresher
  BY SingleInitial, FresherInitial
<1>3. Ind /\ Ind' /\ Single(Owner) /\ Owned(Owner) /\ [Next]_vars => Single(Owner)'
  BY SingleStep
<1>4. Ind /\ Single(Owner) => OneWorkerPerRepository
  BY SingleSuffices
<1>5. Ind /\ Fresher /\ OneWorkerPerRepository /\ [Next]_vars => Fresher'
  BY FresherStep
<1>6. Ind /\ Fresher => NotLeftStale
  BY FresherSuffices
<1> QED
  BY <1>1, <1>2, <1>3, <1>4, <1>5, <1>6, Inductive, PTL DEF Spec

=============================================================================
