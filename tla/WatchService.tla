---------------------------- MODULE WatchService ----------------------------
(***************************************************************************)
(* The managed background watcher (watch/service.py, `dkg service`): the   *)
(* process-identity file $DKG_HOME/watch-service.pid, the supervisors that *)
(* claim and release it, and the start and stop commands that read it.     *)
(*                                                                         *)
(* The file system is shared and every call on it is a step: O_CREAT with  *)
(* O_EXCL, the write of the pid, a read, kill(pid, 0), an unlink.  A       *)
(* service's write goes to the file it created, linked or not.  A process  *)
(* id is used once, unless "recycle" lets the system hand it out again.    *)
(***************************************************************************)
EXTENDS FiniteSets

CONSTANTS
  Services,   \* process ids of `dkg service run`
  Commands,   \* processes of `dkg service start`, `stop` and `restart`
  Hazards,    \* subset of {"crash", "recycle"}
  NoPid

ASSUME WatchServiceAssumption ==
  /\ Hazards \subseteq {"crash", "recycle"}
  /\ NoPid \notin Services

VARIABLES
  file,    \* the identity file: who created it, whether its pid is written
  pc,      \* where each service process is
  saw,     \* the pid a claim read from the file
  term,    \* running services that SIGTERM has reached
  cpc,     \* where each command is
  target   \* the pid a command read, or the child it spawned

vars == <<file, pc, saw, term, cpc, target>>

-----------------------------------------------------------------------------

NoFile == [by |-> NoPid, written |-> FALSE]
IdentityFile(s, w) == [by |-> s, written |-> w]

\* read_pid_file: None for a missing file and for one that is still empty.
Content == IF file.written THEN file.by ELSE NoPid

\* process_alive: any process with that id, whoever it belongs to.
Alive(p) == p \in Services /\ pc[p] \notin {"new", "dead"}

Claiming(s) == pc[s] \in {"create", "write", "read", "check", "unlink"}
Holding(s) == pc[s] \in {"claimed", "running", "release", "unlink_own"}

Init ==
  /\ file = NoFile
  /\ pc = [s \in Services |-> "new"]
  /\ saw = [s \in Services |-> NoPid]
  /\ term = {}
  /\ cpc = [c \in Commands |-> "idle"]
  /\ target = [c \in Commands |-> NoPid]

Move(s, from, to) == pc[s] = from /\ pc' = [pc EXCEPT ![s] = to]
Step(c, from, to) == cpc[c] = from /\ cpc' = [cpc EXCEPT ![c] = to]

-----------------------------------------------------------------------------
(* A service process *)

\* `dkg service run` is launched, by hand or by a unit file.
Launch(s) ==
  /\ \/ Move(s, "new", "create")
     \/ "recycle" \in Hazards /\ Move(s, "dead", "create")
  /\ UNCHANGED <<file, saw, term, cpc, target>>

\* Mutant: the file is opened without O_EXCL.
Create_NotExclusive(s) ==
  /\ Move(s, "create", "write")
  /\ file' = IdentityFile(s, FALSE)
  /\ UNCHANGED <<saw, term, cpc, target>>

\* claim_pid_file: os.open(O_CREAT | O_EXCL).
Create(s) ==
  /\ IF file.by = NoPid
       THEN Move(s, "create", "write") /\ file' = IdentityFile(s, FALSE)
       ELSE Move(s, "create", "read") /\ UNCHANGED file
  /\ UNCHANGED <<saw, term, cpc, target>>

\* The pid goes to the file that s opened, which may be unlinked by now.
WritePid(s) ==
  /\ Move(s, "write", "claimed")
  /\ file' = IF file.by = s THEN IdentityFile(s, TRUE) ELSE file
  /\ UNCHANGED <<saw, term, cpc, target>>

ReadHolder(s) ==
  /\ Move(s, "read", "check")
  /\ saw' = [saw EXCEPT ![s] = Content]
  /\ UNCHANGED <<file, term, cpc, target>>

\* Mutant: any recorded pid is taken for a live one.
CheckHolder_NeverStale(s) ==
  /\ IF saw[s] # NoPid THEN Move(s, "check", "dead") ELSE Move(s, "check", "unlink")
  /\ saw' = [saw EXCEPT ![s] = NoPid]
  /\ UNCHANGED <<file, term, cpc, target>>

\* A live holder refuses the claim and the process exits; a dead one, or an
\* unreadable file, is reclaimed.
CheckHolder(s) ==
  /\ IF Alive(saw[s])
       THEN Move(s, "check", "dead") ELSE Move(s, "check", "unlink")
  /\ saw' = [saw EXCEPT ![s] = NoPid]
  /\ UNCHANGED <<file, term, cpc, target>>

\* Mutant: the stale file is left for the operator to delete.
UnlinkStale_Keep(s) ==
  /\ Move(s, "unlink", "create")
  /\ UNCHANGED <<file, saw, term, cpc, target>>

\* unlink, whoever's file it is by now, and claim again.
UnlinkStale(s) ==
  /\ Move(s, "unlink", "create")
  /\ file' = NoFile
  /\ UNCHANGED <<saw, term, cpc, target>>

\* The registry or the languages do not load: the process exits, past the claim
\* and before the `finally' that releases it.
FailToStart(s) ==
  /\ Move(s, "claimed", "dead")
  /\ UNCHANGED <<file, saw, term, cpc, target>>

\* The signal handlers are in place and the supervisor runs.
Supervise(s) ==
  /\ Move(s, "claimed", "running")
  /\ UNCHANGED <<file, saw, term, cpc, target>>

\* Supervisor.run returns or raises; its `finally' is reached.
Finish(s) ==
  /\ Move(s, "running", "release")
  /\ term' = term \ {s}
  /\ UNCHANGED <<file, saw, cpc, target>>

\* Mutant: the release gives up on the identity file.
ReleaseRead_Never(s) ==
  /\ Move(s, "release", "dead")
  /\ UNCHANGED <<file, saw, term, cpc, target>>

\* release_pid_file(paths, getpid()): only if the file is still ours.
ReleaseRead(s) ==
  /\ Move(s, "release", IF Content = s THEN "unlink_own" ELSE "dead")
  /\ UNCHANGED <<file, saw, term, cpc, target>>

ReleaseUnlink(s) ==
  /\ Move(s, "unlink_own", "dead")
  /\ file' = NoFile
  /\ UNCHANGED <<saw, term, cpc, target>>

\* kill -9, power loss: nothing is released.
Die(s) ==
  /\ "crash" \in Hazards
  /\ Claiming(s) \/ Holding(s)
  /\ pc' = [pc EXCEPT ![s] = "dead"]
  /\ saw' = [saw EXCEPT ![s] = NoPid]
  /\ term' = term \ {s}
  /\ UNCHANGED <<file, cpc, target>>

\* The id of a dead service goes to an unrelated process, for as long as it lives.
Recycle(s) ==
  /\ "recycle" \in Hazards
  /\ Move(s, "dead", "foreign") \/ Move(s, "foreign", "dead")
  /\ UNCHANGED <<file, saw, term, cpc, target>>

-----------------------------------------------------------------------------
(* A start or stop command *)

\* start_service: refuses (and stays idle) over a live holder.
StartCheck(c) ==
  /\ ~Alive(Content)
  /\ Step(c, "idle", "spawn")
  /\ UNCHANGED <<file, pc, saw, term, target>>

Spawn(c, s) ==
  /\ Step(c, "spawn", "await")
  /\ Move(s, "new", "create")
  /\ target' = [target EXCEPT ![c] = s]
  /\ UNCHANGED <<file, saw, term>>

\* It waits at most five seconds for an identity, or for the child to exit.
Await(c) ==
  /\ Step(c, "await", "idle")
  /\ target' = [target EXCEPT ![c] = NoPid]
  /\ UNCHANGED <<file, pc, saw, term>>

\* stop_service; `restart' is this followed by start_service.
StopRead(c) ==
  /\ Content # NoPid
  /\ Step(c, "idle", "signal")
  /\ target' = [target EXCEPT ![c] = Content]
  /\ UNCHANGED <<file, pc, saw, term>>

\* Mutant: the file is released without waiting for the process to go.
Signal_NoWait(c) ==
  LET s == target[c]
  IN  /\ Step(c, "signal", "release")
      /\ term' = IF pc[s] = "running" THEN term \cup {s} ELSE term
      /\ UNCHANGED <<file, pc, saw, target>>

\* SIGTERM: a supervisor notes it, a process without its handler dies of it.
\* A recorded process that is already gone has its file released.
Signal(c) ==
  LET s == target[c]
  IN  /\ Step(c, "signal", IF Alive(s) THEN "wait" ELSE "release")
      /\ term' = IF pc[s] = "running" THEN term \cup {s} ELSE term
      /\ pc' = IF Claiming(s) \/ pc[s] \in {"claimed", "foreign"}
                 THEN [pc EXCEPT ![s] = "dead"] ELSE pc
      /\ saw' = IF pc'[s] = "dead" THEN [saw EXCEPT ![s] = NoPid] ELSE saw
      /\ UNCHANGED <<file, target>>

\* PermissionError: the recorded id is somebody else's process by now.
SignalRefused(c) ==
  /\ Step(c, "signal", "idle")
  /\ pc[target[c]] = "foreign"
  /\ target' = [target EXCEPT ![c] = NoPid]
  /\ UNCHANGED <<file, pc, saw, term>>

SeeGone(c) ==
  /\ Step(c, "wait", "release")
  /\ ~Alive(target[c])
  /\ UNCHANGED <<file, pc, saw, term, target>>

\* STOP_TIMEOUT_SECONDS: still running, reported rather than escalated.
GiveUp(c) ==
  /\ Step(c, "wait", "idle")
  /\ Alive(target[c])
  /\ target' = [target EXCEPT ![c] = NoPid]
  /\ UNCHANGED <<file, pc, saw, term>>

\* release_pid_file(paths, pid).
StopReleaseRead(c) ==
  LET ours == Content = target[c]
  IN  /\ Step(c, "release", IF ours THEN "unlink" ELSE "idle")
      /\ target' = IF ours THEN target ELSE [target EXCEPT ![c] = NoPid]
      /\ UNCHANGED <<file, pc, saw, term>>

StopReleaseUnlink(c) ==
  /\ Step(c, "unlink", "idle")
  /\ file' = NoFile
  /\ target' = [target EXCEPT ![c] = NoPid]
  /\ UNCHANGED <<pc, saw, term>>

-----------------------------------------------------------------------------

Claim(s) == Create(s) \/ WritePid(s) \/ ReadHolder(s) \/ CheckHolder(s) \/ UnlinkStale(s)
Release(s) == ReleaseRead(s) \/ ReleaseUnlink(s)
Service(s) ==
  \/ Claim(s) \/ FailToStart(s) \/ Supervise(s) \/ Finish(s) \/ Release(s)
  \/ Die(s) \/ Recycle(s)
Command(c) ==
  \/ \E s \in Services : Spawn(c, s)
  \/ Await(c)
  \/ Signal(c) \/ SignalRefused(c) \/ SeeGone(c) \/ GiveUp(c)
  \/ StopReleaseRead(c) \/ StopReleaseUnlink(c)
Begin == (\E s \in Services : Launch(s)) \/ \E c \in Commands : StartCheck(c) \/ StopRead(c)

Next ==
  \/ Begin
  \/ \E s \in Services : Service(s)
  \/ \E c \in Commands : Command(c)

Spec == Init /\ [][Next]_vars

\* A process that is not stopped runs, and a supervisor obeys SIGTERM: its loop
\* waits on the event the handler sets.
FairSpec ==
  /\ Spec
  /\ \A s \in Services :
       WF_vars(Claim(s) \/ Supervise(s) \/ Release(s)) /\ WF_vars(s \in term /\ Finish(s))

\* One command at a time: nobody launches, starts or stops a service while a
\* claim or another command is under way.  Crashes come when they like.
Quiescent ==
  /\ \A s \in Services : ~Claiming(s)
  /\ \A c \in Commands : cpc[c] = "idle"
OrderlyNext ==
  \/ Begin /\ Quiescent
  \/ \E s \in Services : Service(s)
  \/ \E c \in Commands : Command(c)
OrderlySpec == Init /\ [][OrderlyNext]_vars

-----------------------------------------------------------------------------
(* Properties *)

PcValues == {"new", "create", "write", "read", "check", "unlink", "claimed",
             "running", "release", "unlink_own", "dead", "foreign"}
CpcValues == {"idle", "spawn", "await", "signal", "wait", "release", "unlink"}
Pids == Services \cup {NoPid}

\* Every variable has its declared shape.
TypeOK ==
  /\ file \in [by : Pids, written : BOOLEAN]
  /\ pc \in [Services -> PcValues]
  /\ saw \in [Services -> Pids]
  /\ term \subseteq Services
  /\ cpc \in [Commands -> CpcValues]
  /\ target \in [Commands -> Pids]

\* service.py:15-18: two supervisors never run over one home.
OneService == \A s, t \in Services : Holding(s) /\ Holding(t) => s = t

\* A running service can be found and stopped: the file names it.
Findable == \A s \in Services : pc[s] \in {"claimed", "running"} => Content = s

\* service.py:175: the file is removed only by a process it still belongs to,
\* or by the stop command for a process it still belongs to.
ReleaseOnlyOwn ==
  [][/\ \A s \in Services : ReleaseUnlink(s) => Content = s
     /\ \A c \in Commands : StopReleaseUnlink(c) => Content = target[c]]_vars

\* service.py:159-164: a claim is refused for the service that holds the home, or
\* because the id recorded in the file was handed out again, to another process or
\* to the claimant itself: never for a dead process, another claim or a file that is
\* still empty.
HandedOn(p, s) == pc[p] = "foreign" \/ p = s
RefusedForAProcess ==
  [][\A s \in Services : CheckHolder(s) /\ pc'[s] = "dead" =>
       saw[s] \in Services /\ (Holding(saw[s]) \/ HandedOn(saw[s], s))]_vars

\* A claim ends, in a service or in a refusal, whatever was left in the way by
\* crashes and recycled ids, unless new claims keep coming for ever.
ClaimDecides ==
  <>[][\A s \in Services : ~Launch(s)]_vars =>
    \A s \in Services : Claiming(s) ~> ~Claiming(s)

\* A service told to stop stops and leaves no identity behind.
StopLeavesNothing == \A s \in Services : s \in term ~> (~Alive(s) /\ Content # s)

\* Under OrderlySpec, the argument: the file belongs to the one service that holds
\* or writes it, or to nobody who does; a claim that is about to unlink it has met no
\* holder; and nobody claims while a command acts.
FileInv ==
  /\ file.by = NoPid => ~file.written
  /\ \A s \in Services : Holding(s) => file.by = s /\ file.written
  /\ \A s \in Services : pc[s] = "write" => file.by = s /\ ~file.written
  /\ \A s \in Services : file.by = s => pc[s] # "new"
ClaimInv ==
  /\ \A s, t \in Services : Claiming(s) /\ Claiming(t) => s = t
  /\ \A s \in Services : pc[s] = "check" => saw[s] = Content \/ file.by = NoPid
  /\ \A s \in Services : pc[s] = "check" /\ saw[s] # NoPid => pc[saw[s]] # "new"
  /\ \A s \in Services : pc[s] = "unlink" => ~\E t \in Services : Holding(t)
CommandInv ==
  /\ \A c, d \in Commands : cpc[c] # "idle" /\ cpc[d] # "idle" => c = d
  /\ \A c \in Commands : cpc[c] \notin {"idle", "await"} => \A s \in Services : ~Claiming(s)
  /\ \A c \in Commands : cpc[c] \in {"signal", "wait", "release", "unlink"} =>
       target[c] \in Services /\ pc[target[c]] # "new"
  /\ \A c \in Commands : cpc[c] \in {"release", "unlink"} => pc[target[c]] \in {"dead", "foreign"}
  /\ \A c \in Commands : cpc[c] = "unlink" => Content = target[c]
OrderlyInv == TypeOK /\ FileInv /\ ClaimInv /\ CommandInv

=============================================================================
