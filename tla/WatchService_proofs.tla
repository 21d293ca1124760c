------------------------ MODULE WatchService_proofs ------------------------
(***************************************************************************)
(* WatchService, proved for any number of service processes and commands:  *)
(* when commands come one at a time, with crashes whenever they like and   *)
(* process ids handed out again, two services never run at once, a running *)
(* service can be found, nobody removes a file that is not theirs, and a   *)
(* claim is refused only for a process that is there.                      *)
(***************************************************************************)
EXTENDS WatchService, TLAPS

USE DEF NoFile, IdentityFile, Content, Alive, Claiming, Holding, Move, Step, Pids,
        PcValues, CpcValues

(* An identity file is of its type. *)
LEMMA IdentityFileType ==
  \A s \in Services, w \in BOOLEAN : IdentityFile(s, w) \in [by : Pids, written : BOOLEAN]
  OBVIOUS

(* Initially there is no file, no process and no command. *)
LEMMA OrderlyInit == Init => OrderlyInv
  BY WatchServiceAssumption DEF Init, OrderlyInv, TypeOK, FileInv, ClaimInv, CommandInv

(* A step that starts something finds no claim and no command under way. *)
LEMMA OrderlyBegin == OrderlyInv /\ Begin /\ Quiescent => OrderlyInv'
<1> SUFFICES ASSUME OrderlyInv, Begin, Quiescent PROVE OrderlyInv'
  OBVIOUS
<1> USE WatchServiceAssumption DEF OrderlyInv, TypeOK, FileInv, ClaimInv, CommandInv, Quiescent
<1>1. ASSUME NEW s \in Services, Launch(s) PROVE OrderlyInv'
  <2> USE <1>1 DEF Launch
  <2>1. TypeOK'
    OBVIOUS
  <2>2. FileInv'
    OBVIOUS
  <2>3. ClaimInv'
    OBVIOUS
  <2>4. CommandInv'
    OBVIOUS
  <2> QED
    BY <2>1, <2>2, <2>3, <2>4
<1>2. ASSUME NEW c \in Commands, StartCheck(c) PROVE OrderlyInv'
  <2> USE <1>2 DEF StartCheck
  <2>1. TypeOK'
    OBVIOUS
  <2>2. FileInv'
    OBVIOUS
  <2>3. ClaimInv'
    OBVIOUS
  <2>4. CommandInv'
    OBVIOUS
  <2> QED
    BY <2>1, <2>2, <2>3, <2>4
<1>3. ASSUME NEW c \in Commands, StopRead(c) PROVE OrderlyInv'
  <2> USE <1>3 DEF StopRead
  <2>1. TypeOK'
    OBVIOUS
  <2>2. FileInv'
    OBVIOUS
  <2>3. ClaimInv'
    OBVIOUS
  <2>4. CommandInv'
    OBVIOUS
  <2> QED
    BY <2>1, <2>2, <2>3, <2>4
<1> QED
  BY <1>1, <1>2, <1>3 DEF Begin

(* A service's claim, run and release keep the invariant. *)
LEMMA OrderlyService ==
  ASSUME OrderlyInv, NEW s \in Services, Service(s)
  PROVE  OrderlyInv'
<1> USE WatchServiceAssumption DEF OrderlyInv, TypeOK, FileInv, ClaimInv, CommandInv
<1>1. CASE Create(s)
  <2> USE <1>1 DEF Create
  <2>1. TypeOK'
    <3>1. CASE file.by = NoPid
      <4>1. file' \in [by : Pids, written : BOOLEAN]
        <5>1. file' = IdentityFile(s, FALSE)
          BY <3>1
        <5>2. IdentityFile(s, FALSE) \in [by : Pids, written : BOOLEAN]
          BY IdentityFileType
        <5> QED
          BY <5>1, <5>2
      <4>2. pc' \in [Services -> PcValues]
        BY <3>1
      <4> QED
        BY <4>1, <4>2
    <3>2. CASE file.by # NoPid
      BY <3>2
    <3> QED
      BY <3>1, <3>2
  <2>2. FileInv'
    OBVIOUS
  <2>3. ClaimInv'
    OBVIOUS
  <2>4. CommandInv'
    OBVIOUS
  <2> QED
    BY <2>1, <2>2, <2>3, <2>4
<1>2. CASE WritePid(s)
  <2> USE <1>2 DEF WritePid
  <2>1. TypeOK'
    OBVIOUS
  <2>2. FileInv'
    OBVIOUS
  <2>3. ClaimInv'
    OBVIOUS
  <2>4. CommandInv'
    OBVIOUS
  <2> QED
    BY <2>1, <2>2, <2>3, <2>4
<1>3. CASE ReadHolder(s)
  <2> USE <1>3 DEF ReadHolder
  <2>1. TypeOK'
    OBVIOUS
  <2>2. FileInv'
    OBVIOUS
  <2>3. ClaimInv'
    OBVIOUS
  <2>4. CommandInv'
    OBVIOUS
  <2> QED
    BY <2>1, <2>2, <2>3, <2>4
<1>4. CASE CheckHolder(s)
  <2> USE <1>4 DEF CheckHolder
  <2>1. TypeOK'
    OBVIOUS
  <2>2. FileInv'
    OBVIOUS
  <2>3. ClaimInv'
    OBVIOUS
  <2>4. CommandInv'
    OBVIOUS
  <2> QED
    BY <2>1, <2>2, <2>3, <2>4
<1>5. CASE UnlinkStale(s)
  <2> USE <1>5 DEF UnlinkStale
  <2>1. TypeOK'
    OBVIOUS
  <2>2. FileInv'
    OBVIOUS
  <2>3. ClaimInv'
    OBVIOUS
  <2>4. CommandInv'
    OBVIOUS
  <2> QED
    BY <2>1, <2>2, <2>3, <2>4
<1>6. CASE FailToStart(s) \/ Supervise(s) \/ Finish(s)
  <2> USE <1>6 DEF FailToStart, Supervise, Finish
  <2>1. TypeOK'
    OBVIOUS
  <2>2. FileInv'
    OBVIOUS
  <2>3. ClaimInv'
    OBVIOUS
  <2>4. CommandInv'
    OBVIOUS
  <2> QED
    BY <2>1, <2>2, <2>3, <2>4
<1>7. CASE ReleaseRead(s)
  <2> USE <1>7 DEF ReleaseRead
  <2>1. TypeOK'
    OBVIOUS
  <2>2. FileInv'
    OBVIOUS
  <2>3. ClaimInv'
    OBVIOUS
  <2>4. CommandInv'
    OBVIOUS
  <2> QED
    BY <2>1, <2>2, <2>3, <2>4
<1>8. CASE ReleaseUnlink(s)
  <2> USE <1>8 DEF ReleaseUnlink
  <2>1. TypeOK'
    OBVIOUS
  <2>2. FileInv'
    OBVIOUS
  <2>3. ClaimInv'
    OBVIOUS
  <2>4. CommandInv'
    OBVIOUS
  <2> QED
    BY <2>1, <2>2, <2>3, <2>4
<1>9. CASE Die(s)
  <2> USE <1>9 DEF Die
  <2>1. TypeOK'
    OBVIOUS
  <2>2. FileInv'
    OBVIOUS
  <2>3. ClaimInv'
    OBVIOUS
  <2>4. CommandInv'
    OBVIOUS
  <2> QED
    BY <2>1, <2>2, <2>3, <2>4
<1>10. CASE Recycle(s)
  <2> USE <1>10 DEF Recycle
  <2>1. TypeOK'
    OBVIOUS
  <2>2. FileInv'
    OBVIOUS
  <2>3. ClaimInv'
    OBVIOUS
  <2>4. CommandInv'
    OBVIOUS
  <2> QED
    BY <2>1, <2>2, <2>3, <2>4
<1> QED
  BY <1>1, <1>2, <1>3, <1>4, <1>5, <1>6, <1>7, <1>8, <1>9, <1>10 DEF Service, Claim, Release

(* So do the steps of a start or stop command. *)
LEMMA OrderlyCommand ==
  ASSUME OrderlyInv, NEW c \in Commands, Command(c)
  PROVE  OrderlyInv'
<1> USE WatchServiceAssumption DEF OrderlyInv, TypeOK, FileInv, ClaimInv, CommandInv
<1>1. ASSUME NEW s \in Services, Spawn(c, s) PROVE OrderlyInv'
  <2> USE <1>1 DEF Spawn
  <2>1. TypeOK'
    OBVIOUS
  <2>2. FileInv'
    OBVIOUS
  <2>3. ClaimInv'
    OBVIOUS
  <2>4. CommandInv'
    OBVIOUS
  <2> QED
    BY <2>1, <2>2, <2>3, <2>4
<1>2. CASE Await(c)
  <2> USE <1>2 DEF Await
  <2>1. TypeOK'
    OBVIOUS
  <2>2. FileInv'
    OBVIOUS
  <2>3. ClaimInv'
    OBVIOUS
  <2>4. CommandInv'
    OBVIOUS
  <2> QED
    BY <2>1, <2>2, <2>3, <2>4
<1>3. CASE Signal(c)
  <2> USE <1>3 DEF Signal
  <2>1. TypeOK'
    OBVIOUS
  <2>2. FileInv'
    OBVIOUS
  <2>3. ClaimInv'
    OBVIOUS
  <2>4. CommandInv'
    OBVIOUS
  <2> QED
    BY <2>1, <2>2, <2>3, <2>4
<1>4. CASE SignalRefused(c) \/ SeeGone(c) \/ GiveUp(c)
  <2> USE <1>4 DEF SignalRefused, SeeGone, GiveUp
  <2>1. TypeOK'
    OBVIOUS
  <2>2. FileInv'
    OBVIOUS
  <2>3. ClaimInv'
    OBVIOUS
  <2>4. CommandInv'
    OBVIOUS
  <2> QED
    BY <2>1, <2>2, <2>3, <2>4
<1>5. CASE StopReleaseRead(c)
  <2> USE <1>5 DEF StopReleaseRead
  <2>1. TypeOK'
    OBVIOUS
  <2>2. FileInv'
    OBVIOUS
  <2>3. ClaimInv'
    OBVIOUS
  <2>4. CommandInv'
    OBVIOUS
  <2> QED
    BY <2>1, <2>2, <2>3, <2>4
<1>6. CASE StopReleaseUnlink(c)
  <2> USE <1>6 DEF StopReleaseUnlink
  <2>1. TypeOK'
    OBVIOUS
  <2>2. FileInv'
    OBVIOUS
  <2>3. ClaimInv'
    OBVIOUS
  <2>4. CommandInv'
    OBVIOUS
  <2> QED
    BY <2>1, <2>2, <2>3, <2>4
<1> QED
  BY <1>1, <1>2, <1>3, <1>4, <1>5, <1>6 DEF Command

(* The invariant holds throughout. *)
LEMMA OrderlyAlways == OrderlySpec => []OrderlyInv
<1>1. OrderlyInv /\ [OrderlyNext]_vars => OrderlyInv'
  <2> SUFFICES ASSUME OrderlyInv, [OrderlyNext]_vars PROVE OrderlyInv'
    OBVIOUS
  <2>1. CASE UNCHANGED vars
    BY <2>1 DEF vars, OrderlyInv, TypeOK, FileInv, ClaimInv, CommandInv
  <2> QED
    BY <2>1, OrderlyBegin, OrderlyService, OrderlyCommand DEF OrderlyNext
<1> QED
  BY OrderlyInit, <1>1, PTL DEF OrderlySpec

(* service.py:15-18: two supervisors never run over one home. *)
THEOREM OneServiceOrderly == OrderlySpec => []OneService
<1>1. OrderlyInv => OneService
  BY DEF OrderlyInv, FileInv, OneService
<1> QED
  BY OrderlyAlways, <1>1, PTL

(* The identity file names the service that runs, so `dkg service stop' and
   `status' reach it. *)
THEOREM FindableOrderly == OrderlySpec => []Findable
<1>1. OrderlyInv => Findable
  BY DEF OrderlyInv, FileInv, Findable
<1> QED
  BY OrderlyAlways, <1>1, PTL

(* service.py:175: a file is removed only while it is still ours. *)
THEOREM ReleaseOnlyOwnOrderly == OrderlySpec => ReleaseOnlyOwn
<1>1. OrderlyInv /\ [OrderlyNext]_vars =>
        [/\ \A s \in Services : ReleaseUnlink(s) => Content = s
         /\ \A c \in Commands : StopReleaseUnlink(c) => Content = target[c]]_vars
  BY DEF OrderlyInv, FileInv, CommandInv, ReleaseUnlink, StopReleaseUnlink
<1> QED
  BY OrderlyAlways, <1>1, PTL DEF OrderlySpec, ReleaseOnlyOwn

(* service.py:159-164: a claim is refused only for the service that holds the home,
   or because the recorded id is in use again, by another process or by the claimant. *)
THEOREM RefusedOrderly == OrderlySpec => RefusedForAProcess
<1>1. OrderlyInv /\ [OrderlyNext]_vars =>
        [\A s \in Services : CheckHolder(s) /\ pc'[s] = "dead" =>
           saw[s] \in Services /\ (Holding(saw[s]) \/ HandedOn(saw[s], s))]_vars
  <2> SUFFICES ASSUME OrderlyInv, NEW s \in Services, CheckHolder(s), pc'[s] = "dead"
               PROVE  saw[s] \in Services /\ (Holding(saw[s]) \/ HandedOn(saw[s], s))
    OBVIOUS
  <2>1. pc[s] = "check" /\ Alive(saw[s])
    BY DEF OrderlyInv, TypeOK, CheckHolder
  <2>2. CASE Claiming(saw[s])
    BY <2>1, <2>2 DEF OrderlyInv, ClaimInv, HandedOn
  <2>3. CASE ~Claiming(saw[s])
    BY <2>1, <2>3 DEF OrderlyInv, TypeOK, HandedOn
  <2> QED
    BY <2>2, <2>3
<1> QED
  BY OrderlyAlways, <1>1, PTL DEF OrderlySpec, RefusedForAProcess

=============================================================================
