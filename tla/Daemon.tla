------------------------------- MODULE Daemon -------------------------------
(***************************************************************************)
(* The foreground watcher (watch/daemon.py): one thread that goes over the *)
(* registered repositories, compares a signature of the sizes and times of *)
(* their files with the one of the last re-ingest that succeeded, and      *)
(* re-ingests those that differ.  With the watchfiles backend a change     *)
(* wakes the thread early, and an exception turns it to polling.           *)
(***************************************************************************)
EXTENDS Naturals

CONSTANTS Watched,       \* the repositories
          MaxSaves,      \* bound on the user's edits
          MaxFailures    \* bound on re-ingests that fail

VARIABLES tree,        \* repository -> the version of its files
          odd,         \* the repositories with a file name that is no UTF-8
          known,       \* repository -> the signature of the last success (0: none)
          current,     \* repository -> the version in the graph (0: none)
          health,      \* repository -> "pending", "ok" or "error"
          thread,      \* where the thread is, on what, with which signature
          stopping,    \* whether stop was called
          failures
watchVars == <<tree, odd, known, current, health, thread, stopping, failures>>

Init ==
    /\ tree = [r \in Watched |-> 1] /\ odd = {}
    /\ known = [r \in Watched |-> 0] /\ current = [r \in Watched |-> 0]
    /\ health = [r \in Watched |-> "pending"]
    /\ \E mode \in {"looking", "polling"} :
          thread = [at |-> "unstarted", mode |-> mode, todo |-> {}, repo |-> "none", sig |-> 0]
    /\ stopping = FALSE /\ failures = 0

-----------------------------------------------------------------------------

(* A round over all the repositories: the first, and then one each time    *)
(* the interval passes or a change is reported.                            *)
Round == [thread EXCEPT !.at = "scan", !.todo = Watched]
Start == thread.at = "unstarted" /\ thread' = Round
         /\ UNCHANGED <<tree, odd, known, current, health, stopping, failures>>
Wake == /\ thread.at = "between"
        /\ thread' = IF stopping THEN [thread EXCEPT !.at = "ended"] ELSE Round
        /\ UNCHANGED <<tree, odd, known, current, health, stopping, failures>>
RoundDone ==
    /\ thread.at = "scan" /\ thread.todo = {}
    /\ thread' = [thread EXCEPT !.at = "between", !.mode = IF @ = "looking" THEN "watching" ELSE @]
    /\ UNCHANGED <<tree, odd, known, current, health, stopping, failures>>

(* The signature of the next repository; equal to the known one, nothing   *)
(* is done.  It is computed outside the try, and a name that is no UTF-8   *)
(* cannot be encoded: the watching loop turns to polling, which starts a   *)
(* round and ends the thread.                                              *)
RepoSignature(r) == tree[r]
Scan(r) ==
    /\ thread.at = "scan" /\ r \in thread.todo
    /\ thread' = IF r \in odd
                 THEN IF thread.mode = "watching"
                      THEN [thread EXCEPT !.at = "between", !.mode = "polling"]
                      ELSE [thread EXCEPT !.at = "dead"]
                 ELSE IF known[r] = RepoSignature(r) THEN [thread EXCEPT !.todo = @ \ {r}]
                 ELSE [thread EXCEPT !.at = "ingest", !.todo = @ \ {r}, !.repo = r,
                                       !.sig = RepoSignature(r)]
    /\ UNCHANGED <<tree, odd, known, current, health, stopping, failures>>

(* Re-ingest what is there by now, then store the signature taken before;  *)
(* a failure is recorded, and the repository is tried again next round.    *)
Reingest ==
    /\ thread.at = "ingest"
    /\ current' = [current EXCEPT ![thread.repo] = tree[thread.repo]]
    /\ thread' = [thread EXCEPT !.at = "record"]
    /\ UNCHANGED <<tree, odd, known, health, stopping, failures>>
Fail ==
    /\ thread.at = "ingest" /\ failures < MaxFailures
    /\ failures' = failures + 1
    /\ health' = [health EXCEPT ![thread.repo] = "error"]
    /\ thread' = [thread EXCEPT !.at = "scan"]
    /\ UNCHANGED <<tree, odd, known, current, stopping>>
Signature_TakenAfter == tree[thread.repo]
Signature == thread.sig
Record ==
    /\ thread.at = "record"
    /\ known' = [known EXCEPT ![thread.repo] = Signature]
    /\ health' = [health EXCEPT ![thread.repo] = "ok"]
    /\ thread' = [thread EXCEPT !.at = "scan"]
    /\ UNCHANGED <<tree, odd, current, stopping, failures>>

Stop == ~stopping /\ stopping' = TRUE
        /\ UNCHANGED <<tree, odd, known, current, health, thread, failures>>
(* The user saves a file, perhaps one with such a name.                    *)
UserSaves == \E r \in Watched :
    /\ tree[r] <= MaxSaves
    /\ tree' = [tree EXCEPT ![r] = @ + 1]
    /\ \/ odd' = odd \cup {r}
       \/ odd' = odd
    /\ UNCHANGED <<known, current, health, thread, stopping, failures>>

ThreadStep == Start \/ Wake \/ RoundDone \/ (\E r \in Watched : Scan(r)) \/ Reingest \/ Fail \/ Record
Next == ThreadStep \/ Stop \/ UserSaves

-----------------------------------------------------------------------------

(* A repository that would be skipped as unchanged is in the graph as it   *)
(* is: an edit while it is re-ingested is seen in the next round.          *)
NothingSkipped ==
    \A r \in Watched : known[r] = tree[r] => current[r] = tree[r]
(* What the thread follows it ends up with, unless it was told to stop or  *)
(* a file name ended it.                                                   *)
Followed ==
    \/ thread.at \in {"dead", "ended"}
    \/ \A r \in Watched : current[r] = tree[r] /\ health[r] = "ok"
=============================================================================
