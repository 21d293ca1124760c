----------------------------- MODULE CodeServer -----------------------------
(***************************************************************************)
(* One language server process and its client (code/lsp.py), as the        *)
(* resolution of references drives it (code/resolve.py).  The caller sends *)
(* a request and waits for the response of its id; a reader thread files   *)
(* whatever arrives.  The server is an external program: it answers in any *)
(* order, late, with an error or never, asks questions of its own, may die *)
(* and may stop reading, and then what is written to it stays in the pipe. *)
(* Writes have no time-out: one that finds no room waits for a reader.     *)
(* (That the two writers take turns under a lock is left out: what holds   *)
(* up the one holds up the other.)                                         *)
(***************************************************************************)
EXTENDS Naturals, FiniteSets

CONSTANTS Sites,       \* how many call sites are asked about
          MaxAsks      \* bound on the questions of the server

VARIABLES server,     \* the server process: "none", "runs", "deaf" (to its input) or "gone"
          reader,     \* the reader thread: "none", "reads", "replies" or "ended"
          open,       \* requests the server has read and not answered: id -> what was asked
          responses,  \* what the reader filed: id -> [ok, about]
          nextId,
          caller,     \* [at, rid, about]: the resolving thread
          pipeFull,   \* the pipe to a deaf server has no room for what is to be written
          resolved,   \* site -> the answer used for it
          asks        \* [asked, deaths]: bounds
clientVars == <<server, reader, open, responses, nextId, caller, pipeFull, resolved, asks>>

Empty == [i \in {} |-> 0]
Set(f, i, x) == [j \in DOMAIN f \cup {i} |-> IF j = i THEN x ELSE f[j]]
Drop(f, i) == [j \in DOMAIN f \ {i} |-> f[j]]

Waiting == {"initialize", "definition", "shutdown"}
Init == /\ server = "none" /\ reader = "none" /\ open = Empty /\ responses = Empty /\ nextId = 1
        /\ caller = [at |-> "idle", rid |-> 0, about |-> 0]
        /\ pipeFull = FALSE /\ resolved = Empty /\ asks = [asked |-> 0, deaths |-> 0]

-----------------------------------------------------------------------------

(* _send: a message goes through, or into what room is left in the pipe.   *)
(* One that finds none holds its writer where it is.                       *)
Room == ~(server = "deaf" /\ pipeFull)
Sent == Room /\ IF server = "deaf" THEN pipeFull' \in BOOLEAN ELSE UNCHANGED pipeFull
(* _request: the id is taken before the request is written, so one that    *)
(* cannot be written uses it up; a process that is gone breaks the pipe.   *)
Taken_Never(n) == n
Taken(n) == n + 1
Request(method, about, Fails) ==
    /\ nextId' = Taken(nextId) /\ Sent
    /\ IF server = "gone" THEN Fails /\ UNCHANGED open
       ELSE /\ open' = IF server = "deaf" THEN open ELSE Set(open, nextId, about)
            /\ caller' = [at |-> method, rid |-> nextId, about |-> about]

(* start: the process and its reader, then initialize.                     *)
Start == /\ caller.at = "idle"
         /\ server' = "runs" /\ reader' = "reads"
         /\ nextId' = Taken(nextId)
         /\ open' = Set(open, nextId, 0)
         /\ caller' = [at |-> "initialize", rid |-> nextId, about |-> 0]
         /\ UNCHANGED <<responses, pipeFull, resolved, asks>>

Answered == caller.rid \in DOMAIN responses
Result == responses[caller.rid]
(* What the caller waits for is popped; what comes after a timeout stays.  *)
Pop == responses' = Drop(responses, caller.rid)
Ready(at) == caller' = [caller EXCEPT !.at = at]

(* initialize: an error or a timeout kills the process that was started.   *)
FailStart == server' = "gone" /\ Ready("failed")
Initialized == /\ caller.at = "initialize" /\ Answered /\ Pop
               /\ IF ~Result.ok \/ server = "gone" THEN FailStart ELSE Ready("opening") /\ UNCHANGED server
               /\ UNCHANGED <<reader, open, nextId, pipeFull, resolved, asks>>
NotInitialized == /\ caller.at = "initialize" /\ ~Answered
                  /\ FailStart
                  /\ UNCHANGED <<reader, open, responses, nextId, pipeFull, resolved, asks>>

(* didOpen of every file, its whole text: a deaf server takes it only if   *)
(* it fits.  What cannot be opened, and any other failure, goes to stop.   *)
OpenDocuments == /\ caller.at = "opening" /\ Sent
                 /\ Ready(IF server = "gone" THEN "closing" ELSE "sites")
                 /\ UNCHANGED <<server, reader, open, responses, nextId, resolved, asks>>
FillsPipe == /\ caller.at = "opening" /\ server = "deaf" /\ ~pipeFull /\ pipeFull' = TRUE
             /\ UNCHANGED <<server, reader, open, responses, nextId, caller, resolved, asks>>

(* The call sites one after another: a question that cannot be sent, fails *)
(* or times out leaves its site as it was.                                 *)
Later(site) == IF site = Sites THEN [at |-> "closing", rid |-> 0, about |-> 0]
               ELSE [at |-> "sites", rid |-> 0, about |-> site]
AskDefinition == /\ caller.at = "sites"
                 /\ Request("definition", caller.about + 1, caller' = Later(caller.about + 1))
                 /\ UNCHANGED <<server, reader, responses, resolved, asks>>
Definition == /\ caller.at = "definition" /\ Answered /\ Pop
              /\ resolved' = IF Result.ok THEN Set(resolved, caller.about, Result.about) ELSE resolved
              /\ caller' = Later(caller.about)
              /\ UNCHANGED <<server, reader, open, nextId, pipeFull, asks>>
NoDefinition == /\ caller.at = "definition" /\ ~Answered
                /\ caller' = Later(caller.about)
                /\ UNCHANGED <<server, reader, open, responses, nextId, pipeFull, resolved, asks>>
(* An answer that is not made of locations ends the resolution.            *)
Abandon == /\ caller.at = "definition" /\ Answered /\ Result.ok /\ Pop
           /\ Ready("closing")
           /\ UNCHANGED <<server, reader, open, nextId, pipeFull, resolved, asks>>

(* stop: ask, tell, wait, kill; each step is suppressed when it fails, but *)
(* the first two are writes like any other.                                *)
Shutdown == /\ caller.at = "closing"
            /\ Request("shutdown", 0, Ready("exit"))
            /\ UNCHANGED <<server, reader, responses, resolved, asks>>
ShutDown == /\ caller.at = "shutdown"
            /\ IF Answered THEN Pop ELSE UNCHANGED responses
            /\ Ready("exit")
            /\ UNCHANGED <<server, reader, open, nextId, pipeFull, resolved, asks>>
Reap_Politely == IF server = "deaf" THEN server ELSE "gone"
Reap == "gone"
Exit == /\ caller.at = "exit" /\ Sent
        /\ server' = Reap /\ Ready("stopped")
        /\ UNCHANGED <<reader, open, responses, nextId, resolved, asks>>

-----------------------------------------------------------------------------

(* The reader files a response under its id, answers a question of the     *)
(* server with nothing and ends at the end of the stream; it takes the id  *)
(* of such a question for a number, and ends on one that is not.           *)
Respond == \E i \in DOMAIN open, ok \in BOOLEAN :
    /\ server \in {"runs", "deaf"} /\ reader # "replies"
    /\ open' = Drop(open, i)
    /\ responses' = IF reader = "reads" THEN Set(responses, i, [ok |-> ok, about |-> open[i]]) ELSE responses
    /\ UNCHANGED <<server, reader, nextId, caller, pipeFull, resolved, asks>>
ServerAsks == \E number \in BOOLEAN :
    /\ server \in {"runs", "deaf"} /\ asks.asked < MaxAsks /\ reader = "reads"
    /\ reader' = IF number THEN "replies" ELSE "ended"
    /\ asks' = [asks EXCEPT !.asked = @ + 1]
    /\ UNCHANGED <<server, open, responses, nextId, caller, pipeFull, resolved>>
Reply == /\ reader = "replies" /\ Sent
         /\ reader' = "reads"
         /\ UNCHANGED <<server, open, responses, nextId, caller, resolved, asks>>
GoesDeaf == /\ server = "runs" /\ asks.deaths = 0
            /\ server' = "deaf" /\ asks' = [asks EXCEPT !.deaths = 1]
            /\ UNCHANGED <<reader, open, responses, nextId, caller, pipeFull, resolved>>
Dies == /\ server \in {"runs", "deaf"} /\ asks.deaths < 2
        /\ server' = "gone" /\ open' = Empty /\ asks' = [asks EXCEPT !.deaths = 2]
        /\ UNCHANGED <<reader, responses, nextId, caller, pipeFull, resolved>>
EndOfStream == /\ server = "gone" /\ reader = "reads"
               /\ reader' = "ended"
               /\ UNCHANGED <<server, open, responses, nextId, caller, pipeFull, resolved, asks>>

CallerStep == \/ Start \/ Initialized \/ NotInitialized \/ OpenDocuments \/ FillsPipe \/ AskDefinition
              \/ Definition \/ NoDefinition \/ Abandon \/ Shutdown \/ ShutDown \/ Exit
Next == CallerStep \/ Respond \/ ServerAsks \/ Reply \/ GoesDeaf \/ Dies \/ EndOfStream

-----------------------------------------------------------------------------

(* An answer is used for the question it answers, whatever timed out       *)
(* before it and however late it came (lsp.py:224-236).                    *)
AnswersOwnQuestion == \A s \in DOMAIN resolved : resolved[s] = s
(* No server process is left when the resolution is over, started or not   *)
(* (lsp.py:5-6, 135-172).                                                  *)
NoServerLeft == caller.at \in {"failed", "stopped"} => server = "gone"
(* The resolution of a language ends, whatever the server does but one     *)
(* thing: if it lives and has stopped reading, the write that finds the    *)
(* pipe full holds the resolution for ever, its stop included              *)
(* (lsp.py:213-221; the requests that did get away time out, 234-238).     *)
HeldInWrite == ~Room /\ caller.at \in {"opening", "sites", "closing", "exit"}
ResolutionEnds == caller.at \in {"failed", "stopped"} \/ HeldInWrite
=============================================================================
