------------------------------- MODULE Viewer -------------------------------
(***************************************************************************)
(* The loopback server of one generated viewer file (export/serve.py).  A  *)
(* single thread accepts and answers one connection after another until it *)
(* is told to stop or its request budget is used up; whoever started it    *)
(* stops it, waiting for the thread for a bounded time.  Time is counted   *)
(* in units a Tick takes.                                                  *)
(***************************************************************************)
EXTENDS Naturals, FiniteSets, FiniteSetsExt

CONSTANTS MaxRequests,      \* the request budget of the limits
          RequestTimeout,   \* how long a silent connection is held
          Polls, Slack,     \* the other two terms of the shutdown budget
          MaxConnects,      \* bound on the connections
          MaxStarts         \* bound on the starts

VARIABLES document,   \* the viewer file: a version of its content
          httpd,      \* the server object: [socket, payload, served]
          loop,       \* the serving thread: [at, peer, left]
          flag,       \* the stop event
          owner,      \* who started it: [at, left], and the count it reads afterwards
          sent,       \* what the clients of this start have got: [count, bodies, last]
          met         \* [starts, connects, slow]: bounds; whether a peer held the thread anew while stopping
viewerVars == <<document, httpd, loop, flag, owner, sent, met>>

-----------------------------------------------------------------------------

(* resolve_bind_host: literals and the names of loopback, in brackets or   *)
(* not; no other name is resolved.                                         *)
HostKinds == {"", "localhost", "127.0.0.1", "[::1]", "0.0.0.0", "lan", "name"}
ResolveBindHost(host) == CASE host \in {"localhost", "127.0.0.1"} -> "127.0.0.1"
                           [] host = "[::1]" -> "::1"
                           [] OTHER -> "refused"
ShutdownBudget_OfPolls == Polls + Slack
ShutdownBudget == Max({Polls, RequestTimeout}) + Slack

(* A peer: what it sends, and whether it is there to read the answer.      *)
(* "nothing" connects only; "half" sends a request line and no more, and   *)
(* "trickle" a byte of its headers now and then after it; "late" sends all *)
(* of its request when it has been waited for.                             *)
Plain == [sends |-> "request", verb |-> "GET", path |-> "viewer", host |-> "ours", size |-> "fine",
          stays |-> TRUE, reads |-> TRUE]
Peers == {Plain} \cup {[Plain EXCEPT !.sends = s] : s \in {"nothing", "half", "trickle", "late"}}
         \cup {[Plain EXCEPT !.sends = s, !.reads = FALSE] : s \in {"request", "late"}}
         \cup {[Plain EXCEPT !.verb = v] : v \in {"HEAD", "POST", "BREW"}}
         \cup {[Plain EXCEPT !.path = "other"], [Plain EXCEPT !.stays = FALSE]}
         \cup {[Plain EXCEPT !.host = h] : h \in {"absent", "localhost", "other"}}
         \cup {[Plain EXCEPT !.size = s] : s \in {"line", "headers", "unread", "body"}}

(* _over_limit: the caps, in the order they are looked at.                 *)
OverLimit(p) == CASE p.size = "line" -> 414 [] p.size = "headers" -> 431
                  [] p.size = "unread" -> 400 [] p.size = "body" -> 413 [] OTHER -> 0
Permitted(p) == p.host \in {"absent", "ours", "localhost"}
(* do_GET, do_HEAD and the refused methods; a verb without a handler is    *)
(* answered by the base class before anything is looked at.                *)
Code(p) == IF p.verb = "BREW" THEN 501
           ELSE IF OverLimit(p) # 0 THEN OverLimit(p)
           ELSE IF p.verb = "POST" THEN 405
           ELSE IF ~Permitted(p) THEN 421
           ELSE IF p.path = "viewer" THEN 200 ELSE 404
Body(p) == IF Code(p) = 200 /\ p.verb = "GET" THEN httpd.payload ELSE 0
(* The viewer's document is more than the socket takes from a peer that    *)
(* does not read: its write is waited for, as a request is.                *)
WriteWaits(p) == p.stays /\ ~p.reads /\ Body(p) # 0

(* handle_one_request: a request is counted after it was handled, when its *)
(* line has arrived, whoever answered it and also when nobody did; unless  *)
(* the peer is gone and the write raises.                                  *)
Counted_Dispatched(p) == p.sends = "request" /\ p.stays /\ p.verb # "BREW"
Counted(p) == p.sends \notin {"nothing", "late"} /\ p.stays

-----------------------------------------------------------------------------

Closed == [socket |-> "none", payload |-> 0, served |-> 0]
NoLoop == [at |-> "none", peer |-> Plain, left |-> 0]
Nothing == [count |-> 0, bodies |-> {}, last |-> 0]
Init == /\ document = 1 /\ httpd = Closed /\ loop = NoLoop /\ flag = FALSE
        /\ owner = [at |-> "idle", left |-> 0, count |-> 0]
        /\ sent = Nothing /\ met = [starts |-> 0, connects |-> 0, slow |-> FALSE]

Render == /\ document = 1 /\ document' = 2 /\ UNCHANGED <<httpd, loop, flag, owner, sent, met>>

(* start: the file is read once; a server that has been started is not     *)
(* started again, one that has been stopped may be (a start after a stop   *)
(* that raised, with the old thread still there, is left out).             *)
Start == \E host \in HostKinds :
    /\ met.starts < MaxStarts /\ owner.at \in {"idle", "stopped"}
    /\ ResolveBindHost(host) # "refused" /\ httpd.socket = "none"
    /\ loop.at \in {"none", "ended"}
    /\ httpd' = [socket |-> ResolveBindHost(host), payload |-> document, served |-> 0]
    /\ flag' = FALSE /\ sent' = Nothing
    /\ loop' = [NoLoop EXCEPT !.at = "poll"]
    /\ owner' = [owner EXCEPT !.at = "idle"]
    /\ met' = [met EXCEPT !.starts = @ + 1, !.slow = FALSE]
    /\ UNCHANGED document

(* _serve: the loop ends, or accepts the next connection.                  *)
LoopEnds == /\ loop.at = "poll" /\ (flag \/ httpd.served >= MaxRequests)
            /\ loop' = [loop EXCEPT !.at = "ended"]
            /\ UNCHANGED <<document, httpd, flag, owner, sent, met>>
Accept == \E p \in Peers :
    /\ loop.at = "poll" /\ ~flag /\ httpd.served < MaxRequests
    /\ met.connects < MaxConnects
    /\ loop' = [at |-> "held", peer |-> p, left |-> RequestTimeout]
    /\ met' = [met EXCEPT !.connects = @ + 1]
    /\ UNCHANGED <<document, httpd, flag, owner, sent>>

Finish(p) == /\ httpd' = [httpd EXCEPT !.served = IF Counted(p) THEN @ + 1 ELSE @]
             /\ loop' = [NoLoop EXCEPT !.at = "poll"]

Answer(p) == /\ Finish(p)
             /\ sent' = IF p.stays THEN [count |-> sent.count + 1, bodies |-> sent.bodies \cup {Body(p)}, last |-> Code(p)]
                        ELSE sent
Handle == /\ loop.at = "held" /\ loop.peer.sends = "request"
          /\ \/ ~WriteWaits(loop.peer) /\ Answer(loop.peer)
             \/ WriteWaits(loop.peer) /\ loop' = [loop EXCEPT !.at = "write", !.left = RequestTimeout]
                /\ UNCHANGED <<httpd, sent>>
          /\ UNCHANGED <<document, flag, owner, met>>

(* The socket timeout, of a read and then of the write: every byte that    *)
(* arrives starts the one of the reads anew.                               *)
TimedOut == /\ loop.at \in {"held", "write"} /\ loop.left = 0
            /\ Finish(loop.peer)
            /\ UNCHANGED <<document, flag, owner, sent, met>>
Trickle == /\ loop.at = "held" /\ loop.peer.sends = "trickle" /\ loop.left < RequestTimeout
           /\ loop' = [loop EXCEPT !.left = RequestTimeout]
           /\ met' = [met EXCEPT !.slow = @ \/ owner.at = "join"]
           /\ UNCHANGED <<document, httpd, flag, owner, sent>>

(* The late request arrives; what was not read is read after all.          *)
SendLate == /\ loop.at = "held" /\ loop.peer.sends = "late"
            /\ loop' = [loop EXCEPT !.peer.sends = "request"]
            /\ met' = [met EXCEPT !.slow = @ \/ (owner.at = "join" /\ ~loop.peer.reads)]
            /\ UNCHANGED <<document, httpd, flag, owner, sent>>
ReadLate == loop.at = "write" /\ Answer(loop.peer) /\ UNCHANGED <<document, flag, owner, met>>

Less(n) == IF n = 0 THEN 0 ELSE n - 1
Tick == /\ \/ loop.at \in {"held", "write"} /\ loop.left > 0
           \/ owner.at = "join" /\ owner.left > 0
        /\ ~(loop.at \in {"held", "write"} /\ loop.left = 0)
        /\ ~(owner.at = "join" /\ (owner.left = 0 \/ loop.at \in {"ended", "poll"}))
        /\ ~(loop.at = "held" /\ loop.peer.sends = "request")
        /\ loop' = [loop EXCEPT !.left = Less(@)]
        /\ owner' = [owner EXCEPT !.left = Less(@)]
        /\ UNCHANGED <<document, httpd, flag, sent, met>>

(* stop: the event is set, the thread joined, the socket closed whether    *)
(* the thread is gone or not.                                              *)
Stop == /\ owner.at = "idle" /\ httpd.socket # "none"
        /\ flag' = TRUE
        /\ owner' = [owner EXCEPT !.at = "join", !.left = ShutdownBudget]
        /\ UNCHANGED <<document, httpd, loop, sent, met>>
Join == /\ owner.at = "join" /\ (loop.at = "ended" \/ owner.left = 0)
        /\ owner' = [at |-> IF loop.at = "ended" THEN "stopped" ELSE "raised", left |-> 0, count |-> httpd.served]
        /\ httpd' = [httpd EXCEPT !.socket = "none"]
        /\ UNCHANGED <<document, loop, flag, sent, met>>

ThreadStep == LoopEnds \/ Handle \/ TimedOut
Next == Render \/ Start \/ Accept \/ ThreadStep \/ Trickle \/ SendLate \/ ReadLate \/ Tick \/ Stop \/ Join

-----------------------------------------------------------------------------

(* The budget holds for every answer a client has got, the refusals and    *)
(* those of the base class included, and connections that send nothing do  *)
(* not use it up; nothing but the file as it was at the start is ever sent, *)
(* and only on a loopback address (serve.py:8-26, 213-230).                *)
WithinBudget ==
    /\ sent.count <= MaxRequests
    /\ sent.bodies \subseteq {0, httpd.payload}
    /\ loop.at = "ended" /\ ~flag => httpd.served = MaxRequests
    /\ httpd.socket \in {"none", "127.0.0.1", "::1"}
(* A stop that returns has ended the thread and released the socket, and   *)
(* the count it leaves is of every request; it raises only when a peer     *)
(* went on sending while it was waited for, a byte now and then, or a      *)
(* request at last whose answer it did not read (serve.py:398-430).        *)
StopReleases ==
    /\ owner.at \in {"stopped", "raised"} => httpd.socket = "none"
    /\ owner.at = "stopped" => loop.at = "ended" /\ owner.count = httpd.served /\ sent.count <= owner.count
    /\ owner.at = "raised" => met.slow
=============================================================================
