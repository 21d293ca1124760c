------------------------------- MODULE Server -------------------------------
(***************************************************************************)
(* The query server over HTTP and over a pipe (mcp/server_http.py,         *)
(* http_guard.py, server_stdio.py, protocol.py).  The HTTP server has a    *)
(* thread for each connection; they share the rate counters and the issued *)
(* tokens.  The pipe is read line by line.  What the tools answer is in    *)
(* Tools.tla.                                                              *)
(***************************************************************************)
EXTENDS Naturals, Sequences, FiniteSets

CONSTANTS Connections,   \* the threads of the HTTP server
          PerMinute,     \* http_rate_limit_per_minute
          Tokens,        \* tokens it may give out, each once (strings)
          MaxCalls,      \* bound on the requests
          MaxLines,      \* bound on the lines of the pipe
          MaxClock       \* bound on the time, in half minutes

VARIABLES settings,   \* bind, credentials and lists, as the server was started
          issued,     \* the tokens it has given out
          conn,       \* each thread: its request, and where it is
          reply,      \* the status of the answer given last
          bucket,     \* caller -> its entries: the time of a request, and its number
          clock,
          admitted,   \* caller -> the entries of the requests let through
          overlap,    \* whether two threads counted for one caller at once
          pipe,       \* what the pipe's reader was sent and what it answered
          calls
serverVars == <<settings, issued, conn, reply, bucket, clock, admitted, overlap, pipe, calls>>

Settings == [bind : {"loopback", "address", "wildcard"}, token : BOOLEAN, secret : BOOLEAN,
             optIn : BOOLEAN, named : BOOLEAN]
(* Those that differ: a host is named where others can come in, and the    *)
(* opting in counts where there is no credential.                          *)
Distinct(s) == /\ s.named => s.bind # "loopback"
               /\ s.optIn => s.bind = "loopback" /\ ~s.token /\ ~s.secret
OverPipe == [bind |-> "none", token |-> FALSE, secret |-> FALSE, optIn |-> FALSE, named |-> FALSE]
(* startup_refusal: no address that others reach without a credential.     *)
StartupRefusal_Never(s) == FALSE
StartupRefusal(s) == s.bind # "loopback" /\ ~s.token /\ ~s.secret

(* expected_authorities, and the hosts the user named.                     *)
Authorities(s) == (IF s.bind = "wildcard" THEN {} ELSE {"own"}) \cup (IF s.named THEN {"named"} ELSE {})

(* The four checks, in their order; the first that fails gives the answer. *)
CheckHost(s, r) == r.host \in Authorities(s)
CheckOrigin(r) == r.origin \in {"none", "listed"}
CheckContentType(r) == r.json
CheckAuthorisation(s, given, r) ==
    IF r.bearer # "none" THEN (s.token /\ r.bearer = "configured") \/ r.bearer \in given
    ELSE ~s.token /\ ~s.secret /\ s.bind = "loopback" /\ s.optIn /\ r.peer = "local"
GuardRequest(s, given, r, auth, json) ==
    IF ~CheckHost(s, r) \/ ~CheckOrigin(r) THEN 403
    ELSE IF json /\ ~CheckContentType(r) THEN 415
    ELSE IF auth /\ ~CheckAuthorisation(s, given, r) THEN 401 ELSE 200

Headers == {[host |-> "own", origin |-> "none", json |-> TRUE], [host |-> "named", origin |-> "listed", json |-> TRUE],
            [host |-> "own", origin |-> "other", json |-> FALSE], [host |-> "elsewhere", origin |-> "none", json |-> TRUE],
            [host |-> "own", origin |-> "none", json |-> FALSE]}
Request(h, bearer, peer) == [host |-> h.host, origin |-> h.origin, json |-> h.json, bearer |-> bearer, peer |-> peer]
Bearers == {"none", "configured", "unknown"} \cup Tokens
Peers == {"local", "remote"}
Callers == Peers \X Bearers
Idle == [at |-> "idle", key |-> <<"local", "none">>, entry |-> <<0, 0>>, kept |-> {}]
(* From reading the clock to appending: inside _RateWindow.check.          *)
Counting(c) == conn[c].at \in {"count", "keep", "look", "append"}

(* enforce_schema: a number over the declared maximum, or over 1000 where  *)
(* none is declared, under the minimum, or no number; a text over the      *)
(* declared length or 4096.  A truth value passes for any number.          *)
Fallback == 3
Arguments == [declared : {"integer", "string"}, is : {"number", "text", "bool"}, size : 0..4,
              low : {0, 1}, high : {2, 9}]
Ceiling(a) == IF a.high = 9 THEN Fallback ELSE a.high
Enforced(a) ==
    CASE a.declared = "integer" /\ a.is = "bool"   -> TRUE
      [] a.declared = "integer" /\ a.is = "text"   -> FALSE
      [] a.declared = "integer" /\ a.is = "number" -> a.low <= a.size /\ a.size <= Ceiling(a)
      [] a.declared = "string" -> a.size <= Ceiling(a)
(* What a call comes to: a result, an error the tool reports, or an        *)
(* exception nobody catches.                                               *)
Called(a, known, tool) ==
    IF ~known \/ ~Enforced(a) THEN "error" ELSE tool

Init ==
    /\ \/ settings \in {s \in Settings : Distinct(s) /\ ~StartupRefusal(s)} /\ pipe = [read |-> <<>>, said |-> <<>>, open |-> FALSE]
       \/ settings = OverPipe /\ pipe = [read |-> <<>>, said |-> <<>>, open |-> TRUE]
    /\ issued = {} /\ conn = [c \in Connections |-> Idle] /\ reply = 0
    /\ bucket = [k \in Callers |-> {}] /\ admitted = [k \in Callers |-> {}]
    /\ clock = 1 /\ overlap = FALSE
    /\ calls = 0

-----------------------------------------------------------------------------

Answered(c, status) == conn' = [conn EXCEPT ![c] = Idle] /\ reply' = status

(* GET: only whether the server is there, under the same host and origin.  *)
Get(c) == \E h \in Headers, path \in {"healthz", "other"} :
    /\ conn[c].at = "idle" /\ calls < MaxCalls /\ calls' = calls + 1
    /\ LET status == GuardRequest(settings, issued, Request(h, "none", "local"), FALSE, FALSE)
       IN  Answered(c, IF status # 200 THEN status ELSE IF path = "healthz" THEN 200 ELSE 404)
    /\ UNCHANGED <<settings, issued, bucket, clock, admitted, overlap, pipe>>
(* POST /token: a token for the client secret.                             *)
PostToken(c) == \E h \in Headers, body \in {"large", "garbled", "wrong", "right"} :
    /\ conn[c].at = "idle" /\ calls < MaxCalls /\ calls' = calls + 1
    /\ LET status == GuardRequest(settings, issued, Request(h, "none", "local"), FALSE, TRUE)
           good == settings.secret /\ status = 200 /\ body = "right"
       IN  /\ IF good THEN \E t \in Tokens \ issued : issued' = issued \cup {t} ELSE UNCHANGED issued
           /\ Answered(c, IF ~settings.secret THEN 404 ELSE IF status # 200 THEN status
                          ELSE IF body \in {"large", "garbled"} THEN 400
                          ELSE IF body = "wrong" THEN 401 ELSE 200)
    /\ UNCHANGED <<settings, bucket, clock, admitted, overlap, pipe>>
(* POST /rpc: the guard, and then the rate counter of the caller, which    *)
(* begins by reading the clock.                                            *)
PostRpc(c) == \E h \in Headers, bearer \in Bearers :
  \E peer \in IF bearer = "none" THEN Peers ELSE {"local"} :
    /\ conn[c].at = "idle" /\ calls < MaxCalls /\ calls' = calls + 1
    /\ LET status == GuardRequest(settings, issued, Request(h, bearer, peer), TRUE, TRUE)
       IN  IF status # 200 THEN Answered(c, status) /\ UNCHANGED overlap
           ELSE /\ conn' = [conn EXCEPT ![c] = [at |-> "count", key |-> <<peer, bearer>>,
                                                entry |-> <<clock, calls + 1>>, kept |-> {}]]
                /\ overlap' = (overlap \/ \E d \in Connections \ {c} :
                                              Counting(d) /\ conn[d].key = <<peer, bearer>>)
                /\ UNCHANGED reply
    /\ UNCHANGED <<settings, issued, bucket, clock, admitted, pipe>>

(* _RateWindow.check: keep what is younger than a minute, look, append.    *)
(* The list of times is never looked at for its order.                     *)
Recent(entries, now) == {e \in entries : e[1] + 2 > now}
Filter(c) ==
    /\ conn[c].at = "count"
    /\ conn' = [conn EXCEPT ![c].at = "keep", ![c].kept = Recent(bucket[conn[c].key], conn[c].entry[1])]
    /\ UNCHANGED <<settings, issued, reply, bucket, clock, admitted, overlap, pipe, calls>>
Keep(c) ==
    /\ conn[c].at = "keep" /\ bucket' = [bucket EXCEPT ![conn[c].key] = conn[c].kept]
    /\ conn' = [conn EXCEPT ![c].at = "look", ![c].kept = {}]
    /\ UNCHANGED <<settings, issued, reply, clock, admitted, overlap, pipe, calls>>
Full_OneMore(entries) == Cardinality(entries) > PerMinute
Full(entries) == Cardinality(entries) >= PerMinute
CountIt(c) ==
    /\ conn[c].at = "look"
    /\ IF Full(bucket[conn[c].key]) THEN Answered(c, 429)
       ELSE conn' = [conn EXCEPT ![c].at = "append"] /\ UNCHANGED reply
    /\ UNCHANGED <<settings, issued, bucket, clock, admitted, overlap, pipe, calls>>
Admit(c) ==
    /\ conn[c].at = "append"
    /\ bucket' = [bucket EXCEPT ![conn[c].key] = @ \cup {conn[c].entry}]
    /\ admitted' = [admitted EXCEPT ![conn[c].key] = @ \cup {conn[c].entry}]
    /\ conn' = [conn EXCEPT ![c] = [Idle EXCEPT !.at = "dispatch"]]
    /\ UNCHANGED <<settings, issued, reply, clock, overlap, pipe, calls>>
(* The body, and the tool: an exception that is no DKGError ends the       *)
(* thread without an answer.                                               *)
Dispatch(c) == \E body \in {"large", "garbled", "answered", "crashes"} :
    /\ conn[c].at = "dispatch"
    /\ IF body = "crashes" THEN conn' = [conn EXCEPT ![c] = Idle] /\ UNCHANGED reply
       ELSE Answered(c, IF body = "large" THEN 413 ELSE IF body = "garbled" THEN 400 ELSE 200)
    /\ UNCHANGED <<settings, issued, bucket, clock, admitted, overlap, pipe, calls>>
Tick == /\ clock < MaxClock /\ clock' = clock + 1
        /\ UNCHANGED <<settings, issued, conn, reply, bucket, admitted, overlap, pipe, calls>>

(* serve_stdio: a reply to each line that is not blank, with its id, and   *)
(* none for its id when the line is no request.  An exception ends it.     *)
Reply(line) ==
    CASE line.kind = "blank"   -> <<>>
      [] line.kind = "garbled" -> <<<<0, "error">>>>
      [] line.kind = "lists"   -> <<<<line.id, "result">>>>
      [] line.kind = "call"    -> <<<<line.id, line.outcome>>>>
ReadLine == \E kind \in {"blank", "garbled", "lists", "call"}, known \in BOOLEAN,
               tool \in {"result", "error", "raises"}, a \in Arguments :
    /\ pipe.open /\ Len(pipe.read) < MaxLines
    /\ LET line == [id |-> Len(pipe.read) + 1, kind |-> kind,
                    outcome |-> IF kind = "call" THEN Called(a, known, tool) ELSE "result"]
           dies == kind = "call" /\ line.outcome = "raises"
       IN  pipe' = [read |-> Append(pipe.read, line), open |-> ~dies,
                    said |-> IF dies THEN pipe.said ELSE pipe.said \o Reply(line)]
    /\ UNCHANGED <<settings, issued, conn, reply, bucket, clock, admitted, overlap, calls>>

Next == (settings # OverPipe /\ \E c \in Connections : \/ Get(c) \/ PostToken(c) \/ PostRpc(c) \/ Filter(c) \/ Keep(c)
                                \/ CountIt(c) \/ Admit(c) \/ Dispatch(c))
        \/ (settings # OverPipe /\ Tick) \/ ReadLine

-----------------------------------------------------------------------------

(* No caller is let through more often than PerMinute in a minute, as long *)
(* as no two of its requests are counted at once, from reading the clock   *)
(* on.  Two that are can lose each other's entry; and one that was         *)
(* overtaken after it read the clock finds entries gone that are younger   *)
(* than a minute for it.  (mcp/server_http.py:180-194.)                    *)
RateKept ==
    ~overlap => \A k \in Callers : \A e \in admitted[k] :
        Cardinality({d \in admitted[k] : d[1] <= e[1] /\ d[1] + 2 > e[1]}) <= PerMinute
(* A server that starts can be used: there is a request that its guard     *)
(* lets through, with a token once one was issued.  Not so a loopback      *)
(* server without any credential that was not opted in, and a wildcard     *)
(* bind without named hosts, which starts and refuses everybody.           *)
(* (mcp/http_guard.py, startup_refusal and guard_request.)                 *)
UsableWhenStarted ==
    \/ settings = OverPipe
    \/ settings.bind = "loopback" /\ ~settings.token /\ ~settings.secret /\ ~settings.optIn
    \/ settings.bind = "wildcard" /\ ~settings.named
    \/ settings.secret /\ ~settings.token /\ issued = {}
    \/ \E h \in Headers, bearer \in Bearers, peer \in Peers :
          GuardRequest(settings, issued, Request(h, bearer, peer), TRUE, TRUE) = 200
(* The pipe's answers are those of its lines, in their order, one for      *)
(* each that is not blank, up to an exception.                             *)
RepliesInOrder ==
    /\ Len(pipe.said) = Cardinality({i \in DOMAIN pipe.read :
                           pipe.read[i].kind # "blank" /\ pipe.read[i].outcome # "raises"})
    /\ \A i, j \in DOMAIN pipe.said : (i < j /\ pipe.said[i][1] # 0 /\ pipe.said[j][1] # 0)
                                       => pipe.said[i][1] < pipe.said[j][1]
    /\ \A i \in DOMAIN pipe.said : pipe.said[i][1] # 0 =>
          pipe.read[pipe.said[i][1]].outcome = pipe.said[i][2]
=============================================================================
