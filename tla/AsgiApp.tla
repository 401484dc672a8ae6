------------------------------- MODULE AsgiApp -------------------------------
(***************************************************************************)
(* The ASGI application of make_asgi_app (probirka/_ext/asgi.py) and the   *)
(* rendering it shares with the framework adapters (_ext/_common.py);      *)
(* these return a response as a whole, and the framework sends it.         *)
(*                                                                         *)
(* The server calls the application once per connection; the calls run     *)
(* concurrently and share nothing but the Probirka.  A run is represented  *)
(* by its outcome (module Probirka): it returns a result, raises, or never *)
(* returns.  receive() and send() are awaits; send() may raise when the    *)
(* client is gone, and the server may cancel the call at any await.        *)
(***************************************************************************)
EXTENDS Integers, Sequences

CONSTANTS
    Connections,
    None,
    Apps,           \* arguments of make_asgi_app that are explored
    Lengths,        \* lengths of a rendered result
    MaxReceived     \* bound: messages received over a lifespan connection

Methods == {"GET", "HEAD", "POST"}      \* one the application does not serve
Allowed == {"GET", "HEAD"}
Frameworks == {"aiohttp", "django", "fastapi"}

ASSUME AsgiAssumption ==
    /\ Apps \subseteq [return_results : BOOLEAN, success_code : Nat, error_code : Nat]
    /\ Lengths \subseteq Nat \ {0}
    /\ None \notin Nat \cup {"http", "lifespan", "application/json"} \cup Frameworks
    /\ None \notin [ok : BOOLEAN, length : Nat]
    /\ MaxReceived \in Nat

VARIABLES
    app,        \* self: the arguments of make_asgi_app
    conn        \* the calls of the application

asgiVars == <<app, conn>>

ConnState == {"idle", "running", "starting", "finishing", "receiving", "answering",
              "closed", "raised", "cancelled"}

NewConn(st, scope, method) ==
    [st |-> st, scope |-> scope, method |-> method, result |-> None,
     status |-> None, body |-> None, received |-> <<>>, sent |-> <<>>]

AsgiInit ==
    /\ app \in Apps
    /\ conn = [k \in Connections |-> NewConn("idle", None, None)]

Becomes(k, st) == conn' = [conn EXCEPT ![k].st = st] /\ UNCHANGED app

-----------------------------------------------------------------------------
(* __call__ up to its first await.                                         *)
Call(k, scope, method) ==
    /\ conn[k].st = "idle"
    /\ conn' = [conn EXCEPT ![k] =
          CASE scope = "lifespan" -> NewConn("receiving", scope, None)
            [] scope = "websocket" -> NewConn("raised", scope, None)
            [] scope = "http" /\ method \notin Allowed ->
                  [NewConn("starting", scope, method) EXCEPT !.status = 405]
            [] OTHER -> NewConn("running", scope, method)]
    /\ UNCHANGED app

(* Faulty variant: the codes are swapped for a result without a body.      *)
RenderSwapped(ok, length) ==
    [status |-> IF ok /\ app.return_results THEN app.success_code ELSE app.error_code,
     body   |-> IF app.return_results THEN length ELSE None]

(* run_and_render: the status code, and the body unless it is not wanted.  *)
(* A body is represented by its length.                                    *)
Render(ok, length) ==
    [status |-> IF ok THEN app.success_code ELSE app.error_code,
     body   |-> IF app.return_results THEN length ELSE None]

RunReturns(k, ok, length) ==
    LET rendered == Render(ok, length) IN
    /\ conn[k].st = "running" /\ conn[k].scope = "http"
    /\ conn' = [conn EXCEPT ![k].st = "starting",
                            ![k].result = [ok |-> ok, length |-> length],
                            ![k].status = rendered.status,
                            ![k].body = rendered.body]
    /\ UNCHANGED app

-----------------------------------------------------------------------------
(* What stands in the content-type header when the adapter gives none: the *)
(* default of each framework for an empty response; none at all otherwise. *)
DefaultType(adapter) ==
    CASE adapter = "aiohttp" -> "text/plain"
      [] adapter = "django"  -> "text/html"
      [] OTHER               -> None

(* A body is always sent as JSON.                                          *)
ContentType(scope, body) ==
    IF body = None THEN DefaultType(scope) ELSE "application/json"

(* _send_response: two messages, with an await between them.               *)
Sends(k, st, message) ==
    /\ conn' = [conn EXCEPT ![k].st = st, ![k].sent = Append(@, message)]
    /\ UNCHANGED app

(* Faulty variant: the length is the one of the body that is sent.         *)
SendStartOfContent(k) ==
    /\ conn[k].st = "starting"
    /\ Sends(k, "finishing",
             [type   |-> "http.response.start",
              status |-> conn[k].status,
              content_type |-> ContentType("http", conn[k].body),
              length |-> IF conn[k].body = None \/ conn[k].method = "HEAD"
                         THEN 0 ELSE conn[k].body,
              allow  |-> conn[k].status = 405])

SendStart(k) ==
    /\ conn[k].st = "starting"
    /\ Sends(k, "finishing",
             [type   |-> "http.response.start",
              status |-> conn[k].status,
              content_type |-> ContentType("http", conn[k].body),
              length |-> IF conn[k].body = None THEN 0 ELSE conn[k].body,
              allow  |-> conn[k].status = 405])

SendBody(k) ==
    /\ conn[k].st = "finishing"
    /\ Sends(k, "closed",
             [type   |-> "http.response.body",
              length |-> IF conn[k].body # None /\ conn[k].method # "HEAD"
                         THEN conn[k].body ELSE 0])

-----------------------------------------------------------------------------
(* Faulty variant: the response is made without naming its content type.   *)
ResponseUntyped(framework, status, body) ==
    [type |-> "response", status |-> status,
     content_type |-> DefaultType(framework),
     length |-> IF body = None THEN 0 ELSE body, allow |-> status = 405]

(* A framework adapter: of its own accord only the Django view refuses a   *)
(* method; for the others that is up to the routes of the application.     *)
Response(framework, status, body) ==
    [type |-> "response", status |-> status,
     content_type |-> ContentType(framework, body),
     length |-> IF body = None THEN 0 ELSE body, allow |-> status = 405]

CallView(k, framework, method) ==
    /\ conn[k].st = "idle"
    /\ conn' = [conn EXCEPT ![k] =
          IF framework = "django" /\ method \notin Allowed
          THEN [NewConn("closed", framework, method) EXCEPT !.sent = <<Response(framework, 405, None)>>]
          ELSE NewConn("running", framework, method)]
    /\ UNCHANGED app

ViewReturns(k, ok, length) ==
    LET rendered == Render(ok, length) IN
    /\ conn[k].st = "running" /\ conn[k].scope \in Frameworks
    /\ conn' = [conn EXCEPT ![k].st = "closed",
                            ![k].result = [ok |-> ok, length |-> length],
                            ![k].sent = <<Response(conn[k].scope,
                                                   rendered.status, rendered.body)>>]
    /\ UNCHANGED app

-----------------------------------------------------------------------------
(* _handle_lifespan: other messages are passed over.                       *)
Receive(k, message) ==
    /\ conn[k].st = "receiving"
    /\ Len(conn[k].received) < MaxReceived
    /\ conn' = [conn EXCEPT ![k].st = IF message = "other" THEN "receiving" ELSE "answering",
                            ![k].received = Append(@, message)]
    /\ UNCHANGED app

(* Faulty variant: the application returns after its first answer.         *)
AcknowledgeOnce(k) ==
    LET message == conn[k].received[Len(conn[k].received)] IN
    /\ conn[k].st = "answering"
    /\ Sends(k, "closed", [type |-> message, complete |-> TRUE])

Acknowledge(k) ==
    LET message == conn[k].received[Len(conn[k].received)] IN
    /\ conn[k].st = "answering"
    /\ Sends(k, IF message = "lifespan.shutdown" THEN "closed" ELSE "receiving",
             [type |-> message, complete |-> TRUE])

-----------------------------------------------------------------------------
(* run(), receive() or send() raises; the server cancels the call.         *)
Suspended(k) ==
    conn[k].st \in {"running", "starting", "finishing", "receiving", "answering"}

Raises(k) == Suspended(k) /\ Becomes(k, "raised")

IsCancelled(k) == Suspended(k) /\ Becomes(k, "cancelled")

AsgiNext ==
    \E k \in Connections :
        \/ \E scope \in {"lifespan", "websocket"} : Call(k, scope, None)
        \/ \E method \in Methods : Call(k, "http", method)
        \/ \E method \in Methods, framework \in Frameworks : CallView(k, framework, method)
        \/ \E ok \in BOOLEAN, length \in Lengths :
              RunReturns(k, ok, length) \/ ViewReturns(k, ok, length)
        \/ SendStart(k) \/ SendBody(k)
        \/ \E message \in {"lifespan.startup", "lifespan.shutdown", "other"} :
              Receive(k, message)
        \/ Acknowledge(k)
        \/ Raises(k) \/ IsCancelled(k)

AsgiSpec == AsgiInit /\ [][AsgiNext]_asgiVars

-----------------------------------------------------------------------------
(* Properties.                                                             *)

(* An HTTP response is whole and in order: one start, then one body; the   *)
(* call returns exactly when both were sent; and a HEAD carries no content *)
(* but the headers that a GET with the same result would have carried.     *)
ResponsesAreWhole ==
    \A k \in Connections : conn[k].scope = "http" =>
        LET c == conn[k]
            full == IF app.return_results /\ c.result # None THEN c.result.length ELSE 0
        IN  /\ c.st = "closed" <=> Len(c.sent) = 2
            /\ Len(c.sent) <= 2
            /\ c.sent # <<>> =>
                  /\ c.sent[1].type = "http.response.start"
                  /\ c.sent[1].length = full
                  /\ c.sent[1].content_type = IF full = 0 THEN None ELSE "application/json"
            /\ Len(c.sent) = 2 =>
                  /\ c.sent[2].type = "http.response.body"
                  /\ c.sent[2].length = IF c.method = "HEAD" THEN 0 ELSE full

(* The status tells the outcome of the run, for both values of             *)
(* return_results; 405 with an allow header answers a method that is not   *)
(* served, and starts no run.                                              *)
StatusTellsTheOutcome ==
    \A k \in Connections : conn[k].scope = "http" /\ conn[k].sent # <<>> =>
        LET start == conn[k].sent[1] IN
        IF conn[k].method \in Allowed
        THEN /\ conn[k].result # None
             /\ start.status = IF conn[k].result.ok THEN app.success_code ELSE app.error_code
        ELSE conn[k].result = None /\ start.status = 405 /\ start.allow

(* All adapters made with the same arguments answer alike: requests whose  *)
(* runs had the same result get the same status and length, and a rendered *)
(* body has the same content type ("spelled the same way by every          *)
(* adapter", _ext/_common.py).  Responses without a body are not promised  *)
(* the same content type, and do not have it: see DefaultType.             *)
AdaptersAgree ==
    \A k, l \in Connections :
        conn[k].sent # <<>> /\ conn[l].sent # <<>>
        /\ conn[k].result # None /\ conn[k].result = conn[l].result =>
            LET mine == conn[k].sent[1]
                other == conn[l].sent[1]
            IN  /\ mine.status = other.status
                /\ mine.length = other.length
                /\ mine.allow = other.allow
                /\ mine.length > 0 => mine.content_type = other.content_type

(* The messages that ask for an answer; a recursive function rather than   *)
(* SelectSeq, which the proofs could not unfold.                           *)
Requests(received) ==
    LET upto[i \in 0..Len(received)] ==
            IF i = 0 THEN <<>>
            ELSE IF received[i] = "other" THEN upto[i - 1]
                 ELSE Append(upto[i - 1], received[i])
    IN  upto[Len(received)]

(* Startup and shutdown are acknowledged once each, in order and before    *)
(* anything else is received; only a shutdown ends the application.        *)
LifespanAcknowledged ==
    \A k \in Connections : conn[k].scope = "lifespan" =>
        LET c == conn[k]
            asked == Requests(c.received)
            answered == [i \in DOMAIN c.sent |-> c.sent[i].type]
        IN  /\ c.st \in {"receiving", "closed"} => answered = asked
            /\ c.st = "answering" => Append(answered, asked[Len(asked)]) = asked
            /\ c.st = "closed" <=> \E i \in DOMAIN c.sent : c.sent[i].type = "lifespan.shutdown"
=============================================================================
