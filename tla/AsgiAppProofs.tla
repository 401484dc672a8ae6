---------------------------- MODULE AsgiAppProofs ----------------------------
(***************************************************************************)
(* Theorems about the ASGI application and the framework adapters, for any *)
(* number of concurrent connections, any arguments and any results.  The   *)
(* inductive invariant says of each call which messages it has sent and    *)
(* from what it has rendered them.                                         *)
(***************************************************************************)
EXTENDS AsgiApp, SequenceTheorems, WellFoundedInduction, TLAPS

Result == [ok : BOOLEAN, length : Lengths]

StatusOf(r) == IF r.ok THEN app.success_code ELSE app.error_code
BodyOf(r) == IF app.return_results THEN r.length ELSE None

Shown(body) == IF body = None THEN 0 ELSE body

MessageType == {"http.response.start", "http.response.body", "response",
                "lifespan.startup", "lifespan.shutdown", "other"}

ContentTypes == {None, "text/plain", "text/html", "application/json"}

(* The first message of a response, or a whole one; and the others.        *)
Headed == [type : MessageType, status : Nat, content_type : ContentTypes,
           length : Nat, allow : BOOLEAN]

Message == Headed \cup [type : MessageType, length : Nat] \cup [type : MessageType, complete : {TRUE}]

Scope == {"lifespan", "websocket", "http"} \cup Frameworks

Conn == [st : ConnState, scope : Scope \cup {None},
         method : Methods \cup {None}, result : Result \cup {None},
         status : Nat \cup {None}, body : Lengths \cup {None},
         received : Seq(MessageType), sent : Seq(Message)]

(* Where responses come from.                                              *)
Adapters == {"http"} \cup Frameworks

(* The message m tells the status and the body, as that adapter does.      *)
Tells(m, adapter, status, body) ==
    /\ m \in Headed
    /\ m.status = status
    /\ m.content_type = ContentType(adapter, body)
    /\ m.length = Shown(body)
    /\ m.allow <=> status = 405

(* What the application has rendered for a connection c.                   *)
Rendered(c) ==
    IF c.method \in Allowed
    THEN /\ c.result \in Result
         /\ c.status = StatusOf(c.result)
         /\ c.body = BodyOf(c.result)
    ELSE c.result = None /\ c.status = 405 /\ c.body = None

HttpInv(c) == c.scope = "http" =>
    /\ c.st \notin {"idle", "receiving", "answering"}
    /\ c.method \in Methods
    /\ c.st \in {"running", "starting"} => Len(c.sent) = 0
    /\ c.st = "running" => c.method \in Allowed /\ c.result = None
    /\ c.st = "finishing" => Len(c.sent) = 1
    /\ c.st = "closed" => Len(c.sent) = 2
    /\ c.st \in {"raised", "cancelled"} => Len(c.sent) \in {0, 1}
    /\ c.st = "starting" \/ Len(c.sent) > 0 => Rendered(c)
    /\ Len(c.sent) > 0 =>
          c.sent[1].type = "http.response.start" /\ Tells(c.sent[1], "http", c.status, c.body)
    /\ Len(c.sent) = 2 =>
          /\ c.sent[2].type = "http.response.body"
          /\ c.sent[2].length = IF c.method = "HEAD" THEN 0 ELSE Shown(c.body)

ViewInv(c) == c.scope \in Frameworks =>
    /\ c.st \in {"running", "closed", "raised", "cancelled"}
    /\ c.st # "closed" => Len(c.sent) = 0
    /\ Len(c.sent) > 0 /\ c.result # None =>
          /\ c.result \in Result
          /\ Tells(c.sent[1], c.scope, StatusOf(c.result), BodyOf(c.result))

(* The answers, and the requests, of a lifespan connection.                *)
Answered(c) == [i \in DOMAIN c.sent |-> c.sent[i].type]

Asks == {"lifespan.startup", "lifespan.shutdown"}

LifespanInv(c) == c.scope = "lifespan" =>
    /\ c.st \in {"receiving", "answering", "closed", "raised", "cancelled"}
    /\ c.st \in {"receiving", "closed"} => Answered(c) = Requests(c.received)
    /\ c.st = "answering" =>
          /\ Len(c.received) > 0 /\ c.received[Len(c.received)] \in Asks
          /\ Requests(c.received) = Append(Answered(c), c.received[Len(c.received)])
    /\ c.st = "closed" <=> \E i \in DOMAIN c.sent : c.sent[i].type = "lifespan.shutdown"

ConnInv(c) ==
    /\ c \in Conn
    /\ c.st \in {"starting", "finishing"} => c.scope = "http"
    /\ c.st \in {"receiving", "answering"} => c.scope = "lifespan"
    /\ HttpInv(c)
    /\ ViewInv(c)
    /\ LifespanInv(c)
    /\ c.scope \notin {"http"} \cup Frameworks => c.result = None

AsgiInv ==
    /\ app \in Apps
    /\ conn \in [Connections -> Conn]
    /\ \A k \in Connections : ConnInv(conn[k])

-----------------------------------------------------------------------------
(* Requests, a recursive function, leaves out the other messages: by       *)
(* induction on the number of messages, for which a least counterexample   *)
(* is taken.                                                               *)

(* Every nonempty set of naturals has a least element.                     *)
LEMMA LeastNatural ==
  ASSUME NEW T, T \subseteq Nat, T # {}
  PROVE  \E m \in T : \A k \in T : m <= k
  <1> DEFINE R == {ss \in Nat \X Nat : ss[1] < ss[2]}
  <1>1. IsWellFoundedOn(R, Nat)
    BY NatLessThanWellFounded DEF OpToRel
  <1> HIDE DEF R
  <1>2. PICK x \in T : \A y \in T : <<y, x>> \notin R
    BY <1>1, WFMin
  <1>3. \A y \in T : ~(y < x)
    BY <1>2 DEF R
  <1> QED
    BY <1>2, <1>3

(* f[i] holds the requests among the first i of the messages s.            *)
IsUpto(f, s, n) ==
    f = [i \in 0..n |-> IF i = 0 THEN <<>>
                        ELSE IF s[i] = "other" THEN f[i - 1] ELSE Append(f[i - 1], s[i])]

(* The function that Requests chooses exists.                              *)
LEMMA UptoExists ==
  ASSUME NEW s
  PROVE  \A n \in Nat : \E f : IsUpto(f, s, n)
  <1> DEFINE T == {n \in Nat : ~ \E f : IsUpto(f, s, n)}
  <1> SUFFICES ASSUME T # {} PROVE FALSE
    OBVIOUS
  <1>1. PICK n \in T : \A k \in T : n <= k
    BY LeastNatural
  <1>2. n \in Nat /\ ~ \E f : IsUpto(f, s, n)
    OBVIOUS
  <1>3. n # 0
    <2> DEFINE f == [i \in 0..0 |-> <<>>]
    <2>1. IsUpto(f, s, 0)
      BY DEF IsUpto
    <2> QED
      BY <1>2, <2>1
  <1>4. PICK f : IsUpto(f, s, n - 1)
    <2>1. n - 1 \in Nat /\ ~(n <= n - 1)
      BY <1>2, <1>3
    <2> QED
      BY <1>1, <2>1
  <1> DEFINE g == [i \in 0..n |->
                    IF i < n THEN f[i]
                    ELSE IF s[n] = "other" THEN f[n - 1] ELSE Append(f[n - 1], s[n])]
  <1>5. g = [i \in 0..n |-> IF i = 0 THEN <<>>
                        ELSE IF s[i] = "other" THEN g[i - 1] ELSE Append(g[i - 1], s[i])]
    <2>1. ASSUME NEW i \in 0..n
          PROVE  g[i] = IF i = 0 THEN <<>>
                        ELSE IF s[i] = "other" THEN g[i - 1] ELSE Append(g[i - 1], s[i])
      <3>1. CASE i = n
        <4>1. g[n - 1] = f[n - 1]
          BY <1>2, <1>3
        <4> QED
          BY <1>2, <1>3, <3>1, <4>1
      <3>2. CASE i # n
        <4>1. i \in 0..(n - 1) /\ i < n
          BY <1>2, <3>2
        <4>2. f[i] = IF i = 0 THEN <<>>
                     ELSE IF s[i] = "other" THEN f[i - 1] ELSE Append(f[i - 1], s[i])
          BY <1>4, <4>1 DEF IsUpto
        <4>3. g[i] = f[i] /\ (i # 0 => g[i - 1] = f[i - 1])
          BY <1>2, <4>1
        <4> HIDE DEF g
        <4> QED
          BY <4>2, <4>3
      <3> QED
        BY <3>1, <3>2
    <2>2. g = [i \in 0..n |-> g[i]]
      OBVIOUS
    <2> HIDE DEF g
    <2> QED
      BY <2>1, <2>2
  <1> HIDE DEF g
  <1> QED
    BY <1>2, <1>5 DEF IsUpto

(* It depends on the messages up to i only.                                *)
LEMMA UptoAgree ==
  ASSUME NEW s, NEW t, NEW f, NEW g, NEW m \in Nat, NEW n \in Nat,
         IsUpto(f, s, m), IsUpto(g, t, n),
         m <= n, \A i \in 1..m : s[i] = t[i]
  PROVE  \A i \in 0..m : f[i] = g[i]
  <1> DEFINE T == {i \in 0..m : f[i] # g[i]}
  <1> SUFFICES ASSUME T # {} PROVE FALSE
    OBVIOUS
  <1>1. PICK i \in T : \A j \in T : i <= j
    <2>1. T \subseteq Nat
      OBVIOUS
    <2> HIDE DEF T
    <2> QED
      BY <2>1, LeastNatural
  <1>2. i \in 0..m /\ i \in 0..n /\ f[i] # g[i]
    BY <1>1
  <1>3. /\ f[i] = IF i = 0 THEN <<>>
                  ELSE IF s[i] = "other" THEN f[i - 1] ELSE Append(f[i - 1], s[i])
        /\ g[i] = IF i = 0 THEN <<>>
                  ELSE IF t[i] = "other" THEN g[i - 1] ELSE Append(g[i - 1], t[i])
    BY <1>2 DEF IsUpto
  <1>4. i # 0
    BY <1>2, <1>3
  <1>5. i - 1 \in 0..m /\ ~(i <= i - 1) /\ i \in 1..m
    BY <1>2, <1>4
  <1>6. f[i - 1] = g[i - 1]
    BY <1>1, <1>5
  <1> QED
    BY <1>2, <1>3, <1>4, <1>5, <1>6

(* What Requests(s) is the last value of.                                  *)
LEMMA RequestsUpto ==
  ASSUME NEW S, NEW s \in Seq(S)
  PROVE  \E f : IsUpto(f, s, Len(s)) /\ Requests(s) = f[Len(s)]
  <1>1. Len(s) \in Nat
    BY LenProperties
  <1> DEFINE f == CHOOSE f : f = [i \in 0..Len(s) |->
                    IF i = 0 THEN <<>>
                    ELSE IF s[i] = "other" THEN f[i - 1] ELSE Append(f[i - 1], s[i])]
  <1>2. \E g : g = [i \in 0..Len(s) |->
                    IF i = 0 THEN <<>>
                    ELSE IF s[i] = "other" THEN g[i - 1] ELSE Append(g[i - 1], s[i])]
    BY <1>1, UptoExists, Zenon DEF IsUpto
  <1>3. f = [i \in 0..Len(s) |->
                    IF i = 0 THEN <<>>
                    ELSE IF s[i] = "other" THEN f[i - 1] ELSE Append(f[i - 1], s[i])]
    BY <1>2, Zenon
  <1>4. Requests(s) = f[Len(s)]
    BY Zenon DEF Requests
  <1> HIDE DEF f
  <1> QED
    BY <1>3, <1>4 DEF IsUpto

(* Nothing was asked.                                                      *)
LEMMA RequestsOfNone == Requests(<<>>) = <<>>
  <1>1. <<>> \in Seq({}) /\ Len(<<>>) = 0
    BY EmptySeq
  <1>2. PICK f : IsUpto(f, <<>>, 0) /\ Requests(<<>>) = f[0]
    BY <1>1, RequestsUpto
  <1> QED
    BY <1>2 DEF IsUpto

(* One more message is a request, or it is passed over.                    *)
LEMMA RequestsOfAppend ==
  ASSUME NEW S, NEW s \in Seq(S), NEW m \in S
  PROVE  Requests(Append(s, m)) = IF m = "other" THEN Requests(s) ELSE Append(Requests(s), m)
  <1>1. PICK t : t = Append(s, m)
    OBVIOUS
  <1>2. /\ t \in Seq(S) /\ Len(t) = Len(s) + 1 /\ Len(s) \in Nat
        /\ \A i \in 1..Len(s) : t[i] = s[i]
        /\ t[Len(s) + 1] = m
    BY <1>1, AppendProperties, LenProperties
  <1>3. PICK n \in Nat : n = Len(s)
    BY <1>2
  <1>4. PICK f : IsUpto(f, s, n) /\ Requests(s) = f[n]
    BY <1>3, RequestsUpto
  <1>5. PICK g : IsUpto(g, t, n + 1) /\ Requests(t) = g[n + 1]
    BY <1>2, <1>3, RequestsUpto
  <1>6. f[n] = g[n]
    <2>1. n + 1 \in Nat /\ n <= n + 1 /\ n \in 0..n
      OBVIOUS
    <2>2. \A i \in 1..n : s[i] = t[i]
      BY <1>2, <1>3
    <2>3. \A i \in 0..n : f[i] = g[i]
      <3>1. n \in Nat /\ IsUpto(f, s, n) /\ IsUpto(g, t, n + 1)
        BY <1>4, <1>5
      <3> QED
        BY ONLY <2>1, <2>2, <3>1, UptoAgree
    <2> QED
      BY <2>1, <2>3
  <1>7. g[n + 1] = IF t[n + 1] = "other" THEN g[n] ELSE Append(g[n], t[n + 1])
    <2>1. n + 1 \in 0..(n + 1) /\ n + 1 # 0 /\ (n + 1) - 1 = n
      OBVIOUS
    <2> QED
      BY <1>5, <2>1 DEF IsUpto
  <1> QED
    BY <1>1, <1>2, <1>3, <1>4, <1>5, <1>6, <1>7

-----------------------------------------------------------------------------
(* What is rendered has a status and, unless it is not wanted, a body.     *)
LEMMA RenderFacts ==
  ASSUME app \in Apps, NEW r \in Result
  PROVE  /\ StatusOf(r) \in Nat
         /\ BodyOf(r) \in Lengths \cup {None}
         /\ BodyOf(r) # None => BodyOf(r) \in Nat \ {0}
         /\ Render(r.ok, r.length) = [status |-> StatusOf(r), body |-> BodyOf(r)]
  BY AsgiAssumption DEF StatusOf, BodyOf, Result, Render

(* The content type of a response of each adapter.                         *)
LEMMA ContentTypeFacts ==
  ASSUME NEW adapter \in Adapters, NEW body \in Lengths \cup {None}
  PROVE  /\ ContentType(adapter, body) \in ContentTypes
         /\ ContentType("http", body) = IF body = None THEN None ELSE "application/json"
  <1>1. DefaultType(adapter) \in ContentTypes /\ DefaultType("http") = None
    BY DEF DefaultType, ContentTypes
  <1> QED
    BY <1>1 DEF ContentType, ContentTypes

(* A message with the headers of a response tells what it was made from.   *)
LEMMA HeadedTells ==
  ASSUME NEW type \in MessageType, NEW adapter \in Adapters, NEW status \in Nat,
         NEW body \in Lengths \cup {None}
  PROVE  \E m \in Headed :
            /\ m = [type |-> type, status |-> status,
                    content_type |-> ContentType(adapter, body),
                    length |-> IF body = None THEN 0 ELSE body, allow |-> status = 405]
            /\ m.type = type
            /\ Tells(m, adapter, status, body)
  <1>1. PICK j \in ContentTypes : j = ContentType(adapter, body)
    BY ContentTypeFacts
  <1>2. PICK a \in BOOLEAN : a = (status = 405)
    BY Zenon
  <1>3. PICK n : n = IF body = None THEN 0 ELSE body
    OBVIOUS
  <1>4. n \in Nat /\ n = Shown(body)
    BY <1>3, AsgiAssumption DEF Shown
  <1>5. PICK m : m = [type |-> type, status |-> status, content_type |-> j, length |-> n,
                      allow |-> a]
    OBVIOUS
  <1>6. m \in Headed
    BY <1>4, <1>5 DEF Headed
  <1>7. m.type = type /\ m.status = status /\ m.content_type = j /\ m.length = n /\ m.allow = a
    BY <1>5
  <1>8. Tells(m, adapter, status, body)
    BY <1>1, <1>2, <1>4, <1>6, <1>7, Zenon DEF Tells
  <1>9. m = [type |-> type, status |-> status, content_type |-> ContentType(adapter, body),
             length |-> IF body = None THEN 0 ELSE body, allow |-> status = 405]
    BY <1>1, <1>2, <1>3, <1>5, Zenon
  <1> QED
    BY <1>6, <1>7, <1>8, <1>9, Zenon

(* A step of connection k alone, to x.                                     *)
LEMMA ConnStep ==
  ASSUME AsgiInv, NEW k \in Connections, NEW x, ConnInv(x),
         conn' = [conn EXCEPT ![k] = x], UNCHANGED app
  PROVE  AsgiInv'
  <1>1. x \in Conn
    BY DEF ConnInv
  <1>2. /\ conn' \in [Connections -> Conn] /\ conn'[k] = x
        /\ \A l \in Connections : l # k => conn'[l] = conn[l]
    BY <1>1 DEF AsgiInv
  <1>3. ASSUME NEW l \in Connections PROVE ConnInv(conn[l])'
    <2>1. PICK y : y = conn'[l]
      OBVIOUS
    <2>2. ConnInv(y)
      BY <1>2, <2>1 DEF AsgiInv
    <2>3. \A r : StatusOf(r)' = StatusOf(r) /\ BodyOf(r)' = BodyOf(r)
      BY DEF StatusOf, BodyOf
    <2>4. HttpInv(y)' /\ ViewInv(y)' /\ LifespanInv(y)'
      BY <2>2, <2>3 DEF ConnInv, HttpInv, ViewInv, LifespanInv, Rendered
    <2>5. ConnInv(y)'
      BY <2>2, <2>4 DEF ConnInv
    <2> QED
      BY <2>1, <2>5 DEF ConnInv, HttpInv, ViewInv, LifespanInv, Answered, Rendered,
                        StatusOf, BodyOf
  <1> QED
    BY <1>2, <1>3 DEF AsgiInv

(* A connection that has just been taken up.                               *)
LEMMA NewConnFacts ==
  ASSUME NEW st \in ConnState,
         NEW scope \in Scope \cup {None},
         NEW method \in Methods \cup {None},
         NEW c, c = NewConn(st, scope, method)
  PROVE  /\ c \in Conn
         /\ c.st = st /\ c.scope = scope /\ c.method = method /\ c.result = None
         /\ c.status = None /\ c.body = None /\ c.sent = <<>> /\ Len(c.sent) = 0
  <1>1. <<>> \in Seq(MessageType) /\ <<>> \in Seq(Message) /\ Len(<<>>) = 0
    BY EmptySeq
  <1> QED
    BY <1>1 DEF NewConn, Conn

(* Before anything arrives every connection is new.                        *)
LEMMA InitAsgiInv == AsgiInit => AsgiInv
  <1> SUFFICES ASSUME AsgiInit PROVE AsgiInv
    OBVIOUS
  <1>0. PICK x : x = NewConn("idle", None, None)
    OBVIOUS
  <1>1. x \in Conn /\ x.scope = None /\ x.result = None
    <2>1. "idle" \in ConnState
      BY DEF ConnState
    <2>2. None \in Scope \cup {None} /\ None \in Methods \cup {None}
      OBVIOUS
    <2> QED
      BY ONLY <1>0, <2>1, <2>2, NewConnFacts
  <1>2. app \in Apps /\ conn = [k \in Connections |-> x]
    BY <1>0 DEF AsgiInit
  <1>3. conn \in [Connections -> Conn] /\ \A k \in Connections : conn[k] = x
    BY <1>1, <1>2
  <1>4. None \notin {"http", "lifespan"} \cup Frameworks /\ x.st = "idle"
    BY <1>0, AsgiAssumption DEF NewConn
  <1>5. ConnInv(x)
    BY <1>1, <1>4 DEF ConnInv, HttpInv, ViewInv, LifespanInv
  <1> QED
    BY <1>2, <1>3, <1>5 DEF AsgiInv

-----------------------------------------------------------------------------
(* Every step keeps the invariant.                                         *)

(* A connection is taken up, by the application or by a view.              *)
LEMMA TakenUp ==
  ASSUME AsgiInv, NEW k \in Connections, NEW st \in ConnState \ {"idle"},
         NEW scope \in Scope, NEW method \in Methods \cup {None},
         NEW c, c = NewConn(st, scope, method),
         scope = "http" => st = "running" /\ method \in Allowed,
         scope \in Frameworks => st = "running",
         scope = "lifespan" => st = "receiving",
         st = "receiving" => scope = "lifespan",
         st \notin {"starting", "finishing", "answering"},
         conn' = [conn EXCEPT ![k] = c], UNCHANGED app
  PROVE  AsgiInv'
  <1>1. /\ c \in Conn /\ c.st = st /\ c.scope = scope /\ c.method = method
        /\ c.result = None /\ Len(c.sent) = 0
    BY NewConnFacts
  <1>2. HttpInv(c)
    BY <1>1 DEF HttpInv, Allowed, Methods
  <1>3. ViewInv(c)
    BY <1>1 DEF ViewInv
  <1>4. LifespanInv(c)
    <2>1. c.received = <<>> /\ c.sent = <<>>
      BY DEF NewConn
    <2>2. Requests(c.received) = <<>> /\ Answered(c) = <<>> /\ DOMAIN c.sent = {}
      BY <2>1, RequestsOfNone, EmptySeq DEF Answered
    <2> QED
      BY <1>1, <2>2 DEF LifespanInv
  <1>5. ConnInv(c)
    BY <1>1, <1>2, <1>3, <1>4 DEF ConnInv
  <1> QED
    BY <1>5, ConnStep

(* A method that is not served gets a 405 without a body.                  *)
LEMMA CallRefused ==
  ASSUME AsgiInv, NEW k \in Connections, NEW method \in Methods \ Allowed,
         conn' = [conn EXCEPT ![k] = [NewConn("starting", "http", method) EXCEPT !.status = 405]],
         UNCHANGED app
  PROVE  AsgiInv'
  <1>1. PICK c : c = NewConn("starting", "http", method)
    OBVIOUS
  <1>2. "starting" \in ConnState /\ "http" \in Scope \cup {None} /\ "http" \notin Frameworks
    BY DEF ConnState, Scope, Frameworks
  <1>3. /\ c \in Conn /\ c.st = "starting" /\ c.scope = "http" /\ c.method = method
        /\ c.result = None /\ c.body = None /\ Len(c.sent) = 0
    BY <1>1, <1>2, NewConnFacts
  <1> DEFINE x == [c EXCEPT !.status = 405]
  <1>4. conn' = [conn EXCEPT ![k] = x]
    BY <1>1
  <1>5. /\ x \in Conn /\ x.st = "starting" /\ x.scope = "http" /\ x.method = method
        /\ x.result = None /\ x.body = None /\ Len(x.sent) = 0 /\ x.status = 405
    BY <1>3 DEF Conn
  <1> HIDE DEF x
  <1>6. HttpInv(x) /\ ViewInv(x) /\ LifespanInv(x)
    BY <1>2, <1>5 DEF HttpInv, ViewInv, LifespanInv, Rendered
  <1>7. ConnInv(x)
    BY <1>5, <1>6 DEF ConnInv
  <1> QED
    BY <1>4, <1>7, ConnStep

(* A connection is taken up, or turned down with a 405.                    *)
LEMMA CallInv ==
  ASSUME AsgiInv, NEW k \in Connections, NEW scope \in {"lifespan", "websocket", "http"},
         NEW method \in Methods \cup {None}, scope = "http" => method \in Methods,
         Call(k, scope, method)
  PROVE  AsgiInv'
  <1>1. UNCHANGED app /\ scope \in Scope /\ {"receiving", "raised", "running"} \subseteq ConnState
    BY DEF Call, Scope, ConnState
  <1>2. CASE scope = "lifespan"
    <2>1. PICK c : c = NewConn("receiving", scope, None)
      OBVIOUS
    <2>2. conn' = [conn EXCEPT ![k] = c]
      BY <1>2, <2>1 DEF Call
    <2>3. scope \notin Frameworks /\ scope # "http" /\ "receiving" \in ConnState \ {"idle"}
      BY <1>2 DEF Frameworks, ConnState
    <2>4. None \in Methods \cup {None}
      OBVIOUS
    <2> QED
      BY ONLY AsgiInv, k \in Connections, <1>1, <1>2, <2>1, <2>2, <2>3, <2>4, TakenUp
  <1>3. CASE scope = "websocket"
    <2>1. PICK c : c = NewConn("raised", scope, None)
      OBVIOUS
    <2>2. conn' = [conn EXCEPT ![k] = c]
      BY <1>3, <2>1 DEF Call
    <2>3. scope \notin Frameworks /\ scope # "http" /\ "raised" \in ConnState \ {"idle"}
      BY <1>3 DEF Frameworks, ConnState
    <2>4. None \in Methods \cup {None}
      OBVIOUS
    <2> QED
      BY ONLY AsgiInv, k \in Connections, <1>1, <1>3, <2>1, <2>2, <2>3, <2>4, TakenUp
  <1>4. CASE scope = "http" /\ method \notin Allowed
    <2>1. conn' = [conn EXCEPT ![k] = [NewConn("starting", "http", method) EXCEPT !.status = 405]]
      BY <1>4 DEF Call
    <2> QED
      BY <1>1, <1>4, <2>1, CallRefused
  <1>5. CASE scope = "http" /\ method \in Allowed
    <2>1. PICK c : c = NewConn("running", scope, method)
      OBVIOUS
    <2>2. conn' = [conn EXCEPT ![k] = c]
      BY <1>5, <2>1 DEF Call
    <2>3. scope \notin Frameworks /\ "running" \in ConnState \ {"idle"}
      BY <1>5 DEF Frameworks, ConnState
    <2> QED
      BY ONLY AsgiInv, k \in Connections, <1>1, <1>5, <2>1, <2>2, <2>3, TakenUp,
              method \in Methods \cup {None}
  <1> QED
    BY <1>2, <1>3, <1>4, <1>5

(* The result of the run becomes the status and the body of the answer.    *)
LEMMA RunReturnsInv ==
  ASSUME AsgiInv, NEW k \in Connections, NEW ok \in BOOLEAN, NEW length \in Lengths,
         RunReturns(k, ok, length)
  PROVE  AsgiInv'
  <1>0. PICK r : r = [ok |-> ok, length |-> length]
    OBVIOUS
  <1>1. r = [ok |-> ok, length |-> length] /\ r.ok = ok /\ r.length = length /\ r \in Result
    BY <1>0 DEF Result
  <1>2. PICK s : s = StatusOf(r)
    OBVIOUS
  <1>3. PICK b : b = BodyOf(r)
    OBVIOUS
  <1>4. app \in Apps
    BY DEF AsgiInv
  <1>5. /\ s \in Nat /\ b \in Lengths \cup {None}
        /\ Render(ok, length) = [status |-> s, body |-> b]
    BY <1>1, <1>2, <1>3, <1>4, RenderFacts
  <1>6. Render(ok, length).status = s /\ Render(ok, length).body = b
    BY <1>5
  <1> DEFINE x == [conn[k] EXCEPT !.st = "starting", !.result = r, !.status = s, !.body = b]
  <1>7. /\ conn' = [conn EXCEPT ![k] = x] /\ UNCHANGED app
        /\ conn[k].st = "running" /\ conn[k].scope = "http"
    BY <1>1, <1>6 DEF RunReturns
  <1>8. conn[k] \in Conn /\ HttpInv(conn[k])
    BY DEF AsgiInv, ConnInv
  <1>9. /\ x \in Conn /\ x.st = "starting" /\ x.result = r /\ x.status = s /\ x.body = b
        /\ x.scope = "http" /\ x.method = conn[k].method /\ x.sent = conn[k].sent
    BY <1>1, <1>5, <1>7, <1>8 DEF Conn, ConnState
  <1> HIDE DEF x
  <1>10. conn[k].method \in Allowed /\ conn[k].method \in Methods /\ Len(conn[k].sent) = 0
    BY <1>7, <1>8 DEF HttpInv
  <1>11. Rendered(x)
    BY <1>1, <1>2, <1>3, <1>9, <1>10 DEF Rendered
  <1>12. HttpInv(x)
    BY <1>9, <1>10, <1>11 DEF HttpInv
  <1>13. ViewInv(x) /\ LifespanInv(x)
    BY <1>9 DEF ViewInv, LifespanInv, Frameworks
  <1>14. ConnInv(x)
    BY <1>9, <1>12, <1>13 DEF ConnInv
  <1> QED
    BY <1>7, <1>14, ConnStep

(* What sending a message does to a connection.                            *)
LEMMA SendsFacts ==
  ASSUME AsgiInv, NEW k \in Connections, NEW st \in ConnState, NEW message \in Message,
         Sends(k, st, message)
  PROVE  \E x \in Conn :
            /\ conn' = [conn EXCEPT ![k] = x]
            /\ x.st = st /\ x.scope = conn[k].scope /\ x.method = conn[k].method
            /\ x.result = conn[k].result /\ x.status = conn[k].status /\ x.body = conn[k].body
            /\ x.received = conn[k].received
            /\ Len(conn[k].sent) \in Nat /\ Len(x.sent) = Len(conn[k].sent) + 1
            /\ \A i \in 1..Len(conn[k].sent) : x.sent[i] = conn[k].sent[i]
            /\ x.sent[Len(x.sent)] = message
  <1>1. conn[k] \in Conn
    BY DEF AsgiInv
  <1>2. PICK c : c = conn[k]
    OBVIOUS
  <1>3. PICK s : s = Append(c.sent, message)
    OBVIOUS
  <1>4. c.sent \in Seq(Message)
    BY <1>1, <1>2 DEF Conn
  <1>5. /\ s \in Seq(Message) /\ Len(s) = Len(c.sent) + 1 /\ Len(c.sent) \in Nat
        /\ \A i \in 1..Len(c.sent) : s[i] = c.sent[i]
        /\ s[Len(c.sent) + 1] = message
    BY <1>3, <1>4, AppendProperties, LenProperties
  <1> DEFINE x == [c EXCEPT !.st = st, !.sent = s]
  <1>6. conn' = [conn EXCEPT ![k] = x]
    BY <1>2, <1>3 DEF Sends
  <1>7. /\ x \in Conn /\ x.st = st /\ x.scope = c.scope /\ x.method = c.method
        /\ x.result = c.result /\ x.status = c.status /\ x.body = c.body
        /\ x.received = c.received /\ x.sent = s
    BY <1>1, <1>2, <1>5 DEF Conn
  <1> HIDE DEF x
  <1> QED
    BY <1>2, <1>5, <1>6, <1>7

(* The first message of an HTTP response.                                  *)
LEMMA SendStartInv ==
  ASSUME AsgiInv, NEW k \in Connections, SendStart(k)
  PROVE  AsgiInv'
  <1>1. PICK c : c = conn[k]
    OBVIOUS
  <1>2. /\ c \in Conn /\ c.st = "starting" /\ c.scope = "http" /\ HttpInv(c)
        /\ app \in Apps /\ UNCHANGED app
    BY <1>1 DEF SendStart, Sends, AsgiInv, ConnInv
  <1>3. Rendered(c) /\ Len(c.sent) = 0 /\ c.method \in Methods
    BY <1>2 DEF HttpInv
  <1>4. c.status \in Nat /\ c.body \in Lengths \cup {None}
    <2>1. c.body \in Lengths \cup {None}
      BY <1>2 DEF Conn
    <2>2. CASE c.method \in Allowed
      <3>1. PICK r \in Result : c.status = StatusOf(r)
        BY <1>3, <2>2 DEF Rendered
      <3> QED
        BY <1>2, <2>1, <3>1, RenderFacts
    <2>3. CASE c.method \notin Allowed
      BY <1>3, <2>1, <2>3 DEF Rendered
    <2> QED
      BY <2>2, <2>3
  <1>5. PICK m \in Headed :
          /\ m = [type |-> "http.response.start", status |-> c.status,
                  content_type |-> ContentType("http", c.body),
                  length |-> IF c.body = None THEN 0 ELSE c.body, allow |-> c.status = 405]
          /\ m.type = "http.response.start"
          /\ Tells(m, "http", c.status, c.body)
    <2>1. "http.response.start" \in MessageType /\ "http" \in Adapters
      BY DEF MessageType, Adapters
    <2> QED
      BY <1>4, <2>1, HeadedTells
  <1>6. Sends(k, "finishing", m)
    BY <1>1, <1>5, Zenon DEF SendStart
  <1>7. m \in Message /\ "finishing" \in ConnState
    BY DEF Message, ConnState
  <1>8. PICK x \in Conn :
          /\ conn' = [conn EXCEPT ![k] = x]
          /\ x.st = "finishing" /\ x.scope = c.scope /\ x.method = c.method
          /\ x.result = c.result /\ x.status = c.status /\ x.body = c.body
          /\ Len(c.sent) \in Nat /\ Len(x.sent) = Len(c.sent) + 1
          /\ x.sent[Len(x.sent)] = m
    BY <1>1, <1>6, <1>7, SendsFacts
  <1>9. Rendered(x) /\ x.scope = "http" /\ Len(x.sent) = 1 /\ x.sent[1] = m
    BY <1>2, <1>3, <1>8 DEF Rendered
  <1>10. HttpInv(x)
    BY <1>3, <1>5, <1>8, <1>9 DEF HttpInv
  <1>11. ViewInv(x) /\ LifespanInv(x)
    BY <1>9 DEF ViewInv, LifespanInv, Frameworks
  <1>12. ConnInv(x)
    BY <1>8, <1>9, <1>10, <1>11 DEF ConnInv
  <1> QED
    BY <1>2, <1>8, <1>12, ConnStep

(* The second one, and the last.                                           *)
LEMMA SendBodyInv ==
  ASSUME AsgiInv, NEW k \in Connections, SendBody(k)
  PROVE  AsgiInv'
  <1>1. PICK c : c = conn[k]
    OBVIOUS
  <1>2. /\ c \in Conn /\ c.st = "finishing" /\ c.scope = "http" /\ HttpInv(c)
        /\ app \in Apps /\ UNCHANGED app
    BY <1>1 DEF SendBody, Sends, AsgiInv, ConnInv
  <1>3. /\ Rendered(c) /\ Len(c.sent) = 1 /\ c.method \in Methods
        /\ c.sent[1].type = "http.response.start" /\ Tells(c.sent[1], "http", c.status, c.body)
    BY <1>2 DEF HttpInv
  <1>4. PICK n : n = IF c.body # None /\ c.method # "HEAD" THEN c.body ELSE 0
    OBVIOUS
  <1>5. n \in Nat /\ n = IF c.method = "HEAD" THEN 0 ELSE Shown(c.body)
    BY <1>2, <1>4, AsgiAssumption DEF Conn, Shown
  <1>6. PICK m : m = [type |-> "http.response.body", length |-> n]
    OBVIOUS
  <1>7. m \in Message /\ m.type = "http.response.body" /\ m.length = n
    BY <1>5, <1>6 DEF Message, MessageType
  <1>8. Sends(k, "closed", m) /\ "closed" \in ConnState
    BY <1>1, <1>4, <1>6 DEF SendBody, ConnState
  <1>9. PICK x \in Conn :
          /\ conn' = [conn EXCEPT ![k] = x]
          /\ x.st = "closed" /\ x.scope = c.scope /\ x.method = c.method
          /\ x.result = c.result /\ x.status = c.status /\ x.body = c.body
          /\ Len(x.sent) = Len(c.sent) + 1
          /\ \A i \in 1..Len(c.sent) : x.sent[i] = c.sent[i]
          /\ x.sent[Len(x.sent)] = m
    BY <1>1, <1>7, <1>8, SendsFacts
  <1>10. /\ Rendered(x) /\ x.scope = "http" /\ Len(x.sent) = 2
         /\ x.sent[1] = c.sent[1] /\ x.sent[2] = m
    BY <1>2, <1>3, <1>9 DEF Rendered
  <1>11. HttpInv(x)
    BY <1>3, <1>5, <1>7, <1>9, <1>10 DEF HttpInv
  <1>12. ViewInv(x) /\ LifespanInv(x)
    BY <1>10 DEF ViewInv, LifespanInv, Frameworks
  <1>13. ConnInv(x)
    BY <1>9, <1>10, <1>11, <1>12 DEF ConnInv
  <1> QED
    BY <1>2, <1>9, <1>13, ConnStep

(* A view of a framework returns its response as a whole.                  *)
LEMMA ResponseFacts ==
  ASSUME NEW framework \in Frameworks, NEW status \in Nat, NEW body \in Lengths \cup {None}
  PROVE  /\ Response(framework, status, body) \in Message
         /\ Tells(Response(framework, status, body), framework, status, body)
  <1>1. "response" \in MessageType /\ framework \in Adapters
    BY DEF MessageType, Adapters
  <1>2. PICK m \in Headed :
          /\ m = [type |-> "response", status |-> status,
                  content_type |-> ContentType(framework, body),
                  length |-> IF body = None THEN 0 ELSE body, allow |-> status = 405]
          /\ Tells(m, framework, status, body)
    BY <1>1, HeadedTells
  <1>3. m = Response(framework, status, body)
    BY <1>2, Zenon DEF Response
  <1> QED
    BY <1>2, <1>3 DEF Message

(* A sequence of one response.                                             *)
LEMMA SingleResponse ==
  ASSUME NEW m \in Message
  PROVE  <<m>> \in Seq(Message) /\ Len(<<m>>) = 1 /\ <<m>>[1] = m
  OBVIOUS

(* A framework calls its endpoint; the one of Django checks the method     *)
(* itself.                                                                 *)
LEMMA CallViewInv ==
  ASSUME AsgiInv, NEW k \in Connections, NEW framework \in Frameworks,
         NEW method \in Methods, CallView(k, framework, method)
  PROVE  AsgiInv'
  <1>1. /\ UNCHANGED app /\ framework \in Scope
        /\ framework \notin {"http", "lifespan"}
        /\ {"closed", "running"} \subseteq ConnState
    BY DEF CallView, Scope, Frameworks, ConnState
  <1>2. CASE framework = "django" /\ method \notin Allowed
    <2>1. PICK c : c = NewConn("closed", framework, method)
      OBVIOUS
    <2>2. PICK m : m = Response(framework, 405, None)
      OBVIOUS
    <2>3. m \in Message
      BY <2>2, ResponseFacts
    <2>4. PICK s : s = <<m>>
      OBVIOUS
    <2>5. s \in Seq(Message) /\ Len(s) = 1
      BY <2>3, <2>4, SingleResponse
    <2> DEFINE x == [c EXCEPT !.sent = s]
    <2>6. conn' = [conn EXCEPT ![k] = x]
      BY <1>2, <2>1, <2>2, <2>4 DEF CallView
    <2>7. c \in Conn /\ c.st = "closed" /\ c.scope = framework /\ c.result = None
      BY <1>1, <2>1, NewConnFacts
    <2>8. /\ x \in Conn /\ x.st = "closed" /\ x.scope = framework /\ x.result = None
          /\ x.sent = s
      BY <2>5, <2>7 DEF Conn
    <2> HIDE DEF x
    <2>9. ConnInv(x)
      BY <1>1, <2>8 DEF ConnInv, HttpInv, ViewInv, LifespanInv
    <2> QED
      BY <1>1, <2>6, <2>9, ConnStep
  <1>3. CASE ~(framework = "django" /\ method \notin Allowed)
    <2>1. PICK c : c = NewConn("running", framework, method)
      OBVIOUS
    <2>2. conn' = [conn EXCEPT ![k] = c]
      BY <1>3, <2>1 DEF CallView
    <2>3. "running" \in ConnState \ {"idle"} /\ method \in Methods \cup {None}
      BY <1>1
    <2> QED
      BY ONLY AsgiInv, k \in Connections, <1>1, <2>1, <2>2, <2>3, TakenUp
  <1> QED
    BY <1>2, <1>3

(* An endpoint hands its whole response to the framework at once.          *)
LEMMA ViewReturnsInv ==
  ASSUME AsgiInv, NEW k \in Connections, NEW ok \in BOOLEAN, NEW length \in Lengths,
         ViewReturns(k, ok, length)
  PROVE  AsgiInv'
  <1>0. PICK r : r = [ok |-> ok, length |-> length]
    OBVIOUS
  <1>1. r.ok = ok /\ r.length = length /\ r \in Result
    BY <1>0 DEF Result
  <1>2. PICK s : s = StatusOf(r)
    OBVIOUS
  <1>3. PICK b : b = BodyOf(r)
    OBVIOUS
  <1>4. app \in Apps
    BY DEF AsgiInv
  <1>5. /\ s \in Nat /\ b \in Lengths \cup {None}
        /\ Render(ok, length) = [status |-> s, body |-> b]
    BY <1>1, <1>2, <1>3, <1>4, RenderFacts
  <1>6. Render(ok, length).status = s /\ Render(ok, length).body = b
    BY <1>5
  <1>7. PICK m : m = Response(conn[k].scope, s, b)
    OBVIOUS
  <1>8. m \in Message /\ Tells(m, conn[k].scope, s, b)
    BY <1>5, <1>7, ResponseFacts DEF ViewReturns
  <1>9. PICK q : q = <<m>>
    OBVIOUS
  <1>10. q \in Seq(Message) /\ Len(q) = 1 /\ q[1] = m
    BY <1>8, <1>9, SingleResponse
  <1> DEFINE x == [conn[k] EXCEPT !.st = "closed", !.result = r, !.sent = q]
  <1>11. /\ conn' = [conn EXCEPT ![k] = x] /\ UNCHANGED app
         /\ conn[k].st = "running" /\ conn[k].scope \in Frameworks
    BY <1>0, <1>6, <1>7, <1>9 DEF ViewReturns
  <1>12. conn[k] \in Conn
    BY DEF AsgiInv
  <1>13. /\ x \in Conn /\ x.st = "closed" /\ x.result = r /\ x.sent = q
         /\ x.scope = conn[k].scope /\ x.scope \in Frameworks
    BY <1>1, <1>10, <1>11, <1>12 DEF Conn, ConnState
  <1> HIDE DEF x
  <1>14. ViewInv(x)
    BY <1>1, <1>2, <1>3, <1>8, <1>10, <1>13 DEF ViewInv
  <1>15. HttpInv(x) /\ LifespanInv(x) /\ x.scope # "http"
    BY <1>13 DEF HttpInv, LifespanInv, Frameworks
  <1>16. ConnInv(x)
    BY <1>13, <1>14, <1>15 DEF ConnInv
  <1> QED
    BY <1>11, <1>16, ConnStep

(* A connection that ends where it is suspended has sent what it has sent. *)
LEMMA EndsEarly ==
  ASSUME AsgiInv, NEW k \in Connections, Suspended(k),
         NEW st \in {"raised", "cancelled"}, Becomes(k, st)
  PROVE  AsgiInv'
  <1>1. PICK c : c = conn[k]
    OBVIOUS
  <1> DEFINE x == [c EXCEPT !.st = st]
  <1>2. conn' = [conn EXCEPT ![k] = x] /\ UNCHANGED app
    BY <1>1 DEF Becomes
  <1>3. ConnInv(c) /\ c \in Conn
        /\ c.st \in {"running", "starting", "finishing", "receiving", "answering"}
    BY <1>1 DEF AsgiInv, ConnInv, Suspended
  <1>4. /\ x \in Conn /\ x.st = st /\ x.scope = c.scope /\ x.method = c.method
        /\ x.result = c.result /\ x.status = c.status /\ x.body = c.body
        /\ x.received = c.received /\ x.sent = c.sent
    BY <1>3 DEF Conn, ConnState
  <1> HIDE DEF x
  <1>5. HttpInv(x)
    BY <1>3, <1>4 DEF ConnInv, HttpInv, Rendered
  <1>6. ViewInv(x)
    BY <1>3, <1>4 DEF ConnInv, ViewInv
  <1>7. LifespanInv(x)
    BY <1>3, <1>4 DEF ConnInv, LifespanInv
  <1>8. ConnInv(x)
    BY <1>3, <1>4, <1>5, <1>6, <1>7 DEF ConnInv
  <1> QED
    BY <1>2, <1>8, ConnStep

(* A message that asks for an answer is the last of the requests.          *)
LEMMA ReceiveInv ==
  ASSUME AsgiInv, NEW k \in Connections, NEW message \in Asks \cup {"other"},
         Receive(k, message)
  PROVE  AsgiInv'
  <1>1. PICK c : c = conn[k]
    OBVIOUS
  <1>2. PICK st : st = IF message = "other" THEN "receiving" ELSE "answering"
    OBVIOUS
  <1>3. PICK q : q = Append(c.received, message)
    OBVIOUS
  <1> DEFINE x == [c EXCEPT !.st = st, !.received = q]
  <1>4. conn' = [conn EXCEPT ![k] = x] /\ UNCHANGED app /\ c.st = "receiving"
    BY <1>1, <1>2, <1>3 DEF Receive
  <1>5. c \in Conn /\ c.scope = "lifespan" /\ c.received \in Seq(MessageType) /\ c.result = None
    BY <1>1, <1>4 DEF AsgiInv, ConnInv, Conn, Frameworks
  <1>6. message \in MessageType
    BY DEF MessageType, Asks
  <1>7. /\ q \in Seq(MessageType) /\ Len(q) = Len(c.received) + 1 /\ Len(c.received) \in Nat
        /\ q[Len(q)] = message
    BY <1>3, <1>5, <1>6, AppendProperties, LenProperties
  <1>8. Requests(q) = IF message = "other" THEN Requests(c.received)
                      ELSE Append(Requests(c.received), message)
    BY <1>3, <1>5, <1>6, RequestsOfAppend
  <1>9. /\ x \in Conn /\ x.st = st /\ x.scope = "lifespan" /\ x.result = None
        /\ x.received = q /\ x.sent = c.sent
    BY <1>2, <1>5, <1>7 DEF Conn, ConnState
  <1> HIDE DEF x
  <1>10. Answered(x) = Answered(c)
    BY <1>9 DEF Answered
  <1>11. LifespanInv(c)
    BY <1>1 DEF AsgiInv, ConnInv
  <1>12. /\ Answered(c) = Requests(c.received)
         /\ ~ \E i \in DOMAIN c.sent : c.sent[i].type = "lifespan.shutdown"
    BY <1>4, <1>5, <1>11 DEF LifespanInv
  <1>13. LifespanInv(x)
    <2>1. CASE message = "other"
      BY <1>2, <1>8, <1>9, <1>10, <1>12, <2>1 DEF LifespanInv
    <2>2. CASE message \in Asks /\ message # "other"
      BY <1>2, <1>7, <1>8, <1>9, <1>10, <1>12, <2>2 DEF LifespanInv
    <2> QED
      BY <2>1, <2>2 DEF Asks
  <1>14. HttpInv(x) /\ ViewInv(x)
    BY <1>9 DEF HttpInv, ViewInv, Frameworks
  <1>15. st \in {"receiving", "answering"}
    BY <1>2
  <1>16. ConnInv(x)
    BY <1>9, <1>13, <1>14, <1>15 DEF ConnInv
  <1> QED
    BY <1>4, <1>16, ConnStep

(* The answer to it is the last of the answers.                            *)
LEMMA AcknowledgeInv ==
  ASSUME AsgiInv, NEW k \in Connections, Acknowledge(k)
  PROVE  AsgiInv'
  <1>1. PICK c : c = conn[k]
    OBVIOUS
  <1>2. PICK ask : ask = c.received[Len(c.received)]
    OBVIOUS
  <1>3. PICK st : st = IF ask = "lifespan.shutdown" THEN "closed" ELSE "receiving"
    OBVIOUS
  <1>4. PICK m : m = [type |-> ask, complete |-> TRUE]
    OBVIOUS
  <1>5. Sends(k, st, m) /\ c.st = "answering"
    BY <1>1, <1>2, <1>3, <1>4, Zenon DEF Acknowledge
  <1>6. /\ c \in Conn /\ c.scope = "lifespan" /\ LifespanInv(c) /\ c.result = None
        /\ UNCHANGED app
    BY <1>1, <1>5 DEF AsgiInv, ConnInv, Sends, Frameworks
  <1>7. /\ ask \in Asks
        /\ Requests(c.received) = Append(Answered(c), ask)
        /\ ~ \E i \in DOMAIN c.sent : c.sent[i].type = "lifespan.shutdown"
    BY <1>2, <1>5, <1>6 DEF LifespanInv
  <1>8. m \in Message /\ m.type = ask /\ st \in ConnState
    BY <1>3, <1>4, <1>7 DEF Message, MessageType, Asks, ConnState
  <1>9. PICK x \in Conn :
          /\ conn' = [conn EXCEPT ![k] = x]
          /\ x.st = st /\ x.scope = c.scope /\ x.result = c.result
          /\ x.received = c.received
          /\ Len(c.sent) \in Nat /\ Len(x.sent) = Len(c.sent) + 1
          /\ \A i \in 1..Len(c.sent) : x.sent[i] = c.sent[i]
          /\ x.sent[Len(x.sent)] = m
    BY <1>1, <1>5, <1>8, SendsFacts
  <1>10. DOMAIN c.sent = 1..Len(c.sent) /\ DOMAIN x.sent = 1..(Len(c.sent) + 1)
    <2>1. c.sent \in Seq(Message) /\ x.sent \in Seq(Message)
      BY <1>6 DEF Conn
    <2> QED
      BY <1>9, <2>1, LenProperties
  <1>11. Answered(x) = Append(Answered(c), ask)
    <2>1. PICK a : a = Answered(c)
      OBVIOUS
    <2>2. a = [i \in 1..Len(c.sent) |-> c.sent[i].type]
      BY <1>10, <2>1 DEF Answered
    <2>3. \A i \in 1..Len(c.sent) : c.sent[i].type \in MessageType
      <3> SUFFICES ASSUME NEW i \in 1..Len(c.sent) PROVE c.sent[i].type \in MessageType
        OBVIOUS
      <3>1. c.sent[i] \in Message
        BY <1>6, ElementOfSeq DEF Conn
      <3> QED
        BY <3>1 DEF Message, Headed
    <2>4. a \in Seq(MessageType) /\ Len(a) = Len(c.sent)
      BY <1>9, <2>2, <2>3
    <2>5. PICK b : b = Append(a, ask)
      OBVIOUS
    <2>6. /\ b \in Seq(MessageType) /\ Len(b) = Len(c.sent) + 1
          /\ \A i \in 1..Len(c.sent) : b[i] = a[i]
          /\ b[Len(c.sent) + 1] = ask
      BY <1>7, <2>4, <2>5, AppendProperties DEF Asks, MessageType
    <2>7. DOMAIN b = 1..(Len(c.sent) + 1)
      BY <2>6, LenProperties
    <2>8. b = [i \in 1..(Len(c.sent) + 1) |-> b[i]]
      BY <2>6, <2>7, LenProperties
    <2>9. \A i \in 1..(Len(c.sent) + 1) : b[i] = x.sent[i].type
      <3> SUFFICES ASSUME NEW i \in 1..(Len(c.sent) + 1) PROVE b[i] = x.sent[i].type
        OBVIOUS
      <3>1. CASE i \in 1..Len(c.sent)
        <4>1. b[i] = a[i] /\ x.sent[i] = c.sent[i]
          BY <1>9, <2>6, <3>1
        <4>2. a[i] = c.sent[i].type
          BY <2>2, <3>1
        <4> QED
          BY <4>1, <4>2
      <3>2. CASE i = Len(c.sent) + 1
        <4>1. b[i] = ask /\ x.sent[i] = m
          BY <1>9, <2>6, <3>2
        <4> QED
          BY <1>8, <4>1
      <3> QED
        BY <1>9, <3>1, <3>2
    <2>10. Answered(x) = [i \in 1..(Len(c.sent) + 1) |-> x.sent[i].type]
      BY <1>10 DEF Answered
    <2> QED
      BY <2>1, <2>5, <2>8, <2>9, <2>10
  <1>12. st = "closed" <=> \E i \in DOMAIN x.sent : x.sent[i].type = "lifespan.shutdown"
    <2>1. \A i \in 1..Len(c.sent) : x.sent[i].type # "lifespan.shutdown"
      BY <1>7, <1>9, <1>10
    <2>2. x.sent[Len(c.sent) + 1].type = ask
      BY <1>8, <1>9
    <2>3. \A i \in 1..(Len(c.sent) + 1) : i \in 1..Len(c.sent) \/ i = Len(c.sent) + 1
      BY <1>9
    <2>4. st = "closed" <=> ask = "lifespan.shutdown"
      BY <1>3
    <2>5. Len(c.sent) + 1 \in 1..(Len(c.sent) + 1)
      BY <1>9
    <2> QED
      BY <1>10, <2>1, <2>2, <2>3, <2>4, <2>5
  <1>13. st \in {"receiving", "closed"}
    BY <1>3
  <1>14. LifespanInv(x)
    BY <1>7, <1>9, <1>11, <1>12, <1>13 DEF LifespanInv
  <1>15. HttpInv(x) /\ ViewInv(x) /\ x.scope = "lifespan"
    BY <1>6, <1>9 DEF HttpInv, ViewInv, Frameworks
  <1>16. ConnInv(x)
    BY <1>6, <1>9, <1>13, <1>14, <1>15 DEF ConnInv
  <1> QED
    BY <1>6, <1>9, <1>16, ConnStep

(* Every step keeps the invariant.                                         *)
LEMMA NextAsgiInv == AsgiInv /\ [AsgiNext]_asgiVars => AsgiInv'
  <1> SUFFICES ASSUME AsgiInv, [AsgiNext]_asgiVars PROVE AsgiInv'
    OBVIOUS
  <1>1. ASSUME NEW k \in Connections, NEW scope \in {"lifespan", "websocket"},
               Call(k, scope, None)
        PROVE  AsgiInv'
    <2>1. scope \in {"lifespan", "websocket", "http"} /\ scope # "http"
      OBVIOUS
    <2>2. None \in Methods \cup {None}
      OBVIOUS
    <2> QED
      BY ONLY AsgiInv, k \in Connections, <1>1, <2>1, <2>2, CallInv
  <1>2. ASSUME NEW k \in Connections, NEW method \in Methods, Call(k, "http", method)
        PROVE  AsgiInv'
    <2>1. "http" \in {"lifespan", "websocket", "http"} /\ method \in Methods \cup {None}
      OBVIOUS
    <2> QED
      BY ONLY AsgiInv, k \in Connections, method \in Methods, <1>2, <2>1, CallInv
  <1>3. ASSUME NEW k \in Connections,
               \/ \E method \in Methods, framework \in Frameworks :
                     CallView(k, framework, method)
               \/ \E ok \in BOOLEAN, length \in Lengths :
                     RunReturns(k, ok, length) \/ ViewReturns(k, ok, length)
        PROVE  AsgiInv'
    BY <1>3, CallViewInv, RunReturnsInv, ViewReturnsInv
  <1>4. ASSUME NEW k \in Connections,
               \/ SendStart(k) \/ SendBody(k)
               \/ \E message \in {"lifespan.startup", "lifespan.shutdown", "other"} :
                     Receive(k, message)
               \/ Acknowledge(k)
        PROVE  AsgiInv'
    <2>1. {"lifespan.startup", "lifespan.shutdown", "other"} = Asks \cup {"other"}
      BY DEF Asks
    <2> QED
      BY <1>4, <2>1, SendStartInv, SendBodyInv, ReceiveInv, AcknowledgeInv
  <1>5. ASSUME NEW k \in Connections, Raises(k) \/ IsCancelled(k)
        PROVE  AsgiInv'
    BY <1>5, EndsEarly DEF Raises, IsCancelled
  <1>6. CASE UNCHANGED asgiVars
    <2>1. UNCHANGED <<app, conn>>
      BY <1>6 DEF asgiVars
    <2> QED
      BY <2>1 DEF AsgiInv, ConnInv, HttpInv, ViewInv, LifespanInv, Answered, Rendered,
                  StatusOf, BodyOf
  <1> QED
    BY <1>1, <1>2, <1>3, <1>4, <1>5, <1>6 DEF AsgiNext

(* AsgiInv is an invariant of the connections.                             *)
THEOREM AsgiInvariant == AsgiSpec => []AsgiInv
  BY InitAsgiInv, NextAsgiInv, PTL DEF AsgiSpec

-----------------------------------------------------------------------------
(* What follows from the invariant.                                        *)

(* A result is not taken for the absence of one.                           *)
LEMMA NoneIsNoResult == \A r \in Result : r # None
  <1> SUFFICES ASSUME NEW r \in Result PROVE r \in [ok : BOOLEAN, length : Nat]
    BY AsgiAssumption, Zenon
  <1>1. Lengths \subseteq Nat
    BY AsgiAssumption
  <1> QED
    BY <1>1 DEF Result

(* The status that is sent tells the outcome, or that the method is not    *)
(* served.                                                                 *)
THEOREM StatusIsTold == AsgiSpec => []StatusTellsTheOutcome
  <1>1. AsgiInv => StatusTellsTheOutcome
    <2> SUFFICES ASSUME AsgiInv, NEW k \in Connections,
                        conn[k].scope = "http", conn[k].sent # <<>>
                 PROVE  IF conn[k].method \in Allowed
                        THEN /\ conn[k].result # None
                             /\ conn[k].sent[1].status =
                                  IF conn[k].result.ok THEN app.success_code ELSE app.error_code
                        ELSE /\ conn[k].result = None
                             /\ conn[k].sent[1].status = 405 /\ conn[k].sent[1].allow
      BY DEF StatusTellsTheOutcome
    <2>1. conn[k] \in Conn /\ HttpInv(conn[k])
      BY DEF AsgiInv, ConnInv
    <2>2. PICK c : c = conn[k]
      OBVIOUS
    <2>3. c.sent \in Seq(Message) /\ c.sent # <<>>
      BY <2>1, <2>2 DEF Conn
    <2>4. Len(c.sent) > 0
      BY <2>3, EmptySeq, LenProperties
    <2>5. Rendered(c) /\ Tells(c.sent[1], "http", c.status, c.body)
      BY <2>1, <2>2, <2>4 DEF HttpInv
    <2>6. CASE c.method \in Allowed
      <3>1. c.result \in Result /\ c.sent[1].status = StatusOf(c.result)
        BY <2>5, <2>6 DEF Rendered, Tells
      <3>2. c.result # None
        BY <3>1, NoneIsNoResult
      <3> QED
        BY <2>2, <2>6, <3>1, <3>2 DEF StatusOf
    <2>7. CASE c.method \notin Allowed
      <3>1. c.result = None /\ c.status = 405
        BY <2>5, <2>7 DEF Rendered
      <3>2. c.sent[1].status = c.status /\ (c.sent[1].allow <=> c.status = 405)
        BY <2>5, Zenon DEF Tells
      <3>3. c.sent[1].allow
        BY <3>1, <3>2, Zenon
      <3> QED
        BY <2>2, <2>7, <3>1, <3>2, <3>3, Zenon
    <2> QED
      BY <2>6, <2>7
  <1> QED
    BY <1>1, AsgiInvariant, PTL

(* A response is whole: its messages are one start, which tells the length *)
(* of the rendered result, and one body, which a HEAD request leaves out.  *)
THEOREM ResponsesComeWhole == AsgiSpec => []ResponsesAreWhole
  <1>1. AsgiInv => ResponsesAreWhole
    <2> SUFFICES ASSUME AsgiInv, NEW k \in Connections, conn[k].scope = "http",
                        NEW full,
                        full = IF app.return_results /\ conn[k].result # None
                               THEN conn[k].result.length ELSE 0
                 PROVE  /\ conn[k].st = "closed" <=> Len(conn[k].sent) = 2
                        /\ Len(conn[k].sent) <= 2
                        /\ conn[k].sent # <<>> =>
                              /\ conn[k].sent[1].type = "http.response.start"
                              /\ conn[k].sent[1].length = full
                              /\ conn[k].sent[1].content_type =
                                   IF full = 0 THEN None ELSE "application/json"
                        /\ Len(conn[k].sent) = 2 =>
                              /\ conn[k].sent[2].type = "http.response.body"
                              /\ conn[k].sent[2].length =
                                   IF conn[k].method = "HEAD" THEN 0 ELSE full
      BY Zenon DEF ResponsesAreWhole
    <2>1. conn[k] \in Conn /\ HttpInv(conn[k])
      BY DEF AsgiInv, ConnInv
    <2>2. PICK c : c = conn[k]
      OBVIOUS
    <2>3. c \in Conn /\ HttpInv(c) /\ c.scope = "http"
      BY <2>1, <2>2
    <2>4. c.sent \in Seq(Message) /\ c.st \in ConnState /\ Len(c.sent) \in Nat
      <3>1. c.sent \in Seq(Message) /\ c.st \in ConnState
        BY <2>3 DEF Conn
      <3> QED
        BY <3>1, LenProperties
    <2>5. c.st = "closed" <=> Len(c.sent) = 2
      BY <2>3, <2>4 DEF HttpInv, ConnState
    <2>6. Len(c.sent) <= 2
      <3>1. Len(c.sent) = 0 \/ Len(c.sent) = 1 \/ Len(c.sent) = 2
        <4>1. /\ c.st \in {"running", "starting"} => Len(c.sent) = 0
              /\ c.st = "finishing" => Len(c.sent) = 1
              /\ c.st = "closed" => Len(c.sent) = 2
              /\ c.st \in {"raised", "cancelled"} => Len(c.sent) \in {0, 1}
          BY <2>3 DEF HttpInv
        <4>2. c.st \in {"running", "starting", "finishing", "closed", "raised", "cancelled"}
          BY <2>3, <2>4 DEF HttpInv, ConnState
        <4> QED
          BY <4>1, <4>2
      <3>2. 0 <= 2 /\ 1 <= 2 /\ 2 <= 2
        OBVIOUS
      <3> QED
        BY <3>1, <3>2, Zenon
    <2>7. ASSUME Len(c.sent) > 0
          PROVE  /\ Shown(c.body) = full
                 /\ c.body # None <=> full # 0
      <3>1. Rendered(c)
        BY <2>3, <2>7 DEF HttpInv
      <3>2. CASE c.method \in Allowed
        <4>1. c.result \in Result /\ c.body = BodyOf(c.result)
          BY <3>1, <3>2 DEF Rendered
        <4>2. c.result # None
          BY <4>1, NoneIsNoResult
        <4>3. full = IF app.return_results THEN c.result.length ELSE 0
          BY <2>2, <4>2
        <4>4. c.result.length \in Nat \ {0} /\ c.result.length # None
          <5>1. c.result.length \in Lengths /\ Lengths \subseteq Nat \ {0}
            BY <4>1, AsgiAssumption DEF Result
          <5>2. None \notin Nat
            BY AsgiAssumption
          <5> QED
            BY <5>1, <5>2
        <4> QED
          BY <4>1, <4>3, <4>4 DEF BodyOf, Shown
      <3>3. CASE c.method \notin Allowed
        <4>1. c.result = None /\ c.body = None
          BY <3>1, <3>3 DEF Rendered
        <4> QED
          BY <2>2, <4>1 DEF Shown
      <3> QED
        BY <3>2, <3>3
    <2>8. ASSUME c.sent # <<>>
          PROVE  /\ c.sent[1].type = "http.response.start"
                 /\ c.sent[1].length = full
                 /\ c.sent[1].content_type = IF full = 0 THEN None ELSE "application/json"
      <3>1. Len(c.sent) > 0
        BY <2>4, <2>8, EmptySeq, LenProperties
      <3>2. c.sent[1].type = "http.response.start" /\ Tells(c.sent[1], "http", c.status, c.body)
        BY <2>3, <3>1 DEF HttpInv
      <3>3. PICK m \in Headed : m = c.sent[1]
        BY <3>2 DEF Tells
      <3>4. m.length = full
        BY <2>7, <3>1, <3>2, <3>3 DEF Tells
      <3>5. m.content_type = ContentType("http", c.body)
        BY <3>2, <3>3 DEF Tells
      <3>6. ContentType("http", c.body) = IF c.body = None THEN None ELSE "application/json"
        <4>1. "http" \in Adapters /\ c.body \in Lengths \cup {None}
          BY <2>3 DEF Adapters, Conn
        <4> QED
          BY <4>1, ContentTypeFacts
      <3>7. m.content_type = IF full = 0 THEN None ELSE "application/json"
        BY <2>7, <3>1, <3>5, <3>6
      <3> QED
        BY <3>2, <3>3, <3>4, <3>7, Zenon
    <2>9. ASSUME Len(c.sent) = 2
          PROVE  /\ c.sent[2].type = "http.response.body"
                 /\ c.sent[2].length = IF c.method = "HEAD" THEN 0 ELSE full
      <3>1. Len(c.sent) > 0
        BY <2>9
      <3> QED
        BY <2>3, <2>7, <2>9, <3>1 DEF HttpInv
    <2> QED
      BY <2>2, <2>5, <2>6, <2>8, <2>9, Zenon
  <1> QED
    BY <1>1, AsgiInvariant, PTL

(* A response made from a result tells what that result renders to, no     *)
(* matter who made it.                                                     *)
LEMMA TellsItsResult ==
  ASSUME AsgiInv, NEW k \in Connections, conn[k].sent # <<>>, conn[k].result # None
  PROVE  \E adapter \in Adapters :
            Tells(conn[k].sent[1], adapter, StatusOf(conn[k].result), BodyOf(conn[k].result))
  <1>1. ConnInv(conn[k])
    BY DEF AsgiInv
  <1>2. PICK c : c = conn[k]
    OBVIOUS
  <1>3. c \in Conn /\ HttpInv(c) /\ ViewInv(c)
    BY <1>1, <1>2 DEF ConnInv
  <1>4. c.sent \in Seq(Message) /\ c.sent # <<>>
    BY <1>2, <1>3 DEF Conn
  <1>5. Len(c.sent) > 0
    BY <1>4, EmptySeq, LenProperties
  <1>6. c.scope \in {"http"} \cup Frameworks
    BY <1>1, <1>2 DEF ConnInv
  <1>7. CASE c.scope = "http"
    <2>1. Rendered(c) /\ Tells(c.sent[1], "http", c.status, c.body)
      BY <1>3, <1>5, <1>7 DEF HttpInv
    <2>2. c.status = StatusOf(c.result) /\ c.body = BodyOf(c.result)
      BY <1>2, <2>1 DEF Rendered
    <2> QED
      BY <1>2, <2>1, <2>2 DEF Adapters
  <1>8. CASE c.scope \in Frameworks
    BY <1>2, <1>3, <1>5, <1>8 DEF ViewInv, Adapters
  <1> QED
    BY <1>6, <1>7, <1>8

(* The ASGI application and the framework adapters answer alike: status    *)
(* and length are determined by the result of the run, and so is the       *)
(* content type of a body.                                                 *)
THEOREM AdaptersAnswerAlike == AsgiSpec => []AdaptersAgree
  <1>1. AsgiInv => AdaptersAgree
    <2> SUFFICES ASSUME AsgiInv, NEW k \in Connections, NEW l \in Connections,
                        conn[k].sent # <<>>, conn[l].sent # <<>>,
                        conn[k].result # None, conn[k].result = conn[l].result
                 PROVE  /\ conn[k].sent[1].status = conn[l].sent[1].status
                        /\ conn[k].sent[1].length = conn[l].sent[1].length
                        /\ conn[k].sent[1].allow = conn[l].sent[1].allow
                        /\ conn[k].sent[1].length > 0 =>
                             conn[k].sent[1].content_type = conn[l].sent[1].content_type
      BY Zenon DEF AdaptersAgree
    <2>1. PICK status, body : /\ status = StatusOf(conn[k].result)
                              /\ body = BodyOf(conn[k].result)
      OBVIOUS
    <2>2. PICK mine \in Adapters : Tells(conn[k].sent[1], mine, status, body)
      BY <2>1, TellsItsResult
    <2>3. PICK other \in Adapters : Tells(conn[l].sent[1], other, status, body)
      BY <2>1, TellsItsResult
    <2>4. PICK m \in Headed, n \in Headed : m = conn[k].sent[1] /\ n = conn[l].sent[1]
      BY <2>2, <2>3 DEF Tells
    <2>5. Tells(m, mine, status, body) /\ Tells(n, other, status, body)
      BY <2>2, <2>3, <2>4
    <2>6. m.status = n.status /\ m.length = n.length /\ m.length = Shown(body)
      BY <2>5 DEF Tells
    <2>7. m.allow = n.allow
      <3>1. m.allow \in BOOLEAN /\ n.allow \in BOOLEAN
        BY <2>4 DEF Headed
      <3>2. m.allow <=> n.allow
        BY <2>5, Zenon DEF Tells
      <3> QED
        BY <3>1, <3>2
    <2>8. ASSUME m.length > 0 PROVE m.content_type = n.content_type
      <3>1. body # None
        BY <2>6, <2>8 DEF Shown
      <3>2. m.content_type = ContentType(mine, body) /\ n.content_type = ContentType(other, body)
        BY <2>5 DEF Tells
      <3> QED
        BY <3>1, <3>2 DEF ContentType
    <2> QED
      BY <2>4, <2>6, <2>7, <2>8
  <1> QED
    BY <1>1, AsgiInvariant, PTL

(* The lifespan protocol is kept: every request is answered once, in order *)
(* and before the next, and the application ends exactly after a shutdown. *)
THEOREM LifespanIsAcknowledged == AsgiSpec => []LifespanAcknowledged
  <1>1. AsgiInv => LifespanAcknowledged
    <2> SUFFICES ASSUME AsgiInv, NEW k \in Connections, NEW c, c = conn[k],
                        c.scope = "lifespan",
                        NEW asked, asked = Requests(c.received),
                        NEW answered, answered = [i \in DOMAIN c.sent |-> c.sent[i].type]
                 PROVE  /\ c.st \in {"receiving", "closed"} => answered = asked
                        /\ c.st = "answering" => Append(answered, asked[Len(asked)]) = asked
                        /\ c.st = "closed" <=>
                             \E i \in DOMAIN c.sent : c.sent[i].type = "lifespan.shutdown"
      BY Zenon DEF LifespanAcknowledged
    <2>1. c \in Conn /\ LifespanInv(c)
      BY DEF AsgiInv, ConnInv
    <2>2. answered = Answered(c)
      BY DEF Answered
    <2>3. c.st \in {"receiving", "closed"} => answered = asked
      BY <2>1, <2>2 DEF LifespanInv
    <2>4. ASSUME c.st = "answering"
          PROVE  Append(answered, asked[Len(asked)]) = asked
      <3>1. PICK ask \in Asks : asked = Append(answered, ask)
        BY <2>1, <2>2, <2>4 DEF LifespanInv
      <3>2. answered \in Seq(MessageType)
        <4>1. c.sent \in Seq(Message)
          BY <2>1 DEF Conn
        <4>2. DOMAIN c.sent = 1..Len(c.sent) /\ Len(c.sent) \in Nat
          BY <4>1, LenProperties
        <4>3. \A i \in 1..Len(c.sent) : c.sent[i].type \in MessageType
          <5> SUFFICES ASSUME NEW i \in 1..Len(c.sent) PROVE c.sent[i].type \in MessageType
            OBVIOUS
          <5>1. c.sent[i] \in Message
            BY <4>1, ElementOfSeq
          <5> QED
            BY <5>1 DEF Message, Headed
        <4> QED
          BY <4>2, <4>3
      <3>3. ask \in MessageType
        BY DEF Asks, MessageType
      <3>4. Len(asked) = Len(answered) + 1 /\ asked[Len(answered) + 1] = ask
        BY <3>1, <3>2, <3>3, AppendProperties
      <3> QED
        BY <3>1, <3>4
    <2>5. c.st = "closed" <=> \E i \in DOMAIN c.sent : c.sent[i].type = "lifespan.shutdown"
      BY <2>1 DEF LifespanInv
    <2> QED
      BY <2>3, <2>4, <2>5
  <1> QED
    BY <1>1, AsgiInvariant, PTL
=============================================================================
