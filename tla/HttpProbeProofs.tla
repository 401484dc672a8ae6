--------------------------- MODULE HttpProbeProofs ---------------------------
(***************************************************************************)
(* Theorems about the check of an HTTP probe, for any policies, hosts,     *)
(* networks, resolvers and servers, and chains of redirects of any length. *)
(* The inductive invariant HttpInv adds to the properties what the locals  *)
(* of the check remember of the requests made so far.                      *)
(***************************************************************************)
EXTENDS HttpProbe, SequenceTheorems, TLAPS

Target == [url : ProbeUrls, method : Methods, headers : BOOLEAN,
           expected : {{200}, {200, 302}}]

Check == [st : CheckState, url : Url \cup {Malformed}, method : HttpMethods,
          headers : BOOLEAN, hops : Nat, status : Statuses \cup {None}]

HttpRequest == [url : Url, method : HttpMethods, headers : BOOLEAN,
                resolved : SUBSET Addresses]

Limit == IF policy.follow_redirects THEN policy.max_redirects ELSE 0

(* What the locals c of a check owe to the requests made so far.           *)
Carried(c) ==
    /\ c \in Check
    /\ c.hops = 0 => c.url = target.url
    /\ c.hops <= Limit
    /\ c.headers => /\ target.headers
                    /\ \A j \in DOMAIN sent : Origin(sent[j].url) = Origin(target.url)
    /\ c.method \in {target.method, "GET"}
    /\ target.method = "HEAD" => c.method = "HEAD"
    /\ \A j \in DOMAIN sent : sent[j].method = "GET" => c.method = "GET"

(* How many requests were made, and that the one to come was vetted.       *)
Stage ==
    /\ check.st = "idle" => check.hops = 0 /\ Len(sent) = 0
    /\ check.st = "resolving" => Len(sent) = check.hops /\ UrlAllowed(policy, check.url)
    /\ check.st = "requesting" => Len(sent) = check.hops + 1 /\ UrlAllowed(policy, check.url)

HttpInv ==
    /\ policy \in Policies
    /\ target \in Target
    /\ sent \in Seq(HttpRequest)
    /\ Carried(check)
    /\ Stage
    /\ Len(sent) <= Limit + 1
    /\ EveryRequestVetted
    /\ HeadersStayHome
    /\ MethodDegradesOnce

-----------------------------------------------------------------------------
(* Lemmas about the policy.                                                *)

(* check_url lets only well-formed URLs pass.                              *)
LEMMA AllowedIsUrl ==
  ASSUME NEW p, NEW url \in Url \cup {Malformed}, UrlAllowed(p, url)
  PROVE  url \in Url
  BY DEF UrlAllowed

(* A Location joined to the URL that answered is a URL, or unusable.       *)
LEMMA JoinType ==
  ASSUME NEW url \in Url, NEW location \in Locations, location # None
  PROVE  Join(url, location) \in Url \cup {Malformed}
  <1>1. CASE location = Malformed
    BY <1>1 DEF Join
  <1>2. CASE location # Malformed
    <2>1. location \in UrlReference
      BY <1>2, HttpProbeAssumption
    <2>2. CASE location.host = None /\ location.scheme \in {None, url.scheme}
      BY <1>2, <2>2 DEF Join
    <2>3. CASE ~(location.host = None /\ location.scheme \in {None, url.scheme})
      <3>1. Join(url, location)
              = [scheme |-> IF location.scheme = None THEN url.scheme ELSE location.scheme,
                 host |-> location.host, port |-> location.port]
        BY <1>2, <2>3 DEF Join
      <3> QED
        BY <2>1, <3>1 DEF Url, UrlReference
    <2> QED
      BY <2>2, <2>3
  <1> QED
    BY <1>1, <1>2

(* The constructor settles a policy whose limit is a number.               *)
LEMMA LimitIsNat ==
  ASSUME policy \in Policies
  PROVE  Limit \in Nat /\ Limit <= policy.max_redirects
  BY HttpProbeAssumption DEF Limit, IsPolicy

(* A redirect leaves the method, or makes it GET; never for HEAD.          *)
LEMMA RedirectMethodFacts ==
  ASSUME NEW status, NEW method \in HttpMethods
  PROVE  /\ RedirectMethod(status, method) \in {method, "GET"}
         /\ method = "HEAD" => RedirectMethod(status, method) = "HEAD"
         /\ method = "GET" => RedirectMethod(status, method) = "GET"
  BY DEF RedirectMethod, HttpMethods, Legacy

(* However a host is written, as a name, with other case or as a literal   *)
(* of the same address, the verdict of check_url is the same.              *)
THEOREM SpellingsAreJudgedAlike ==
  ASSUME NEW p, NEW url \in Url, NEW host \in Spellings,
         url.host # None, Normal[host] = Normal[url.host]
  PROVE  UrlAllowed(p, [url EXCEPT !.host = host]) <=> UrlAllowed(p, url)
  <1> DEFINE other == [url EXCEPT !.host = host]
  <1>1. /\ other \in Url /\ other.scheme = url.scheme /\ other.host = host
        /\ url.host \in Spellings /\ other # Malformed /\ url # Malformed /\ host # None
    BY HttpProbeAssumption, HttpPolicyAssumption DEF Url
  <1>2. Literal[host] = Literal[url.host]
    BY <1>1, HttpPolicyAssumption
  <1>3. HostAllowed(p, host) <=> HostAllowed(p, url.host)
    BY <1>1 DEF HostAllowed
  <1> HIDE DEF other
  <1> QED
    BY <1>1, <1>2, <1>3 DEF UrlAllowed, other

(* q forbids whatever p forbids: fewer schemes and hosts, more networks    *)
(* that are blocked, fewer that are exempt.                                *)
AsStrict(q, p) ==
    /\ q.allowed_schemes \subseteq p.allowed_schemes
    /\ p.allowed_hosts # None => q.allowed_hosts # None /\ q.allowed_hosts \subseteq p.allowed_hosts
    /\ p.block_private_networks => q.block_private_networks
    /\ p.blocked_networks \subseteq q.blocked_networks
    /\ q.allowed_networks \subseteq p.allowed_networks

(* A policy that is tightened lets no URL pass, and no address that a name *)
(* resolves to, which it stopped before, although exempt networks win over *)
(* blocked ones; and it looks up every name that was looked up before.     *)
THEOREM TighterPolicyAllowsLess ==
  ASSUME NEW p, NEW q, AsStrict(q, p)
  PROVE  /\ \A url : UrlAllowed(q, url) => UrlAllowed(p, url)
         /\ \A a : Blocked(p, a) => Blocked(q, a)
         /\ \A url : MustResolve(p, url) => MustResolve(q, url)
  <1>1. \A a : Blocked(p, a) => Blocked(q, a)
    BY DEF AsStrict, Blocked
  <1>2. ASSUME p.allowed_hosts # None, NEW host, HostAllowed(q, host) PROVE HostAllowed(p, host)
    BY <1>2 DEF AsStrict, HostAllowed
  <1>3. ASSUME NEW url, UrlAllowed(q, url) PROVE UrlAllowed(p, url)
    BY <1>1, <1>2, <1>3 DEF AsStrict, UrlAllowed
  <1>4. \A url : MustResolve(p, url) => MustResolve(q, url)
    BY DEF AsStrict, MustResolve, NeedsResolution
  <1> QED
    BY <1>1, <1>3, <1>4

-----------------------------------------------------------------------------
(* The invariant holds initially.                                          *)
LEMMA InitHttpInv == HttpInit => HttpInv
  <1> SUFFICES ASSUME HttpInit PROVE HttpInv
    OBVIOUS
  <1>1. policy \in Policies /\ target \in Target /\ sent = <<>> /\ check = NewCheck("idle")
    BY DEF HttpInit, Target
  <1>2. target.url \in Url \cup {Malformed} /\ target.method \in HttpMethods
    BY <1>1, HttpProbeAssumption DEF Target
  <1>3. check \in Check
    BY <1>1, <1>2 DEF NewCheck, Check, CheckState, Target
  <1>4. sent \in Seq(HttpRequest) /\ Len(sent) = 0 /\ DOMAIN sent = {}
    BY <1>1, EmptySeq
  <1>5. Limit \in Nat
    BY <1>1, LimitIsNat
  <1>6. check.headers = target.headers
    BY <1>1 DEF NewCheck
  <1>7. Carried(check)
    BY <1>1, <1>3, <1>4, <1>5, <1>6 DEF Carried, NewCheck
  <1>8. Stage
    BY <1>1, <1>4 DEF Stage, NewCheck
  <1> QED
    BY <1>1, <1>4, <1>5, <1>7, <1>8
       DEF HttpInv, EveryRequestVetted, HeadersStayHome, MethodDegradesOnce

(* A request that was vetted keeps the invariant.                          *)
LEMMA RequestInv ==
  ASSUME HttpInv, NEW c, Carried(c), c.hops = Len(sent), UrlAllowed(policy, c.url),
         NEW addresses \in SUBSET Addresses,
         MustResolve(policy, c.url) =>
            addresses # {} /\ \A a \in addresses : ~Blocked(policy, a),
         Request(c, addresses), UNCHANGED <<policy, target>>
  PROVE  HttpInv'
  <1> DEFINE home == \A j \in DOMAIN sent : Origin(sent[j].url) = Origin(target.url)
  <1>1. PICK m : m = IF c.hops = 0 THEN c.method ELSE RedirectMethod(c.status, c.method)
    OBVIOUS
  <1>2. PICK h \in BOOLEAN :
          h = (c.headers /\ (c.hops = 0 \/ Origin(c.url) = Origin(target.url)))
    BY Zenon
  <1>3. PICK r : r = [url |-> c.url, method |-> m, headers |-> h, resolved |-> addresses]
    OBVIOUS
  <1>4. /\ check' = [c EXCEPT !.st = "requesting", !.method = m, !.headers = h]
        /\ sent' = Append(sent, r)
    BY <1>1, <1>2, <1>3, Zenon DEF Request
  <1>5. /\ c \in Check
        /\ c.method \in HttpMethods /\ c.url \in Url
    BY AllowedIsUrl DEF Carried, Check
  <1>6. /\ m \in HttpMethods
        /\ m \in {c.method, "GET"}
        /\ c.method = "HEAD" => m = "HEAD"
        /\ c.method = "GET" => m = "GET"
    BY <1>1, <1>5, RedirectMethodFacts DEF HttpMethods
  <1>7. r \in HttpRequest
    BY <1>2, <1>3, <1>5, <1>6 DEF HttpRequest
  <1>8. /\ sent \in Seq(HttpRequest) /\ Len(sent) \in Nat
        /\ DOMAIN sent = 1..Len(sent)
    BY LenProperties DEF HttpInv
  <1>9. /\ sent' \in Seq(HttpRequest) /\ Len(sent') = Len(sent) + 1
        /\ \A j \in 1..Len(sent) : sent'[j] = sent[j]
        /\ sent'[Len(sent) + 1] = r
    BY <1>4, <1>7, <1>8, AppendProperties
  <1>10. DOMAIN sent' = 1..(Len(sent) + 1)
    BY <1>9, LenProperties
  <1>11. /\ check' \in Check /\ check'.st = "requesting" /\ check'.url = c.url
         /\ check'.hops = c.hops /\ check'.method = m /\ check'.headers = h
    BY <1>2, <1>4, <1>5, <1>6 DEF Check, CheckState
  <1>12. /\ r.url = c.url /\ r.method = m /\ r.headers = h /\ r.resolved = addresses
    BY <1>3
  <1>13. h => target.headers /\ home /\ Origin(c.url) = Origin(target.url)
    <2>1. h => c.headers /\ (c.hops = 0 \/ Origin(c.url) = Origin(target.url))
      BY <1>2, Zenon
    <2>2. c.headers => target.headers /\ home
      BY Zenon DEF Carried
    <2>3. c.hops = 0 => c.url = target.url
      BY DEF Carried
    <2> QED
      BY <2>1, <2>2, <2>3, Zenon
  <1>14. UNCHANGED <<policy, target, Limit>> /\ Limit \in Nat
    BY LimitIsNat DEF HttpInv, Limit
  <1>15. Carried(check)'
    <2>1. (c.hops = 0 => c.url = target.url) /\ c.hops <= Limit
      BY DEF Carried
    <2>2. h => \A j \in DOMAIN sent' : Origin(sent'[j].url) = Origin(target.url)
      BY <1>8, <1>9, <1>10, <1>12, <1>13
    <2>3. m \in {target.method, "GET"} /\ (target.method = "HEAD" => m = "HEAD")
      BY <1>6 DEF Carried
    <2>4. \A j \in DOMAIN sent' : sent'[j].method = "GET" => m = "GET"
      BY <1>6, <1>8, <1>9, <1>10, <1>12 DEF Carried
    <2>5. h => target.headers
      BY <1>13
    <2> QED
      BY <1>11, <1>14, <2>1, <2>2, <2>3, <2>4, <2>5 DEF Carried
  <1>16. Stage' /\ Len(sent') <= Limit' + 1
    BY <1>8, <1>9, <1>11, <1>14 DEF Stage, Carried
  <1>17. EveryRequestVetted'
    <2>1. \A j \in 1..Len(sent) :
            /\ UrlAllowed(policy, sent[j].url)
            /\ MustResolve(policy, sent[j].url) =>
                  sent[j].resolved # {} /\ \A a \in sent[j].resolved : ~Blocked(policy, a)
      BY <1>8 DEF HttpInv, EveryRequestVetted
    <2> QED
      BY <1>8, <1>9, <1>10, <1>12, <1>14, <2>1 DEF EveryRequestVetted
  <1>18. HeadersStayHome'
    <2> SUFFICES ASSUME NEW i \in DOMAIN sent', sent'[i].headers
                 PROVE  /\ target.headers
                        /\ \A j \in 1..i : Origin(sent'[j].url) = Origin(target.url)
      BY <1>14 DEF HeadersStayHome
    <2>1. CASE i \in 1..Len(sent)
      <3>1. sent[i].headers
        BY <1>9, <2>1
      <3>2. target.headers /\ \A j \in 1..i : Origin(sent[j].url) = Origin(target.url)
        BY <1>8, <2>1, <3>1 DEF HttpInv, HeadersStayHome
      <3> QED
        BY <1>8, <1>9, <2>1, <3>2
    <2>2. CASE i = Len(sent) + 1
      <3>1. h
        BY <1>9, <1>12, <2>2
      <3> QED
        BY <1>8, <1>9, <1>12, <1>13, <2>2, <3>1
    <2> QED
      BY <1>8, <1>10, <2>1, <2>2
  <1>19. MethodDegradesOnce'
    <2>1. \A i \in 1..Len(sent) :
            /\ sent[i].method \in {target.method, "GET"}
            /\ target.method = "HEAD" => sent[i].method = "HEAD"
            /\ \A j \in 1..i : sent[j].method = "GET" => sent[i].method = "GET"
      BY <1>8 DEF HttpInv, MethodDegradesOnce
    <2>2. m \in {target.method, "GET"} /\ (target.method = "HEAD" => m = "HEAD")
      BY <1>6 DEF Carried
    <2>3. \A j \in 1..Len(sent) : sent[j].method = "GET" => m = "GET"
      BY <1>6, <1>8 DEF Carried
    <2>4. \A i \in 1..Len(sent) : \A j \in 1..i : j \in 1..Len(sent)
      BY <1>8
    <2> QED
      BY <1>8, <1>9, <1>10, <1>12, <1>14, <2>1, <2>2, <2>3, <2>4 DEF MethodDegradesOnce
  <1> QED
    BY <1>9, <1>14, <1>15, <1>16, <1>17, <1>18, <1>19 DEF HttpInv

(* So does a check that ends, with or without a last status.               *)
LEMMA EndInv ==
  ASSUME HttpInv, NEW st \in {"passed", "failed", "cancelled"},
         NEW status \in Statuses \cup {None},
         check' = [check EXCEPT !.st = st, !.status = status], UNCHANGED <<policy, target, sent>>
  PROVE  HttpInv'
  <1>1. check \in Check
    BY DEF HttpInv, Carried
  <1>2. /\ check' \in Check /\ check'.st = st /\ check'.url = check.url
        /\ check'.hops = check.hops /\ check'.method = check.method
        /\ check'.headers = check.headers
    BY <1>1 DEF Check, CheckState
  <1>3. UNCHANGED <<policy, target, sent, Limit>>
    BY DEF Limit
  <1>4. Carried(check)'
    BY <1>2, <1>3 DEF HttpInv, Carried
  <1>5. Stage'
    BY <1>2 DEF Stage
  <1>6. /\ EveryRequestVetted'
        /\ HeadersStayHome'
        /\ MethodDegradesOnce'
    BY <1>3 DEF HttpInv, EveryRequestVetted, HeadersStayHome, MethodDegradesOnce
  <1> QED
    BY <1>3, <1>4, <1>5, <1>6 DEF HttpInv

(* A check that fails, or is cancelled, where it is suspended.             *)
LEMMA EndAsItIs ==
  ASSUME HttpInv, NEW st \in {"failed", "cancelled"}, End(st), UNCHANGED <<policy, target>>
  PROVE  HttpInv'
  <1>1. check \in Check
    BY DEF HttpInv, Carried
  <1>2. check' = [check EXCEPT !.st = st, !.status = check.status]
    BY <1>1 DEF End, Check
  <1> QED
    BY <1>1, <1>2, EndInv DEF Check, End

(* Vetting a URL ends the check, looks its host up, or requests it.        *)
LEMMA VetInv ==
  ASSUME HttpInv, NEW c, Carried(c), c.hops = Len(sent), Vet(c), UNCHANGED <<policy, target>>
  PROVE  HttpInv'
  <1>1. CASE ~UrlAllowed(policy, c.url)
    BY <1>1, EndAsItIs DEF Vet
  <1>2. CASE UrlAllowed(policy, c.url) /\ MustResolve(policy, c.url)
    <2>1. check' = [c EXCEPT !.st = "resolving"] /\ UNCHANGED sent
      BY <1>2 DEF Vet
    <2>2. c \in Check
      BY DEF Carried
    <2>3. /\ check' \in Check /\ check'.st = "resolving" /\ check'.url = c.url
          /\ check'.hops = c.hops /\ check'.method = c.method
          /\ check'.headers = c.headers
      BY <2>1, <2>2 DEF Check, CheckState
    <2>4. UNCHANGED <<policy, target, sent, Limit>>
      BY <2>1 DEF Limit
    <2>5. Carried(check)'
      BY <2>3, <2>4 DEF Carried
    <2>6. Stage'
      BY <1>2, <2>3, <2>4 DEF Stage
    <2>7. /\ EveryRequestVetted'
          /\ HeadersStayHome'
          /\ MethodDegradesOnce'
      BY <2>4 DEF HttpInv, EveryRequestVetted, HeadersStayHome, MethodDegradesOnce
    <2> QED
      BY <2>4, <2>5, <2>6, <2>7 DEF HttpInv
  <1>3. CASE UrlAllowed(policy, c.url) /\ ~MustResolve(policy, c.url)
    <2>1. Request(c, {})
      BY <1>3 DEF Vet
    <2> QED
      BY <1>3, <2>1, RequestInv
  <1> QED
    BY <1>1, <1>2, <1>3

(* A check begins with the vetting of the target, before anything is       *)
(* sent.                                                                   *)
LEMMA StartHttpCheckInv == HttpInv /\ StartHttpCheck => HttpInv'
  <1> SUFFICES ASSUME HttpInv, StartHttpCheck PROVE HttpInv'
    OBVIOUS
  <1>1. Carried(check) /\ check.hops = Len(sent)
    BY DEF HttpInv, Stage, StartHttpCheck
  <1> QED
    BY <1>1, VetInv DEF StartHttpCheck

(* A request goes out only if the policy lets every address of its host    *)
(* pass.                                                                   *)
LEMMA ResolvedInv ==
  ASSUME HttpInv, NEW addresses \in (SUBSET Addresses) \ {{}}, Resolved(addresses)
  PROVE  HttpInv'
  <1>1. CASE \E a \in addresses : Blocked(policy, a)
    BY <1>1, EndAsItIs DEF Resolved
  <1>2. CASE ~ \E a \in addresses : Blocked(policy, a)
    <2>1. Carried(check) /\ check.hops = Len(sent) /\ UrlAllowed(policy, check.url)
      BY DEF HttpInv, Stage, Resolved
    <2>2. Request(check, addresses) /\ UNCHANGED <<policy, target>>
      BY <1>2, Zenon DEF Resolved
    <2>3. addresses \in SUBSET Addresses /\ addresses # {}
      OBVIOUS
    <2>4. \A a \in addresses : ~Blocked(policy, a)
      BY <1>2
    <2> QED
      BY ONLY HttpInv, <2>1, <2>2, <2>3, <2>4, RequestInv, Zenon
  <1> QED
    BY <1>1, <1>2

(* A response ends the check, or a redirect sends it on with what may be   *)
(* carried there.                                                          *)
LEMMA RespondedInv ==
  ASSUME HttpInv, NEW status \in Statuses, NEW location \in Locations,
         Responded(status, location)
  PROVE  HttpInv'
  <1>1. /\ check \in Check /\ Carried(check) /\ check.st = "requesting"
        /\ UNCHANGED <<policy, target>>
    BY DEF HttpInv, Carried, Responded
  <1>2. check.url \in Url /\ Len(sent) = check.hops + 1
    BY <1>1, AllowedIsUrl DEF HttpInv, Stage, Check
  <1>3. CASE policy.follow_redirects /\ status \in Redirects /\ location # None
    <2>1. CASE check.hops + 1 > policy.max_redirects
      BY <1>1, <1>3, <2>1, EndAsItIs DEF Responded
    <2>2. CASE ~(check.hops + 1 > policy.max_redirects)
      <3>1. PICK url \in Url \cup {Malformed} : url = Join(check.url, location)
        BY <1>2, <1>3, JoinType
      <3>2. PICK c : c = [check EXCEPT !.url = url, !.hops = check.hops + 1, !.status = status]
        OBVIOUS
      <3>3. Vet(c)
        BY <1>1, <1>3, <2>2, <3>1, <3>2 DEF Responded, Check
      <3>4. /\ c \in Check /\ c.hops = check.hops + 1 /\ c.method = check.method
            /\ c.headers = check.headers
        <4>1. check \in Check /\ check.hops \in Nat /\ check.hops + 1 \in Nat
          BY <1>1 DEF Check
        <4>2. status \in Statuses \cup {None}
          OBVIOUS
        <4> QED
          BY ONLY <3>1, <3>2, <4>1, <4>2 DEF Check
      <3>5. c.hops <= Limit /\ c.hops # 0
        BY <1>1, <1>3, <2>2, <3>4, HttpProbeAssumption DEF Limit, Check, HttpInv, IsPolicy
      <3>6. Carried(c)
        BY <1>1, <3>4, <3>5 DEF Carried
      <3> QED
        BY <1>1, <1>2, <3>3, <3>4, <3>6, VetInv
    <2> QED
      BY <2>1, <2>2
  <1>4. CASE ~(policy.follow_redirects /\ status \in Redirects /\ location # None)
    <2>1. PICK st \in {"passed", "failed"} :
            check' = [check EXCEPT !.st = st, !.status = status] /\ UNCHANGED sent
      BY <1>4, Zenon DEF Responded
    <2> QED
      BY <1>1, <2>1, EndInv
  <1> QED
    BY <1>3, <1>4

(* Every step of the check keeps the invariant.                            *)
LEMMA NextHttpInv == HttpInv /\ [HttpNext]_httpVars => HttpInv'
  <1> SUFFICES ASSUME HttpInv, [HttpNext]_httpVars PROVE HttpInv'
    OBVIOUS
  <1>1. CASE StartHttpCheck
    BY <1>1, StartHttpCheckInv
  <1>2. ASSUME NEW addresses \in (SUBSET Addresses) \ {{}}, Resolved(addresses) PROVE HttpInv'
    BY <1>2, ResolvedInv
  <1>3. ASSUME NEW status \in Statuses, NEW location \in Locations,
               Responded(status, location)
        PROVE  HttpInv'
    BY <1>3, RespondedInv
  <1>4. CASE NetworkFails
    BY <1>4, EndAsItIs DEF NetworkFails
  <1>5. CASE HttpCancelled
    BY <1>5, EndAsItIs DEF HttpCancelled
  <1>6. CASE UNCHANGED httpVars
    <2>1. UNCHANGED <<policy, target, check, sent>>
      BY <1>6 DEF httpVars
    <2> QED
      BY <2>1 DEF HttpInv, Carried, Stage, Limit, EveryRequestVetted, HeadersStayHome,
                  MethodDegradesOnce
  <1> QED
    BY <1>1, <1>2, <1>3, <1>4, <1>5, <1>6 DEF HttpNext, Answered

(* HttpInv is an invariant of the check.                                   *)
THEOREM HttpInvariant == HttpSpec => []HttpInv
  BY InitHttpInv, NextHttpInv, PTL DEF HttpSpec

-----------------------------------------------------------------------------
(* What the check promises.                                                *)

(* The variables and the locals of _check_client have their types, and the *)
(* hops counted never exceed max_redirects.                                *)
THEOREM HttpTypeCorrect == HttpSpec => []HttpTypeOK
  <1>1. ASSUME HttpInv PROVE HttpTypeOK
    <2>1. check \in Check /\ check.hops <= Limit
      BY <1>1 DEF HttpInv, Carried
    <2>2. Limit <= policy.max_redirects /\ Limit \in Nat
      BY <1>1, LimitIsNat DEF HttpInv
    <2>3. policy.max_redirects \in Nat
      BY <1>1, HttpProbeAssumption DEF HttpInv, IsPolicy
    <2> QED
      BY <1>1, <2>1, <2>2, <2>3 DEF HttpInv, HttpTypeOK, HttpRequest, Check, Target
  <1> QED
    BY <1>1, HttpInvariant, PTL

(* No request leaves for a URL the policy refuses, or for a host that was  *)
(* looked up for an earlier request only, whatever the resolver and the    *)
(* servers answer.                                                         *)
THEOREM RequestsAreVetted == HttpSpec => []EveryRequestVetted
  BY HttpInvariant, PTL DEF HttpInv

(* The configured headers never go to another origin, nor to the original  *)
(* one once a redirect has led away from it.                               *)
THEOREM HeadersGoNowhereElse == HttpSpec => []HeadersStayHome
  BY HttpInvariant, PTL DEF HttpInv

(* Whatever the servers answer, there are at most max_redirects + 1        *)
(* requests, and one if redirects are not followed.                        *)
THEOREM FollowsNoMoreThanAllowed == HttpSpec => []RedirectsBounded
  <1>1. ASSUME HttpInv PROVE RedirectsBounded
    <2>1. Len(sent) <= Limit + 1 /\ Limit \in Nat /\ Len(sent) \in Nat
      BY <1>1, LimitIsNat, LenProperties DEF HttpInv
    <2> QED
      BY <2>1 DEF RedirectsBounded, Limit
  <1> QED
    BY <1>1, HttpInvariant, PTL

(* A HEAD probe sends only HEAD, and GET is never left again.              *)
THEOREM MethodOnlyDegrades == HttpSpec => []MethodDegradesOnce
  BY HttpInvariant, PTL DEF HttpInv
=============================================================================
