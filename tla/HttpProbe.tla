----------------------------- MODULE HttpProbe ------------------------------
(***************************************************************************)
(* HttpProbeBase (probirka/_probes/_http_base.py): one check of an HTTP    *)
(* probe.  It vets the configured URL, requests it without letting the     *)
(* client library follow redirects, and follows them itself, vetting every *)
(* target before it is requested.                                          *)
(*                                                                         *)
(* The resolver and the servers are the environment: they answer anything, *)
(* and a name may resolve differently at every lookup.  The check awaits   *)
(* the resolver and the response, and may be cancelled at both.            *)
(***************************************************************************)
EXTENDS HttpPolicy

CONSTANTS
    Policies,       \* HttpProbePolicy objects that are explored
    ProbeUrls,      \* URLs given to the probe
    Methods,
    Statuses,       \* status codes servers answer with
    Locations       \* their Location headers, None for an absent one

HttpMethods == {"GET", "HEAD", "POST", "PUT"}

Legacy == {301, 302}
Redirects == Legacy \cup {303, 307, 308}

(* What __post_init__ lets pass.                                           *)
IsPolicy(p) ==
    /\ p.allowed_schemes \subseteq Schemes /\ p.allowed_schemes # {}
    /\ p.max_redirects \in Nat

Url == [scheme : Schemes, host : Spellings \cup {None}, port : Nat \cup {None}]

(* What a Location header may hold: a URL, or a reference to be joined.    *)
UrlReference ==
    [scheme : Schemes \cup {None}, host : Spellings \cup {None}, port : Nat \cup {None}]

ASSUME HttpProbeAssumption ==
    /\ \A p \in Policies : IsPolicy(p) /\ p.follow_redirects \in BOOLEAN
    /\ ProbeUrls \subseteq Url \cup {Malformed}
    /\ Locations \subseteq UrlReference \cup {None, Malformed}
    /\ Malformed \notin Url
    /\ Methods \subseteq HttpMethods
    /\ Statuses \subseteq Nat

VARIABLES
    policy,     \* self._policy
    target,     \* self._url, _method, _expected_status; are there _headers?
    check,      \* the check: its state and the locals of _check_client
    sent        \* the requests it made, with what the host resolved to

httpVars == <<policy, target, check, sent>>

CheckState == {"idle", "resolving", "requesting", "passed", "failed", "cancelled"}

NewCheck(st) ==
    [st |-> st, url |-> target.url, method |-> target.method,
     headers |-> target.headers, hops |-> 0, status |-> None]

(* __init__: a URL the policy refuses is a ValueError, and no probe.       *)
HttpInit ==
    /\ policy \in Policies
    /\ target \in [url : ProbeUrls, method : Methods,
                   headers : BOOLEAN, expected : {{200}, {200, 302}}]
    /\ UrlAllowed(policy, target.url)
    /\ check = NewCheck("idle")
    /\ sent = <<>>

-----------------------------------------------------------------------------
(* Faulty variant: 301 and 302 turn every method into GET.                 *)
RedirectMethodLegacy(status, method) ==
    IF status \in Legacy \cup {303} THEN "GET" ELSE method

(* _redirect_method.                                                       *)
RedirectMethod(status, method) ==
    IF \/ status = 303 /\ method # "HEAD"
       \/ status \in Legacy /\ method = "POST"
    THEN "GET" ELSE method

(* Faulty variant: headers come back with the original host, and are kept  *)
(* for its other ports.                                                    *)
RequestKeepingHeaders(c, addresses) ==
    LET method == IF c.hops = 0 THEN c.method ELSE RedirectMethod(c.status, c.method)
        headers == IF c.url.host = target.url.host THEN target.headers ELSE FALSE
    IN  /\ check' = [c EXCEPT !.st = "requesting", !.method = method, !.headers = headers]
        /\ sent' = Append(sent, [url |-> c.url, method |-> method,
                                 headers |-> headers, resolved |-> addresses])

(* The request to c.url: after a redirect its method and its headers       *)
(* depend on where it leads.                                               *)
Request(c, addresses) ==
    LET method == IF c.hops = 0 THEN c.method ELSE RedirectMethod(c.status, c.method)
        headers == c.headers /\ (c.hops = 0 \/ Origin(c.url) = Origin(target.url))
    IN  /\ check' = [c EXCEPT !.st = "requesting", !.method = method, !.headers = headers]
        /\ sent' = Append(sent, [url |-> c.url, method |-> method,
                                 headers |-> headers, resolved |-> addresses])

End(st) == check' = [check EXCEPT !.st = st] /\ UNCHANGED sent

(* Faulty variant: a redirect target is not resolved before the request.   *)
VetWithoutResolution(c) ==
    IF ~UrlAllowed(policy, c.url) THEN End("failed")
    ELSE IF MustResolve(policy, c.url) /\ c.hops = 0
         THEN check' = [c EXCEPT !.st = "resolving"] /\ UNCHANGED sent
         ELSE Request(c, {})

(* policy.check up to its await: the request follows at once if there is   *)
(* no name to look up.                                                     *)
Vet(c) ==
    IF ~UrlAllowed(policy, c.url) THEN End("failed")
    ELSE IF MustResolve(policy, c.url)
         THEN check' = [c EXCEPT !.st = "resolving"] /\ UNCHANGED sent
         ELSE Request(c, {})

StartHttpCheck ==
    /\ check.st = "idle"
    /\ Vet(check)
    /\ UNCHANGED <<policy, target>>

(* getaddrinfo answers, or raises gaierror.                                *)
Resolved(addresses) ==
    /\ check.st = "resolving"
    /\ IF \E a \in addresses : Blocked(policy, a)
       THEN End("failed")
       ELSE Request(check, addresses)
    /\ UNCHANGED <<policy, target>>

(* Faulty variant: the limit is compared before the hop is counted.        *)
RespondedOneMore(status, location) ==
    /\ check.st = "requesting"
    /\ IF policy.follow_redirects /\ status \in Redirects /\ location # None
       THEN IF check.hops > policy.max_redirects
            THEN End("failed")
            ELSE Vet([check EXCEPT !.url = Join(check.url, location),
                                   !.hops = @ + 1, !.status = status])
       ELSE End(IF status \in target.expected THEN "passed" ELSE "failed")
    /\ UNCHANGED <<policy, target>>

(* A response: a redirect to follow, or the verdict.                       *)
Responded(status, location) ==
    /\ check.st = "requesting"
    /\ IF policy.follow_redirects /\ status \in Redirects /\ location # None
       THEN IF check.hops + 1 > policy.max_redirects
            THEN End("failed")
            ELSE Vet([check EXCEPT !.url = Join(check.url, location),
                                   !.hops = @ + 1, !.status = status])
       ELSE /\ check' = [check EXCEPT
                           !.st = IF status \in target.expected THEN "passed" ELSE "failed",
                           !.status = status]
            /\ UNCHANGED sent
    /\ UNCHANGED <<policy, target>>

(* The lookup or the request raises.                                       *)
NetworkFails ==
    /\ check.st \in {"resolving", "requesting"}
    /\ End("failed")
    /\ UNCHANGED <<policy, target>>

(* The probe timeout, the run timeout or the caller of run() cancels it.   *)
HttpCancelled ==
    /\ check.st \in {"resolving", "requesting"}
    /\ End("cancelled")
    /\ UNCHANGED <<policy, target>>

Answered ==
    \/ \E addresses \in (SUBSET Addresses) \ {{}} : Resolved(addresses)
    \/ \E status \in Statuses, location \in Locations : Responded(status, location)
    \/ NetworkFails

HttpNext == StartHttpCheck \/ Answered \/ HttpCancelled

HttpSpec == HttpInit /\ [][HttpNext]_httpVars

-----------------------------------------------------------------------------
(* Properties.                                                             *)

HttpTypeOK ==
    /\ policy \in Policies
    /\ target.url \in ProbeUrls
    /\ check.url \in Url \cup {Malformed}
    /\ sent \in Seq([url : Url, method : HttpMethods, headers : BOOLEAN,
                   resolved : SUBSET Addresses])
    /\ check.st \in CheckState
    /\ check.method \in HttpMethods
    /\ check.headers \in BOOLEAN
    /\ check.hops \in 0..policy.max_redirects
    /\ check.status \in Statuses \cup {None}

(* Every request goes where the policy allows: its URL passes, and if a    *)
(* name had to be looked up, it was looked up for this very request and    *)
(* no answer was blocked (HttpProbePolicy: every redirect target is        *)
(* checked before the request).                                            *)
EveryRequestVetted ==
    \A i \in DOMAIN sent :
        LET url == sent[i].url IN
        /\ UrlAllowed(policy, url)
        /\ MustResolve(policy, url) =>
              /\ sent[i].resolved # {}
              /\ \A a \in sent[i].resolved : ~Blocked(policy, a)

(* The configured headers go to the origin of the configured URL only, and *)
(* never again once a redirect has led elsewhere, even back.               *)
HeadersStayHome ==
    \A i \in DOMAIN sent : sent[i].headers =>
        /\ target.headers
        /\ \A j \in 1..i : Origin(sent[j].url) = Origin(target.url)

(* At most max_redirects redirects are followed, none if following is off. *)
RedirectsBounded ==
    Len(sent) <= 1 + (IF policy.follow_redirects THEN policy.max_redirects ELSE 0)

(* A redirect turns a method into GET or leaves it: a HEAD probe sends     *)
(* only HEAD, and a probe whose method has become GET stays with it.       *)
MethodDegradesOnce ==
    \A i \in DOMAIN sent :
        /\ sent[i].method \in {target.method, "GET"}
        /\ target.method = "HEAD" => sent[i].method = "HEAD"
        /\ \A j \in 1..i : sent[j].method = "GET" => sent[i].method = "GET"
=============================================================================
