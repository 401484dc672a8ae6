----------------------------- MODULE HttpPolicy -----------------------------
(***************************************************************************)
(* HttpProbePolicy (probirka/_probes/_http_policy.py): which URLs an HTTP  *)
(* probe may request.  Pure operators; a policy is immutable.              *)
(*                                                                         *)
(* A URL is Malformed or a record [scheme, host, port] with the path and   *)
(* the query left out, and host and port None where they are absent.  The  *)
(* host is a spelling; normalize_host() takes spellings that differ only   *)
(* in case, a trailing dot or IDNA form to the same sequence of labels.  A *)
(* network is the set of its addresses.                                    *)
(***************************************************************************)
EXTENDS Integers, SequencesExt

CONSTANTS
    None,
    Malformed,      \* a URL or a Location that cannot be parsed
    Schemes,        \* in lower case
    DefaultPort,    \* of a scheme; None if it has none
    Spellings,      \* host names and IP literals as they are written
    Normal,         \* normalize_host: the labels of a spelling
    Literal,        \* _literal_ip: the address a spelling is a literal of, or None
    Addresses,
    Unmap,          \* _unmap: the IPv4 address of an IPv4-mapped IPv6 address
    Global,         \* addresses for which is_global holds
    Multicast       \* addresses for which is_multicast holds

ASSUME HttpPolicyAssumption ==
    /\ None \notin Schemes \cup Spellings \cup Addresses \cup Nat
    /\ DefaultPort \in [Schemes -> Nat \cup {None}]
    /\ DOMAIN Normal = Spellings
    /\ Literal \in [Spellings -> Addresses \cup {None}]
    /\ \A h, k \in Spellings : Normal[h] = Normal[k] => Literal[h] = Literal[k]
    /\ Unmap \in [Addresses -> Addresses]
    /\ Global \subseteq Addresses /\ Multicast \subseteq Addresses

(* The port of an http URL without one, or with port 0, is the default.    *)
Origin(url) ==
    <<url.scheme,
      IF url.host = None THEN None ELSE Normal[url.host],
      IF url.port \in {None, 0} THEN DefaultPort[url.scheme] ELSE url.port>>

(* An entry of allowed_hosts: exact labels, or "*." and a proper suffix.   *)
HostAllowed(policy, host) ==
    \E entry \in policy.allowed_hosts :
        IF entry.wildcard THEN IsStrictSuffix(entry.labels, Normal[host])
                          ELSE entry.labels = Normal[host]

(* blocked_reason: allowed networks win over both kinds of blocking.       *)
Blocked(policy, address) ==
    LET a == Unmap[address] IN
    /\ a \notin policy.allowed_networks
    /\ \/ policy.block_private_networks /\ (a \notin Global \/ a \in Multicast)
       \/ a \in policy.blocked_networks

(* What check_url() raises nothing for.                                    *)
UrlAllowed(policy, url) ==
    /\ url # Malformed
    /\ url.scheme \in policy.allowed_schemes
    /\ url.host # None
    /\ policy.allowed_hosts # None => HostAllowed(policy, url.host)
    /\ Literal[url.host] # None => ~Blocked(policy, Literal[url.host])

NeedsResolution(policy) ==
    policy.block_private_networks \/ policy.blocked_networks # {}

(* Does check_resolution() look up the host of a URL that check_url let    *)
(* pass?  An IP literal has been checked there.                            *)
MustResolve(policy, url) == NeedsResolution(policy) /\ Literal[url.host] = None

(* urllib.parse.urljoin: a location without a host, or without a scheme,   *)
(* takes it from the URL that answered.                                    *)
Join(url, location) ==
    CASE location = Malformed -> Malformed
      [] location # Malformed /\ location.host = None
            /\ location.scheme \in {None, url.scheme} -> url
      [] OTHER ->
            [scheme |-> IF location.scheme = None THEN url.scheme ELSE location.scheme,
             host |-> location.host, port |-> location.port]
=============================================================================
