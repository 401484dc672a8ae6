---------------------------- MODULE MCHttpProbe -----------------------------
(* A few hosts that the policies tell apart, and servers that redirect     *)
(* from any of them to any other.                                          *)
EXTENDS HttpProbe

CONSTANTS
    api, API, sub, literal, mapped,         \* spellings
    public, private, mappedPrivate          \* addresses

MCSchemes == {"http", "https", "ftp"}
MCDefaultPort == "http" :> 80 @@ "https" :> 443 @@ "ftp" :> None
MCSpellings == {api, API, sub, literal, mapped}
MCNormal == api :> <<"api", "org">> @@ API :> <<"api", "org">>
            @@ sub :> <<"a", "api", "org">>
            @@ literal :> <<"10", "0", "0", "1">> @@ mapped :> <<"ffff:10.0.0.1">>
MCLiteral == [h \in MCSpellings |->
                CASE h = literal -> private [] h = mapped -> mappedPrivate [] OTHER -> None]
MCAddresses == {public, private, mappedPrivate}
MCUnmap == [a \in MCAddresses |-> IF a = mappedPrivate THEN private ELSE a]
MCGlobal == {public}

MCUrl(scheme, host, port) == [scheme |-> scheme, host |-> host, port |-> port]

MCPolicy(hosts, block, blocked, follow, max) ==
    [allowed_schemes |-> {"http", "https"}, allowed_hosts |-> hosts,
     block_private_networks |-> block, blocked_networks |-> blocked,
     allowed_networks |-> {}, follow_redirects |-> follow, max_redirects |-> max]

MCExact == [wildcard |-> FALSE, labels |-> <<"api", "org">>]
MCWildcard == [wildcard |-> TRUE, labels |-> <<"api", "org">>]

(* No rules; the allowlist; each kind of blocking; an exception from it.   *)
MCPolicies ==
    {MCPolicy(None, FALSE, {}, follow, max) : follow \in BOOLEAN, max \in 0..2}
      \cup {MCPolicy({MCExact, MCWildcard}, FALSE, {}, TRUE, 2),
            MCPolicy({MCWildcard}, TRUE, {}, TRUE, 2),
            MCPolicy(None, TRUE, {}, TRUE, 2),
            MCPolicy(None, FALSE, {private}, TRUE, 1),
            [MCPolicy(None, TRUE, {public}, TRUE, 1) EXCEPT !.allowed_networks = {private}]}

MCProbeUrls == {MCUrl("http", api, None), MCUrl("https", sub, 443),
                MCUrl("http", literal, None), MCUrl("ftp", api, None)}
MCMethods == {"POST", "HEAD", "PUT"}
MCStatuses == {200, 302, 303, 307}
MCLocations ==
    {None, Malformed, MCUrl(None, None, None), MCUrl(None, sub, None),
     MCUrl("http", api, 8080), MCUrl("http", API, 80), MCUrl("https", sub, None),
     MCUrl("http", literal, None), MCUrl("http", mapped, 0), MCUrl("ftp", api, None)}
=============================================================================
