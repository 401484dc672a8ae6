SPECIFICATION HttpSpec
CONSTANTS
    None = None
    Malformed = Malformed
    api = api
    API = API
    sub = sub
    literal = literal
    mapped = mapped
    public = public
    private = private
    mappedPrivate = mappedPrivate
    Schemes <- MCSchemes
    DefaultPort <- MCDefaultPort
    Spellings <- MCSpellings
    Normal <- MCNormal
    Literal <- MCLiteral
    Addresses <- MCAddresses
    Unmap <- MCUnmap
    Global <- MCGlobal
    Multicast = {}
    Policies <- MCPolicies
    ProbeUrls <- MCProbeUrls
    Methods <- MCMethods
    Statuses <- MCStatuses
    Locations <- MCLocations
INVARIANTS HttpTypeOK EveryRequestVetted HeadersStayHome RedirectsBounded MethodDegradesOnce
CHECK_DEADLOCK FALSE
