SPECIFICATION MCSpec
CONSTANTS
    w1 = w1
    w2 = w2
    r1 = r1
    c1 = c1
    Nobody = Nobody
    Timed = {w1}
    Sessions <- TwoSessions
    Proxies <- TwoSessions
    Requests = {r1}
    Scripts <- TwoScripts
    Strangers = {"silent", "unhealthy", "healthy"}
    MaxKills = 1
INVARIANTS
    GatewayInv
    ProcessesInv
PROPERTIES
    SessionsEnd
    BridgeServes
