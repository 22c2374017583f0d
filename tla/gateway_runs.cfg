\* Two calls of two agents or none, one token, every way to build the gateway.
SPECIFICATION Spec
CONSTANTS
    Requests = {r1, r2}
    Tokens = {t1}
    Agents = {a1, a2}
    Scopes = {s1}
    None = None
SYMMETRY Symmetry
INVARIANTS AuditTells ConsentBeforeRun 
PROPERTIES RevokedStays
CHECK_DEADLOCK FALSE
