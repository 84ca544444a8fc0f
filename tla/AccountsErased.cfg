SPECIFICATION Spec
CONSTANTS
    s1 = s1
    s2 = s2
    None = None
    Guest = Guest
    Gone = Gone
    Users = {u1}
    Emails = {e1}
    Tokens = {t1}
    Identities = {}
    Recs = {x1}
    Notes = {f1}
    Requests = {r1}
    Synthetic <- McSynthetic
    Ops = {"register", "recommend", "feedback", "deleteAccount"}
    Faults = {}
    MaxRequests = 4
INVARIANT DeletedIsAnonymised
SYMMETRY Symmetry
CHECK_DEADLOCK FALSE
