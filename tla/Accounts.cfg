SPECIFICATION FairSpec
CONSTANTS
    s1 = s1
    s2 = s2
    None = None
    Guest = Guest
    Gone = Gone
    Users = {u1, u2, u3, u4}
    Emails = {e1, e2}
    Tokens = {t1, t2, t3, t4}
    Identities = {o1}
    Recs = {x1, x2, x3, x4}
    Notes = {f1, f2, f3}
    Requests = {r1, r2}
    Synthetic <- McSynthetic
    Ops = {"register", "login", "refresh", "logout", "callback", "deleteAccount", "recommend", "feedback", "deleteAssessment"}
    Faults = {"abort", "expire"}
    MaxRequests = 4
INVARIANT TypeOK
INVARIANT RotationIsAChain
INVARIANT NoPairAfterDeletion
INVARIANT DeletionReaches
INVARIANT OneLiveUserPerAddress
INVARIANT LoneSignInSucceeds
PROPERTIES IdentityStays EveryRequestEnds
CHECK_DEADLOCK FALSE
