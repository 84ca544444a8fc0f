\* Three requests of one client, at once or one after the other; two use up the limit.
SPECIFICATION Spec
CONSTANTS
    q1 = q1  q2 = q2  q3 = q3
    Requests = {q1, q2, q3}
    Kinds = {"login", "contact"}
    Limit <- McLimit
    Window <- McWindow
    Faults = {"db", "mail", "hook"}
    MaxClock = 2
    None = None
SYMMETRY McSymmetry
INVARIANTS TypeOK SuccessForgives
PROPERTIES LimitHolds RefusedForAReason SubmissionKept
CHECK_DEADLOCK FALSE
