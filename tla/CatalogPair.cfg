SPECIFICATION Spec
CONSTANTS
    c1 = c1
    c2 = c2
    p1 = p1
    r1 = r1
    r2 = r2
    r3 = r3
    t1 = t1
    t2 = t2
    None = None
    Caps = {c1, c2}
    Prods = {}
    Rows = {r1, r3}
    Texts = {t1, t2}
    TextOf <- McTextOf2
    Coerced <- McCoerced2
    Seed <- McSeed
    Admins = {a1}
    Matchers = {m1}
    Faults = {}
    MaxWrites = 1
    MaxRestarts = 0
INVARIANT EmbeddingsAreAPair
CHECK_DEADLOCK FALSE
