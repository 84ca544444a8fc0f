SPECIFICATION FairSpec
CONSTANTS
    c1 = c1
    c2 = c2
    p1 = p1
    r1 = r1
    r2 = r2
    r3 = r3
    t1 = t1
    t2 = t2
    None = None
    Caps = {c1, c2}
    Prods = {p1}
    Rows = {r1, r2, r3}
    Texts = {t1, t2}
    TextOf <- McTextOf
    Coerced <- McCoerced
    Seed <- McSeed
    Admins = {a1}
    Matchers = {m1}
    Faults = {"commit", "sync", "encode", "matrix", "index", "unmirror", "probe"}
    MaxWrites = 2
    MaxRestarts = 2
PROPERTY CoveredBootServes
INVARIANT QuietCacheFresh
INVARIANT TypeOK
INVARIANT LoneWriteMirrors
INVARIANT LoneReembedFresh
INVARIANT SoundStart
INVARIANT OnlyOwedStale
INVARIANT MirrorOwned
CHECK_DEADLOCK FALSE
