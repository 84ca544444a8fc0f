\* Two requests of any kind share two connections; Ollama comes or goes once.
SPECIFICATION FairSpec
CONSTANTS
    r1 = r1  r2 = r2
    Requests = {r1, r2}
    PoolSize = 2
    Callers = {"guest", "user", "deleted"}
    Modes = {"classical", "llm", "hybrid"}
    Faults = {"error"}
    MaxFlips = 1
    None = None
INVARIANTS TypeOK OnlyCrowdsStarve
PROPERTIES KeepsPromise EveryRequestAnswered
CHECK_DEADLOCK FALSE
