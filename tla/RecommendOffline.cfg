\* One request, connections enough, no failure but Ollama's.
SPECIFICATION Spec
CONSTANTS
    r1 = r1  r2 = r2
    Requests = {r1}
    PoolSize = 2
    Callers = {"guest", "user"}
    Modes = {"classical", "llm", "hybrid"}
    Faults = {}
    MaxFlips = 1
    None = None
INVARIANT OfflineFallsBack
CHECK_DEADLOCK FALSE
