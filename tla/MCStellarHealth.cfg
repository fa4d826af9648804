SPECIFICATION Spec
CONSTANTS
    k1 = k1
    k2 = k2
    Callers = {k1}
    MaxRetries = 3
    Threshold = 5
    MaxRequests = 3
    Window = 2
    InitialDelay = 1
    LimiterFields = {FALSE}
    Kinds = {"health", "latest"}
INVARIANT HealthTruthful
