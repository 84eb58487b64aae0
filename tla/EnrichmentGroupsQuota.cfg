SPECIFICATION Spec
CONSTANTS
    g1 = g1
    g2 = g2
    w1 = w1
    w2 = w2
    w3 = w3
    Groups = {g1}
    Runs = {w1}
    MaxAttempts = 2
    Modes = {"resume"}
    MaxVersion = 1
    MaxClaims = 4
    MaxCrashes = 0
    RateLimits = TRUE
INVARIANT NeverStranded
