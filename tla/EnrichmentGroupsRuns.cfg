SPECIFICATION FairSpec
CONSTANTS
    g1 = g1
    g2 = g2
    w1 = w1
    w2 = w2
    w3 = w3
    Groups = {g1}
    Runs = {w1, w2}
    MaxAttempts = 2
    Modes = {"all", "dead"}
    MaxVersion = 2
    MaxClaims = 4
    MaxCrashes = 1
    RateLimits = TRUE
INVARIANT ClaimHeld
INVARIANT DoneIsCurrent
INVARIANT AskedOnce
INVARIANT AttemptsBounded
PROPERTY TerminalStays
PROPERTY Settles
CHECK_DEADLOCK FALSE
