SPECIFICATION FairSpec
CONSTANTS
    m1 = m1
    m2 = m2
    a1 = a1
    a2 = a2
    Messages = {m1, m2}
    Agents = {a1, a2}
    Work = {m1}
    Stores = {"main", "dispatch"}
    StoreOf <- Apart
    MaxAttempts = 2
    MaxMishaps = 2
    Unknown = Unknown
INVARIANT TypeOK
INVARIANT OneWorkerUnlessLate
INVARIANT NewsIsNew
PROPERTY ImplementsMessageQueue
PROPERTY NotStranded
PROPERTY ReceiptInTheEnd
