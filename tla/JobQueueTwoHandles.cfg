\* Two mirrors, each with its own queue object on the same database.
SPECIFICATION Spec
CONSTANTS
    h1 = h1
    h2 = h2
    push1 = push1
    rename12 = rename12
    k1 = k1
    k2 = k2
    Intents = {push1, rename12}
    Keys = {k1, k2}
    KeysOf <- Touched
    NoJob = NoJob
    Mirrors = {m1, m2}
    Handles = {h1, h2}
    QueueOf <- QueueEach
    MaxSeq = 3
    MaxEdits = 2
PROPERTIES
    RunningNeverReplaced
