CONSTANTS
    j1 = j1
    j2 = j2
    j3 = j3
    k1 = k1
    k2 = k2
    Job = {j1, j2, j3}
    Key = {k1, k2}
    Answer = {a1, a2}
    Worker = {w1, w2}
    KeyOf <- MCKeyOf
    Rank <- MCRank
    Keyed = {j1}
    MaxAttempts = 2
    MaxFaults = 2
    NoJob = NoJob
    NoAnswer = NoAnswer
    NoWorker = NoWorker

SPECIFICATION Spec
PROPERTIES
    OnlyOwnersPublish
CHECK_DEADLOCK FALSE
