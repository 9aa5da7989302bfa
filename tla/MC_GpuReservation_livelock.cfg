\* Two workers asking for up to 2 bytes of a 3-byte GPU, each thread
\* scheduled weakly fairly inside reserve and release.
CONSTANTS
    w1 = w1
    w2 = w2
    w3 = w3
    Workers <- MCWorkers2
    Devices <- MCDevices1
    Capacity <- MCCapacity1
    MaxAmount = 2
    Width = 3
SPECIFICATION FairSpec
PROPERTY ReserveProgress
