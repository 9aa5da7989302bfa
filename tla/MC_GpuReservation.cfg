\* Three workers, two GPUs of 2 and 3 bytes, requests of 0 to 2 bytes, and
\* 3-bit counters (the total demand 6 fits, as WidthAssumption requires).
CONSTANTS
    w1 = w1
    w2 = w2
    w3 = w3
    Workers <- MCWorkers
    Devices <- MCDevices
    Capacity <- MCCapacity
    MaxAmount = 2
    Width = 3
SYMMETRY WorkerSymmetry
SPECIFICATION Spec
INVARIANT CounterMatchesReservations
INVARIANT ReleaseNeverPanics
INVARIANT NoOvercommit
PROPERTY AdmissionRefinement
