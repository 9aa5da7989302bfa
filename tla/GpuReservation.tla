--------------------------- MODULE GpuReservation ---------------------------
(***************************************************************************)
(* The per-GPU memory reservation pool of fhevm-engine-common/gpu_memory.rs *)
(* and the worker threads that use it.                                      *)
(*                                                                          *)
(* gpu_mem_reservation is one AtomicU64 per GPU.  reserve_memory_on_gpu is  *)
(* an optimistic loop: fetch_add the amount, ask the CUDA layer whether     *)
(* old + amount bytes still fit on the GPU, and on failure fetch_sub it     *)
(* back, sleep and retry.  release_memory_on_gpu loads the counter, asserts *)
(* it covers the amount, then fetch_subs: load and sub are two separate     *)
(* atomic steps.  Every atomic access is one step of the model; the plain  *)
(* code between two atomics is folded into the step that follows it.       *)
(*                                                                          *)
(* The caller protocol around the two functions (allocate after reserve,    *)
(* release the reservation, run, free the device memory) is the one the    *)
(* comment above reserve_memory_on_gpu describes; the caller itself is not  *)
(* part of the sources.                                                     *)
(***************************************************************************)
EXTENDS Naturals, FiniteSets

CONSTANTS
    Workers,    \* threads that issue reserve/release
    Devices,    \* GPU indices 0 .. get_number_of_gpus() - 1
    Capacity,   \* Capacity[d]: bytes of memory GPU d has for these workers
    MaxAmount,  \* largest byte amount get_op_size_on_gpu returns here
    Width       \* bit width of the counters (64 for AtomicU64)

\* 2^Width: fetch_add and fetch_sub on an AtomicU64 wrap around modulo this.
Modulus == 2^Width

ASSUME WorkersAssumption == IsFiniteSet(Workers) /\ Workers # {}
ASSUME DevicesAssumption == Devices # {}
ASSUME CapacityAssumption == Capacity \in [Devices -> Nat]
ASSUME AmountAssumption == MaxAmount \in Nat
\* The whole demand of all workers fits in a counter.
ASSUME WidthAssumption ==
    /\ Modulus \in Nat
    /\ Cardinality(Workers) * MaxAmount < Modulus

VARIABLES
    gpu_mem_reservation, \* the per-GPU reservation counters
    allocated,           \* bytes allocated on each GPU (the CUDA side)
    pc,                  \* where each worker is
    dev,                 \* idx argument of the worker's current call
    amount,              \* amount argument of the worker's current call
    old_pool_size        \* the value fetch_add returned in the current try

vars == <<gpu_mem_reservation, allocated, pc, dev, amount, old_pool_size>>

(***************************************************************************)
(* Worker locations.  "add", "check", "rollback": inside                    *)
(* reserve_memory_on_gpu; "alloc": reserve returned, allocation pending;   *)
(* "load", "sub": inside release_memory_on_gpu; "run": operation running;   *)
(* "panicked": the assert of release_memory_on_gpu failed.                  *)
(***************************************************************************)
Locations == {"idle", "add", "check", "rollback", "alloc", "load", "sub",
              "run", "panicked"}

Amounts == 0 .. MaxAmount

\* AtomicU64::fetch_add / fetch_sub arithmetic.
WrapAdd(x, y) == (x + y) % Modulus
WrapSub(x, y) == (x + Modulus - y) % Modulus

(***************************************************************************)
(* check_valid_cuda_malloc(size, gpu): the CUDA layer reports whether size  *)
(* bytes can still be allocated, i.e. do not exceed the free memory.        *)
(***************************************************************************)
CheckValidCudaMalloc(size, d) == size + allocated[d] <= Capacity[d]

Move(w, from, to) ==
    /\ pc[w] = from
    /\ pc' = [pc EXCEPT ![w] = to]

Init ==
    /\ gpu_mem_reservation = [d \in Devices |-> 0]
    /\ allocated = [d \in Devices |-> 0]
    /\ pc = [w \in Workers |-> "idle"]
    /\ dev = [w \in Workers |-> CHOOSE d \in Devices : TRUE]
    /\ amount = [w \in Workers |-> 0]
    /\ old_pool_size = [w \in Workers |-> 0]

(***************************************************************************)
(* A worker calls reserve_memory_on_gpu(a, d) for an operation that        *)
(* get_op_size_on_gpu priced at a bytes.                                   *)
(***************************************************************************)
CallReserve(w, d, a) ==
    /\ Move(w, "idle", "add")
    /\ dev' = [dev EXCEPT ![w] = d]
    /\ amount' = [amount EXCEPT ![w] = a]
    /\ UNCHANGED <<gpu_mem_reservation, allocated, old_pool_size>>

\* let old_pool_size = gpu_mem_reservation[idx].fetch_add(amount, SeqCst)
ReserveFetchAdd(w) ==
    LET d == dev[w] IN
    /\ Move(w, "add", "check")
    /\ old_pool_size' = [old_pool_size EXCEPT ![w] = gpu_mem_reservation[d]]
    /\ gpu_mem_reservation' = [gpu_mem_reservation EXCEPT
                                  ![d] = WrapAdd(@, amount[w])]
    /\ UNCHANGED <<allocated, dev, amount>>

\* Mutant: validates the worker's own amount, ignoring old_pool_size.
ReserveCheckOwnAmount(w) ==
    /\ pc[w] = "check"
    /\ pc' = [pc EXCEPT ![w] =
                IF CheckValidCudaMalloc(amount[w], dev[w])
                THEN "alloc" ELSE "rollback"]
    /\ UNCHANGED <<gpu_mem_reservation, allocated, dev, amount, old_pool_size>>

\* if check_valid_cuda_malloc(old_pool_size + amount, idx) { break } else ..
ReserveCheck(w) ==
    /\ pc[w] = "check"
    /\ pc' = [pc EXCEPT ![w] =
                IF CheckValidCudaMalloc(WrapAdd(old_pool_size[w], amount[w]),
                                        dev[w])
                THEN "alloc" ELSE "rollback"]
    /\ UNCHANGED <<gpu_mem_reservation, allocated, dev, amount, old_pool_size>>

\* Mutant: the failed try is retried without removing its reservation.
ReserveRollbackKeep(w) ==
    /\ Move(w, "rollback", "add")
    /\ UNCHANGED <<gpu_mem_reservation, allocated, dev, amount, old_pool_size>>

\* Mutant: a failed try gives its reservation back and returns anyway.
ReserveRollbackThenBreak(w) ==
    /\ Move(w, "rollback", "alloc")
    /\ gpu_mem_reservation' = [gpu_mem_reservation EXCEPT
                                  ![dev[w]] = WrapSub(@, amount[w])]
    /\ UNCHANGED <<allocated, dev, amount, old_pool_size>>

\* gpu_mem_reservation[idx].fetch_sub(amount, SeqCst); sleep(2ms); loop
ReserveRollback(w) ==
    /\ Move(w, "rollback", "add")
    /\ gpu_mem_reservation' = [gpu_mem_reservation EXCEPT
                                  ![dev[w]] = WrapSub(@, amount[w])]
    /\ UNCHANGED <<allocated, dev, amount, old_pool_size>>

\* After reserve returns the worker allocates its memory on the GPU.
Allocate(w) ==
    /\ Move(w, "alloc", "load")
    /\ allocated' = [allocated EXCEPT ![dev[w]] = @ + amount[w]]
    /\ UNCHANGED <<gpu_mem_reservation, dev, amount, old_pool_size>>

\* Mutant: the assert uses a strict comparison.
ReleaseLoadStrict(w) ==
    /\ pc[w] = "load"
    /\ pc' = [pc EXCEPT ![w] =
                IF gpu_mem_reservation[dev[w]] > amount[w]
                THEN "sub" ELSE "panicked"]
    /\ UNCHANGED <<gpu_mem_reservation, allocated, dev, amount, old_pool_size>>

\* let current_pool_size = ...load(SeqCst); assert!(current_pool_size >= amount)
ReleaseLoad(w) ==
    /\ pc[w] = "load"
    /\ pc' = [pc EXCEPT ![w] =
                IF gpu_mem_reservation[dev[w]] >= amount[w]
                THEN "sub" ELSE "panicked"]
    /\ UNCHANGED <<gpu_mem_reservation, allocated, dev, amount, old_pool_size>>

\* gpu_mem_reservation[idx].fetch_sub(amount, SeqCst)
ReleaseSub(w) ==
    /\ Move(w, "sub", "run")
    /\ gpu_mem_reservation' = [gpu_mem_reservation EXCEPT
                                  ![dev[w]] = WrapSub(@, amount[w])]
    /\ UNCHANGED <<allocated, dev, amount, old_pool_size>>

\* The operation completes and its device memory is freed.
Finish(w) ==
    /\ Move(w, "run", "idle")
    /\ allocated' = [allocated EXCEPT ![dev[w]] = @ - amount[w]]
    /\ UNCHANGED <<gpu_mem_reservation, dev, amount, old_pool_size>>

\* The steps a running thread takes by itself once it has been called.
Step(w) ==
    \/ ReserveFetchAdd(w)
    \/ ReserveCheck(w)
    \/ ReserveRollback(w)
    \/ Allocate(w)
    \/ ReleaseLoad(w)
    \/ ReleaseSub(w)
    \/ Finish(w)

Next ==
    \E w \in Workers :
        \/ \E d \in Devices, a \in Amounts : CallReserve(w, d, a)
        \/ Step(w)

Spec == Init /\ [][Next]_vars

(***************************************************************************)
(* Threads are scheduled by the OS: a thread inside reserve, release or an *)
(* operation keeps running.  Nothing forces a caller to start a new call.  *)
(***************************************************************************)
FairSpec == Spec /\ \A w \in Workers : WF_vars(Step(w))

-----------------------------------------------------------------------------
(***************************************************************************)
(* Properties.                                                              *)
(***************************************************************************)

TypeOK ==
    /\ gpu_mem_reservation \in [Devices -> 0 .. Modulus - 1]
    /\ allocated \in [Devices -> Nat]
    /\ pc \in [Workers -> Locations]
    /\ dev \in [Workers -> Devices]
    /\ amount \in [Workers -> Amounts]
    /\ old_pool_size \in [Workers -> 0 .. Modulus - 1]

\* Workers whose amount is currently added into the counter of GPU d: from
\* their fetch_add until the matching fetch_sub (rollback or release).
InPool(d) == {w \in Workers : dev[w] = d /\
                              pc[w] \in {"check", "rollback", "alloc",
                                         "load", "sub"}}

\* The bytes of the current calls of the workers in S, one element per byte:
\* its cardinality is the sum of their amounts.
BytesOf(S) == UNION {{w} \X (1 .. amount[w]) : w \in S}

\* The bytes added into the counter of GPU d and not yet taken out.
PoolBytes(d) == BytesOf(InPool(d))

(***************************************************************************)
(* Counter conservation: across every interleaving of reserve tries,       *)
(* rollbacks and releases, gpu_mem_reservation[d] is exactly the sum of    *)
(* the amounts whose fetch_add has not yet been undone by a fetch_sub, and *)
(* so it never wraps around.                                                *)
(***************************************************************************)
CounterMatchesReservations ==
    \A d \in Devices : gpu_mem_reservation[d] = Cardinality(PoolBytes(d))

(***************************************************************************)
(* The assert!(current_pool_size >= amount) of release_memory_on_gpu never *)
(* fails for a worker that releases what it reserved, even though the load *)
(* and the fetch_sub are separate and other threads add and subtract in    *)
(* between.                                                                 *)
(***************************************************************************)
ReleaseNeverPanics == \A w \in Workers : pc[w] # "panicked"

(***************************************************************************)
(* Admission control works: memory admitted by reserve_memory_on_gpu never *)
(* overcommits a GPU, however the fetch_adds and checks of concurrent       *)
(* reserves interleave with allocations and releases.                       *)
(***************************************************************************)
NoOvercommit == \A d \in Devices : allocated[d] <= Capacity[d]

\* The workers inside reserve_memory_on_gpu for GPU d.
Reserving(d) == {w \in Workers : dev[w] = d /\ pc[w] \in {"add", "check", "rollback"}}

(***************************************************************************)
(* Progress of the retry loop of reserve_memory_on_gpu: while some worker  *)
(* tries to reserve on GPU d, eventually some worker's reserve on GPU d    *)
(* returns (spec section 4.3 allows one large request to starve, section 7 *)
(* says reserve eventually returns).                                        *)
(***************************************************************************)
ReserveProgress ==
    \A d \in Devices :
        Reserving(d) # {} ~> \E w \in Workers : dev[w] = d /\ pc[w] = "alloc"

\* Workers whose memory is allocated on GPU d.
Holding(d) == {w \in Workers : dev[w] = d /\ pc[w] \in {"load", "sub", "run"}}

(***************************************************************************)
(* The inductive invariant behind the proofs: TypeOK and the conservation  *)
(* of the counters need each other (a fetch_sub stays in range only        *)
(* because the counter holds the amount, and the counter is the sum only   *)
(* while it never wraps), and the type of allocated needs the memory on a  *)
(* GPU to be the sum of the amounts of the workers holding it.             *)
(***************************************************************************)
IInv ==
    /\ TypeOK
    /\ CounterMatchesReservations
    /\ \A d \in Devices : allocated[d] = Cardinality(BytesOf(Holding(d)))
    /\ ReleaseNeverPanics


-----------------------------------------------------------------------------
(***************************************************************************)
(* Refinement.  A worker inside reserve_memory_on_gpu (trying, or admitted *)
(* and about to allocate) is waiting; from its allocation until the        *)
(* operation ends it holds its bytes.  Only Allocate, CallReserve and      *)
(* Finish change the abstract state; the atomics are stuttering steps.     *)
(***************************************************************************)
StageOf(w) ==
    CASE pc[w] = "idle" -> "idle"
      [] pc[w] \in {"add", "check", "rollback", "alloc"} -> "waiting"
      [] OTHER -> "holding"

Admission == INSTANCE GpuAdmission WITH stage <- [w \in Workers |-> StageOf(w)]

(***************************************************************************)
(* The optimistic fetch_add / check / rollback protocol implements atomic  *)
(* admission: every allocation that follows a successful                   *)
(* reserve_memory_on_gpu fits next to what is already allocated on that   *)
(* GPU at the moment it is made, whatever other reserves, rollbacks and    *)
(* releases ran between the check and the allocation.                      *)
(***************************************************************************)
AdmissionRefinement == Admission!ASpec

=============================================================================
