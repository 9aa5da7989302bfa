# TLA+ models of the fhEVM coprocessor's GPU memory accounting and listener health check

This directory holds TLA+ specifications of two parts of the repository:

- `src/coprocessor/fhevm-engine/fhevm-engine-common/src/gpu_memory.rs`
- `src/coprocessor/fhevm-engine/fhevm-listener/src/health_check.rs`

It also holds the TLC models that check the specifications on small instances and the TLAPS proofs that hold for every instance.

## The system

**GPU memory accounting (`gpu_memory.rs`).** The code keeps one `AtomicU64` per GPU, `gpu_mem_reservation`.

- A worker thread first prices an FHE operation with `get_op_size_on_gpu`.
- It then calls `reserve_memory_on_gpu(amount, idx)`, a loop:
  1. `fetch_add` the amount;
  2. ask `check_valid_cuda_malloc(old_pool_size + amount)` whether the device still has room;
  3. on failure, `fetch_sub` the amount back, sleep 2 ms and retry.
- Once it has allocated, the worker calls `release_memory_on_gpu`, which does three separate steps:
  1. `load` the counter;
  2. `assert!` that the counter covers the amount;
  3. `fetch_sub` the amount.

Many workers run at once, so every atomic access can interleave with every other.

**Health check (`health_check.rs`).** A `Tick` is an `RwLock<u64>` holding the wall-clock second of the last activity.

- The listener loops call `Tick::update`.
- `health_check` calls `is_alive`, which asks whether the blockchain tick or the timeout tick is recent within 20 s. It then asks whether the blockchain tick and the database tick are recent within 5 s.
- When a tick is not recent, `health_check` falls back to real I/O: it asks the provider, or the database pool.
- `update` and `is_recent` both read `SystemTime::now()` *before* awaiting the lock.

## Modules

| Module | Models | State | Actions |
|---|---|---|---|
| `GpuReservation` | `gpu_mem_reservation`, `reserve_memory_on_gpu`, `release_memory_on_gpu` and the caller protocol around them | counters, allocated bytes per GPU, each worker's pc, device, amount and `old_pool_size` | `CallReserve`, `ReserveFetchAdd`, `ReserveCheck`, `ReserveRollback`, `Allocate`, `ReleaseLoad`, `ReleaseSub`, `Finish` |
| `GpuAdmission` | what the pool promises: admission and allocation in one atomic step | allocated bytes per GPU, each worker's stage (`idle`, `waiting`, `holding`), device and amount | `Request`, `Admit`, `Free` |
| `GpuReservationProofs` | TLAPS proofs about `GpuReservation` | – | – |
| `GpuReservationHistory` | `GpuReservation` with the history variable `seen`: the order of the `fetch_add`s | adds `seen` | `HNext` = `Next` with `seen` updated |
| `GpuReservationHistoryProofs` | TLAPS proofs of `NoOvercommit` and the refinement | – | – |
| `CostEstimator` | `get_op_size_on_gpu`: all 26 match blocks | the last call (`op`, `ins`) and its result `cost` | `Estimate(o, i)`, `Consume` |
| `CostEstimatorProofs` | TLAPS proofs of the cost estimator's two invariants | – | – |
| `HealthCheck` | `Tick::new/update/is_recent`, `health_check`, `is_alive` | clock, the three ticks, the provider's presence, updater and checker program counters, what each `is_recent` read, the `now` behind each checker's answer | `Advance`, `StepBack`, `UpdateNow`, `UpdateWrite`, `ReplaceProvider`, `StartCheck`, `RecentNow`, `RecentNowErr`, `RecentRead`, `ProbeBlockchain`, `ProbeDatabase`, `Return` |
| `HealthVerdict` | what `health_check` promises about its `is_alive` verdict, with the locks and the two-step reads abstracted away | clock, ticks, each check's stage (`idle`, `alive`, `rest`, `panicked`), start time and verdict | `Elapse`, `Refresh`, `Begin`, `Verdict`, `Finish`, `Panic` |
| `HealthVerdictProofs` | TLAPS proof that `HealthCheck` refines `HealthVerdict`, with its inductive invariant `VerdictInv` | – | – |
| `HealthCheckProofs` | TLAPS proofs of the health check's type and safety invariants | – | – |
| `MC_*` | TLC instances (model values, small sets, symmetry) | | |

### How the modules correspond to the code

**Atomic steps.** Each atomic access of `reserve_memory_on_gpu` and `release_memory_on_gpu` is one action. The non-atomic code between two atomics is folded into the action that follows it:

- the check and the branch of the loop form `ReserveCheck`;
- the `fetch_sub` and the sleep form `ReserveRollback`;
- the `load` and the `assert!` form `ReleaseLoad`.

**Counter width.** The counters are kept modulo `2^Width`, as `AtomicU64` is.

**The caller and CUDA.** The caller is not part of the sources. `CallReserve`, `Allocate` and `Finish` follow the protocol described in the comment above `reserve_memory_on_gpu`, so these three actions are marked spec-modelled in `PROJECT.json`. `check_valid_cuda_malloc` is modelled as "the size plus the memory already allocated fits the capacity".

**The cost estimator.** The byte counts come from tfhe, so the model abstracts them. An estimate is the *leaf call* the dispatch makes: which size function, on which receiver type, with which second argument (a ciphertext type, a scalar coerced to `N` bits, the `bool` of BitAnd, or an `i16` type tag). The model keeps:

- every `assert_eq!` on the operand count;
- every arm and every `panic!()`;
- the early `return 0` of IfThenElse, Rand and RandBounded;
- the `FheUint2` promotion of FheBool;
- out-of-bounds indexing;
- `to_be_u16_bit(..) as i16`.

The scalar bytes are a small set of big-endian values.

**The health check.** `update` and `is_recent` are each two steps, so other tasks run between the clock read and the lock access. The model keeps:

- the short-circuit `||` of `is_alive`;
- the if/else-if chain of the blockchain check;
- u64 wraparound (in a release build) or a panic (with `OverflowChecks`).

Every run sets `OverflowChecks` to FALSE (a release build). The panic branch of a debug build is covered only by the proofs, which hold for both values.

The clock is the wall clock. When the constant `ClockStepsBack` is TRUE, `StepBack` may set it to any earlier second, down to `PreEpoch` (-1), a time before `UNIX_EPOCH`. Then `duration_since` fails:

- `Tick::new` stores 0;
- `update` returns without writing;
- `is_recent` answers `false` (`RecentNowErr`).

The I/O probes are nondeterministic answers. With `provider = None`, the blockchain check is `false`.

## Runs

All runs are listed in `PROJECT.json`.

**`gpu_reservation_safety` (pass).**

- Bounds: three workers, two GPUs of 2 and 3 bytes, amounts 0..2, 3-bit counters, worker symmetry; 410k distinct states.
- The capacities are chosen so that two requests fit alone and not together. Failed checks, rollbacks and concurrent releases therefore all occur, and a dropped guard overcommits.
- It checks:
  - `CounterMatchesReservations`: each counter equals the bytes added and not yet removed;
  - `ReleaseNeverPanics`;
  - `NoOvercommit`: allocated memory never exceeds capacity;
  - `AdmissionRefinement`: the run implements `GpuAdmission` under the mapping below.

The type invariant and the inductive invariant `IInv` are not checked as properties of their own: the counters stay in range by the modular arithmetic of `WrapAdd`/`WrapSub` whatever the code does, so they could not show a fault of the code. `IInv` is the lemma the proofs rest on.

**`gpu_reservation_livelock` (violation).** Two weakly fair workers share one 3-byte GPU. The run checks `ReserveProgress` and TLC finds a livelock, but not a lock-step one. If both workers add, both fail and both roll back, the next worker to add finds an empty pool and passes. The cycle TLC finds needs each worker's `fetch_add` to land while the other's failed reservation is still in the counter:

1. w1 rolls back and adds again while w2 is between its `fetch_add` and its rollback, so w1's check fails;
2. w2 rolls back and adds again while w1 is still between its `fetch_add` and its rollback, so w2's check fails;
3. and so on.

In the code a failed try rolls back and then sleeps 2 ms (lines 74-75) before its next `fetch_add`. So each round needs the other worker's `check_valid_cuda_malloc` (line 70) still to be running when those 2 ms are over: every check delayed beyond the sleep. The model drops the sleep's duration, so this is the schedule the code's control flow permits, not a likely one. Nothing in the code (no backoff, no bound on retries) rules it out.

**`cost_estimator_dispatch` (pass).** The run covers every operation code over every operand list of length 0..3. Operands are drawn from all 12 ciphertext types and three scalar values (3, 12 and 40000): 12 is the first tag past the Rand table, and 40000 is negative as an `i16`. It checks:

- `TypeOK`: tags are in i16 range. It pins only the range of `as i16`: a negative tag reaching `trivial_encrypt_be_bytes` is within it;
- `AcceptedShapesAreSpecLegal`: a size is returned only for a shape spec §4.2 allows.

A panic aborts the process, so deadlock checking is off.

**`cost_estimator_spec_shapes`, `cost_estimator_rand_zero`, `cost_estimator_arity` (violations).** These are the places where the dispatch and spec §4.2 disagree. They are recorded as findings.

**`health_check_alive` (pass).** One checker and two updaters of the blockchain tick, a clock of 0..3, windows 2 and 1 (the scaled 20 s and 5 s), and 3-bit wraparound. It checks:

- `AliveBackedByActivity`: "alive" only ever rests on a tick refreshed within the window before the check began, even when the difference wraps;
- `VerdictRefinement`: `health_check` implements `HealthVerdict`. A check's stage maps to `alive` while it is at either `is_recent` of `is_alive`, and to `rest` from the connection checks until it returns. `StartCheck` is `Begin`, the read that leaves `is_alive` is `Verdict`, `Return` is `Finish` and a panicking read is `Panic`. `UpdateWrite` is `Refresh` and `Advance` is `Elapse`. All other steps are stutters: `UpdateNow`, `RecentNow`, `ReplaceProvider`, the probes, and the reads that stay inside `is_alive` or inside the connection checks.

The abstract `Verdict` may answer alive only if an `is_alive` tick, at that moment, is no later than the clock and less than the window before the check began. Answering not alive is always allowed. The code needs this: `health_check_fresh_tick` shows a fresh tick read as stale.

**`health_check_clock_step` (pass).** One updater, a clock of -1..2 that can be set back, and 3-bit wraparound; 970k distinct states. It checks:

- `AliveNeverFromFutureTick`: after a step back, a tick written before the step lies ahead of `now`, and `now - tick` wraps to a huge value. A checker never answers alive on such a tick. It is the wrap, not a saturating subtraction, that keeps the answer `false`.

**`health_check_clock_step_stale` (violation).** The same instance checks `AliveBackedByActivity`. It fails in five steps:

1. the clock reaches 2;
2. a check starts, and the tick written at 0 is already a full window old;
3. the clock is set back to 0;
4. `is_recent` reads `now = 0`;
5. the tick reads as fresh, so a stalled listener is reported alive.

The spec describes a monotonically refreshed timestamp. This is recorded as a finding.

**`gpu_reservation_history` (pass).** It checks the inductive invariant `HInv` of the `NoOvercommit` proof on the safety instance.

**`health_check_fresh_tick`, `health_check_tick_monotonic` (violations).**

- An update that lands between `is_recent`'s clock read and its lock read makes `now - tick` underflow, so a fresh tick reads as stale.
- Two updates can write in reverse order, so the tick moves back.

**Mutants.** Every property of a passing run is killed by a mutant of the definition it is about. The mutants are plausible code slips:

| Mutant | Kills |
|---|---|
| checking only the worker's own amount | `NoOvercommit` |
| a missing rollback | `CounterMatchesReservations` |
| a strict `>` in the assert | `ReleaseNeverPanics` |
| FheBool arms in Shl | `AcceptedShapesAreSpecLegal` |
| the `as i16` left out | cost estimator `TypeOK` |
| signed subtraction | health check `TypeOK` |
| `<=` for `<` in `is_recent` | `AliveBackedByActivity`, `VerdictRefinement` |
| the rollback breaking out of the loop as if admitted | `AdmissionRefinement` |
| the check counting only the worker's own amount | `HInv` |
| a saturating `now - tick` | `AliveNeverFromFutureTick` |

## Fairness

`FairSpec` gives each worker weak fairness on its own steps (`Step(w)`): an OS thread inside `reserve`, `release` or a running operation keeps being scheduled. Starting a new call is not forced. The other specifications are checked for safety only.

## Proofs (TLAPS)

`GpuReservationProofs` proves the following for all finite non-empty sets of workers, all non-empty sets of GPUs, all capacities, and every counter width with `|Workers| * MaxAmount < 2^Width`:

- `Conservation`: `Spec => []CounterMatchesReservations`
- `NoPanic`: `Spec => []ReleaseNeverPanics`

The width condition is `WidthAssumption`, and it is what the code needs: with 64-bit counters it always holds in practice.

**Why a strengthened invariant.** `TypeOK` and conservation are not inductive on their own; each needs the other:

- a `fetch_sub` stays in range only because the counter holds the amount;
- the counter equals the sum only while it never wraps;
- the type of `allocated` needs the memory on a GPU to equal the sum of the holders' amounts.

`IInv` is the conjunction of `TypeOK`, conservation, that allocation equation and `ReleaseNeverPanics`; the lemma `Invariance` proves `Spec => []IInv`.

**How the sums are represented.** Sums are stated as cardinalities of byte sets: `BytesOf(S)` is the union of `{w} \X 1..amount[w]`. This turns "add a worker to the pool" into a disjoint union, which the `FiniteSetTheorems` facts handle, so no induction over a recursive sum is needed. The lemmas are:

- `ByteSetAdd` and `ByteSetRemove`;
- `ByteSetBound`: the pool is below `2^Width`;
- `FetchAddPreserves` and `FetchSubPreserves`;
- one preservation lemma per action.

`NextIInv` combines them.

**Admission and the refinement.** `GpuReservationHistoryProofs` proves the following, under the same assumptions:

- `HistoryInvariance`: `HSpec => []HInv`;
- `NoOvercommitProved`: `HSpec => []NoOvercommit`;
- `Implementation`: `HSpec => AdmissionRefinement`.

These are theorems of `HSpec`. They carry over to `Spec` because `seen` is a history variable: `SeenNext` only records, in `seen'`, a function of the step it accompanies and never disables a step of `Next`, so every behaviour of `Spec` extends to one of `HSpec`. That argument is not itself a TLAPS proof; the direction a proof could give (`HSpec => Spec`) holds by the definition of `HNext` and says nothing about the code, so it is not stated.

The refinement mapping sends each worker's `pc` to a stage:

- `idle` before `CallReserve` and after `Finish`;
- `waiting` from `CallReserve` until `Allocate`;
- `holding` from `Allocate` until `Finish` (through `ReleaseLoad` and `ReleaseSub`).

`Allocate` maps to `Admit`, `CallReserve` to `Request` and `Finish` to `Free`. Every other step is a stutter.

**Why `seen`.** `NoOvercommit` is not a property of one state's counters. A check is sound because it counted every worker whose `fetch_add` came before it, and every later worker counts it in turn. `seen[x]` records the workers already in the pool when `x` added, and still there. The invariant `HInv` adds to `IInv`:

- `SeenTotal`: of two workers in a pool, one came first;
- `SeenTransitive`;
- `OldCoversSeen`: `old_pool_size` covers the bytes of the workers seen;
- `AdmittedFits`: an admitted worker fits next to the allocated memory and the pending workers it saw.

`AdmittedFits` gives both `NoOvercommit` and `Admit`'s guard at each `Allocate`. The history variable is needed because TLAPS cannot reason about the hidden order directly. TLC checks `HInv` first, in `gpu_reservation_history`.

**The cost estimator.** `CostEstimatorProofs` proves, for every set of scalar values `ScalarValues \subseteq Nat`:

- `TypeCorrect`: `Spec => []TypeOK`, so every tag is an `i16`;
- `AcceptedShapesLegal`: `Spec => []AcceptedShapesAreSpecLegal`.

Both the runs and the theorems cover operand lists up to length 3 (`Inputs`); the theorems generalise over the scalar values, not over the length of the list. `CostOK(o, i, c)` is the conjunction of the properties for one call, plus the coerced widths that `TypeOK` needs. There is one lemma per kind of match block: binary, unary, bitwise-and, if-then-else, cast and rand. `DispatchOK` combines them over all 26 operation codes. `EstimateInv` is the inductive invariant: the held cost is either no call or `GetOpSizeOnGpu` of the held operation and operands. `DispatchOK` then gives `CostOK` for that cost. The properties speak only of the state, and this equation is what ties the state to a call of the function. `ScalarBitsAreSpecWidths` gives, type by type, the coerced width that `TypeOK` bounds. The i16 range is written as `{x \in Int : -32768 <= x /\ x <= 32767}` rather than as an interval: the SMT backend is very slow on intervals with large literal bounds.

**The health check.** `HealthCheckProofs` proves, for every width, clock bound and pair of windows with `MaxTime + IsAliveFreshness < 2^Width` (`TimeAssumption`, the condition that wraparound makes a future tick look old):

- `TypeCorrect`: `Spec => []TypeOK`, including the Err branches of `duration_since`;
- `NoAliveFromFutureTick`: `Spec => []AliveNeverFromFutureTick`, with clock steps back allowed;
- `AliveBackedProved`: `ASSUME ~ClockStepsBack PROVE Spec => []AliveBackedByActivity`.

The lemma `RecentIsPast` carries both safety theorems. If `is_recent` answers true within `IsAliveFreshness`, the tick is not in the future: `t <= now` and `now - t < IsAliveFreshness`. A future tick makes `(now - t) % 2^Width` at least `2^Width - MaxTime`, which exceeds the window by `TimeAssumption`. `AliveBackedByActivity` relates the answer to when the check began, and that is not inductive: it needs the clock to stay in range, `started <= clock`, and `started <= cnow` for a checker holding a lock. `AliveInv` adds these facts; `AliveInvInit` and `AliveInvNext` show it inductive. The step-back action breaks `started <= clock`, and that is why the theorem assumes a monotonic clock.

**The `is_alive` verdict as a refinement.** `HealthVerdictProofs` proves, under `TimeAssumption` and `~ClockStepsBack`:

- `VerdictRefined`: `Spec => VerdictRefinement`, that is `Spec => Abstract!HSpec`.

It rests on the lemma `VerdictInvariant` (`Spec => []VerdictInv`): `AliveInv`, plus no `now` held by an updater or a checker is ahead of the clock, and the verdict is still false while `is_alive` runs. It holds for every number of checkers and updaters, and with or without overflow checks.

The step lemma `VerdictStep` takes one case per action. `Refresh`'s guard needs `unow <= clock`. `Verdict`'s guard needs the now that `is_recent` compared with to lie between the check's start (`AliveInv`) and the clock (`VerdictInv`). `RecentIsPast` then puts the tick no later than that now and less than the window before it. The false answer of `alive_bc` is a stutter only because the verdict is still false then, which `VerdictInv` states. `StageUpdate`, `StageKept` and `StageSame` say how one checker's move changes the mapped stage function. A clock that steps back breaks `Refresh`'s guard and `Verdict`'s, as `health_check_clock_step_stale` shows, so the theorem assumes it does not.

## Only model-checked

- `ReserveProgress` and all liveness: TLAPS does not handle liveness under fairness or `ENABLED`.
- `AliveBackedByActivity` when the clock can step back: it does not hold then (`health_check_clock_step_stale`), so it is proved only for a monotonic clock.
- The violation runs: each is a counterexample trace, and TLC's trace is the evidence.

## Not modelled

- `move_to_current_device`, `get_size_on_gpu` and `get_supported_ct_size_on_gpu` are per-variant forwards to tfhe. They have no state in this repository.
- The actual byte counts of the tfhe size functions.
- The contents of `HealthStatus` and `get_version`.

## Plan for later sittings

- Model the real caller of the reservation functions once it is under `src/`.
- A weaker abstract verdict that also holds when the clock steps back: for example, alive rests on a tick no later than the `now` it was compared with, which `NoAliveFromFutureTick` already proves.
