---------------------------- MODULE HealthCheck ----------------------------
(***************************************************************************)
(* The liveness/readiness monitor of fhevm-listener/health_check.rs.       *)
(*                                                                          *)
(* A Tick is an Arc<RwLock<u64>> holding the wall-clock second of the last *)
(* activity.  Tick::update reads SystemTime::now() and then awaits the     *)
(* write lock; Tick::is_recent reads now and then awaits the read lock and *)
(* computes now - tick < seconds in u64.  Each of them is two steps here,  *)
(* so that other tasks run between the read of the clock and the access to *)
(* the tick.  health_check runs is_alive (two is_recent calls), then the   *)
(* blockchain and the database checks, each of which falls back to real    *)
(* I/O (a nondeterministic answer here) when its tick is not recent.       *)
(*                                                                          *)
(* The tasks that call update (the listener loops) are not part of the     *)
(* sources: Updaters and UpdaterTick say which task refreshes which tick.  *)
(*                                                                          *)
(* SystemTime is the wall clock, not a monotonic one: with ClockStepsBack   *)
(* it may be set back, as far as before UNIX_EPOCH (the value PreEpoch),   *)
(* where duration_since fails and new, update and is_recent take their Err *)
(* branches.                                                                *)
(***************************************************************************)
EXTENDS Integers

CONSTANTS
    Checkers,           \* concurrent health_check calls
    Updaters,           \* tasks calling Tick::update
    UpdaterTick,        \* the tick each updater refreshes
    MaxTime,            \* last second of wall-clock time explored
    IsAliveFreshness,   \* IS_ALIVE_TICK_FRESHNESS (20 s), scaled
    ConnectedFreshness, \* CONNECTED_TICK_FRESHNESS (5 s), scaled
    Width,              \* bit width of the seconds (64)
    OverflowChecks,     \* TRUE: a debug build, u64 underflow panics
    ClockStepsBack      \* TRUE: the wall clock may be set back

TickNames == {"blockchain_timeout_tick", "blockchain_tick", "database_tick"}

\* 2^Width: u64 subtraction wraps around modulo this in a release build.
Modulus == 2^Width

ASSUME UpdaterAssumption == UpdaterTick \in [Updaters -> TickNames]
ASSUME TimeAssumption ==
    /\ MaxTime \in Nat
    /\ {IsAliveFreshness, ConnectedFreshness} \subseteq Nat \ {0}
    /\ Width \in Nat
    /\ MaxTime + IsAliveFreshness < Modulus
ASSUME BuildAssumption == OverflowChecks \in BOOLEAN /\ ClockStepsBack \in BOOLEAN

\* Any instant before UNIX_EPOCH: SystemTime::now().duration_since fails.
PreEpoch == -1

VARIABLES
    clock,     \* SystemTime::now() in seconds since UNIX_EPOCH
    tick,      \* the value behind each Tick's RwLock
    provider,  \* blockchain_provider: TRUE for Some(provider)
    upc,       \* each updater: "idle" or "write" (now read, awaiting the lock)
    unow,      \* the now an updater read
    pc,        \* each checker's place in health_check
    phase,     \* inside is_recent: "now" to read the clock, "lock" to read tick
    cnow,      \* the now a checker's current is_recent read
    last,      \* the last is_recent of each checker: tick, read value, result
    alive,     \* check_alive of each checker
    bc_ok,     \* the "blockchain_provider" check of each checker
    db_ok,     \* the "database" check of each checker
    started,   \* the clock when each checker's health_check began
    alive_tick, \* the tick value that made is_alive answer TRUE (history)
    alive_now   \* the now it was compared with (history)

vars == <<clock, tick, provider, upc, unow, pc, phase, cnow, last, alive,
          bc_ok, db_ok, started, alive_tick, alive_now>>

Times == 0 .. MaxTime

\* The readings of the wall clock: seconds since UNIX_EPOCH, or PreEpoch.
Clocks == {PreEpoch} \cup Times

(***************************************************************************)
(* The is_recent calls of health_check, in order, with their tick and      *)
(* their freshness.                                                         *)
(***************************************************************************)
Stages == {"alive_bc", "alive_to", "conn_bc", "conn_db"}
StageTick == [alive_bc |-> "blockchain_tick", alive_to |-> "blockchain_timeout_tick",
              conn_bc |-> "blockchain_tick", conn_db |-> "database_tick"]
StageWindow == [alive_bc |-> IsAliveFreshness, alive_to |-> IsAliveFreshness,
                conn_bc |-> ConnectedFreshness, conn_db |-> ConnectedFreshness]

Locations == Stages \cup {"idle", "probe_bc", "probe_db", "done", "panicked"}

NoRead == [tick |-> "none", read |-> 0, at |-> 0, window |-> 0, diff |-> 0,
           recent |-> FALSE]

\* Tick::new(): every tick starts at the current second, or at 0 when the
\* clock reads before UNIX_EPOCH.
Init ==
    /\ clock \in IF ClockStepsBack THEN {PreEpoch, 0} ELSE {0}
    /\ tick = [t \in TickNames |-> IF clock = PreEpoch THEN 0 ELSE clock]
    /\ provider = TRUE
    /\ upc = [u \in Updaters |-> "idle"]
    /\ unow = [u \in Updaters |-> 0]
    /\ pc = [c \in Checkers |-> "idle"]
    /\ phase = [c \in Checkers |-> "now"]
    /\ cnow = [c \in Checkers |-> 0]
    /\ last = [c \in Checkers |-> NoRead]
    /\ alive = [c \in Checkers |-> FALSE]
    /\ bc_ok = [c \in Checkers |-> FALSE]
    /\ db_ok = [c \in Checkers |-> FALSE]
    /\ started = [c \in Checkers |-> 0]
    /\ alive_tick = [c \in Checkers |-> 0]
    /\ alive_now = [c \in Checkers |-> 0]

\* Wall-clock time passes.
Advance ==
    /\ clock < MaxTime
    /\ clock' = clock + 1
    /\ UNCHANGED <<tick, provider, upc, unow, pc, phase, cnow, last, alive,
                   bc_ok, db_ok, started, alive_tick, alive_now>>

\* The wall clock is set back (NTP step, manual change), possibly to before
\* UNIX_EPOCH.
StepBack ==
    /\ ClockStepsBack
    /\ \E t \in Clocks : t < clock /\ clock' = t
    /\ UNCHANGED <<tick, provider, upc, unow, pc, phase, cnow, last, alive,
                   bc_ok, db_ok, started, alive_tick, alive_now>>

\* Tick::update: let now = SystemTime::now() ... (on Err it returns at once,
\* which changes nothing)
UpdateNow(u) ==
    /\ upc[u] = "idle"
    /\ clock # PreEpoch
    /\ upc' = [upc EXCEPT ![u] = "write"]
    /\ unow' = [unow EXCEPT ![u] = clock]
    /\ UNCHANGED <<clock, tick, provider, pc, phase, cnow, last, alive, bc_ok,
                   db_ok, started, alive_tick, alive_now>>

\* ... *self.0.write().await = now.as_secs()
UpdateWrite(u) ==
    LET t == UpdaterTick[u] IN
    /\ upc[u] = "write"
    /\ upc' = [upc EXCEPT ![u] = "idle"]
    /\ tick' = [tick EXCEPT ![t] = unow[u]]
    /\ UNCHANGED <<clock, provider, unow, pc, phase, cnow, last, alive, bc_ok,
                   db_ok, started, alive_tick, alive_now>>

\* The provider is taken out (None) while it is replaced, then put back.
ReplaceProvider ==
    /\ provider' = ~provider
    /\ UNCHANGED <<clock, tick, upc, unow, pc, phase, cnow, last, alive, bc_ok,
                   db_ok, started, alive_tick, alive_now>>

\* health_check() is called; it starts with is_alive().
StartCheck(c) ==
    /\ pc[c] = "idle"
    /\ pc' = [pc EXCEPT ![c] = "alive_bc"]
    /\ started' = [started EXCEPT ![c] = clock]
    /\ alive' = [alive EXCEPT ![c] = FALSE]
    /\ bc_ok' = [bc_ok EXCEPT ![c] = FALSE]
    /\ db_ok' = [db_ok EXCEPT ![c] = FALSE]
    /\ alive_tick' = [alive_tick EXCEPT ![c] = 0]
    /\ alive_now' = [alive_now EXCEPT ![c] = 0]
    /\ UNCHANGED <<clock, tick, provider, upc, unow, phase, cnow, last>>

\* Mutant: the difference is taken in signed arithmetic.
WrapDiffSigned(now, t) == now - t

\* Mutant: the difference saturates at 0 instead of wrapping.
WrapDiffSaturating(now, t) == IF t > now THEN 0 ELSE now - t

\* The u64 subtraction now.as_secs() - *tick of a release build.
WrapDiff(now, t) == (now + Modulus - t) % Modulus

\* Mutant: the freshness bound is inclusive.
IsRecentInclusive(now, t, seconds) == WrapDiff(now, t) <= seconds

\* now.as_secs() - *tick < seconds
IsRecent(now, t, seconds) == WrapDiff(now, t) < seconds

\* Where health_check goes once is_recent at stage s has answered r.
NextStage(s, r) ==
    CASE s = "alive_bc" -> IF r THEN "conn_bc" ELSE "alive_to"
      [] s = "alive_to" -> "conn_bc"
      [] s = "conn_bc" -> IF r THEN "conn_db" ELSE "probe_bc"
      [] s = "conn_db" -> IF r THEN "done" ELSE "probe_db"

(***************************************************************************)
(* What health_check does with the answer r of is_recent at stage s, which *)
(* compared tick value v with now: is_alive's ||, and the                  *)
(* set_custom_check(.., true, ..) of a recent connection tick.             *)
(***************************************************************************)
Answer(c, s, r, v, now) ==
    /\ pc' = [pc EXCEPT ![c] = NextStage(s, r)]
    /\ alive' = [alive EXCEPT ![c] = IF s \in {"alive_bc", "alive_to"} THEN r ELSE @]
    /\ alive_tick' = [alive_tick EXCEPT ![c] =
                         IF s \in {"alive_bc", "alive_to"} /\ r THEN v ELSE @]
    /\ alive_now' = [alive_now EXCEPT ![c] =
                        IF s \in {"alive_bc", "alive_to"} /\ r THEN now ELSE @]
    /\ bc_ok' = [bc_ok EXCEPT ![c] = IF s = "conn_bc" THEN r ELSE @]
    /\ db_ok' = [db_ok EXCEPT ![c] = IF s = "conn_db" THEN r ELSE @]

\* is_recent: let now = SystemTime::now() ...
RecentNow(c) ==
    /\ pc[c] \in Stages
    /\ phase[c] = "now"
    /\ clock # PreEpoch
    /\ phase' = [phase EXCEPT ![c] = "lock"]
    /\ cnow' = [cnow EXCEPT ![c] = clock]
    /\ UNCHANGED <<clock, tick, provider, upc, unow, pc, last, alive, bc_ok,
                   db_ok, started, alive_tick, alive_now>>

\* is_recent: let Ok(now) = now else { return false };
RecentNowErr(c) ==
    /\ pc[c] \in Stages
    /\ phase[c] = "now"
    /\ clock = PreEpoch
    /\ Answer(c, pc[c], FALSE, 0, 0)
    /\ last' = [last EXCEPT ![c] = NoRead]
    /\ UNCHANGED <<clock, tick, provider, upc, unow, phase, cnow, started>>

(***************************************************************************)
(* ... let tick = self.0.read().await; now.as_secs() - *tick < seconds.    *)
(* A tick newer than the now read first underflows: a panic with overflow *)
(* checks, a huge difference otherwise.                                     *)
(***************************************************************************)
RecentRead(c) ==
    LET s == pc[c]
        v == tick[StageTick[s]]
        r == IsRecent(cnow[c], v, StageWindow[s])
    IN
    /\ s \in Stages
    /\ phase[c] = "lock"
    /\ phase' = [phase EXCEPT ![c] = "now"]
    /\ cnow' = [cnow EXCEPT ![c] = 0]   \* the local now goes out of scope
    /\ IF OverflowChecks /\ v > cnow[c]
       THEN /\ pc' = [pc EXCEPT ![c] = "panicked"]
            /\ UNCHANGED <<last, alive, bc_ok, db_ok, alive_tick, alive_now>>
       ELSE /\ Answer(c, s, r, v, cnow[c])
            /\ last' = [last EXCEPT ![c] = [tick |-> StageTick[s], read |-> v,
                                            at |-> clock, window |-> StageWindow[s],
                                            diff |-> WrapDiff(cnow[c], v),
                                            recent |-> r]]
    /\ UNCHANGED <<clock, tick, provider, upc, unow, started>>

(***************************************************************************)
(* The blockchain tick is stale: with Some(provider), the cloned provider  *)
(* is asked (set_blockchain_connected, I/O); with None, the check fails.   *)
(* The database check then starts.                                          *)
(***************************************************************************)
ProbeBlockchain(c) ==
    /\ pc[c] = "probe_bc"
    /\ \E ok \in IF provider THEN BOOLEAN ELSE {FALSE} :
           bc_ok' = [bc_ok EXCEPT ![c] = ok]
    /\ pc' = [pc EXCEPT ![c] = "conn_db"]
    /\ UNCHANGED <<clock, tick, provider, upc, unow, phase, cnow, last, alive,
                   db_ok, started, alive_tick, alive_now>>

\* The database tick is stale: the cloned pool is asked (set_db_connected).
ProbeDatabase(c) ==
    /\ pc[c] = "probe_db"
    /\ \E ok \in BOOLEAN : db_ok' = [db_ok EXCEPT ![c] = ok]
    /\ pc' = [pc EXCEPT ![c] = "done"]
    /\ UNCHANGED <<clock, tick, provider, upc, unow, phase, cnow, last, alive,
                   bc_ok, started, alive_tick, alive_now>>

\* health_check returns its status; the caller may call it again.
Return(c) ==
    /\ pc[c] = "done"
    /\ pc' = [pc EXCEPT ![c] = "idle"]
    /\ UNCHANGED <<clock, tick, provider, upc, unow, phase, cnow, last, alive,
                   bc_ok, db_ok, started, alive_tick, alive_now>>

Next ==
    \/ Advance
    \/ StepBack
    \/ ReplaceProvider
    \/ \E u \in Updaters : UpdateNow(u) \/ UpdateWrite(u)
    \/ \E c \in Checkers :
          \/ StartCheck(c) \/ RecentNow(c) \/ RecentNowErr(c) \/ RecentRead(c)
          \/ ProbeBlockchain(c) \/ ProbeDatabase(c) \/ Return(c)

Spec == Init /\ [][Next]_vars

-----------------------------------------------------------------------------
(***************************************************************************)
(* Properties.                                                              *)
(***************************************************************************)

\* What an is_recent call of a checker read, and the u64 difference it took.
Reads == [tick : TickNames \cup {"none"}, read : Times, at : Clocks,
          window : {0, IsAliveFreshness, ConnectedFreshness},
          diff : 0 .. Modulus - 1, recent : BOOLEAN]

TypeOK ==
    /\ clock \in Clocks
    /\ tick \in [TickNames -> Times]
    /\ provider \in BOOLEAN
    /\ upc \in [Updaters -> {"idle", "write"}]
    /\ unow \in [Updaters -> Times]
    /\ pc \in [Checkers -> Locations]
    /\ phase \in [Checkers -> {"now", "lock"}]
    /\ cnow \in [Checkers -> Times]
    /\ alive \in [Checkers -> BOOLEAN]
    /\ bc_ok \in [Checkers -> BOOLEAN]
    /\ db_ok \in [Checkers -> BOOLEAN]
    /\ started \in [Checkers -> Clocks]
    /\ alive_tick \in [Checkers -> Times]
    /\ alive_now \in [Checkers -> Times]
    /\ last \in [Checkers -> Reads]

(***************************************************************************)
(* is_alive() never reports a dead service as alive: when it says alive,  *)
(* the tick that made it say so (blockchain or timeout) was refreshed less *)
(* than IS_ALIVE_TICK_FRESHNESS before health_check began, whatever        *)
(* updates and clock ticks interleave with its two is_recent calls and     *)
(* however the u64 difference wraps.                                        *)
(***************************************************************************)
AliveBackedByActivity ==
    \A c \in Checkers :
        alive[c] => alive_tick[c] + IsAliveFreshness > started[c]

(***************************************************************************)
(* The inductive invariant behind AliveBackedByActivity on a wall clock    *)
(* that only advances: a check began no later than now, an is_recent that *)
(* holds its now is inside a check and read that now after the check     *)
(* began, and alive rests on a tick fresh at the start of the check.      *)
(***************************************************************************)
AliveInv ==
    /\ TypeOK
    /\ clock \in Times
    /\ \A c \in Checkers :
          /\ started[c] <= clock
          /\ phase[c] = "lock" => pc[c] \in Stages /\ started[c] <= cnow[c]
    /\ AliveBackedByActivity

(***************************************************************************)
(* A tick ahead of the clock (written after the now of is_recent was read, *)
(* or before the wall clock was set back) never makes is_alive answer      *)
(* alive: the u64 difference now - tick wraps to a huge value, and with    *)
(* overflow checks the subtraction panics.  An is_recent that clamped the  *)
(* difference at 0 would report any future tick as fresh.                  *)
(***************************************************************************)
AliveNeverFromFutureTick ==
    \A c \in Checkers : alive[c] => alive_tick[c] <= alive_now[c]

(***************************************************************************)
(* The freshness pattern of spec section 6: is_recent answers "not recent" *)
(* only for a tick that is older than the window when it is read.          *)
(***************************************************************************)
FreshTickIsRecent ==
    \A c \in Checkers :
        last[c].tick # "none" /\ ~last[c].recent =>
            last[c].at >= last[c].read + last[c].window

(***************************************************************************)
(* Spec section 6: a tick is a monotonically refreshed timestamp; no       *)
(* update moves it back in time.                                            *)
(***************************************************************************)
TickMonotonic == [][\A t \in TickNames : tick'[t] >= tick[t]]_tick

-----------------------------------------------------------------------------
(***************************************************************************)
(* Refinement.  A check that is inside is_alive (at either of its two      *)
(* is_recent calls) is deciding its verdict; from the connection checks    *)
(* until it returns, the verdict is made.  The read that leaves is_alive   *)
(* is the abstract Verdict; every other step of a checker, of an updater   *)
(* reading the clock, and of the provider is a stutter.                    *)
(***************************************************************************)
VerdictStage(c) ==
    CASE pc[c] = "idle" -> "idle"
      [] pc[c] \in {"alive_bc", "alive_to"} -> "alive"
      [] pc[c] = "panicked" -> "panicked"
      [] OTHER -> "rest"

Abstract == INSTANCE HealthVerdict
               WITH stage <- [c \in Checkers |-> VerdictStage(c)],
                    AliveTicks <- {"blockchain_tick", "blockchain_timeout_tick"}

(***************************************************************************)
(* The inductive invariant of the refinement: AliveInv, and on a clock     *)
(* that only advances no second read from it (by an updater or by an       *)
(* is_recent) lies ahead of it, and while is_alive is running the verdict  *)
(* is still the false that health_check began with.                        *)
(***************************************************************************)
VerdictInv ==
    /\ AliveInv
    /\ \A u \in Updaters : unow[u] <= clock
    /\ \A c \in Checkers :
          /\ cnow[c] <= clock
          /\ pc[c] \in {"alive_bc", "alive_to"} => ~alive[c]

(***************************************************************************)
(* health_check implements HealthVerdict: every is_alive verdict of true   *)
(* rests on a tick value that, at the moment is_recent read it, was no     *)
(* later than the clock and less than IS_ALIVE_TICK_FRESHNESS before the   *)
(* check began, whatever updates run between the two halves of is_recent  *)
(* and however the u64 difference wraps; and every tick update writes a    *)
(* second that the clock has already shown.                                *)
(***************************************************************************)
VerdictRefinement == Abstract!HSpec

=============================================================================
