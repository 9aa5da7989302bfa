--------------------------- MODULE HealthVerdict ---------------------------
(***************************************************************************)
(* What health_check of fhevm-listener promises about its is_alive         *)
(* verdict, with Tick's locks and the two-step reads abstracted away.  A   *)
(* check begins at some second of the wall clock and, in one atomic step,  *)
(* answers alive or not; it may answer alive only when one of the          *)
(* is_alive ticks holds, at that moment, a second no later than the clock  *)
(* and less than the window before the check began.  Answering not alive   *)
(* is always allowed.  The listener loops refresh a tick with a second     *)
(* they read from the clock.  HealthCheck implements this specification    *)
(* on a wall clock that only advances.                                     *)
(***************************************************************************)
EXTENDS Integers

CONSTANTS
    Checkers,          \* concurrent health_check calls
    TickNames,         \* the ticks of the listener
    AliveTicks,        \* the ticks is_alive consults
    MaxTime,           \* last second of wall-clock time explored
    IsAliveFreshness   \* IS_ALIVE_TICK_FRESHNESS

VARIABLES
    clock,    \* the wall clock, in seconds
    tick,     \* the second each tick last recorded
    stage,    \* each check: "idle", "alive" (deciding), "rest", "panicked"
    started,  \* the clock when each check began
    alive     \* the is_alive verdict of each check

hvars == <<clock, tick, stage, started, alive>>

HInit ==
    /\ clock = 0
    /\ tick = [t \in TickNames |-> 0]
    /\ stage = [c \in Checkers |-> "idle"]
    /\ started = [c \in Checkers |-> 0]
    /\ alive = [c \in Checkers |-> FALSE]

\* A second passes.
Elapse ==
    /\ clock < MaxTime
    /\ clock' = clock + 1
    /\ UNCHANGED <<tick, stage, started, alive>>

\* A listener loop records a second it read from the clock.
Refresh(t, v) ==
    /\ v <= clock
    /\ tick' = [tick EXCEPT ![t] = v]
    /\ UNCHANGED <<clock, stage, started, alive>>

\* A check begins.
Begin(c) ==
    /\ stage[c] = "idle"
    /\ stage' = [stage EXCEPT ![c] = "alive"]
    /\ started' = [started EXCEPT ![c] = clock]
    /\ alive' = [alive EXCEPT ![c] = FALSE]
    /\ UNCHANGED <<clock, tick>>

\* A tick that was refreshed within the window before the check began.
Backs(c, t) ==
    /\ tick[t] <= clock
    /\ started[c] < tick[t] + IsAliveFreshness

\* The check decides is_alive: alive only on a tick that backs it.
Verdict(c, r) ==
    /\ stage[c] = "alive"
    /\ r => \E t \in AliveTicks : Backs(c, t)
    /\ stage' = [stage EXCEPT ![c] = "rest"]
    /\ alive' = [alive EXCEPT ![c] = r]
    /\ UNCHANGED <<clock, tick, started>>

\* The remaining checks are done and the status is returned.
Finish(c) ==
    /\ stage[c] = "rest"
    /\ stage' = [stage EXCEPT ![c] = "idle"]
    /\ UNCHANGED <<clock, tick, started, alive>>

\* The check panics (an underflow in a build with overflow checks).
Panic(c) ==
    /\ stage[c] \in {"alive", "rest"}
    /\ stage' = [stage EXCEPT ![c] = "panicked"]
    /\ UNCHANGED <<clock, tick, started, alive>>

HNext ==
    \/ Elapse
    \/ \E t \in TickNames, v \in 0 .. MaxTime : Refresh(t, v)
    \/ \E c \in Checkers :
          \/ Begin(c)
          \/ \E r \in BOOLEAN : Verdict(c, r)
          \/ Finish(c)
          \/ Panic(c)

HSpec == HInit /\ [][HNext]_hvars

=============================================================================
