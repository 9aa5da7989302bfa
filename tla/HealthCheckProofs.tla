------------------------- MODULE HealthCheckProofs -------------------------
(***************************************************************************)
(* Proofs about HealthCheck, for every set of checkers and updaters, every *)
(* clock bound, window and counter width that TimeAssumption allows.       *)
(***************************************************************************)
EXTENDS HealthCheck, TLAPS

\* 2^Width is a natural number above every clock reading plus a window.
LEMMA ModulusBound ==
    /\ Modulus \in Nat \ {0}
    /\ MaxTime \in Nat
    /\ IsAliveFreshness \in Nat \ {0}
    /\ MaxTime + IsAliveFreshness < Modulus
  BY TimeAssumption DEF Modulus

\* A u64 value below 2^Width is its own residue; one in the next lap
\* loses one lap.
LEMMA ModLap ==
  ASSUME NEW x \in Nat
  PROVE  /\ x < Modulus => x % Modulus = x
         /\ Modulus <= x /\ x < 2 * Modulus => x % Modulus = x - Modulus
  BY ModulusBound

\* The u64 difference of two clock readings is a u64.
LEMMA WrapDiffRange ==
  ASSUME NEW now \in Times, NEW t \in Times
  PROVE  WrapDiff(now, t) \in 0 .. Modulus - 1
  BY ModulusBound DEF WrapDiff, Times

(***************************************************************************)
(* is_recent within IS_ALIVE_TICK_FRESHNESS answers true only for a tick   *)
(* at or before now and less than the window behind it: a tick ahead of   *)
(* now wraps to at least Modulus - MaxTime, beyond the window.             *)
(***************************************************************************)
LEMMA RecentIsPast ==
  ASSUME NEW now \in Times, NEW t \in Times,
         IsRecent(now, t, IsAliveFreshness)
  PROVE  t <= now /\ now - t < IsAliveFreshness
  <1>1. CASE t <= now
    <2>1. WrapDiff(now, t) = now - t
      BY <1>1, ModulusBound, ModLap DEF WrapDiff, Times
    <2>2. QED
      BY <1>1, <2>1 DEF IsRecent
  <1>2. CASE t > now
    <2>1. WrapDiff(now, t) = now + Modulus - t
      BY <1>2, ModulusBound, ModLap DEF WrapDiff, Times
    <2>2. WrapDiff(now, t) >= IsAliveFreshness
      BY <1>2, <2>1, ModulusBound DEF Times
    <2>3. QED
      BY <1>2, <2>1, <2>2, ModulusBound DEF IsRecent, Times
  <1>3. QED
    BY <1>1, <1>2 DEF Times

\* NextStage leads from a stage of health_check to a location.
LEMMA NextStageType ==
  ASSUME NEW s \in Stages, NEW r \in BOOLEAN
  PROVE  NextStage(s, r) \in Locations
  BY DEF NextStage, Stages, Locations

\* The empty read of a checker that has not called is_recent is a read.
LEMMA NoReadType == NoRead \in Reads
  BY ModulusBound DEF NoRead, Reads, Times, Clocks

\* The answer of a checker at stage s keeps the checker's answers typed.
LEMMA AnswerType ==
  ASSUME TypeOK, NEW c \in Checkers, NEW s \in Stages, NEW r \in BOOLEAN,
         NEW v \in Times, NEW now \in Times, Answer(c, s, r, v, now)
  PROVE  /\ pc' \in [Checkers -> Locations]
         /\ alive' \in [Checkers -> BOOLEAN]
         /\ bc_ok' \in [Checkers -> BOOLEAN]
         /\ db_ok' \in [Checkers -> BOOLEAN]
         /\ alive_tick' \in [Checkers -> Times]
         /\ alive_now' \in [Checkers -> Times]
  BY NextStageType DEF Answer, TypeOK

-----------------------------------------------------------------------------
(***************************************************************************)
(* Type correctness: every tick, clock reading and u64 difference of the  *)
(* health check stays in range, whether the wall clock steps back or not, *)
(* in a release or a debug build.  The u64 difference is the part that a  *)
(* signed or unchecked subtraction in is_recent would break.              *)
(***************************************************************************)
LEMMA InitTypeOK == Init => TypeOK
  <1> SUFFICES ASSUME Init PROVE TypeOK
    OBVIOUS
  <1>1. clock \in {PreEpoch, 0}
    BY BuildAssumption DEF Init
  <1>2. QED
    BY <1>1, NoReadType, ModulusBound
       DEF Init, TypeOK, Clocks, Times, PreEpoch, Locations

LEMMA NextTypeOK == TypeOK /\ [Next]_vars => TypeOK'
  <1> SUFFICES ASSUME TypeOK, [Next]_vars PROVE TypeOK'
    OBVIOUS
  <1>1. CASE Advance
    BY <1>1, ModulusBound DEF Advance, TypeOK, Clocks, Times, PreEpoch
  <1>2. CASE StepBack
    BY <1>2 DEF StepBack, TypeOK
  <1>3. CASE ReplaceProvider
    BY <1>3 DEF ReplaceProvider, TypeOK
  <1>4. ASSUME NEW u \in Updaters, UpdateNow(u) PROVE TypeOK'
    BY <1>4 DEF UpdateNow, TypeOK, Clocks, PreEpoch
  <1>5. ASSUME NEW u \in Updaters, UpdateWrite(u) PROVE TypeOK'
    BY <1>5, UpdaterAssumption DEF UpdateWrite, TypeOK
  <1>6. ASSUME NEW c \in Checkers, StartCheck(c) PROVE TypeOK'
    BY <1>6, ModulusBound DEF StartCheck, TypeOK, Locations, Stages, Times
  <1>7. ASSUME NEW c \in Checkers, RecentNow(c) PROVE TypeOK'
    BY <1>7 DEF RecentNow, TypeOK, Clocks, PreEpoch
  <1>8. ASSUME NEW c \in Checkers, RecentNowErr(c) PROVE TypeOK'
    <2>1. 0 \in Times
      BY ModulusBound DEF Times
    <2>2. /\ pc' \in [Checkers -> Locations]
          /\ alive' \in [Checkers -> BOOLEAN]
          /\ bc_ok' \in [Checkers -> BOOLEAN]
          /\ db_ok' \in [Checkers -> BOOLEAN]
          /\ alive_tick' \in [Checkers -> Times]
          /\ alive_now' \in [Checkers -> Times]
      BY <1>8, <2>1, AnswerType DEF RecentNowErr, TypeOK
    <2>3. QED
      BY <1>8, <2>2, NoReadType DEF RecentNowErr, TypeOK
  <1>9. ASSUME NEW c \in Checkers, RecentRead(c) PROVE TypeOK'
    <2> DEFINE s == pc[c]
               v == tick[StageTick[s]]
               r == IsRecent(cnow[c], v, StageWindow[s])
    <2>1. /\ s \in Stages
          /\ StageTick[s] \in TickNames
          /\ v \in Times
          /\ r \in BOOLEAN
          /\ cnow[c] \in Times
      <3>1. s \in Stages
        BY <1>9 DEF RecentRead
      <3>2. StageTick[s] \in TickNames
        BY <3>1 DEF Stages, StageTick, TickNames
      <3>3. QED
        BY <3>1, <3>2 DEF TypeOK, IsRecent
    <2>2. CASE OverflowChecks /\ v > cnow[c]
      <3>1. /\ pc' = [pc EXCEPT ![c] = "panicked"]
            /\ UNCHANGED <<last, alive, bc_ok, db_ok, alive_tick, alive_now>>
            /\ phase' = [phase EXCEPT ![c] = "now"]
            /\ cnow' = [cnow EXCEPT ![c] = 0]
            /\ UNCHANGED <<clock, tick, provider, upc, unow, started>>
        BY <1>9, <2>2 DEF RecentRead
      <3>2. QED
        BY <3>1, ModulusBound DEF TypeOK, Locations, Times
    <2>3. CASE ~(OverflowChecks /\ v > cnow[c])
      <3>1. /\ Answer(c, s, r, v, cnow[c])
            /\ last' = [last EXCEPT ![c] = [tick |-> StageTick[s], read |-> v,
                                            at |-> clock, window |-> StageWindow[s],
                                            diff |-> WrapDiff(cnow[c], v),
                                            recent |-> r]]
        BY <1>9, <2>3 DEF RecentRead
      <3>2. WrapDiff(cnow[c], v) \in 0 .. Modulus - 1
        BY <2>1, WrapDiffRange
      <3>3. [tick |-> StageTick[s], read |-> v, at |-> clock,
             window |-> StageWindow[s], diff |-> WrapDiff(cnow[c], v),
             recent |-> r] \in Reads
        BY <2>1, <3>2 DEF Reads, TypeOK, Stages, StageWindow, Clocks
      <3>4. /\ phase' = [phase EXCEPT ![c] = "now"]
            /\ cnow' = [cnow EXCEPT ![c] = 0]
            /\ UNCHANGED <<clock, tick, provider, upc, unow, started>>
        BY <1>9 DEF RecentRead
      <3>5. QED
        BY <2>1, <3>1, <3>3, <3>4, AnswerType, ModulusBound DEF TypeOK, Times
    <2>4. QED
      BY <2>2, <2>3
  <1>10. ASSUME NEW c \in Checkers, ProbeBlockchain(c) PROVE TypeOK'
    BY <1>10 DEF ProbeBlockchain, TypeOK, Locations, Stages
  <1>11. ASSUME NEW c \in Checkers, ProbeDatabase(c) PROVE TypeOK'
    BY <1>11 DEF ProbeDatabase, TypeOK, Locations, Stages
  <1>12. ASSUME NEW c \in Checkers, Return(c) PROVE TypeOK'
    BY <1>12 DEF Return, TypeOK, Locations, Stages
  <1>13. CASE UNCHANGED vars
    BY <1>13 DEF vars, TypeOK
  <1>14. QED
    BY <1>1, <1>2, <1>3, <1>4, <1>5, <1>6, <1>7, <1>8, <1>9, <1>10, <1>11,
       <1>12, <1>13 DEF Next

THEOREM TypeCorrect == Spec => []TypeOK
  BY InitTypeOK, NextTypeOK, PTL DEF Spec

-----------------------------------------------------------------------------
\* What the answer at stage s does to the history of is_alive: only the two
\* is_alive stages set alive, and only a true answer records a tick.
LEMMA AnswerAlive ==
  ASSUME TypeOK, NEW c \in Checkers, NEW s \in Stages, NEW r \in BOOLEAN,
         NEW v \in Times, NEW now \in Times, Answer(c, s, r, v, now),
         NEW d \in Checkers
  PROVE  /\ alive'[d] = IF d = c /\ s \in {"alive_bc", "alive_to"}
                        THEN r ELSE alive[d]
         /\ alive_tick'[d] = IF d = c /\ s \in {"alive_bc", "alive_to"} /\ r
                             THEN v ELSE alive_tick[d]
         /\ alive_now'[d] = IF d = c /\ s \in {"alive_bc", "alive_to"} /\ r
                            THEN now ELSE alive_now[d]
  BY DEF Answer, TypeOK

\* The window of an is_alive stage is IS_ALIVE_TICK_FRESHNESS.
LEMMA AliveStageWindow ==
  ASSUME NEW s \in {"alive_bc", "alive_to"}
  PROVE  StageWindow[s] = IsAliveFreshness
  BY DEF StageWindow

(***************************************************************************)
(* is_alive never answers alive on a tick ahead of the now it compared it  *)
(* with, whether the tick was written after that now was read or before   *)
(* the wall clock was set back: the release build's wrapping u64          *)
(* difference, not a saturating one, is what keeps such a tick stale.     *)
(***************************************************************************)
LEMMA FutureNext ==
  TypeOK /\ AliveNeverFromFutureTick /\ [Next]_vars => AliveNeverFromFutureTick'
  <1> SUFFICES ASSUME TypeOK, AliveNeverFromFutureTick, [Next]_vars,
                      NEW d \in Checkers, alive'[d]
               PROVE  alive_tick'[d] <= alive_now'[d]
    BY DEF AliveNeverFromFutureTick
  <1>1. ASSUME NEW c \in Checkers, StartCheck(c)
        PROVE  alive_tick'[d] <= alive_now'[d]
    <2>1. d # c
      BY <1>1 DEF StartCheck, TypeOK
    <2>2. /\ alive'[d] = alive[d]
          /\ alive_tick'[d] = alive_tick[d]
          /\ alive_now'[d] = alive_now[d]
      BY <1>1, <2>1 DEF StartCheck, TypeOK
    <2>3. QED
      BY <2>2 DEF AliveNeverFromFutureTick
  <1>2. ASSUME NEW c \in Checkers, RecentNowErr(c)
        PROVE  alive_tick'[d] <= alive_now'[d]
    <2>1. /\ pc[c] \in Stages
          /\ Answer(c, pc[c], FALSE, 0, 0)
      BY <1>2 DEF RecentNowErr
    <2>2. 0 \in Times
      BY ModulusBound DEF Times
    <2>3. /\ alive'[d] = IF d = c /\ pc[c] \in {"alive_bc", "alive_to"}
                         THEN FALSE ELSE alive[d]
          /\ alive_tick'[d] = alive_tick[d]
          /\ alive_now'[d] = alive_now[d]
      BY <2>1 DEF Answer, TypeOK
    <2>4. QED
      BY <2>3 DEF AliveNeverFromFutureTick
  <1>3. ASSUME NEW c \in Checkers, RecentRead(c)
        PROVE  alive_tick'[d] <= alive_now'[d]
    <2> DEFINE s == pc[c]
               v == tick[StageTick[s]]
               r == IsRecent(cnow[c], v, StageWindow[s])
    <2>1. /\ s \in Stages
          /\ v \in Times
          /\ cnow[c] \in Times
          /\ r \in BOOLEAN
      <3>1. s \in Stages
        BY <1>3 DEF RecentRead
      <3>2. StageTick[s] \in TickNames
        BY <3>1 DEF Stages, StageTick, TickNames
      <3>3. QED
        BY <3>1, <3>2 DEF TypeOK, IsRecent
    <2>2. CASE OverflowChecks /\ v > cnow[c]
      BY <1>3, <2>2 DEF RecentRead, AliveNeverFromFutureTick
    <2>3. CASE ~(OverflowChecks /\ v > cnow[c])
      <3>1. Answer(c, s, r, v, cnow[c])
        BY <1>3, <2>3 DEF RecentRead
      <3>2. CASE d = c /\ s \in {"alive_bc", "alive_to"} /\ r
        <4>1. IsRecent(cnow[c], v, IsAliveFreshness)
          BY <3>2, AliveStageWindow
        <4>2. v <= cnow[c]
          BY <2>1, <4>1, RecentIsPast
        <4>3. alive_tick'[d] = v /\ alive_now'[d] = cnow[c]
          BY <3>1, <3>2 DEF Answer, TypeOK
        <4>4. QED
          BY <4>2, <4>3
      <3>3. CASE ~(d = c /\ s \in {"alive_bc", "alive_to"} /\ r)
        <4>1. alive[d]
          BY <2>1, <3>1, <3>3, AnswerAlive
        <4>2. QED
          BY <2>1, <3>1, <3>3, <4>1, AnswerAlive DEF AliveNeverFromFutureTick
      <3>4. QED
        BY <3>2, <3>3
    <2>4. QED
      BY <2>2, <2>3
  <1>4. CASE UNCHANGED <<alive, alive_tick, alive_now>>
    BY <1>4 DEF AliveNeverFromFutureTick
  <1>5. QED
    BY <1>1, <1>2, <1>3, <1>4
       DEF Next, vars, Advance, StepBack, ReplaceProvider, UpdateNow,
           UpdateWrite, RecentNow, ProbeBlockchain, ProbeDatabase, Return

THEOREM NoAliveFromFutureTick == Spec => []AliveNeverFromFutureTick
  <1>1. Init => AliveNeverFromFutureTick
    BY DEF Init, AliveNeverFromFutureTick
  <1>2. QED
    BY <1>1, TypeCorrect, FutureNext, PTL DEF Spec

-----------------------------------------------------------------------------
(***************************************************************************)
(* On a wall clock that only advances, is_alive says alive only on a tick  *)
(* refreshed within IS_ALIVE_TICK_FRESHNESS before health_check began.     *)
(* AliveInv adds what the step that answers needs: the now an is_recent   *)
(* holds was read inside the current check, after it began.  It is the    *)
(* step back of the wall clock that breaks this (the run                  *)
(* health_check_clock_step_stale), so the theorem assumes ClockStepsBack  *)
(* is FALSE.                                                               *)
(***************************************************************************)

\* The part of AliveInv about one checker d.
CheckerInv(d) ==
    /\ started[d] <= clock
    /\ phase[d] = "lock" => pc[d] \in Stages /\ started[d] <= cnow[d]
    /\ alive[d] => alive_tick[d] + IsAliveFreshness > started[d]

LEMMA AliveInvInit ==
  ASSUME ~ClockStepsBack
  PROVE  Init => AliveInv
  <1> SUFFICES ASSUME Init PROVE AliveInv
    OBVIOUS
  <1>1. clock = 0
    BY DEF Init
  <1>2. QED
    BY <1>1, InitTypeOK, ModulusBound
       DEF Init, AliveInv, AliveBackedByActivity, Times

LEMMA AliveInvNext ==
  ASSUME ~ClockStepsBack
  PROVE  AliveInv /\ [Next]_vars => AliveInv'
  <1> SUFFICES ASSUME AliveInv, [Next]_vars PROVE AliveInv'
    OBVIOUS
  <1> USE ModulusBound
  <1>1. TypeOK'
    BY NextTypeOK DEF AliveInv
  <1>2. clock' \in Times
    <2>1. CASE Advance
      BY <2>1 DEF Advance, AliveInv, Times
    <2>2. CASE ~Advance
      BY <2>2 DEF Next, vars, AliveInv, StepBack, ReplaceProvider, UpdateNow,
             UpdateWrite, StartCheck, RecentNow, RecentNowErr, RecentRead,
             ProbeBlockchain, ProbeDatabase, Return
    <2>3. QED
      BY <2>1, <2>2
  <1>3. ASSUME NEW d \in Checkers PROVE CheckerInv(d)'
    <2>1. CheckerInv(d)
      BY DEF AliveInv, AliveBackedByActivity, CheckerInv
    <2>2. /\ started[d] \in Int
          /\ cnow[d] \in Times
          /\ alive_tick[d] \in Times
          /\ clock \in Times
      BY <2>1 DEF AliveInv, TypeOK, CheckerInv, Clocks, Times, PreEpoch
    <2>3. CASE Advance
      BY <2>1, <2>2, <2>3 DEF Advance, CheckerInv, Times
    <2>4. CASE StepBack
      BY <2>4 DEF StepBack
    <2>5. CASE ReplaceProvider
      BY <2>1, <2>5 DEF ReplaceProvider, CheckerInv
    <2>6. ASSUME NEW u \in Updaters, UpdateNow(u) \/ UpdateWrite(u)
          PROVE  CheckerInv(d)'
      BY <2>1, <2>6 DEF UpdateNow, UpdateWrite, CheckerInv
    <2>7. ASSUME NEW c \in Checkers, StartCheck(c) PROVE CheckerInv(d)'
      <3>1. CASE d = c
        <4>1. phase[c] # "lock"
          BY <2>1, <2>7, <3>1 DEF StartCheck, CheckerInv, Stages
        <4>2. QED
          BY <2>2, <2>7, <3>1, <4>1 DEF StartCheck, CheckerInv, AliveInv, TypeOK, Times
      <3>2. CASE d # c
        BY <2>1, <2>7, <3>2 DEF StartCheck, CheckerInv, AliveInv, TypeOK
      <3>3. QED
        BY <3>1, <3>2
    <2>8. ASSUME NEW c \in Checkers, RecentNow(c) PROVE CheckerInv(d)'
      BY <2>1, <2>2, <2>8 DEF RecentNow, CheckerInv, AliveInv, TypeOK
    <2>9. ASSUME NEW c \in Checkers, RecentNowErr(c) PROVE CheckerInv(d)'
      BY <2>2, <2>9 DEF RecentNowErr, PreEpoch, Times
    <2>10. ASSUME NEW c \in Checkers, RecentRead(c) PROVE CheckerInv(d)'
      <3> DEFINE s == pc[c]
                 v == tick[StageTick[s]]
                 r == IsRecent(cnow[c], v, StageWindow[s])
      <3>1. /\ s \in Stages
            /\ v \in Times
            /\ cnow[c] \in Times
            /\ r \in BOOLEAN
            /\ phase[c] = "lock"
        <4>1. s \in Stages /\ phase[c] = "lock"
          BY <2>10 DEF RecentRead
        <4>2. StageTick[s] \in TickNames
          BY <4>1 DEF Stages, StageTick, TickNames
        <4>3. QED
          BY <4>1, <4>2 DEF AliveInv, TypeOK, IsRecent
      <3>2. /\ phase' = [phase EXCEPT ![c] = "now"]
            /\ cnow' = [cnow EXCEPT ![c] = 0]
            /\ UNCHANGED <<clock, started>>
        BY <2>10 DEF RecentRead
      <3>3. CASE OverflowChecks /\ v > cnow[c]
        BY <2>1, <2>10, <3>2, <3>3 DEF RecentRead, CheckerInv, AliveInv, TypeOK
      <3>4. CASE ~(OverflowChecks /\ v > cnow[c])
        <4>1. Answer(c, s, r, v, cnow[c])
          BY <2>10, <3>4 DEF RecentRead
        <4>2. CASE d # c
          BY <2>1, <3>2, <4>1, <4>2 DEF Answer, CheckerInv, AliveInv, TypeOK
        <4>3. CASE d = c /\ s \in {"alive_bc", "alive_to"} /\ r
          <5>1. v <= cnow[c] /\ cnow[c] - v < IsAliveFreshness
            BY <3>1, <4>3, AliveStageWindow, RecentIsPast
          <5>2. started[c] <= cnow[c]
            BY <2>1, <3>1, <4>3 DEF CheckerInv
          <5>3. alive_tick'[c] = v
            BY <4>1, <4>3 DEF Answer, AliveInv, TypeOK
          <5>4. QED
            BY <2>1, <2>2, <3>1, <3>2, <4>3, <5>1, <5>2, <5>3
               DEF CheckerInv, AliveInv, TypeOK, Times
        <4>4. CASE d = c /\ ~(s \in {"alive_bc", "alive_to"} /\ r)
          <5>1. /\ alive'[c] = (IF s \in {"alive_bc", "alive_to"} THEN r ELSE alive[c])
                /\ alive_tick'[c] = alive_tick[c]
            BY <4>1, <4>4 DEF Answer, AliveInv, TypeOK
          <5>2. QED
            BY <2>1, <3>2, <4>4, <5>1 DEF CheckerInv, AliveInv, TypeOK
        <4>5. QED
          BY <4>2, <4>3, <4>4
      <3>5. QED
        BY <3>3, <3>4
    <2>11. ASSUME NEW c \in Checkers,
                  ProbeBlockchain(c) \/ ProbeDatabase(c) \/ Return(c)
           PROVE  CheckerInv(d)'
      <3>1. pc[c] \notin Stages
        BY <2>11 DEF ProbeBlockchain, ProbeDatabase, Return, Stages
      <3>2. phase[c] # "lock"
        BY <3>1 DEF AliveInv
      <3>3. QED
        BY <2>1, <2>11, <3>2 DEF ProbeBlockchain, ProbeDatabase, Return,
                                 CheckerInv, AliveInv, TypeOK
    <2>12. CASE UNCHANGED vars
      BY <2>1, <2>12 DEF vars, CheckerInv
    <2>13. QED
      BY <2>3, <2>4, <2>5, <2>6, <2>7, <2>8, <2>9, <2>10, <2>11, <2>12 DEF Next
  <1>4. QED
    BY <1>1, <1>2, <1>3 DEF AliveInv, CheckerInv, AliveBackedByActivity

THEOREM AliveBackedProved ==
  ASSUME ~ClockStepsBack
  PROVE  Spec => []AliveBackedByActivity
  <1>1. AliveInv => AliveBackedByActivity
    BY DEF AliveInv
  <1>2. QED
    BY <1>1, AliveInvInit, AliveInvNext, PTL DEF Spec

=============================================================================
