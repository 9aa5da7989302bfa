------------------------ MODULE HealthVerdictProofs ------------------------
(***************************************************************************)
(* health_check implements the abstract is_alive verdict of HealthVerdict  *)
(* on a wall clock that only advances.  The proof rests on the inductive   *)
(* AliveInv of HealthCheckProofs, strengthened by VerdictInv: no second    *)
(* read from the clock lies ahead of it, and is_alive runs with the false  *)
(* verdict StartCheck set.                                                 *)
(***************************************************************************)
EXTENDS HealthCheckProofs

\* The part of VerdictInv that AliveInv does not state, for one checker d.
VerdictChecker(d) ==
    /\ cnow[d] <= clock
    /\ pc[d] \in {"alive_bc", "alive_to"} => ~alive[d]

LEMMA VerdictInvInit ==
  ASSUME ~ClockStepsBack
  PROVE  Init => VerdictInv
  <1> SUFFICES ASSUME Init PROVE VerdictInv
    OBVIOUS
  <1>1. AliveInv
    BY AliveInvInit
  <1>2. clock = 0
    BY DEF Init
  <1>3. QED
    BY <1>1, <1>2 DEF Init, VerdictInv

\* What VerdictInv adds to AliveInv.
VerdictExtra ==
    /\ \A u \in Updaters : unow[u] <= clock
    /\ \A d \in Checkers : VerdictChecker(d)

LEMMA VerdictInvNext ==
  ASSUME ~ClockStepsBack
  PROVE  VerdictInv /\ [Next]_vars => VerdictInv'
  <1> SUFFICES ASSUME AliveInv, VerdictExtra, [Next]_vars
               PROVE  VerdictExtra'
    BY AliveInvNext DEF VerdictInv, VerdictExtra, VerdictChecker
  <1> USE ModulusBound
  <1>0. /\ TypeOK
        /\ clock \in Times
        /\ \A u \in Updaters : unow[u] \in Times /\ unow[u] <= clock
        /\ \A d \in Checkers : cnow[d] \in Times /\ VerdictChecker(d)
    BY DEF AliveInv, TypeOK, VerdictExtra
  <1>1. CASE Advance
    BY <1>0, <1>1 DEF Advance, VerdictExtra, VerdictChecker, Times
  <1>2. CASE StepBack
    BY <1>2 DEF StepBack
  <1>3. CASE ReplaceProvider
    BY <1>0, <1>3 DEF ReplaceProvider, VerdictExtra, VerdictChecker
  <1>4. ASSUME NEW w \in Updaters, UpdateNow(w) PROVE VerdictExtra'
    BY <1>0, <1>4 DEF UpdateNow, VerdictExtra, VerdictChecker, TypeOK, Times
  <1>5. ASSUME NEW w \in Updaters, UpdateWrite(w) PROVE VerdictExtra'
    BY <1>0, <1>5 DEF UpdateWrite, VerdictExtra, VerdictChecker
  <1>6. ASSUME NEW c \in Checkers, StartCheck(c) PROVE VerdictExtra'
    BY <1>0, <1>6 DEF StartCheck, VerdictExtra, VerdictChecker, TypeOK
  <1>7. ASSUME NEW c \in Checkers, RecentNow(c) PROVE VerdictExtra'
    BY <1>0, <1>7 DEF RecentNow, VerdictExtra, VerdictChecker, TypeOK, Times
  <1>8. ASSUME NEW c \in Checkers, RecentNowErr(c) PROVE VerdictExtra'
    BY <1>0, <1>8 DEF RecentNowErr, PreEpoch, Times
  <1>9. ASSUME NEW c \in Checkers, RecentRead(c) PROVE VerdictExtra'
    <2> DEFINE s == pc[c]
               v == tick[StageTick[s]]
               r == IsRecent(cnow[c], v, StageWindow[s])
    <2>1. /\ s \in Stages
          /\ cnow' = [cnow EXCEPT ![c] = 0]
          /\ UNCHANGED <<clock, unow>>
      BY <1>9 DEF RecentRead
    <2>2. /\ \A u \in Updaters : unow'[u] <= clock'
          /\ \A d \in Checkers : cnow'[d] <= clock'
      BY <1>0, <2>1 DEF TypeOK, VerdictChecker, Times
    <2>3. ASSUME NEW d \in Checkers
          PROVE  pc'[d] \in {"alive_bc", "alive_to"} => ~alive'[d]
      <3>1. CASE OverflowChecks /\ v > cnow[c]
        BY <1>0, <1>9, <3>1 DEF RecentRead, VerdictChecker, TypeOK
      <3>2. CASE ~(OverflowChecks /\ v > cnow[c])
        <4>1. Answer(c, s, r, v, cnow[c])
          BY <1>9, <3>2 DEF RecentRead
        <4>2. CASE d # c
          BY <1>0, <4>1, <4>2 DEF Answer, VerdictChecker, TypeOK
        <4>3. CASE d = c
          <5>1. /\ pc'[c] = NextStage(s, r)
                /\ alive'[c] = IF s \in {"alive_bc", "alive_to"} THEN r ELSE alive[c]
            BY <1>0, <4>1 DEF Answer, TypeOK
          <5>2. r \in BOOLEAN
            BY DEF IsRecent
          <5>3. NextStage(s, r) \in {"alive_bc", "alive_to"} => s = "alive_bc" /\ ~r
            BY <2>1, <5>2 DEF NextStage, Stages
          <5>4. QED
            BY <4>3, <5>1, <5>3
        <4>4. QED
          BY <4>2, <4>3
      <3>3. QED
        BY <3>1, <3>2
    <2>4. QED
      BY <2>2, <2>3 DEF VerdictExtra, VerdictChecker
  <1>10. ASSUME NEW c \in Checkers,
                ProbeBlockchain(c) \/ ProbeDatabase(c) \/ Return(c)
         PROVE  VerdictExtra'
    BY <1>0, <1>10 DEF ProbeBlockchain, ProbeDatabase, Return,
                       VerdictExtra, VerdictChecker, TypeOK
  <1>11. CASE UNCHANGED vars
    BY <1>0, <1>11 DEF vars, VerdictExtra, VerdictChecker
  <1>12. QED
    BY <1>1, <1>2, <1>3, <1>4, <1>5, <1>6, <1>7, <1>8, <1>9, <1>10, <1>11
       DEF Next

(***************************************************************************)
(* The invariant of the refinement holds in every reachable state on a     *)
(* wall clock that only advances: an updater or an is_recent never holds  *)
(* a second ahead of the clock, and is_alive runs with a false verdict.    *)
(***************************************************************************)
LEMMA VerdictInvariant ==
  ASSUME ~ClockStepsBack
  PROVE  Spec => []VerdictInv
  BY VerdictInvInit, VerdictInvNext, PTL DEF Spec

-----------------------------------------------------------------------------
\* The abstract stage of every checker under the refinement mapping.
VStage == [c \in Checkers |-> VerdictStage(c)]

\* A step that moves one checker c leaves the abstract stage of the others.
LEMMA StageUpdate ==
  ASSUME NEW c \in Checkers,
         pc \in [Checkers -> Locations], pc' \in [Checkers -> Locations],
         \A d \in Checkers : d # c => pc'[d] = pc[d]
  PROVE  VStage' = [VStage EXCEPT ![c] = VerdictStage(c)']
  BY DEF VStage, VerdictStage

\* A step that moves no checker keeps the abstract stage.
LEMMA StageSame ==
  ASSUME pc' = pc
  PROVE  VStage' = VStage
  BY DEF VStage, VerdictStage

\* A step that keeps every checker at its abstract stage.
LEMMA StageKept ==
  ASSUME NEW c \in Checkers,
         pc \in [Checkers -> Locations], pc' \in [Checkers -> Locations],
         \A d \in Checkers : d # c => pc'[d] = pc[d],
         VerdictStage(c)' = VerdictStage(c)
  PROVE  VStage' = VStage
  BY DEF VStage, VerdictStage

(***************************************************************************)
(* Every step of health_check, of the updaters and of the clock is a step  *)
(* of HealthVerdict or leaves its variables unchanged.  The read that ends *)
(* is_alive is Verdict: a true answer of is_recent compared a tick with a *)
(* now read after the check began (AliveInv) and no later than the clock  *)
(* (VerdictInv), and RecentIsPast puts the tick at most that now and less *)
(* than the window before it.                                              *)
(***************************************************************************)
LEMMA VerdictStep ==
  ASSUME ~ClockStepsBack, VerdictInv, VerdictInv', [Next]_vars
  PROVE  [Abstract!HNext]_Abstract!hvars
  <1> USE ModulusBound
  <1>0. /\ TypeOK /\ TypeOK'
        /\ clock \in Times
        /\ \A u \in Updaters : unow[u] <= clock
        /\ \A d \in Checkers : CheckerInv(d) /\ VerdictChecker(d)
    BY DEF VerdictInv, AliveInv, AliveBackedByActivity, CheckerInv, VerdictChecker
  <1>1. CASE Advance
    <2>1. VStage' = VStage
      BY <1>1, StageSame DEF Advance
    <2>2. Abstract!Elapse
      BY <1>1, <2>1 DEF Advance, Abstract!Elapse, VStage
    <2>3. QED
      BY <2>2 DEF Abstract!HNext
  <1>2. CASE StepBack
    BY <1>2 DEF StepBack
  <1>3. CASE \/ ReplaceProvider
             \/ \E u \in Updaters : UpdateNow(u)
             \/ \E c \in Checkers : RecentNow(c)
    <2>1. UNCHANGED <<clock, tick, pc, started, alive>>
      BY <1>3 DEF ReplaceProvider, UpdateNow, RecentNow
    <2>2. VStage' = VStage
      BY <2>1, StageSame
    <2>3. QED
      BY <2>1, <2>2 DEF Abstract!hvars, VStage
  <1>4. ASSUME NEW u \in Updaters, UpdateWrite(u)
        PROVE  [Abstract!HNext]_Abstract!hvars
    <2>1. /\ UpdaterTick[u] \in TickNames
          /\ unow[u] \in 0 .. MaxTime
          /\ unow[u] <= clock
      BY <1>0, UpdaterAssumption DEF TypeOK, Times
    <2>2. VStage' = VStage
      BY <1>4, StageSame DEF UpdateWrite
    <2>3. Abstract!Refresh(UpdaterTick[u], unow[u])
      BY <1>4, <2>1, <2>2 DEF UpdateWrite, Abstract!Refresh, VStage
    <2>4. QED
      BY <2>1, <2>3 DEF Abstract!HNext
  <1>5. ASSUME NEW c \in Checkers, StartCheck(c)
        PROVE  [Abstract!HNext]_Abstract!hvars
    <2>1. VStage' = [VStage EXCEPT ![c] = "alive"]
      <3>1. VerdictStage(c)' = "alive"
        BY <1>0, <1>5 DEF StartCheck, VerdictStage, TypeOK
      <3>2. QED
        BY <1>0, <1>5, <3>1, StageUpdate DEF StartCheck, TypeOK
    <2>2. VStage[c] = "idle"
      BY <1>5 DEF StartCheck, VStage, VerdictStage
    <2>3. Abstract!Begin(c)
      BY <1>5, <2>1, <2>2 DEF StartCheck, Abstract!Begin, VStage
    <2>4. QED
      BY <2>3 DEF Abstract!HNext
  <1>6. ASSUME NEW c \in Checkers, RecentNowErr(c)
        PROVE  [Abstract!HNext]_Abstract!hvars
    BY <1>0, <1>6 DEF RecentNowErr, PreEpoch, Times
  <1>7. ASSUME NEW c \in Checkers, RecentRead(c)
        PROVE  [Abstract!HNext]_Abstract!hvars
    <2> DEFINE s == pc[c]
               v == tick[StageTick[s]]
               r == IsRecent(cnow[c], v, StageWindow[s])
    <2>1. /\ s \in Stages
          /\ phase[c] = "lock"
          /\ StageTick[s] \in TickNames
          /\ v \in Times
          /\ cnow[c] \in Times
          /\ r \in BOOLEAN
          /\ UNCHANGED <<clock, tick, started>>
      <3>1. s \in Stages /\ phase[c] = "lock" /\ UNCHANGED <<clock, tick, started>>
        BY <1>7 DEF RecentRead
      <3>2. StageTick[s] \in TickNames
        BY <3>1 DEF Stages, StageTick, TickNames
      <3>3. QED
        BY <1>0, <3>1, <3>2 DEF TypeOK, IsRecent
    <2>2. CASE OverflowChecks /\ v > cnow[c]
      <3>1. pc' = [pc EXCEPT ![c] = "panicked"] /\ UNCHANGED alive
        BY <1>7, <2>2 DEF RecentRead
      <3>2. VStage' = [VStage EXCEPT ![c] = "panicked"]
        <4>1. VerdictStage(c)' = "panicked"
          BY <1>0, <3>1 DEF VerdictStage, TypeOK
        <4>2. QED
          BY <1>0, <3>1, <4>1, StageUpdate DEF TypeOK
      <3>3. VStage[c] \in {"alive", "rest"}
        BY <2>1 DEF VStage, VerdictStage, Stages
      <3>4. Abstract!Panic(c)
        BY <2>1, <3>1, <3>2, <3>3 DEF Abstract!Panic, VStage
      <3>5. QED
        BY <3>4 DEF Abstract!HNext
    <2>3. CASE ~(OverflowChecks /\ v > cnow[c])
      <3>1. /\ pc' = [pc EXCEPT ![c] = NextStage(s, r)]
            /\ alive' = [alive EXCEPT ![c] = IF s \in {"alive_bc", "alive_to"} THEN r ELSE @]
        BY <1>7, <2>3 DEF RecentRead, Answer
      <3>2. CASE (s = "alive_bc" /\ r) \/ s = "alive_to"
        <4>1. VStage' = [VStage EXCEPT ![c] = "rest"]
          <5>1. NextStage(s, r) = "conn_bc"
            BY <3>2 DEF NextStage
          <5>2. VerdictStage(c)' = "rest"
            BY <1>0, <3>1, <5>1 DEF VerdictStage, TypeOK
          <5>3. QED
            BY <1>0, <3>1, <5>2, StageUpdate DEF TypeOK
        <4>2. VStage[c] = "alive"
          BY <3>2 DEF VStage, VerdictStage
        <4>3. alive' = [alive EXCEPT ![c] = r]
          BY <3>1, <3>2
        <4>4. ASSUME r PROVE Abstract!Backs(c, StageTick[s])
          <5>1. IsRecent(cnow[c], v, IsAliveFreshness)
            BY <3>2, <4>4, AliveStageWindow
          <5>2. v <= cnow[c] /\ cnow[c] - v < IsAliveFreshness
            BY <2>1, <5>1, RecentIsPast
          <5>3. started[c] <= cnow[c] /\ cnow[c] <= clock
            BY <1>0, <2>1 DEF CheckerInv, VerdictChecker
          <5>4. started[c] \in Int
            BY <1>0 DEF TypeOK, Clocks, PreEpoch, Times
          <5>5. QED
            BY <1>0, <2>1, <5>2, <5>3, <5>4 DEF Abstract!Backs, Times
        <4>5. StageTick[s] \in {"blockchain_tick", "blockchain_timeout_tick"}
          BY <3>2 DEF StageTick
        <4>6. Abstract!Verdict(c, r)
          BY <2>1, <4>1, <4>2, <4>3, <4>4, <4>5 DEF Abstract!Verdict, VStage
        <4>7. QED
          BY <2>1, <4>6 DEF Abstract!HNext
      <3>3. CASE s = "alive_bc" /\ ~r
        <4>1. VStage' = VStage
          <5>1. NextStage(s, r) = "alive_to"
            BY <3>3 DEF NextStage
          <5>2. VerdictStage(c)' = VerdictStage(c)
            BY <1>0, <3>1, <3>3, <5>1 DEF VerdictStage, TypeOK
          <5>3. QED
            BY <1>0, <3>1, <5>2, StageKept DEF TypeOK
        <4>2. alive' = alive
          <5>1. ~alive[c]
            BY <1>0, <3>3 DEF VerdictChecker
          <5>2. QED
            BY <1>0, <3>1, <3>3, <5>1 DEF TypeOK
        <4>3. QED
          BY <2>1, <4>1, <4>2 DEF Abstract!hvars, VStage
      <3>4. CASE s \in {"conn_bc", "conn_db"}
        <4>1. VStage' = VStage
          <5>1. NextStage(s, r) \in {"conn_db", "probe_bc", "done", "probe_db"}
            BY <3>4 DEF NextStage
          <5>2. VerdictStage(c)' = VerdictStage(c)
            BY <1>0, <3>1, <3>4, <5>1 DEF VerdictStage, TypeOK
          <5>3. QED
            BY <1>0, <3>1, <5>2, StageKept DEF TypeOK
        <4>2. alive' = alive
          BY <1>0, <3>1, <3>4 DEF TypeOK
        <4>3. QED
          BY <2>1, <4>1, <4>2 DEF Abstract!hvars, VStage
      <3>5. QED
        BY <2>1, <3>2, <3>3, <3>4 DEF Stages
    <2>4. QED
      BY <2>2, <2>3
  <1>8. ASSUME NEW c \in Checkers, ProbeBlockchain(c) \/ ProbeDatabase(c)
        PROVE  [Abstract!HNext]_Abstract!hvars
    <2>1. VStage' = VStage
      <3>1. VerdictStage(c)' = VerdictStage(c)
        BY <1>0, <1>8 DEF ProbeBlockchain, ProbeDatabase, VerdictStage, TypeOK
      <3>2. QED
        BY <1>0, <1>8, <3>1, StageKept DEF ProbeBlockchain, ProbeDatabase, TypeOK
    <2>2. UNCHANGED <<clock, tick, started, alive>>
      BY <1>8 DEF ProbeBlockchain, ProbeDatabase
    <2>3. QED
      BY <2>1, <2>2 DEF Abstract!hvars, VStage
  <1>9. ASSUME NEW c \in Checkers, Return(c)
        PROVE  [Abstract!HNext]_Abstract!hvars
    <2>1. VStage' = [VStage EXCEPT ![c] = "idle"]
      <3>1. VerdictStage(c)' = "idle"
        BY <1>0, <1>9 DEF Return, VerdictStage, TypeOK
      <3>2. QED
        BY <1>0, <1>9, <3>1, StageUpdate DEF Return, TypeOK
    <2>2. VStage[c] = "rest"
      BY <1>9 DEF Return, VStage, VerdictStage
    <2>3. Abstract!Finish(c)
      BY <1>9, <2>1, <2>2 DEF Return, Abstract!Finish, VStage
    <2>4. QED
      BY <2>3 DEF Abstract!HNext
  <1>10. CASE UNCHANGED vars
    <2>1. VStage' = VStage
      BY <1>10, StageSame DEF vars
    <2>2. QED
      BY <1>10, <2>1 DEF vars, Abstract!hvars, VStage
  <1>11. QED
    BY <1>1, <1>2, <1>3, <1>4, <1>5, <1>6, <1>7, <1>8, <1>9, <1>10 DEF Next

\* Tick::new on a clock at UNIX_EPOCH + 0 is the abstract initial state.
LEMMA VerdictInit ==
  ASSUME ~ClockStepsBack
  PROVE  Init => Abstract!HInit
  <1> SUFFICES ASSUME Init PROVE Abstract!HInit
    OBVIOUS
  <1>1. clock = 0
    BY DEF Init
  <1>2. VStage = [c \in Checkers |-> "idle"]
    BY DEF Init, VStage, VerdictStage
  <1>3. QED
    BY <1>1, <1>2 DEF Init, Abstract!HInit, VStage

(***************************************************************************)
(* On a wall clock that only advances, health_check implements the         *)
(* abstract is_alive verdict for every number of checkers and updaters,   *)
(* every clock bound, width and window allowed by TimeAssumption, and in a *)
(* release build as well as with overflow checks: a verdict of alive rests *)
(* on a tick no later than the clock and fresh at the start of the check, *)
(* and every tick update writes a second the clock has shown.              *)
(***************************************************************************)
THEOREM VerdictRefined ==
  ASSUME ~ClockStepsBack
  PROVE  Spec => VerdictRefinement
  <1>1. []VerdictInv /\ [][Next]_vars => [][Abstract!HNext]_Abstract!hvars
    <2>1. VerdictInv /\ VerdictInv' /\ [Next]_vars => [Abstract!HNext]_Abstract!hvars
      BY VerdictStep
    <2>2. QED
      BY <2>1, PTL
  <1>2. QED
    BY <1>1, VerdictInit, VerdictInvariant, PTL
       DEF Spec, VerdictRefinement, Abstract!HSpec

=============================================================================
