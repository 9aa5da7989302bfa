\* One checker and one updater of the blockchain tick, a wall clock of 0..2
\* that may be set back, as far as before UNIX_EPOCH: ticks then lie
\* ahead of the clock and the Err branches of duration_since are taken.
CONSTANTS c1 = c1  u1 = u1  u2 = u2
CONSTANT Checkers <- MCCheckers
CONSTANT Updaters <- MCOneUpdater
CONSTANT UpdaterTick <- MCOneUpdaterTick
CONSTANT MaxTime = 2
CONSTANT IsAliveFreshness = 2
CONSTANT ConnectedFreshness = 1
CONSTANT Width = 3
CONSTANT OverflowChecks = FALSE
CONSTANT ClockStepsBack = TRUE
SPECIFICATION Spec
INVARIANT AliveNeverFromFutureTick
