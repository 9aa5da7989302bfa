\* A release build (u64 arithmetic wraps), one health_check caller, two
\* updaters of the blockchain tick; the freshness windows 20 s and 5 s
\* scaled to 2 and 1 on a 4 second clock.
CONSTANTS c1 = c1  u1 = u1  u2 = u2
CONSTANT Checkers <- MCCheckers
CONSTANT Updaters <- MCUpdaters
CONSTANT UpdaterTick <- MCUpdaterTick
CONSTANT MaxTime = 3
CONSTANT IsAliveFreshness = 2
CONSTANT ConnectedFreshness = 1
CONSTANT Width = 3
CONSTANT OverflowChecks = FALSE
CONSTANT ClockStepsBack = FALSE
SYMMETRY UpdaterSymmetry
SPECIFICATION Spec
INVARIANT FreshTickIsRecent
