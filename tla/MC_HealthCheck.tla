--------------------------- MODULE MC_HealthCheck ---------------------------
EXTENDS HealthCheck, TLC

CONSTANTS c1, u1, u2

MCCheckers == {c1}
MCUpdaters == {u1, u2}

\* Both updaters refresh the blockchain tick: the listener's block loop and
\* a reconnecting task.
MCUpdaterTick == [u \in MCUpdaters |-> "blockchain_tick"]

UpdaterSymmetry == Permutations(MCUpdaters)

\* One listener loop refreshing the blockchain tick: with a clock that steps
\* back, no second updater is needed for a tick to lie ahead of the clock.
MCOneUpdater == {u1}
MCOneUpdaterTick == [u \in MCOneUpdater |-> "blockchain_tick"]

=============================================================================
