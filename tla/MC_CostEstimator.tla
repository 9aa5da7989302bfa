-------------------------- MODULE MC_CostEstimator --------------------------
EXTENDS CostEstimator

\* A small tag, the first tag past the RandTypes table, and a value whose
\* low 16 bits are negative as an i16.
MCScalarValues == {3, 12, 40000}

=============================================================================
