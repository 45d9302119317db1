------------------------- MODULE MCExperimentRunner -------------------------
EXTENDS ExperimentRunner

CONSTANTS r1, r2
=============================================================================
