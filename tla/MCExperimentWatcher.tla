----------------------- MODULE MCExperimentWatcher ------------------------
EXTENDS ExperimentWatcher

CONSTANT r1
=============================================================================
