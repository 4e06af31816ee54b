-------------------------- MODULE MCMbarrierPhases --------------------------
EXTENDS MbarrierPhases

CONSTANTS t0, t1, t2, t3

MCThreads == {t0, t1, t2, t3}
=============================================================================
