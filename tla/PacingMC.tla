------------------------------ MODULE PacingMC ------------------------------
EXTENDS Pacing

\* A configuration file has no numbers below 0.
ServerIntervals == {-2, 5}
=============================================================================
