---------------------------- MODULE MCProcessRun ----------------------------
EXTENDS ProcessRun

\* A run may be measured shorter or longer than its timeout.
MCDurations == {0, 2}
=============================================================================
