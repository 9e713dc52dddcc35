------------------------ MODULE MCImplementationWork ------------------------
(* A small instance of ImplementationWork for TLC.                         *)
EXTENDS ImplementationWork

MCAttempts == {4, 8}
MCRequests == {2, 5}
MCProcesses == {1, 3}
MCGranted == [requests |-> 3, processes |-> 1]
=============================================================================
