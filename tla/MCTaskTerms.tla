---------------------------- MODULE MCTaskTerms ----------------------------
(* Instances of TaskTerms for TLC.                                          *)
EXTENDS TaskTerms
CONSTANTS s1, s2, c1

ProcSymmetry == Permutations(Procs)
AmountDef == [g \in Allowances |-> IF g = s2 THEN 0 ELSE 1]

\* A copy that is no longer taken for the files is not read before it is loaded
\* again.
Seen ==
  <<actions, manifest, ledger, open,
    [p \in Procs |-> IF p \in fresh \/ lock = p THEN copy[p] ELSE NoCopy],
    fresh, lock, pc, job, crashes, returned, exposed>>
=============================================================================
