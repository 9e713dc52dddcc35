----------------------------- MODULE MCSession -----------------------------
(* Small values for Session: two processes, or one that is restarted.         *)
EXTENDS Session, TLC

CONSTANTS p1, p2, a1

\* Two outcomes that contradict the status they come with.
MCContrary ==
  {[status |-> "completed", progressed |-> "no", interruption |-> FALSE],
   [status |-> "failed", progressed |-> "yes", interruption |-> FALSE]}
\* The three outcomes the application tells apart, without a caller's fact.
MCPlain ==
  {[status |-> s, progressed |-> "unset", interruption |-> FALSE] :
     s \in {"completed", "failed", "blocked"}}
MCSymmetry == Permutations({p1, p2})
=============================================================================
