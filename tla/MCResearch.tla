----------------------------- MODULE MCResearch -----------------------------
(***************************************************************************)
(* A session that confirms and one that does not, whose user may revise    *)
(* every kind of input a configuration holds.                              *)
(***************************************************************************)
EXTENDS Research

MCModes == {"assisted", "autonomous"}
MCRevisable == BriefKinds \cup ExecutionKinds
=============================================================================
