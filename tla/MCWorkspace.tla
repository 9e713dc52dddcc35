---------------------------- MODULE MCWorkspace ----------------------------
(* A small instance of Workspace for TLC: data -> table -> figure, and a     *)
(* text that shows the figure.                                               *)
EXTENDS Workspace, TLC

CONSTANTS data, table, figure, text, tabulate, draw

MCInputs == tabulate :> {data} @@ draw :> {table}
MCOutputs == tabulate :> {table} @@ draw :> {figure}
MCSymmetry == Permutations(Contents)
=============================================================================
