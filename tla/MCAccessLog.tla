----------------------------- MODULE MCAccessLog -----------------------------
(* Instances of AccessLog for TLC.                                          *)
EXTENDS AccessLog, TLC

Workers == Permutations(Worker)

=============================================================================
