------------------------------ MODULE MCSession ------------------------------
(* Session on small sets of streams and configurations.                     *)
EXTENDS Session, TLC

\* Streams are interchangeable, and so are configurations.
Symmetry == Permutations(Streams) \cup Permutations(Configs)
=============================================================================
