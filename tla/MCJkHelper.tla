----------------------------- MODULE MCJkHelper -----------------------------
(* Instances of JkHelper for TLC. *)
EXTENDS JkHelper, TLC

\* Drivers, sockets and processes are interchangeable.
Symmetry == Permutations(Drivers) \union Permutations(Socks) \union Permutations(Pids)
=============================================================================
