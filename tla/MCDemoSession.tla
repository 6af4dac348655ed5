--------------------------- MODULE MCDemoSession ----------------------------
(* DemoSession on small instances. *)
EXTENDS DemoSession, TLC

Symmetry == Permutations(Conns) \cup Permutations(Clients)
=============================================================================
