---------------------------- MODULE MCAppLifecycle ----------------------------
(* Small instances of AppLifecycle for TLC. *)
EXTENDS AppLifecycle, TLC

Symmetry == Permutations(Launchers) \cup Permutations(Destroyers)
==============================================================================
