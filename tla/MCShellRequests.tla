--------------------------- MODULE MCShellRequests ---------------------------
(* Small instances of ShellRequests for TLC. *)
EXTENDS ShellRequests, TLC

\* Every client's name is in lower case already.
SameSpelling == [n \in Names |-> n]

DisplayOps  == AllOps \ {"injectKey"}

Symmetry == Permutations(Threads)
==============================================================================
