---------------------------- MODULE MCOpenServer ----------------------------
(* Small instances of the server among arbitrary clients.                  *)
EXTENDS OpenServer, TLC

CONSTANTS c1, c2

Symmetry == Permutations(Client)
=============================================================================
