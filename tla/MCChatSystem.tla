---------------------------- MODULE MCChatSystem ----------------------------
(* Small instances of the whole program.                                   *)
EXTENDS ChatSystem, TLC

CONSTANTS c1, c2

Symmetry == Permutations(Client)

\* How many requests the users make after their names.
OneEach   == [c \in Client |-> 1]
TwoEach   == [c \in Client |-> 2]
ThreeEach == [c \in Client |-> 3]
FiveEach  == [c \in Client |-> 5]
TwoThree  == [c \in Client |-> IF c = c1 THEN 2 ELSE 3]
=============================================================================
