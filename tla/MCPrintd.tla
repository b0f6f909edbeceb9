-------------------------------- MODULE MCPrintd --------------------------------
(***************************************************************************)
(* Small instances of Printd: two or three print commands, files of one or  *)
(* two reads, and the faults each run allows.                               *)
(***************************************************************************)
EXTENDS Printd, TLC

CONSTANTS c1, c2, c3

\* Every file takes two reads.
TwoReads == [c \in Client |-> 2]

\* The file of c1 takes one read, the others are empty.
OneRead == [c \in Client |-> IF c = c1 THEN 1 ELSE 0]

\* Every file takes one read.
SameReads == [c \in Client |-> 1]

\* With files of one size the clients are interchangeable.
ClientSymmetry == Permutations(Client)

\* c2 and c3 have files of the same size.
Symmetry == Permutations({c2, c3})

=============================================================================
