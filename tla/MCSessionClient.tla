-------------------------- MODULE MCSessionClient --------------------------
(* Small instances of SessionClient for TLC.                               *)
EXTENDS SessionClient, TLC

CONSTANTS
  ana, ben,  \* users
  w1,        \* a write
  r1         \* a read

\* The users are interchangeable.
MCSymmetry == Permutations({ana, ben})
=============================================================================
