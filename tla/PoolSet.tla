------------------------------ MODULE PoolSet ------------------------------
(***************************************************************************)
(* What the descriptor pool promises (spec section 2, DescriptorPool): a  *)
(* fixed set of descriptors, each either free or taken; acquire takes a   *)
(* free one or fails fast when none is free, release gives back a taken   *)
(* one.  IocbPool implements it with a circular array; LibaioContext     *)
(* checks the refinement with free <- the iocbs of the array's free      *)
(* region and taken <- the used counter.                                  *)
(***************************************************************************)
EXTENDS Naturals, FiniteSets

CONSTANT Descriptors

VARIABLES
  free,    \* the descriptors in the pool
  taken    \* how many descriptors are out of the pool

Init ==
  /\ free = Descriptors
  /\ taken = 0

Acquire(d) ==
  /\ d \in free
  /\ free' = free \ {d}
  /\ taken' = taken + 1

Release(d) ==
  /\ d \in Descriptors \ free
  /\ free' = free \cup {d}
  /\ taken' = taken - 1

Next == \E d \in Descriptors : Acquire(d) \/ Release(d)

Spec == Init /\ [][Next]_<<free, taken>>
=============================================================================
