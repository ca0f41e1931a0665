---------------------------- MODULE BoundedQueue ----------------------------
(***************************************************************************)
(* What a hardware FIFO promises its two sides: a first-in first-out queue *)
(* of at most Capacity entries that ignores a write when it is full and a  *)
(* read when it is empty, and can do one write and one read in the same    *)
(* step.  The queue is a function from 0 .. len-1, oldest entry first.     *)
(***************************************************************************)
EXTENDS Integers

CONSTANTS Capacity, Entry

VARIABLES len, item

qvars == <<len, item>>

Init == len = 0 /\ item = [i \in 0 .. len - 1 |-> {}]

Clear == len' = 0 /\ item' = [i \in 0 .. len' - 1 |-> {}]

Put(d) ==
  /\ len < Capacity
  /\ len' = len + 1
  /\ item' = [i \in 0 .. len' - 1 |-> IF i = len THEN d ELSE item[i]]

Take ==
  /\ len > 0
  /\ len' = len - 1
  /\ item' = [i \in 0 .. len' - 1 |-> item[i + 1]]

PutTake(d) ==
  /\ len > 0 /\ len < Capacity
  /\ len' = len
  /\ item' = [i \in 0 .. len' - 1 |-> IF i = len - 1 THEN d ELSE item[i + 1]]

Next == Clear \/ Take \/ \E d \in Entry : Put(d) \/ PutTake(d)

Spec == Init /\ [][Next]_qvars
=============================================================================
