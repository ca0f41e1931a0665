----------------------------- MODULE Allocator -----------------------------
(***************************************************************************)
(* What malloc and free promise a program (sw/lib/include/stdlib.h): a     *)
(* chunk at least as long as asked for, that overlaps no other chunk the   *)
(* program holds and stays its own until it is freed, or none at all.      *)
(***************************************************************************)
EXTENDS Integers

CONSTANTS
  Base, Limit,  \* the heap: Base .. Limit - 1
  Sizes         \* the sizes programs ask for

VARIABLE chunks \* what the program holds: [at, len]

Covers(c, a) == c.at <= a /\ a < c.at + c.len

Disjoint(c, d) == \A a \in Base .. Limit - 1 : ~(Covers(c, a) /\ Covers(d, a))

Init == chunks = {}

Malloc ==
  \E at \in Base .. Limit - 1, n \in Sizes :
    LET c == [at |-> at, len |-> n] IN
    /\ at + n <= Limit
    /\ \A d \in chunks : Disjoint(c, d)
    /\ chunks' = chunks \union {c}

Free == \E c \in chunks : chunks' = chunks \ {c}

Next == Malloc \/ Free

Spec == Init /\ [][Next]_chunks
=============================================================================
