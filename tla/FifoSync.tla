------------------------------ MODULE FifoSync ------------------------------
(***************************************************************************)
(* The synchronous FIFO that buffers both directions of the UART           *)
(* (rtl/uncore/uart/FIFO_sync.v): a circular memory with a write pointer,  *)
(* a read pointer and an occupancy count.  One step is one rising edge of  *)
(* clk_i.  The pointers are registers of $clog2(DEPTH) bits, so they wrap  *)
(* at a power of two, whatever DEPTH is: with DEPTH = WRAP they stay in    *)
(* the memory; with DEPTH < WRAP a write beyond the last entry is dropped  *)
(* (EXCEPT outside the domain) and a read beyond it is an unknown value.   *)
(***************************************************************************)
EXTENDS Integers

CONSTANTS
  DEPTH,    \* number of entries, parameter DEPTH
  WRAP,     \* 2 ^ $clog2(DEPTH): where the ADDRW-bit pointers wrap
  Data      \* the values a DATAW-bit entry can hold

ASSUME FifoAssumption ==
  /\ DEPTH \in Nat \ {0}
  /\ WRAP \in Nat
  /\ DEPTH <= WRAP
  /\ Data # {}

VARIABLES
  mem,      \* the storage
  w_ptr,    \* where the next enqueued entry goes
  r_ptr,    \* where the oldest entry is
  count     \* number of stored entries

fifoVars == <<mem, w_ptr, r_ptr, count>>

Entries == 0 .. DEPTH - 1
Pointers == 0 .. WRAP - 1

(* Mutant of full: one entry too many is accepted. *)
FullTooLate == count > DEPTH

empty == count = 0
full  == count = DEPTH
dat_o == mem[r_ptr]

(* An ADDRW-bit pointer plus one. *)
Succ(p) == IF p = WRAP - 1 THEN 0 ELSE p + 1

FifoInit ==
  /\ mem \in [Entries -> Data]
  /\ w_ptr = 0
  /\ r_ptr = 0
  /\ count = 0

(* Mutant of Reset: the read pointer is forgotten. *)
ResetKeepsReader ==
  /\ w_ptr' = 0
  /\ count' = 0
  /\ UNCHANGED <<mem, r_ptr>>

(* rst_i: the pointers and the count are cleared, the memory is not. *)
Reset ==
  /\ w_ptr' = 0
  /\ r_ptr' = 0
  /\ count' = 0
  /\ UNCHANGED mem

(* Mutant of FifoClock: without lines 41-43 the last assignment to count wins. *)
ClockLastWins(we, re, d) ==
  LET enq == we /\ ~full
      deq == re /\ ~empty
  IN  /\ mem'   = IF enq THEN [mem EXCEPT ![w_ptr] = d] ELSE mem
      /\ w_ptr' = IF enq THEN Succ(w_ptr) ELSE w_ptr
      /\ r_ptr' = IF deq THEN Succ(r_ptr) ELSE r_ptr
      /\ count' = IF deq THEN count - 1 ELSE IF enq THEN count + 1 ELSE count

(* One clock edge with we_i = we, re_i = re and dat_i = d. *)
FifoClock(we, re, d) ==
  LET enq == we /\ ~full
      deq == re /\ ~empty
  IN  /\ mem'   = IF enq THEN [mem EXCEPT ![w_ptr] = d] ELSE mem
      /\ w_ptr' = IF enq THEN Succ(w_ptr) ELSE w_ptr
      /\ r_ptr' = IF deq THEN Succ(r_ptr) ELSE r_ptr
      /\ count' = IF enq /\ ~deq THEN count + 1
                  ELSE IF deq /\ ~enq THEN count - 1
                  ELSE count

FifoNext ==
  \/ Reset
  \/ \E we, re \in BOOLEAN, d \in Data : FifoClock(we, re, d)

FifoSpec == FifoInit /\ [][FifoNext]_fifoVars

-----------------------------------------------------------------------------
(* Types, and the structural fact every access relies on: the three        *)
(* registers of the FIFO agree, the write pointer being count places ahead *)
(* of the read pointer around the ring.                                    *)
FifoTypeOK ==
  /\ mem \in [Entries -> Data]
  /\ w_ptr \in Pointers
  /\ r_ptr \in Pointers
  /\ count \in 0 .. DEPTH

(* The i-th oldest entry (from 0) sits here. *)
Slot(i) == IF r_ptr + i < WRAP THEN r_ptr + i ELSE r_ptr + i - WRAP

(* The pointers never drift apart from the count: the write pointer is     *)
(* where the entry after the youngest stored one belongs, so an accepted   *)
(* write never lands on a stored entry and a full FIFO is told from an     *)
(* empty one although both have equal pointers (FIFO_sync.v 30-43).        *)
PointersAgree == w_ptr = Slot(count)

(* The queue the registers stand for, oldest entry first. *)
Contents == [i \in 0 .. count - 1 |-> mem[Slot(i)]]

Queue == INSTANCE BoundedQueue WITH
           Capacity <- DEPTH,
           Entry    <- Data,
           len      <- count,
           item     <- Contents

(* Every clock edge of FIFO_sync.v is a step of the abstract queue: what   *)
(* is read is what was written, in order, nothing is lost or overwritten,  *)
(* for any mix of simultaneous reads and writes, across pointer wrap-around *)
(* and resets.                                                             *)
ImplementsQueue == Queue!Spec
=============================================================================
