------------------------------ MODULE CsrUnit ------------------------------
(***************************************************************************)
(* The trap half of the CSR unit (rtl/core/CSR_Unit.v): interrupt enables, *)
(* the edge detectors in front of the asynchronous interrupts, trap cause  *)
(* selection, and the registers software sees.  Clock is one rising edge.  *)
(*                                                                         *)
(* Addresses are halfword addresses ([31:1] of the byte address), so the   *)
(* "+ 4 bytes" of a trap out of WFI is + 2, and they wrap around.  Not modelled: the counters,   *)
(* the read-only identification registers, software interrupts (tied to 0  *)
(* by AtomRV.v:522) and mtvec, which the core takes as a constant.         *)
(***************************************************************************)
EXTENDS Integers

CONSTANT SIZE   \* halfwords in the address space: 2^31 in the hardware

Addresses == 0 .. SIZE - 1

(* Address arithmetic in a register of the width of an address. *)
Plus(a, n) == IF a + n < SIZE THEN a + n ELSE a + n - SIZE

VARIABLES
  mie,       \* csr_mstatus_mie: the global interrupt enable
  mtie,      \* csr_mie_mtie: timer interrupt enable
  meie,      \* csr_mie_meie: external interrupt enable
  timer_r,   \* intrpt_timer_async_r: the gated timer line, one cycle ago
  ext_r,     \* intrpt_ext_async_r: the gated external line, one cycle ago
  mip,       \* the set of pending bits that are set, of {"mtip", "meip"}
  mepc,
  mcause     \* [intr, cause]

csrVars == <<mie, mtie, meie, timer_r, ext_r, mip, mepc, mcause>>

IllegalInstr == 2
MTimer       == 7
MExternal    == 11

(* A CSR instruction in stage 2 writes one register; none is a cycle       *)
(* without csru_we.                                                        *)
NoWrite == [csr |-> "none"]

CsrInit ==
  /\ mie = FALSE /\ mtie = FALSE /\ meie = FALSE
  /\ timer_r = FALSE /\ ext_r = FALSE
  /\ mip = {}
  /\ mepc = 0
  /\ mcause = [intr |-> FALSE, cause |-> 0]

exception(illegal) == mie /\ illegal

timerAsync(tim) == mie /\ mtie /\ tim
extAsync(ext)   == mie /\ meie /\ ext
intrTimer(tim)  == timerAsync(tim) /\ ~timer_r
intrExt(ext)    == extAsync(ext) /\ ~ext_r

trapCaught(illegal, tim, ext) ==
  exception(illegal) \/ intrTimer(tim) \/ intrExt(ext)

(* Exceptions first, then the timer, then the external line. *)
TrapCause(illegal, tim) ==
  IF exception(illegal) THEN IllegalInstr
  ELSE IF intrTimer(tim) THEN MTimer
  ELSE MExternal

(* One clock edge: w is the write of the instruction in stage 2, illegal   *)
(* says that it is illegal, tim and ext are the interrupt lines, halted    *)
(* and pc come from the pipeline.                                          *)
CsrClock(w, illegal, tim, ext, halted, pc) ==
  LET trap == trapCaught(illegal, tim, ext) IN
  /\ mie' = IF w.csr = "mstatus" THEN w.val ELSE mie
  /\ mtie' = IF w.csr = "mie" THEN "mtie" \in w.val ELSE mtie
  /\ meie' = IF w.csr = "mie" THEN "meie" \in w.val ELSE meie
  /\ timer_r' = timerAsync(tim)
  /\ ext_r' = extAsync(ext)
  /\ mip' = IF w.csr = "mip" THEN w.val
            ELSE mip \union (IF intrTimer(tim) THEN {"mtip"} ELSE {})
                     \union (IF intrExt(ext) THEN {"meip"} ELSE {})
  /\ mepc' = IF trap THEN IF halted THEN Plus(pc, 2) ELSE pc
             ELSE IF w.csr = "mepc" THEN w.val
             ELSE mepc
  /\ mcause' = IF trap
               THEN [intr |-> ~exception(illegal),
                     cause |-> TrapCause(illegal, tim)]
               ELSE mcause
=============================================================================
