------------------------------ MODULE TimerWb ------------------------------
(***************************************************************************)
(* The machine timer (rtl/uncore/timer/Timer_wb.v) and the cycle counter   *)
(* of the CSR unit (CSR_Unit.v 141-148), which software reads and writes   *)
(* in two halves.  Clock is one rising edge, with the register write of    *)
(* that cycle, if any.  Writes are whole words: the driver makes no other. *)
(***************************************************************************)
EXTENDS Integers

CONSTANT WORD       \* values of a half: 2^32 in the hardware

ASSUME TimerWbAssumption == WORD \in Nat /\ WORD > 1

VARIABLES
  mtime,
  mtimecmp,
  csr_cycle

timerVars == <<mtime, mtimecmp, csr_cycle>>

Lo(t) == t % WORD
Hi(t) == t \div WORD
Both(h, l) == WORD * h + l
AllOnes == WORD - 1
Wide(t) == t % (WORD * WORD)

int_o == mtime >= mtimecmp

TimerInit ==
  /\ mtime = 0
  /\ mtimecmp = Both(AllOnes, AllOnes)
  /\ csr_cycle = 0

WriteCmp(reg, val) ==
  CASE reg = "none"      -> mtimecmp
    [] reg = "mtimecmp"  -> Both(Hi(mtimecmp), val)
    [] reg = "mtimecmph" -> Both(val, Lo(mtimecmp))

Clock(reg, val) ==
  /\ mtime' = Wide(mtime + 1)
  /\ csr_cycle' = Wide(csr_cycle + 1)
  /\ mtimecmp' = WriteCmp(reg, val)
=============================================================================
