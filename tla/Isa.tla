--------------------------------- MODULE Isa ---------------------------------
(***************************************************************************)
(* The machine a program believes it runs on: one instruction at a time,   *)
(* in program order, each exactly once.  A trap saves the address of the   *)
(* first instruction that has not been executed and continues at the trap  *)
(* vector; mret goes back to the saved address; WFI may sleep until some   *)
(* interrupt line wakes the hart.  Illegal instructions trap only while    *)
(* interrupts are globally enabled and are skipped otherwise.              *)
(***************************************************************************)
EXTENDS Integers

CONSTANTS SIZE, ResetVector, Mtvec

VARIABLES
  rom,            \* the program: any function from address to instruction
  pc, epc, enabled, timerEnabled, asleep

isaVars == <<rom, pc, epc, enabled, timerEnabled, asleep>>

Init ==
  /\ pc = ResetVector
  /\ epc = 0
  /\ enabled = FALSE /\ timerEnabled = FALSE
  /\ asleep = FALSE

op == rom[pc]
next == IF pc + op.len < SIZE THEN pc + op.len ELSE pc + op.len - SIZE

Traps == op.kind \in {"illegal", "badmem"} /\ enabled

Trap ==
  /\ pc' = Mtvec
  /\ epc' = pc
  /\ asleep' = FALSE
  /\ UNCHANGED <<rom, enabled, timerEnabled>>

Successors ==
  CASE op.kind = "jump"   -> {op.target}
    [] op.kind = "branch" -> {op.target, next}
    [] op.kind = "mret"   -> {epc}
    [] OTHER              -> {next}

Writes(csr) == op.kind = "csr" /\ op.write.csr = csr

Execute ==
  /\ ~asleep
  /\ IF Traps
     THEN Trap
     ELSE /\ pc' \in Successors
          /\ asleep' \in (IF op.kind = "wfi" THEN BOOLEAN ELSE {FALSE})
          /\ enabled' = IF Writes("mstatus") THEN op.write.val ELSE enabled
          /\ timerEnabled' = IF Writes("mie") THEN "mtie" \in op.write.val
                             ELSE timerEnabled
          /\ epc' = IF Writes("mepc") THEN op.write.val ELSE epc
          /\ UNCHANGED rom

Wake == asleep /\ asleep' = FALSE /\ UNCHANGED <<rom, pc, epc, enabled, timerEnabled>>

Interrupt == enabled /\ timerEnabled /\ Trap

Next == Execute \/ Wake \/ Interrupt

Spec == Init /\ [][Next]_isaVars
=============================================================================
