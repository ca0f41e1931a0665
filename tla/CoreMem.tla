------------------------------- MODULE CoreMem -------------------------------
(***************************************************************************)
(* The core with a memory that answers each port after any number of       *)
(* cycles, and with the timer interrupt line of the SoC.  The external     *)
(* interrupt line is tied low (HydrogenSoC.v:80).                          *)
(***************************************************************************)
EXTENDS AtomCore

CONSTANT TimerFires    \* whether the timer is ever programmed to expire

ASSUME TimerAssumption == TimerFires \in BOOLEAN

VARIABLE timer         \* timer_int_o

vars == <<coreVars, timer>>

(* The line rises when the timer expires and falls only when software      *)
(* rewrites mtimecmp, which takes a data access.                           *)
TimerLine ==
  timer' \in IF timer THEN IF d_activ THEN BOOLEAN ELSE {TRUE}
             ELSE {FALSE, TimerFires}

Init == CoreInit /\ timer = FALSE

(* A port is acknowledged only while its wrapper drives the bus, and the   *)
(* shared bus acknowledges one port at a time.                             *)
Cycle(iack, dack, taken) ==
  /\ iack => i_activ
  /\ dack => d_activ
  /\ ~(iack /\ dack)
  /\ Tick(iack, dack, timer, FALSE, taken)
  /\ TimerLine

Next == \E iack, dack, taken \in BOOLEAN : Cycle(iack, dack, taken)

Spec == Init /\ [][Next]_vars

(* The slaves of the SoC acknowledge every request to a mapped address,    *)
(* and the clock runs.                                                     *)
Fairness ==
  /\ WF_vars(Next)
  /\ WF_vars(\E dack, taken \in BOOLEAN : Cycle(TRUE, dack, taken))
  /\ WF_vars(\E iack, taken \in BOOLEAN : Cycle(iack, TRUE, taken))

FairSpec == Spec /\ Fairness

-----------------------------------------------------------------------------
TypeOK ==
  /\ {PC, PC_Old, link, i_adr, d_for, lower, mepc} \subseteq Addresses
  /\ IR \in Seq(Addresses) /\ Len(IR) <= 2
  /\ {ignore, halted, was, i_activ, d_activ, timer} \subseteq BOOLEAN
  /\ {mie, mtie, meie, timer_r, ext_r} \subseteq BOOLEAN
  /\ mip \subseteq {"mtip", "meip"}
  /\ mcause \in [intr : BOOLEAN, cause : Nat]

(* The instruction at address a as it should look in IR. *)
InstrAt(a) == IF rom[a].len = 1 THEN <<a>> ELSE <<a, Plus(a, 1)>>

(* Fetch integrity.  Whatever the alignment, the jumps and the latency of  *)
(* the memory, the instruction being executed is made of the halfwords     *)
(* stored at its own address, in order (AtomRV.v 296-307 with              *)
(* RVC_Aligner.v 32-53 and the handshake-ignoring rule 195-208).           *)
FetchIntegrity == IR # NOP => IR = InstrAt(PC_Old)

(* The return address a jump-and-link stores is that of the instruction    *)
(* behind it, and so is the PC as long as no jump has been decided.        *)
LinkIsNext == IR # NOP => link = Plus(PC_Old, rom[PC_Old].len) /\ PC = link

(* A data access in flight on the bus is always one that the instruction   *)
(* in stage 2 made and still waits for (AtomRV.v 140-147): no access is    *)
(* abandoned, so none is repeated and no answer reaches the wrong one.     *)
AccessAwaited == d_activ => dport_valid /\ d_for = PC_Old

-----------------------------------------------------------------------------
(* The first instruction that has not been executed: the one in stage 2,  *)
(* or behind a bubble the one to be fetched.                               *)
NextToExecute == IF IR = NOP THEN PC ELSE PC_Old

Machine == INSTANCE Isa WITH
  pc           <- NextToExecute,
  epc          <- mepc,
  enabled      <- mie,
  timerEnabled <- mtie,
  asleep       <- halted

(* Without asynchronous traps, the pipeline executes the program as the    *)
(* sequential machine does: stalls, bubbles, dropped fetches and sleeping  *)
(* are stutters.                                                           *)
ImplementsIsa == Machine!Spec

(* A trap saves the address execution has to resume at, that of the first  *)
(* instruction which has not been executed (CSR_Unit.v 287-296).           *)
TrapSavesPC ==
  [][trap_caught(timer, FALSE) => mepc' = NextToExecute]_vars

(* The machine never wedges: unless it sleeps, some instruction is always  *)
(* fetched into stage 2 eventually.                                        *)
KeepsExecuting == []<>(IR # NOP \/ halted)

(* An interrupt line that is up ends a sleep, enabled or not.              *)
WakesUp == (halted /\ timer) ~> ~halted
=============================================================================
