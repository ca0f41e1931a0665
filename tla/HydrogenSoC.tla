----------------------------- MODULE HydrogenSoC -----------------------------
(***************************************************************************)
(* The core on the bus of rtl/soc/hydrogensoc/HydrogenSoC.v: both ports    *)
(* share one Wishbone bus through Arbiter2_wb (fixed priority, data port   *)
(* first), Crossbar_wb selects the slave, and each slave acknowledges the  *)
(* cycle after it is strobed.  A data access names its slave in the        *)
(* program ("dev"); instructions are fetched from RAM.  Its specification  *)
(* implements that of CoreMem, whose properties therefore hold of it.      *)
(***************************************************************************)
EXTENDS CoreMem

VARIABLES
  grant, mask,         \* the arbiter's registers
  acks                 \* the slaves whose wb_ack_o register is set

busVars == <<grant, mask, acks>>
socVars == <<vars, busVars>>

I == 0    \* master 0 of the arbiter is the instruction port,
D == 1    \* master 1 the data port

Arb == INSTANCE Arbiter WITH
  PORTS <- 2, ROUND_ROBIN <- FALSE, BLOCK <- TRUE, BLOCK_ACK <- FALSE,
  LSB_HIGH <- FALSE

Slaves == {"timer", "ram"}

(* wbm_cyc of both masters; each port drives cyc and stb together. *)
request == {p \in {I, D} : IF p = I THEN i_activ ELSE d_activ}

(* Crossbar_wb: the slave of the address on the bus.  An unmapped address  *)
(* selects no slave, and then the acknowledge is taken from slave 0, the   *)
(* last one listed: the timer.                                             *)
Addressed ==
  IF I \in grant THEN "ram"
  ELSE IF D \in grant THEN rom[d_for].dev
  ELSE "none"
AckFrom == IF Addressed \in Slaves THEN Addressed ELSE "timer"

strobe == grant \cap request # {}
Strobed == IF strobe THEN {Addressed} \cap Slaves ELSE {}

bus_ack  == AckFrom \in acks

iport_ack == bus_ack /\ I \in grant
dport_ack == bus_ack /\ D \in grant

(* Mutant of SlaveAcks: the acknowledge is never taken back. *)
SlaveAcksStay == acks' = acks \union Strobed

(* Every slave: wb_ack_o <= wb_stb_i & !wb_ack_o. *)
SlaveAcks == acks' = Strobed \ acks

(* mtimecmp is written while the timer is strobed, so its line falls (or   *)
(* stays, when the new value has passed already).                          *)
SocTimerLine ==
  timer' \in IF timer THEN IF "timer" \in Strobed THEN BOOLEAN ELSE {TRUE}
             ELSE {FALSE, TimerFires}

SocInit ==
  /\ CoreInit
  /\ timer = FALSE
  /\ Arb!ArbInit
  /\ acks = {}

SocCycle(taken) ==
  /\ Tick(iport_ack, dport_ack, timer, FALSE, taken)
  /\ Arb!ArbClock(request, {})
  /\ SlaveAcks
  /\ SocTimerLine

SocNext == \E taken \in BOOLEAN : SocCycle(taken)

SocSpec == SocInit /\ [][SocNext]_socVars

(* The clock runs. *)
SocFairSpec == SocSpec /\ WF_socVars(SocNext)

-----------------------------------------------------------------------------
SocTypeOK ==
  /\ grant \in {{}, {I}, {D}}
  /\ mask = {}
  /\ acks \in {{}} \union {{s} : s \in Slaves}
  /\ timer \in BOOLEAN

(* The memory that CoreMem assumes is what this bus provides: only a port  *)
(* that drives the bus is acknowledged, one at a time, every request is    *)
(* answered eventually, and the timer line falls only under a data access. *)
ImplementsMem == []SocTypeOK /\ FairSpec

(* No access hangs: both ports, also the instruction port that always      *)
(* loses the arbitration, complete every access they start.                *)
AccessCompletes ==
  \A p \in {I, D} : p \in request ~> p \notin request

(* Neither does the program: unless it sleeps, the core keeps bringing     *)
(* instructions into stage 2, and an interrupt line ends its sleep.        *)
KeepsRunning == KeepsExecuting /\ WakesUp
=============================================================================
