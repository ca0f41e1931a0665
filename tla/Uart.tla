-------------------------------- MODULE Uart --------------------------------
(***************************************************************************)
(* The UART of the SoC (rtl/uncore/uart/UART.v, with FIFO_EN): the line    *)
(* control register, the receive and transmit FIFOs around UART_core, and  *)
(* the driver in sw/lib/libcatom/hydrogensoc/serial.c that reads and       *)
(* writes them.  One step is one clock cycle, in which the driver makes at *)
(* most one register access.  The FIFOs are the bounded queues that        *)
(* FifoSync is shown to implement.                                         *)
(***************************************************************************)
EXTENDS UartCore

CONSTANTS
  FIFO_DEPTH,   \* entries of each FIFO, parameter FIFO_DEPTH
  Configs,      \* the line settings software uses
  Reconfigures, \* whether it changes them while the UART runs
  FlowControl,  \* whether it writes only what the receive FIFO has room for
  RxLine        \* the levels of the outside line when not in loopback

ASSUME UartAssumption ==
  /\ FIFO_DEPTH \in Nat \ {0}
  /\ Configs \subseteq Settings
  /\ {Reconfigures, FlowControl} \subseteq BOOLEAN
  /\ RxLine \subseteq Bit /\ RxLine # {}

VARIABLES
  lcr,
  rxfifo, txfifo,
  flight        \* history: what the sender the receiver listens to took,
                \*   and is not yet in rxfifo

vars == <<rxVars, txVars, lcr, rxfifo, txfifo, flight>>

rx_full  == Len(rxfifo) = FIFO_DEPTH
tx_full  == Len(txfifo) = FIFO_DEPTH

Init ==
  /\ RxInit /\ TxInit
  /\ lcr \in Configs
  /\ rxfifo = <<>> /\ txfifo = <<>>
  /\ flight = <<>>

-----------------------------------------------------------------------------
(* What the driver does in a cycle. *)
Idle     == [op |-> "idle"]
Read     == [op |-> "read"]
Write(c) == [op |-> "write", char |-> c]
Set(cfg) == [op |-> "set", cfg |-> cfg]

Room == Len(txfifo) + Len(flight) + Len(rxfifo) < FIFO_DEPTH

(* serial_read and serial_write poll LSR first; serial_set_config writes   *)
(* LCR and then reads a character to clear the register, FIFO empty or not.*)
Accesses ==
  {Idle}
  \union {a \in {Read} : rxfifo # <<>> \/ Reconfigures}
  \union {Write(c) : c \in {c \in Chars : ~tx_full /\ (FlowControl => Room)}}
  \union {Set(cfg) : cfg \in {cfg \in Configs : Reconfigures}}

SetLcr(a) == lcr' = IF a.op = "set" THEN a.cfg ELSE lcr

(* A queue clocked with an entry to append (or none) and a request to take *)
(* the oldest one; both see the queue as it was.                           *)
Clocked(q, we, c, re) ==
  LET kept == IF re /\ q # <<>> THEN Tail(q) ELSE q
  IN  IF we /\ Len(q) < FIFO_DEPTH THEN Append(kept, c) ELSE kept

rx_we == recv_buf_valid /\ lcr.rx_en
tx_accepts == TxAccepts(lcr, txfifo # <<>>)

Fifos(a) ==
  /\ rxfifo' = Clocked(rxfifo, rx_we, recv_pattern, a.op = "read")
  /\ txfifo' = Clocked(txfifo, a.op = "write", IF a.op = "write" THEN a.char ELSE Zeros,
                       tx_accepts)

pushes == rx_we /\ ~rx_full

(* What the transmitter takes, and so the one to come back in loopback. *)
Taken == IF tx_accepts THEN <<Head(txfifo)>> ELSE <<>>

(* With the settings changing on the way nothing is promised and nothing   *)
(* recorded.                                                               *)
Track(taken) ==
  LET left == IF pushes /\ flight # <<>> THEN Tail(flight) ELSE flight
  IN  flight' = IF Reconfigures THEN <<>> ELSE left \o taken

(* In loopback the receiver listens to the transmitter.  taken is what the *)
(* one it listens to starts to send.                                       *)
Clock(a, rx_i, taken) ==
  /\ RxClock(IF lcr.loopback THEN send_tx ELSE rx_i, lcr, ~rx_full)
  /\ TxClock(lcr, txfifo # <<>>, IF txfifo = <<>> THEN Zeros ELSE Head(txfifo))
  /\ SetLcr(a)
  /\ Fifos(a)
  /\ Track(taken)

Next == \E a \in Accesses, rx_i \in RxLine : Clock(a, rx_i, Taken)

Spec == Init /\ [][Next]_vars

(* The clock runs. *)
FairSpec == Spec /\ WF_vars(Next)

-----------------------------------------------------------------------------
TypeOK ==
  /\ recv_state \in 0 .. Stop /\ recv_divcnt \in 0 .. DIV + 2
  /\ {recv_pattern, recv_buf_data} \subseteq Chars
  /\ {recv_buf_valid, recv_stopbit, recv_framing_error, recv_parity_error,
      send_stopbit} \subseteq BOOLEAN
  /\ recv_parity_bit \in Bit
  /\ send_state \in 0 .. Hold /\ send_divcnt \in 0 .. DIV + 2
  /\ send_pattern \in [1 .. BITS + 1 -> Bit]
  /\ send_tx \in Bit
  /\ lcr \in Configs
  /\ \A q \in {rxfifo, txfifo} : q \in Seq(Chars) /\ Len(q) <= FIFO_DEPTH

(* What enters the receive FIFO is the oldest character the sender (in     *)
(* loopback the transmitter) took and has not delivered, and nothing says  *)
(* otherwise: no character is invented, damaged, doubled, overtaken or     *)
(* marked as broken.  This is what RVAL and FERR of the line status        *)
(* register mean: "Complete incoming character has been recieved into      *)
(* RBR", "Framing Error" (rtl/uncore/uart/README.md).                      *)
Delivers ==
  [][pushes => flight # <<>> /\ recv_pattern = flight[1] /\ ~recv_framing_error]_vars

(* None is lost: the next one is never accepted before the last one has    *)
(* arrived.                                                                *)
NothingLost == TypeOK /\ Len(flight) <= 1

(* Every accepted character arrives. *)
Arrives == flight # <<>> ~> pushes

(* Whatever the line and the settings do, both machines come back to idle. *)
BothRecover == []<>(recv_state = 0) /\ []<>(send_state = 0)
=============================================================================
