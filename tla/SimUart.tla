------------------------------- MODULE SimUart -------------------------------
(***************************************************************************)
(* The simulator's end of the serial line (sim/bitbang_uart.cpp, and UART  *)
(* of sim/backend_hydrogensoc.cpp) on the UART of the simulated SoC.  One  *)
(* step is one tick of the simulator: the host side looks at the line as   *)
(* the last clock left it and sets its own, then the clock rises.  The     *)
(* host's receiver and transmitter know one frame format: eight bits, no   *)
(* parity, one stop bit.                                                   *)
(***************************************************************************)
EXTENDS Uart

CONSTANT FR         \* BBUART_FRATIO: ticks in a bit

ASSUME SimUartAssumption == FR \in Nat /\ FR > 1

VARIABLES
  rx_state, rx_wait, prev_rx, got_bits, rx_byte,    \* rx_eval
  tx_state, tx_wait, sent_bits, tx_byte, txval,     \* tx_eval
  bb_rx_fifo, bb_tx_fifo,
  air           \* history: what the transmitter of the SoC took, and the
                \*   host has not got

rxHost == <<rx_state, rx_wait, prev_rx, got_bits, rx_byte>>
txHost == <<tx_state, tx_wait, sent_bits, tx_byte, txval>>
simVars == <<vars, rxHost, txHost, bb_rx_fifo, bb_tx_fifo, air>>

FrameStates == {"IDLE", "START_BIT", "DATA_BITS", "STOP_BIT"}

-----------------------------------------------------------------------------
(* rx_eval.  prev_rx is kept while it waits.                               *)

(* Mutant of HalfBit: a whole bit, so that the samples fall on edges. *)
HalfBitWhole == FR
HalfBit == FR \div 2 - 1
Bit_ == FR - 1

RxWaits ==
  /\ rx_wait > 0
  /\ rx_wait' = rx_wait - 1
  /\ UNCHANGED <<rx_state, prev_rx, got_bits, rx_byte>>

Evals(state) == rx_wait = 0 /\ rx_state = state /\ prev_rx' = send_tx

RxWaitsForStart ==
  /\ Evals("IDLE")
  /\ IF prev_rx = 1 /\ send_tx = 0
     THEN rx_state' = "START_BIT" /\ rx_wait' = HalfBit /\ got_bits' = 0 /\ rx_byte' = Zeros
     ELSE UNCHANGED <<rx_state, rx_wait, got_bits, rx_byte>>

RxChecksStart ==
  /\ Evals("START_BIT")
  /\ IF send_tx = 0 THEN rx_state' = "DATA_BITS" /\ rx_wait' = Bit_
                    ELSE rx_state' = "IDLE" /\ UNCHANGED rx_wait
  /\ UNCHANGED <<got_bits, rx_byte>>

RxGetsBit ==
  /\ Evals("DATA_BITS")
  /\ rx_byte' = ShiftIn(rx_byte, send_tx)
  /\ got_bits' = got_bits + 1
  /\ rx_state' = IF got_bits' = BITS THEN "STOP_BIT" ELSE "DATA_BITS"
  /\ rx_wait' = Bit_

(* A character without its stop bit is dropped with a message. *)
hears == rx_wait = 0 /\ rx_state = "STOP_BIT" /\ send_tx = 1

RxEnds ==
  /\ Evals("STOP_BIT")
  /\ rx_state' = "IDLE"
  /\ rx_wait' = IF hears THEN HalfBit ELSE 0
  /\ UNCHANGED <<got_bits, rx_byte>>

rx_eval == RxWaits \/ RxWaitsForStart \/ RxChecksStart \/ RxGetsBit \/ RxEnds

-----------------------------------------------------------------------------
(* tx_eval, after a character typed was queued.                            *)
TxWaits ==
  /\ tx_wait > 0
  /\ tx_wait' = tx_wait - 1
  /\ UNCHANGED <<tx_state, sent_bits, tx_byte, txval>>

Sends(state) == tx_wait = 0 /\ tx_state = state

TxWaitsForByte(queue) ==
  /\ Sends("IDLE")
  /\ txval' = 1
  /\ IF queue = <<>> THEN UNCHANGED <<tx_state, sent_bits, tx_byte>>
                     ELSE tx_state' = "START_BIT" /\ sent_bits' = 0 /\ tx_byte' = Head(queue)
  /\ UNCHANGED tx_wait

TxSendsStart ==
  /\ Sends("START_BIT")
  /\ txval' = 0
  /\ tx_state' = "DATA_BITS" /\ tx_wait' = Bit_
  /\ UNCHANGED <<sent_bits, tx_byte>>

TxSendsBit ==
  /\ Sends("DATA_BITS")
  /\ txval' = Head(tx_byte) /\ tx_byte' = ShiftIn(tx_byte, 0)
  /\ sent_bits' = sent_bits + 1
  /\ tx_state' = IF sent_bits' = BITS THEN "STOP_BIT" ELSE "DATA_BITS"
  /\ tx_wait' = Bit_

(* Mutant of TxSendsStop: the stop bit is cut short. *)
TxSendsStopShort ==
  /\ Sends("STOP_BIT")
  /\ txval' = 1
  /\ tx_state' = "IDLE"
  /\ UNCHANGED <<tx_wait, sent_bits, tx_byte>>

TxSendsStop ==
  /\ Sends("STOP_BIT")
  /\ txval' = 1
  /\ tx_state' = "IDLE" /\ tx_wait' = Bit_
  /\ UNCHANGED <<sent_bits, tx_byte>>

tx_eval(queue) ==
  TxWaits \/ TxWaitsForByte(queue) \/ TxSendsStart \/ TxSendsBit \/ TxSendsStop

-----------------------------------------------------------------------------
SimInit ==
  /\ Init
  /\ rx_state = "IDLE" /\ rx_wait = 0 /\ prev_rx = 0 /\ got_bits = 0 /\ rx_byte = Zeros
  /\ tx_state = "IDLE" /\ tx_wait = 0 /\ sent_bits = 0 /\ tx_byte = Zeros /\ txval = 1
  /\ bb_rx_fifo = <<>> /\ bb_tx_fifo = <<>> /\ air = <<>>

(* Bounds: what is under way, in both directions, fits into one FIFO, and  *)
(* a tick adds one character.  The host has no flow control, so that       *)
(* typing faster than the program reads loses characters; in loopback      *)
(* nobody listens to it.                                                   *)
UnderWay ==
  Len(txfifo) + Len(air) + Len(flight) + Len(rxfifo) + Len(bb_tx_fifo)

Typed ==
  {<<>>} \union {<<c>> : c \in {c \in Chars : ~lcr.loopback /\ UnderWay < FIFO_DEPTH}}
SimAccesses ==
  {a \in Accesses : a.op = "write" /\ ~lcr.loopback => UnderWay < FIFO_DEPTH}

(* The first thing of a tick is to hand over what was heard in the last    *)
(* one, to the terminal and to standard output.                            *)
UART(typed) ==
  /\ bb_rx_fifo' = (IF bb_rx_fifo = <<>> THEN <<>> ELSE Tail(bb_rx_fifo))
                     \o (IF hears THEN <<rx_byte>> ELSE <<>>)
  /\ rx_eval
  /\ LET queue == bb_tx_fifo \o typed
     IN  /\ tx_eval(queue)
         /\ bb_tx_fifo' = IF tx_state = "IDLE" /\ tx_state' # "IDLE" THEN Tail(queue) ELSE queue

HostTakes == IF tx_state = "IDLE" /\ tx_state' # "IDLE" THEN <<tx_byte'>> ELSE <<>>

Follow ==
  LET left == IF hears /\ air # <<>> THEN Tail(air) ELSE air
  IN  air' = IF lcr.loopback THEN <<>> ELSE left \o Taken

SimTick(a, typed) ==
  /\ UART(typed)
  /\ Clock(a, txval', IF lcr.loopback THEN Taken ELSE HostTakes)
  /\ Follow

SimNext ==
  \E typed \in Typed, a \in SimAccesses :
    (typed = <<>> \/ a.op # "write") /\ SimTick(a, typed)

(* The simulator runs. *)
SimSpec == SimInit /\ [][SimNext]_simVars /\ WF_simVars(SimNext)

-----------------------------------------------------------------------------
SimTypeOK ==
  /\ {rx_state, tx_state} \subseteq FrameStates
  /\ {rx_wait, tx_wait} \subseteq 0 .. FR
  /\ {prev_rx, txval} \subseteq Bit
  /\ {got_bits, sent_bits} \subseteq 0 .. BITS
  /\ {rx_byte, tx_byte} \subseteq Chars
  /\ Len(bb_rx_fifo) <= 1 /\ bb_tx_fifo \in Seq(Chars)

(* Nothing is lost on either way: no sender starts a character before the  *)
(* one before it has arrived.                                              *)
NoneLost == SimTypeOK /\ NothingLost /\ Len(air) <= 1

(* Both ways keep characters whole and in order: what the SoC's receiver   *)
(* stores was typed (see Delivers), and what the host hears was sent by    *)
(* the program, although the host only samples the line when it does not   *)
(* wait (bitbang_uart.cpp 24-90).                                          *)
HostHears ==
  [][~lcr.loopback /\ hears => air # <<>> /\ rx_byte = air[1]]_simVars
BothDeliver == Delivers /\ HostHears

(* Every character arrives, on both ways. *)
BothArrive == Arrives /\ (air # <<>> ~> hears)
=============================================================================
