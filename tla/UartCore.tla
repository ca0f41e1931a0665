------------------------------ MODULE UartCore ------------------------------
(***************************************************************************)
(* The transmitter and the receiver of the UART (rtl/uncore/uart/          *)
(* UART_core.v).  RxClock and TxClock are one rising edge each; the line,  *)
(* the register interface and the line settings are their inputs.          *)
(*                                                                         *)
(* A character is a sequence of BITS bits, least significant first (BITS   *)
(* is 8 in the hardware).  The states keep their meaning in the code: 0    *)
(* idle, 1 start bit, 2 .. LastData data bits, then Parity, Stop and, in   *)
(* the transmitter, Hold (10, 11 and 12 with eight bits).                  *)
(***************************************************************************)
EXTENDS Integers, Sequences, FiniteSets

CONSTANTS
  BITS,     \* data bits in a character
  DIV       \* the divisor: a bit lasts DIV + 2 cycles

ASSUME UartCoreAssumption == BITS \in Nat \ {0} /\ DIV \in Nat

VARIABLES
  recv_state, recv_divcnt,
  recv_pattern,         \* the shift register, shown as reg_dat_do
  recv_buf_data,        \* the last character stored
  recv_buf_valid, recv_parity_bit, recv_stopbit,
  recv_framing_error, recv_parity_error,
  send_state, send_divcnt, send_pattern, send_stopbit,
  send_tx               \* the line

rxVars == <<recv_state, recv_divcnt, recv_pattern, recv_buf_data,
            recv_buf_valid, recv_parity_bit, recv_stopbit,
            recv_framing_error, recv_parity_error>>
txVars == <<send_state, send_divcnt, send_pattern, send_stopbit, send_tx>>

Bit == {0, 1}
Chars == [1 .. BITS -> Bit]
Zeros == [i \in 1 .. BITS |-> 0]

(* The line settings of the LCR register. *)
Settings == [rx_en : BOOLEAN, tx_en : BOOLEAN, dual : BOOLEAN,
             parity : BOOLEAN, even : BOOLEAN, loopback : BOOLEAN]

LastData == BITS + 1
Parity   == BITS + 2
Stop     == BITS + 3
Hold     == BITS + 4

get_even_parity(c) == Cardinality({i \in 1 .. BITS : c[i] = 1}) % 2
Inverted(b) == 1 - b
ParityOf(c, cfg) ==
  IF cfg.even THEN get_even_parity(c) ELSE Inverted(get_even_parity(c))

ShiftIn(pattern, b) == Append(Tail(pattern), b)

-----------------------------------------------------------------------------
RxInit ==
  /\ recv_state = 0 /\ recv_divcnt = 0
  /\ recv_pattern = Zeros /\ recv_buf_data = Zeros
  /\ recv_buf_valid = FALSE /\ recv_parity_bit = 0 /\ recv_stopbit = FALSE
  /\ recv_framing_error = FALSE /\ recv_parity_error = FALSE

(* Mutant of startDone: a whole bit, so that the samples fall on edges. *)
StartDoneWhole == recv_divcnt > DIV

startDone == 2 * recv_divcnt > DIV
rxDone == recv_divcnt > DIV

(* Reading the register (reg_dat_re) invalidates the character, unless a   *)
(* new one is stored in the same cycle.                                    *)
Invalidate(re) == recv_buf_valid' = (recv_buf_valid /\ ~re)
ForgetParity(re) == recv_parity_bit' = IF re THEN 0 ELSE recv_parity_bit

RxIdle(line, cfg, re) ==
  /\ recv_state = 0
  /\ recv_state' = IF cfg.rx_en /\ line = 0 THEN 1 ELSE 0
  /\ recv_divcnt' = 0
  /\ Invalidate(re) /\ ForgetParity(re)
  /\ UNCHANGED <<recv_pattern, recv_buf_data, recv_stopbit,
                 recv_framing_error, recv_parity_error>>

(* Half a bit into the start bit, from where whole bits are counted. *)
RxStart(re) ==
  /\ recv_state = 1 /\ startDone
  /\ recv_state' = 2
  /\ recv_divcnt' = 0
  /\ recv_framing_error' = FALSE /\ recv_parity_error' = FALSE
  /\ recv_stopbit' = FALSE
  /\ Invalidate(re) /\ ForgetParity(re)
  /\ UNCHANGED <<recv_pattern, recv_buf_data>>

RxData(line, cfg, re) ==
  /\ recv_state \in 2 .. LastData /\ rxDone
  /\ recv_pattern' = ShiftIn(recv_pattern, line)
  /\ recv_state' = IF recv_state = LastData /\ ~cfg.parity THEN Stop
                   ELSE recv_state + 1
  /\ recv_divcnt' = 0
  /\ Invalidate(re) /\ ForgetParity(re)
  /\ UNCHANGED <<recv_buf_data, recv_stopbit, recv_framing_error,
                 recv_parity_error>>

(* "&" binds tighter than "^", and the character is that of recv_buf_data. *)
RxParity(line, cfg, re) ==
  /\ recv_state = Parity /\ rxDone
  /\ recv_parity_bit' = line
  /\ LET masked == get_even_parity(recv_buf_data) = 1 /\ line = 1
     IN  recv_parity_error' = (cfg.even # masked)
  /\ recv_state' = Stop
  /\ recv_divcnt' = 0
  /\ Invalidate(re)
  /\ UNCHANGED <<recv_pattern, recv_buf_data, recv_stopbit,
                 recv_framing_error>>

(* Mutant of RxStop: the first of two stop bits ends the character. *)
RxStopOnce(line, cfg, re) ==
  /\ recv_state = Stop /\ rxDone
  /\ recv_framing_error' = (recv_framing_error \/ line = 0)
  /\ IF line = 1
     THEN recv_buf_data' = recv_pattern /\ recv_buf_valid' = TRUE
     ELSE UNCHANGED recv_buf_data /\ Invalidate(re)
  /\ IF cfg.dual
     THEN recv_divcnt' = 0 /\ UNCHANGED <<recv_state, recv_stopbit>>
     ELSE recv_state' = 0 /\ recv_divcnt' = recv_divcnt + 1
          /\ UNCHANGED recv_stopbit
  /\ ForgetParity(re)
  /\ UNCHANGED <<recv_pattern, recv_parity_error>>

(* Of two stop bits the first one stores the character. *)
RxStop(line, cfg, re) ==
  LET first == cfg.dual /\ ~recv_stopbit IN
  /\ recv_state = Stop /\ rxDone
  /\ recv_framing_error' = (recv_framing_error \/ line = 0)
  /\ IF line = 1 /\ (~cfg.dual \/ first)
     THEN recv_buf_data' = recv_pattern /\ recv_buf_valid' = TRUE
     ELSE UNCHANGED recv_buf_data /\ Invalidate(re)
  /\ IF first
     THEN recv_divcnt' = 0 /\ recv_stopbit' = TRUE /\ UNCHANGED recv_state
     ELSE /\ recv_state' = 0 /\ recv_divcnt' = recv_divcnt + 1
          /\ UNCHANGED recv_stopbit
  /\ ForgetParity(re)
  /\ UNCHANGED <<recv_pattern, recv_parity_error>>

RxCount(re) ==
  /\ IF recv_state = 1 THEN ~startDone
     ELSE recv_state # 0 /\ ~rxDone
  /\ recv_divcnt' = recv_divcnt + 1
  /\ Invalidate(re) /\ ForgetParity(re)
  /\ UNCHANGED <<recv_state, recv_pattern, recv_buf_data, recv_stopbit,
                 recv_framing_error, recv_parity_error>>

RxClock(line, cfg, re) ==
  \/ RxIdle(line, cfg, re)
  \/ RxStart(re)
  \/ RxData(line, cfg, re)
  \/ RxParity(line, cfg, re)
  \/ RxStop(line, cfg, re)
  \/ RxCount(re)

-----------------------------------------------------------------------------
(* The data bits and the parity bit are shifted out of send_pattern. *)
TxInit ==
  /\ send_state = 0 /\ send_divcnt = 0
  /\ send_pattern = [i \in 1 .. BITS + 1 |-> 1]
  /\ send_stopbit = FALSE
  /\ send_tx = 1

txDone == send_divcnt > DIV

TxAccepts(cfg, we) == send_state = 0 /\ cfg.tx_en /\ we

TxIdle(cfg, we, c) ==
  /\ send_state = 0
  /\ IF TxAccepts(cfg, we)
     THEN send_pattern' = Append(c, ParityOf(c, cfg)) /\ send_state' = 1
     ELSE UNCHANGED <<send_pattern, send_state>>
  /\ send_divcnt' = 0
  /\ UNCHANGED <<send_stopbit, send_tx>>

TxStart ==
  /\ send_state = 1
  /\ send_tx' = 0
  /\ send_stopbit' = FALSE
  /\ send_state' = 2
  /\ send_divcnt' = 0
  /\ UNCHANGED send_pattern

TxData(cfg) ==
  /\ send_state \in 2 .. LastData /\ txDone
  /\ send_tx' = Head(send_pattern)
  /\ send_pattern' = ShiftIn(send_pattern, 0)
  /\ send_state' = IF send_state = LastData /\ ~cfg.parity THEN Stop
                   ELSE send_state + 1
  /\ send_divcnt' = 0
  /\ UNCHANGED send_stopbit

TxParity ==
  /\ send_state = Parity /\ txDone
  /\ send_tx' = Head(send_pattern)
  /\ send_state' = Stop
  /\ send_divcnt' = 0
  /\ UNCHANGED <<send_pattern, send_stopbit>>

TxStopShort(cfg) ==
  /\ send_state = Stop /\ txDone
  /\ send_tx' = 1
  /\ IF cfg.dual /\ ~send_stopbit
     THEN send_stopbit' = TRUE /\ UNCHANGED send_state
     ELSE send_state' = 0 /\ UNCHANGED send_stopbit
  /\ send_divcnt' = 0
  /\ UNCHANGED send_pattern

TxStop(cfg) ==
  /\ send_state = Stop /\ txDone
  /\ send_tx' = 1
  /\ IF cfg.dual /\ ~send_stopbit
     THEN send_stopbit' = TRUE /\ UNCHANGED send_state
     ELSE send_state' = Hold /\ UNCHANGED send_stopbit
  /\ send_divcnt' = 0
  /\ UNCHANGED send_pattern

TxHold ==
  /\ send_state = Hold /\ txDone
  /\ send_tx' = 1
  /\ send_state' = 0
  /\ send_divcnt' = send_divcnt + 1
  /\ UNCHANGED <<send_pattern, send_stopbit>>

TxCount ==
  /\ send_state \notin {0, 1} /\ ~txDone
  /\ send_divcnt' = send_divcnt + 1
  /\ UNCHANGED <<send_state, send_pattern, send_stopbit, send_tx>>

TxClock(cfg, we, c) ==
  \/ TxIdle(cfg, we, c)
  \/ TxStart
  \/ TxData(cfg)
  \/ TxParity
  \/ TxStop(cfg)
  \/ TxHold
  \/ TxCount
=============================================================================
