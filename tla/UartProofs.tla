----------------------------- MODULE UartProofs -----------------------------
(***************************************************************************)
(* Proofs about the serial line for every frame length, divisor and FIFO   *)
(* depth, and about the FIFO of the UART (the last part).                  *)
(*                                                                         *)
(* The argument about the line.  The line itself is the clock both ends    *)
(* share: a sender puts bit k of a frame (0 the start bit, then the data,  *)
(* the parity and the stop bits) on it and holds it for DIV + 2 cycles, of *)
(* which d have passed.  (k, d) is read off the state of the sender (SocK, *)
(* SocD for the SoC, HostK, HostD for the simulator) and moves on like a   *)
(* counter (Moves).  A receiver is in step with (k, d) when it is about to *)
(* sample bit k after d has passed half a bit (RxFollows, EarFollows);     *)
(* then every sample falls into the bit it is meant for, so what it has    *)
(* shifted in are the first bits of the character under way (RxHolds,      *)
(* EarHolds), and the sender still holds the others (SocCarries,           *)
(* HostCarries).  With a receiver that ends a frame before the sender can  *)
(* begin another, there is one character on the way at most.               *)
(***************************************************************************)
EXTENDS SimUart, FifoSync, SequenceTheorems, FiniteSetTheorems, TLAPS

USE UartCoreAssumption, UartAssumption, SimUartAssumption

(* Half a bit: the cycles the receiver of the SoC counts in a start bit.     *)
Half == DIV \div 2 + 1

(* The bits of a frame: bit 0 is the start bit, bit LastBit the last stop    *)
(* bit.                                                                      *)
Par(cfg) == IF cfg.parity THEN 1 ELSE 0
LastBit(cfg) == BITS + Par(cfg) + (IF cfg.dual THEN 2 ELSE 1)

(* The line settings that both ends of the line understand.                 *)
Understood(cfg) ==
  cfg.rx_en /\ cfg.tx_en /\ (cfg.loopback \/ (~cfg.parity /\ ~cfg.dual))

(* The hypotheses of the theorems about the line.  The driver sets DIV to    *)
(* the ratio of clock and baud rate less two (serial.c 59-60), at least 1    *)
(* ("CLKfreq/3 Gives highest possible baud rate", serial.h 7), and the       *)
(* simulator is built with the same ratio (backend_hydrogensoc.cpp 28).  The *)
(* settings stay, the driver writes what the FIFOs have room for, and both   *)
(* ends understand the format: the simulator knows neither parity nor a      *)
(* second stop bit.                                                          *)
LinkWorks ==
  /\ DIV # 0 /\ FR = DIV + 2
  /\ ~Reconfigures /\ FlowControl
  /\ \A cfg \in Configs : Understood(cfg)

-----------------------------------------------------------------------------
(* The transmitter of the SoC has begun a frame, or has taken a character    *)
(* and not begun it.                                                         *)
SocOn == send_state > 2 \/ (send_state = 2 /\ send_divcnt > 0)
SocPending == send_state = 1 \/ (send_state = 2 /\ send_divcnt = 0)

(* The bit a receiver last heard from it, and how many cycles before that it *)
(* went on the line.                                                         *)
SocBit(cfg) ==
  IF send_state \in {0, Hold} THEN LastBit(cfg)
  ELSE IF send_state = Stop THEN BITS + Par(cfg) + (IF send_stopbit THEN 1 ELSE 0)
  ELSE send_state - 2
SocK(cfg) == IF send_divcnt = 0 /\ send_state # 0 THEN SocBit(cfg) - 1 ELSE SocBit(cfg)
SocD == IF send_state = 0 \/ send_divcnt = 0 THEN DIV + 1 ELSE send_divcnt - 1

(* What the state of the transmitter says of its other registers.            *)
SocWell(cfg) ==
  /\ send_divcnt \in 0 .. DIV + 1 \/ send_state = 0
  /\ send_state = 1 => send_divcnt = 0
  /\ send_state = Parity => cfg.parity
  /\ send_state = Stop /\ send_stopbit => cfg.dual
  /\ send_state \in 2 .. Parity => ~send_stopbit
  /\ send_state \in {0, 1, Hold} => send_tx = 1
  /\ send_state = Stop /\ send_stopbit => send_tx = 1
  /\ send_state = 2 => send_tx = 0

(* The bits of c it has not sent are in its shift register, the one it is    *)
(* sending is on the line.                                                   *)
SocCarries(c) ==
  /\ send_state = 1 => \A i \in 1 .. BITS : send_pattern[i] = c[i]
  /\ send_state \in 2 .. LastData =>
       \A i \in 1 .. BITS : i <= BITS + 2 - send_state => send_pattern[i] = c[i + send_state - 2]
  /\ send_state \in 3 .. Parity => send_tx = c[send_state - 2]
  /\ send_state = Stop /\ ~send_stopbit /\ ~lcr.parity => send_tx = c[BITS]

-----------------------------------------------------------------------------
(* How many data bits the receiver of the SoC has, and the bit of the frame  *)
(* it samples next.                                                          *)
Got == IF recv_state \in 2 .. LastData THEN recv_state - 2 ELSE BITS
RxNext(cfg) ==
  IF recv_state = Stop THEN BITS + Par(cfg) + (IF recv_stopbit THEN 2 ELSE 1) ELSE recv_state - 1

(* The receiver of the SoC is in step with a line that has had bit k for d   *)
(* cycles.                                                                   *)
RxFollows(cfg, k, d) ==
  \/ recv_state = 0 /\ k = LastBit(cfg) /\ d > Half
  \/ recv_state = 1 /\ k = 0 /\ recv_divcnt = d /\ d <= Half
  \/ /\ recv_state >= 2 /\ recv_divcnt <= DIV + 1
     /\ recv_state = Parity => cfg.parity
     /\ recv_stopbit => recv_state = Stop /\ cfg.dual
     /\ \/ k = RxNext(cfg) - 1 /\ d = recv_divcnt + Half + 1 /\ d <= DIV + 1
        \/ k = RxNext(cfg) /\ d = recv_divcnt + Half - DIV - 1 /\ d >= 0

(* A queue of one character at most.                                         *)
AtMostOne(q) == q = <<>> \/ \E c \in Chars : q = <<c>>

(* The receiver is in a frame whose character it has not stored.             *)
Awaits == recv_state # 0 /\ ~(recv_state = Stop /\ recv_stopbit)

(* What it has shifted in are the first bits of c.                           *)
RxHolds(c) == recv_state >= 2 => \A i \in 1 .. BITS : i <= Got => recv_pattern[BITS - Got + i] = c[i]

(* No framing error is shown with a frame that is received or stored.        *)
RxClean == recv_state >= 2 \/ recv_buf_valid => ~recv_framing_error

(* The receiver and the character under way to it; pending: the sender has   *)
(* taken a character and not begun to send it.                               *)
RxInv(pending) ==
  /\ recv_buf_valid => ~Awaits
  /\ AtMostOne(flight)
  /\ flight # <<>> <=> pending \/ Awaits \/ recv_buf_valid
  /\ pending => recv_state = 0 /\ ~recv_buf_valid
  /\ recv_buf_valid => recv_pattern = flight[1]
  /\ flight # <<>> => RxHolds(flight[1])
  /\ RxClean

-----------------------------------------------------------------------------
(* The same of the transmitter of the simulator: the bit it has on the line, *)
(* and for how many ticks.                                                   *)
HostOn == tx_state \in {"DATA_BITS", "STOP_BIT"} \/ tx_wait > 0
HostPending == tx_state = "START_BIT"
HostK == IF tx_state = "IDLE" THEN BITS + 1 ELSE sent_bits
HostD == DIV + 1 - tx_wait
HostWell ==
  /\ tx_wait <= DIV + 1
  /\ tx_state = "START_BIT" => tx_wait = 0 /\ sent_bits = 0
  /\ tx_state = "DATA_BITS" => sent_bits < BITS
  /\ tx_state = "STOP_BIT" => sent_bits = BITS
  /\ tx_state \in {"IDLE", "START_BIT"} => txval = 1
  /\ tx_state = "DATA_BITS" /\ sent_bits = 0 => txval = 0

(* The bits of c it has not sent are in tx_byte, the one it is sending is on *)
(* the line.                                                                 *)
HostCarries(c) ==
  tx_state # "IDLE" =>
    /\ \A i \in 1 .. BITS : i <= BITS - sent_bits => tx_byte[i] = c[i + sent_bits]
    /\ sent_bits > 0 => txval = c[sent_bits]

-----------------------------------------------------------------------------
(* Half a bit of the simulator, and the bit its receiver samples next.       *)
HalfFR == FR \div 2
EarNext == IF rx_state = "STOP_BIT" THEN BITS + 1 ELSE got_bits + 1

(* The receiver of the simulator is in step with a line that has had bit k   *)
(* for d ticks: it samples when rx_wait is 0.                                *)
EarFollows(k, d) ==
  \/ rx_state = "IDLE" /\ k = BITS + 1 /\ d >= HalfFR /\ (rx_wait = 0 \/ d + rx_wait = 2 * HalfFR - 1)
  \/ rx_state = "START_BIT" /\ k = 0 /\ d + rx_wait = HalfFR - 1 /\ got_bits = 0
  \/ /\ rx_state \in {"DATA_BITS", "STOP_BIT"}
     /\ rx_state = "DATA_BITS" => got_bits < BITS
     /\ rx_wait <= DIV + 1
     /\ \/ k = EarNext - 1 /\ d = HalfFR + DIV + 1 - rx_wait /\ d <= DIV + 1
        \/ k = EarNext /\ d = HalfFR - 1 - rx_wait /\ d >= 0

(* What it has shifted in are the first bits of c, and all of them once it   *)
(* waits for the stop bit.                                                   *)
EarHolds(c) ==
  /\ rx_state = "DATA_BITS" => \A i \in 1 .. BITS : i <= got_bits => rx_byte[BITS - got_bits + i] = c[i]
  /\ rx_state = "STOP_BIT" => rx_byte = c

(* The receiver of the simulator and the character in the air.               *)
EarInv ==
  /\ AtMostOne(air)
  /\ air # <<>> <=> SocPending \/ rx_state # "IDLE"
  /\ SocPending => rx_state = "IDLE"
  /\ air # <<>> => EarHolds(air[1]) /\ SocCarries(air[1])
  /\ rx_state = "IDLE" => prev_rx = 1 \/ (send_state = 0 /\ rx_wait = 0)
  /\ ~SocOn => rx_state = "IDLE" /\ rx_wait = 0
  /\ SocOn => EarFollows(SocK(lcr), SocD)

(* In loopback the receiver of the SoC hears its transmitter.               *)
LoopInv ==
  /\ air = <<>> /\ bb_tx_fifo = <<>> /\ tx_state = "IDLE" /\ tx_wait = 0
  /\ RxInv(SocPending)
  /\ flight # <<>> => SocCarries(flight[1])
  /\ ~SocOn => recv_state = 0
  /\ SocOn => RxFollows(lcr, SocK(lcr), SocD)
  /\ Len(txfifo) + Len(flight) + Len(rxfifo) <= FIFO_DEPTH

(* Otherwise each end hears the other one.                                  *)
LineInv ==
  /\ EarInv
  /\ RxInv(HostPending)
  /\ flight # <<>> => HostCarries(flight[1])
  /\ ~HostOn => recv_state = 0
  /\ HostOn => RxFollows(lcr, HostK, HostD)
  /\ UnderWay <= FIFO_DEPTH

(* Types, machine by machine.                                                *)
RxTypeOK ==
  /\ recv_state \in 0 .. Stop /\ recv_divcnt \in 0 .. DIV + 2
  /\ recv_state # 0 => recv_divcnt <= DIV + 1
  /\ recv_pattern \in Chars
  /\ recv_buf_valid \in BOOLEAN /\ recv_stopbit \in BOOLEAN
  /\ recv_framing_error \in BOOLEAN

TxTypeOK ==
  /\ send_state \in 0 .. Hold /\ send_divcnt \in 0 .. DIV + 2
  /\ send_pattern \in [1 .. BITS + 1 -> Bit]
  /\ send_stopbit \in BOOLEAN /\ send_tx \in Bit

HostTypeOK ==
  /\ tx_state \in FrameStates /\ tx_wait \in Nat /\ txval \in Bit
  /\ sent_bits \in 0 .. BITS /\ tx_byte \in Chars

EarTypeOK ==
  /\ rx_state \in FrameStates /\ rx_wait \in Nat /\ prev_rx \in Bit
  /\ got_bits \in 0 .. BITS /\ rx_byte \in Chars
  /\ rx_wait <= FR
  /\ rx_state = "START_BIT" => got_bits = 0
  /\ rx_state = "DATA_BITS" => got_bits < BITS

RestTypeOK ==
  /\ recv_buf_data \in Chars /\ recv_parity_bit \in Bit /\ recv_parity_error \in BOOLEAN
  /\ lcr \in Configs
  /\ rxfifo \in Seq(Chars) /\ Len(rxfifo) <= FIFO_DEPTH
  /\ txfifo \in Seq(Chars) /\ Len(txfifo) <= FIFO_DEPTH
  /\ bb_tx_fifo \in Seq(Chars) /\ AtMostOne(bb_rx_fifo)

(* The inductive invariant.                                                  *)
LinkInv ==
  /\ RxTypeOK /\ TxTypeOK /\ EarTypeOK /\ HostTypeOK /\ RestTypeOK
  /\ SocWell(lcr) /\ HostWell
  /\ lcr.loopback => LoopInv
  /\ ~lcr.loopback => LineInv

-----------------------------------------------------------------------------
(* One clock on: bit k has been on the line for d clocks.                   *)
Moves(k, d, k1, d1) ==
  \/ d <= DIV /\ k1 = k /\ d1 = d + 1
  \/ d = DIV + 1 /\ k1 = k + 1 /\ d1 = 0

(* The bits of a frame; the one for the parity may be either.               *)
LineSays(cfg, c, k, b) ==
  /\ k = 0 => b = 0
  /\ k \in 1 .. BITS => b = c[k]
  /\ k > BITS + Par(cfg) => b = 1

(* A receiver leaves the start bit after Half cycles.                        *)
LEMMA HalfFacts ==
  ASSUME DIV # 0
  PROVE  /\ Half \in 1 .. DIV /\ 2 * Half > DIV
         /\ \A e \in Nat : (2 * e > DIV) <=> (e >= Half)
BY DEF Half

(* Shifting a bit in.                                                        *)
LEMMA ShiftFacts ==
  ASSUME NEW n \in Nat \ {0}, NEW s \in [1 .. n -> Bit], NEW b \in Bit
  PROVE  /\ ShiftIn(s, b) \in [1 .. n -> Bit]
         /\ \A i \in 1 .. n : ShiftIn(s, b)[i] = IF i = n THEN b ELSE s[i + 1]
<1>1. s \in Seq(Bit) /\ Len(s) = n /\ s # <<>>
  BY DEF Bit
<1>2. /\ Tail(s) \in Seq(Bit) /\ Len(Tail(s)) = n - 1
      /\ \A i \in 1 .. n - 1 : Tail(s)[i] = s[i + 1]
  BY <1>1, HeadTailProperties
<1>. DEFINE t == Tail(s)
<1>3. /\ Append(t, b) \in Seq(Bit) /\ Len(Append(t, b)) = n
      /\ \A i \in 1 .. n : Append(t, b)[i] = IF i = n THEN b ELSE t[i]
  BY <1>2, AppendProperties
<1>4. Append(t, b) \in [1 .. n -> Bit]
  BY <1>3, LenProperties
<1>. QED  BY <1>2, <1>3, <1>4 DEF ShiftIn

LEMMA CharShifts ==
  \A s \in [1 .. BITS -> Bit], b \in Bit :
    /\ ShiftIn(s, b) \in [1 .. BITS -> Bit]
    /\ \A i \in 1 .. BITS : ShiftIn(s, b)[i] = IF i = BITS THEN b ELSE s[i + 1]
BY ShiftFacts

-----------------------------------------------------------------------------
(* The receiver of the SoC stays in step with the line.                      *)
LEMMA RxStepFollows ==
  ASSUME DIV # 0, RxTypeOK, NEW cfg \in Settings, NEW k \in Nat, NEW d \in Nat,
         NEW k1 \in Nat, NEW d1 \in Nat, NEW c \in Chars, NEW b \in Bit, NEW re \in BOOLEAN,
         RxFollows(cfg, k, d), Moves(k, d, k1, d1), k1 <= LastBit(cfg),
         LineSays(cfg, c, k1, b), RxClock(b, cfg, re)
  PROVE  RxFollows(cfg, k1, d1)'
<1>. USE HalfFacts DEF RxFollows, Moves, RxNext, LastBit, Par, Parity, Stop, LastData, RxTypeOK, Settings
<1>. HIDE DEF Half
<1>1. CASE RxIdle(b, cfg, re)
  BY <1>1 DEF RxIdle, LineSays
<1>2. CASE RxStart(re)
  BY <1>2 DEF RxStart, startDone
<1>3. CASE RxData(b, cfg, re)
  BY <1>3 DEF RxData, rxDone
<1>4. CASE RxParity(b, cfg, re)
  BY <1>4 DEF RxParity, rxDone
<1>5. CASE RxStop(b, cfg, re)
  BY <1>5 DEF RxStop, rxDone
<1>6. CASE RxCount(re)
  BY <1>6 DEF RxCount, startDone, rxDone
<1>. QED  BY <1>1, <1>2, <1>3, <1>4, <1>5, <1>6 DEF RxClock

(* Its types.                                                                *)
LEMMA RxStepTypes ==
  ASSUME RxTypeOK, NEW cfg \in Settings, NEW b \in Bit, NEW re \in BOOLEAN,
         RxClock(b, cfg, re)
  PROVE  RxTypeOK'
<1>. USE DEF RxTypeOK, Stop, LastData, Parity, Settings
<1>1. CASE RxIdle(b, cfg, re)
  BY <1>1 DEF RxIdle, Invalidate
<1>2. CASE RxStart(re)
  <2>1. recv_state' = 2 /\ recv_divcnt' = 0 /\ recv_pattern' = recv_pattern
    BY <1>2 DEF RxStart
  <2>2. recv_buf_valid' \in BOOLEAN /\ recv_stopbit' \in BOOLEAN /\ recv_framing_error' \in BOOLEAN
    BY <1>2, Zenon DEF RxStart, Invalidate
  <2>. QED  BY <2>1, <2>2
<1>3. CASE RxData(b, cfg, re)
  <2>1. recv_pattern' \in Chars
    BY <1>3, ShiftFacts DEF RxData, Chars
  <2>. QED  BY <1>3, <2>1 DEF RxData, Invalidate
<1>4. CASE RxParity(b, cfg, re)
  BY <1>4 DEF RxParity, Invalidate
<1>5. CASE RxStop(b, cfg, re)
  <2>1. /\ recv_state' \in 0 .. Stop /\ recv_divcnt' \in 0 .. DIV + 2 /\ recv_pattern' = recv_pattern
        /\ recv_state' # 0 => recv_divcnt' <= DIV + 1
    BY <1>5 DEF RxStop, rxDone
  <2>2. recv_buf_valid' \in BOOLEAN /\ recv_framing_error' \in BOOLEAN
    BY <1>5, Zenon DEF RxStop, Invalidate
  <2>3. recv_stopbit' \in BOOLEAN
    BY <1>5, Zenon DEF RxStop
  <2>. QED  BY <2>1, <2>2, <2>3
<1>6. CASE RxCount(re)
  BY <1>6 DEF RxCount, Invalidate, startDone, rxDone
<1>. QED  BY <1>1, <1>2, <1>3, <1>4, <1>5, <1>6 DEF RxClock

(* It shifts in the bits of the character as they come.                     *)
LEMMA RxStepHolds ==
  ASSUME DIV # 0, RxTypeOK, NEW cfg \in Settings, NEW k \in Nat, NEW d \in Nat,
         NEW k1 \in Nat, NEW d1 \in Nat, NEW c \in Chars, NEW b \in Bit, NEW re \in BOOLEAN,
         RxFollows(cfg, k, d), Moves(k, d, k1, d1), k1 <= LastBit(cfg),
         LineSays(cfg, c, k1, b), RxClock(b, cfg, re), RxHolds(c)
  PROVE  RxHolds(c)'
<1>. USE HalfFacts DEF RxHolds, Got, Parity, Stop, LastData, RxTypeOK
<1>. HIDE DEF Half
<1>1. CASE RxIdle(b, cfg, re)
  BY <1>1 DEF RxIdle
<1>2. CASE RxStart(re)
  BY <1>2 DEF RxStart
<1>3. CASE RxData(b, cfg, re)
  <2>1. /\ recv_state \in 2 .. LastData /\ recv_divcnt = DIV + 1
        /\ recv_pattern' = ShiftIn(recv_pattern, b)
        /\ recv_state' = Stop \/ recv_state' = recv_state + 1
        /\ recv_state = LastData \/ recv_state' = recv_state + 1
    BY <1>3 DEF RxData, rxDone, RxFollows
  <2>2. k1 = recv_state - 1
    BY <2>1 DEF RxFollows, Moves, RxNext
  <2>3. b = c[recv_state - 1]
    BY <2>1, <2>2 DEF LineSays
  <2>4. \A i \in 1 .. BITS : recv_pattern'[i] = IF i = BITS THEN b ELSE recv_pattern[i + 1]
    <3>1. recv_pattern \in [1 .. BITS -> Bit] /\ BITS \in Nat \ {0}
      BY DEF Chars
    <3>2. \A i \in 1 .. BITS :
            ShiftIn(recv_pattern, b)[i] = IF i = BITS THEN b ELSE recv_pattern[i + 1]
      BY <3>1, ShiftFacts
    <3>. QED  BY <2>1, <3>2
  <2>5. Got = recv_state - 2 /\ Got' = recv_state - 1
    BY <2>1
  <2>6. \A i \in 1 .. BITS : i <= Got => recv_pattern[BITS - Got + i] = c[i]
    BY <2>1
  <2>7. ASSUME NEW i \in 1 .. BITS, i <= Got'
        PROVE  recv_pattern'[BITS - Got' + i] = c[i]
    <3>1. CASE i = recv_state - 1
      BY <2>1, <2>3, <2>4, <2>5, <2>7, <3>1
    <3>2. CASE i # recv_state - 1
      <4>1. i <= Got /\ BITS - Got' + i \in 1 .. BITS - 1 /\ BITS - Got' + i + 1 = BITS - Got + i
        BY <2>1, <2>5, <2>7, <3>2
      <4>. QED  BY <2>4, <2>6, <4>1
    <3>. QED  BY <3>1, <3>2
  <2>. QED  BY <2>7
<1>4. CASE RxParity(b, cfg, re)
  BY <1>4 DEF RxParity
<1>5. CASE RxStop(b, cfg, re)
  BY <1>5 DEF RxStop
<1>6. CASE RxCount(re)
  BY <1>6 DEF RxCount
<1>. QED  BY <1>1, <1>2, <1>3, <1>4, <1>5, <1>6 DEF RxClock

(* It stores a character once, whole, and sees its stop bits.               *)
LEMMA RxStepStores ==
  ASSUME DIV # 0, RxTypeOK, NEW cfg \in Settings, NEW k \in Nat, NEW d \in Nat,
         NEW k1 \in Nat, NEW d1 \in Nat, NEW c \in Chars, NEW b \in Bit, NEW re \in BOOLEAN,
         RxFollows(cfg, k, d), Moves(k, d, k1, d1), k1 <= LastBit(cfg),
         LineSays(cfg, c, k1, b), RxClock(b, cfg, re)
  PROVE  /\ RxClean => RxClean'
         /\ \/ Awaits' = Awaits /\ recv_buf_valid' = (recv_buf_valid /\ ~re)
            \/ Awaits /\ ~Awaits' /\ recv_buf_valid' /\ (RxHolds(c) => recv_pattern' = c)
<1>. USE HalfFacts DEF RxClean, Awaits, Parity, Stop, LastData, RxTypeOK, Invalidate, Settings
<1>. HIDE DEF Half
<1>1. CASE RxIdle(b, cfg, re)
  <2>1. b = 1
    BY <1>1 DEF RxIdle, RxFollows, LineSays, Moves, LastBit, Par
  <2>. QED  BY <1>1, <2>1 DEF RxIdle
<1>2. CASE RxStart(re)
  BY <1>2 DEF RxStart
<1>3. CASE RxData(b, cfg, re)
  BY <1>3 DEF RxData, RxFollows
<1>4. CASE RxParity(b, cfg, re)
  BY <1>4 DEF RxParity, RxFollows
<1>5. CASE RxStop(b, cfg, re)
  <2>1. b = 1
    BY <1>5 DEF RxStop, rxDone, RxFollows, RxNext, LineSays, Moves, LastBit, Par
  <2>2. recv_pattern' = recv_pattern
    BY <1>5 DEF RxStop
  <2>3. recv_state = Stop
    BY <1>5 DEF RxStop
  <2>4. RxHolds(c) => recv_pattern = c
    BY <2>3 DEF RxHolds, Got, Chars
  <2>5. RxClean => RxClean'
    BY <1>5, <2>1 DEF RxStop
  <2>6. CASE recv_stopbit
    BY <1>5, <2>5, <2>6, <2>3 DEF RxStop, RxFollows
  <2>7. CASE ~recv_stopbit
    BY <1>5, <2>1, <2>2, <2>3, <2>4, <2>5, <2>7 DEF RxStop
  <2>. QED  BY <2>6, <2>7
<1>6. CASE RxCount(re)
  BY <1>6 DEF RxCount
<1>. QED  BY <1>1, <1>2, <1>3, <1>4, <1>5, <1>6 DEF RxClock

(* An idle receiver waits for a start bit.                                  *)
LEMMA RxIdles ==
  ASSUME RxTypeOK, NEW cfg \in Settings, cfg.rx_en, NEW b \in Bit, NEW re \in BOOLEAN,
         NEW c, recv_state = 0, RxClock(b, cfg, re)
  PROVE  /\ recv_buf_valid' = (recv_buf_valid /\ ~re)
         /\ recv_pattern' = recv_pattern /\ recv_framing_error' = recv_framing_error
         /\ b = 1 => recv_state' = 0
         /\ b = 0 => recv_state' = 1 /\ recv_divcnt' = 0
BY DEF RxClock, RxIdle, RxStart, RxData, RxParity, RxStop, RxCount, Invalidate,
       Stop, Parity, LastData, RxTypeOK

-----------------------------------------------------------------------------
(* The transmitter of the SoC.  It puts the parity behind the character.     *)
LEMMA ParityFacts ==
  ASSUME NEW c \in Chars, NEW cfg \in Settings
  PROVE  /\ Append(c, ParityOf(c, cfg)) \in [1 .. BITS + 1 -> Bit]
         /\ \A i \in 1 .. BITS : Append(c, ParityOf(c, cfg))[i] = c[i]
<1>1. c \in Seq(Bit) /\ Len(c) = BITS
  BY DEF Chars
<1>2. get_even_parity(c) \in Bit
  <2>. DEFINE S == {i \in 1 .. BITS : c[i] = 1}
  <2>1. IsFiniteSet(1 .. BITS)
    BY FS_Interval
  <2>2. IsFiniteSet(S) /\ Cardinality(S) \in Nat
    BY <2>1, FS_Subset, FS_CardinalityType
  <2>. HIDE DEF S
  <2>3. Cardinality(S) % 2 \in {0, 1}
    BY <2>2
  <2>. QED  BY <2>3 DEF get_even_parity, Bit, S
<1>3. ParityOf(c, cfg) \in Bit
  BY <1>2 DEF ParityOf, Inverted, Bit
<1>4. /\ Append(c, ParityOf(c, cfg)) \in Seq(Bit) /\ Len(Append(c, ParityOf(c, cfg))) = BITS + 1
      /\ \A i \in 1 .. BITS : Append(c, ParityOf(c, cfg))[i] = c[i]
  BY <1>1, <1>3, AppendProperties
<1>. QED  BY <1>4, LenProperties

(* Its types.                                                                *)
LEMMA TxStepTypes ==
  ASSUME TxTypeOK, NEW cfg \in Settings, SocWell(cfg), NEW we \in BOOLEAN, NEW c \in Chars,
         TxClock(cfg, we, c)
  PROVE  TxTypeOK' /\ SocWell(cfg)'
<1>. USE DEF TxTypeOK, SocWell, Stop, LastData, Parity, Hold, Settings, Bit
<1>1. CASE TxIdle(cfg, we, c)
  <2>1. send_pattern' \in [1 .. BITS + 1 -> Bit]
    <3>1. Append(c, ParityOf(c, cfg)) \in [1 .. BITS + 1 -> Bit]
      BY ParityFacts DEF Settings
    <3>2. send_pattern' = Append(c, ParityOf(c, cfg)) \/ send_pattern' = send_pattern
      BY <1>1 DEF TxIdle
    <3>. QED  BY <3>1, <3>2
  <2>2. send_stopbit' = send_stopbit /\ send_tx' = send_tx /\ send_divcnt' = 0
        /\ send_state' \in {0, 1}
    BY <1>1 DEF TxIdle
  <2>. QED  BY <1>1, <2>1, <2>2 DEF TxIdle
<1>2. CASE TxStart
  <2>1. send_stopbit' \in BOOLEAN
    BY <1>2, Zenon DEF TxStart
  <2>. QED  BY <1>2, <2>1 DEF TxStart
<1>3. CASE TxData(cfg)
  <2>1. /\ send_pattern' \in [1 .. BITS + 1 -> Bit]
        /\ Head(send_pattern) \in Bit
    BY <1>3, ShiftFacts DEF TxData
  <2>. QED  BY <1>3, <2>1 DEF TxData, txDone
<1>4. CASE TxParity
  BY <1>4 DEF TxParity, txDone
<1>5. CASE TxStop(cfg)
  <2>1. send_stopbit' \in BOOLEAN
    BY <1>5, Zenon DEF TxStop
  <2>. QED  BY <1>5, <2>1 DEF TxStop, txDone
<1>6. CASE TxHold
  BY <1>6 DEF TxHold, txDone
<1>7. CASE TxCount
  BY <1>7 DEF TxCount, txDone
<1>. QED  BY <1>1, <1>2, <1>3, <1>4, <1>5, <1>6, <1>7 DEF TxClock

(* What it sends comes out bit by bit.                                      *)
LEMMA TxStepCarries ==
  ASSUME TxTypeOK, SocWell(lcr), lcr \in Settings, lcr' = lcr, NEW c \in Chars,
         NEW we \in BOOLEAN, NEW x \in Chars, TxClock(lcr, we, x),
         SocCarries(c), send_state # 0 \/ x = c
  PROVE  SocCarries(c)'
<1>. USE DEF SocCarries, TxTypeOK, SocWell, Stop, LastData, Parity, Hold, Settings, Bit
<1>1. CASE TxIdle(lcr, we, x)
  <2>1. CASE TxAccepts(lcr, we)
    <3>1. send_pattern' = Append(x, ParityOf(x, lcr)) /\ send_state' = 1 /\ x = c
      BY <1>1, <2>1 DEF TxIdle
    <3>2. \A i \in 1 .. BITS : Append(x, ParityOf(x, lcr))[i] = x[i]
      <4>. HIDE DEF Settings
      <4>. QED  BY ParityFacts
    <3>3. \A i \in 1 .. BITS : send_pattern'[i] = c[i]
      <4>. DEFINE y == Append(x, ParityOf(x, lcr))
      <4>1. send_pattern' = y /\ x = c
        BY <3>1
      <4>2. \A i \in 1 .. BITS : y[i] = x[i]
        BY <3>2
      <4>. HIDE DEF y
      <4>. QED  BY <4>1, <4>2
    <3>4. send_state' = 1
      BY <3>1
    <3>. QED  BY <3>3, <3>4
  <2>2. CASE ~TxAccepts(lcr, we)
    BY <1>1, <2>2 DEF TxIdle
  <2>. QED  BY <2>1, <2>2
<1>2. CASE TxStart
  BY <1>2 DEF TxStart
<1>3. CASE TxData(lcr)
  <2>1. /\ send_state \in 2 .. LastData
        /\ send_tx' = Head(send_pattern) /\ send_pattern' = ShiftIn(send_pattern, 0)
        /\ send_state' = IF send_state = LastData /\ ~lcr.parity THEN Stop ELSE send_state + 1
    BY <1>3 DEF TxData
  <2>2. /\ Head(send_pattern) = send_pattern[1]
        /\ \A i \in 1 .. BITS : send_pattern'[i] = send_pattern[i + 1]
    <3>1. BITS + 1 \in Nat \ {0} /\ 0 \in Bit
      OBVIOUS
    <3>2. \A i \in 1 .. BITS + 1 : ShiftIn(send_pattern, 0)[i] = IF i = BITS + 1 THEN 0 ELSE send_pattern[i + 1]
      BY <3>1, ShiftFacts
    <3>3. Head(send_pattern) = send_pattern[1]
      OBVIOUS
    <3>. QED  BY <2>1, <3>2, <3>3
  <2>3. \A i \in 1 .. BITS : i <= BITS + 2 - send_state => send_pattern[i] = c[i + send_state - 2]
    BY <2>1
  <2>4. send_tx' = c[send_state - 1]
    BY <2>1, <2>2, <2>3
  <2>5. CASE send_state' = send_state + 1
    <3>1. ASSUME NEW i \in 1 .. BITS, i <= BITS + 2 - send_state', send_state' \in 2 .. LastData
          PROVE  send_pattern'[i] = c[i + send_state' - 2]
      <4>1. i + 1 \in 1 .. BITS /\ i + 1 <= BITS + 2 - send_state /\ i + 1 + send_state - 2 = i + send_state' - 2
        BY <2>1, <2>5, <3>1
      <4>. QED  BY <2>2, <2>3, <4>1
    <3>2. send_state' \in 3 .. Parity => send_tx' = c[send_state' - 2]
      BY <2>1, <2>4, <2>5
    <3>3. ~(send_state' = Stop)
      BY <2>1, <2>5
    <3>4. send_state' # 1
      BY <2>1, <2>5
    <3>. QED  BY <3>1, <3>2, <3>3, <3>4
  <2>6. CASE send_state = LastData /\ send_state' = Stop
    BY <2>1, <2>4, <2>6
  <2>. QED  BY <2>1, <2>5, <2>6
<1>4. CASE TxParity
  BY <1>4 DEF TxParity
<1>5. CASE TxStop(lcr)
  BY <1>5 DEF TxStop
<1>6. CASE TxHold
  BY <1>6 DEF TxHold
<1>7. CASE TxCount
  BY <1>7 DEF TxCount
<1>. QED  BY <1>1, <1>2, <1>3, <1>4, <1>5, <1>6, <1>7 DEF TxClock

(* A clock of a frame moves the line by one clock, and what the others see  *)
(* of the line in it is the bit of the frame.                               *)
LEMMA TxStepMoves ==
  ASSUME TxTypeOK, SocWell(lcr), lcr \in Settings, lcr' = lcr, SocOn,
         NEW we \in BOOLEAN, NEW x \in Chars, TxClock(lcr, we, x)
  PROVE  /\ SocK(lcr) \in Nat /\ SocD \in Nat /\ SocK(lcr)' \in Nat /\ SocD' \in Nat
         /\ Moves(SocK(lcr), SocD, SocK(lcr)', SocD') /\ SocK(lcr)' <= LastBit(lcr)
         /\ ~SocPending'
         /\ SocOn' \/ (SocK(lcr)' = LastBit(lcr) /\ SocD' = DIV + 1 /\ send_state' = 0)
         /\ \A c \in Chars : SocCarries(c) => LineSays(lcr, c, SocK(lcr)', send_tx)
         /\ \A c \in Chars : SocK(lcr)' > BITS + Par(lcr) => LineSays(lcr, c, SocK(lcr)', send_tx)
<1>. USE DEF TxTypeOK, SocWell, Stop, LastData, Parity, Hold, Settings, Bit, SocOn, SocPending,
             SocK, SocD, SocBit, Par, LastBit, Moves, LineSays
<1>1. CASE TxIdle(lcr, we, x)
  BY <1>1 DEF TxIdle
<1>2. CASE TxStart
  BY <1>2 DEF TxStart
<1>3. CASE TxData(lcr)
  BY <1>3 DEF TxData, txDone, SocCarries
<1>4. CASE TxParity
  BY <1>4 DEF TxParity, txDone, SocCarries
<1>5. CASE TxStop(lcr)
  BY <1>5 DEF TxStop, txDone, SocCarries
<1>6. CASE TxHold
  BY <1>6 DEF TxHold, txDone, SocCarries
<1>7. CASE TxCount
  BY <1>7 DEF TxCount, txDone, SocCarries
<1>. QED  BY <1>1, <1>2, <1>3, <1>4, <1>5, <1>6, <1>7 DEF TxClock

(* Between frames: it waits, takes a character, and begins it.              *)
LEMMA TxStepStarts ==
  ASSUME TxTypeOK, SocWell(lcr), lcr \in Settings, lcr.tx_en, lcr' = lcr, ~SocOn,
         NEW we \in BOOLEAN, NEW x \in Chars, TxClock(lcr, we, x)
  PROVE  /\ send_state = 0 /\ we => SocPending' /\ ~SocOn'
         /\ send_state = 0 /\ ~we => send_state' = 0 /\ ~SocPending' /\ ~SocOn'
         /\ send_state = 1 => SocPending' /\ ~SocOn' /\ send_state' = 2
         /\ send_state = 2 => SocOn' /\ ~SocPending' /\ SocK(lcr)' = 0 /\ SocD' = 0
         /\ send_state \in {0, 1, 2}
         /\ send_state \in {0, 1} => send_tx = 1
         /\ send_state = 2 => send_tx = 0 /\ SocPending
BY DEF TxTypeOK, SocWell, Stop, LastData, Parity, Hold, Settings, Bit, SocOn, SocPending,
       SocK, SocD, SocBit, TxClock, TxIdle, TxStart, TxData, TxParity, TxStop, TxHold, TxCount,
       TxAccepts, txDone

-----------------------------------------------------------------------------
(* The transmitter of the simulator: its types.                              *)
LEMMA HostStepTypes ==
  ASSUME FR = DIV + 2, HostTypeOK, HostWell, NEW queue \in Seq(Chars), tx_eval(queue)
  PROVE  HostTypeOK' /\ HostWell'
<1>. USE DEF HostTypeOK, HostWell, FrameStates, Bit_, Sends
<1>1. CASE TxWaits
  BY <1>1 DEF TxWaits
<1>2. CASE TxWaitsForByte(queue)
  <2>1. tx_byte' \in Chars
    BY <1>2 DEF TxWaitsForByte
  <2>. QED  BY <1>2, <2>1 DEF TxWaitsForByte, Bit
<1>3. CASE TxSendsStart
  BY <1>3 DEF TxSendsStart, Bit
<1>4. CASE TxSendsBit
  <2>1. tx_byte' \in Chars /\ txval' \in Bit
    <3>1. 0 \in Bit /\ tx_byte \in [1 .. BITS -> Bit] /\ BITS \in Nat \ {0}
      BY DEF Bit, Chars
    <3>2. ShiftIn(tx_byte, 0) \in [1 .. BITS -> Bit] /\ Head(tx_byte) \in Bit
      BY <3>1, ShiftFacts
    <3>. QED  BY <1>4, <3>2 DEF TxSendsBit, Chars
  <2>2. sent_bits' = sent_bits + 1 /\ sent_bits < BITS
    BY <1>4 DEF TxSendsBit
  <2>. QED  BY <1>4, <2>1, <2>2 DEF TxSendsBit
<1>5. CASE TxSendsStop
  BY <1>5 DEF TxSendsStop, Bit
<1>. QED  BY <1>1, <1>2, <1>3, <1>4, <1>5 DEF tx_eval

(* What it sends comes out bit by bit.                                       *)
LEMMA HostStepCarries ==
  ASSUME FR = DIV + 2, HostTypeOK, HostWell, NEW queue \in Seq(Chars), tx_eval(queue),
         NEW c \in Chars, HostCarries(c),
         tx_state = "IDLE" /\ tx_state' # "IDLE" => tx_byte' = c
  PROVE  HostCarries(c)'
<1>. USE DEF HostTypeOK, HostWell, FrameStates, Bit_, Sends, HostCarries
<1>1. CASE TxWaits
  BY <1>1 DEF TxWaits
<1>2. CASE TxWaitsForByte(queue)
  BY <1>2 DEF TxWaitsForByte
<1>3. CASE TxSendsStart
  BY <1>3 DEF TxSendsStart
<1>4. CASE TxSendsBit
  <2>0. txval' = tx_byte[1]
    BY <1>4 DEF TxSendsBit, Chars
  <2>1. \A i \in 1 .. BITS : tx_byte'[i] = IF i = BITS THEN 0 ELSE tx_byte[i + 1]
    <3>1. 0 \in Bit /\ tx_byte \in [1 .. BITS -> Bit] /\ BITS \in Nat \ {0}
      BY DEF Bit, Chars
    <3>2. \A i \in 1 .. BITS : ShiftIn(tx_byte, 0)[i] = IF i = BITS THEN 0 ELSE tx_byte[i + 1]
      BY <3>1, ShiftFacts
    <3>. QED  BY <1>4, <3>2 DEF TxSendsBit
  <2>2. sent_bits' = sent_bits + 1 /\ sent_bits < BITS
    BY <1>4 DEF TxSendsBit
  <2>3. \A i \in 1 .. BITS : i <= BITS - sent_bits => tx_byte[i] = c[i + sent_bits]
    BY <1>4 DEF TxSendsBit
  <2>4. ASSUME NEW i \in 1 .. BITS, i <= BITS - sent_bits'
        PROVE  tx_byte'[i] = c[i + sent_bits']
    <3>1. i + 1 \in 1 .. BITS /\ i + 1 <= BITS - sent_bits /\ i + 1 + sent_bits = i + sent_bits'
      BY <2>2, <2>4
    <3>. QED  BY <2>1, <2>3, <3>1
  <2>5. txval' = c[sent_bits']
    BY <2>0, <2>2, <2>3
  <2>. QED  BY <2>4, <2>5
<1>5. CASE TxSendsStop
  BY <1>5 DEF TxSendsStop
<1>. QED  BY <1>1, <1>2, <1>3, <1>4, <1>5 DEF tx_eval

(* In a frame it moves on like the counter, and the level of the line is the *)
(* bit of the frame.                                                         *)
LEMMA HostStepMoves ==
  ASSUME FR = DIV + 2, HostTypeOK, HostWell, NEW queue \in Seq(Chars), tx_eval(queue), HostOn
  PROVE  /\ HostK \in Nat /\ HostD \in Nat /\ HostK' \in Nat /\ HostD' \in Nat
         /\ Moves(HostK, HostD, HostK', HostD') /\ HostK' <= BITS + 1
         /\ ~HostPending'
         /\ HostOn' \/ (HostK' = BITS + 1 /\ HostD' = DIV + 1 /\ tx_state' = "IDLE" /\ tx_wait' = 0)
         /\ tx_state = "IDLE" => tx_state' = "IDLE"
         /\ \A cfg \in Settings, c \in Chars :
              HostCarries(c) \/ tx_state = "IDLE" => LineSays(cfg, c, HostK', txval')
<1>. USE DEF HostTypeOK, HostWell, FrameStates, Bit_, Sends, HostOn, HostPending, HostK, HostD,
             Moves, LineSays, HostCarries, Par, Settings
<1>1. CASE TxWaits
  BY <1>1 DEF TxWaits
<1>2. CASE TxWaitsForByte(queue)
  BY <1>2 DEF TxWaitsForByte
<1>3. CASE TxSendsStart
  BY <1>3 DEF TxSendsStart
<1>4. CASE TxSendsBit
  <2>1. txval' = tx_byte[1]
    BY <1>4 DEF TxSendsBit, Chars
  <2>. QED  BY <1>4, <2>1 DEF TxSendsBit
<1>5. CASE TxSendsStop
  BY <1>5 DEF TxSendsStop
<1>. QED  BY <1>1, <1>2, <1>3, <1>4, <1>5 DEF tx_eval

(* Between frames: it waits, takes a character, and begins it.               *)
LEMMA HostStepStarts ==
  ASSUME FR = DIV + 2, HostTypeOK, HostWell, NEW queue \in Seq(Chars), tx_eval(queue), ~HostOn
  PROVE  /\ tx_state \in {"IDLE", "START_BIT"}
         /\ tx_state = "IDLE" /\ queue # <<>> => HostPending' /\ ~HostOn' /\ txval' = 1 /\ tx_byte' = Head(queue)
         /\ tx_state = "IDLE" /\ queue = <<>> => tx_state' = "IDLE" /\ ~HostOn' /\ ~HostPending' /\ txval' = 1
         /\ tx_state = "START_BIT" => HostOn' /\ ~HostPending' /\ HostK' = 0 /\ HostD' = 0 /\ txval' = 0
                                      /\ tx_state' # "IDLE"
BY DEF HostTypeOK, HostWell, FrameStates, Bit_, Sends, HostOn, HostPending, HostK, HostD,
       tx_eval, TxWaits, TxWaitsForByte, TxSendsStart, TxSendsBit, TxSendsStop

-----------------------------------------------------------------------------
(* The receiver of the simulator.  Half a bit lies in a bit.                 *)
LEMMA HalfFRFacts ==
  ASSUME FR = DIV + 2
  PROVE  /\ HalfFR \in 1 .. DIV + 1 /\ 2 * HalfFR <= DIV + 2 /\ HalfBit = HalfFR - 1
         /\ Bit_ = DIV + 1
BY DEF HalfFR, HalfBit, Bit_

(* It stays in step with the line.                                           *)
LEMMA EarStepFollows ==
  ASSUME FR = DIV + 2, EarTypeOK, NEW cfg \in Settings, ~cfg.parity, ~cfg.dual,
         NEW k \in Nat, NEW d \in Nat, NEW k1 \in Nat, NEW d1 \in Nat, NEW c \in Chars,
         EarFollows(k, d), Moves(k, d, k1, d1), k1 <= BITS + 1,
         LineSays(cfg, c, k1, send_tx), send_tx \in Bit, rx_eval
  PROVE  /\ EarFollows(k1, d1)'
         /\ rx_state = "IDLE" => rx_state' = "IDLE" /\ ~hears
         /\ rx_state # "IDLE" => (hears <=> rx_state' = "IDLE")
         /\ rx_state' = "IDLE" /\ (rx_state = "IDLE" => prev_rx = 1) => prev_rx' = 1
<1>. USE HalfFRFacts DEF EarTypeOK, FrameStates, EarFollows, Moves, LineSays, EarNext, Par, Settings,
             Evals, hears
<1>. HIDE DEF HalfFR
<1>1. CASE RxWaits
  BY <1>1 DEF RxWaits
<1>2. CASE RxWaitsForStart
  BY <1>2 DEF RxWaitsForStart
<1>3. CASE RxChecksStart
  BY <1>3 DEF RxChecksStart
<1>4. CASE RxGetsBit
  BY <1>4 DEF RxGetsBit
<1>5. CASE RxEnds
  BY <1>5 DEF RxEnds
<1>. QED  BY <1>1, <1>2, <1>3, <1>4, <1>5 DEF rx_eval

(* Its types.                                                                *)
LEMMA EarStepTypes ==
  ASSUME FR = DIV + 2, EarTypeOK, send_tx \in Bit, rx_eval
  PROVE  EarTypeOK'
<1>. USE HalfFRFacts DEF EarTypeOK, FrameStates, Evals, hears
<1>. HIDE DEF HalfFR
<1>1. CASE RxWaits
  BY <1>1 DEF RxWaits
<1>2. CASE RxWaitsForStart
  <2>1. rx_byte' \in Chars
    <3>1. Zeros \in Chars
      BY DEF Zeros, Chars, Bit
    <3>. QED  BY <1>2, <3>1 DEF RxWaitsForStart
  <2>2. /\ \/ rx_state' = "IDLE" /\ rx_wait' = 0 /\ got_bits' = got_bits
           \/ rx_state' = "START_BIT" /\ rx_wait' = HalfBit /\ got_bits' = 0
        /\ prev_rx' = send_tx
    BY <1>2 DEF RxWaitsForStart
  <2>. QED  BY <1>2, <2>1, <2>2
<1>3. CASE RxChecksStart
  BY <1>3 DEF RxChecksStart
<1>4. CASE RxGetsBit
  <2>1. rx_byte' \in Chars
    BY <1>4, ShiftFacts DEF RxGetsBit, Chars
  <2>2. got_bits' = got_bits + 1 /\ got_bits < BITS
    BY <1>4 DEF RxGetsBit
  <2>. QED  BY <1>4, <2>1, <2>2 DEF RxGetsBit
<1>5. CASE RxEnds
  BY <1>5 DEF RxEnds
<1>. QED  BY <1>1, <1>2, <1>3, <1>4, <1>5 DEF rx_eval

(* It shifts in the bits of the character as they come.                      *)
LEMMA EarStepHolds ==
  ASSUME FR = DIV + 2, EarTypeOK, NEW cfg \in Settings, ~cfg.parity, ~cfg.dual,
         NEW k \in Nat, NEW d \in Nat, NEW k1 \in Nat, NEW d1 \in Nat, NEW c \in Chars,
         EarFollows(k, d), Moves(k, d, k1, d1), k1 <= BITS + 1,
         LineSays(cfg, c, k1, send_tx), send_tx \in Bit, rx_eval, EarHolds(c),
         rx_state # "IDLE"
  PROVE  EarHolds(c)'
<1>. USE HalfFRFacts DEF EarTypeOK, FrameStates, Evals, hears, EarHolds
<1>. HIDE DEF HalfFR
<1>1. CASE RxWaits
  BY <1>1 DEF RxWaits
<1>2. CASE RxWaitsForStart
  BY <1>2 DEF RxWaitsForStart
<1>3. CASE RxChecksStart
  BY <1>3 DEF RxChecksStart, EarFollows
<1>4. CASE RxGetsBit
  <2>1. \A i \in 1 .. BITS : rx_byte'[i] = IF i = BITS THEN send_tx ELSE rx_byte[i + 1]
    <3>1. rx_byte \in [1 .. BITS -> Bit]
      BY DEF Chars
    <3>2. \A i \in 1 .. BITS : ShiftIn(rx_byte, send_tx)[i] = IF i = BITS THEN send_tx ELSE rx_byte[i + 1]
      BY <3>1, CharShifts
    <3>. QED  BY <1>4, <3>2 DEF RxGetsBit
  <2>2. /\ rx_state = "DATA_BITS" /\ rx_wait = 0 /\ got_bits' = got_bits + 1 /\ got_bits < BITS
        /\ rx_state' = IF got_bits' = BITS THEN "STOP_BIT" ELSE "DATA_BITS"
    BY <1>4 DEF RxGetsBit, EarFollows
  <2>3. send_tx = c[got_bits + 1]
    BY <2>2 DEF EarFollows, Moves, EarNext, LineSays
  <2>4. \A i \in 1 .. BITS : i <= got_bits => rx_byte[BITS - got_bits + i] = c[i]
    BY <2>2
  <2>5. ASSUME NEW i \in 1 .. BITS, i <= got_bits'
        PROVE  rx_byte'[BITS - got_bits' + i] = c[i]
    <3>1. CASE i = got_bits + 1
      BY <2>1, <2>2, <2>3, <3>1
    <3>2. CASE i # got_bits + 1
      <4>1. /\ i <= got_bits /\ BITS - got_bits' + i \in 1 .. BITS - 1
            /\ BITS - got_bits' + i + 1 = BITS - got_bits + i
        BY <2>2, <2>5, <3>2
      <4>. QED  BY <2>1, <2>4, <4>1
    <3>. QED  BY <3>1, <3>2
  <2>6. CASE got_bits' = BITS
    <3>1. \A i \in 1 .. BITS : rx_byte'[i] = c[i]
      BY <2>5, <2>6
    <3>2. rx_byte' \in [1 .. BITS -> Bit] /\ c \in [1 .. BITS -> Bit]
      BY <1>4, ShiftFacts DEF RxGetsBit, Chars
    <3>3. rx_byte' = c
      BY <3>1, <3>2
    <3>. QED  BY <2>2, <2>6, <3>3
  <2>7. CASE got_bits' # BITS
    BY <2>2, <2>5, <2>7
  <2>. QED  BY <2>6, <2>7
<1>5. CASE RxEnds
  BY <1>5 DEF RxEnds
<1>. QED  BY <1>1, <1>2, <1>3, <1>4, <1>5 DEF rx_eval

(* Between frames it waits for the line to fall.                            *)
LEMMA EarIdles ==
  ASSUME FR = DIV + 2, EarTypeOK, rx_state = "IDLE", rx_wait = 0, send_tx \in Bit, rx_eval
  PROVE  /\ send_tx = 1 => rx_state' = "IDLE" /\ rx_wait' = 0 /\ prev_rx' = 1
         /\ send_tx = 0 /\ prev_rx = 1 =>
              rx_state' = "START_BIT" /\ EarFollows(0, 0)'
         /\ \A c : EarHolds(c)'
         /\ ~hears
BY HalfFRFacts DEF EarTypeOK, FrameStates, Evals, hears, EarFollows, EarHolds, rx_eval, RxWaits, RxWaitsForStart,
   RxChecksStart, RxGetsBit, RxEnds

-----------------------------------------------------------------------------
(* What a cycle does to flight; taken is what the sender takes.              *)
Flies(taken) == flight' = (IF pushes /\ flight # <<>> THEN Tail(flight) ELSE flight) \o taken

(* Queues of one character at most.                                          *)
LEMMA OneOnly ==
  ASSUME NEW q, AtMostOne(q)
  PROVE  /\ q = <<>> \/ \E c \in Chars : q = <<c>> /\ q[1] = c /\ Tail(q) = <<>> /\ Head(q) = c
         /\ q \in Seq(Chars) /\ Len(q) \in {0, 1}
<1>1. \A c : <<c>>[1] = c /\ Tail(<<c>>) = <<>> /\ Head(<<c>>) = c /\ Len(<<c>>) = 1
  OBVIOUS
<1>2. \A c \in Chars : <<c>> \in Seq(Chars)
  OBVIOUS
<1>3. <<>> \in Seq(Chars) /\ Len(<<>>) = 0
  OBVIOUS
<1>. QED  BY <1>1, <1>2, <1>3 DEF AtMostOne

(* The receiver stores into a FIFO with room, and flight loses its character *)
(* then.                                                                     *)
LEMMA FlightFacts ==
  ASSUME NEW pending \in BOOLEAN, RxInv(pending), RxTypeOK, lcr \in Settings, lcr.rx_en,
         flight # <<>> => ~rx_full
  PROVE  /\ pushes <=> recv_buf_valid
         /\ flight = <<>> \/ \E c \in Chars : flight = <<c>> /\ flight[1] = c /\ Tail(flight) = <<>>
         /\ Flies(<<>>) => flight' = IF recv_buf_valid THEN <<>> ELSE flight
         /\ ~Awaits /\ ~pending => \A c \in Chars : Flies(<<c>>) => flight' = <<c>>
<1>1. flight = <<>> \/ \E c \in Chars : flight = <<c>> /\ flight[1] = c /\ Tail(flight) = <<>>
  <2>1. AtMostOne(flight)
    BY DEF RxInv
  <2>. QED  BY <2>1, OneOnly
<1>2. recv_buf_valid => flight # <<>>
  BY DEF RxInv
<1>3. pushes <=> recv_buf_valid
  BY <1>2 DEF pushes, rx_we
<1>4. flight \o <<>> = flight /\ <<>> \o <<>> = <<>>
  BY OneOnly, ConcatEmptySeq DEF RxInv
<1>5. Flies(<<>>) => flight' = IF recv_buf_valid THEN <<>> ELSE flight
  BY <1>1, <1>2, <1>3, <1>4 DEF Flies
<1>6. ASSUME ~Awaits, ~pending, NEW c \in Chars, Flies(<<c>>)
      PROVE  flight' = <<c>>
  <2>1. <<>> \o <<c>> = <<c>>
    OBVIOUS
  <2>2. CASE recv_buf_valid
    <3>1. flight' = <<>> \o <<c>>
      BY <1>1, <1>2, <1>3, <1>6, <2>2 DEF Flies
    <3>. QED  BY <2>1, <3>1
  <2>3. CASE ~recv_buf_valid
    <3>1. flight = <<>>
      BY <1>6, <2>3 DEF RxInv
    <3>2. flight' = <<>> \o <<c>>
      BY <1>3, <1>6, <2>3, <3>1 DEF Flies
    <3>. QED  BY <2>1, <3>2
  <2>. QED  BY <2>2, <2>3
<1>. QED  BY <1>1, <1>3, <1>5, <1>6

(* One cycle of the receiver in a frame.                                     *)
LEMMA RxTickInFrame ==
  ASSUME DIV # 0, RxInv(FALSE), RxTypeOK, lcr \in Settings, lcr.rx_en,
         flight # <<>> => ~rx_full,
         NEW k \in Nat, NEW d \in Nat, NEW k1 \in Nat, NEW d1 \in Nat, NEW b \in Bit,
         RxFollows(lcr, k, d), Moves(k, d, k1, d1), k1 <= LastBit(lcr),
         k1 > BITS + Par(lcr) => b = 1,
         flight # <<>> => LineSays(lcr, flight[1], k1, b),
         RxClock(b, lcr, ~rx_full), lcr' = lcr, Flies(<<>>)
  PROVE  RxInv(FALSE)' /\ RxFollows(lcr, k1, d1)'
<1>1. /\ pushes <=> recv_buf_valid
      /\ flight = <<>> \/ \E c \in Chars : flight = <<c>> /\ flight[1] = c /\ Tail(flight) = <<>>
      /\ flight' = IF recv_buf_valid THEN <<>> ELSE flight
  BY FlightFacts
<1>2. PICK c \in Chars : (flight # <<>> => flight = <<c>> /\ flight[1] = c) /\ LineSays(lcr, c, k1, b)
  <2>1. CASE flight # <<>>
    BY <1>1, <2>1
  <2>2. CASE flight = <<>>
    <3>1. ~Awaits
      BY <2>2 DEF RxInv
    <3>2. k1 > BITS + Par(lcr)
      BY <3>1 DEF Awaits, RxFollows, RxNext, LastBit, Par, Moves, RxTypeOK, Stop, Settings
    <3>3. Zeros \in Chars
      BY DEF Zeros, Chars, Bit
    <3>4. LineSays(lcr, Zeros, k1, b)
      BY <3>2 DEF LineSays, Par, Settings
    <3>. QED  BY <2>2, <3>3, <3>4
  <2>. QED  BY <2>1, <2>2
<1>. DEFINE re == ~rx_full
<1>3. re \in BOOLEAN /\ RxClock(b, lcr, re)
  OBVIOUS
<1>. HIDE DEF re
<1>4. RxFollows(lcr, k1, d1)'
  <2>1. \A cfg \in Settings : cfg = lcr => RxFollows(cfg, k1, d1)'
    BY <1>2, <1>3, RxStepFollows
  <2>. QED  BY <2>1 DEF RxFollows, LastBit, Par, RxNext
<1>5. /\ RxClean'
      /\ \/ (Awaits' <=> Awaits) /\ (recv_buf_valid' <=> recv_buf_valid /\ ~re)
         \/ Awaits /\ ~Awaits' /\ recv_buf_valid' /\ (RxHolds(c) => recv_pattern' = c)
  BY <1>2, <1>3, RxStepStores DEF RxInv
<1>6. RxHolds(c) => RxHolds(c)'
  BY <1>2, <1>3, RxStepHolds
<1>7. recv_buf_valid => re
  BY <1>1 DEF re, pushes
<1>8. CASE flight' = <<>>
  <2>1. ~Awaits
    BY <1>1, <1>2, <1>8 DEF RxInv
  <2>2. ~Awaits'
    BY <1>5, <2>1
  <2>3. ~recv_buf_valid'
    BY <1>5, <1>7, <2>1
  <2>. QED  BY <1>4, <1>5, <1>8, <2>2, <2>3 DEF RxInv, AtMostOne
<1>9. CASE flight' # <<>>
  <2>1. ~recv_buf_valid /\ flight' = flight /\ flight = <<c>> /\ flight[1] = c
    BY <1>1, <1>2, <1>9
  <2>2. Awaits /\ RxHolds(c)
    BY <2>1 DEF RxInv
  <2>3. (Awaits' <=> ~recv_buf_valid') /\ (recv_buf_valid' => recv_pattern' = c)
    BY <1>5, <2>1, <2>2
  <2>. QED  BY <1>4, <1>5, <1>6, <1>9, <2>1, <2>2, <2>3 DEF RxInv
<1>. QED  BY <1>8, <1>9

(* One cycle of the receiver between frames: nothing, a character taken by   *)
(* the sender, or its start bit.                                             *)
LEMMA RxTickIdle ==
  ASSUME NEW pending \in BOOLEAN, RxInv(pending), RxTypeOK, lcr \in Settings, lcr.rx_en,
         flight # <<>> => ~rx_full, recv_state = 0,
         NEW b \in Bit, RxClock(b, lcr, ~rx_full), lcr' = lcr
  PROVE  /\ b = 1 /\ Flies(<<>>) => RxInv(pending)' /\ recv_state' = 0
         /\ \A c \in Chars :
              b = 1 /\ ~pending /\ Flies(<<c>>) => RxInv(TRUE)' /\ recv_state' = 0 /\ flight' = <<c>>
         /\ b = 0 /\ pending /\ Flies(<<>>) => RxInv(FALSE)' /\ RxFollows(lcr, 0, 0)'
<1>1. /\ pushes <=> recv_buf_valid
      /\ flight = <<>> \/ \E c \in Chars : flight = <<c>> /\ flight[1] = c /\ Tail(flight) = <<>>
      /\ Flies(<<>>) => flight' = IF recv_buf_valid THEN <<>> ELSE flight
      /\ ~Awaits /\ ~pending => \A c \in Chars : Flies(<<c>>) => flight' = <<c>>
  BY FlightFacts
<1>2. ~Awaits
  BY DEF Awaits
<1>3. recv_buf_valid => ~rx_full
  BY <1>1 DEF pushes
<1>. DEFINE re == ~rx_full
<1>4. re \in BOOLEAN /\ RxClock(b, lcr, re)
  OBVIOUS
<1>5. /\ recv_buf_valid' = (recv_buf_valid /\ ~re)
      /\ recv_pattern' = recv_pattern /\ recv_framing_error' = recv_framing_error
      /\ b = 1 => recv_state' = 0
      /\ b = 0 => recv_state' = 1 /\ recv_divcnt' = 0
  <2>. HIDE DEF re
  <2>. QED  BY <1>4, RxIdles
<1>6. ~recv_buf_valid'
  BY <1>3, <1>5
<1>7. ASSUME b = 1, Flies(<<>>)
      PROVE  RxInv(pending)' /\ recv_state' = 0
  <2>1. recv_state' = 0
    BY <1>5, <1>7
  <2>2. ~Awaits' /\ RxClean'
    BY <1>6, <2>1 DEF Awaits, RxClean
  <2>3. flight' # <<>> <=> pending
    BY <1>1, <1>2, <1>7 DEF RxInv
  <2>4. AtMostOne(flight)'
    BY <1>1, <1>7 DEF AtMostOne
  <2>5. \A c : RxHolds(c)'
    BY <2>1 DEF RxHolds
  <2>. QED  BY <1>6, <2>1, <2>2, <2>3, <2>4, <2>5 DEF RxInv
<1>8. ASSUME NEW c \in Chars, b = 1, ~pending, Flies(<<c>>)
      PROVE  RxInv(TRUE)' /\ recv_state' = 0 /\ flight' = <<c>>
  <2>1. recv_state' = 0
    BY <1>5, <1>8
  <2>2. ~Awaits' /\ RxClean'
    BY <1>6, <2>1 DEF Awaits, RxClean
  <2>3. flight' = <<c>> /\ flight' # <<>>
    BY <1>1, <1>2, <1>8
  <2>4. AtMostOne(flight)'
    BY <2>3 DEF AtMostOne
  <2>5. \A x : RxHolds(x)'
    BY <2>1 DEF RxHolds
  <2>. QED  BY <1>6, <2>1, <2>2, <2>3, <2>4, <2>5 DEF RxInv
<1>9. ASSUME b = 0, pending, Flies(<<>>)
      PROVE  RxInv(FALSE)' /\ RxFollows(lcr, 0, 0)'
  <2>1. recv_state' = 1 /\ recv_divcnt' = 0
    BY <1>5, <1>9
  <2>2. Awaits' /\ RxClean'
    BY <1>6, <2>1 DEF Awaits, RxClean, Stop
  <2>3. flight' = flight /\ flight # <<>>
    BY <1>1, <1>9 DEF RxInv
  <2>4. AtMostOne(flight)'
    BY <2>3 DEF RxInv
  <2>5. \A x : RxHolds(x)'
    BY <2>1 DEF RxHolds
  <2>6. RxFollows(lcr, 0, 0)'
    BY <2>1 DEF RxFollows, Half
  <2>. QED  BY <1>6, <2>1, <2>2, <2>3, <2>4, <2>5, <2>6 DEF RxInv
<1>. QED  BY <1>7, <1>8, <1>9

-----------------------------------------------------------------------------
(* Counting characters.                                                      *)
Num(condition) == IF condition THEN 1 ELSE 0
USE DEF Num

(* Lengths of queues.                                                        *)
LEMMA LenFacts ==
  ASSUME NEW q \in Seq(Chars)
  PROVE  /\ Len(q) \in Nat /\ (Len(q) = 0 <=> q = <<>>)
         /\ q # <<>> => Head(q) \in Chars /\ Tail(q) \in Seq(Chars) /\ Len(Tail(q)) = Len(q) - 1
         /\ \A c \in Chars : Append(q, c) \in Seq(Chars) /\ Len(Append(q, c)) = Len(q) + 1
<1>1. Len(q) \in Nat /\ (Len(q) = 0 <=> q = <<>>)
  BY EmptySeq, LenProperties
<1>. QED  BY <1>1, HeadTailProperties, AppendProperties

(* A FIFO grows by what is written when it is not full and shrinks by what   *)
(* is read when it is not empty.                                             *)
LEMMA ClockedFacts ==
  ASSUME NEW q \in Seq(Chars), NEW we \in BOOLEAN, NEW re \in BOOLEAN, NEW c \in Chars,
         NEW n \in Nat, n = Len(q), n <= FIFO_DEPTH
  PROVE  /\ Clocked(q, we, c, re) \in Seq(Chars)
         /\ Len(Clocked(q, we, c, re)) = n + Num(we /\ n # FIFO_DEPTH) - Num(re /\ q # <<>>)
         /\ Len(Clocked(q, we, c, re)) \in 0 .. FIFO_DEPTH
<1>. DEFINE kept == IF re /\ q # <<>> THEN Tail(q) ELSE q
<1>1. kept \in Seq(Chars) /\ Len(kept) = n - Num(re /\ q # <<>>)
  BY LenFacts DEF Num
<1>2. n - Num(re /\ q # <<>>) \in Nat
  BY LenFacts DEF Num
<1>. DEFINE m == n - Num(re /\ q # <<>>)
<1>3. Clocked(q, we, c, re) = IF we /\ n # FIFO_DEPTH THEN Append(kept, c) ELSE kept
  BY DEF Clocked
<1>4. m \in Nat /\ m <= n /\ kept \in Seq(Chars) /\ Len(kept) = m
  BY <1>1, <1>2 DEF Num
<1>. HIDE DEF kept, m
<1>5. CASE we /\ n # FIFO_DEPTH
  <2>1. Append(kept, c) \in Seq(Chars) /\ Len(Append(kept, c)) = m + 1
    BY <1>4, LenFacts
  <2>. QED  BY <1>3, <1>4, <1>5, <2>1 DEF Num, m
<1>6. CASE ~(we /\ n # FIFO_DEPTH)
  <2>1. Num(we /\ n # FIFO_DEPTH) = 0 /\ Clocked(q, we, c, re) = kept
    BY <1>3, <1>6 DEF Num
  <2>2. m = n - Num(re /\ q # <<>>) /\ Num(re /\ q # <<>>) \in {0, 1}
    BY DEF m, Num
  <2>. QED  BY <1>4, <2>1, <2>2
<1>. QED  BY <1>5, <1>6

(* With the settings unchanged a driver reads what is there and writes what  *)
(* there is room for.                                                        *)
LEMMA AccessFacts ==
  ASSUME LinkWorks, RestTypeOK, NEW a \in SimAccesses, SetLcr(a)
  PROVE  /\ lcr' = lcr
         /\ (a.op = "read") \in BOOLEAN /\ (a.op = "write") \in BOOLEAN
         /\ a.op = "write" => a.char \in Chars /\ Room /\ (~lcr.loopback => UnderWay < FIFO_DEPTH)
         /\ a.op = "read" => rxfifo # <<>>
<1>1. a \in Accesses /\ (a.op = "write" /\ ~lcr.loopback => UnderWay < FIFO_DEPTH)
  BY DEF SimAccesses
<1>2. CASE a = Idle
  BY <1>1, <1>2 DEF Idle, SetLcr
<1>3. CASE a = Read /\ (rxfifo # <<>> \/ Reconfigures)
  BY <1>1, <1>3 DEF Read, SetLcr, LinkWorks
<1>4. ASSUME NEW c \in Chars, FlowControl => Room, a = Write(c)
      PROVE  /\ lcr' = lcr
             /\ (a.op = "read") \in BOOLEAN /\ (a.op = "write") \in BOOLEAN
             /\ a.op = "write" => a.char \in Chars /\ Room /\ (~lcr.loopback => UnderWay < FIFO_DEPTH)
             /\ a.op = "read" => rxfifo # <<>>
  BY <1>1, <1>4 DEF Write, SetLcr, LinkWorks
<1>. QED  BY <1>1, <1>2, <1>3, <1>4 DEF Accesses, LinkWorks

(* How the lengths of both FIFOs change.                                     *)
LEMMA FifoFacts ==
  ASSUME LinkWorks, RxTypeOK, RestTypeOK, NEW a \in SimAccesses, SetLcr(a), Fifos(a)
  PROVE  /\ rxfifo' \in Seq(Chars) /\ txfifo' \in Seq(Chars)
         /\ Len(rxfifo') \in 0 .. FIFO_DEPTH /\ Len(txfifo') \in 0 .. FIFO_DEPTH
         /\ Len(rxfifo') = Len(rxfifo) + Num(pushes) - Num(a.op = "read")
         /\ Len(txfifo') = Len(txfifo) + Num(a.op = "write" /\ ~tx_full) - Num(tx_accepts)
<1>1. /\ (a.op = "read") \in BOOLEAN /\ (a.op = "write") \in BOOLEAN
      /\ a.op = "write" => a.char \in Chars
      /\ a.op = "read" => rxfifo # <<>>
  BY AccessFacts
<1>. DEFINE put == IF a.op = "write" THEN a.char ELSE Zeros
<1>2. put \in Chars
  BY <1>1 DEF Zeros, Chars, Bit
<1>3. rx_we \in BOOLEAN /\ tx_accepts \in BOOLEAN /\ (tx_accepts => txfifo # <<>>)
  BY DEF rx_we, tx_accepts, TxAccepts, RxTypeOK
<1>. DEFINE re == a.op = "read"
<1>. DEFINE we == a.op = "write"
<1>4. rxfifo' = Clocked(rxfifo, rx_we, recv_pattern, re) /\ txfifo' = Clocked(txfifo, we, put, tx_accepts)
  BY DEF Fifos
<1>n. PICK n \in Nat : n = Len(rxfifo) /\ n <= FIFO_DEPTH
  BY LenFacts DEF RestTypeOK
<1>m. PICK m \in Nat : m = Len(txfifo) /\ m <= FIFO_DEPTH
  BY LenFacts DEF RestTypeOK
<1>q. rxfifo \in Seq(Chars)
  BY DEF RestTypeOK
<1>t. txfifo \in Seq(Chars)
  BY DEF RestTypeOK
<1>6. recv_pattern \in Chars
  BY DEF RxTypeOK
<1>7. /\ rxfifo' \in Seq(Chars)
      /\ Len(rxfifo') = n + Num(rx_we /\ n # FIFO_DEPTH) - Num(re /\ rxfifo # <<>>)
      /\ Len(rxfifo') \in 0 .. FIFO_DEPTH
  <2>1. re \in BOOLEAN
    BY <1>1
  <2>. HIDE DEF re
  <2>0. \A w \in BOOLEAN, r \in BOOLEAN, x \in Chars :
          /\ Clocked(rxfifo, w, x, r) \in Seq(Chars)
          /\ Len(Clocked(rxfifo, w, x, r)) = n + Num(w /\ n # FIFO_DEPTH) - Num(r /\ rxfifo # <<>>)
          /\ Len(Clocked(rxfifo, w, x, r)) \in 0 .. FIFO_DEPTH
    BY ONLY <1>n, <1>q, ClockedFacts DEF Num
  <2>2. /\ Clocked(rxfifo, rx_we, recv_pattern, re) \in Seq(Chars)
        /\ Len(Clocked(rxfifo, rx_we, recv_pattern, re)) = n + Num(rx_we /\ n # FIFO_DEPTH) - Num(re /\ rxfifo # <<>>)
        /\ Len(Clocked(rxfifo, rx_we, recv_pattern, re)) \in 0 .. FIFO_DEPTH
    BY <1>2, <1>3, <1>6, <2>1, <2>0
  <2>. QED  BY <1>4, <2>2
<1>8. /\ txfifo' \in Seq(Chars)
      /\ Len(txfifo') = m + Num(we /\ m # FIFO_DEPTH) - Num(tx_accepts /\ txfifo # <<>>)
      /\ Len(txfifo') \in 0 .. FIFO_DEPTH
  <2>1. we \in BOOLEAN
    BY <1>1
  <2>. HIDE DEF we, put
  <2>0. \A w \in BOOLEAN, r \in BOOLEAN, x \in Chars :
          /\ Clocked(txfifo, w, x, r) \in Seq(Chars)
          /\ Len(Clocked(txfifo, w, x, r)) = m + Num(w /\ m # FIFO_DEPTH) - Num(r /\ txfifo # <<>>)
          /\ Len(Clocked(txfifo, w, x, r)) \in 0 .. FIFO_DEPTH
    BY ONLY <1>m, <1>t, ClockedFacts DEF Num
  <2>2. /\ Clocked(txfifo, we, put, tx_accepts) \in Seq(Chars)
        /\ Len(Clocked(txfifo, we, put, tx_accepts)) = m + Num(we /\ m # FIFO_DEPTH) - Num(tx_accepts /\ txfifo # <<>>)
        /\ Len(Clocked(txfifo, we, put, tx_accepts)) \in 0 .. FIFO_DEPTH
    BY <1>2, <1>3, <1>6, <2>1, <2>0
  <2>. QED  BY <1>4, <2>2
<1>9. /\ Num(rx_we /\ n # FIFO_DEPTH) = Num(pushes) /\ Num(re /\ rxfifo # <<>>) = Num(a.op = "read")
      /\ Num(we /\ m # FIFO_DEPTH) = Num(a.op = "write" /\ ~tx_full)
      /\ Num(tx_accepts /\ txfifo # <<>>) = Num(tx_accepts)
  BY <1>1, <1>3, <1>n, <1>m DEF Num, pushes, rx_full, tx_full
<1>. QED  BY <1>7, <1>8, <1>9, <1>n, <1>m

(* The registers of the receiver that the argument does not need.            *)
LEMMA RxRestTypes ==
  ASSUME RestTypeOK, RxTypeOK, NEW cfg, NEW b \in Bit, NEW re \in BOOLEAN, RxClock(b, cfg, re)
  PROVE  recv_buf_data' \in Chars /\ recv_parity_bit' \in Bit /\ recv_parity_error' \in BOOLEAN
<1>1. /\ recv_buf_data \in Chars /\ recv_parity_bit \in Bit /\ recv_parity_error \in BOOLEAN
      /\ recv_pattern \in Chars /\ 0 \in Bit
  BY DEF RestTypeOK, RxTypeOK, Bit
<1>. USE <1>1 DEF ForgetParity
<1>2. CASE RxIdle(b, cfg, re)
  BY <1>2, Zenon DEF RxIdle
<1>3. CASE RxStart(re)
  BY <1>3, Zenon DEF RxStart
<1>4. CASE RxData(b, cfg, re)
  BY <1>4, Zenon DEF RxData
<1>5. CASE RxParity(b, cfg, re)
  <2>1. recv_buf_data' = recv_buf_data /\ recv_parity_bit' = b
    BY <1>5 DEF RxParity
  <2>2. \E masked : recv_parity_error' = (cfg.even # masked)
    BY <1>5 DEF RxParity
  <2>3. recv_parity_error' \in BOOLEAN
    BY <2>2
  <2>. QED  BY <2>1, <2>3
<1>6. CASE RxStop(b, cfg, re)
  BY <1>6, Zenon DEF RxStop
<1>7. CASE RxCount(re)
  BY <1>7, Zenon DEF RxCount
<1>. QED  BY <1>2, <1>3, <1>4, <1>5, <1>6, <1>7 DEF RxClock

(* What is typed in a tick is one character at most.                         *)
LEMMA TypedFacts ==
  ASSUME RestTypeOK, NEW typed \in Typed
  PROVE  /\ AtMostOne(typed) /\ typed \in Seq(Chars) /\ Len(typed) = Num(typed # <<>>)
         /\ bb_tx_fifo \o typed \in Seq(Chars)
         /\ Len(bb_tx_fifo \o typed) = Len(bb_tx_fifo) + Num(typed # <<>>)
         /\ typed # <<>> => ~lcr.loopback /\ UnderWay < FIFO_DEPTH
<1>1. AtMostOne(typed) /\ (typed # <<>> => ~lcr.loopback /\ UnderWay < FIFO_DEPTH)
  BY DEF Typed, AtMostOne
<1>2. typed \in Seq(Chars) /\ Len(typed) = Num(typed # <<>>)
  <2>1. typed \in Seq(Chars) /\ Len(typed) \in {0, 1}
    BY <1>1, OneOnly
  <2>2. Len(typed) = 0 <=> typed = <<>>
    BY <2>1, LenFacts
  <2>. QED  BY ONLY <2>1, <2>2 DEF Num
<1>3. bb_tx_fifo \in Seq(Chars)
  BY DEF RestTypeOK
<1>. QED  BY <1>1, <1>2, <1>3, ConcatProperties

(* The simulator's queue of characters to send.                              *)
LEMMA HostTakesFacts ==
  ASSUME LinkWorks, RestTypeOK, HostTypeOK, HostWell, EarTypeOK, NEW typed \in Typed, UART(typed)
  PROVE  /\ HostTypeOK' /\ HostWell' /\ tx_eval(bb_tx_fifo \o typed)
         /\ bb_tx_fifo' \in Seq(Chars) /\ AtMostOne(bb_rx_fifo)'
         /\ HostTakes = <<>> \/ (HostTakes = <<tx_byte'>> /\ HostPending' /\ tx_state = "IDLE" /\ tx_wait = 0)
         /\ tx_state = "IDLE" /\ tx_state' # "IDLE" => HostTakes = <<tx_byte'>>
         /\ Len(bb_tx_fifo') = Len(bb_tx_fifo) + Num(typed # <<>>) - Num(HostTakes # <<>>)
<1>. DEFINE queue == bb_tx_fifo \o typed
<1>1. /\ queue \in Seq(Chars) /\ Len(queue) = Len(bb_tx_fifo) + Num(typed # <<>>)
  BY TypedFacts
<1>2. /\ tx_eval(queue)
      /\ bb_tx_fifo' = IF tx_state = "IDLE" /\ tx_state' # "IDLE" THEN Tail(queue) ELSE queue
  BY DEF UART
<1>3. HostTypeOK' /\ HostWell'
  <2>. HIDE DEF queue
  <2>. QED  BY <1>1, <1>2, HostStepTypes DEF LinkWorks
<1>4. tx_state = "IDLE" /\ tx_state' # "IDLE" => queue # <<>> /\ HostPending' /\ tx_wait = 0
  <2>. HIDE DEF queue
  <2>1. CASE HostOn
    BY <1>1, <1>2, <2>1, HostStepMoves DEF LinkWorks
  <2>2. CASE ~HostOn
    BY <1>1, <1>2, <2>2, HostStepStarts DEF LinkWorks, HostOn, HostTypeOK
  <2>. QED  BY <2>1, <2>2
<1>7. AtMostOne(bb_rx_fifo)'
  <2>1. bb_rx_fifo' = (IF bb_rx_fifo = <<>> THEN <<>> ELSE Tail(bb_rx_fifo)) \o (IF hears THEN <<rx_byte>> ELSE <<>>)
    BY DEF UART
  <2>2. AtMostOne(bb_rx_fifo)
    BY DEF RestTypeOK
  <2>3. (IF bb_rx_fifo = <<>> THEN <<>> ELSE Tail(bb_rx_fifo)) = <<>>
    BY <2>2, OneOnly
  <2>4. <<>> \o <<>> = <<>> /\ <<>> \o <<rx_byte>> = <<rx_byte>>
    OBVIOUS
  <2>5. rx_byte \in Chars
    BY DEF EarTypeOK
  <2>. QED  BY <2>1, <2>3, <2>4, <2>5 DEF AtMostOne
<1>5. CASE tx_state = "IDLE" /\ tx_state' # "IDLE"
  <2>1. bb_tx_fifo' = Tail(queue) /\ queue # <<>>
    BY <1>2, <1>4, <1>5
  <2>2. Tail(queue) \in Seq(Chars) /\ Len(Tail(queue)) = Len(queue) - 1
    <3>. HIDE DEF queue
    <3>. QED  BY <1>1, <2>1, LenFacts
  <2>3. HostTakes = <<tx_byte'>> /\ HostTakes # <<>>
    BY <1>5 DEF HostTakes
  <2>4. Len(bb_tx_fifo') = Len(bb_tx_fifo) + Num(typed # <<>>) - Num(HostTakes # <<>>)
    <3>1. PICK n \in Nat : n = Len(bb_tx_fifo)
      BY LenFacts DEF RestTypeOK
    <3>2. Len(queue) = n + Num(typed # <<>>)
      BY <1>1, <3>1
    <3>3. Len(bb_tx_fifo') = n + Num(typed # <<>>) - 1
      BY ONLY <2>1, <2>2, <3>2, n \in Nat
    <3>. QED  BY ONLY <2>3, <3>1, <3>3
  <2>. QED  BY <1>2, <1>3, <1>4, <1>5, <1>7, <2>1, <2>2, <2>3, <2>4, Zenon
<1>6. CASE ~(tx_state = "IDLE" /\ tx_state' # "IDLE")
  <2>1. bb_tx_fifo' = queue /\ HostTakes = <<>>
    BY <1>2, <1>6 DEF HostTakes
  <2>2. Len(bb_tx_fifo') = Len(bb_tx_fifo) + Num(typed # <<>>) - Num(HostTakes # <<>>)
    <3>1. PICK n \in Nat : n = Len(bb_tx_fifo)
      BY LenFacts DEF RestTypeOK
    <3>2. Len(bb_tx_fifo') = n + Num(typed # <<>>)
      BY ONLY <1>1, <2>1, <3>1
    <3>. QED  BY ONLY <2>1, <3>1, <3>2
  <2>. QED  BY <1>1, <1>2, <1>3, <1>6, <1>7, <2>1, <2>2, Zenon
<1>. QED  BY <1>5, <1>6

(* The history queues lose a character when it arrives and gain the one      *)
(* taken.                                                                    *)
LEMMA QueueLen ==
  ASSUME NEW q \in Seq(Chars), NEW taken, AtMostOne(taken), NEW out \in BOOLEAN, out => q # <<>>,
         NEW n \in Nat, n = Len(q)
  PROVE  /\ (IF out THEN Tail(q) ELSE q) \o taken \in Seq(Chars)
         /\ Len((IF out THEN Tail(q) ELSE q) \o taken) = n - Num(out) + Num(taken # <<>>)
<1>. DEFINE kept == IF out THEN Tail(q) ELSE q
<1>1. kept \in Seq(Chars) /\ Len(kept) = n - Num(out) /\ n - Num(out) \in Nat
  <2>1. n = 0 <=> q = <<>>
    BY LenFacts
  <2>2. q # <<>> => Tail(q) \in Seq(Chars) /\ Len(Tail(q)) = n - 1
    BY LenFacts
  <2>. QED  BY <2>1, <2>2
<1>2. taken \in Seq(Chars) /\ Len(taken) = Num(taken # <<>>)
  <2>1. taken \in Seq(Chars) /\ Len(taken) \in {0, 1}
    BY OneOnly
  <2>2. Len(taken) = 0 <=> taken = <<>>
    BY <2>1, LenFacts
  <2>. QED  BY ONLY <2>1, <2>2 DEF Num
<1>. HIDE DEF kept
<1>3. kept \o taken \in Seq(Chars) /\ Len(kept \o taken) = Len(kept) + Len(taken)
  BY <1>1, <1>2, ConcatProperties
<1>4. Len(kept \o taken) = n - Num(out) + Num(taken # <<>>)
  BY ONLY <1>1, <1>2, <1>3, n \in Nat
<1>. QED  BY <1>3, <1>4 DEF kept

(* What the transmitter of the SoC takes is the oldest character of its      *)
(* FIFO.                                                                     *)
LEMMA TakenFacts ==
  ASSUME LinkWorks, RestTypeOK
  PROVE  /\ lcr \in Settings /\ lcr.rx_en /\ lcr.tx_en
         /\ ~lcr.loopback => ~lcr.parity /\ ~lcr.dual
         /\ tx_accepts <=> send_state = 0 /\ txfifo # <<>>
         /\ tx_accepts => Taken = <<Head(txfifo)>> /\ Head(txfifo) \in Chars
         /\ ~tx_accepts => Taken = <<>>
         /\ AtMostOne(Taken) /\ (tx_accepts <=> Taken # <<>>)
<1>1. lcr \in Settings /\ lcr.rx_en /\ lcr.tx_en /\ (~lcr.loopback => ~lcr.parity /\ ~lcr.dual)
  BY DEF RestTypeOK, LinkWorks, Understood
<1>2. tx_accepts <=> send_state = 0 /\ txfifo # <<>>
  BY <1>1 DEF tx_accepts, TxAccepts
<1>3. /\ tx_accepts => Taken = <<Head(txfifo)>> /\ Head(txfifo) \in Chars
      /\ ~tx_accepts => Taken = <<>>
  BY <1>2, LenFacts DEF RestTypeOK, Taken
<1>. QED  BY <1>1, <1>2, <1>3 DEF AtMostOne

(* Every tick preserves the types.                                           *)
LEMMA StepTypes ==
  ASSUME LinkWorks, LinkInv, NEW a \in SimAccesses, NEW typed \in Typed, SimTick(a, typed)
  PROVE  /\ RxTypeOK' /\ TxTypeOK' /\ EarTypeOK' /\ HostTypeOK' /\ RestTypeOK'
         /\ SocWell(lcr)' /\ HostWell' /\ lcr' = lcr
<1>1. RxTypeOK /\ TxTypeOK /\ EarTypeOK /\ HostTypeOK /\ RestTypeOK /\ SocWell(lcr) /\ HostWell
  BY DEF LinkInv
<1>2. lcr' = lcr /\ lcr \in Settings
  BY <1>1, AccessFacts, TakenFacts DEF SimTick, Clock
<1>3. HostTypeOK' /\ HostWell' /\ bb_tx_fifo' \in Seq(Chars) /\ AtMostOne(bb_rx_fifo)'
  BY <1>1, HostTakesFacts DEF SimTick
<1>4. EarTypeOK'
  BY <1>1, EarStepTypes DEF SimTick, UART, LinkWorks, TxTypeOK
<1>. DEFINE heard == IF lcr.loopback THEN send_tx ELSE txval'
            re == ~rx_full
<1>5. heard \in Bit /\ re \in BOOLEAN /\ RxClock(heard, lcr, re)
  BY <1>1, <1>3 DEF SimTick, Clock, TxTypeOK, HostTypeOK
<1>. HIDE DEF heard, re
<1>6. RxTypeOK'
  BY <1>1, <1>2, <1>5, RxStepTypes
<1>7. recv_buf_data' \in Chars /\ recv_parity_bit' \in Bit /\ recv_parity_error' \in BOOLEAN
  BY <1>1, <1>5, RxRestTypes
<1>8. TxTypeOK' /\ SocWell(lcr)'
  <2>. DEFINE we == txfifo # <<>>
              x == IF txfifo = <<>> THEN Zeros ELSE Head(txfifo)
  <2>1. TxClock(lcr, we, x) /\ we \in BOOLEAN
    BY DEF SimTick, Clock
  <2>2. x \in Chars
    BY <1>1, LenFacts DEF RestTypeOK, Zeros, Chars, Bit
  <2>. HIDE DEF we, x
  <2>3. \A cfg \in Settings : cfg = lcr => TxTypeOK' /\ SocWell(cfg)'
    BY <1>1, <1>2, <2>1, <2>2, TxStepTypes
  <2>. QED  BY <1>2, <2>3 DEF SocWell
<1>9. /\ rxfifo' \in Seq(Chars) /\ txfifo' \in Seq(Chars)
      /\ Len(rxfifo') \in 0 .. FIFO_DEPTH /\ Len(txfifo') \in 0 .. FIFO_DEPTH
  BY <1>1, FifoFacts DEF SimTick, Clock
<1>10. RestTypeOK'
  BY <1>1, <1>2, <1>3, <1>7, <1>9 DEF RestTypeOK
<1>. QED  BY <1>2, <1>3, <1>4, <1>6, <1>8, <1>10

-----------------------------------------------------------------------------
(* When the last bit of a frame is over, so is the reception of it.          *)
LEMMA FollowsEnd ==
  ASSUME DIV # 0, RxTypeOK', NEW cfg \in Settings, lcr' = cfg,
         NEW k \in Nat, NEW d \in Nat,
         RxFollows(lcr, k, d)', k = LastBit(cfg), d = DIV + 1
  PROVE  recv_state' = 0
<1>1. RxFollows(cfg, k, d)'
  BY DEF RxFollows, RxNext, LastBit, Par
<1>. HIDE DEF Half
<1>2. PICK h \in 1 .. DIV : h = Half
  BY HalfFacts
<1>3. /\ recv_state' \in 0 .. BITS + 3 /\ recv_divcnt' \in 0 .. DIV + 2
      /\ cfg.parity \in BOOLEAN /\ cfg.dual \in BOOLEAN
  BY DEF RxTypeOK, Stop, Settings
<1>4. PICK p \in {0, 1}, e \in {1, 2} : p = Par(cfg) /\ e = (IF cfg.dual THEN 2 ELSE 1)
  BY DEF Par
<1>5. k = BITS + p + e
  BY <1>4 DEF LastBit
<1>6. \/ recv_state' = 0
      \/ recv_state' = 1 /\ k = 0
      \/ /\ recv_state' >= 2 /\ recv_divcnt' <= DIV + 1
         /\ recv_state' = Parity => cfg.parity
         /\ recv_stopbit' => recv_state' = Stop /\ cfg.dual
         /\ \/ k = RxNext(cfg)' - 1
            \/ d = recv_divcnt' + h - DIV - 1
  BY <1>1, <1>2 DEF RxFollows
<1>7. CASE recv_state' >= 2
  <2>1. RxNext(cfg)' \in Int /\ RxNext(cfg)' <= BITS + p + e
    <3>1. CASE recv_state' = BITS + 3
      <4>1. recv_stopbit' => cfg.dual
        BY <1>6, <3>1
      <4>2. RxNext(cfg)' = BITS + Par(cfg) + (IF recv_stopbit' THEN 2 ELSE 1)
        BY <3>1 DEF RxNext, Stop, Par
      <4>. QED  BY ONLY <1>4, <4>1, <4>2, UartCoreAssumption
    <3>2. CASE recv_state' = BITS + 2
      <4>1. cfg.parity
        BY <1>6, <3>2 DEF Parity
      <4>2. p = 1 /\ RxNext(cfg)' = recv_state' - 1
        BY <1>4, <3>2, <4>1 DEF RxNext, Stop, Par
      <4>. QED  BY ONLY <1>4, <3>2, <4>2, UartCoreAssumption
    <3>3. CASE recv_state' \in 2 .. BITS + 1
      <4>1. RxNext(cfg)' = recv_state' - 1
        BY <3>3 DEF RxNext, Stop
      <4>. QED  BY ONLY <1>4, <3>3, <4>1, UartCoreAssumption
    <3>. QED  BY <1>3, <1>7, <3>1, <3>2, <3>3
  <2>2. recv_divcnt' <= DIV + 1 /\ (k = RxNext(cfg)' - 1 \/ d = recv_divcnt' + h - DIV - 1)
    <3>1. recv_state' # 0 /\ recv_state' # 1
      BY <1>3, <1>7
    <3>. QED  BY <1>6, <3>1, Zenon
  <2>3. recv_divcnt' \in Nat
    BY <1>3
  <2>4. d = DIV + 1 /\ h \in 1 .. DIV /\ p \in {0, 1} /\ e \in {1, 2}
    OBVIOUS
  <2>5. k # RxNext(cfg)' - 1
    BY ONLY <1>5, <2>1, <2>4, UartCoreAssumption
  <2>6. d # recv_divcnt' + h - DIV - 1
    <3>1. recv_divcnt' <= DIV + 1
      BY <2>2
    <3>2. PICK r \in Nat : r = recv_divcnt'
      BY <2>3
    <3>3. r \in Nat /\ r <= DIV + 1 /\ DIV \in Nat /\ h \in Nat /\ h <= DIV /\ d = DIV + 1
      BY <2>4, <3>1, <3>2
    <3>4. r + h - DIV - 1 <= DIV
      BY ONLY <3>3
    <3>5. r + h - DIV - 1 # DIV + 1
      BY ONLY <3>3, <3>4
    <3>. QED  BY ONLY <3>2, <3>3, <3>5
  <2>. QED  BY ONLY <2>2, <2>5, <2>6
<1>8. CASE recv_state' = 1
  BY <1>4, <1>5, <1>6, <1>8
<1>. QED  BY <1>3, <1>7, <1>8

(* In loopback: what is under way still fits into the receive FIFO after a   *)
(* tick.                                                                     *)
LEMMA LoopFits ==
  ASSUME LinkWorks, LinkInv, lcr.loopback, NEW a \in SimAccesses, NEW typed \in Typed,
         SimTick(a, typed)
  PROVE  /\ flight # <<>> => ~rx_full
         /\ Len(txfifo') + Len(flight') + Len(rxfifo') <= FIFO_DEPTH
<1>1. RxTypeOK /\ RestTypeOK /\ lcr \in Settings /\ lcr.rx_en
  BY TakenFacts DEF LinkInv
<1>2. RxInv(SocPending) /\ SocPending \in BOOLEAN /\ Len(txfifo) + Len(flight) + Len(rxfifo) <= FIFO_DEPTH
  BY DEF LinkInv, LoopInv, SocPending
<1>3. PICK n \in Nat, m \in Nat, f \in {0, 1} :
        n = Len(rxfifo) /\ m = Len(txfifo) /\ f = Len(flight) /\ flight \in Seq(Chars)
        /\ (f = 0 <=> flight = <<>>)
  <2>1. Len(rxfifo) \in Nat /\ Len(txfifo) \in Nat
    BY <1>1, LenFacts DEF RestTypeOK
  <2>2. flight \in Seq(Chars) /\ Len(flight) \in {0, 1}
    BY <1>2, OneOnly DEF RxInv
  <2>3. Len(flight) = 0 <=> flight = <<>>
    BY <2>2, LenFacts
  <2>. QED  BY <2>1, <2>2, <2>3
<1>4. m + f + n <= FIFO_DEPTH
  BY ONLY <1>2, <1>3
<1>5. flight # <<>> => ~rx_full
  BY <1>3, <1>4 DEF rx_full
<1>6. pushes <=> recv_buf_valid
  <2>1. \A pending \in BOOLEAN : RxInv(pending) => (pushes <=> recv_buf_valid)
    BY <1>1, <1>5, FlightFacts
  <2>. QED  BY <1>2, <2>1
<1>7. /\ Len(rxfifo') = n + Num(pushes) - Num(a.op = "read")
      /\ Len(txfifo') = m + Num(a.op = "write" /\ ~tx_full) - Num(tx_accepts)
  BY <1>1, <1>3, FifoFacts DEF SimTick, Clock
<1>8. Len(flight') = f - Num(pushes) + Num(tx_accepts)
  <2>1. flight' = (IF pushes /\ flight # <<>> THEN Tail(flight) ELSE flight) \o Taken
    BY DEF SimTick, Clock, Track, LinkWorks
  <2>2. pushes => flight # <<>>
    BY <1>2, <1>6 DEF RxInv
  <2>3. AtMostOne(Taken) /\ (tx_accepts <=> Taken # <<>>)
    BY <1>1, TakenFacts
  <2>. DEFINE out == pushes /\ flight # <<>>
  <2>4. out \in BOOLEAN /\ (out => flight # <<>>)
    OBVIOUS
  <2>5. Num(out) = Num(pushes) /\ Num(Taken # <<>>) = Num(tx_accepts)
    BY <2>2, <2>3
  <2>6. flight' = (IF out THEN Tail(flight) ELSE flight) \o Taken
    BY <2>1
  <2>7. f \in Nat /\ f = Len(flight) /\ flight \in Seq(Chars)
    BY <1>3
  <2>. HIDE DEF out, Num
  <2>8. Len((IF out THEN Tail(flight) ELSE flight) \o Taken) = f - Num(out) + Num(Taken # <<>>)
    BY ONLY <2>3, <2>4, <2>7, QueueLen
  <2>. QED  BY <2>5, <2>6, <2>8
<1>9. a.op = "write" => m + f + n < FIFO_DEPTH
  <2>1. a.op = "write" => Room
    BY <1>1, AccessFacts DEF SimTick, Clock
  <2>. QED  BY ONLY <1>3, <2>1 DEF Room
<1>10. Len(txfifo') + Len(flight') + Len(rxfifo') <= FIFO_DEPTH
  <2>1. PICK p \in {0, 1}, r \in {0, 1}, w \in {0, 1}, t \in {0, 1} :
          /\ p = Num(pushes) /\ r = Num(a.op = "read") /\ w = Num(a.op = "write" /\ ~tx_full)
          /\ t = Num(tx_accepts)
    OBVIOUS
  <2>2. w = 1 => m + f + n < FIFO_DEPTH
    BY <1>9, <2>1
  <2>3. /\ Len(rxfifo') = n + p - r /\ Len(txfifo') = m + w - t /\ Len(flight') = f - p + t
    BY <1>7, <1>8, <2>1
  <2>. HIDE DEF Num
  <2>4. (m + w - t) + (f - p + t) + (n + p - r) <= FIFO_DEPTH
    <3>1. f \in Nat /\ n \in Nat /\ m \in Nat
      BY <1>3
    <3>. QED  BY ONLY <1>4, <2>1, <2>2, <3>1, UartAssumption
  <2>. QED  BY ONLY <2>3, <2>4
<1>. QED  BY <1>5, <1>10

(* In loopback a tick preserves the invariant.                               *)
LEMMA LoopStep ==
  ASSUME LinkWorks, LinkInv, lcr.loopback, NEW a \in SimAccesses, NEW typed \in Typed,
         SimTick(a, typed)
  PROVE  LoopInv'
<1>1. /\ RxTypeOK /\ TxTypeOK /\ EarTypeOK /\ HostTypeOK /\ RestTypeOK
      /\ SocWell(lcr) /\ HostWell /\ LoopInv
  BY DEF LinkInv
<1>2. RxTypeOK' /\ TxTypeOK' /\ HostTypeOK' /\ lcr' = lcr
  BY StepTypes
<1>3. /\ lcr \in Settings /\ lcr.rx_en /\ lcr.tx_en
      /\ tx_accepts <=> send_state = 0 /\ txfifo # <<>>
      /\ tx_accepts => Taken = <<Head(txfifo)>> /\ Head(txfifo) \in Chars
      /\ ~tx_accepts => Taken = <<>>
  BY <1>1, TakenFacts
<1>4. air' = <<>> /\ bb_tx_fifo' = <<>> /\ tx_state' = "IDLE" /\ tx_wait' = 0
  <2>1. typed = <<>>
    BY <1>1, TypedFacts
  <2>2. bb_tx_fifo \o typed = <<>>
    BY <1>1, <2>1 DEF LoopInv
  <2>3. tx_eval(<<>>) /\ bb_tx_fifo' = IF tx_state = "IDLE" /\ tx_state' # "IDLE" THEN Tail(<<>>) ELSE <<>>
    BY <2>2 DEF SimTick, UART
  <2>4. ~HostOn /\ tx_state = "IDLE"
    BY <1>1 DEF LoopInv, HostOn
  <2>5. tx_state' = "IDLE" /\ ~HostOn'
    <3>1. FR = DIV + 2
      BY DEF LinkWorks
    <3>2. <<>> \in Seq(Chars)
      OBVIOUS
    <3>3. PICK queue \in Seq(Chars) : queue = <<>>
      BY ONLY <3>2
    <3>4. tx_eval(queue)
      BY <2>3, <3>3
    <3>. QED  BY ONLY <1>1, <2>4, <3>1, <3>3, <3>4, HostStepStarts
  <2>6. tx_wait' = 0
    BY <1>2, <2>5 DEF HostOn, HostTypeOK
  <2>7. air' = <<>>
    BY DEF SimTick, Follow
  <2>. QED  BY <2>3, <2>5, <2>6, <2>7
<1>5. send_tx \in Bit /\ RxClock(send_tx, lcr, ~rx_full) /\ Flies(Taken)
  BY <1>1 DEF SimTick, Clock, Track, LinkWorks, Flies, TxTypeOK
<1>6. flight # <<>> => ~rx_full
  BY LoopFits
<1>7. Len(txfifo') + Len(flight') + Len(rxfifo') <= FIFO_DEPTH
  BY LoopFits
<1>. DEFINE we == txfifo # <<>>
            x == IF txfifo = <<>> THEN Zeros ELSE Head(txfifo)
<1>8. TxClock(lcr, we, x) /\ we \in BOOLEAN /\ x \in Chars
  BY <1>1, LenFacts DEF SimTick, Clock, RestTypeOK, Zeros, Chars, Bit
<1>9. (we <=> txfifo # <<>>) /\ (tx_accepts => x = Head(txfifo))
  BY <1>3
<1>. HIDE DEF we, x
<1>10. RxInv(SocPending) /\ (flight # <<>> => flight[1] \in Chars /\ SocCarries(flight[1]))
  <2>1. RxInv(SocPending) /\ (flight # <<>> => SocCarries(flight[1])) /\ AtMostOne(flight)
    BY <1>1 DEF LoopInv, RxInv
  <2>. QED  BY <2>1, OneOnly
<1>11. Taken = <<>> => flight' = IF recv_buf_valid THEN <<>> ELSE flight
  <2>1. \A pending \in BOOLEAN : RxInv(pending) /\ Flies(<<>>) => flight' = IF recv_buf_valid THEN <<>> ELSE flight
    BY <1>1, <1>3, <1>6, FlightFacts
  <2>2. SocPending \in BOOLEAN
    BY DEF SocPending
  <2>. QED  BY <1>5, <1>10, <2>1, <2>2
<1>12. send_state # 0 => \A c \in Chars : SocCarries(c) => SocCarries(c)'
  BY <1>1, <1>2, <1>3, <1>8, TxStepCarries
<1>13. send_state # 0 => Taken = <<>> /\ (flight' # <<>> => SocCarries(flight[1])')
  <2>1. send_state # 0 => Taken = <<>>
    BY <1>3
  <2>2. ASSUME send_state # 0, flight' # <<>>
        PROVE  SocCarries(flight[1])'
    <3>1. flight' = flight /\ flight # <<>>
      BY <1>11, <2>1, <2>2
    <3>. QED  BY <1>10, <1>12, <2>2, <3>1
  <2>. QED  BY <2>1, <2>2
<1>14. CASE SocOn
  <2>1. ~SocPending /\ send_state # 0
    BY <1>14 DEF SocOn, SocPending
  <2>2. RxInv(FALSE) /\ Flies(<<>>)
    BY <1>5, <1>10, <1>13, <2>1 DEF RxInv
  <2>3. /\ SocK(lcr) \in Nat /\ SocD \in Nat /\ SocK(lcr)' \in Nat /\ SocD' \in Nat
        /\ Moves(SocK(lcr), SocD, SocK(lcr)', SocD') /\ SocK(lcr)' <= LastBit(lcr)
        /\ ~SocPending'
        /\ SocOn' \/ (SocK(lcr)' = LastBit(lcr) /\ SocD' = DIV + 1 /\ send_state' = 0)
        /\ \A c \in Chars : SocCarries(c) => LineSays(lcr, c, SocK(lcr)', send_tx)
        /\ \A c \in Chars : SocK(lcr)' > BITS + Par(lcr) => LineSays(lcr, c, SocK(lcr)', send_tx)
    BY <1>1, <1>2, <1>3, <1>8, <1>14, TxStepMoves
  <2>4. PICK k \in Nat, d \in Nat, k1 \in Nat, d1 \in Nat :
          k = SocK(lcr) /\ d = SocD /\ k1 = SocK(lcr)' /\ d1 = SocD'
    BY <2>3
  <2>5. RxFollows(lcr, k, d)
    BY <1>1, <1>14, <2>4 DEF LoopInv
  <2>6. Moves(k, d, k1, d1) /\ k1 <= LastBit(lcr)
    BY <2>3, <2>4
  <2>7. k1 > BITS + Par(lcr) => send_tx = 1
    <3>1. Zeros \in Chars
      BY DEF Zeros, Chars, Bit
    <3>2. k1 > BITS + Par(lcr) => LineSays(lcr, Zeros, k1, send_tx)
      BY <2>3, <2>4, <3>1
    <3>. QED  BY <3>2 DEF LineSays
  <2>8. flight # <<>> => LineSays(lcr, flight[1], k1, send_tx)
    BY <1>10, <2>3, <2>4
  <2>9. RxInv(FALSE)' /\ RxFollows(lcr, k1, d1)'
    <3>1. \A b \in Bit : b = send_tx => RxInv(FALSE)' /\ RxFollows(lcr, k1, d1)'
      BY <1>1, <1>2, <1>3, <1>5, <1>6, <2>2, <2>5, <2>6, <2>7, <2>8, RxTickInFrame DEF LinkWorks
    <3>. QED  BY <1>5, <3>1
  <2>10. RxInv(SocPending)'
    BY <2>3, <2>9 DEF RxInv
  <2>11. RxFollows(lcr, SocK(lcr), SocD)'
    BY <2>4, <2>9 DEF RxFollows
  <2>12. ~SocOn' => recv_state' = 0
    <3>1. ~SocOn' => k1 = LastBit(lcr) /\ d1 = DIV + 1
      BY <1>2, <2>3, <2>4 DEF LastBit, Par
    <3>2. PICK cfg \in Settings : cfg = lcr /\ lcr' = cfg
      BY <1>2, <1>3
    <3>. QED  BY <1>2, <2>9, <3>1, <3>2, FollowsEnd DEF LinkWorks
  <2>. QED  BY <1>4, <1>7, <1>13, <2>1, <2>10, <2>11, <2>12 DEF LoopInv
<1>15. CASE ~SocOn
  <2>1. /\ send_state = 0 /\ we => SocPending' /\ ~SocOn'
        /\ send_state = 0 /\ ~we => send_state' = 0 /\ ~SocPending' /\ ~SocOn'
        /\ send_state = 1 => SocPending' /\ ~SocOn' /\ send_state' = 2
        /\ send_state = 2 => SocOn' /\ ~SocPending' /\ SocK(lcr)' = 0 /\ SocD' = 0
        /\ send_state \in {0, 1, 2}
        /\ send_state \in {0, 1} => send_tx = 1
        /\ send_state = 2 => send_tx = 0 /\ SocPending
    BY <1>1, <1>2, <1>3, <1>8, <1>15, TxStepStarts
  <2>2. recv_state = 0
    BY <1>1, <1>15 DEF LoopInv
  <2>3. \A pending \in BOOLEAN : RxInv(pending) =>
          /\ send_tx = 1 /\ Flies(<<>>) => RxInv(pending)' /\ recv_state' = 0
          /\ \A c \in Chars : send_tx = 1 /\ ~pending /\ Flies(<<c>>) => RxInv(TRUE)' /\ recv_state' = 0 /\ flight' = <<c>>
          /\ send_tx = 0 /\ pending /\ Flies(<<>>) => RxInv(FALSE)' /\ RxFollows(lcr, 0, 0)'
    <3>1. \A pending \in BOOLEAN, b \in Bit : RxInv(pending) /\ b = send_tx =>
            /\ b = 1 /\ Flies(<<>>) => RxInv(pending)' /\ recv_state' = 0
            /\ \A c \in Chars : b = 1 /\ ~pending /\ Flies(<<c>>) => RxInv(TRUE)' /\ recv_state' = 0 /\ flight' = <<c>>
            /\ b = 0 /\ pending /\ Flies(<<>>) => RxInv(FALSE)' /\ RxFollows(lcr, 0, 0)'
      BY <1>1, <1>2, <1>3, <1>5, <1>6, <2>2, RxTickIdle
    <3>. QED  BY <1>5, <3>1
  <2>4. CASE send_state = 0 /\ we
    <3>1. ~SocPending /\ RxInv(FALSE)
      BY <1>10, <2>4 DEF SocPending, RxInv
    <3>2. PICK c \in Chars : Taken = <<c>> /\ x = c
      BY <1>3, <1>9, <2>4
    <3>3. RxInv(TRUE)' /\ recv_state' = 0 /\ flight' = <<c>>
      BY <1>5, <2>1, <2>3, <2>4, <3>1, <3>2
    <3>4. SocCarries(c)'
      <4>1. SocCarries(c)
        BY <2>4 DEF SocCarries, Stop, LastData, Parity
      <4>. QED  BY <1>1, <1>2, <1>3, <1>8, <3>2, <4>1, TxStepCarries
    <3>5. flight'[1] = c
      BY <3>3
    <3>6. SocCarries(flight[1])'
      BY <3>4, <3>5
    <3>. QED  BY <1>4, <1>7, <2>1, <2>4, <3>3, <3>6 DEF LoopInv, RxInv
  <2>5. CASE send_state = 0 /\ ~we
    <3>1. ~SocPending /\ RxInv(FALSE)
      BY <1>10, <2>5 DEF SocPending, RxInv
    <3>2. Taken = <<>>
      BY <1>3, <1>9, <2>5
    <3>3. RxInv(FALSE)' /\ recv_state' = 0
      BY <1>5, <2>1, <2>3, <2>5, <3>1, <3>2
    <3>4. \A c : SocCarries(c)'
      BY <2>1, <2>5 DEF SocCarries, Stop, LastData, Parity
    <3>. QED  BY <1>4, <1>7, <2>1, <2>5, <3>3, <3>4 DEF LoopInv, RxInv
  <2>6. CASE send_state = 1
    <3>1. SocPending /\ RxInv(TRUE)
      BY <1>10, <2>6 DEF SocPending, RxInv
    <3>2. RxInv(TRUE)' /\ recv_state' = 0
      BY <1>5, <1>13, <2>1, <2>3, <2>6, <3>1
    <3>. QED  BY <1>4, <1>7, <1>13, <2>1, <2>6, <3>2 DEF LoopInv, RxInv
  <2>7. CASE send_state = 2
    <3>1. SocPending /\ RxInv(TRUE)
      BY <1>10, <2>1, <2>7 DEF RxInv
    <3>2. RxInv(FALSE)' /\ RxFollows(lcr, 0, 0)'
      BY <1>5, <1>13, <2>1, <2>3, <2>7, <3>1
    <3>3. RxFollows(lcr, SocK(lcr), SocD)'
      BY <2>1, <2>7, <3>2 DEF RxFollows
    <3>. QED  BY <1>4, <1>7, <1>13, <2>1, <2>7, <3>2, <3>3 DEF LoopInv, RxInv
  <2>. QED  BY <2>1, <2>4, <2>5, <2>6, <2>7
<1>. QED  BY <1>14, <1>15

-----------------------------------------------------------------------------
(* On the line: what is under way in both directions still fits after a      *)
(* tick.                                                                     *)
LEMMA LineFits ==
  ASSUME LinkWorks, LinkInv, ~lcr.loopback, NEW a \in SimAccesses, NEW typed \in Typed,
         typed = <<>> \/ a.op # "write", SimTick(a, typed)
  PROVE  /\ flight # <<>> => ~rx_full
         /\ UnderWay' <= FIFO_DEPTH
<1>1. RxTypeOK /\ RestTypeOK /\ HostTypeOK /\ HostWell /\ EarTypeOK /\ lcr \in Settings /\ lcr.rx_en
  BY TakenFacts DEF LinkInv
<1>2. RxInv(HostPending) /\ HostPending \in BOOLEAN /\ UnderWay <= FIFO_DEPTH /\ AtMostOne(air)
  BY DEF LinkInv, LineInv, HostPending, EarInv
<1>3. PICK n \in Nat, m \in Nat, f \in {0, 1}, s \in {0, 1}, q \in Nat :
        /\ n = Len(rxfifo) /\ m = Len(txfifo) /\ f = Len(flight) /\ s = Len(air) /\ q = Len(bb_tx_fifo)
        /\ flight \in Seq(Chars) /\ air \in Seq(Chars)
        /\ (f = 0 <=> flight = <<>>)
  <2>1. Len(rxfifo) \in Nat /\ Len(txfifo) \in Nat /\ Len(bb_tx_fifo) \in Nat
    BY <1>1, LenFacts DEF RestTypeOK
  <2>2. /\ flight \in Seq(Chars) /\ Len(flight) \in {0, 1}
        /\ air \in Seq(Chars) /\ Len(air) \in {0, 1}
    BY <1>2, OneOnly DEF RxInv
  <2>3. Len(flight) = 0 <=> flight = <<>>
    BY <2>2, LenFacts
  <2>. QED  BY <2>1, <2>2, <2>3
<1>4. m + s + f + n + q <= FIFO_DEPTH
  BY ONLY <1>2, <1>3 DEF UnderWay
<1>5. flight # <<>> => ~rx_full
  <2>1. flight # <<>> => f = 1
    BY <1>3
  <2>2. n \in Nat /\ m \in Nat /\ s \in Nat /\ f \in Nat /\ q \in Nat
    BY <1>3
  <2>3. f = 1 => n < FIFO_DEPTH
    BY ONLY <1>4, <2>2, UartAssumption
  <2>. QED  BY <1>3, <2>1, <2>3 DEF rx_full
<1>6. pushes <=> recv_buf_valid
  <2>1. \A pending \in BOOLEAN : RxInv(pending) => (pushes <=> recv_buf_valid)
    BY <1>1, <1>5, FlightFacts
  <2>. QED  BY <1>2, <2>1
<1>7. /\ Len(rxfifo') = n + Num(pushes) - Num(a.op = "read")
      /\ Len(txfifo') = m + Num(a.op = "write" /\ ~tx_full) - Num(tx_accepts)
  BY <1>1, <1>3, FifoFacts DEF SimTick, Clock
<1>8. Len(flight') = f - Num(pushes) + Num(HostTakes # <<>>)
  <2>1. flight' = (IF pushes /\ flight # <<>> THEN Tail(flight) ELSE flight) \o HostTakes
    BY DEF SimTick, Clock, Track, LinkWorks
  <2>2. pushes => flight # <<>>
    BY <1>2, <1>6 DEF RxInv
  <2>3. AtMostOne(HostTakes)
    BY <1>1, HostTakesFacts DEF SimTick, AtMostOne, HostTypeOK
  <2>. DEFINE out == pushes /\ flight # <<>>
  <2>4. out \in BOOLEAN /\ (out => flight # <<>>)
    OBVIOUS
  <2>5. Num(out) = Num(pushes)
    BY <2>2
  <2>6. flight' = (IF out THEN Tail(flight) ELSE flight) \o HostTakes
    BY <2>1
  <2>7. f \in Nat /\ f = Len(flight) /\ flight \in Seq(Chars)
    BY <1>3
  <2>. HIDE DEF out, Num
  <2>8. Len((IF out THEN Tail(flight) ELSE flight) \o HostTakes) = f - Num(out) + Num(HostTakes # <<>>)
    BY ONLY <2>3, <2>4, <2>7, QueueLen
  <2>. QED  BY <2>5, <2>6, <2>8
<1>9. Len(air') = s - Num(hears /\ air # <<>>) + Num(tx_accepts)
  <2>1. AtMostOne(Taken) /\ (tx_accepts <=> Taken # <<>>)
    BY <1>1, TakenFacts
  <2>. DEFINE out == hears /\ air # <<>>
  <2>2. lcr' = lcr
    BY <1>1, AccessFacts DEF SimTick, Clock
  <2>3. air' = (IF out THEN Tail(air) ELSE air) \o Taken
    BY DEF SimTick, Follow
  <2>4. out \in BOOLEAN /\ (out => air # <<>>)
    BY DEF hears
  <2>5. s \in Nat /\ s = Len(air) /\ air \in Seq(Chars)
    BY <1>3
  <2>6. Num(Taken # <<>>) = Num(tx_accepts)
    BY <2>1
  <2>. HIDE DEF out, Num
  <2>7. Len((IF out THEN Tail(air) ELSE air) \o Taken) = s - Num(out) + Num(Taken # <<>>)
    BY ONLY <2>1, <2>4, <2>5, QueueLen
  <2>8. Len(air') = s - Num(out) + Num(tx_accepts)
    BY <2>3, <2>6, <2>7
  <2>. QED  BY <2>8 DEF out
<1>10. Len(bb_tx_fifo') = q + Num(typed # <<>>) - Num(HostTakes # <<>>)
  BY <1>1, <1>3, HostTakesFacts DEF SimTick
<1>11. a.op = "write" \/ typed # <<>> => m + s + f + n + q < FIFO_DEPTH
  <2>1. a.op = "write" \/ typed # <<>> => UnderWay < FIFO_DEPTH
    BY <1>1, AccessFacts, TypedFacts DEF SimTick, Clock
  <2>. QED  BY ONLY <1>3, <2>1 DEF UnderWay
<1>12. PICK p \in {0, 1}, r \in {0, 1}, w \in {0, 1}, t \in {0, 1}, h \in {0, 1}, y \in {0, 1}, k \in {0, 1} :
         /\ p = Num(pushes) /\ r = Num(a.op = "read") /\ w = Num(a.op = "write" /\ ~tx_full)
         /\ t = Num(tx_accepts) /\ h = Num(hears /\ air # <<>>) /\ y = Num(typed # <<>>)
         /\ k = Num(HostTakes # <<>>)
  OBVIOUS
<1>13. (w = 1 \/ y = 1 => m + s + f + n + q < FIFO_DEPTH) /\ (w = 0 \/ y = 0)
  BY <1>11, <1>12
<1>14. /\ Len(rxfifo') = n + p - r /\ Len(txfifo') = m + w - t /\ Len(flight') = f - p + k
       /\ Len(air') = s - h + t /\ Len(bb_tx_fifo') = q + y - k
  <2>. HIDE DEF Num
  <2>. QED  BY <1>7, <1>8, <1>9, <1>10, <1>12
<1>15. (m + w - t) + (s - h + t) + (f - p + k) + (n + p - r) + (q + y - k) <= FIFO_DEPTH
  <2>1. /\ f \in Nat /\ n \in Nat /\ m \in Nat /\ s \in Nat /\ q \in Nat
        /\ p \in {0, 1} /\ r \in {0, 1} /\ w \in {0, 1} /\ t \in {0, 1} /\ h \in {0, 1} /\ y \in {0, 1} /\ k \in {0, 1}
    BY <1>3
  <2>. QED  BY ONLY <1>4, <1>13, <2>1, UartAssumption
<1>16. UnderWay' <= FIFO_DEPTH
  BY ONLY <1>14, <1>15 DEF UnderWay
<1>. QED  BY <1>5, <1>16

(* On the line a tick preserves the part about the receiver of the SoC,      *)
(* which hears the simulator.                                                *)
LEMMA LineRxStep ==
  ASSUME LinkWorks, LinkInv, ~lcr.loopback, NEW a \in SimAccesses, NEW typed \in Typed,
         typed = <<>> \/ a.op # "write", SimTick(a, typed)
  PROVE  /\ RxInv(HostPending)'
         /\ (flight # <<>> => HostCarries(flight[1]))'
         /\ (~HostOn => recv_state = 0)'
         /\ (HostOn => RxFollows(lcr, HostK, HostD))'
<1>1. RxTypeOK /\ RestTypeOK /\ HostTypeOK /\ HostWell /\ EarTypeOK /\ LineInv
  BY DEF LinkInv
<1>2. RxTypeOK' /\ HostTypeOK' /\ HostWell' /\ lcr' = lcr
  BY StepTypes
<1>3. lcr \in Settings /\ lcr.rx_en /\ ~lcr.parity /\ ~lcr.dual
  BY <1>1, TakenFacts
<1>. DEFINE queue == bb_tx_fifo \o typed
<1>4. queue \in Seq(Chars) /\ tx_eval(queue)
  BY <1>1, TypedFacts, HostTakesFacts DEF SimTick
<1>. HIDE DEF queue
<1>5. /\ HostTakes = <<>> \/ (HostTakes = <<tx_byte'>> /\ HostPending' /\ tx_state = "IDLE" /\ tx_wait = 0)
      /\ tx_state = "IDLE" /\ tx_state' # "IDLE" => HostTakes = <<tx_byte'>>
  BY <1>1, HostTakesFacts DEF SimTick
<1>6. flight # <<>> => ~rx_full
  BY LineFits
<1>7. PICK b \in Bit : b = txval'
  BY <1>2 DEF HostTypeOK
<1>8. RxClock(b, lcr, ~rx_full) /\ Flies(HostTakes)
  BY <1>7 DEF SimTick, Clock, Track, LinkWorks, Flies
<1>9. RxInv(HostPending) /\ (flight # <<>> => flight[1] \in Chars /\ HostCarries(flight[1]))
  <2>1. RxInv(HostPending) /\ (flight # <<>> => HostCarries(flight[1])) /\ AtMostOne(flight)
    BY <1>1 DEF LineInv, RxInv
  <2>. QED  BY <2>1, OneOnly
<1>10. HostTakes = <<>> => flight' = IF recv_buf_valid THEN <<>> ELSE flight
  <2>1. \A pending \in BOOLEAN : RxInv(pending) /\ Flies(<<>>) => flight' = IF recv_buf_valid THEN <<>> ELSE flight
    BY <1>1, <1>3, <1>6, FlightFacts
  <2>2. HostPending \in BOOLEAN
    BY DEF HostPending
  <2>. QED  BY <1>8, <1>9, <2>1, <2>2
<1>11. ~(tx_state = "IDLE" /\ tx_state' # "IDLE") => \A c \in Chars : HostCarries(c) => HostCarries(c)'
  <2>1. \A c \in Chars : HostCarries(c) /\ (tx_state = "IDLE" /\ tx_state' # "IDLE" => tx_byte' = c) => HostCarries(c)'
    BY <1>1, <1>4, HostStepCarries DEF LinkWorks
  <2>. QED  BY <2>1
<1>12. ~(tx_state = "IDLE" /\ tx_state' # "IDLE") /\ HostTakes = <<>> => (flight' # <<>> => HostCarries(flight[1])')
  <2>1. ASSUME ~(tx_state = "IDLE" /\ tx_state' # "IDLE"), HostTakes = <<>>, flight' # <<>>
        PROVE  HostCarries(flight[1])'
    <3>1. flight' = flight /\ flight # <<>>
      BY <1>10, <2>1
    <3>2. PICK c \in Chars : c = flight[1] /\ HostCarries(c)
      BY <1>9, <3>1
    <3>3. HostCarries(c)'
      BY <1>11, <2>1, <3>2
    <3>4. c = flight'[1]
      BY <3>1, <3>2
    <3>. QED  BY <3>3, <3>4
  <2>. QED  BY <2>1
<1>13. CASE HostOn
  <2>1. ~HostPending
    BY <1>1, <1>13 DEF HostOn, HostPending, HostWell
  <2>2. /\ HostK \in Nat /\ HostD \in Nat /\ HostK' \in Nat /\ HostD' \in Nat
        /\ Moves(HostK, HostD, HostK', HostD') /\ HostK' <= BITS + 1
        /\ ~HostPending'
        /\ HostOn' \/ (HostK' = BITS + 1 /\ HostD' = DIV + 1 /\ tx_state' = "IDLE" /\ tx_wait' = 0)
        /\ tx_state = "IDLE" => tx_state' = "IDLE"
        /\ \A cfg \in Settings, c \in Chars :
             HostCarries(c) \/ tx_state = "IDLE" => LineSays(cfg, c, HostK', txval')
    BY <1>1, <1>4, <1>13, HostStepMoves DEF LinkWorks
  <2>3. HostTakes = <<>>
    BY <2>2 DEF HostTakes
  <2>4. RxInv(FALSE) /\ Flies(<<>>)
    BY <1>8, <1>9, <2>1, <2>3 DEF RxInv
  <2>5. PICK k \in Nat, d \in Nat, k1 \in Nat, d1 \in Nat :
          k = HostK /\ d = HostD /\ k1 = HostK' /\ d1 = HostD'
    BY <2>2
  <2>6. RxFollows(lcr, k, d)
    BY <1>1, <1>13, <2>5 DEF LineInv
  <2>7. Moves(k, d, k1, d1) /\ k1 <= LastBit(lcr) /\ Par(lcr) = 0 /\ LastBit(lcr) = BITS + 1
    BY <1>3, <2>2, <2>5 DEF LastBit, Par
  <2>8. flight # <<>> => LineSays(lcr, flight[1], k1, b)
    BY <1>3, <1>7, <1>9, <2>2, <2>5
  <2>9. k1 > BITS + Par(lcr) => b = 1
    <3>1. CASE flight # <<>>
      BY <2>8, <3>1 DEF LineSays
    <3>2. CASE flight = <<>>
      <4>1. ~Awaits
        BY <2>4, <3>2 DEF RxInv
      <4>2. k = BITS + 1
        <5>1. recv_state = 0 \/ recv_stopbit
          BY <4>1 DEF Awaits
        <5>2. recv_stopbit => recv_state = 0 \/ recv_state = 1
          BY <1>3, <2>6 DEF RxFollows
        <5>3. recv_state # 1
          BY <4>1 DEF Awaits, Stop
        <5>4. recv_state = 0
          BY <5>1, <5>2, <5>3
        <5>5. k = LastBit(lcr)
          BY <2>6, <5>4 DEF RxFollows
        <5>. QED  BY <2>7, <5>5
      <4>3. tx_state = "IDLE"
        BY <1>1, <2>5, <4>2 DEF HostK, HostTypeOK
      <4>4. Zeros \in Chars
        BY DEF Zeros, Chars, Bit
      <4>5. LineSays(lcr, Zeros, k1, b)
        BY <1>3, <1>7, <2>2, <2>5, <4>3, <4>4
      <4>. QED  BY <4>5 DEF LineSays
    <3>. QED  BY <3>1, <3>2
  <2>10. RxInv(FALSE)' /\ RxFollows(lcr, k1, d1)'
    BY <1>1, <1>2, <1>3, <1>6, <1>8, <2>4, <2>6, <2>7, <2>8, <2>9, RxTickInFrame DEF LinkWorks
  <2>11. RxInv(HostPending)'
    BY <2>2, <2>10 DEF RxInv
  <2>12. RxFollows(lcr, HostK, HostD)'
    BY <2>5, <2>10 DEF RxFollows
  <2>13. ~HostOn' => recv_state' = 0
    <3>1. ~HostOn' => k1 = LastBit(lcr) /\ d1 = DIV + 1
      BY <2>2, <2>5, <2>7
    <3>2. PICK cfg \in Settings : cfg = lcr /\ lcr' = cfg
      BY <1>2, <1>3
    <3>. QED  BY <1>2, <2>10, <3>1, <3>2, FollowsEnd DEF LinkWorks
  <2>14. flight' # <<>> => HostCarries(flight[1])'
    BY <1>12, <2>2, <2>3
  <2>. QED  BY <2>11, <2>12, <2>13, <2>14
<1>14. CASE ~HostOn
  <2>1. /\ tx_state \in {"IDLE", "START_BIT"}
        /\ tx_state = "IDLE" /\ queue # <<>> => HostPending' /\ ~HostOn' /\ txval' = 1 /\ tx_byte' = Head(queue)
        /\ tx_state = "IDLE" /\ queue = <<>> => tx_state' = "IDLE" /\ ~HostOn' /\ ~HostPending' /\ txval' = 1
        /\ tx_state = "START_BIT" => HostOn' /\ ~HostPending' /\ HostK' = 0 /\ HostD' = 0 /\ txval' = 0
                                     /\ tx_state' # "IDLE"
    BY <1>1, <1>4, <1>14, HostStepStarts DEF LinkWorks
  <2>2. recv_state = 0
    BY <1>1, <1>14 DEF LineInv
  <2>3. \A pending \in BOOLEAN : RxInv(pending) =>
          /\ b = 1 /\ Flies(<<>>) => RxInv(pending)' /\ recv_state' = 0
          /\ \A c \in Chars : b = 1 /\ ~pending /\ Flies(<<c>>) => RxInv(TRUE)' /\ recv_state' = 0 /\ flight' = <<c>>
          /\ b = 0 /\ pending /\ Flies(<<>>) => RxInv(FALSE)' /\ RxFollows(lcr, 0, 0)'
    BY <1>1, <1>2, <1>3, <1>6, <1>8, <2>2, RxTickIdle
  <2>4. CASE tx_state = "IDLE" /\ queue # <<>>
    <3>1. ~HostPending /\ RxInv(FALSE)
      BY <1>9, <2>4 DEF HostPending, RxInv
    <3>2. tx_state' # "IDLE"
      BY <2>1, <2>4 DEF HostPending
    <3>3. PICK c \in Chars : c = tx_byte'
      BY <1>2 DEF HostTypeOK
    <3>4. HostTakes = <<c>>
      BY <1>5, <2>4, <3>2, <3>3
    <3>5. RxInv(TRUE)' /\ recv_state' = 0 /\ flight' = <<c>>
      BY <1>7, <1>8, <2>1, <2>3, <2>4, <3>1, <3>4
    <3>6. HostCarries(c)'
      <4>1. HostCarries(c)
        BY <2>4 DEF HostCarries
      <4>. QED  BY <1>1, <1>4, <3>3, <4>1, HostStepCarries DEF LinkWorks
    <3>7. flight'[1] = c
      BY <3>5
    <3>8. HostCarries(flight[1])'
      BY <3>6, <3>7
    <3>. QED  BY <2>1, <2>4, <3>5, <3>8 DEF RxInv
  <2>5. CASE tx_state = "IDLE" /\ queue = <<>>
    <3>1. ~HostPending /\ RxInv(FALSE)
      BY <1>9, <2>5 DEF HostPending, RxInv
    <3>2. HostTakes = <<>>
      BY <2>1, <2>5 DEF HostTakes
    <3>3. RxInv(FALSE)' /\ recv_state' = 0
      BY <1>7, <1>8, <2>1, <2>3, <2>5, <3>1, <3>2
    <3>4. HostCarries(flight[1])'
      BY <2>1, <2>5 DEF HostCarries
    <3>. QED  BY <2>1, <2>5, <3>3, <3>4 DEF RxInv
  <2>6. CASE tx_state = "START_BIT"
    <3>1. HostPending /\ RxInv(TRUE)
      BY <1>9, <2>6 DEF HostPending, RxInv
    <3>2. HostTakes = <<>>
      BY <2>6 DEF HostTakes
    <3>3. RxInv(FALSE)' /\ RxFollows(lcr, 0, 0)'
      BY <1>7, <1>8, <2>1, <2>3, <2>6, <3>1, <3>2
    <3>4. RxFollows(lcr, HostK, HostD)'
      BY <2>1, <2>6, <3>3 DEF RxFollows
    <3>5. flight' # <<>> => HostCarries(flight[1])'
      BY <1>12, <2>6, <3>2
    <3>. QED  BY <2>1, <2>6, <3>3, <3>4, <3>5 DEF RxInv
  <2>. QED  BY <2>1, <2>4, <2>5, <2>6
<1>. QED  BY <1>13, <1>14

(* The receiver of the simulator, too, is idle when the last bit is over.    *)
LEMMA EarFollowsEnd ==
  ASSUME FR = DIV + 2, EarTypeOK', NEW k \in Nat, NEW d \in Nat, EarFollows(k, d)',
         k = BITS + 1, d = DIV + 1
  PROVE  rx_state' = "IDLE" /\ rx_wait' = 0
<1>1. PICK h \in 1 .. DIV + 1 : h = HalfFR /\ 2 * h <= DIV + 2
  BY HalfFRFacts
<1>2. PICK w \in Nat, g \in 0 .. BITS : w = rx_wait' /\ g = got_bits'
  BY DEF EarTypeOK
<1>3. HalfFR' = HalfFR
  BY DEF HalfFR
<1>4. CASE rx_state' = "IDLE"
  <2>1. w = 0 \/ d + w = 2 * h - 1
    BY <1>1, <1>2, <1>3, <1>4 DEF EarFollows
  <2>2. w = 0
    BY <1>1, <2>1
  <2>. QED  BY <1>2, <1>4, <2>2
<1>5. CASE rx_state' = "START_BIT"
  <2>1. k = 0
    BY <1>5 DEF EarFollows
  <2>. QED  BY <2>1
<1>6. CASE rx_state' \in {"DATA_BITS", "STOP_BIT"}
  <2>1. PICK e \in {BITS + 1, g + 1} : e = EarNext'
    BY <1>2, <1>6 DEF EarNext
  <2>2. k = e - 1 \/ d = h - 1 - w
    BY <1>1, <1>2, <1>3, <1>6, <2>1 DEF EarFollows
  <2>3. k # e - 1
    <3>1. k = BITS + 1 /\ g \in 0 .. BITS /\ e \in {BITS + 1, g + 1}
      OBVIOUS
    <3>. QED  BY ONLY <3>1, UartCoreAssumption
  <2>4. d # h - 1 - w
    BY <1>1
  <2>. QED  BY <2>2, <2>3, <2>4
<1>. QED  BY <1>4, <1>5, <1>6 DEF EarTypeOK, FrameStates, EarFollows

(* On the line a tick preserves the part about the receiver of the           *)
(* simulator, which hears the SoC.                                           *)
LEMMA EarStep ==
  ASSUME LinkWorks, LinkInv, ~lcr.loopback, NEW a \in SimAccesses, NEW typed \in Typed,
         typed = <<>> \/ a.op # "write", SimTick(a, typed)
  PROVE  EarInv'
<1>1. RxTypeOK /\ RestTypeOK /\ TxTypeOK /\ SocWell(lcr) /\ EarTypeOK /\ EarInv
  BY DEF LinkInv, LineInv
<1>2. TxTypeOK' /\ EarTypeOK' /\ lcr' = lcr
  BY StepTypes
<1>3. /\ lcr \in Settings /\ lcr.tx_en /\ ~lcr.parity /\ ~lcr.dual
      /\ tx_accepts <=> send_state = 0 /\ txfifo # <<>>
      /\ tx_accepts => Taken = <<Head(txfifo)>> /\ Head(txfifo) \in Chars
      /\ ~tx_accepts => Taken = <<>>
  BY <1>1, TakenFacts
<1>4. Par(lcr) = 0 /\ LastBit(lcr) = BITS + 1
  BY <1>3 DEF LastBit, Par
<1>5. send_tx \in Bit /\ rx_eval /\ FR = DIV + 2
  BY <1>1 DEF SimTick, UART, TxTypeOK, LinkWorks
<1>. DEFINE we == txfifo # <<>>
            x == IF txfifo = <<>> THEN Zeros ELSE Head(txfifo)
<1>6. TxClock(lcr, we, x) /\ we \in BOOLEAN /\ x \in Chars
  BY <1>1, LenFacts DEF SimTick, Clock, RestTypeOK, Zeros, Chars, Bit
<1>7. (we <=> txfifo # <<>>) /\ (tx_accepts => x = Head(txfifo))
  BY <1>3
<1>. HIDE DEF we, x
<1>8. /\ air = <<>> \/ \E c \in Chars : air = <<c>> /\ air[1] = c /\ Tail(air) = <<>>
      /\ air # <<>> => air[1] \in Chars
  BY <1>1, OneOnly DEF EarInv
<1>9. /\ Taken = <<>> => air' = IF hears /\ air # <<>> THEN <<>> ELSE air
      /\ air = <<>> => air' = Taken
  <2>1. air' = (IF hears /\ air # <<>> THEN Tail(air) ELSE air) \o Taken
    BY DEF SimTick, Follow
  <2>2. AtMostOne(Taken)
    BY <1>1, TakenFacts
  <2>3. air \in Seq(Chars) /\ Taken \in Seq(Chars)
    BY <1>1, <2>2, OneOnly DEF EarInv
  <2>4. air \o <<>> = air /\ <<>> \o Taken = Taken /\ <<>> \o <<>> = <<>>
    BY <2>3, ConcatEmptySeq
  <2>. QED  BY <1>8, <2>1, <2>4
<1>10. \A c \in Chars : SocCarries(c) /\ (send_state # 0 \/ x = c) => SocCarries(c)'
  BY <1>1, <1>2, <1>3, <1>6, TxStepCarries
<1>11. CASE SocOn
  <2>1. ~SocPending /\ send_state # 0 /\ Taken = <<>>
    BY <1>3, <1>11 DEF SocOn, SocPending
  <2>2. /\ SocK(lcr) \in Nat /\ SocD \in Nat /\ SocK(lcr)' \in Nat /\ SocD' \in Nat
        /\ Moves(SocK(lcr), SocD, SocK(lcr)', SocD') /\ SocK(lcr)' <= LastBit(lcr)
        /\ ~SocPending'
        /\ SocOn' \/ (SocK(lcr)' = LastBit(lcr) /\ SocD' = DIV + 1 /\ send_state' = 0)
        /\ \A c \in Chars : SocCarries(c) => LineSays(lcr, c, SocK(lcr)', send_tx)
        /\ \A c \in Chars : SocK(lcr)' > BITS + Par(lcr) => LineSays(lcr, c, SocK(lcr)', send_tx)
    BY <1>1, <1>2, <1>3, <1>6, <1>11, TxStepMoves
  <2>3. PICK k \in Nat, d \in Nat, k1 \in Nat, d1 \in Nat :
          k = SocK(lcr) /\ d = SocD /\ k1 = SocK(lcr)' /\ d1 = SocD'
    BY <2>2
  <2>4. EarFollows(k, d)
    BY <1>1, <1>11, <2>3 DEF EarInv
  <2>5. Moves(k, d, k1, d1) /\ k1 <= BITS + 1
    BY <1>4, <2>2, <2>3
  <2>6. PICK c \in Chars :
          /\ LineSays(lcr, c, k1, send_tx)
          /\ air # <<>> => air = <<c>> /\ EarHolds(c) /\ SocCarries(c)
    <3>1. CASE air # <<>>
      BY <1>1, <1>8, <2>2, <2>3, <3>1 DEF EarInv
    <3>2. CASE air = <<>>
      <4>1. rx_state = "IDLE"
        BY <1>1, <3>2 DEF EarInv
      <4>2. k = BITS + 1
        BY <2>4, <4>1 DEF EarFollows
      <4>3. k1 > BITS + Par(lcr)
        BY <1>4, <2>5, <4>2 DEF Moves
      <4>4. Zeros \in Chars
        BY DEF Zeros, Chars, Bit
      <4>. QED  BY <2>2, <2>3, <3>2, <4>3, <4>4
    <3>. QED  BY <3>1, <3>2
  <2>7. /\ EarFollows(k1, d1)'
        /\ rx_state = "IDLE" => rx_state' = "IDLE" /\ ~hears
        /\ rx_state # "IDLE" => (hears <=> rx_state' = "IDLE")
        /\ rx_state' = "IDLE" /\ (rx_state = "IDLE" => prev_rx = 1) => prev_rx' = 1
    BY <1>1, <1>3, <1>5, <2>4, <2>5, <2>6, EarStepFollows
  <2>8. rx_state # "IDLE" /\ EarHolds(c) => EarHolds(c)'
    BY <1>1, <1>3, <1>5, <2>4, <2>5, <2>6, EarStepHolds
  <2>9. SocCarries(c) => SocCarries(c)'
    BY <1>10, <2>1
  <2>10. air # <<>> <=> rx_state # "IDLE"
    BY <1>1, <2>1 DEF EarInv
  <2>11. air' # <<>> <=> rx_state' # "IDLE"
    BY <1>9, <2>1, <2>7, <2>10
  <2>12. air' # <<>> => air' = <<c>> /\ EarHolds(c)' /\ SocCarries(c)'
    BY <1>9, <2>1, <2>6, <2>8, <2>9, <2>10
  <2>13. air' # <<>> => EarHolds(air[1])' /\ SocCarries(air[1])'
    <3>1. air' # <<>> => air'[1] = c
      BY <2>12
    <3>. QED  BY <2>12, <3>1
  <2>14. rx_state' = "IDLE" => prev_rx' = 1
    BY <1>1, <2>1, <2>7 DEF EarInv
  <2>15. ~SocOn' => rx_state' = "IDLE" /\ rx_wait' = 0
    <3>1. ~SocOn' => k1 = BITS + 1 /\ d1 = DIV + 1
      BY <1>4, <2>2, <2>3
    <3>. QED  BY <1>2, <1>5, <2>7, <3>1, EarFollowsEnd
  <2>16. EarFollows(SocK(lcr), SocD)'
    BY <2>3, <2>7 DEF EarFollows
  <2>17. AtMostOne(air)'
    BY <2>12 DEF AtMostOne
  <2>. QED  BY <2>2, <2>11, <2>13, <2>14, <2>15, <2>16, <2>17 DEF EarInv
<1>12. CASE ~SocOn
  <2>1. /\ send_state = 0 /\ we => SocPending' /\ ~SocOn'
        /\ send_state = 0 /\ ~we => send_state' = 0 /\ ~SocPending' /\ ~SocOn'
        /\ send_state = 1 => SocPending' /\ ~SocOn' /\ send_state' = 2
        /\ send_state = 2 => SocOn' /\ ~SocPending' /\ SocK(lcr)' = 0 /\ SocD' = 0
        /\ send_state \in {0, 1, 2}
        /\ send_state \in {0, 1} => send_tx = 1
        /\ send_state = 2 => send_tx = 0 /\ SocPending
    BY <1>1, <1>2, <1>3, <1>6, <1>12, TxStepStarts
  <2>2. rx_state = "IDLE" /\ rx_wait = 0
    BY <1>1, <1>12 DEF EarInv
  <2>3. /\ send_tx = 1 => rx_state' = "IDLE" /\ rx_wait' = 0 /\ prev_rx' = 1
        /\ send_tx = 0 /\ prev_rx = 1 => rx_state' = "START_BIT" /\ EarFollows(0, 0)'
        /\ \A c : EarHolds(c)'
        /\ ~hears
    BY <1>1, <1>5, <2>2, EarIdles
  <2>4. air # <<>> <=> SocPending
    BY <1>1, <2>2 DEF EarInv
  <2>5. air # <<>> => \E c \in Chars : air = <<c>> /\ SocCarries(c)
    BY <1>1, <1>8 DEF EarInv
  <2>6. CASE send_state = 0 /\ we
    <3>1. air = <<>>
      BY <2>4, <2>6 DEF SocPending
    <3>2. PICK c \in Chars : Taken = <<c>> /\ x = c
      BY <1>3, <1>7, <2>6
    <3>3. air' = <<c>> /\ air' # <<>> /\ air'[1] = c
      BY <1>9, <3>1, <3>2
    <3>4. SocCarries(c)
      BY <2>6 DEF SocCarries, Stop, LastData, Parity
    <3>5. SocCarries(c)'
      BY <1>10, <3>2, <3>4
    <3>6. SocCarries(air[1])'
      BY <3>3, <3>5
    <3>7. AtMostOne(air)'
      BY <3>3 DEF AtMostOne
    <3>. QED  BY <2>1, <2>3, <2>6, <3>3, <3>6, <3>7 DEF EarInv
  <2>7. CASE send_state = 0 /\ ~we
    <3>1. air' = <<>>
      BY <1>3, <1>7, <1>9, <2>4, <2>7 DEF SocPending
    <3>. QED  BY <2>1, <2>3, <2>7, <3>1 DEF EarInv, AtMostOne
  <2>8. CASE send_state \in {1, 2}
    <3>1. SocPending
      BY <2>1, <2>8 DEF SocPending
    <3>2. PICK c \in Chars : air = <<c>> /\ SocCarries(c)
      BY <2>4, <2>5, <3>1
    <3>3. air' = <<c>> /\ air' # <<>> /\ air'[1] = c
      BY <1>3, <1>9, <2>3, <2>8, <3>2
    <3>4. SocCarries(c)'
      BY <1>10, <2>8, <3>2
    <3>5. SocCarries(air[1])'
      BY <3>3, <3>4
    <3>6. AtMostOne(air)'
      BY <3>3 DEF AtMostOne
    <3>7. prev_rx = 1
      BY <1>1, <2>2, <2>8 DEF EarInv
    <3>8. CASE send_state = 1
      BY <2>1, <2>3, <3>3, <3>5, <3>6, <3>8 DEF EarInv
    <3>9. CASE send_state = 2
      <4>1. rx_state' = "START_BIT" /\ EarFollows(0, 0)'
        BY <2>1, <2>3, <3>7, <3>9
      <4>2. EarFollows(SocK(lcr), SocD)'
        BY <2>1, <3>9, <4>1 DEF EarFollows
      <4>. QED  BY <2>1, <2>3, <3>3, <3>5, <3>6, <3>9, <4>1, <4>2 DEF EarInv
    <3>. QED  BY <2>8, <3>8, <3>9
  <2>. QED  BY <2>1, <2>6, <2>7, <2>8
<1>. QED  BY <1>11, <1>12

-----------------------------------------------------------------------------
(* The invariant holds of the idle line.                                     *)
LEMMA LinkInit == SimInit => LinkInv
<1>. SUFFICES ASSUME SimInit PROVE LinkInv
  OBVIOUS
<1>. USE DEF SimInit, Init, RxInit, TxInit
<1>1. Zeros \in Chars /\ 0 \in Bit /\ 1 \in Bit
  BY DEF Zeros, Chars, Bit
<1>2. RxTypeOK
  <2>1. recv_buf_valid \in BOOLEAN /\ recv_stopbit \in BOOLEAN /\ recv_framing_error \in BOOLEAN
    BY Zenon
  <2>2. recv_state = 0 /\ recv_divcnt = 0 /\ recv_pattern \in Chars
    BY <1>1
  <2>. QED  BY ONLY <2>1, <2>2, UartCoreAssumption DEF RxTypeOK, Stop
<1>3. TxTypeOK
  <2>1. send_stopbit \in BOOLEAN
    BY Zenon
  <2>2. send_state = 0 /\ send_divcnt = 0 /\ send_pattern \in [1 .. BITS + 1 -> Bit] /\ send_tx \in Bit
    BY <1>1
  <2>. QED  BY ONLY <2>1, <2>2, UartCoreAssumption DEF TxTypeOK, Hold
<1>4. EarTypeOK /\ HostTypeOK
  BY <1>1 DEF EarTypeOK, HostTypeOK, FrameStates
<1>5. RestTypeOK
  <2>1. <<>> \in Seq(Chars) /\ Len(<<>>) <= FIFO_DEPTH
    BY OneOnly DEF AtMostOne
  <2>. QED  BY <1>1, <2>1 DEF RestTypeOK, AtMostOne
<1>6. SocWell(lcr) /\ HostWell
  BY DEF SocWell, HostWell, Stop, Parity
<1>7. ~SocOn /\ ~SocPending /\ ~HostOn /\ ~HostPending
  BY DEF SocOn, SocPending, HostOn, HostPending
<1>8. RxInv(SocPending) /\ RxInv(HostPending)
  BY <1>7 DEF RxInv, AtMostOne, RxClean, Awaits
<1>9. EarInv
  BY <1>7 DEF EarInv, AtMostOne
<1>10. Len(txfifo) = 0 /\ Len(air) = 0 /\ Len(flight) = 0 /\ Len(rxfifo) = 0 /\ Len(bb_tx_fifo) = 0
  OBVIOUS
<1>11. 0 + 0 + 0 + 0 + 0 <= FIFO_DEPTH /\ 0 + 0 + 0 <= FIFO_DEPTH
  BY UartAssumption
<1>12. UnderWay <= FIFO_DEPTH /\ Len(txfifo) + Len(flight) + Len(rxfifo) <= FIFO_DEPTH
  BY ONLY <1>10, <1>11 DEF UnderWay
<1>13. LoopInv
  BY <1>7, <1>8, <1>12 DEF LoopInv
<1>14. LineInv
  BY <1>7, <1>8, <1>9, <1>12 DEF LineInv
<1>. QED  BY <1>2, <1>3, <1>4, <1>5, <1>6, <1>13, <1>14 DEF LinkInv

(* Every tick preserves the invariant.                                       *)
LEMMA LinkStep == LinkWorks /\ LinkInv /\ [SimNext]_simVars => LinkInv'
<1>. SUFFICES ASSUME LinkWorks, LinkInv, [SimNext]_simVars PROVE LinkInv'
  OBVIOUS
<1>1. ASSUME NEW typed \in Typed, NEW a \in SimAccesses, typed = <<>> \/ a.op # "write",
             SimTick(a, typed)
      PROVE  LinkInv'
  <2>1. /\ RxTypeOK' /\ TxTypeOK' /\ EarTypeOK' /\ HostTypeOK' /\ RestTypeOK'
        /\ SocWell(lcr)' /\ HostWell' /\ lcr' = lcr
    BY <1>1, StepTypes
  <2>2. lcr.loopback => LoopInv'
    BY <1>1, LoopStep
  <2>3. ~lcr.loopback => LineInv'
    <3>1. SUFFICES ASSUME ~lcr.loopback PROVE LineInv'
      OBVIOUS
    <3>2. UnderWay' <= FIFO_DEPTH
      BY <1>1, <3>1, LineFits
    <3>3. EarInv'
      BY <1>1, <3>1, EarStep
    <3>4. /\ RxInv(HostPending)'
          /\ (flight # <<>> => HostCarries(flight[1]))'
          /\ (~HostOn => recv_state = 0)'
          /\ (HostOn => RxFollows(lcr, HostK, HostD))'
      BY <1>1, <3>1, LineRxStep
    <3>. QED  BY <3>2, <3>3, <3>4 DEF LineInv
  <2>. QED  BY <2>1, <2>2, <2>3 DEF LinkInv
<1>2. CASE UNCHANGED simVars
  <2>. USE <1>2 DEF simVars, rxHost, txHost, vars, rxVars, txVars
  <2>1. RxTypeOK' /\ TxTypeOK' /\ EarTypeOK' /\ HostTypeOK' /\ RestTypeOK' /\ SocWell(lcr)' /\ HostWell'
    BY DEF LinkInv, RxTypeOK, TxTypeOK, EarTypeOK, HostTypeOK, RestTypeOK, SocWell, HostWell
  <2>2. (SocOn' <=> SocOn) /\ (SocPending' <=> SocPending) /\ (HostOn' <=> HostOn) /\ (HostPending' <=> HostPending)
    BY DEF SocOn, SocPending, HostOn, HostPending
  <2>3. /\ RxInv(SocPending)' <=> RxInv(SocPending)
        /\ RxInv(HostPending)' <=> RxInv(HostPending)
    BY <2>2 DEF RxInv, Awaits, RxHolds, RxClean, Got
  <2>4. \A c : (SocCarries(c)' <=> SocCarries(c)) /\ (HostCarries(c)' <=> HostCarries(c)) /\ (EarHolds(c)' <=> EarHolds(c))
    BY DEF SocCarries, HostCarries, EarHolds
  <2>5. HostK' = HostK /\ HostD' = HostD /\ SocK(lcr)' = SocK(lcr) /\ SocD' = SocD
    BY DEF HostK, HostD, SocK, SocD, SocBit, LastBit, Par
  <2>6. /\ RxFollows(lcr, SocK(lcr), SocD)' <=> RxFollows(lcr, SocK(lcr), SocD)
        /\ RxFollows(lcr, HostK, HostD)' <=> RxFollows(lcr, HostK, HostD)
        /\ EarFollows(SocK(lcr), SocD)' <=> EarFollows(SocK(lcr), SocD)
    BY <2>5 DEF RxFollows, EarFollows, RxNext, EarNext, LastBit, Par
  <2>7. EarInv' <=> EarInv
    BY <2>2, <2>4, <2>6 DEF EarInv
  <2>8. UnderWay' = UnderWay
    BY DEF UnderWay
  <2>9. LoopInv => LoopInv'
    BY <2>2, <2>3, <2>4, <2>6 DEF LoopInv
  <2>10. LineInv => LineInv'
    BY <2>2, <2>3, <2>4, <2>6, <2>7, <2>8 DEF LineInv
  <2>. QED  BY <2>1, <2>9, <2>10 DEF LinkInv
<1>. QED  BY <1>1, <1>2 DEF SimNext

(* The invariant of the two ends of the line and of the loopback, on which   *)
(* the next two theorems rest: sender and receiver are in step.              *)
THEOREM LinkInvariant ==
  ASSUME LinkWorks
  PROVE  SimSpec => []LinkInv
<1>1. SimInit => LinkInv
  BY LinkInit
<1>2. LinkInv /\ [SimNext]_simVars => LinkInv'
  BY LinkStep
<1>. QED  BY <1>1, <1>2, PTL DEF SimSpec

(* The invariant has the types and the bounds that NoneLost states.          *)
LEMMA LinkTypes == LinkWorks /\ LinkInv => NoneLost
<1>. SUFFICES ASSUME LinkWorks, LinkInv PROVE NoneLost
  OBVIOUS
<1>1. RxTypeOK /\ TxTypeOK /\ EarTypeOK /\ HostTypeOK /\ RestTypeOK /\ HostWell
  BY DEF LinkInv
<1>2. AtMostOne(flight) /\ AtMostOne(air) /\ AtMostOne(bb_rx_fifo)
  BY <1>1 DEF LinkInv, LoopInv, LineInv, EarInv, RxInv, RestTypeOK, AtMostOne
<1>3. Len(flight) <= 1 /\ Len(air) <= 1 /\ Len(bb_rx_fifo) <= 1
  <2>1. PICK f \in {0, 1}, s \in {0, 1}, t \in {0, 1} :
          f = Len(flight) /\ s = Len(air) /\ t = Len(bb_rx_fifo)
    BY <1>2, OneOnly
  <2>2. f <= 1 /\ s <= 1 /\ t <= 1
    OBVIOUS
  <2>. QED  BY ONLY <2>1, <2>2
<1>4. TypeOK
  BY <1>1 DEF TypeOK, RxTypeOK, TxTypeOK, RestTypeOK
<1>5. SimTypeOK
  <2>1. {rx_wait, tx_wait} \subseteq 0 .. FR
    <3>1. rx_wait \in 0 .. FR
      BY <1>1 DEF EarTypeOK
    <3>2. tx_wait \in 0 .. FR
      BY <1>1 DEF HostTypeOK, HostWell, LinkWorks
    <3>. QED  BY <3>1, <3>2
  <2>. QED  BY <1>1, <1>3, <2>1 DEF SimTypeOK, EarTypeOK, HostTypeOK, RestTypeOK
<1>. QED  BY <1>3, <1>4, <1>5 DEF NoneLost, NothingLost

(* Nothing is lost on either way of the line (bitbang_uart.cpp,              *)
(* UART_core.v): no sender starts a character before the one before it has   *)
(* arrived, and every register keeps its range.                              *)
THEOREM LinkLosesNone ==
  ASSUME LinkWorks
  PROVE  SimSpec => []NoneLost
<1>1. LinkInv => NoneLost
  BY LinkTypes
<1>. QED  BY <1>1, LinkInvariant, PTL

(* Both ways of the line keep characters whole and in order: what the        *)
(* receiver of the SoC stores is the oldest character on its way, without a  *)
(* framing error, and what the simulator hears was sent by the program, bit  *)
(* for bit.                                                                  *)
THEOREM LinkDelivers ==
  ASSUME LinkWorks
  PROVE  SimSpec => BothDeliver
<1>1. LinkInv => (pushes => flight # <<>> /\ recv_pattern = flight[1] /\ ~recv_framing_error)
  <2>. SUFFICES ASSUME LinkInv, pushes
                PROVE  flight # <<>> /\ recv_pattern = flight[1] /\ ~recv_framing_error
    OBVIOUS
  <2>1. RxInv(SocPending) \/ RxInv(HostPending)
    BY DEF LinkInv, LoopInv, LineInv
  <2>2. recv_buf_valid
    BY DEF pushes, rx_we
  <2>. QED  BY <2>1, <2>2 DEF RxInv, RxClean
<1>2. LinkInv => (~lcr.loopback /\ hears => air # <<>> /\ rx_byte = air[1])
  BY DEF LinkInv, LineInv, EarInv, EarHolds, hears
<1>. QED  BY <1>1, <1>2, LinkInvariant, PTL DEF BothDeliver, Delivers, HostHears

-----------------------------------------------------------------------------
(* The FIFO of the UART in registers (FifoSync), for every depth and every   *)
(* entry type.  FifoInv: the registers keep their ranges, and the write      *)
(* pointer is count places ahead of the read pointer.                        *)
FifoInv == FifoTypeOK /\ PointersAgree

(* FifoInv is preserved by every clock edge and by reset. *)
LEMMA FifoInvStep == FifoInv /\ [FifoNext]_fifoVars => FifoInv'
<1> USE FifoAssumption
<1> SUFFICES ASSUME FifoInv, [FifoNext]_fifoVars PROVE FifoInv'
  OBVIOUS
<1> USE DEF FifoInv, FifoTypeOK, PointersAgree, Pointers, Entries, Slot
<1>1. CASE Reset
  BY <1>1 DEF Reset
<1>2. ASSUME NEW we \in BOOLEAN, NEW re \in BOOLEAN, NEW d \in Data,
             FifoClock(we, re, d)
      PROVE  FifoInv'
  <2>1. mem' \in [Entries -> Data]
    BY <1>2 DEF FifoClock
  <2>2. w_ptr' \in Pointers /\ r_ptr' \in Pointers
    BY <1>2 DEF FifoClock, Succ
  <2>3. count' \in 0 .. DEPTH
    BY <1>2 DEF FifoClock, full, empty
  <2>4. PointersAgree'
    BY <1>2 DEF FifoClock, full, empty, Succ
  <2>5. QED
    BY <2>1, <2>2, <2>3, <2>4
<1>3. CASE UNCHANGED fifoVars
  BY <1>3 DEF fifoVars
<1>4. QED
  BY <1>1, <1>2, <1>3 DEF FifoNext

LEMMA FifoInitInv == FifoInit => FifoInv
BY FifoAssumption
DEF FifoInit, FifoInv, FifoTypeOK, PointersAgree, Pointers, Entries, Slot

LEMMA FifoInvAlways == FifoSpec => []FifoInv
BY FifoInitInv, FifoInvStep, PTL DEF FifoSpec

(* The registers keep their types: an index never leaves the ring and the  *)
(* count never exceeds DEPTH, whatever is written and read.                *)
THEOREM FifoTypes == FifoSpec => []FifoTypeOK
<1>1. FifoInv => FifoTypeOK
  BY DEF FifoInv
<1>2. QED
  BY <1>1, FifoInvAlways, PTL

(* The pointers and the count of the FIFO always agree. *)
THEOREM PointersAlwaysAgree == FifoSpec => []PointersAgree
<1>1. FifoInv => PointersAgree
  BY DEF FifoInv
<1>2. QED
  BY <1>1, FifoInvAlways, PTL

-----------------------------------------------------------------------------
(* Different stored entries sit in different slots, inside the ring. *)
LEMMA SlotFacts ==
  ASSUME FifoInv
  PROVE  /\ \A i \in 0 .. count : Slot(i) \in Pointers
         /\ \A i \in 0 .. count - 1 :
              count < WRAP => Slot(i) # Slot(count)
BY FifoAssumption DEF FifoInv, FifoTypeOK, Pointers, Slot

(* An accepted write appends. *)
LEMMA EnqAppends ==
  ASSUME FifoInv, DEPTH = WRAP, ~full,
         NEW d \in Data,
         mem' = [mem EXCEPT ![w_ptr] = d],
         UNCHANGED r_ptr, count' = count + 1
  PROVE  Contents' = [i \in 0 .. count' - 1 |->
                        IF i = count THEN d ELSE Contents[i]]
<1> USE FifoAssumption DEF FifoInv, FifoTypeOK, PointersAgree, Pointers, Entries
<1>1. count < DEPTH /\ count \in Nat
  BY DEF full
<1>2. ASSUME NEW i \in 0 .. count
      PROVE  mem'[Slot(i)] = IF i = count THEN d ELSE Contents[i]
  <2>1. Slot(i) \in Entries
    BY SlotFacts
  <2>2. CASE i = count
    BY <2>1, <2>2
  <2>3. CASE i # count
    <3>1. i \in 0 .. count - 1 /\ Slot(i) # Slot(count)
      BY <2>3, <1>1, SlotFacts
    <3>2. mem'[Slot(i)] = mem[Slot(i)]
      BY <2>1, <3>1
    <3>3. QED
      BY <3>1, <3>2, <2>3 DEF Contents
  <2>4. QED
    BY <2>2, <2>3
<1>3. \A i : Slot(i)' = Slot(i)
  BY DEF Slot
<1>4. Contents' = [i \in 0 .. count' - 1 |-> mem'[Slot(i)]]
  BY <1>3 DEF Contents
<1>5. 0 .. count' - 1 = 0 .. count
  BY <1>1
<1>6. QED
  BY <1>2, <1>4, <1>5

(* An accepted read removes the oldest entry. *)
LEMMA DeqShifts ==
  ASSUME FifoInv, ~empty,
         UNCHANGED mem, r_ptr' = Succ(r_ptr), count' = count - 1
  PROVE  Contents' = [i \in 0 .. count' - 1 |-> Contents[i + 1]]
<1> USE FifoAssumption DEF FifoInv, FifoTypeOK, Pointers, Entries
<1>1. \A i \in 0 .. count - 2 : Slot(i)' = Slot(i + 1)
  BY DEF Slot, Succ, empty
<1>2. QED
  BY <1>1 DEF Contents, empty

(* A simultaneous read and write does both. *)
LEMMA EnqDeqRotates ==
  ASSUME FifoInv, DEPTH = WRAP, ~empty, ~full,
         NEW d \in Data,
         mem' = [mem EXCEPT ![w_ptr] = d],
         r_ptr' = Succ(r_ptr), count' = count
  PROVE  Contents' = [i \in 0 .. count' - 1 |->
                        IF i = count - 1 THEN d ELSE Contents[i + 1]]
<1> USE FifoAssumption DEF FifoInv, FifoTypeOK, PointersAgree, Pointers, Entries
<1>1. count < DEPTH /\ count \in Nat \ {0}
  BY DEF full, empty
<1>2. \A i \in 0 .. count - 1 : Slot(i)' = Slot(i + 1)
  BY <1>1 DEF Slot, Succ
<1>3. ASSUME NEW i \in 0 .. count - 1
      PROVE  mem'[Slot(i + 1)] =
               IF i = count - 1 THEN d ELSE Contents[i + 1]
  <2>1. Slot(i + 1) \in Entries
    BY <1>1, SlotFacts
  <2>2. CASE i = count - 1
    BY <2>1, <2>2, <1>1
  <2>3. CASE i # count - 1
    <3>1. i + 1 \in 0 .. count - 1 /\ Slot(i + 1) # Slot(count)
      BY <2>3, <1>1, SlotFacts
    <3>2. mem'[Slot(i + 1)] = mem[Slot(i + 1)]
      BY <2>1, <3>1
    <3>3. QED
      BY <3>1, <3>2, <2>3 DEF Contents
  <2>4. QED
    BY <2>2, <2>3
<1>4. Contents' = [i \in 0 .. count - 1 |-> mem'[Slot(i)']]
  BY DEF Contents
<1>5. QED
  BY <1>2, <1>3, <1>4

-----------------------------------------------------------------------------
(* With a power-of-two depth the FIFO implements the bounded queue: each   *)
(* clock edge is a Put, a Take, both at once, a Clear or nothing.          *)
THEOREM FifoImplementsQueue ==
  ASSUME DEPTH = WRAP
  PROVE  FifoSpec => ImplementsQueue
<1> USE DEF Queue!Put, Queue!Take, Queue!PutTake, Queue!Clear
<1>1. FifoInit => Queue!Init
  BY FifoAssumption DEF FifoInit, Queue!Init, Contents
<1>2. FifoInv /\ [FifoNext]_fifoVars => [Queue!Next]_(Queue!qvars)
  <2> SUFFICES ASSUME FifoInv, [FifoNext]_fifoVars
               PROVE  [Queue!Next]_(Queue!qvars)
    OBVIOUS
  <2>1. CASE Reset
    <3>1. Queue!Clear
      BY <2>1 DEF Reset, Contents
    <3>2. QED
      BY <3>1 DEF Queue!Next
  <2>2. ASSUME NEW we \in BOOLEAN, NEW re \in BOOLEAN, NEW d \in Data,
               FifoClock(we, re, d)
        PROVE  [Queue!Next]_(Queue!qvars)
    <3>0. count \in 0 .. DEPTH
      BY DEF FifoInv, FifoTypeOK
    <3>1. CASE we /\ ~full /\ re /\ ~empty
      <4>1. /\ mem' = [mem EXCEPT ![w_ptr] = d]
            /\ r_ptr' = Succ(r_ptr) /\ count' = count
        BY <2>2, <3>1 DEF FifoClock
      <4>2. Contents' = [i \in 0 .. count' - 1 |->
                           IF i = count - 1 THEN d ELSE Contents[i + 1]]
        BY <3>1, <4>1, EnqDeqRotates
      <4>3. count > 0 /\ count < DEPTH
        BY <3>0, <3>1, FifoAssumption DEF full, empty
      <4>4. Queue!PutTake(d)
        BY <4>1, <4>2, <4>3
      <4>5. QED
        BY <4>4 DEF Queue!Next
    <3>2. CASE we /\ ~full /\ ~(re /\ ~empty)
      <4>1. /\ mem' = [mem EXCEPT ![w_ptr] = d]
            /\ UNCHANGED r_ptr /\ count' = count + 1
        BY <2>2, <3>2 DEF FifoClock
      <4>2. Contents' = [i \in 0 .. count' - 1 |->
                           IF i = count THEN d ELSE Contents[i]]
        BY <3>2, <4>1, EnqAppends
      <4>3. count < DEPTH
        BY <3>0, <3>2, FifoAssumption DEF full
      <4>4. Queue!Put(d)
        BY <4>1, <4>2, <4>3
      <4>5. QED
        BY <4>4 DEF Queue!Next
    <3>3. CASE ~(we /\ ~full) /\ re /\ ~empty
      <4>1. /\ UNCHANGED mem
            /\ r_ptr' = Succ(r_ptr) /\ count' = count - 1
        BY <2>2, <3>3 DEF FifoClock
      <4>2. Contents' = [i \in 0 .. count' - 1 |-> Contents[i + 1]]
        BY <3>3, <4>1, DeqShifts
      <4>3. count > 0
        BY <3>0, <3>3 DEF empty
      <4>4. Queue!Take
        BY <4>1, <4>2, <4>3
      <4>5. QED
        BY <4>4 DEF Queue!Next
    <3>4. CASE ~(we /\ ~full) /\ ~(re /\ ~empty)
      BY <2>2, <3>4 DEF FifoClock, Queue!qvars, Contents, Slot
    <3>5. QED
      BY <3>1, <3>2, <3>3, <3>4
  <2>3. CASE UNCHANGED fifoVars
    BY <2>3 DEF fifoVars, Queue!qvars, Contents, Slot
  <2>4. QED
    BY <2>1, <2>2, <2>3 DEF FifoNext
<1>3. QED
  BY <1>1, <1>2, FifoInvAlways, PTL DEF FifoSpec, ImplementsQueue, Queue!Spec
=============================================================================
