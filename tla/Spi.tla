--------------------------------- MODULE Spi ---------------------------------
(***************************************************************************)
(* The SPI controller on the bus (rtl/uncore/spi/SPI_wb.v, with one chip   *)
(* select), the accesses its driver is made of                             *)
(* (sw/lib/libcatom/hydrogensoc/spi.c) and the slave at the other end of   *)
(* the wires.  An access lasts two clocks, and the program may spend any   *)
(* number of clocks before it.                                             *)
(***************************************************************************)
EXTENDS SpiCore

VARIABLES
  regs,         \* SCKDIV, SCTRL, CSCTRL and DCTRL
  beat,         \* 1 in the second clock of an access, 0 otherwise
  dev_in,       \* the slave: the bytes it got since it was selected,
  dev_bits,     \*   the bits of the next one,
  dev_out,      \*   and the bits it has to send, the first one on MISO
  sent,         \* history: what the driver wrote since it selected,
  expected      \*   and what the slave means it to read last

slave == <<dev_in, dev_bits, dev_out>>
spiVars == <<spiCore, regs, beat, slave, sent, expected>>

Reset ==
  [sckdiv |-> 1, en |-> FALSE, pol |-> 0, pha |-> FALSE, lsb |-> FALSE,
   acs |-> 1, csmode |-> "auto", post |-> 1, pre |-> 1]

(* The line to the slave. *)
cs(r, core) ==
  CASE r.csmode = "auto"    -> IF r.acs = 1 THEN core ELSE 0
    [] r.csmode = "disable" -> Flip(r.acs)
    [] OTHER                -> 1
cs_o == cs(regs, core_cs)

spi_busy == core_cs = 0

-----------------------------------------------------------------------------
(* The accesses of the driver.                                             *)
Poll      == [reg |-> "busy"]                  \* while(_spi_busy());
Data(b)   == [reg |-> "tdata", b |-> b]
Read      == [reg |-> "rdata"]
Set(to)   == [reg |-> "set", to |-> to]

spi_init(c, mode, active) ==
  << Poll, Set([sckdiv |-> c.sckdiv]),
     Set([en |-> TRUE, pol |-> c.pol, pha |-> c.pha, lsb |-> c.lsb]),
     Set([csmode |-> mode, acs |-> active]), Set([post |-> c.post, pre |-> c.pre]) >>

(* Mutant of spi_transfer: the driver does not wait. *)
TransferBlind(b) == <<Data(b), Read>>
spi_transfer(b)  == <<Data(b), Poll, Read>>

spi_select   == <<Set([acs |-> 1])>>
spi_deselect == <<Set([acs |-> 0])>>

-----------------------------------------------------------------------------
(* The slave: a shift register in the mode of the controller.  first is    *)
(* the byte it sends when it is selected, next the one after dev_in.       *)
Leading  == sck = regs.pol /\ sck' # regs.pol
Trailing == sck # regs.pol /\ sck' = regs.pol

Wire(b) == IF regs.lsb THEN Reverse(Bits(b)) ELSE Bits(b)
Received(bits) == IF regs.lsb THEN Reverse(bits) ELSE bits

Samples == IF regs.pha THEN Trailing ELSE Leading
Shifts  == IF regs.pha THEN Leading ELSE Trailing

Sampled == Append(dev_bits, mosi(regs.lsb))

SlaveClock(first, next) ==
  LET before == cs_o
      after == cs(regs', core_cs')
      starts == before = 1 /\ after = 0
  IN  CASE after = 1 ->
             dev_in' = <<>> /\ dev_bits' = <<>> /\ dev_out' = <<Blank>>
        [] starts ->
             /\ dev_in' = <<>> /\ dev_bits' = <<>>
             /\ dev_out' = (IF regs.pha THEN <<Blank>> ELSE <<>>) \o Wire(first)
        [] OTHER ->
             /\ IF Samples
                THEN IF Len(Sampled) = WIDTH
                     THEN dev_in' = Append(dev_in, Received(Sampled)) /\ dev_bits' = <<>>
                     ELSE dev_bits' = Sampled /\ UNCHANGED dev_in
                ELSE UNCHANGED <<dev_in, dev_bits>>
             /\ dev_out' = IF ~Shifts THEN dev_out
                           ELSE IF Len(dev_out) > 1 THEN Tail(dev_out) ELSE Wire(next)

-----------------------------------------------------------------------------
SpiInit ==
  /\ SpiCoreInit /\ regs = Reset /\ beat = 0
  /\ dev_in = <<>> /\ dev_bits = <<>> /\ dev_out = <<Blank>>
  /\ sent = <<>> /\ expected = Bits(0)

(* One clock in which the bus carries the access a, if there is one.  Both *)
(* clocks of a write are writes to the registers; TDATA is taken by an     *)
(* idle shift engine only.                                                 *)
SpiTick(a, first, next) ==
  /\ SpiClock(regs, a.reg = "tdata", IF a.reg = "tdata" THEN a.b ELSE 0, Head(dev_out))
  /\ regs' = IF a.reg = "set" THEN [f \in DOMAIN regs |-> IF f \in DOMAIN a.to THEN a.to[f] ELSE regs[f]]
             ELSE regs
  /\ SlaveClock(first, next)

None_ == [reg |-> "none"]

(* The program computes. *)
Computes(first, next) ==
  /\ beat = 0
  /\ SpiTick(None_, first, next)
  /\ UNCHANGED <<beat, sent, expected>>

(* The first clock of an access. *)
Requests(a, first, next) ==
  /\ beat = 0 /\ beat' = 1
  /\ SpiTick(a, first, next)
  /\ IF a.reg = "tdata"
     THEN sent' = Append(sent, Bits(a.b)) /\ expected' = Bits(next)
     ELSE /\ sent' = IF a.reg = "set" /\ "acs" \in DOMAIN a.to THEN <<>> ELSE sent
          /\ UNCHANGED expected

(* The second one, in which reads see the registers. *)
Acknowledged(a, first, next) ==
  /\ beat = 1 /\ beat' = 0
  /\ SpiTick(a, first, next)
  /\ UNCHANGED <<sent, expected>>
=============================================================================
