------------------------------- MODULE SpiCore -------------------------------
(***************************************************************************)
(* The shift engine of the SPI master (rtl/uncore/spi/SPI_core.v): the     *)
(* clock, the two shift registers and the delays around a transfer.        *)
(* SpiClock is one rising edge of the system clock.  A byte is any value;  *)
(* bit i of byte b is <<b, i>>, so that a register shows whose bits it     *)
(* holds and in which order, most significant first.                       *)
(***************************************************************************)
EXTENDS Integers, Sequences, SequencesExt

CONSTANT WIDTH        \* bits in a byte: 8 in the hardware

ASSUME SpiCoreAssumption == WIDTH \in Nat \ {0}

VARIABLES
  spi_state, divcnt, bits_remaining, tx_shiftreg, rx_shiftreg, delay_ctr,
  sck,
  core_cs       \* low, 0, from the first clock of a transfer to its last

spiCore == <<spi_state, divcnt, bits_remaining, tx_shiftreg, rx_shiftreg, delay_ctr, sck, core_cs>>

Bits(b) == [i \in 1 .. WIDTH |-> <<b, i>>]

(* The byte a register holds, when it holds the bits of one in order.      *)
IsByte(reg) == \A i \in 1 .. WIDTH : reg[i] = <<reg[1][1], i>>
ByteOf(reg) == reg[1][1]

Flip(level) == 1 - level

mosi(lsb) == IF lsb THEN tx_shiftreg[WIDTH] ELSE tx_shiftreg[1]

(* What is shifted in behind the last bit of the byte does not matter. *)
Blank == <<0, 0>>
Shifted(reg, bit, lsb) == IF lsb THEN <<bit>> \o Front(reg) ELSE Append(Tail(reg), bit)

SpiCoreInit ==
  /\ spi_state = "IDLE" /\ divcnt = 0 /\ bits_remaining = 0 /\ delay_ctr = 0
  /\ tx_shiftreg = Bits(0) /\ rx_shiftreg = Bits(0)
  /\ sck = 0 /\ core_cs = 1

(* The phase of the clock with which the first bit starts. *)
FirstEdge(cfg) == IF cfg.pha THEN Flip(sck) ELSE sck

(* divcnt runs on in IDLE, where nothing reads it; it is kept at 0 here.   *)
SpiIdle(cfg, we, b) ==
  /\ spi_state = "IDLE"
  /\ divcnt' = 0
  /\ IF cfg.en /\ we
     THEN /\ tx_shiftreg' = Bits(b) /\ bits_remaining' = WIDTH - 1 /\ core_cs' = 0
          /\ IF cfg.post = 0
             THEN spi_state' = "XFER" /\ sck' = FirstEdge(cfg) /\ UNCHANGED delay_ctr
             ELSE spi_state' = "POST" /\ delay_ctr' = cfg.post - 1 /\ sck' = cfg.pol
     ELSE sck' = cfg.pol /\ UNCHANGED <<spi_state, tx_shiftreg, bits_remaining, core_cs, delay_ctr>>
  /\ UNCHANGED rx_shiftreg

SpiCount(cfg) ==
  /\ spi_state # "IDLE" /\ divcnt # cfg.sckdiv
  /\ divcnt' = divcnt + 1
  /\ sck' = IF spi_state = "XFER" /\ divcnt = cfg.sckdiv \div 2 THEN Flip(sck) ELSE sck
  /\ UNCHANGED <<spi_state, bits_remaining, tx_shiftreg, rx_shiftreg, delay_ctr, core_cs>>

SpiPost(cfg) ==
  /\ spi_state = "POST" /\ divcnt = cfg.sckdiv
  /\ divcnt' = 0
  /\ IF delay_ctr = 0
     THEN spi_state' = "XFER" /\ sck' = FirstEdge(cfg) /\ UNCHANGED delay_ctr
     ELSE delay_ctr' = delay_ctr - 1 /\ UNCHANGED <<spi_state, sck>>
  /\ UNCHANGED <<bits_remaining, tx_shiftreg, rx_shiftreg, core_cs>>

LastBit == bits_remaining = 0

(* The end of a bit. *)
SpiBit(cfg, miso) ==
  /\ spi_state = "XFER" /\ divcnt = cfg.sckdiv
  /\ divcnt' = 0
  /\ tx_shiftreg' = Shifted(tx_shiftreg, Blank, cfg.lsb)
  /\ rx_shiftreg' = Shifted(rx_shiftreg, miso, cfg.lsb)
  /\ IF ~LastBit
     THEN bits_remaining' = bits_remaining - 1 /\ sck' = Flip(sck)
          /\ UNCHANGED <<spi_state, core_cs, delay_ctr>>
     ELSE /\ sck' = cfg.pol
          /\ IF cfg.pre = 0
             THEN spi_state' = "IDLE" /\ core_cs' = 1 /\ UNCHANGED delay_ctr
             ELSE spi_state' = "PRE" /\ delay_ctr' = cfg.pre - 1 /\ UNCHANGED core_cs
          /\ UNCHANGED bits_remaining

SpiPre(cfg) ==
  /\ spi_state = "PRE" /\ divcnt = cfg.sckdiv
  /\ divcnt' = 0
  /\ IF delay_ctr = 0
     THEN spi_state' = "IDLE" /\ core_cs' = 1 /\ UNCHANGED delay_ctr
     ELSE delay_ctr' = delay_ctr - 1 /\ UNCHANGED <<spi_state, core_cs>>
  /\ UNCHANGED <<bits_remaining, tx_shiftreg, rx_shiftreg, sck>>

(* cfg: the registers of the controller; we, b: a write to its transmit    *)
(* register.                                                               *)
SpiClock(cfg, we, b, miso) ==
  \/ SpiIdle(cfg, we, b)
  \/ SpiCount(cfg)
  \/ SpiPost(cfg)
  \/ SpiBit(cfg, miso)
  \/ SpiPre(cfg)
=============================================================================
