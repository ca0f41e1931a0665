--------------------------------- MODULE Boot --------------------------------
(***************************************************************************)
(* The boot loader: main.c and target/hydrogensoc/boot.c of sw/bootloader  *)
(* choose by the boot mode pins between a program in the flash memory      *)
(* (flashboot.c, over the SPI controller of Spi), one that comes over the  *)
(* UART (uartboot.c, the receiver of Xmodem) and one that is in memory     *)
(* already.                                                                *)
(***************************************************************************)
EXTENDS Xmodem, Spi

CONSTANTS
  Modes,        \* what the two boot mode pins may say
  SIM,          \* built for the simulator
  SpiConfigs,   \* [sckdiv, pol, pha, lsb, post, pre]: what spi_init is given
  FlashIds,     \* manufacturers; 0 and 255 when there is no flash memory
  FlashImage    \* what is in the flash memory at FLASH_IMG_OFFSET

ASSUME BootAssumption ==
  /\ Modes \subseteq 0 .. 3 /\ SIM \in BOOLEAN /\ FlashIds \subseteq Byte
  /\ FlashImage \in [0 .. ROOM - 1 -> Byte]
  /\ SpiConfigs \subseteq
       [sckdiv : Nat \ {0}, pol : {0, 1}, pha : BOOLEAN, lsb : BOOLEAN, post : Nat, pre : Nat]

VARIABLES
  bpc,          \* where the boot loader is; "panic" is boot_panic and exit,
                \*   and so is "returned"
  bootmode,     \* the pins
  spicfg, flash_id,
  fpos,         \* flashboot: the next step
  fgot          \* the bytes it has read

bootVars == <<bpc, bootmode, spicfg, flash_id, fpos, fgot>>
allVars == <<vars, spiVars, bootVars>>

FLASHBOOT == 0
JUMP_TO_RAM == 1
UARTBOOT == 2
INF_LOOP == 3

-----------------------------------------------------------------------------
(* The flash memory: identifies itself, and reads from an address on until *)
(* it is deselected.                                                       *)
READID == 159
READ == 3
ImgOffset == <<12, 0, 0>>

NoFlash == flash_id \in {0, 255}

Respond(in) ==
  IF NoFlash THEN flash_id
  ELSE IF in = <<>> THEN 255
  ELSE IF in[1] = Bits(READID) THEN flash_id
  ELSE LET at == Len(in) - 4
       IN  IF /\ at \in DOMAIN FlashImage
              /\ SubSeq(in, 1, 4) = <<Bits(READ)>> \o [i \in 1 .. 3 |-> Bits(ImgOffset[i])]
           THEN FlashImage[at] ELSE 255

-----------------------------------------------------------------------------
(* flashboot.                                                              *)
CheckId == [reg |-> "check"]

(* spi_transfer for each of the bytes. *)
Transfers(bytes) ==
  LET steps == Len(spi_transfer(0))
  IN  [n \in 1 .. steps * Len(bytes) |->
         spi_transfer(bytes[1 + (n - 1) \div steps])[1 + ((n - 1) % steps)]]

flashgetid == spi_select \o Transfers(<<READID, 0>>) \o spi_deselect

flashcpy ==
  spi_select \o Transfers(<<READ>> \o ImgOffset \o [i \in 1 .. ROOM |-> 0]) \o spi_deselect

flashboot ==
  spi_init(spicfg, "disable", 0) \o flashgetid \o <<CheckId>> \o flashcpy
    \o spi_init(spicfg, "auto", 1)

Before == 6     \* bytes exchanged before the first one of the image

(* A register whose bits are of several bytes is no byte anybody sent. *)
Value(reg) == IF IsByte(reg) THEN ByteOf(reg) ELSE 256

FlashAccess == bpc = "flash" /\ fpos \in DOMAIN flashboot /\ flashboot[fpos] # CheckId

FlashRequests ==
  /\ FlashAccess
  /\ Requests(flashboot[fpos], Respond(<<>>), Respond(dev_in))
  /\ UNCHANGED <<vars, bootVars>>

(* A poll that finds the controller busy is repeated; what is read is kept.*)
FlashAcknowledged ==
  /\ FlashAccess
  /\ Acknowledged(flashboot[fpos], Respond(<<>>), Respond(dev_in))
  /\ fpos' = IF flashboot[fpos] = Poll /\ spi_busy THEN fpos ELSE fpos + 1
  /\ IF flashboot[fpos] = Read
     THEN /\ fgot' = Append(fgot, Value(rx_shiftreg))
          /\ mem' = IF Len(fgot) < Before THEN mem
                    ELSE [mem EXCEPT ![Len(fgot) - Before] = Value(rx_shiftreg)]
     ELSE UNCHANGED <<fgot, mem>>
  /\ UNCHANGED <<rpc, pings, packetnum, pkt, sender, toBoard, toHost, faults,
                 bpc, bootmode, spicfg, flash_id>>

FlashComputes ==
  /\ bpc = "flash"
  /\ Computes(Respond(<<>>), Respond(dev_in))
  /\ UNCHANGED <<vars, bootVars>>

Usable(id) == id \notin {0, 255}

(* The manufacturer was the second byte. *)
FlashChecked ==
  /\ bpc = "flash" /\ fpos \in DOMAIN flashboot /\ flashboot[fpos] = CheckId
  /\ IF Usable(fgot[2])
     THEN fpos' = fpos + 1 /\ UNCHANGED bpc
     ELSE bpc' = "panic" /\ UNCHANGED fpos
  /\ UNCHANGED <<vars, spiVars, bootmode, spicfg, flash_id, fgot>>

FlashDone ==
  /\ bpc = "flash" /\ fpos > Len(flashboot)
  /\ bpc' = "return"
  /\ UNCHANGED <<vars, spiVars, bootmode, spicfg, flash_id, fpos, fgot>>

Flashboot == FlashRequests \/ FlashAcknowledged \/ FlashChecked \/ FlashDone

-----------------------------------------------------------------------------
(* platform_init and main.                                                 *)
BootGoes(from, to) ==
  /\ bpc = from /\ bpc' = to
  /\ UNCHANGED <<bootmode, spicfg, flash_id, fpos, fgot>>

(* Mutant of Target: the cases of flash and RAM are swapped. *)
TargetSwapped(pins) ==
  CASE pins = JUMP_TO_RAM -> "flash"
    [] pins = FLASHBOOT   -> "return"
    [] pins = UARTBOOT    -> "uart"
    [] OTHER              -> "loop"

Target(pins) ==
  CASE pins = FLASHBOOT   -> "flash"
    [] pins = JUMP_TO_RAM -> "return"
    [] pins = UARTBOOT    -> "uart"
    [] OTHER              -> "loop"

PlatformInit == BootGoes("start", Target(bootmode)) /\ UNCHANGED <<vars, spiVars>>

(* uartboot runs the receiver, and panics unless it succeeds. *)
Uartboot ==
  /\ bpc = "uart" /\ ~Stopped
  /\ Receiver
  /\ UNCHANGED <<spiVars, bootVars>>

UartbootReturns ==
  /\ Stopped
  /\ BootGoes("uart", IF rpc # "booted" THEN "panic" ELSE IF SIM THEN "return" ELSE "key")
  /\ UNCHANGED <<vars, spiVars>>

(* serial_read until ENTER; it drops the other characters.                 *)
CR == 13
WaitForKey ==
  /\ bpc = "key" /\ toBoard # <<>>
  /\ toBoard' = Tail(toBoard)
  /\ bpc' = IF Head(toBoard) = CR THEN "return" ELSE "key"
  /\ UNCHANGED <<receiver, sender, toHost, faults, spiVars, bootmode, spicfg, flash_id, fpos, fgot>>

(* main calls the program at the address platform_init returns, and panics *)
(* should it come back.                                                    *)
Jump == BootGoes("return", "app") /\ UNCHANGED <<vars, spiVars>>
AppReturns == BootGoes("app", "returned") /\ UNCHANGED <<vars, spiVars>>

(* The user presses ENTER. *)
PressEnter ==
  /\ bpc = "key" /\ CR \notin Range(toBoard)
  /\ toBoard' = Append(toBoard, CR)
  /\ UNCHANGED <<receiver, sender, toHost, faults, spiVars, bootVars>>

HostSends == bootmode = UARTBOOT /\ Sender /\ UNCHANGED <<spiVars, bootVars>>

Board ==
  \/ PlatformInit \/ Flashboot \/ Uartboot \/ UartbootReturns \/ WaitForKey \/ Jump

-----------------------------------------------------------------------------
BootInit ==
  /\ Init /\ SpiInit
  /\ bpc = "start" /\ bootmode \in Modes
  /\ spicfg \in SpiConfigs /\ flash_id \in FlashIds
  /\ fpos = 1 /\ fgot = <<>>
  /\ bootmode # UARTBOOT =>
       /\ file = CHOOSE f \in Files : TRUE
       /\ spc = CHOOSE s \in Senders : TRUE
       /\ toBoard = CHOOSE n \in Noise : TRUE
  /\ bootmode # FLASHBOOT =>
       /\ spicfg = CHOOSE c \in SpiConfigs : TRUE
       /\ flash_id = CHOOSE i \in FlashIds : TRUE

BootNext == Board \/ FlashComputes \/ HostSends \/ AppReturns \/ PressEnter

(* The processor and the host keep running; the user need not press ENTER. *)
BootSpec == BootInit /\ [][BootNext]_allVars /\ WF_allVars(Board) /\ WF_allVars(HostSends)

-----------------------------------------------------------------------------
BootTypeOK ==
  /\ TypeOK
  /\ bpc \in {"start", "flash", "uart", "loop", "key", "return", "app", "returned", "panic"}
  /\ spi_state \in {"IDLE", "POST", "XFER", "PRE"} /\ bits_remaining \in 0 .. WIDTH - 1
  /\ {sck, core_cs, beat} \subseteq {0, 1}
  /\ fpos \in 1 .. Len(flashboot) + 1

Started == bpc \in {"key", "return", "app", "returned"}

(* A program that is started is the whole program from where the pins say  *)
(* it comes: the flash memory, the sender on the host, or memory as it was *)
(* (bootloader.rst 30-42).                                                 *)
StartsWhole ==
  Started =>
    CASE bootmode = FLASHBOOT -> ~NoFlash /\ mem = FlashImage
      [] bootmode = UARTBOOT  -> Len(file) <= ROOM /\ Stored(Len(file))
      [] OTHER                -> bootmode = JUMP_TO_RAM /\ mem = [i \in 0 .. ROOM - 1 |-> 0]

StartsImage == BootTypeOK /\ StartsWhole

(* When spi_transfer reads what it has received, the slave has got exactly *)
(* what was sent since it was selected, no bit is on the way, and the byte *)
(* read is the one the slave meant (spi.h: "Transfer a byte of data (Send  *)
(* as well as recieve)").                                                  *)
ExchangesWhole ==
  FlashAccess /\ flashboot[fpos] = Read /\ beat = 1 =>
    dev_in = sent /\ dev_bits = <<>> /\ rx_shiftreg = expected

(* On a quiet line a transfer that finds a sender succeeds, both sides     *)
(* know it, and the board then only waits for ENTER.                       *)
BootCompletes ==
  bootmode = UARTBOOT /\ spc = "sync" =>
    <>(faults > 0 \/ (bpc \in {"key", "return", "app", "returned"} /\ spc = "done"))

(* Booting ends, whatever the line, the flash memory and the sender do.    *)
BootEnds == <>(bpc \in {"app", "returned", "panic", "loop", "key"})
=============================================================================
