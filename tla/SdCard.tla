------------------------------- MODULE SdCard -------------------------------
(***************************************************************************)
(* The SD card driver (sw/lib/libcatom/hydrogensoc/sd.c) and the card.  A  *)
(* step is one exchange of a byte over SPI (the transfer of Spi), with the *)
(* six bytes of a command taken together.  The card is what the driver     *)
(* expects at the other end: it may be missing, old, slow, refuse a block, *)
(* or lose its power or its contact at any moment.                         *)
(***************************************************************************)
EXTENDS Integers, Sequences, SequencesExt

CONSTANTS
  NUM_ATTEMPTS,             \* SD_NUM_ATTEMPTS
  MAX_READ, MAX_WRITE,      \* SD_MAX_READ_ATTEMPTS, SD_MAX_WRITE_ATTEMPTS
  BLOCK_LEN,                \* SD_BLOCK_LEN
  R1Tries,                  \* ntry of sdc_read_res1
  U8,                       \* values of a uint8_t
  Kinds,                    \* cards: "v2", "v1", "late" (too late to be heard),
                            \*   "low" (MISO stuck), "none"
  Delays,                   \* bytes a card may let pass before it answers
  IdleAfter, ReadyAfter,    \* CMD0s and ACMD41s a card may need
  Blocks,                   \* what the card holds: address -> bytes
  Written,                  \* what is written
  MaxCalls, MaxFaults       \* bounds

ASSUME SdCardAssumption ==
  /\ {NUM_ATTEMPTS, R1Tries, MaxCalls, MaxFaults} \subseteq Nat
  /\ {MAX_READ, MAX_WRITE} \subseteq Nat /\ MAX_READ > 1
  /\ BLOCK_LEN \in Nat \ {0, 1} /\ U8 \in Nat
  /\ Kinds \subseteq {"v2", "v1", "late", "low", "none"}
  /\ Delays \subseteq Nat
  /\ \A d \in Delays : d <= R1Tries /\ d < MAX_READ - 1
  /\ IdleAfter \subseteq Nat \ {0} /\ ReadyAfter \subseteq Nat \ {0}
  /\ NUM_ATTEMPTS < U8 - 1                        \* as 10 < 255,
  /\ MAX_WRITE >= U8 /\ MAX_READ >= U8           \*   3907 >= 256, 1563 >= 256
  /\ 0 \in DOMAIN Blocks
  /\ Blocks \in [DOMAIN Blocks -> {s \in Seq(0 .. 255) : Len(s) = BLOCK_LEN}]
  /\ Written \in Seq(0 .. 255) /\ Len(Written) = BLOCK_LEN

VARIABLES
  call,         \* the function that runs, or ran last
  addr,         \* its parameter
  at,           \* how far it is; "return" when it has returned
  cmd,          \* the command of sdc_cmd
  ntries, ntry, readAttempts,
  res,          \* the response
  i,            \* bytes read or written so far in a loop
  read, buf, token,
  ret,          \* what it returned
  selected,
  card,
  calls, faults, \* how many there were
  before        \* history: [faults, blocks] when the call began

driver == <<call, addr, at, cmd, ntries, ntry, readAttempts, res, i, read, buf, token, ret>>
vars == <<driver, selected, card, calls, faults, before>>

SD_SUCCESS == 0
SD_ERR_UNKNOWN_CARD == 1
SD_ERR_MAYBE_VER1CARD == 2
SD_START_TOKEN == 254
SD_DATA_ACCEPTED == 5
FF == 255

-----------------------------------------------------------------------------
(* The card.                                                               *)
NoOutput == <<>>
NewCard(kind, blocks) ==
  [kind |-> kind, power |-> "off", clocked |-> FALSE, cmd0s |-> 0, acmds |-> 0,
   idleAfter |-> 1, readyAfter |-> 1,
   app |-> FALSE, out |-> NoOutput, takes |-> "cmd", data |-> <<>>, blocks |-> blocks]

miso ==
  IF ~selected \/ card.kind = "none" THEN FF
  ELSE IF card.kind = "low" THEN 0
  ELSE IF card.out = NoOutput THEN FF ELSE Head(card.out)

R1(c) == IF c.power = "idle" THEN 1 ELSE 0
IllegalCommand == 4

(* What it makes of a command, and all it may answer.                      *)
Reacts(c) ==
  CASE cmd = 0 -> IF card.clocked /\ card.cmd0s + 1 >= card.idleAfter
                  THEN [card EXCEPT !.power = "idle", !.cmd0s = 0, !.acmds = 0, !.app = FALSE]
                  ELSE [card EXCEPT !.cmd0s = IF card.clocked THEN @ + 1 ELSE @]
    [] cmd = 55 -> [card EXCEPT !.app = card.power # "off"]
    [] cmd = 41 -> IF ~card.app THEN card
                   ELSE [card EXCEPT !.app = FALSE, !.acmds = @ + 1,
                           !.power = IF card.acmds + 1 >= card.readyAfter THEN "ready" ELSE @]
    [] cmd = 24 -> [card EXCEPT !.takes = IF card.power = "ready" THEN "token" ELSE @]
    [] OTHER    -> card

Silence(n) == [k \in 1 .. n |-> FF]
DelaysOf(c) == IF c.kind = "late" THEN {R1Tries + 1} ELSE Delays
Late(bytes) == {Silence(n) \o bytes : n \in DelaysOf(card)}

(* A block is sent after a token, or an error token is, or both are too    *)
(* late; CRC16 follows.                                                    *)
SendsBlock ==
  {<<0>> \o Silence(n) \o <<SD_START_TOKEN>> \o card.blocks[0] \o <<7, 7>> :
     n \in Delays \union {MAX_READ}}
    \union {<<0>> \o late : late \in Late(<<8>>)}

Answers(c) ==
  IF c.power = "off" THEN {NoOutput}
  ELSE CASE cmd = 8         -> Late(IF c.kind = "v2" THEN <<R1(c), 0, 0, 1, 170>> ELSE <<R1(c) + IllegalCommand>>)
         [] cmd = 41 /\ ~card.app -> Late(<<R1(c) + IllegalCommand>>)
         [] cmd = 58        -> Late(<<R1(c), IF c.power = "ready" THEN 192 ELSE 0, 255, 128, 0>>)
         [] cmd = 17 /\ c.power = "ready"        -> UNION {Late(s) : s \in SendsBlock}
         [] cmd \in {17, 24} /\ c.power = "idle" -> Late(<<R1(c) + IllegalCommand>>)
         [] OTHER           -> Late(<<R1(c)>>)

(* What it does with a byte that is exchanged: an accepted block is        *)
(* answered with xxx00101 and a busy signal, a refused one with xxx01101.  *)
Shifted(c) == [c EXCEPT !.out = IF @ = NoOutput THEN @ ELSE Tail(@)]
Takes(b) ==
  IF card.kind = "none" \/ ~selected THEN {card}
  ELSE IF card.takes = "token" /\ b = SD_START_TOKEN
       THEN {[Shifted(card) EXCEPT !.takes = "data", !.data = <<>>]}
  ELSE IF card.takes # "data" THEN {Shifted(card)}
  ELSE IF Len(card.data) + 1 < BLOCK_LEN THEN {[Shifted(card) EXCEPT !.data = Append(@, b)]}
  ELSE {[card EXCEPT !.takes = "cmd", !.out = Silence(n) \o <<229, 0>>,
                     !.blocks[0] = Append(card.data, b)] : n \in Delays}
         \union {[card EXCEPT !.takes = "cmd", !.out = Silence(n) \o <<237>>] : n \in Delays}

(* One spi_transfer. *)
Transfer(b) == card' \in Takes(b)

-----------------------------------------------------------------------------
(* The driver.                                                             *)
Frame == UNCHANGED <<calls, faults, before>>

(* The caller initialises the card, and reads and writes once it is ready. *)
Call(f, a) ==
  /\ at = "return" /\ calls < MaxCalls
  /\ f # "sd_init" => call # "none" /\ (call = "sd_init" => ret = SD_SUCCESS)
  /\ call' = f /\ addr' = a /\ calls' = calls + 1
  /\ before' = [faults |-> faults, blocks |-> card.blocks]
  /\ token' = FF /\ buf' = IF f = "sdc_write_block" THEN Written ELSE <<>>
  /\ IF f = "sd_init" THEN at' = "powerup" /\ cmd' = 0
                      ELSE at' = "select" /\ cmd' = IF f = "sdc_read_block" THEN 17 ELSE 24
  /\ UNCHANGED <<ntries, ntry, readAttempts, res, i, read, ret, selected, card, faults>>

(* spi_init and sdc_powerup_seq: 80 clocks with the card deselected. *)
Powerup ==
  /\ at = "powerup" /\ at' = "select"
  /\ selected' = FALSE
  /\ ntries' = NUM_ATTEMPTS
  /\ card' = [card EXCEPT !.clocked = card.kind # "none", !.out = NoOutput, !.takes = "cmd"]
  /\ UNCHANGED <<call, addr, cmd, ntry, readAttempts, res, i, read, buf, token, ret>> /\ Frame

Select ==
  /\ at = "select" /\ at' = "command"
  /\ selected' = TRUE
  /\ UNCHANGED <<call, addr, cmd, ntries, ntry, readAttempts, res, i, read, buf, token, ret, card>> /\ Frame

(* sdc_cmd up to the response. *)
SendCommand ==
  /\ at = "command" /\ at' = "res1"
  /\ ntry' = R1Tries /\ i' = 0
  /\ IF card.kind \in {"none", "low"} THEN UNCHANGED card
     ELSE LET c == Reacts(card)
          IN  \E answer \in Answers(c) : card' = [c EXCEPT !.out = answer]
  /\ UNCHANGED <<call, addr, cmd, ntries, readAttempts, res, read, buf, token, ret, selected>> /\ Frame

Unanswered(byte) == byte = FF /\ ntry > 0

(* sdc_read_res1, and what the callers make of it. *)
ReadRes1 ==
  /\ at = "res1"
  /\ Transfer(FF)
  /\ res' = [res EXCEPT ![0] = miso]
  /\ ntry' = ntry - 1
  /\ at' = CASE Unanswered(miso)                -> "res1"
             [] cmd \in {8, 58} /\ miso <= 1    -> "res7"
             [] cmd = 17 /\ miso # FF           -> "token"
             [] cmd = 24 /\ miso = 0            -> "send"
             [] OTHER                           -> "deselect"
  /\ readAttempts' = 0
  /\ UNCHANGED <<call, addr, cmd, ntries, i, read, buf, token, ret, selected>> /\ Frame

(* The rest of sdc_read_res3_or_7. *)
ReadRes7 ==
  /\ at = "res7"
  /\ Transfer(0)
  /\ i' = i + 1 /\ res' = [res EXCEPT ![i + 1] = miso]
  /\ at' = IF i' = 4 THEN "deselect" ELSE "res7"
  /\ UNCHANGED <<call, addr, cmd, ntries, ntry, readAttempts, read, buf, token, ret, selected>> /\ Frame

(* Mutant of Attempts: the count of sdc_read_block wraps as a uint8_t. *)
AttemptsByte(n) == (n + 1) % U8
Attempts(n) == n + 1

(* The count of sdc_write_block is a uint8_t. *)
WriteAttempts(n) == (n + 1) % U8

(* The wait for a token, which ends with it or at the limit. *)
AwaitToken ==
  /\ at = "token"
  /\ readAttempts' = Attempts(readAttempts)
  /\ IF readAttempts' = MAX_READ THEN UNCHANGED <<read, card>> ELSE Transfer(FF) /\ read' = miso
  /\ IF readAttempts' # MAX_READ /\ read' = FF
     THEN UNCHANGED <<at, token>>
     ELSE token' = read' /\ at' = IF read' = SD_START_TOKEN THEN "data" ELSE "deselect"
  /\ i' = 0
  /\ UNCHANGED <<call, addr, cmd, ntries, ntry, res, buf, ret, selected>> /\ Frame

(* Mutant of Whole: the block is a byte short. *)
WholeShort(n) == n >= BLOCK_LEN - 1
Whole(n) == n >= BLOCK_LEN

(* The block, and two bytes of CRC that are discarded. *)
ReadData ==
  /\ at = "data"
  /\ Transfer(FF)
  /\ i' = i + 1
  /\ buf' = IF Whole(i) THEN buf ELSE Append(buf, miso)
  /\ at' = IF i' = BLOCK_LEN + 2 THEN "deselect" ELSE "data"
  /\ UNCHANGED <<call, addr, cmd, ntries, ntry, readAttempts, res, read, token, ret, selected>> /\ Frame

(* The start token and the block. *)
WriteData ==
  /\ at = "send"
  /\ Transfer(IF i = 0 THEN SD_START_TOKEN ELSE buf[i])
  /\ i' = i + 1
  /\ at' = IF i = BLOCK_LEN THEN "response" ELSE "send"
  /\ readAttempts' = 0
  /\ UNCHANGED <<call, addr, cmd, ntries, ntry, res, read, buf, token, ret, selected>> /\ Frame

Accepted(byte) == byte % 32 = SD_DATA_ACCEPTED

AwaitResponse ==
  /\ at = "response"
  /\ IF WriteAttempts(readAttempts) = MAX_WRITE THEN UNCHANGED <<read, card>>
                                                ELSE Transfer(FF) /\ read' = miso
  /\ IF WriteAttempts(readAttempts) # MAX_WRITE /\ read' = FF
     THEN readAttempts' = WriteAttempts(readAttempts) /\ UNCHANGED <<at, token>>
     ELSE /\ readAttempts' = 0
          /\ at' = IF Accepted(read') THEN "busy" ELSE "deselect"
          /\ token' = IF Accepted(read') THEN SD_DATA_ACCEPTED ELSE FF
  /\ UNCHANGED <<call, addr, cmd, ntries, ntry, res, i, buf, ret, selected>> /\ Frame

AwaitWritten ==
  /\ at = "busy"
  /\ Transfer(FF)
  /\ readAttempts' = IF miso = 0 THEN WriteAttempts(readAttempts) ELSE readAttempts
  /\ at' = IF miso = 0 /\ readAttempts' # MAX_WRITE THEN "busy" ELSE "deselect"
  /\ token' = IF miso = 0 /\ readAttempts' = MAX_WRITE THEN 0 ELSE token
  /\ UNCHANGED <<call, addr, cmd, ntries, ntry, res, i, read, buf, ret, selected>> /\ Frame

Returns(rc) == at' = "return" /\ ret' = rc /\ UNCHANGED <<cmd, ntries>>
Sends(c, n) == at' = "select" /\ cmd' = c /\ ntries' = n /\ UNCHANGED ret

(* The loop over CMD0, with a uint8_t that wraps.                          *)
AfterCmd0 ==
  LET left == IF res[0] = 1 THEN ntries ELSE (ntries + U8 - 1) % U8
  IN  IF res[0] # 1 /\ ntries > 0 THEN Sends(0, left)
      ELSE IF left = 0 THEN Returns(SD_ERR_UNKNOWN_CARD)
      ELSE Sends(8, left)

AfterCmd8 ==
  IF res[0] # 1 THEN Returns(SD_ERR_MAYBE_VER1CARD)
  ELSE IF res[4] # 170 THEN Returns(SD_ERR_UNKNOWN_CARD)
  ELSE Sends(55, 0)

(* Mutant of Ready: the card need not have left the idle state. *)
ReadyIdle(r) == r <= 1
Ready(r) == r = 0

(* The loop over ACMD41. *)
AfterInitTry ==
  IF cmd = 55 /\ res[0] < 2 THEN Sends(41, ntries)
  ELSE IF Ready(res[0]) THEN Sends(58, ntries + 1)
  ELSE IF ntries + 1 > NUM_ATTEMPTS THEN Returns(SD_ERR_UNKNOWN_CARD)
  ELSE Sends(55, ntries + 1)

AfterCmd58 == Returns(IF res[1] >= 128 THEN SD_SUCCESS ELSE SD_ERR_UNKNOWN_CARD)

(* _spi_deselect, and what follows it. *)
Deselect ==
  /\ at = "deselect"
  /\ selected' = FALSE
  /\ card' = [card EXCEPT !.out = NoOutput, !.takes = "cmd"]
  /\ CASE cmd = 0          -> AfterCmd0
       [] cmd = 8          -> AfterCmd8
       [] cmd \in {55, 41} -> AfterInitTry
       [] cmd = 58         -> AfterCmd58
       [] OTHER            -> Returns(res[0])
  /\ UNCHANGED <<call, addr, ntry, readAttempts, res, i, read, buf, token>> /\ Frame

Driver ==
  \/ Powerup \/ Select \/ SendCommand \/ ReadRes1 \/ ReadRes7
  \/ AwaitToken \/ ReadData \/ WriteData \/ AwaitResponse \/ AwaitWritten
  \/ Deselect

(* The card is pulled out, or loses its power for a moment. *)
Fault(c) ==
  /\ faults < MaxFaults /\ card.kind # "none"
  /\ card' = c /\ faults' = faults + 1
  /\ UNCHANGED <<driver, selected, calls, before>>
Removed == Fault(NewCard("none", card.blocks))
PowerLost ==
  Fault([NewCard(card.kind, card.blocks) EXCEPT
           !.idleAfter = card.idleAfter, !.readyAfter = card.readyAfter])

-----------------------------------------------------------------------------
Init ==
  /\ call = "none" /\ addr = 0 /\ at = "return" /\ cmd = 0
  /\ ntries = 0 /\ ntry = 0 /\ readAttempts = 0 /\ i = 0
  /\ res = [k \in 0 .. 4 |-> 0] /\ read = 0 /\ buf = <<>> /\ token = FF /\ ret = 0
  /\ selected = FALSE /\ calls = 0 /\ faults = 0
  /\ \E kind \in Kinds, idle \in IdleAfter, ready \in ReadyAfter :
       card = [NewCard(kind, Blocks) EXCEPT !.idleAfter = idle, !.readyAfter = ready]
  /\ before = [faults |-> 0, blocks |-> Blocks]

CallInit == Call("sd_init", 0)
CallRead == \E a \in DOMAIN Blocks : Call("sdc_read_block", a)
CallWrite == Call("sdc_write_block", 0)

Next == CallInit \/ CallRead \/ CallWrite \/ Driver \/ Removed \/ PowerLost

(* The driver keeps running. *)
Spec == Init /\ [][Next]_vars /\ WF_vars(Driver)

-----------------------------------------------------------------------------
TypeOK ==
  /\ at \in {"return", "powerup", "select", "command", "res1", "res7", "token",
             "data", "send", "response", "busy", "deselect"}
  /\ ntries \in 0 .. U8 - 1 /\ i \in 0 .. BLOCK_LEN + 2 /\ readAttempts \in 0 .. MAX_READ
  /\ \A k \in 0 .. 4 : res[k] \in 0 .. 255
  /\ Len(buf) <= BLOCK_LEN

Returned(f) == at = "return" /\ call = f
Undisturbed == faults = before.faults

(* sd_init says that a card is ready only when it is, and accepts every    *)
(* card of version 2 that needs no more attempts than it makes (sd.c 250,  *)
(* 280).                                                                   *)
InitTells ==
  TypeOK /\
  (Returned("sd_init") /\ Undisturbed =>
    /\ ret = SD_SUCCESS => card.power = "ready"
    /\ card.kind # "v2" => ret # SD_SUCCESS
    /\ card.kind = "v2" /\ card.idleAfter <= NUM_ATTEMPTS
         /\ card.readyAfter <= NUM_ATTEMPTS + 1 => ret = SD_SUCCESS)

(* With a card that stays in place, a read that returns the start token    *)
(* has the whole block of the card, and a write returns the token of an    *)
(* accepted block exactly when the card has stored it.  The card is always *)
(* left deselected.                                                        *)
BlocksMove ==
  at = "return" =>
    /\ ~selected
    /\ Undisturbed /\ call = "sdc_read_block" /\ token = SD_START_TOKEN => buf = card.blocks[0]
    /\ Undisturbed /\ call = "sdc_write_block" =>
         IF token = SD_DATA_ACCEPTED THEN card.blocks[0] = Written
                                     ELSE card.blocks = before.blocks

(* Every call returns, whatever happens to the card; the write does so as  *)
(* long as the card stays.                                                 *)
CallsReturn ==
  at # "return" ~> (at = "return" \/ (call = "sdc_write_block" /\ ~Undisturbed))

(* A read returns the block at its address (sd.h 32: "block address").     *)
ReadsAddressed ==
  Returned("sdc_read_block") /\ Undisturbed /\ token = SD_START_TOKEN => buf = card.blocks[addr]

(* sd_init tries SD_NUM_ATTEMPTS times before it gives up on a card, and   *)
(* gives up only when they have failed (sd.c 255-258).                     *)
LastAttemptCounts ==
  Returned("sd_init") /\ Undisturbed /\ cmd = 0 => res[0] # 1

(* A write ends at its timeout (sd.c 389, 400: "timeout = 250ms").         *)
WritesEnd == call = "sdc_write_block" /\ at # "return" ~> at = "return"
=============================================================================
