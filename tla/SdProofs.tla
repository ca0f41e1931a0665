------------------------------ MODULE SdProofs ------------------------------
(***************************************************************************)
(* The SD card driver tells the truth about every card, for every number   *)
(* of attempts, length of a block, delay and content: sd_init reports a    *)
(* card ready exactly when it is, and a block that is read or written      *)
(* arrives whole.                                                          *)
(*                                                                         *)
(* The driver and the card are two machines that see each other only       *)
(* through the bytes exchanged, so the invariant says, for each place of   *)
(* the driver, what the card has still to send (the sequence card.out) and *)
(* what it has made of the command.  TypeInv and Flow hold whatever happens*)
(* to the card; the phases hold as long as nobody disturbs it.             *)
(***************************************************************************)
EXTENDS SdCard, SequenceTheorems, TLAPS

Byte == 0 .. 255
BlockSet == {s \in Seq(Byte) : Len(s) = BLOCK_LEN}
AllKinds == {"v2", "v1", "late", "low", "none"}

(* The k-th byte the card sends from now on: once it has nothing to say it *)
(* leaves the line high.                                                   *)
At(out, k) == IF k \in 1 .. Len(out) THEN out[k] ELSE FF

Cards ==
  [kind : AllKinds, power : {"off", "idle", "ready"}, clocked : BOOLEAN,
   cmd0s : Nat, acmds : Nat, idleAfter : Nat, readyAfter : Nat,
   app : BOOLEAN, out : Seq(Byte), takes : {"cmd", "token", "data"},
   data : Seq(Byte), blocks : [DOMAIN Blocks -> BlockSet]]

(* A card that is idle has not had the attempts it needs yet, one that is  *)
(* taking a block has room for the next byte.                              *)
CardType(c) ==
  /\ c \in Cards
  /\ c.takes = "data" => Len(c.data) < BLOCK_LEN
  /\ c.cmd0s < c.idleAfter
  /\ c.acmds < c.readyAfter \/ c.power # "idle"
  /\ c.readyAfter > 0

(* Types, stronger than those the runs check.                              *)
TypeInv ==
  /\ TypeOK
  /\ CardType(card)
  /\ res \in [0 .. 4 -> Byte] /\ buf \in Seq(Byte) /\ read \in Byte /\ token \in Byte
  /\ ntry \in Int
  /\ call \in {"none", "sd_init", "sdc_read_block", "sdc_write_block"}
  /\ cmd \in {0, 8, 55, 41, 58, 17, 24}
  /\ selected \in BOOLEAN
  /\ faults \in Nat /\ before.faults \in Nat /\ before.faults <= faults

(* The order of the driver's steps: which command each of them is for,     *)
(* where its counters stand, and when the card is selected and takes data. *)
Flow ==
  /\ at = "powerup" => cmd = 0
  /\ at # "return" => /\ call = "sd_init" <=> cmd \in {0, 8, 55, 41, 58}
                      /\ call = "sdc_read_block" <=> cmd = 17
                      /\ call = "sdc_write_block" <=> cmd = 24
  /\ cmd \in {55, 41} => ntries <= NUM_ATTEMPTS
  /\ at \in {"token", "data"} => cmd = 17
  /\ at \in {"send", "response", "busy"} => cmd = 24
  /\ at = "res7" => cmd \in {8, 58} /\ i <= 3
  /\ at = "res1" => i = 0 /\ ntry >= 0
  /\ at = "token" => readAttempts < MAX_READ
  /\ at = "data" => /\ i <= BLOCK_LEN + 1
                    /\ Len(buf) = IF i < BLOCK_LEN THEN i ELSE BLOCK_LEN
  /\ cmd = 17 /\ at \in {"select", "command", "res1", "token"} => buf = <<>>
  /\ at = "send" => i <= BLOCK_LEN
  /\ at \in {"response", "busy"} => readAttempts < U8
  /\ cmd = 24 /\ at # "return" => buf = Written
  /\ card.takes # "cmd" => cmd = 24 /\ at \notin {"return", "powerup", "select", "command"}
  /\ at = "res1" => card.takes # "data"
  /\ selected <=> at \notin {"return", "powerup", "select"}

-----------------------------------------------------------------------------
(* A card that can be heard.                                               *)
Talks == card.kind \in {"v1", "v2"}

(* What the driver hears of a card that got a command: its first byte.     *)
HeardOf(c, command) ==
  IF c.kind = "low" THEN 0
  ELSE IF c.kind \notin {"v1", "v2"} \/ c.power = "off" THEN FF
  ELSE R1(c) + (IF \/ command = 8 /\ c.kind = "v1"
                   \/ command \in {17, 24} /\ c.power = "idle"
                THEN IllegalCommand ELSE 0)
Heard == HeardOf(card, cmd)

(* After n bytes comes the block, or no start token at all.                *)
BlockIn(out, block, n) ==
  \/ \A k \in Nat \ {0} : At(out, n + k) # SD_START_TOKEN
  \/ \E m \in Nat :
       /\ \A k \in 1 .. m : At(out, n + k) = FF
       /\ At(out, n + m + 1) = SD_START_TOKEN
       /\ \A k \in 1 .. BLOCK_LEN : At(out, n + m + 1 + k) = block[k]

(* What follows the first byte, after n bytes.                             *)
Follows(c, command, n) ==
  /\ command = 8 /\ c.kind = "v2" => At(c.out, n + 4) = 170
  /\ command = 58 => At(c.out, n + 1) = IF c.power = "ready" THEN 192 ELSE 0
  /\ command = 17 => BlockIn(c.out, c.blocks[0], n)

(* A card on its way to answer within n more bytes.                        *)
Replies(c, command, tries) ==
  \E n \in Nat : /\ n <= tries
                 /\ \A k \in 1 .. n : At(c.out, k) = FF
                 /\ At(c.out, n + 1) = HeardOf(c, command)
                 /\ Follows(c, command, n + 1)

(* While the driver waits for the first byte: a late card is silent for    *)
(* longer than it waits, one without power for ever, any other answers in  *)
(* time.                                                                   *)
Listening ==
  at = "res1" =>
    /\ card.kind = "late" => \A k \in 1 .. ntry + 1 : At(card.out, k) = FF
    /\ Talks /\ card.power = "off" => \A k \in Nat \ {0} : At(card.out, k) = FF
    /\ Talks /\ card.power # "off" => Replies(card, cmd, ntry)

(* What has been heard is what the card said, and so is what is still to   *)
(* come of a longer response.                                              *)
Heeds ==
  /\ at \in {"res7", "deselect"} /\ call = "sd_init" => res[0] = Heard
  /\ at = "res7" /\ Talks =>
       /\ card.power # "off"
       /\ cmd = 8 => card.kind = "v2" /\ At(card.out, 4 - i) = 170
       /\ cmd = 58 => IF i = 0 THEN At(card.out, 1) = IF card.power = "ready" THEN 192 ELSE 0
                               ELSE res[1] = IF card.power = "ready" THEN 192 ELSE 0
  /\ at = "deselect" /\ Talks /\ card.power # "off" =>
       /\ cmd = 8 /\ card.kind = "v2" => res[4] = 170
       /\ cmd = 58 => res[1] = IF card.power = "ready" THEN 192 ELSE 0

(* The attempts of sd_init and those the card has counted: when the driver *)
(* gives up, the card has had them all.                                    *)
Inits ==
  at \notin {"return", "powerup"} /\ call = "sd_init" =>
    /\ cmd = 0 /\ card.kind = "v2" =>
         /\ ntries <= NUM_ATTEMPTS /\ card.clocked
         /\ at \in {"select", "command"} => card.cmd0s >= NUM_ATTEMPTS - ntries
         /\ at \in {"res1", "deselect"} =>
              IF card.power = "idle" THEN card.idleAfter <= NUM_ATTEMPTS => ntries > 0
                                     ELSE card.cmd0s > NUM_ATTEMPTS - ntries
    /\ cmd = 8 /\ card.kind = "v2" /\ card.idleAfter <= NUM_ATTEMPTS => card.power = "idle"
    /\ cmd \in {55, 41, 58} => card.kind = "v2" /\ card.power # "off"
    /\ cmd \in {55, 41} /\ card.power = "idle" => card.acmds >= ntries
    /\ cmd = 55 /\ at \in {"res1", "deselect"} => card.app
    /\ cmd = 41 /\ at \in {"select", "command"} => card.app
    /\ cmd = 41 /\ at \in {"res1", "deselect"} /\ card.power = "idle" => card.acmds > ntries
    /\ cmd = 58 => card.power = "ready"

(* A read: the block is on its way, then partly here and partly still to   *)
(* come.                                                                   *)
Reads ==
  call = "sdc_read_block" =>
    /\ at \in {"select", "command", "res1", "token"} => token = FF
    /\ at = "token" =>
         /\ readAttempts > 0 => read = FF
         /\ card.kind # "low" => Talks /\ BlockIn(card.out, card.blocks[0], 0)
    /\ at = "data" =>
         /\ token = SD_START_TOKEN /\ Talks
         /\ \A k \in 1 .. Len(buf) : buf[k] = card.blocks[0][k]
         /\ \A k \in 1 .. BLOCK_LEN - i : At(card.out, k) = card.blocks[0][i + k]
    /\ at \in {"deselect", "return"} /\ token = SD_START_TOKEN => buf = card.blocks[0]

Stored == card.blocks[0] = Written
Kept == card.blocks = before.blocks

(* A write: the card has taken what has been sent, then stored or refused  *)
(* it, then said so.                                                       *)
Writes ==
  call = "sdc_write_block" =>
    /\ at \in {"select", "command", "res1", "send"} => token = FF /\ Kept
    /\ at = "res1" /\ card.kind = "low" => card.takes = "cmd"
    /\ at \in {"response", "busy"} => card.takes = "cmd"
    /\ at = "res1" /\ Talks => card.takes = IF card.power = "ready" THEN "token" ELSE "cmd"
    /\ at \in {"send", "response", "busy"} =>
         (card.kind = "low" /\ card.takes = "cmd") \/ Talks
    /\ at = "send" /\ Talks =>
         /\ card.takes = IF i = 0 THEN "token" ELSE "data"
         /\ i > 0 => Len(card.data) = i - 1 /\ \A k \in 1 .. i - 1 : card.data[k] = Written[k]
    /\ at = "response" =>
         /\ token = FF
         /\ IF card.kind = "low" THEN Kept
            ELSE \E n \in Nat :
                   /\ \A k \in 1 .. n : At(card.out, k) = FF
                   /\ \/ At(card.out, n + 1) = 229 /\ Stored
                      \/ At(card.out, n + 1) = 237 /\ Kept
    /\ at = "busy" => token = SD_DATA_ACCEPTED /\ Stored
    /\ at \in {"deselect", "return"} => IF token = SD_DATA_ACCEPTED THEN Stored ELSE Kept

Phases == Listening /\ Heeds /\ Inits /\ Reads /\ Writes /\ InitTells
PhaseInv == Undisturbed => Phases

SdInv == TypeInv /\ Flow /\ PhaseInv

-----------------------------------------------------------------------------
(* One byte has gone: what was to come second comes first.                 *)
LEMMA AtShift ==
  ASSUME NEW out \in Seq(Byte), out # <<>>
  PROVE  /\ Tail(out) \in Seq(Byte)
         /\ Head(out) = At(out, 1) /\ Head(out) \in Byte
         /\ \A k \in Nat \ {0} : At(Tail(out), k) = At(out, k + 1)
<1>1. Len(out) \in Nat \ {0}
  BY EmptySeq
<1>2. /\ Tail(out) \in Seq(Byte) /\ Len(Tail(out)) = Len(out) - 1
      /\ \A k \in 1 .. Len(out) - 1 : Tail(out)[k] = out[k + 1]
      /\ Head(out) = out[1]
  BY <1>1, HeadTailProperties
<1>3. ASSUME NEW k \in Nat \ {0} PROVE At(Tail(out), k) = At(out, k + 1)
  BY <1>1, <1>2 DEF At
<1>4. Head(out) = At(out, 1) /\ Head(out) \in Byte
  BY <1>1, <1>2, ElementOfSeq DEF At
<1> QED
  BY <1>2, <1>3, <1>4

(* Two answers one after the other.                                        *)
LEMMA AtConcat ==
  ASSUME NEW s \in Seq(Byte), NEW t \in Seq(Byte)
  PROVE  /\ s \o t \in Seq(Byte)
         /\ Len(s \o t) = Len(s) + Len(t)
         /\ \A k \in Nat \ {0} :
              At(s \o t, k) = IF k <= Len(s) THEN At(s, k) ELSE At(t, k - Len(s))
<1>1. Len(s) \in Nat /\ Len(t) \in Nat
  BY LenProperties
<1>2. /\ s \o t \in Seq(Byte) /\ Len(s \o t) = Len(s) + Len(t)
      /\ \A k \in 1 .. Len(s) + Len(t) :
           (s \o t)[k] = IF k <= Len(s) THEN s[k] ELSE t[k - Len(s)]
  BY ConcatProperties
<1>3. ASSUME NEW k \in Nat \ {0}
      PROVE  At(s \o t, k) = IF k <= Len(s) THEN At(s, k) ELSE At(t, k - Len(s))
  <2>1. CASE k <= Len(s)
    <3>1. k \in 1 .. Len(s) + Len(t) /\ k \in 1 .. Len(s)
      BY <2>1, <1>1
    <3> QED
      BY <3>1, <2>1, <1>2 DEF At
  <2>2. CASE k > Len(s) /\ k <= Len(s) + Len(t)
    <3>1. k \in 1 .. Len(s) + Len(t) /\ k - Len(s) \in 1 .. Len(t) /\ ~ (k <= Len(s))
      BY <2>2, <1>1
    <3> QED
      BY <3>1, <1>2 DEF At
  <2>3. CASE k > Len(s) + Len(t)
    <3>1. k \notin 1 .. Len(s) + Len(t) /\ k - Len(s) \notin 1 .. Len(t) /\ ~ (k <= Len(s))
      BY <2>3, <1>1
    <3> QED
      BY <3>1, <1>2 DEF At
  <2> QED
    BY <2>1, <2>2, <2>3, <1>1
<1> QED
  BY <1>2, <1>3

(* Silence is heard as high bytes.                                         *)
LEMMA SilenceIs ==
  ASSUME NEW n \in Nat
  PROVE  /\ Silence(n) \in Seq(Byte) /\ Len(Silence(n)) = n
         /\ \A k \in Int : At(Silence(n), k) = FF
BY DEF Silence, At, Byte, FF

(* Bytes after n of silence.                                               *)
LEMMA AtLate ==
  ASSUME NEW n \in Nat, NEW s \in Seq(Byte)
  PROVE  /\ Silence(n) \o s \in Seq(Byte)
         /\ \A k \in 1 .. n : At(Silence(n) \o s, k) = FF
         /\ \A k \in Nat \ {0} : At(Silence(n) \o s, n + k) = At(s, k)
<1> DEFINE q == Silence(n)
<1>1. /\ q \in Seq(Byte) /\ Len(q) = n
      /\ \A k \in Int : At(q, k) = FF
  BY SilenceIs
<1> HIDE DEF q
<1>2. /\ q \o s \in Seq(Byte)
      /\ \A k \in Nat \ {0} :
           At(q \o s, k) = IF k <= Len(q) THEN At(q, k) ELSE At(s, k - Len(q))
  BY <1>1, AtConcat
<1>3. \A k \in 1 .. n : At(q \o s, k) = FF
  BY <1>1, <1>2
<1>4. ASSUME NEW k \in Nat \ {0} PROVE At(q \o s, n + k) = At(s, k)
  <2>1. n + k \in Nat \ {0} /\ ~ (n + k <= n) /\ n + k - n = k
    OBVIOUS
  <2> QED
    BY <2>1, <1>1, <1>2
<1> QED
  BY <1>2, <1>3, <1>4 DEF q

-----------------------------------------------------------------------------
(* The byte on the line, whoever drives it.                                *)
LEMMA MisoIs ==
  ASSUME CardType(card)
  PROVE  /\ miso \in Byte
         /\ selected /\ card.kind \notin {"none", "low"} => miso = At(card.out, 1)
         /\ selected /\ card.kind = "low" => miso = 0
         /\ ~selected \/ card.kind = "none" => miso = FF
<1>1. card.out \in Seq(Byte) /\ card.kind \in AllKinds
  BY DEF CardType, Cards
<1>2. card.out = <<>> => At(card.out, 1) = FF
  BY EmptySeq DEF At
<1>3. card.out # <<>> => Head(card.out) = At(card.out, 1) /\ Head(card.out) \in Byte
  BY <1>1, AtShift
<1>4. CASE ~selected \/ card.kind = "none"
  BY <1>4 DEF miso, Byte, FF
<1>5. CASE selected /\ card.kind = "low"
  BY <1>5 DEF miso, Byte
<1>6. CASE selected /\ card.kind \notin {"none", "low"}
  <2>1. miso = IF card.out = <<>> THEN FF ELSE Head(card.out)
    BY <1>6 DEF miso, NoOutput
  <2>2. miso = At(card.out, 1)
    BY <2>1, <1>2, <1>3
  <2>3. miso \in Byte
    BY <2>1, <1>3 DEF Byte, FF
  <2> QED
    BY <2>2, <2>3, <1>6
<1> QED
  BY <1>4, <1>5, <1>6

(* A card that has sent a byte is the same card with less to send.         *)
LEMMA ShiftedIs ==
  ASSUME NEW c, CardType(c)
  PROVE  /\ CardType(Shifted(c))
         /\ Shifted(c) = [c EXCEPT !.out = Shifted(c).out]
         /\ \A k \in Nat \ {0} : At(Shifted(c).out, k) = At(c.out, k + 1)
<1>1. c.out \in Seq(Byte)
  BY DEF CardType, Cards
<1>2. CASE c.out = <<>>
  <2>1. Shifted(c) = c
    BY <1>2 DEF Shifted, NoOutput, CardType, Cards
  <2>2. \A k \in Nat \ {0} : At(c.out, k) = At(c.out, k + 1)
    BY <1>2, EmptySeq DEF At
  <2> QED
    BY <2>1, <2>2 DEF CardType, Cards
<1>3. CASE c.out # <<>>
  <2>1. Shifted(c) = [c EXCEPT !.out = Tail(c.out)] /\ Shifted(c).out = Tail(c.out)
    BY <1>3 DEF Shifted, NoOutput, CardType, Cards
  <2>2. Tail(c.out) \in Seq(Byte) /\ \A k \in Nat \ {0} : At(Tail(c.out), k) = At(c.out, k + 1)
    BY <1>1, <1>3, AtShift
  <2> QED
    BY <2>1, <2>2 DEF CardType, Cards
<1> QED
  BY <1>2, <1>3

(* What the assumption says of the constants, one by one.                  *)
LEMMA Numbers ==
  /\ NUM_ATTEMPTS \in Nat /\ R1Tries \in Nat /\ MAX_READ \in Nat /\ MAX_WRITE \in Nat
  /\ MAX_READ > 1 /\ BLOCK_LEN \in Nat /\ BLOCK_LEN > 1 /\ U8 \in Nat
  /\ NUM_ATTEMPTS < U8 - 1 /\ MAX_WRITE >= U8 /\ MAX_READ >= U8
  /\ Kinds \subseteq AllKinds
  /\ \A d \in Delays : d \in Nat /\ d <= R1Tries /\ d < MAX_READ - 1
  /\ IdleAfter \subseteq Nat \ {0} /\ ReadyAfter \subseteq Nat \ {0}
  /\ 0 \in DOMAIN Blocks /\ \A a \in DOMAIN Blocks : Blocks[a] \in BlockSet
  /\ Written \in BlockSet
BY SdCardAssumption DEF AllKinds, BlockSet, Byte

(* The card holds whole blocks.                                            *)
LEMMA BlocksType == Blocks \in [DOMAIN Blocks -> BlockSet]
BY SdCardAssumption DEF BlockSet, Byte

(* What taking a byte does to a card. *)
LEMMA TakesIs ==
  ASSUME CardType(card), NEW b \in Byte, NEW c \in Takes(b)
  PROVE  /\ CardType(c)
         /\ c.kind = card.kind /\ c.power = card.power /\ c.clocked = card.clocked
         /\ c.cmd0s = card.cmd0s /\ c.acmds = card.acmds /\ c.app = card.app
         /\ c.idleAfter = card.idleAfter /\ c.readyAfter = card.readyAfter
         /\ card.takes = "cmd" => c.takes = "cmd"
         /\ card.takes # "data" /\ b # SD_START_TOKEN => c.takes = card.takes
         /\ card.takes # "data" => c.blocks = card.blocks
         /\ selected /\ card.kind # "none" /\ card.takes = "token" /\ b = SD_START_TOKEN =>
              c.takes = "data" /\ c.data = <<>>
         /\ selected /\ card.kind # "none" /\ card.takes # "data" =>
              \A k \in Nat \ {0} : At(c.out, k) = At(card.out, k + 1)
         /\ selected /\ card.kind # "none" /\ card.takes = "data" /\ Len(card.data) + 1 < BLOCK_LEN =>
              c.takes = "data" /\ c.data = Append(card.data, b) /\ c.blocks = card.blocks
         /\ selected /\ card.kind # "none" /\ card.takes = "data" /\ ~ (Len(card.data) + 1 < BLOCK_LEN) =>
              /\ c.takes = "cmd"
              /\ \E n \in Nat :
                   /\ \A k \in 1 .. n : At(c.out, k) = FF
                   /\ \/ /\ At(c.out, n + 1) = 229
                         /\ c.blocks = [card.blocks EXCEPT ![0] = Append(card.data, b)]
                      \/ At(c.out, n + 1) = 237 /\ c.blocks = card.blocks
<1> USE DEF SD_START_TOKEN
<1>1. CASE card.kind = "none" \/ ~selected
  BY <1>1 DEF Takes
<1>2. CASE selected /\ card.kind # "none" /\ card.takes # "data" /\ ~ (card.takes = "token" /\ b = SD_START_TOKEN)
  <2>1. c = Shifted(card)
    BY <1>2 DEF Takes
  <2>2. /\ CardType(c) /\ c = [card EXCEPT !.out = c.out]
        /\ \A k \in Nat \ {0} : At(c.out, k) = At(card.out, k + 1)
    BY <2>1, ShiftedIs
  <2> QED
    BY <2>2, <1>2 DEF CardType, Cards
<1>3. CASE selected /\ card.kind # "none" /\ card.takes = "token" /\ b = SD_START_TOKEN
  <2> DEFINE d == Shifted(card)
  <2>1. c = [d EXCEPT !.takes = "data", !.data = <<>>]
    BY <1>3 DEF Takes
  <2>2. /\ CardType(d) /\ d = [card EXCEPT !.out = d.out]
        /\ \A k \in Nat \ {0} : At(d.out, k) = At(card.out, k + 1)
    BY ShiftedIs
  <2> HIDE DEF d
  <2>3. BLOCK_LEN > 0 /\ Len(<<>>) = 0 /\ <<>> \in Seq(Byte)
    BY Numbers
  <2>4. CardType(c) /\ c.out = d.out /\ c.takes = "data" /\ c.data = <<>>
    BY <2>1, <2>2, <2>3 DEF CardType, Cards
  <2> QED
    BY <2>1, <2>2, <2>4, <1>3 DEF CardType, Cards
<1>4. CASE selected /\ card.kind # "none" /\ card.takes = "data" /\ Len(card.data) + 1 < BLOCK_LEN
  <2> DEFINE d == Shifted(card)
  <2>1. c = [d EXCEPT !.data = Append(d.data, b)]
    BY <1>4 DEF Takes
  <2>2. /\ CardType(d) /\ d = [card EXCEPT !.out = d.out]
    BY ShiftedIs
  <2> HIDE DEF d
  <2>3. card.data \in Seq(Byte) /\ Len(card.data) \in Nat
    BY LenProperties DEF CardType, Cards
  <2>4. Append(card.data, b) \in Seq(Byte) /\ Len(Append(card.data, b)) = Len(card.data) + 1
    BY <2>3
  <2>5. d.data = card.data /\ d.takes = "data" /\ d.blocks = card.blocks
    BY <2>2, <1>4 DEF CardType, Cards
  <2>6. c.takes = "data" /\ c.data = Append(card.data, b)
    BY <2>1, <2>2, <2>5 DEF CardType, Cards
  <2>7. CardType(c)
    <3>1. /\ d \in Cards /\ card \in Cards /\ c = [d EXCEPT !.data = Append(card.data, b)]
      BY <2>1, <2>2, <2>5 DEF CardType
    <3>2. c \in Cards
      BY <2>4, <3>1 DEF Cards
    <3>3. /\ c.cmd0s = d.cmd0s /\ c.idleAfter = d.idleAfter
          /\ c.acmds = d.acmds /\ c.readyAfter = d.readyAfter
      BY <3>1 DEF Cards
    <3>4. c.power = d.power
      BY <3>1 DEF Cards
    <3> QED
      BY <2>2, <2>4, <2>6, <3>2, <3>3, <3>4, <1>4 DEF CardType
  <2>8. /\ c.kind = d.kind /\ c.power = d.power /\ c.clocked = d.clocked
        /\ c.cmd0s = d.cmd0s /\ c.acmds = d.acmds /\ c.app = d.app
        /\ c.idleAfter = d.idleAfter /\ c.readyAfter = d.readyAfter /\ c.blocks = d.blocks
    <3>1. d \in Cards /\ c = [d EXCEPT !.data = Append(card.data, b)]
      BY <2>1, <2>2, <2>5 DEF CardType
    <3>2. c.kind = d.kind /\ c.power = d.power /\ c.clocked = d.clocked
      BY <3>1 DEF Cards
    <3>3. c.cmd0s = d.cmd0s /\ c.acmds = d.acmds /\ c.app = d.app
      BY <3>1 DEF Cards
    <3>4. c.idleAfter = d.idleAfter /\ c.readyAfter = d.readyAfter /\ c.blocks = d.blocks
      BY <3>1 DEF Cards
    <3> QED
      BY <3>2, <3>3, <3>4
  <2>9. /\ d.kind = card.kind /\ d.power = card.power /\ d.clocked = card.clocked
        /\ d.cmd0s = card.cmd0s /\ d.acmds = card.acmds /\ d.app = card.app
        /\ d.idleAfter = card.idleAfter /\ d.readyAfter = card.readyAfter
    BY <2>2 DEF CardType, Cards
  <2> QED
    BY <2>5, <2>6, <2>7, <2>8, <2>9, <1>4
<1>5. CASE selected /\ card.kind # "none" /\ card.takes = "data" /\ ~ (Len(card.data) + 1 < BLOCK_LEN)
  <2> DEFINE all == Append(card.data, b)
  <2>1. card.data \in Seq(Byte) /\ Len(card.data) \in Nat /\ Len(card.data) < BLOCK_LEN
    BY <1>5, LenProperties DEF CardType, Cards
  <2>2. all \in BlockSet
    BY <2>1, <1>5, Numbers DEF BlockSet
  <2>3. /\ <<229, 0>> \in Seq(Byte) /\ <<237>> \in Seq(Byte)
        /\ At(<<229, 0>>, 1) = 229 /\ At(<<237>>, 1) = 237
    BY DEF At, Byte
  <2>4. PICK n \in Delays :
          \/ c = [card EXCEPT !.takes = "cmd", !.out = Silence(n) \o <<229, 0>>, !.blocks[0] = all]
          \/ c = [card EXCEPT !.takes = "cmd", !.out = Silence(n) \o <<237>>]
    BY <1>5 DEF Takes
  <2> HIDE DEF all
  <2>5. n \in Nat /\ 0 \in DOMAIN Blocks
    BY Numbers
  <2>6. CASE c = [card EXCEPT !.takes = "cmd", !.out = Silence(n) \o <<229, 0>>, !.blocks[0] = all]
    <3>1. /\ Silence(n) \o <<229, 0>> \in Seq(Byte)
          /\ \A k \in 1 .. n : At(Silence(n) \o <<229, 0>>, k) = FF
          /\ At(Silence(n) \o <<229, 0>>, n + 1) = 229
      <4> DEFINE t == <<229, 0>>
      <4>1. t \in Seq(Byte) /\ At(t, 1) = 229
        BY <2>3
      <4> HIDE DEF t
      <4>2. /\ Silence(n) \o t \in Seq(Byte)
            /\ \A k \in 1 .. n : At(Silence(n) \o t, k) = FF
            /\ At(Silence(n) \o t, n + 1) = 229
        BY <4>1, <2>5, AtLate
      <4> QED
        BY <4>2 DEF t
    <3>2. /\ c.out = Silence(n) \o <<229, 0>> /\ c.takes = "cmd"
          /\ c.blocks = [card.blocks EXCEPT ![0] = all]
      BY <2>6 DEF CardType, Cards
    <3>3. c.blocks \in [DOMAIN Blocks -> BlockSet]
      BY <3>2, <2>2, <2>5 DEF CardType, Cards
    <3>4. CardType(c)
      <4>1. c = [card EXCEPT !.takes = "cmd", !.out = c.out, !.blocks = c.blocks]
        BY <2>6, <3>2 DEF CardType, Cards
      <4>2. card \in Cards /\ c.out \in Seq(Byte)
        BY <3>1, <3>2 DEF CardType
      <4>3. c \in Cards
        BY <4>1, <4>2, <3>3 DEF Cards
      <4>4. /\ c.cmd0s = card.cmd0s /\ c.idleAfter = card.idleAfter
            /\ c.acmds = card.acmds /\ c.readyAfter = card.readyAfter
        BY <4>1, <4>2 DEF Cards
      <4>5. c.power = card.power
        BY <4>1, <4>2 DEF Cards
      <4> QED
        BY <4>3, <4>4, <4>5, <3>2 DEF CardType
    <3>5. \E m \in Nat : /\ \A k \in 1 .. m : At(c.out, k) = FF
                         /\ At(c.out, m + 1) = 229
      BY <2>5, <3>1, <3>2
    <3> QED
      BY <2>6, <3>2, <3>4, <3>5, <1>5 DEF CardType, Cards, all
  <2>7. CASE c = [card EXCEPT !.takes = "cmd", !.out = Silence(n) \o <<237>>]
    <3>1. /\ Silence(n) \o <<237>> \in Seq(Byte)
          /\ \A k \in 1 .. n : At(Silence(n) \o <<237>>, k) = FF
          /\ At(Silence(n) \o <<237>>, n + 1) = 237
      <4> DEFINE t == <<237>>
      <4>1. t \in Seq(Byte) /\ At(t, 1) = 237
        BY <2>3
      <4> HIDE DEF t
      <4>2. /\ Silence(n) \o t \in Seq(Byte)
            /\ \A k \in 1 .. n : At(Silence(n) \o t, k) = FF
            /\ At(Silence(n) \o t, n + 1) = 237
        BY <4>1, <2>5, AtLate
      <4> QED
        BY <4>2 DEF t
    <3>2. /\ c.out = Silence(n) \o <<237>> /\ c.takes = "cmd" /\ c.blocks = card.blocks
      BY <2>7 DEF CardType, Cards
    <3>3. CardType(c)
      <4>1. c = [card EXCEPT !.takes = "cmd", !.out = c.out, !.blocks = card.blocks]
        BY <2>7, <3>2 DEF CardType, Cards
      <4>2. /\ card \in Cards /\ c.out \in Seq(Byte)
            /\ card.blocks \in [DOMAIN Blocks -> BlockSet]
        BY <3>1, <3>2 DEF CardType, Cards
      <4>3. c \in Cards
        BY <4>1, <4>2 DEF Cards
      <4>4. /\ c.cmd0s = card.cmd0s /\ c.idleAfter = card.idleAfter
            /\ c.acmds = card.acmds /\ c.readyAfter = card.readyAfter
        BY <4>1, <4>2 DEF Cards
      <4>5. c.power = card.power
        BY <4>1, <4>2 DEF Cards
      <4> QED
        BY <4>3, <4>4, <4>5, <3>2 DEF CardType
    <3>4. \E m \in Nat : /\ \A k \in 1 .. m : At(c.out, k) = FF
                         /\ At(c.out, m + 1) = 237
      BY <2>5, <3>1, <3>2
    <3> QED
      BY <2>7, <3>2, <3>3, <3>4, <1>5 DEF CardType, Cards
  <2> QED
    BY <2>4, <2>6, <2>7
<1> QED
  BY <1>1, <1>2, <1>3, <1>4, <1>5 DEF CardType, Cards

(* What a command does to a card. *)
LEMMA ReactsIs ==
  ASSUME CardType(card), NEW c, c = Reacts(card)
  PROVE  /\ CardType(c)
         /\ c.kind = card.kind /\ c.clocked = card.clocked /\ c.blocks = card.blocks
         /\ c.idleAfter = card.idleAfter /\ c.readyAfter = card.readyAfter
         /\ cmd # 24 => c.takes = card.takes
         /\ cmd = 24 => c.takes = IF card.power = "ready" THEN "token" ELSE card.takes
         /\ cmd \notin {0, 41} => c.power = card.power /\ c.acmds = card.acmds
         /\ cmd # 0 => c.cmd0s = card.cmd0s
         /\ cmd = 55 => c.app = (card.power # "off")
         /\ cmd = 0 /\ card.clocked => c.power = "idle" \/ c.cmd0s = card.cmd0s + 1
         /\ cmd = 41 /\ card.app =>
              /\ c.power = "ready" \/ (c.power = card.power /\ c.acmds = card.acmds + 1)
         /\ cmd = 0 /\ card.clocked /\ card.cmd0s + 1 >= card.idleAfter => c.power = "idle"
         /\ cmd = 41 /\ card.app /\ card.acmds + 1 >= card.readyAfter => c.power = "ready"
<1>0. card \in Cards
  BY DEF CardType
<1>1. CASE cmd = 0 /\ card.clocked /\ card.cmd0s + 1 >= card.idleAfter
  <2>1. c = [card EXCEPT !.power = "idle", !.cmd0s = 0, !.acmds = 0, !.app = FALSE]
    BY <1>1 DEF Reacts
  <2>2. c \in Cards
    <3>1. c = [[[[card EXCEPT !.power = "idle"] EXCEPT !.cmd0s = 0] EXCEPT !.acmds = 0] EXCEPT !.app = FALSE]
      BY <1>0, <2>1 DEF Cards
    <3>2. [card EXCEPT !.power = "idle"] \in Cards
      BY <1>0 DEF Cards
    <3>3. \A d \in Cards : [d EXCEPT !.cmd0s = 0] \in Cards
      BY DEF Cards
    <3>4. \A d \in Cards : [d EXCEPT !.acmds = 0] \in Cards
      BY DEF Cards
    <3>5. \A d \in Cards : [d EXCEPT !.app = FALSE] \in Cards
      BY DEF Cards
    <3> QED
      BY <3>1, <3>2, <3>3, <3>4, <3>5
  <2>3. /\ c.kind = card.kind /\ c.clocked = card.clocked /\ c.blocks = card.blocks
        /\ c.takes = card.takes
    BY <1>0, <2>1 DEF Cards
  <2>4. /\ c.idleAfter = card.idleAfter /\ c.readyAfter = card.readyAfter
        /\ c.data = card.data
    BY <1>0, <2>1 DEF Cards
  <2>5. c.power = "idle" /\ c.cmd0s = 0 /\ c.acmds = 0
    BY <1>0, <2>1 DEF Cards
  <2>6. card.idleAfter \in Nat /\ card.cmd0s \in Nat /\ card.readyAfter \in Nat
    BY <1>0 DEF Cards
  <2> QED
    BY <1>1, <2>2, <2>3, <2>4, <2>5, <2>6 DEF CardType
<1>2. CASE cmd = 0 /\ ~ (card.clocked /\ card.cmd0s + 1 >= card.idleAfter)
  <2>1. c = [card EXCEPT !.cmd0s = IF card.clocked THEN card.cmd0s + 1 ELSE card.cmd0s]
    BY <1>2 DEF Reacts
  <2>2. c \in Cards
    <3> DEFINE n == IF card.clocked THEN card.cmd0s + 1 ELSE card.cmd0s
    <3>1. n \in Nat
      BY <1>0 DEF Cards
    <3> HIDE DEF n
    <3>2. c = [card EXCEPT !.cmd0s = n]
      BY <2>1 DEF n
    <3> QED
      BY <1>0, <3>1, <3>2 DEF Cards
  <2>3. /\ c.kind = card.kind /\ c.clocked = card.clocked /\ c.blocks = card.blocks
        /\ c.takes = card.takes
    BY <1>0, <2>1 DEF Cards
  <2>4. /\ c.idleAfter = card.idleAfter /\ c.readyAfter = card.readyAfter
        /\ c.data = card.data
    BY <1>0, <2>1 DEF Cards
  <2>5. c.power = card.power /\ c.acmds = card.acmds
    BY <1>0, <2>1 DEF Cards
  <2>6. c.cmd0s = IF card.clocked THEN card.cmd0s + 1 ELSE card.cmd0s
    BY <1>0, <2>1 DEF Cards
  <2>7. card.idleAfter \in Nat /\ card.cmd0s \in Nat /\ card.clocked \in BOOLEAN
    BY <1>0 DEF Cards
  <2> QED
    BY <1>2, <2>2, <2>3, <2>4, <2>5, <2>6, <2>7 DEF CardType
<1>3. CASE cmd = 55
  <2>1. c = [card EXCEPT !.app = card.power # "off"]
    BY <1>3 DEF Reacts
  <2>2. c \in Cards
    BY <1>0, <2>1 DEF Cards
  <2>3. /\ c.kind = card.kind /\ c.clocked = card.clocked /\ c.blocks = card.blocks
        /\ c.takes = card.takes
    BY <1>0, <2>1 DEF Cards
  <2>4. /\ c.idleAfter = card.idleAfter /\ c.readyAfter = card.readyAfter
        /\ c.data = card.data
    BY <1>0, <2>1 DEF Cards
  <2>5. c.power = card.power /\ c.acmds = card.acmds /\ c.cmd0s = card.cmd0s
    BY <1>0, <2>1 DEF Cards
  <2>6. c.app = (card.power # "off")
    BY <1>0, <2>1 DEF Cards
  <2> QED
    BY <1>3, <2>2, <2>3, <2>4, <2>5, <2>6 DEF CardType
<1>4. CASE cmd = 41 /\ card.app
  <2>1. c = [card EXCEPT !.app = FALSE, !.acmds = card.acmds + 1,
               !.power = IF card.acmds + 1 >= card.readyAfter THEN "ready" ELSE card.power]
    BY <1>4 DEF Reacts
  <2>2. c \in Cards
    <3> DEFINE a == card.acmds + 1
               p == IF card.acmds + 1 >= card.readyAfter THEN "ready" ELSE card.power
    <3>1. a \in Nat /\ p \in {"off", "idle", "ready"}
      BY <1>0 DEF Cards
    <3>2. c = [card EXCEPT !.app = FALSE, !.acmds = a, !.power = p]
      BY <2>1
    <3> HIDE DEF a, p
    <3>3. [card EXCEPT !.acmds = a] \in Cards
      BY <1>0, <3>1 DEF Cards
    <3>4. \A d \in Cards : [d EXCEPT !.power = p] \in Cards
      BY <3>1 DEF Cards
    <3>5. \A d \in Cards : [d EXCEPT !.app = FALSE] \in Cards
      BY DEF Cards
    <3>6. c = [[[card EXCEPT !.acmds = a] EXCEPT !.power = p] EXCEPT !.app = FALSE]
      BY <1>0, <3>2 DEF Cards
    <3> QED
      BY <3>3, <3>4, <3>5, <3>6
  <2>3. /\ c.kind = card.kind /\ c.clocked = card.clocked /\ c.blocks = card.blocks
        /\ c.takes = card.takes
    BY <1>0, <2>1 DEF Cards
  <2>4. /\ c.idleAfter = card.idleAfter /\ c.readyAfter = card.readyAfter
        /\ c.data = card.data
    BY <1>0, <2>1 DEF Cards
  <2>5. c.acmds = card.acmds + 1 /\ c.cmd0s = card.cmd0s
    BY <1>0, <2>1 DEF Cards
  <2>6. c.power = IF card.acmds + 1 >= card.readyAfter THEN "ready" ELSE card.power
    BY <1>0, <2>1 DEF Cards
  <2>7. card.readyAfter \in Nat /\ card.acmds \in Nat
    BY <1>0 DEF Cards
  <2> QED
    BY <1>4, <2>2, <2>3, <2>4, <2>5, <2>6, <2>7 DEF CardType
<1>5. CASE cmd = 24
  <2>1. c = [card EXCEPT !.takes = IF card.power = "ready" THEN "token" ELSE card.takes]
    BY <1>5 DEF Reacts
  <2>2. c \in Cards
    <3> DEFINE t == IF card.power = "ready" THEN "token" ELSE card.takes
    <3>1. t \in {"cmd", "token", "data"}
      BY <1>0 DEF Cards
    <3> HIDE DEF t
    <3>2. c = [card EXCEPT !.takes = t]
      BY <2>1 DEF t
    <3> QED
      BY <1>0, <3>1, <3>2 DEF Cards
  <2>3. /\ c.kind = card.kind /\ c.clocked = card.clocked /\ c.blocks = card.blocks
    BY <1>0, <2>1 DEF Cards
  <2>4. /\ c.idleAfter = card.idleAfter /\ c.readyAfter = card.readyAfter
        /\ c.data = card.data
    BY <1>0, <2>1 DEF Cards
  <2>5. c.power = card.power /\ c.acmds = card.acmds /\ c.cmd0s = card.cmd0s
    BY <1>0, <2>1 DEF Cards
  <2>6. c.takes = IF card.power = "ready" THEN "token" ELSE card.takes
    BY <1>0, <2>1 DEF Cards
  <2> QED
    BY <1>5, <2>2, <2>3, <2>4, <2>5, <2>6 DEF CardType
<1>6. CASE cmd \notin {0, 55, 24} /\ (cmd = 41 => ~card.app)
  <2>1. c = card
    BY <1>6 DEF Reacts
  <2> QED
    BY <2>1, <1>6
<1> QED
  BY <1>1, <1>2, <1>3, <1>4, <1>5, <1>6

(* A card that is given something to send is otherwise the same.           *)
LEMMA OutIs ==
  ASSUME NEW c, CardType(c), NEW out \in Seq(Byte), NEW d, d = [c EXCEPT !.out = out]
  PROVE  /\ CardType(d) /\ d.out = out /\ d.takes = c.takes /\ d.blocks = c.blocks
         /\ d.kind = c.kind /\ d.power = c.power /\ d.clocked = c.clocked /\ d.app = c.app
         /\ d.cmd0s = c.cmd0s /\ d.acmds = c.acmds
         /\ d.idleAfter = c.idleAfter /\ d.readyAfter = c.readyAfter
<1>1. c \in Cards
  BY DEF CardType
<1>2. d \in Cards
  BY <1>1 DEF Cards
<1>3. d.out = out /\ d.takes = c.takes /\ d.blocks = c.blocks /\ d.data = c.data
  BY <1>1 DEF Cards
<1>4. d.kind = c.kind /\ d.power = c.power /\ d.clocked = c.clocked /\ d.app = c.app
  BY <1>1 DEF Cards
<1>5. d.cmd0s = c.cmd0s /\ d.acmds = c.acmds
  BY <1>1 DEF Cards
<1>6. d.idleAfter = c.idleAfter /\ d.readyAfter = c.readyAfter
  BY <1>1 DEF Cards
<1> QED
  BY <1>2, <1>3, <1>4, <1>5, <1>6 DEF CardType

(* The uint8_t of the attempts, counted down, wraps below zero only.       *)
LEMMA ModuloBack ==
  ASSUME NEW n \in 0 .. U8 - 1, U8 > 1
  PROVE  /\ n > 0 => (n + U8 - 1) % U8 = n - 1
         /\ n = 0 => (n + U8 - 1) % U8 = U8 - 1
BY Numbers

(* A uint8_t stays one.                                                    *)
LEMMA ModuloIs ==
  ASSUME NEW n \in Int
  PROVE  n % U8 \in 0 .. U8 - 1
BY Numbers

(* A block on its way is on its way wherever one starts to count.          *)
LEMMA BlockMoves ==
  ASSUME NEW out, NEW next, NEW n \in Nat, NEW m \in Nat,
         \A k \in Nat \ {0} : At(next, m + k) = At(out, n + k),
         NEW block, BlockIn(out, block, n)
  PROVE  BlockIn(next, block, m)
<1>1. CASE \A k \in Nat \ {0} : At(out, n + k) # SD_START_TOKEN
  BY <1>1 DEF BlockIn
<1>2. CASE ~ (\A k \in Nat \ {0} : At(out, n + k) # SD_START_TOKEN)
  <2>1. PICK j \in Nat :
          /\ \A k \in 1 .. j : At(out, n + k) = FF
          /\ At(out, n + j + 1) = SD_START_TOKEN
          /\ \A k \in 1 .. BLOCK_LEN : At(out, n + j + 1 + k) = block[k]
    BY <1>2 DEF BlockIn
  <2>2. \A k \in 1 .. j : At(next, m + k) = FF
    BY <2>1
  <2>3. At(next, m + j + 1) = SD_START_TOKEN
    <3>1. j + 1 \in Nat \ {0} /\ m + (j + 1) = m + j + 1 /\ n + (j + 1) = n + j + 1
      OBVIOUS
    <3> QED
      BY <2>1, <3>1
  <2>4. ASSUME NEW k \in 1 .. BLOCK_LEN PROVE At(next, m + j + 1 + k) = block[k]
    <3>1. k \in Nat
      BY Numbers
    <3>2. /\ j + 1 + k \in Nat \ {0} /\ m + (j + 1 + k) = m + j + 1 + k
          /\ n + (j + 1 + k) = n + j + 1 + k
      BY <3>1
    <3> QED
      BY <2>1, <3>2
  <2> QED
    BY <2>2, <2>3, <2>4 DEF BlockIn
<1> QED
  BY <1>1, <1>2

(* The byte before a block has gone.                                       *)
LEMMA BlockShift ==
  ASSUME NEW out, NEW next, \A k \in Nat \ {0} : At(next, k) = At(out, k + 1),
         NEW block, BlockIn(out, block, 1)
  PROVE  BlockIn(next, block, 0)
<1>1. ASSUME NEW k \in Nat \ {0} PROVE At(next, 0 + k) = At(out, 1 + k)
  <2>1. 0 + k = k /\ 1 + k = k + 1
    OBVIOUS
  <2> QED
    BY <2>1
<1> QED
  BY <1>1, BlockMoves

(* The bytes of a read that the card obeys.                                *)
LEMMA SendsBlockIs ==
  ASSUME CardType(card), NEW s \in SendsBlock
  PROVE  s \in Seq(Byte) /\ At(s, 1) = 0 /\ BlockIn(s, card.blocks[0], 1)
<1> DEFINE block == card.blocks[0]
           zero == <<0>>
           error == <<8>>
           start == <<SD_START_TOKEN>>
           crc == <<7, 7>>
<1>1. block \in Seq(Byte) /\ Len(block) = BLOCK_LEN
  BY Numbers DEF CardType, Cards, BlockSet
<1>2. /\ zero \in Seq(Byte) /\ error \in Seq(Byte) /\ start \in Seq(Byte) /\ crc \in Seq(Byte)
      /\ Len(zero) = 1 /\ Len(start) = 1
      /\ At(zero, 1) = 0 /\ At(start, 1) = SD_START_TOKEN
      /\ \A k \in Nat \ {0} : At(error, k) # SD_START_TOKEN
  BY DEF At, Byte, FF, SD_START_TOKEN
<1>3. s \in {zero \o Silence(n) \o start \o block \o crc : n \in Delays \union {MAX_READ}}
      \/ s \in {zero \o late : late \in Late(error)}
  BY DEF SendsBlock
<1> HIDE DEF zero, error, start, crc, block
<1>4. CASE s \in {zero \o Silence(n) \o start \o block \o crc : n \in Delays \union {MAX_READ}}
  <2>1. PICK n \in Delays \union {MAX_READ} : s = zero \o Silence(n) \o start \o block \o crc
    BY <1>4
  <2>2. n \in Nat
    BY Numbers
  <2> DEFINE q == Silence(n)
  <2>3. /\ q \in Seq(Byte) /\ Len(q) = n
        /\ \A k \in Int : At(q, k) = FF
    BY <2>2, SilenceIs
  <2> HIDE DEF q
  <2> DEFINE a == zero \o q
             b == a \o start
             d == b \o block
  <2>4. s = d \o crc
    BY <2>1 DEF q
  <2>5. /\ a \in Seq(Byte) /\ Len(a) = 1 + n
        /\ \A k \in Nat \ {0} : At(a, k) = IF k <= 1 THEN At(zero, k) ELSE At(q, k - 1)
    <3>1. /\ a \in Seq(Byte) /\ Len(a) = Len(zero) + Len(q)
          /\ \A k \in Nat \ {0} : At(a, k) = IF k <= Len(zero) THEN At(zero, k) ELSE At(q, k - Len(zero))
      BY <1>2, <2>3, AtConcat
    <3> QED
      BY <3>1, <1>2, <2>3
  <2> HIDE DEF a
  <2>6. /\ b \in Seq(Byte) /\ Len(b) = n + 2
        /\ \A k \in Nat \ {0} : At(b, k) = IF k <= 1 + n THEN At(a, k) ELSE At(start, k - (1 + n))
    <3>1. /\ b \in Seq(Byte) /\ Len(b) = Len(a) + Len(start)
          /\ \A k \in Nat \ {0} : At(b, k) = IF k <= Len(a) THEN At(a, k) ELSE At(start, k - Len(a))
      BY <1>2, <2>5, AtConcat
    <3> QED
      BY <3>1, <1>2, <2>2, <2>5
  <2> HIDE DEF b
  <2>7. /\ d \in Seq(Byte) /\ Len(d) = n + 2 + BLOCK_LEN
        /\ \A k \in Nat \ {0} : At(d, k) = IF k <= n + 2 THEN At(b, k) ELSE At(block, k - (n + 2))
    <3>1. /\ d \in Seq(Byte) /\ Len(d) = Len(b) + Len(block)
          /\ \A k \in Nat \ {0} : At(d, k) = IF k <= Len(b) THEN At(b, k) ELSE At(block, k - Len(b))
      BY <1>1, <2>6, AtConcat
    <3> QED
      BY <3>1, <1>1, <2>6
  <2> HIDE DEF d
  <2>8. /\ s \in Seq(Byte)
        /\ \A k \in Nat \ {0} : k <= n + 2 + BLOCK_LEN => At(s, k) = At(d, k)
    BY <1>2, <2>4, <2>7, AtConcat
  <2>9. At(s, 1) = 0
    BY <1>2, <2>2, <2>5, <2>6, <2>7, <2>8, Numbers
  <2>10. \A k \in 1 .. n : At(s, 1 + k) = FF
    <3>1. SUFFICES ASSUME NEW k \in 1 .. n PROVE At(s, 1 + k) = FF
      OBVIOUS
    <3>2. /\ 1 + k \in Nat \ {0} /\ 1 + k <= 1 + n /\ 1 + k <= n + 2
          /\ 1 + k <= n + 2 + BLOCK_LEN /\ ~ (1 + k <= 1) /\ 1 + k - 1 \in Int
      BY <2>2, Numbers
    <3> QED
      BY <3>2, <2>3, <2>5, <2>6, <2>7, <2>8
  <2>11. At(s, 1 + n + 1) = SD_START_TOKEN
    <3> DEFINE j == 1 + n + 1
    <3>2. /\ j \in Nat \ {0} /\ ~ (j <= 1 + n) /\ j <= n + 2
          /\ j <= n + 2 + BLOCK_LEN /\ j - (1 + n) = 1
      BY <2>2, Numbers
    <3> HIDE DEF j
    <3>3. At(b, j) = SD_START_TOKEN
      BY <3>2, <1>2, <2>6
    <3>4. At(d, j) = At(b, j) /\ At(s, j) = At(d, j)
      BY <3>2, <2>7, <2>8
    <3> QED
      BY <3>3, <3>4 DEF j
  <2>12. ASSUME NEW k \in 1 .. BLOCK_LEN PROVE At(s, 1 + n + 1 + k) = block[k]
    <3> DEFINE j == 1 + n + 1 + k
    <3>2. /\ j \in Nat \ {0} /\ ~ (j <= n + 2)
          /\ j <= n + 2 + BLOCK_LEN /\ j - (n + 2) = k
      BY <2>2, Numbers
    <3>3. At(block, k) = block[k]
      BY <1>1 DEF At
    <3> HIDE DEF j
    <3>4. At(d, j) = At(block, k) /\ At(s, j) = At(d, j)
      BY <3>2, <2>7, <2>8
    <3> QED
      BY <3>3, <3>4 DEF j
  <2>13. BlockIn(s, block, 1)
    BY <2>2, <2>10, <2>11, <2>12 DEF BlockIn
  <2> QED
    BY <2>8, <2>9, <2>13 DEF block
<1>5. CASE s \in {zero \o late : late \in Late(error)}
  <2>1. PICK late \in Late(error) : s = zero \o late
    BY <1>5
  <2>2. PICK n \in DelaysOf(card) : late = Silence(n) \o error
    BY <2>1 DEF Late
  <2>3. n \in Nat
    BY Numbers DEF DelaysOf
  <2>4. /\ late \in Seq(Byte)
        /\ \A k \in 1 .. n : At(late, k) = FF
        /\ \A k \in Nat \ {0} : At(late, n + k) = At(error, k)
    BY <1>2, <2>2, <2>3, AtLate
  <2>5. ASSUME NEW k \in Nat \ {0} PROVE At(late, k) # SD_START_TOKEN
    <3>1. CASE k \in 1 .. n
      BY <2>4, <3>1 DEF FF, SD_START_TOKEN
    <3>2. CASE k > n
      <4>1. k - n \in Nat \ {0} /\ n + (k - n) = k
        BY <2>3, <3>2
      <4> QED
        BY <4>1, <2>4, <1>2
    <3> QED
      BY <2>3, <3>1, <3>2
  <2>6. /\ s \in Seq(Byte)
        /\ \A k \in Nat \ {0} : At(s, k) = IF k <= 1 THEN At(zero, k) ELSE At(late, k - 1)
    <3>1. /\ s \in Seq(Byte)
          /\ \A k \in Nat \ {0} : At(s, k) = IF k <= Len(zero) THEN At(zero, k) ELSE At(late, k - Len(zero))
      BY <1>2, <2>1, <2>4, AtConcat
    <3> QED
      BY <3>1, <1>2
  <2>7. ASSUME NEW k \in Nat \ {0} PROVE At(s, 1 + k) # SD_START_TOKEN
    <3>1. 1 + k \in Nat \ {0} /\ ~ (1 + k <= 1) /\ 1 + k - 1 = k
      OBVIOUS
    <3> QED
      BY <3>1, <2>5, <2>6
  <2>8. BlockIn(s, block, 1)
    BY <2>7 DEF BlockIn
  <2> QED
    BY <1>2, <2>6, <2>8 DEF block
<1> QED
  BY <1>3, <1>4, <1>5

(* What a card answers.                                                    *)
LEMMA AnswersIs ==
  ASSUME CardType(card), NEW c, CardType(c), c.kind = card.kind, c.blocks = card.blocks,
         NEW out \in Answers(c), NEW d, d = [c EXCEPT !.out = out]
  PROVE  /\ out \in Seq(Byte)
         /\ c.power = "off" => \A k \in Nat \ {0} : At(out, k) = FF
         /\ c.kind = "late" => \A k \in 1 .. R1Tries + 1 : At(out, k) = FF
         /\ c.kind \in {"v1", "v2"} /\ c.power # "off" /\ (cmd = 41 => card.app) =>
              Replies(d, cmd, R1Tries)
<1>1. /\ card \in Cards /\ c \in Cards
  BY DEF CardType
<1>2. /\ R1(c) \in {0, 1} /\ R1(c) + IllegalCommand \in {4, 5}
      /\ {0, 1, 4, 5, 7, 8, 170, 192, 255, 128, SD_START_TOKEN} \subseteq Byte /\ FF = 255
  BY DEF R1, IllegalCommand, Byte, FF, SD_START_TOKEN
<1>3. d.out = out /\ d.kind = c.kind /\ d.power = c.power /\ d.blocks = c.blocks
  BY <1>1 DEF Cards
<1>4. 0 \in DOMAIN Blocks /\ c.blocks[0] \in BlockSet /\ R1Tries \in Nat
  BY <1>1, Numbers DEF Cards
<1>5. CASE c.power = "off"
  <2>1. out = <<>>
    BY <1>5 DEF Answers, NoOutput
  <2>2. out \in Seq(Byte) /\ \A k \in Nat \ {0} : At(out, k) = FF
    BY <2>1 DEF At
  <2> QED
    BY <1>4, <1>5, <2>2
<1>6. CASE c.power # "off"
  (* The answer is silence and then the bytes s. *)
  <2> DEFINE Tells(s) ==
        /\ At(s, 1) = HeardOf(c, cmd)
        /\ cmd = 8 /\ c.kind = "v2" => At(s, 5) = 170
        /\ cmd = 58 => At(s, 2) = IF c.power = "ready" THEN 192 ELSE 0
        /\ cmd = 17 => BlockIn(s, c.blocks[0], 1)
  <2>1. \E s \in Seq(Byte) : /\ out \in Late(s)
                             /\ c.kind \in {"v1", "v2"} /\ (cmd = 41 => card.app) => Tells(s)
    <3>1. CASE cmd = 8
      <4> DEFINE v2 == <<R1(c), 0, 0, 1, 170>>
                 v1 == <<R1(c) + IllegalCommand>>
      <4>1. /\ v2 \in Seq(Byte) /\ v1 \in Seq(Byte)
            /\ At(v2, 1) = R1(c) /\ At(v2, 5) = 170 /\ At(v1, 1) = R1(c) + IllegalCommand
        BY <1>2 DEF At
      <4>2. out \in Late(IF c.kind = "v2" THEN v2 ELSE v1)
        BY <1>6, <3>1 DEF Answers
      <4> HIDE DEF v1, v2
      <4>3. CASE c.kind = "v2"
        BY <1>2, <1>6, <3>1, <4>1, <4>2, <4>3 DEF HeardOf
      <4>4. CASE c.kind # "v2"
        BY <1>2, <1>6, <3>1, <4>1, <4>2, <4>4 DEF HeardOf
      <4> QED
        BY <4>3, <4>4
    <3>2. CASE cmd = 58
      <4> DEFINE s == <<R1(c), IF c.power = "ready" THEN 192 ELSE 0, 255, 128, 0>>
      <4>1. /\ s \in Seq(Byte) /\ At(s, 1) = R1(c)
            /\ At(s, 2) = IF c.power = "ready" THEN 192 ELSE 0
        BY <1>2 DEF At
      <4>2. out \in Late(s)
        BY <1>6, <3>2 DEF Answers
      <4> HIDE DEF s
      <4> QED
        BY <1>2, <1>6, <3>2, <4>1, <4>2 DEF HeardOf
    <3>3. CASE cmd = 17 /\ c.power = "ready"
      <4>1. PICK s \in SendsBlock : out \in Late(s)
        BY <1>6, <3>3 DEF Answers
      <4>2. s \in Seq(Byte) /\ At(s, 1) = 0 /\ BlockIn(s, card.blocks[0], 1)
        BY <4>1, SendsBlockIs
      <4>3. HeardOf(c, cmd) = 0 \/ c.kind \notin {"v1", "v2"}
        BY <3>3 DEF HeardOf, R1
      <4> QED
        BY <3>3, <4>1, <4>2, <4>3
    <3>4. CASE (cmd \in {17, 24} /\ c.power = "idle") \/ (cmd = 41 /\ ~card.app)
      <4> DEFINE s == <<R1(c) + IllegalCommand>>
      <4>1. /\ s \in Seq(Byte) /\ At(s, 1) = R1(c) + IllegalCommand
            /\ \A k \in Nat \ {0} : At(s, 1 + k) # SD_START_TOKEN
        BY <1>2 DEF At, SD_START_TOKEN, FF
      <4>2. out \in Late(s)
        BY <1>6, <3>4 DEF Answers
      <4> HIDE DEF s
      <4>3. cmd = 17 => BlockIn(s, c.blocks[0], 1)
        BY <4>1 DEF BlockIn
      <4>4. CASE cmd = 41
        BY <3>4, <4>1, <4>2, <4>4
      <4>5. CASE cmd # 41
        BY <1>2, <3>4, <4>1, <4>2, <4>3, <4>5 DEF HeardOf
      <4> QED
        BY <4>4, <4>5
    <3>5. CASE /\ cmd \notin {8, 58} /\ ~ (cmd = 41 /\ ~card.app)
               /\ ~ (cmd = 17 /\ c.power = "ready") /\ ~ (cmd \in {17, 24} /\ c.power = "idle")
      <4> DEFINE s == <<R1(c)>>
      <4>1. s \in Seq(Byte) /\ At(s, 1) = R1(c)
        BY <1>2 DEF At
      <4>2. out \in Late(s)
        BY <1>6, <3>5 DEF Answers
      <4> HIDE DEF s
      <4>3. cmd # 17
        BY <1>1, <1>6, <3>5 DEF Cards
      <4> QED
        BY <1>2, <1>6, <3>5, <4>1, <4>2, <4>3 DEF HeardOf
    <3> QED
      BY <3>1, <3>2, <3>3, <3>4, <3>5
  <2>2. PICK s \in Seq(Byte) :
          /\ out \in Late(s)
          /\ c.kind \in {"v1", "v2"} /\ (cmd = 41 => card.app) => Tells(s)
    BY <2>1
  <2>3. PICK n \in DelaysOf(card) : out = Silence(n) \o s
    BY <2>2 DEF Late
  <2>4. /\ n \in Nat
        /\ c.kind # "late" => n <= R1Tries
        /\ c.kind = "late" => n = R1Tries + 1
    BY <1>4, Numbers DEF DelaysOf
  <2>5. /\ out \in Seq(Byte)
        /\ \A k \in 1 .. n : At(out, k) = FF
        /\ \A k \in Nat \ {0} : At(out, n + k) = At(s, k)
    BY <2>3, <2>4, AtLate
  <2>6. ASSUME c.kind \in {"v1", "v2"}, cmd = 41 => card.app
        PROVE  Replies(d, cmd, R1Tries)
    <3>1. HeardOf(d, cmd) = HeardOf(c, cmd)
      BY <1>3 DEF HeardOf, R1
    <3>2. Tells(s)
      BY <2>2, <2>6
    <3>3. /\ At(out, n + 1) = At(s, 1) /\ At(out, n + 5) = At(s, 5)
          /\ At(out, n + 2) = At(s, 2)
          /\ n + 1 + 4 = n + 5 /\ n + 1 + 1 = n + 2
      <4>1. n + 1 + 4 = n + 5 /\ n + 1 + 1 = n + 2
        BY <2>4
      <4>2. \A k \in {1, 2, 5} : k \in Nat \ {0}
        OBVIOUS
      <4>3. \A k \in {1, 2, 5} : At(out, n + k) = At(s, k)
        BY <2>5, <4>2
      <4> QED
        BY <4>1, <4>3
    <3>4. cmd = 17 => BlockIn(out, c.blocks[0], n + 1)
      <4> SUFFICES ASSUME cmd = 17 PROVE BlockIn(out, c.blocks[0], n + 1)
        OBVIOUS
      <4>1. ASSUME NEW k \in Nat \ {0} PROVE At(out, n + 1 + k) = At(s, 1 + k)
        <5>1. 1 + k \in Nat \ {0} /\ n + (1 + k) = n + 1 + k
          BY <2>4
        <5> QED
          BY <5>1, <2>5
      <4>2. BlockIn(s, c.blocks[0], 1) /\ n + 1 \in Nat
        BY <2>4, <3>2
      <4> QED
        BY <4>1, <4>2, BlockMoves
    <3>5. Follows(d, cmd, n + 1)
      BY <1>3, <3>2, <3>3, <3>4 DEF Follows
    <3>6. n <= R1Tries /\ At(d.out, n + 1) = HeardOf(d, cmd) /\ \A k \in 1 .. n : At(d.out, k) = FF
      BY <1>3, <2>4, <2>5, <2>6, <3>1, <3>2, <3>3
    <3> QED
      BY <2>4, <3>5, <3>6 DEF Replies
  <2> QED
    BY <1>6, <2>4, <2>5, <2>6
<1> QED
  BY <1>5, <1>6

-----------------------------------------------------------------------------
(* The invariant at reset.                                                 *)
LEMMA FlowInit == Init => TypeInv /\ Flow
<1> SUFFICES ASSUME Init PROVE TypeInv /\ Flow
  OBVIOUS
<1>1. PICK kind \in Kinds, idle \in IdleAfter, ready \in ReadyAfter :
        card = [NewCard(kind, Blocks) EXCEPT !.idleAfter = idle, !.readyAfter = ready]
  BY DEF Init
<1>2. CardType(card) /\ card.takes = "cmd"
  <2>1. Blocks \in [DOMAIN Blocks -> BlockSet]
    BY Numbers, BlocksType
  <2>2. /\ kind \in AllKinds /\ idle \in Nat \ {0} /\ ready \in Nat \ {0}
        /\ <<>> \in Seq(Byte)
    BY Numbers
  <2>3. card = [kind |-> kind, power |-> "off", clocked |-> FALSE, cmd0s |-> 0, acmds |-> 0,
                idleAfter |-> idle, readyAfter |-> ready, app |-> FALSE, out |-> <<>>,
                takes |-> "cmd", data |-> <<>>, blocks |-> Blocks]
    BY <1>1 DEF NewCard, NoOutput
  <2>4. card \in Cards
    BY <2>1, <2>2, <2>3 DEF Cards
  <2> QED
    BY <2>2, <2>3, <2>4 DEF CardType
<1>3. res \in [0 .. 4 -> Byte] /\ FF \in Byte /\ 0 \in Byte /\ <<>> \in Seq(Byte)
  BY DEF Init, Byte, FF
<1>4. TypeOK
  BY Numbers DEF Init, TypeOK
<1>5. TypeInv
  <2>1. /\ read = 0 /\ token = FF /\ buf = <<>> /\ ntry = 0 /\ call = "none" /\ cmd = 0
        /\ selected = FALSE /\ faults = 0 /\ before = [faults |-> 0, blocks |-> Blocks]
    BY DEF Init
  <2>2. faults \in Nat /\ before.faults \in Nat /\ before.faults <= faults
    BY <2>1
  <2>3. read \in Byte /\ token \in Byte /\ buf \in Seq(Byte) /\ ntry \in Int
    BY <2>1, <1>3
  <2>4. /\ call \in {"none", "sd_init", "sdc_read_block", "sdc_write_block"}
        /\ cmd \in {0, 8, 55, 41, 58, 17, 24} /\ selected \in BOOLEAN
    BY <2>1
  <2> QED
    BY <2>2, <2>3, <2>4, <1>2, <1>3, <1>4 DEF TypeInv
<1>6. Flow
  BY <1>2 DEF Init, Flow
<1> QED
  BY <1>5, <1>6

(* Every step keeps the types and the flow, whether the card stays or not. *)
LEMMA FlowStep ==
  ASSUME TypeInv, Flow, [Next]_vars
  PROVE  TypeInv' /\ Flow'
<1>1. /\ TypeOK /\ CardType(card) /\ card \in Cards
      /\ res \in [0 .. 4 -> Byte] /\ buf \in Seq(Byte) /\ read \in Byte /\ token \in Byte
      /\ ntry \in Int /\ selected \in BOOLEAN /\ miso \in Byte
      /\ cmd \in {0, 8, 55, 41, 58, 17, 24}
      /\ i \in Nat /\ readAttempts \in Nat /\ ntries \in Nat
      /\ {FF, 0, 5, SD_START_TOKEN} \subseteq Byte
  BY MisoIs DEF TypeInv, CardType, TypeOK, Byte, FF, SD_START_TOKEN
<1>2. ASSUME NEW b \in Byte, Transfer(b)
      PROVE  /\ CardType(card') /\ (card.takes = "cmd" => card'.takes = "cmd")
             /\ b # SD_START_TOKEN /\ card.takes # "data" => card'.takes = card.takes
  BY <1>1, <1>2, TakesIs DEF Transfer
<1>3. ASSUME NEW f, NEW a, Call(f, a), f \in {"sd_init", "sdc_read_block", "sdc_write_block"}
      PROVE  TypeInv' /\ Flow'
  <2>1. /\ Written \in Seq(Byte) /\ Len(Written) = BLOCK_LEN
        /\ <<>> \in Seq(Byte) /\ Len(<<>>) = 0 /\ BLOCK_LEN \in Nat
    BY Numbers DEF BlockSet
  <2>2. buf' \in Seq(Byte) /\ Len(buf') <= BLOCK_LEN
    BY <1>3, <2>1 DEF Call
  <2>3. before'.faults = faults /\ faults' = faults
    BY <1>3 DEF Call
  <2>4. /\ at' = IF f = "sd_init" THEN "powerup" ELSE "select"
        /\ cmd' = IF f = "sd_init" THEN 0 ELSE IF f = "sdc_read_block" THEN 17 ELSE 24
        /\ buf' = IF f = "sdc_write_block" THEN Written ELSE <<>>
        /\ call' = f /\ token' = FF
        /\ UNCHANGED <<ntries, ntry, readAttempts, res, i, read, selected, card>>
    BY <1>3 DEF Call
  <2>5. TypeOK'
    BY <1>1, <2>2, <2>4 DEF TypeOK
  <2>6. TypeInv'
    BY <1>1, <1>3, <2>2, <2>3, <2>4, <2>5 DEF TypeInv
  <2>7. Flow'
    BY <1>3, <2>4 DEF Flow, Call
  <2> QED
    BY <2>6, <2>7
<1>4. CASE Powerup
  <2>1. /\ at = "powerup" /\ at' = "select" /\ selected' = FALSE /\ ntries' = NUM_ATTEMPTS
        /\ UNCHANGED <<call, cmd, ntry, readAttempts, res, i, read, buf, token, faults, before>>
    BY <1>4 DEF Powerup, Frame
  <2>2. CardType(card') /\ card'.takes = "cmd"
    <3>1. card' = [card EXCEPT !.clocked = card.kind # "none", !.out = <<>>, !.takes = "cmd"]
      BY <1>4 DEF Powerup, NoOutput
    <3>2. card' \in Cards
      BY <1>1, <3>1, EmptySeq DEF Cards
    <3>3. card'.takes = "cmd" /\ card'.cmd0s = card.cmd0s /\ card'.idleAfter = card.idleAfter
      BY <1>1, <3>1 DEF Cards
    <3>4. card'.acmds = card.acmds /\ card'.readyAfter = card.readyAfter /\ card'.power = card.power
      BY <1>1, <3>1 DEF Cards
    <3> QED
      BY <1>1, <3>2, <3>3, <3>4 DEF CardType
  <2>3. TypeOK'
    BY <1>1, <2>1, Numbers DEF TypeOK
  <2>4. TypeInv'
    BY <1>1, <2>1, <2>2, <2>3 DEF TypeInv
  <2>5. Flow'
    BY <2>1, <2>2 DEF Flow
  <2> QED
    BY <2>4, <2>5
<1>5. CASE Select
  <2>1. /\ at = "select" /\ at' = "command" /\ selected' = TRUE
        /\ UNCHANGED <<call, cmd, ntries, ntry, readAttempts, res, i, read, buf, token, card, faults, before>>
    BY <1>5 DEF Select, Frame
  <2>2. TypeInv'
    BY <2>1 DEF TypeInv, TypeOK
  <2>3. Flow'
    BY <2>1 DEF Flow
  <2> QED
    BY <2>2, <2>3
<1>6. CASE SendCommand
  <2>1. /\ at = "command" /\ at' = "res1" /\ ntry' = R1Tries /\ i' = 0
        /\ UNCHANGED <<call, cmd, ntries, readAttempts, res, read, buf, token, selected, faults, before>>
    BY <1>6 DEF SendCommand, Frame
  <2>2. card.takes = "cmd"
    BY <2>1 DEF Flow
  <2>3. CardType(card') /\ card'.takes \in {"cmd", "token"} /\ (cmd # 24 => card'.takes = "cmd")
    <3>1. CASE card' = card
      BY <1>1, <2>2, <3>1
    <3>2. CASE card' # card
      <4> DEFINE c == Reacts(card)
      <4>1. PICK answer \in Answers(c) : card' = [c EXCEPT !.out = answer]
        BY <1>6, <3>2 DEF SendCommand
      <4>2. /\ CardType(c) /\ c.kind = card.kind /\ c.blocks = card.blocks
            /\ cmd # 24 => c.takes = card.takes
            /\ cmd = 24 => c.takes = IF card.power = "ready" THEN "token" ELSE card.takes
        BY <1>1, ReactsIs
      <4> HIDE DEF c
      <4>3. answer \in Seq(Byte)
        BY <1>1, <4>1, <4>2, AnswersIs
      <4>4. CardType(card') /\ card'.takes = c.takes
        BY <4>1, <4>2, <4>3, OutIs
      <4> QED
        BY <2>2, <4>2, <4>4
    <3> QED
      BY <3>1, <3>2
  <2>4. TypeOK'
    BY <2>1, Numbers DEF TypeInv, TypeOK
  <2>5. TypeInv'
    BY <1>1, <2>1, <2>3, <2>4, Numbers DEF TypeInv
  <2>6. Flow'
    BY <2>1, <2>3, Numbers DEF Flow
  <2> QED
    BY <2>5, <2>6
<1>7. CASE ReadRes1
  <2>1. /\ at = "res1" /\ ntry' = ntry - 1 /\ readAttempts' = 0
        /\ Transfer(FF) /\ res' = [res EXCEPT ![0] = miso]
        /\ at' \in {"res1", "res7", "token", "send", "deselect"}
        /\ at' = "res7" => cmd \in {8, 58}
        /\ at' = "token" => cmd = 17
        /\ at' = "send" => cmd = 24
        /\ at' = "res1" => ntry > 0
        /\ UNCHANGED <<call, cmd, ntries, i, read, buf, token, selected, faults, before>>
    BY <1>7 DEF ReadRes1, Frame, Unanswered
  <2>2. CardType(card') /\ card'.takes = card.takes /\ card.takes # "data"
    BY <1>1, <1>2, <2>1 DEF Flow, FF, SD_START_TOKEN
  <2>3. res' \in [0 .. 4 -> Byte]
    BY <1>1, <2>1
  <2>4. TypeOK'
    BY <1>1, <2>1, <2>3, Numbers DEF TypeOK, Byte
  <2>5. TypeInv'
    BY <1>1, <2>1, <2>2, <2>3, <2>4 DEF TypeInv
  <2>6. Flow'
    BY <1>1, <2>1, <2>2, Numbers DEF Flow
  <2> QED
    BY <2>5, <2>6
<1>8. CASE ReadRes7
  <2>1. /\ at = "res7" /\ i' = i + 1
        /\ Transfer(0) /\ res' = [res EXCEPT ![i + 1] = miso]
        /\ at' \in {"deselect", "res7"} /\ (at' = "res7" => i' # 4)
        /\ UNCHANGED <<call, cmd, ntries, ntry, readAttempts, read, buf, token, selected, faults, before>>
    BY <1>8 DEF ReadRes7, Frame
  <2>2. /\ CardType(card') /\ card'.takes = "cmd"
        /\ card.takes = "cmd" /\ cmd \in {8, 58} /\ i <= 3
    BY <1>1, <1>2, <2>1 DEF Flow
  <2>3. res' \in [0 .. 4 -> Byte]
    BY <1>1, <2>1
  <2>4. TypeOK'
    BY <1>1, <2>1, <2>2, <2>3, Numbers DEF TypeOK, Byte
  <2>5. TypeInv'
    BY <1>1, <2>1, <2>2, <2>3, <2>4 DEF TypeInv
  <2>6. Flow'
    BY <1>1, <2>1, <2>2 DEF Flow
  <2> QED
    BY <2>5, <2>6
<1>9. CASE AwaitToken
  <2>1. /\ at = "token" /\ readAttempts' = readAttempts + 1 /\ i' = 0
        /\ at' \in {"token", "data", "deselect"}
        /\ at' = "token" => readAttempts' # MAX_READ
        /\ UNCHANGED <<call, cmd, ntries, ntry, res, buf, selected, faults, before>>
        /\ token' \in {token, read'}
        /\ (card' = card /\ read' = read) \/ (Transfer(FF) /\ read' = miso)
    BY <1>9 DEF AwaitToken, Attempts, Frame
  <2>2. /\ cmd = 17 /\ card.takes = "cmd" /\ readAttempts < MAX_READ /\ buf = <<>>
    BY <2>1 DEF Flow
  <2>3. CardType(card') /\ card'.takes = "cmd" /\ read' \in Byte
    BY <1>1, <1>2, <2>1, <2>2
  <2>4. TypeOK'
    BY <1>1, <2>1, <2>2, Numbers DEF TypeOK
  <2>5. TypeInv'
    BY <1>1, <2>1, <2>3, <2>4 DEF TypeInv
  <2>6. Flow'
    BY <1>1, <2>1, <2>2, <2>3, Numbers, EmptySeq DEF Flow
  <2> QED
    BY <2>5, <2>6
<1>10. CASE ReadData
  <2>1. /\ at = "data" /\ i' = i + 1 /\ Transfer(FF)
        /\ buf' = IF i >= BLOCK_LEN THEN buf ELSE Append(buf, miso)
        /\ at' = IF i' = BLOCK_LEN + 2 THEN "deselect" ELSE "data"
        /\ UNCHANGED <<call, cmd, ntries, ntry, readAttempts, res, read, token, selected, faults, before>>
    BY <1>10 DEF ReadData, Frame, Whole
  <2>2. /\ cmd = 17 /\ card.takes = "cmd" /\ i <= BLOCK_LEN + 1
        /\ Len(buf) = IF i < BLOCK_LEN THEN i ELSE BLOCK_LEN
    BY <2>1 DEF Flow
  <2>3. CardType(card') /\ card'.takes = "cmd"
    BY <1>1, <1>2, <2>1, <2>2
  <2>4. buf' \in Seq(Byte) /\ Len(buf') = IF i + 1 < BLOCK_LEN THEN i + 1 ELSE BLOCK_LEN
    <3>1. Append(buf, miso) \in Seq(Byte) /\ Len(Append(buf, miso)) = Len(buf) + 1
      BY <1>1, AppendProperties
    <3> QED
      BY <1>1, <2>1, <2>2, <3>1, Numbers
  <2>5. TypeOK'
    BY <1>1, <2>1, <2>2, <2>4, Numbers DEF TypeOK
  <2>6. TypeInv'
    BY <1>1, <2>1, <2>3, <2>4, <2>5 DEF TypeInv
  <2>7. Flow'
    BY <1>1, <2>1, <2>2, <2>3, <2>4, Numbers DEF Flow
  <2> QED
    BY <2>6, <2>7
<1>11. CASE WriteData
  <2>1. /\ at = "send" /\ i' = i + 1 /\ readAttempts' = 0
        /\ Transfer(IF i = 0 THEN SD_START_TOKEN ELSE buf[i])
        /\ at' = IF i = BLOCK_LEN THEN "response" ELSE "send"
        /\ UNCHANGED <<call, cmd, ntries, ntry, res, read, buf, token, selected, faults, before>>
    BY <1>11 DEF WriteData, Frame
  <2>2. cmd = 24 /\ i <= BLOCK_LEN /\ buf = Written
    BY <2>1 DEF Flow
  <2>3. CardType(card')
    <3>1. i # 0 => buf[i] \in Byte
      BY <1>1, <2>2, Numbers, ElementOfSeq DEF BlockSet
    <3> QED
      BY <1>1, <1>2, <2>1, <3>1
  <2>4. TypeOK'
    BY <1>1, <2>1, <2>2, Numbers DEF TypeOK
  <2>5. TypeInv'
    BY <1>1, <2>1, <2>3, <2>4 DEF TypeInv
  <2>6. Flow'
    BY <1>1, <2>1, <2>2, Numbers DEF Flow
  <2> QED
    BY <2>5, <2>6
<1>12. CASE AwaitResponse
  <2>1. /\ at = "response" /\ at' \in {"response", "busy", "deselect"}
        /\ readAttempts' \in {0, (readAttempts + 1) % U8}
        /\ UNCHANGED <<call, cmd, ntries, ntry, res, i, buf, selected, faults, before>>
        /\ token' \in {token, FF, 5}
        /\ (card' = card /\ read' = read) \/ (Transfer(FF) /\ read' = miso)
    BY <1>12 DEF AwaitResponse, WriteAttempts, Frame, SD_DATA_ACCEPTED
  <2>2. cmd = 24 /\ readAttempts' \in Nat /\ readAttempts' < U8
    <3>1. readAttempts + 1 \in Int /\ 0 \in 0 .. U8 - 1
      BY <1>1, Numbers
    <3>2. (readAttempts + 1) % U8 \in 0 .. U8 - 1
      BY <3>1, ModuloIs
    <3>3. cmd = 24 /\ readAttempts < U8
      BY <2>1 DEF Flow
    <3> DEFINE next == (readAttempts + 1) % U8
    <3>4. readAttempts' \in {readAttempts, 0, next} /\ next \in 0 .. U8 - 1
      BY <2>1, <3>2
    <3> HIDE DEF next
    <3> QED
      BY <1>1, <3>1, <3>3, <3>4, Numbers
  <2>3. CardType(card') /\ read' \in Byte
    BY <1>1, <1>2, <2>1
  <2>4. TypeOK'
    BY <1>1, <2>1, <2>2, Numbers DEF TypeOK
  <2>5. TypeInv'
    BY <1>1, <2>1, <2>3, <2>4 DEF TypeInv
  <2>6. Flow'
    BY <1>1, <2>1, <2>2 DEF Flow
  <2> QED
    BY <2>5, <2>6
<1>13. CASE AwaitWritten
  <2>1. /\ at = "busy" /\ at' \in {"busy", "deselect"} /\ Transfer(FF)
        /\ readAttempts' \in {readAttempts, (readAttempts + 1) % U8}
        /\ UNCHANGED <<call, cmd, ntries, ntry, res, i, read, buf, selected, faults, before>>
        /\ token' \in {token, 0}
    BY <1>13 DEF AwaitWritten, WriteAttempts, Frame
  <2>2. cmd = 24 /\ readAttempts' \in Nat /\ readAttempts' < U8
    <3>1. readAttempts + 1 \in Int /\ 0 \in 0 .. U8 - 1
      BY <1>1, Numbers
    <3>2. (readAttempts + 1) % U8 \in 0 .. U8 - 1
      BY <3>1, ModuloIs
    <3>3. cmd = 24 /\ readAttempts < U8
      BY <2>1 DEF Flow
    <3> DEFINE next == (readAttempts + 1) % U8
    <3>4. readAttempts' \in {readAttempts, 0, next} /\ next \in 0 .. U8 - 1
      BY <2>1, <3>2
    <3> HIDE DEF next
    <3> QED
      BY <1>1, <3>1, <3>3, <3>4, Numbers
  <2>3. CardType(card')
    BY <1>1, <1>2, <2>1
  <2>4. TypeOK'
    BY <1>1, <2>1, <2>2, Numbers DEF TypeOK
  <2>5. TypeInv'
    BY <1>1, <2>1, <2>3, <2>4 DEF TypeInv
  <2>6. Flow'
    BY <1>1, <2>1, <2>2 DEF Flow
  <2> QED
    BY <2>5, <2>6
<1>14. CASE Deselect
  <2>1. /\ at = "deselect" /\ selected' = FALSE
        /\ UNCHANGED <<call, ntry, readAttempts, res, i, read, buf, token, faults, before>>
    BY <1>14 DEF Deselect, Frame
  <2>2. CardType(card') /\ card'.takes = "cmd"
    <3>1. card' = [card EXCEPT !.out = <<>>, !.takes = "cmd"]
      BY <1>14 DEF Deselect, NoOutput
    <3>2. card' \in Cards
      BY <1>1, <3>1, EmptySeq DEF Cards
    <3>3. card'.takes = "cmd" /\ card'.cmd0s = card.cmd0s /\ card'.idleAfter = card.idleAfter
      BY <1>1, <3>1 DEF Cards
    <3>4. card'.acmds = card.acmds /\ card'.readyAfter = card.readyAfter /\ card'.power = card.power
      BY <1>1, <3>1 DEF Cards
    <3> QED
      BY <1>1, <3>2, <3>3, <3>4 DEF CardType
  <2>3. \/ at' = "return" /\ UNCHANGED <<cmd, ntries>>
        \/ /\ at' = "select" /\ cmd \in {0, 8, 55, 41} /\ cmd' \in {0, 8, 55, 41, 58}
           /\ ntries' \in 0 .. U8 - 1
           /\ cmd' \in {55, 41} => ntries' <= NUM_ATTEMPTS
    <3>1. CASE cmd = 0
      <4> DEFINE next == (ntries + U8 - 1) % U8
      <4>1. ntries + U8 - 1 \in Int /\ ntries \in 0 .. U8 - 1
        BY <1>1, Numbers DEF TypeOK
      <4>2. next \in 0 .. U8 - 1
        BY <4>1, ModuloIs
      <4>3. AfterCmd0
        BY <1>14, <3>1 DEF Deselect
      <4> QED
        BY <2>1, <3>1, <4>1, <4>2, <4>3 DEF AfterCmd0, Returns, Sends
    <3>2. CASE cmd = 8
      BY <1>14, <3>2, Numbers DEF Deselect, AfterCmd8, Returns, Sends
    <3>3. CASE cmd \in {55, 41}
      <4>1. ntries \in 0 .. U8 - 1 /\ ntries <= NUM_ATTEMPTS
        BY <3>3 DEF Flow, TypeInv, TypeOK
      <4>2. AfterInitTry
        BY <1>14, <3>3 DEF Deselect
      <4> QED
        BY <3>3, <4>1, <4>2, Numbers DEF AfterInitTry, Returns, Sends
    <3>4. CASE cmd \in {58, 17, 24}
      BY <1>14, <3>4 DEF Deselect, AfterCmd58, Returns
    <3> QED
      BY <1>1, <3>1, <3>2, <3>3, <3>4
  <2>4. TypeOK'
    BY <1>1, <2>1, <2>3, Numbers DEF TypeOK
  <2>5. TypeInv'
    BY <1>1, <2>1, <2>2, <2>3, <2>4 DEF TypeInv
  <2>6. Flow'
    BY <1>1, <2>1, <2>2, <2>3 DEF Flow
  <2> QED
    BY <2>5, <2>6
<1>15. CASE Removed \/ PowerLost
  <2>1. /\ faults' = faults + 1
        /\ UNCHANGED <<call, at, cmd, ntries, ntry, readAttempts, res, i, read, buf, token, selected, before>>
    BY <1>15 DEF Removed, PowerLost, Fault, driver
  <2>2. CardType(card') /\ card'.takes = "cmd"
    <3>1. PICK kind \in AllKinds, idle \in Nat \ {0}, ready \in Nat \ {0} :
            card' = [kind |-> kind, power |-> "off", clocked |-> FALSE, cmd0s |-> 0, acmds |-> 0,
                     idleAfter |-> idle, readyAfter |-> ready, app |-> FALSE, out |-> <<>>,
                     takes |-> "cmd", data |-> <<>>, blocks |-> card.blocks]
      <4>1. /\ card.kind \in AllKinds /\ "none" \in AllKinds /\ 1 \in Nat \ {0}
            /\ card.idleAfter \in Nat \ {0} /\ card.readyAfter \in Nat \ {0}
        BY <1>1 DEF CardType, Cards, AllKinds
      <4>2. CASE Removed
        BY <4>1, <4>2 DEF Removed, Fault, NewCard, NoOutput
      <4>3. CASE PowerLost
        BY <4>1, <4>3 DEF PowerLost, Fault, NewCard, NoOutput
      <4> QED
        BY <1>15, <4>2, <4>3
    <3>2. card.blocks \in [DOMAIN Blocks -> BlockSet] /\ <<>> \in Seq(Byte)
      BY <1>1 DEF Cards
    <3>3. card' \in Cards
      BY <3>1, <3>2 DEF Cards
    <3> QED
      BY <3>1, <3>3 DEF CardType
  <2>3. TypeInv'
    BY <1>1, <2>1, <2>2 DEF TypeInv, TypeOK
  <2>4. Flow'
    BY <2>1, <2>2 DEF Flow
  <2> QED
    BY <2>3, <2>4
<1>16. CASE UNCHANGED vars
  BY <1>16 DEF vars, driver, TypeInv, TypeOK, Flow
<1> QED
  BY <1>3, <1>4, <1>5, <1>6, <1>7, <1>8, <1>9, <1>10, <1>11, <1>12, <1>13, <1>14, <1>15, <1>16
     DEF Next, CallInit, CallRead, CallWrite, Driver

-----------------------------------------------------------------------------
(* A high byte while the block is awaited is one of the silence before it. *)
LEMMA BlockWaits ==
  ASSUME NEW out, NEW next, \A k \in Nat \ {0} : At(next, k) = At(out, k + 1),
         NEW block, BlockIn(out, block, 0), At(out, 1) = FF
  PROVE  BlockIn(next, block, 0)
<1>1. CASE \A k \in Nat \ {0} : At(out, 0 + k) # SD_START_TOKEN
  <2>1. ASSUME NEW k \in Nat \ {0} PROVE At(next, 0 + k) # SD_START_TOKEN
    <3>1. k + 1 \in Nat \ {0} /\ 0 + k = k /\ 0 + (k + 1) = k + 1
      OBVIOUS
    <3>2. At(out, 0 + (k + 1)) # SD_START_TOKEN
      BY <1>1, <3>1
    <3>3. At(next, k) = At(out, k + 1)
      OBVIOUS
    <3> QED
      BY <3>1, <3>2, <3>3
  <2> QED
    BY <2>1 DEF BlockIn
<1>2. CASE ~ (\A k \in Nat \ {0} : At(out, 0 + k) # SD_START_TOKEN)
  <2>1. PICK m \in Nat :
          /\ \A k \in 1 .. m : At(out, 0 + k) = FF
          /\ At(out, 0 + m + 1) = SD_START_TOKEN
          /\ \A k \in 1 .. BLOCK_LEN : At(out, 0 + m + 1 + k) = block[k]
    BY <1>2 DEF BlockIn
  <2>2. m # 0
    <3>1. ASSUME m = 0 PROVE FALSE
      <4>1. 0 + m + 1 = 1
        BY <3>1
      <4> QED
        BY <4>1, <2>1 DEF FF, SD_START_TOKEN
    <3> QED
      BY <3>1
  <2>3. m - 1 \in Nat
    BY <2>2
  <2>4. ASSUME NEW k \in 1 .. m - 1 PROVE At(next, 0 + k) = FF
    <3>1. k \in Nat \ {0} /\ k + 1 \in 1 .. m /\ 0 + k = k /\ 0 + (k + 1) = k + 1
      OBVIOUS
    <3>2. At(next, k) = At(out, k + 1)
      BY <3>1
    <3>3. At(out, 0 + (k + 1)) = FF
      BY <2>1, <3>1
    <3> QED
      BY <3>1, <3>2, <3>3
  <2>5. At(next, 0 + (m - 1) + 1) = SD_START_TOKEN
    <3>1. m \in Nat \ {0} /\ 0 + (m - 1) + 1 = m /\ 0 + m + 1 = m + 1
      BY <2>2
    <3>2. At(next, m) = At(out, m + 1)
      BY <3>1
    <3> QED
      BY <2>1, <3>1, <3>2
  <2>6. ASSUME NEW k \in 1 .. BLOCK_LEN PROVE At(next, 0 + (m - 1) + 1 + k) = block[k]
    <3>1. /\ m + k \in Nat \ {0} /\ 0 + (m - 1) + 1 + k = m + k
          /\ 0 + m + 1 + k = (m + k) + 1
      BY <2>2, Numbers
    <3>2. At(next, m + k) = At(out, (m + k) + 1)
      BY <3>1
    <3> QED
      BY <2>1, <3>1, <3>2
  <2> QED
    BY <2>3, <2>4, <2>5, <2>6 DEF BlockIn
<1> QED
  BY <1>1, <1>2

(* After the start token comes the block.                                  *)
LEMMA BlockStarts ==
  ASSUME NEW out, NEW block, BlockIn(out, block, 0), At(out, 1) = SD_START_TOKEN
  PROVE  \A k \in 1 .. BLOCK_LEN : At(out, 1 + k) = block[k]
<1>1. PICK m \in Nat :
        /\ \A k \in 1 .. m : At(out, 0 + k) = FF
        /\ At(out, 0 + m + 1) = SD_START_TOKEN
        /\ \A k \in 1 .. BLOCK_LEN : At(out, 0 + m + 1 + k) = block[k]
  <2>1. 1 \in Nat \ {0} /\ 0 + 1 = 1
    OBVIOUS
  <2>2. ~ (\A k \in Nat \ {0} : At(out, 0 + k) # SD_START_TOKEN)
    BY <2>1
  <2> QED
    BY <2>2 DEF BlockIn
<1>2. m = 0
  <2>1. ASSUME m # 0 PROVE FALSE
    <3>1. 1 \in 1 .. m /\ 0 + 1 = 1
      BY <2>1
    <3> QED
      BY <1>1, <3>1 DEF FF, SD_START_TOKEN
  <2> QED
    BY <2>1
<1>3. ASSUME NEW k \in 1 .. BLOCK_LEN PROVE At(out, 1 + k) = block[k]
  <2>1. 0 + m + 1 + k = 1 + k
    BY <1>2, Numbers
  <2> QED
    BY <1>1, <2>1
<1> QED
  BY <1>3

(* A byte has been exchanged with a card that is not taking a block.       *)
LEMMA Exchanged ==
  ASSUME TypeInv, selected, NEW b \in Byte, Transfer(b),
         card.takes # "data", b # SD_START_TOKEN
  PROVE  /\ card'.kind = card.kind /\ card'.power = card.power /\ card'.clocked = card.clocked
         /\ card'.cmd0s = card.cmd0s /\ card'.acmds = card.acmds /\ card'.app = card.app
         /\ card'.idleAfter = card.idleAfter /\ card'.readyAfter = card.readyAfter
         /\ card'.takes = card.takes /\ card'.blocks = card.blocks
         /\ card.kind # "none" => \A k \in Nat \ {0} : At(card'.out, k) = At(card.out, k + 1)
BY TakesIs DEF TypeInv, Transfer

(* What the driver hears: its byte from the card, or the level of the line. *)
LEMMA Hears ==
  ASSUME TypeInv, selected
  PROVE  /\ card.kind \in AllKinds /\ card.power \in {"off", "idle", "ready"}
         /\ miso \in Byte
         /\ card.kind \in {"v1", "v2", "late"} => miso = At(card.out, 1)
         /\ card.kind = "low" => miso = 0
         /\ card.kind = "none" => miso = FF
<1>1. CardType(card) /\ card \in Cards
  BY DEF TypeInv, CardType
<1> QED
  BY <1>1, MisoIs DEF Cards
-----------------------------------------------------------------------------
(* Nothing has been asked of the card at reset.                            *)
LEMMA PhaseInit == ASSUME Init PROVE Phases
<1>1. at = "return" /\ call = "none" /\ TypeOK
  BY FlowInit DEF Init, TypeInv
<1> QED
  BY <1>1 DEF Phases, Listening, Heeds, Inits, Reads, Writes, InitTells, Returned

(* A call starts undisturbed, whatever happened before it.                 *)
LEMMA PhaseCall ==
  ASSUME TypeInv', NEW f, NEW a, Call(f, a),
         f \in {"sd_init", "sdc_read_block", "sdc_write_block"}
  PROVE  Phases'
<1>1. /\ at' = IF f = "sd_init" THEN "powerup" ELSE "select"
      /\ call' = f /\ token' = FF /\ card' = card
      /\ before' = [faults |-> faults, blocks |-> card.blocks]
  BY DEF Call
<1>2. before'.blocks = card'.blocks
  BY <1>1
<1> QED
  BY <1>1, <1>2
     DEF Phases, Listening, Heeds, Inits, Reads, Writes, InitTells, Returned, TypeInv, Kept

(* The card has its clocks, and the driver all its attempts.               *)
LEMMA PhasePowerup ==
  ASSUME TypeInv, Flow, TypeInv', Flow', Phases, Powerup
  PROVE  Phases'
<1>1. /\ at = "powerup" /\ at' = "select" /\ ntries' = NUM_ATTEMPTS
      /\ call' = call /\ cmd' = cmd /\ cmd = 0 /\ call = "sd_init"
      /\ card' = [card EXCEPT !.clocked = card.kind # "none", !.out = <<>>, !.takes = "cmd"]
  BY DEF Powerup, Flow, NoOutput
<1>2. card'.clocked = (card.kind # "none") /\ card'.kind = card.kind /\ card'.cmd0s \in Nat
  BY <1>1 DEF TypeInv, CardType, Cards
<1>3. /\ at' = "select" /\ cmd' = 0 /\ call' = "sd_init"
      /\ ntries' <= NUM_ATTEMPTS /\ card'.cmd0s >= NUM_ATTEMPTS - ntries'
      /\ card'.kind = "v2" => card'.clocked
  <2>1. NUM_ATTEMPTS \in Nat /\ card'.cmd0s >= NUM_ATTEMPTS - NUM_ATTEMPTS
    BY <1>2, Numbers
  <2>2. card'.kind = "v2" => card'.clocked
    BY <1>2
  <2> QED
    BY <1>1, <2>1, <2>2
<1>4. Inits'
  BY <1>3 DEF Inits
<1> QED
  BY <1>1, <1>4 DEF Phases, Listening, Heeds, Reads, Writes, InitTells, Returned, TypeInv

(* Selecting the card changes nothing it was asked.                        *)
LEMMA PhaseSelect ==
  ASSUME TypeInv, Flow, TypeInv', Flow', Phases, Select
  PROVE  Phases'
<1>1. /\ at = "select" /\ at' = "command"
      /\ UNCHANGED <<call, cmd, ntries, token, buf, card, before>>
  BY DEF Select, Frame
<1> QED
  BY <1>1 DEF Phases, Listening, Heeds, Inits, Reads, Writes, InitTells, Returned, TypeInv, Kept, Talks

(* The card gets the command: it counts an attempt and is on its way to    *)
(* answer.                                                                 *)
LEMMA PhaseSendCommand ==
  ASSUME TypeInv, Flow, TypeInv', Flow', Phases, SendCommand
  PROVE  Phases'
<1>1. /\ at = "command" /\ at' = "res1" /\ ntry' = R1Tries /\ i' = 0
      /\ UNCHANGED <<call, cmd, ntries, token, before>>
  BY DEF SendCommand, Frame
<1>2. /\ CardType(card) /\ card \in Cards /\ CardType(card') /\ card.takes = "cmd"
      /\ call = "sd_init" <=> cmd \in {0, 8, 55, 41, 58}
      /\ call = "sdc_write_block" <=> cmd = 24
  BY <1>1 DEF TypeInv, CardType, Flow
<1>3. CASE card.kind \in {"none", "low"}
  <2>1. card' = card
    BY <1>3 DEF SendCommand
  <2>2. Listening'
    BY <1>1, <1>3, <2>1 DEF Listening, Talks
  <2>3. Inits'
    <3>1. call' = "sd_init" => cmd \notin {55, 41, 58}
      BY <1>1, <1>3 DEF Phases, Inits
    <3> QED
      BY <1>1, <1>3, <2>1, <3>1 DEF Phases, Inits
  <2>4. Reads' /\ Writes'
    BY <1>1, <1>2, <1>3, <2>1 DEF Phases, Reads, Writes, Talks, Kept
  <2> QED
    BY <1>1, <2>2, <2>3, <2>4 DEF Phases, Heeds, InitTells, Returned, TypeInv
<1>4. CASE card.kind \notin {"none", "low"}
  <2> DEFINE c == Reacts(card)
  <2>1. PICK answer \in Answers(c) : card' = [c EXCEPT !.out = answer]
    BY <1>4 DEF SendCommand
  <2>2. /\ CardType(c)
        /\ c.kind = card.kind /\ c.clocked = card.clocked /\ c.blocks = card.blocks
        /\ c.idleAfter = card.idleAfter /\ c.readyAfter = card.readyAfter
        /\ cmd = 24 => c.takes = IF card.power = "ready" THEN "token" ELSE card.takes
        /\ cmd \notin {0, 41} => c.power = card.power /\ c.acmds = card.acmds
        /\ cmd = 55 => c.app = (card.power # "off")
        /\ cmd = 0 /\ card.clocked => c.power = "idle" \/ c.cmd0s = card.cmd0s + 1
        /\ cmd = 41 /\ card.app =>
              c.power = "ready" \/ (c.power = card.power /\ c.acmds = card.acmds + 1)
    BY <1>2, ReactsIs
  <2> HIDE DEF c
  <2>3. /\ answer \in Seq(Byte)
        /\ c.power = "off" => \A k \in Nat \ {0} : At(answer, k) = FF
        /\ c.kind = "late" => \A k \in 1 .. R1Tries + 1 : At(answer, k) = FF
        /\ c.kind \in {"v1", "v2"} /\ c.power # "off" /\ (cmd = 41 => card.app) =>
              Replies(card', cmd, R1Tries)
    BY <1>2, <2>1, <2>2, AnswersIs
  <2>4. /\ card'.out = answer /\ card'.takes = c.takes /\ card'.blocks = c.blocks
        /\ card'.kind = c.kind /\ card'.power = c.power /\ card'.clocked = c.clocked /\ card'.app = c.app
        /\ card'.cmd0s = c.cmd0s /\ card'.acmds = c.acmds
        /\ card'.idleAfter = c.idleAfter /\ card'.readyAfter = c.readyAfter
    BY <2>1, <2>2, <2>3, OutIs
  <2>5. /\ cmd = 41 => card.app
        /\ cmd \in {55, 41, 58} => card.kind = "v2" /\ card.power # "off"
        /\ cmd = 58 => card.power = "ready"
        /\ cmd \in {55, 41} /\ card.power = "idle" => card.acmds >= ntries
        /\ cmd = 8 /\ card.kind = "v2" /\ card.idleAfter <= NUM_ATTEMPTS => card.power = "idle"
        /\ cmd = 0 /\ card.kind = "v2" =>
             ntries <= NUM_ATTEMPTS /\ card.clocked /\ card.cmd0s >= NUM_ATTEMPTS - ntries
    BY <1>1, <1>2 DEF Phases, Inits
  <2>6. Listening'
    BY <1>1, <2>2, <2>3, <2>4, <2>5 DEF Listening, Talks
  <2>7. Inits'
    <3>1. /\ c.cmd0s \in Nat /\ c.idleAfter \in Nat /\ c.acmds \in Nat /\ card.cmd0s \in Nat
          /\ c.power \in {"off", "idle", "ready"} /\ card.acmds \in Nat
          /\ card.cmd0s < card.idleAfter /\ ntries \in Nat
      BY <2>2 DEF CardType, Cards, TypeInv, TypeOK
    <3>2. CASE cmd = 0
      BY <1>1, <2>2, <2>4, <2>5, <3>1, <3>2, Numbers DEF Inits
    <3>3. CASE cmd \in {8, 55, 58}
      <4>1. /\ card'.kind = card.kind /\ card'.power = card.power /\ card'.acmds = card.acmds
            /\ card'.idleAfter = card.idleAfter
            /\ cmd = 55 => card'.app = (card.power # "off")
        BY <2>2, <2>4, <3>3
      <4>2. CASE cmd = 8
        BY <1>1, <2>5, <4>1, <4>2 DEF Inits
      <4>3. CASE cmd = 55
        <5>1. card'.app
          BY <2>5, <4>1, <4>3
        <5> QED
          BY <1>1, <2>5, <4>1, <4>3, <5>1 DEF Inits
      <4>4. CASE cmd = 58
        BY <1>1, <2>5, <4>1, <4>4 DEF Inits
      <4> QED
        BY <3>3, <4>2, <4>3, <4>4
    <3>4. CASE cmd = 41
      BY <1>1, <2>2, <2>4, <2>5, <3>1, <3>4, Numbers DEF Inits
    <3>5. CASE call # "sd_init"
      BY <1>1, <3>5 DEF Inits
    <3> QED
      BY <1>2, <3>2, <3>3, <3>4, <3>5
  <2>8. Reads'
    BY <1>1 DEF Phases, Reads
  <2>9. Writes'
    BY <1>1, <1>2, <1>4, <2>2, <2>4 DEF Phases, Writes, Talks, Kept
  <2> QED
    BY <1>1, <2>6, <2>7, <2>8, <2>9 DEF Phases, Heeds, InitTells, Returned, TypeInv
<1> QED
  BY <1>3, <1>4

(* The four bytes of a longer response arrive in their places.             *)
LEMMA PhaseReadRes7 ==
  ASSUME TypeInv, Flow, TypeInv', Flow', Phases, ReadRes7
  PROVE  Phases'
<1>1. /\ at = "res7" /\ i' = i + 1 /\ Transfer(0)
      /\ res' = [res EXCEPT ![i + 1] = miso]
      /\ at' = IF i' = 4 THEN "deselect" ELSE "res7"
      /\ UNCHANGED <<call, cmd, ntries, before>>
  BY DEF ReadRes7, Frame
<1>2. /\ selected /\ cmd \in {8, 58} /\ i \in 0 .. 3 /\ card.takes = "cmd" /\ call = "sd_init"
      /\ res \in [0 .. 4 -> Byte]
  BY <1>1 DEF Flow, TypeInv, TypeOK
<1>3. /\ card'.kind = card.kind /\ card'.power = card.power
      /\ card'.idleAfter = card.idleAfter
      /\ card.kind # "none" => \A k \in Nat \ {0} : At(card'.out, k) = At(card.out, k + 1)
  <2>1. 0 \in Byte /\ 0 # SD_START_TOKEN
    BY DEF Byte, SD_START_TOKEN
  <2> QED
    BY <1>1, <1>2, <2>1, Exchanged
<1>4. card.kind \in {"v1", "v2"} => miso = At(card.out, 1)
  BY <1>2, Hears
<1>5. /\ res'[0] = res[0] /\ res'[i + 1] = miso
      /\ i # 0 => res'[1] = res[1]
  BY <1>1, <1>2
<1>6. Heard' = Heard
  BY <1>1, <1>3 DEF Heard, HeardOf, R1
<1>7. Heeds'
  <2>1. res'[0] = Heard'
    BY <1>1, <1>2, <1>5, <1>6 DEF Phases, Heeds
  <2>2. Talks' => Talks /\ card.power # "off" /\ card'.power # "off"
    BY <1>1, <1>3 DEF Phases, Heeds, Talks
  <2>3. ASSUME Talks', cmd = 8
        PROVE  /\ card'.kind = "v2"
               /\ i' # 4 => At(card'.out, 4 - i') = 170
               /\ i' = 4 => res'[4] = 170
    <3>1. card.kind = "v2" /\ At(card.out, 4 - i) = 170
      BY <1>1, <2>2, <2>3 DEF Phases, Heeds
    <3>2. i' # 4 => 4 - i' \in Nat \ {0} /\ (4 - i') + 1 = 4 - i
      BY <1>1, <1>2
    <3>3. i' = 4 => 4 - i = 1 /\ i + 1 = 4
      BY <1>1, <1>2
    <3> QED
      BY <1>3, <1>4, <1>5, <3>1, <3>2, <3>3
  <2>4. ASSUME Talks', cmd = 58
        PROVE  res'[1] = IF card.power = "ready" THEN 192 ELSE 0
    <3>1. IF i = 0 THEN At(card.out, 1) = IF card.power = "ready" THEN 192 ELSE 0
                   ELSE res[1] = IF card.power = "ready" THEN 192 ELSE 0
      BY <1>1, <2>2, <2>4 DEF Phases, Heeds
    <3>2. miso = At(card.out, 1)
      BY <1>4, <2>2, <2>4 DEF Talks
    <3> QED
      BY <1>2, <1>5, <3>1, <3>2
  <2>5. i' # 0 /\ at' \in {"res7", "deselect"} /\ cmd' = cmd /\ (at' = "res7" => i' # 4)
        /\ (at' = "deselect" => i' = 4)
    BY <1>1, <1>2
  <2> QED
    BY <1>3, <2>1, <2>2, <2>3, <2>4, <2>5 DEF Heeds
<1>8. Inits'
  BY <1>1, <1>2, <1>3 DEF Phases, Inits
<1> QED
  BY <1>1, <1>2, <1>7, <1>8 DEF Phases, Listening, Reads, Writes, InitTells, Returned, TypeInv
(* Either the answer is a byte nearer, or it has been heard, or none will  *)
(* come.                                                                   *)
LEMMA PhaseReadRes1 ==
  ASSUME TypeInv, Flow, TypeInv', Flow', Phases, ReadRes1
  PROVE  Phases'
<1>1. /\ at = "res1" /\ ntry' = ntry - 1 /\ Transfer(FF)
      /\ res' = [res EXCEPT ![0] = miso] /\ readAttempts' = 0
      /\ UNCHANGED <<call, cmd, ntries, i, token, buf, before>>
  BY DEF ReadRes1, Frame
<1>2. at' = CASE miso = FF /\ ntry > 0            -> "res1"
              [] cmd \in {8, 58} /\ miso <= 1    -> "res7"
              [] cmd = 17 /\ miso # FF           -> "token"
              [] cmd = 24 /\ miso = 0            -> "send"
              [] OTHER                           -> "deselect"
  BY DEF ReadRes1, Unanswered
<1>3. /\ selected /\ i = 0 /\ ntry \in Nat /\ card.takes # "data"
      /\ call = "sd_init" <=> cmd \in {0, 8, 55, 41, 58}
      /\ call = "sdc_read_block" <=> cmd = 17
      /\ call = "sdc_write_block" <=> cmd = 24
      /\ res \in [0 .. 4 -> Byte]
      /\ cmd \in {0, 8, 55, 41, 58, 17, 24}
  BY <1>1 DEF Flow, TypeInv
<1>4. /\ card'.kind = card.kind /\ card'.power = card.power /\ card'.clocked = card.clocked
      /\ card'.cmd0s = card.cmd0s /\ card'.acmds = card.acmds /\ card'.app = card.app
      /\ card'.idleAfter = card.idleAfter /\ card'.readyAfter = card.readyAfter
      /\ card'.takes = card.takes /\ card'.blocks = card.blocks
      /\ card.kind # "none" => \A k \in Nat \ {0} : At(card'.out, k) = At(card.out, k + 1)
  <2>1. FF \in Byte /\ FF # SD_START_TOKEN
    BY DEF Byte, FF, SD_START_TOKEN
  <2> QED
    BY <1>1, <1>3, <2>1, Exchanged
<1>5. /\ card.kind \in AllKinds /\ card.power \in {"off", "idle", "ready"}
      /\ miso \in Byte
      /\ card.kind \in {"v1", "v2", "late"} => miso = At(card.out, 1)
      /\ card.kind = "low" => miso = 0
      /\ card.kind = "none" => miso = FF
  BY <1>3, Hears
<1>6. Heard' = Heard
  BY <1>1, <1>4 DEF Heard, HeardOf, R1
<1>7. /\ Talks /\ card.power # "off" => Replies(card, cmd, ntry)
      /\ Talks /\ card.power = "off" => \A k \in Nat \ {0} : At(card.out, k) = FF
      /\ card.kind = "late" => \A k \in 1 .. ntry + 1 : At(card.out, k) = FF
  BY <1>1 DEF Phases, Listening
<1>8. Inits'
  <2>1. at' \in {"res1", "deselect", "res7"} \/ call # "sd_init"
    BY <1>2, <1>3
  <2>2. call = "sd_init" /\ at' = "res7" => cmd \notin {0, 55, 41}
    BY <1>2, <1>5
  <2> QED
    BY <1>1, <1>4, <2>1, <2>2 DEF Phases, Inits
<1>9. TypeOK' /\ at' # "return"
  BY <1>2 DEF TypeInv
<1>10. CASE miso = FF /\ ntry > 0
  <2>1. at' = "res1"
    BY <1>2, <1>10 DEF FF
  <2>2. card.kind = "late" => \A k \in 1 .. ntry' + 1 : At(card'.out, k) = FF
    <3>1. SUFFICES ASSUME card.kind = "late", NEW k \in 1 .. ntry' + 1
                   PROVE  At(card'.out, k) = FF
      OBVIOUS
    <3>2. k \in Nat \ {0} /\ k + 1 \in 1 .. ntry + 1
      BY <1>1, <1>3
    <3> QED
      BY <1>4, <1>7, <3>1, <3>2
  <2>3. Talks /\ card.power = "off" => \A k \in Nat \ {0} : At(card'.out, k) = FF
    BY <1>4, <1>7 DEF Talks
  <2>4. Talks /\ card.power # "off" => Replies(card', cmd, ntry')
    <3>1. SUFFICES ASSUME Talks, card.power # "off" PROVE Replies(card', cmd, ntry')
      OBVIOUS
    <3>2. PICK n \in Nat : /\ n <= ntry
                           /\ \A k \in 1 .. n : At(card.out, k) = FF
                           /\ At(card.out, n + 1) = HeardOf(card, cmd)
                           /\ Follows(card, cmd, n + 1)
      BY <1>7, <3>1 DEF Replies
    <3>3. HeardOf(card, cmd) # FF
      BY <1>5, <3>1 DEF HeardOf, Talks, R1, IllegalCommand, FF
    <3>4. n # 0
      <4>1. n = 0 => n + 1 = 1
        OBVIOUS
      <4> QED
        BY <1>5, <1>10, <3>1, <3>2, <3>3, <4>1 DEF Talks
    <3> DEFINE m == n - 1
    <3>5. m \in Nat /\ m + 1 = n /\ m <= ntry'
      BY <1>1, <1>3, <3>2, <3>4
    <3> HIDE DEF m
    <3>6. \A k \in Nat \ {0} : At(card'.out, k) = At(card.out, k + 1)
      BY <1>4, <3>1 DEF Talks
    <3>7. \A k \in 1 .. m : At(card'.out, k) = FF
      <4>1. ASSUME NEW k \in 1 .. m PROVE k \in Nat \ {0} /\ k + 1 \in 1 .. n
        BY <3>5
      <4> QED
        BY <3>2, <3>6, <4>1
    <3>8. \A k \in Nat : At(card'.out, m + 1 + k) = At(card.out, n + 1 + k)
      <4>1. ASSUME NEW k \in Nat PROVE m + 1 + k \in Nat \ {0} /\ m + 1 + k + 1 = n + 1 + k
        BY <3>5
      <4> QED
        BY <3>6, <4>1
    <3>9. At(card'.out, m + 1) = HeardOf(card', cmd)
      <4>1. m + 1 + 0 = m + 1 /\ n + 1 + 0 = n + 1
        BY <3>5
      <4>2. HeardOf(card', cmd) = HeardOf(card, cmd)
        BY <1>4 DEF HeardOf, R1
      <4> QED
        BY <3>2, <3>8, <4>1, <4>2
    <3>10. Follows(card', cmd, m + 1)
      <4>1. cmd = 17 => BlockIn(card'.out, card'.blocks[0], m + 1)
        <5> SUFFICES ASSUME cmd = 17 PROVE BlockIn(card'.out, card'.blocks[0], m + 1)
          OBVIOUS
        <5>1. BlockIn(card.out, card.blocks[0], n + 1)
          BY <3>2 DEF Follows
        <5> DEFINE p == n + 1
                   q == m + 1
        <5>2. /\ p \in Nat /\ q \in Nat /\ BlockIn(card.out, card.blocks[0], p)
              /\ \A k \in Nat \ {0} : At(card'.out, q + k) = At(card.out, p + k)
          <6>1. p \in Nat /\ q \in Nat /\ BlockIn(card.out, card.blocks[0], p)
            BY <3>5, <5>1
          <6>2. ASSUME NEW k \in Nat \ {0} PROVE At(card'.out, q + k) = At(card.out, p + k)
            BY <3>8
          <6> QED
            BY <6>1, <6>2
        <5> HIDE DEF p, q
        <5>3. BlockIn(card'.out, card.blocks[0], q)
          BY <5>2, BlockMoves
        <5> USE DEF q
        <5> QED
          BY <1>4, <5>3
      <4>2. /\ At(card'.out, m + 1 + 4) = At(card.out, n + 1 + 4)
            /\ At(card'.out, m + 1 + 1) = At(card.out, n + 1 + 1)
        BY <3>8
      <4> QED
        BY <1>4, <3>2, <4>1, <4>2 DEF Follows
    <3> QED
      BY <3>5, <3>7, <3>9, <3>10 DEF Replies
  <2>5. Listening'
    BY <1>1, <1>4, <2>2, <2>3, <2>4 DEF Listening, Talks
  <2>6. Reads' /\ Writes'
    BY <1>1, <1>4, <2>1 DEF Phases, Reads, Writes, Kept, Talks
  <2> QED
    BY <1>8, <1>9, <2>1, <2>5, <2>6 DEF Phases, Heeds, InitTells, Returned
<1>11. CASE ~ (miso = FF /\ ntry > 0)
  <2>1. at' = CASE cmd \in {8, 58} /\ miso <= 1    -> "res7"
                [] cmd = 17 /\ miso # FF           -> "token"
                [] cmd = 24 /\ miso = 0            -> "send"
                [] OTHER                           -> "deselect"
    BY <1>2, <1>11
  <2>2. Talks /\ card.power # "off" =>
          miso = HeardOf(card, cmd) /\ Follows(card, cmd, 1)
    <3>1. SUFFICES ASSUME Talks, card.power # "off"
                   PROVE  miso = HeardOf(card, cmd) /\ Follows(card, cmd, 1)
      OBVIOUS
    <3>2. PICK n \in Nat : /\ n <= ntry
                           /\ \A k \in 1 .. n : At(card.out, k) = FF
                           /\ At(card.out, n + 1) = HeardOf(card, cmd)
                           /\ Follows(card, cmd, n + 1)
      BY <1>7, <3>1 DEF Replies
    <3>3. n # 0 => 1 \in 1 .. n /\ ntry > 0
      BY <1>3, <3>2
    <3>4. n = 0
      BY <1>5, <1>11, <3>1, <3>2, <3>3 DEF Talks
    <3>5. n + 1 = 1
      BY <3>4
    <3> QED
      BY <1>5, <3>1, <3>2, <3>5 DEF Talks
  <2>3. miso = Heard
    <3>1. CASE Talks /\ card.power # "off"
      BY <2>2, <3>1 DEF Heard
    <3>2. CASE Talks /\ card.power = "off"
      <4>1. At(card.out, 1) = FF
        BY <1>7, <3>2
      <4> QED
        BY <1>5, <3>2, <4>1 DEF Heard, HeardOf, Talks
    <3>3. CASE card.kind = "late"
      <4>1. 1 \in 1 .. ntry + 1
        BY <1>3
      <4>2. At(card.out, 1) = FF
        BY <1>7, <3>3, <4>1
      <4> QED
        BY <1>5, <3>3, <4>2 DEF Heard, HeardOf
    <3>4. CASE card.kind \in {"low", "none"}
      BY <1>5, <3>4 DEF Heard, HeardOf
    <3> QED
      BY <1>5, <3>1, <3>2, <3>3, <3>4 DEF Talks, AllKinds
  <2>4. res'[0] = miso
    BY <1>1, <1>3
  <2>5. /\ at' \in {"res7", "token", "send", "deselect"}
        /\ at' = "res7" => cmd \in {8, 58} /\ miso <= 1
        /\ at' = "token" => cmd = 17 /\ miso # FF
        /\ at' = "send" => cmd = 24 /\ miso = 0
        /\ at' = "deselect" => ~ (cmd \in {8, 58} /\ miso <= 1)
    BY <2>1
  <2>6. Heeds'
    <3>1. at' = "res7" /\ Talks =>
            /\ card.power # "off"
            /\ cmd = 8 => card.kind = "v2"
      BY <1>5, <2>3, <2>5 DEF Heard, HeardOf, R1, IllegalCommand, FF, Talks
    <3>2. at' = "res7" /\ Talks =>
            /\ cmd = 8 => At(card'.out, 4 - i') = 170
            /\ cmd = 58 => At(card'.out, 1) = IF card.power = "ready" THEN 192 ELSE 0
      <4> SUFFICES ASSUME at' = "res7", Talks
                   PROVE  /\ cmd = 8 => At(card'.out, 4 - i') = 170
                          /\ cmd = 58 => At(card'.out, 1) = IF card.power = "ready" THEN 192 ELSE 0
        OBVIOUS
      <4>1. Follows(card, cmd, 1)
        BY <2>2, <3>1
      <4>2. 4 - i' = 4 /\ 1 + 4 = 4 + 1
        BY <1>1, <1>3
      <4>3. At(card'.out, 4) = At(card.out, 4 + 1) /\ At(card'.out, 1) = At(card.out, 1 + 1)
        BY <1>4 DEF Talks
      <4>4. cmd = 8 => At(card.out, 1 + 4) = 170
        BY <3>1, <4>1 DEF Follows
      <4>5. cmd = 58 => At(card.out, 1 + 1) = IF card.power = "ready" THEN 192 ELSE 0
        BY <4>1 DEF Follows
      <4> QED
        BY <4>2, <4>3, <4>4, <4>5
    <3>3. at' = "deselect" /\ Talks /\ card.power # "off" => ~ (cmd = 8 /\ card.kind = "v2") /\ cmd # 58
      BY <1>5, <2>3, <2>5 DEF Heard, HeardOf, R1, IllegalCommand, FF, Talks
    <3>4. i' = 0 /\ cmd' = cmd /\ (Talks' <=> Talks)
      BY <1>1, <1>3, <1>4 DEF Talks
    <3> QED
      BY <1>4, <1>6, <2>3, <2>4, <2>5, <3>1, <3>2, <3>3, <3>4 DEF Heeds
  <2>7. Reads'
    <3>1. SUFFICES ASSUME call = "sdc_read_block" PROVE Reads'
      BY <1>1 DEF Reads
    <3>2. cmd = 17 /\ token = FF
      BY <1>1, <1>3, <3>1 DEF Phases, Reads
    <3>3. CASE at' = "token" /\ card.kind # "low"
      <4>1. Talks /\ card.power # "off"
        BY <1>5, <2>3, <2>5, <3>3 DEF Heard, HeardOf, Talks
      <4>2. BlockIn(card.out, card.blocks[0], 1)
        BY <2>2, <3>2, <4>1 DEF Follows
      <4>3. BlockIn(card'.out, card'.blocks[0], 0)
        BY <1>4, <4>1, <4>2, BlockShift DEF Talks
      <4> QED
        BY <1>1, <1>4, <3>2, <3>3, <4>1, <4>3 DEF Reads, Talks
    <3>4. CASE at' = "token" /\ card.kind = "low"
      BY <1>1, <1>4, <3>2, <3>4 DEF Reads, Talks
    <3>5. CASE at' = "deselect"
      BY <1>1, <3>2, <3>5 DEF Reads, FF, SD_START_TOKEN
    <3> QED
      BY <2>5, <3>2, <3>3, <3>4, <3>5
  <2>8. Writes'
    <3>1. SUFFICES ASSUME call = "sdc_write_block" PROVE Writes'
      BY <1>1 DEF Writes
    <3>2. /\ cmd = 24 /\ token = FF /\ Kept
          /\ card.kind = "low" => card.takes = "cmd"
          /\ Talks => card.takes = IF card.power = "ready" THEN "token" ELSE "cmd"
      BY <1>1, <1>3, <3>1 DEF Phases, Writes
    <3>3. Kept' /\ token' = FF
      BY <1>1, <1>4, <3>2 DEF Kept
    <3>4. CASE at' = "send"
      <4>1. card.kind = "low" \/ (Talks /\ card.power = "ready")
        BY <1>5, <2>3, <2>5, <3>2, <3>4 DEF Heard, HeardOf, Talks, R1, IllegalCommand, FF
      <4> QED
        BY <1>1, <1>3, <1>4, <3>2, <3>3, <3>4, <4>1 DEF Writes, Talks
    <3>5. CASE at' = "deselect"
      BY <1>1, <3>3, <3>5 DEF Writes, FF, SD_DATA_ACCEPTED
    <3> QED
      BY <2>5, <3>2, <3>4, <3>5
  <2> QED
    BY <1>8, <1>9, <2>5, <2>6, <2>7, <2>8 DEF Phases, Listening, InitTells, Returned
<1> QED
  BY <1>10, <1>11
(* The token is awaited: the limit is reached only in silence, and what    *)
(* follows the token is the block.                                         *)
LEMMA PhaseAwaitToken ==
  ASSUME TypeInv, Flow, TypeInv', Flow', Phases, AwaitToken
  PROVE  Phases'
<1>1. /\ at = "token" /\ readAttempts' = readAttempts + 1 /\ i' = 0
      /\ IF readAttempts' = MAX_READ THEN UNCHANGED <<read, card>> ELSE Transfer(FF) /\ read' = miso
      /\ IF readAttempts' # MAX_READ /\ read' = FF
         THEN UNCHANGED <<at, token>>
         ELSE token' = read' /\ at' = IF read' = SD_START_TOKEN THEN "data" ELSE "deselect"
      /\ UNCHANGED <<call, cmd, ntries, res, buf, before>>
  BY DEF AwaitToken, Attempts, Frame
<1>2. /\ cmd = 17 /\ call = "sdc_read_block" /\ selected /\ card.takes = "cmd" /\ buf = <<>>
      /\ readAttempts \in Nat
  BY <1>1 DEF Flow, TypeInv, TypeOK
<1>3. /\ token = FF
      /\ readAttempts > 0 => read = FF
      /\ card.kind # "low" => Talks /\ BlockIn(card.out, card.blocks[0], 0)
  BY <1>1, <1>2 DEF Phases, Reads
<1>4. TypeOK' /\ at' \in {"token", "data", "deselect"}
  BY <1>1 DEF TypeInv
<1>5. CASE readAttempts' = MAX_READ
  <2>1. read' = FF /\ card' = card
    BY <1>1, <1>2, <1>3, <1>5, Numbers
  <2>2. at' = "deselect" /\ token' = FF
    BY <1>1, <1>5, <2>1 DEF FF, SD_START_TOKEN
  <2> QED
    BY <1>1, <1>2, <1>4, <2>2
       DEF Phases, Listening, Heeds, Inits, Reads, Writes, InitTells, Returned, FF, SD_START_TOKEN
<1>6. CASE readAttempts' # MAX_READ
  <2>1. Transfer(FF) /\ read' = miso
    BY <1>1, <1>6
  <2>2. /\ card'.kind = card.kind /\ card'.blocks = card.blocks
        /\ card.kind # "none" => \A k \in Nat \ {0} : At(card'.out, k) = At(card.out, k + 1)
    <3>1. FF \in Byte /\ FF # SD_START_TOKEN
      BY DEF Byte, FF, SD_START_TOKEN
    <3> QED
      BY <1>2, <2>1, <3>1, Exchanged
  <2>3. /\ card.kind \in {"v1", "v2", "late"} => miso = At(card.out, 1)
        /\ card.kind = "low" => miso = 0
    BY <1>2, Hears
  <2>4. CASE miso = FF
    <3>1. at' = "token" /\ token' = FF /\ read' = FF
      BY <1>1, <1>3, <1>6, <2>1, <2>4
    <3>2. Talks /\ card.kind # "low"
      BY <1>3, <2>3, <2>4 DEF FF
    <3>3. BlockIn(card'.out, card.blocks[0], 0)
      BY <1>3, <2>2, <2>3, <2>4, <3>2, BlockWaits DEF Talks
    <3> QED
      BY <1>1, <1>2, <1>4, <2>2, <3>1, <3>2, <3>3
         DEF Phases, Listening, Heeds, Inits, Reads, Writes, InitTells, Returned, Talks
  <2>5. CASE miso = SD_START_TOKEN
    <3>1. at' = "data" /\ token' = SD_START_TOKEN
      BY <1>1, <1>6, <2>1, <2>5 DEF FF, SD_START_TOKEN
    <3>2. Talks /\ card.kind # "low"
      BY <1>3, <2>3, <2>5 DEF SD_START_TOKEN
    <3>3. At(card.out, 1) = SD_START_TOKEN
      BY <2>3, <2>5, <3>2 DEF Talks
    <3>4. \A k \in 1 .. BLOCK_LEN : At(card.out, 1 + k) = card.blocks[0][k]
      BY <1>3, <3>2, <3>3, BlockStarts
    <3>5. \A k \in 1 .. BLOCK_LEN - 0 : At(card'.out, k) = card'.blocks[0][0 + k]
      <4>1. SUFFICES ASSUME NEW k \in 1 .. BLOCK_LEN - 0
                     PROVE  At(card'.out, k) = card'.blocks[0][0 + k]
        OBVIOUS
      <4>2. k \in 1 .. BLOCK_LEN /\ k \in Nat \ {0} /\ k + 1 = 1 + k /\ 0 + k = k
        BY Numbers
      <4>3. At(card'.out, k) = At(card.out, k + 1)
        BY <2>2, <3>2, <4>2 DEF Talks
      <4> QED
        BY <2>2, <3>4, <4>2, <4>3
    <3>6. Len(buf') = 0 /\ 1 .. 0 = {}
      BY <1>1, <1>2
    <3>7. Reads'
      BY <1>1, <1>2, <2>2, <3>1, <3>2, <3>5, <3>6 DEF Reads, Talks
    <3> QED
      BY <1>1, <1>2, <1>4, <3>1, <3>7
         DEF Phases, Listening, Heeds, Inits, Writes, InitTells, Returned
  <2>6. CASE miso \notin {FF, SD_START_TOKEN}
    <3>1. at' = "deselect" /\ token' # SD_START_TOKEN
      BY <1>1, <1>6, <2>1, <2>6
    <3> QED
      BY <1>1, <1>2, <1>4, <3>1
         DEF Phases, Listening, Heeds, Inits, Reads, Writes, InitTells, Returned
  <2> QED
    BY <2>4, <2>5, <2>6
<1> QED
  BY <1>5, <1>6

(* A byte of the block moves from the card to the buffer.                  *)
LEMMA PhaseReadData ==
  ASSUME TypeInv, Flow, TypeInv', Flow', Phases, ReadData
  PROVE  Phases'
<1>1. /\ at = "data" /\ i' = i + 1 /\ Transfer(FF)
      /\ buf' = IF i >= BLOCK_LEN THEN buf ELSE Append(buf, miso)
      /\ at' = IF i' = BLOCK_LEN + 2 THEN "deselect" ELSE "data"
      /\ UNCHANGED <<call, cmd, ntries, res, token, before>>
  BY DEF ReadData, Whole, Frame
<1>2. /\ cmd = 17 /\ call = "sdc_read_block" /\ selected /\ card.takes = "cmd"
      /\ i \in Nat /\ i <= BLOCK_LEN + 1 /\ buf \in Seq(Byte)
      /\ Len(buf) = IF i < BLOCK_LEN THEN i ELSE BLOCK_LEN
  BY <1>1 DEF Flow, TypeInv, TypeOK
<1>3. /\ token = SD_START_TOKEN /\ Talks
      /\ \A k \in 1 .. Len(buf) : buf[k] = card.blocks[0][k]
      /\ \A k \in 1 .. BLOCK_LEN - i : At(card.out, k) = card.blocks[0][i + k]
  BY <1>1, <1>2 DEF Phases, Reads
<1>4. /\ card'.kind = card.kind /\ card'.blocks = card.blocks
      /\ \A k \in Nat \ {0} : At(card'.out, k) = At(card.out, k + 1)
  <2>1. FF \in Byte /\ FF # SD_START_TOKEN /\ card.kind # "none"
    BY <1>3 DEF Byte, FF, SD_START_TOKEN, Talks
  <2> QED
    BY <1>1, <1>2, <2>1, Exchanged
<1>5. miso = At(card.out, 1) /\ miso \in Byte
  BY <1>2, <1>3, Hears DEF Talks
<1>6. \A k \in 1 .. Len(buf') : buf'[k] = card.blocks[0][k]
  <2>1. CASE i >= BLOCK_LEN
    BY <1>1, <1>3, <2>1
  <2>2. CASE i < BLOCK_LEN
    <3>1. /\ buf' = Append(buf, miso) /\ Len(buf) = i
      BY <1>1, <1>2, <2>2, Numbers
    <3>2. /\ Len(buf') = i + 1
          /\ \A k \in 1 .. i : buf'[k] = buf[k]
          /\ buf'[i + 1] = miso
      BY <1>2, <1>5, <3>1, AppendProperties
    <3>3. miso = card.blocks[0][i + 1]
      <4>1. 1 \in 1 .. BLOCK_LEN - i
        BY <1>2, <2>2, Numbers
      <4> QED
        BY <1>3, <1>5, <4>1
    <3>4. ASSUME NEW k \in 1 .. i + 1 PROVE buf'[k] = card.blocks[0][k]
      <4>1. CASE k = i + 1
        BY <3>2, <3>3, <4>1
      <4>2. CASE k # i + 1
        <5>1. k \in 1 .. i
          BY <1>2, <4>2
        <5> QED
          BY <1>3, <3>1, <3>2, <5>1
      <4> QED
        BY <4>1, <4>2
    <3> QED
      BY <3>2, <3>4
  <2> QED
    BY <1>2, <2>1, <2>2, Numbers
<1>7. \A k \in 1 .. BLOCK_LEN - i' : At(card'.out, k) = card.blocks[0][i' + k]
  <2>1. SUFFICES ASSUME NEW k \in 1 .. BLOCK_LEN - i'
                 PROVE  At(card'.out, k) = card.blocks[0][i' + k]
    OBVIOUS
  <2>2. k \in Nat \ {0} /\ k + 1 \in 1 .. BLOCK_LEN - i /\ i' + k = i + (k + 1)
    BY <1>1, <1>2, Numbers
  <2> QED
    BY <1>3, <1>4, <2>2
<1>8. i' = BLOCK_LEN + 2 => buf' = card.blocks[0]
  <2> SUFFICES ASSUME i' = BLOCK_LEN + 2 PROVE buf' = card.blocks[0]
    OBVIOUS
  <2>1. buf' = buf /\ Len(buf) = BLOCK_LEN
    BY <1>1, <1>2, Numbers
  <2>2. card.blocks[0] \in Seq(Byte) /\ Len(card.blocks[0]) = BLOCK_LEN
    BY Numbers DEF TypeInv, CardType, Cards, BlockSet
  <2> QED
    BY <1>2, <1>6, <2>1, <2>2, SeqEqual
<1>9. at' \in {"data", "deselect"} /\ (at' = "deselect" => i' = BLOCK_LEN + 2)
  BY <1>1
<1>10. Reads'
  BY <1>1, <1>2, <1>3, <1>4, <1>6, <1>7, <1>8, <1>9 DEF Reads, Talks
<1>11. TypeOK'
  BY DEF TypeInv
<1> QED
  BY <1>1, <1>2, <1>9, <1>10, <1>11
     DEF Phases, Listening, Heeds, Inits, Writes, InitTells, Returned
(* A byte of the block moves to the card, which answers the last one.      *)
LEMMA PhaseWriteData ==
  ASSUME TypeInv, Flow, TypeInv', Flow', Phases, WriteData
  PROVE  Phases'
<1> DEFINE b == IF i = 0 THEN SD_START_TOKEN ELSE buf[i]
<1>1. /\ at = "send" /\ i' = i + 1 /\ card' \in Takes(b)
      /\ at' = IF i = BLOCK_LEN THEN "response" ELSE "send"
      /\ UNCHANGED <<call, cmd, ntries, token, before>>
  BY DEF WriteData, Frame, Transfer
<1>2. /\ cmd = 24 /\ call = "sdc_write_block" /\ selected /\ i \in 0 .. BLOCK_LEN
      /\ buf = Written /\ CardType(card) /\ BLOCK_LEN \in Nat /\ BLOCK_LEN > 1
  BY <1>1, Numbers DEF Flow, TypeInv, TypeOK
<1>3. /\ token = FF /\ Kept
      /\ (card.kind = "low" /\ card.takes = "cmd") \/ Talks
      /\ Talks =>
           /\ card.takes = IF i = 0 THEN "token" ELSE "data"
           /\ i > 0 => Len(card.data) = i - 1 /\ \A k \in 1 .. i - 1 : card.data[k] = Written[k]
  BY <1>1, <1>2 DEF Phases, Writes
<1>4. b \in Byte /\ (i # 0 => b = Written[i])
  <2>1. SD_START_TOKEN \in Byte
    BY DEF Byte, SD_START_TOKEN
  <2>2. i # 0 => Written[i] \in Byte
    BY <1>2, Numbers, ElementOfSeq DEF BlockSet
  <2> QED
    BY <1>2, <2>1, <2>2
<1>5. i = 0 => b = SD_START_TOKEN
  OBVIOUS
<1> HIDE DEF b
<1> DEFINE c == card'
<1>6. /\ c.kind = card.kind
      /\ card.takes = "cmd" => c.takes = "cmd"
      /\ card.takes # "data" => c.blocks = card.blocks
      /\ selected /\ card.kind # "none" /\ card.takes = "token" /\ b = SD_START_TOKEN =>
           c.takes = "data" /\ c.data = <<>>
      /\ selected /\ card.kind # "none" /\ card.takes = "data" /\ Len(card.data) + 1 < BLOCK_LEN =>
           c.takes = "data" /\ c.data = Append(card.data, b) /\ c.blocks = card.blocks
      /\ selected /\ card.kind # "none" /\ card.takes = "data" /\ ~ (Len(card.data) + 1 < BLOCK_LEN) =>
           /\ c.takes = "cmd"
           /\ \E n \in Nat :
                /\ \A k \in 1 .. n : At(c.out, k) = FF
                /\ \/ /\ At(c.out, n + 1) = 229
                      /\ c.blocks = [card.blocks EXCEPT ![0] = Append(card.data, b)]
                   \/ At(c.out, n + 1) = 237 /\ c.blocks = card.blocks
  BY <1>1, <1>2, <1>4, TakesIs
<1>7. TypeOK' /\ at' \in {"send", "response"}
  BY <1>1 DEF TypeInv
<1>8. CASE card.kind = "low"
  <2>1. card.takes = "cmd"
    BY <1>3, <1>8 DEF Talks
  <2> QED
    BY <1>1, <1>2, <1>3, <1>6, <1>7, <1>8, <2>1
       DEF Phases, Listening, Heeds, Inits, Reads, Writes, InitTells, Returned, Talks, Kept
<1>9. CASE Talks /\ i = 0
  <2>1. /\ at' = "send" /\ i' = 1 /\ c.takes = "data" /\ c.data = <<>> /\ c.blocks = card.blocks
    BY <1>1, <1>2, <1>3, <1>5, <1>6, <1>9 DEF Talks
  <2>2. Len(c.data) = i' - 1 /\ \A k \in 1 .. i' - 1 : c.data[k] = Written[k]
    BY <2>1
  <2>3. Writes'
    BY <1>1, <1>3, <1>6, <1>9, <2>1, <2>2 DEF Writes, Talks, Kept
  <2> QED
    BY <1>1, <1>2, <1>7, <2>3
       DEF Phases, Listening, Heeds, Inits, Reads, InitTells, Returned
<1>10. CASE Talks /\ i > 0
  <2>1. /\ card.takes = "data" /\ Len(card.data) = i - 1 /\ card.data \in Seq(Byte)
        /\ \A k \in 1 .. i - 1 : card.data[k] = Written[k]
    BY <1>2, <1>3, <1>10 DEF CardType, Cards
  <2> DEFINE all == Append(card.data, b)
  <2>2. /\ all \in Seq(Byte) /\ Len(all) = i
        /\ \A k \in 1 .. i - 1 : all[k] = card.data[k]
        /\ all[i] = b
    BY <1>2, <1>4, <2>1, AppendProperties
  <2>3. ASSUME NEW k \in 1 .. i PROVE all[k] = Written[k]
    <3>1. CASE k = i
      BY <1>4, <1>10, <2>2, <3>1
    <3>2. CASE k # i
      <4>1. k \in 1 .. i - 1
        BY <1>2, <3>2
      <4> QED
        BY <2>1, <2>2, <4>1
    <3> QED
      BY <3>1, <3>2
  <2> HIDE DEF all
  <2>4. CASE i < BLOCK_LEN
    <3>1. /\ at' = "send" /\ c.takes = "data" /\ c.data = all /\ c.blocks = card.blocks
      BY <1>1, <1>2, <1>6, <1>10, <2>1, <2>4 DEF Talks, all
    <3>2. i' # 0 /\ Len(c.data) = i' - 1 /\ \A k \in 1 .. i' - 1 : c.data[k] = Written[k]
      BY <1>1, <1>2, <2>2, <2>3, <3>1
    <3>3. Writes'
      BY <1>1, <1>3, <1>6, <1>10, <3>1, <3>2 DEF Writes, Talks, Kept
    <3> QED
      BY <1>1, <1>2, <1>7, <3>3
         DEF Phases, Listening, Heeds, Inits, Reads, InitTells, Returned
  <2>5. CASE i = BLOCK_LEN
    <3>1. at' = "response" /\ ~ (Len(card.data) + 1 < BLOCK_LEN)
      BY <1>1, <1>2, <2>1, <2>5
    <3>2. all = Written
      BY <2>2, <2>3, <2>5, Numbers, SeqEqual DEF BlockSet
    <3>3. /\ c.takes = "cmd"
          /\ \E n \in Nat :
                /\ \A k \in 1 .. n : At(c.out, k) = FF
                /\ \/ At(c.out, n + 1) = 229 /\ c.blocks = [card.blocks EXCEPT ![0] = Written]
                   \/ At(c.out, n + 1) = 237 /\ c.blocks = card.blocks
      BY <1>2, <1>6, <1>10, <2>1, <3>1, <3>2 DEF Talks, all
    <3>4. [card.blocks EXCEPT ![0] = Written][0] = Written
      BY <1>2, Numbers DEF CardType, Cards
    <3>5. \E n \in Nat :
                /\ \A k \in 1 .. n : At(card'.out, k) = FF
                /\ \/ At(card'.out, n + 1) = 229 /\ Stored'
                   \/ At(card'.out, n + 1) = 237 /\ Kept'
      BY <1>1, <1>3, <3>3, <3>4 DEF Stored, Kept
    <3>6. Writes'
      BY <1>1, <1>3, <1>6, <1>10, <3>1, <3>3, <3>5 DEF Writes, Talks
    <3> QED
      BY <1>1, <1>2, <1>7, <3>1, <3>6
         DEF Phases, Listening, Heeds, Inits, Reads, InitTells, Returned
  <2> QED
    BY <1>2, <2>4, <2>5
<1> QED
  BY <1>2, <1>3, <1>8, <1>9, <1>10

(* The response is awaited: the uint8_t never reaches the limit of the     *)
(* wait, so the driver hears what the card has done.                       *)
LEMMA PhaseAwaitResponse ==
  ASSUME TypeInv, Flow, TypeInv', Flow', Phases, AwaitResponse
  PROVE  Phases'
<1>1. /\ cmd = 24 /\ call = "sdc_write_block" /\ selected /\ at = "response"
      /\ readAttempts \in Nat /\ card.takes = "cmd"
  BY DEF AwaitResponse, Flow, TypeInv, TypeOK, Phases, Writes
<1>2. (readAttempts + 1) % U8 # MAX_WRITE
  <2>1. (readAttempts + 1) % U8 \in 0 .. U8 - 1
    BY <1>1, ModuloIs
  <2> DEFINE next == (readAttempts + 1) % U8
  <2>2. next \in 0 .. U8 - 1
    BY <2>1
  <2> HIDE DEF next
  <2>3. next # MAX_WRITE
    BY <2>2, Numbers
  <2> QED
    BY <2>3 DEF next
<1>3. /\ Transfer(FF)
      /\ IF miso = FF
         THEN UNCHANGED <<at, token>>
         ELSE /\ at' = IF Accepted(miso) THEN "busy" ELSE "deselect"
              /\ token' = IF Accepted(miso) THEN SD_DATA_ACCEPTED ELSE FF
      /\ UNCHANGED <<call, cmd, ntries, before>>
  BY <1>2 DEF AwaitResponse, WriteAttempts, Frame
<1>4. /\ card'.kind = card.kind /\ card'.blocks = card.blocks /\ card'.takes = "cmd"
      /\ card.kind # "none" => \A k \in Nat \ {0} : At(card'.out, k) = At(card.out, k + 1)
  <2>1. FF \in Byte /\ FF # SD_START_TOKEN
    BY DEF Byte, FF, SD_START_TOKEN
  <2> QED
    BY <1>1, <1>3, <2>1, Exchanged
<1>5. /\ token = FF
      /\ card.kind = "low" \/ Talks
      /\ IF card.kind = "low" THEN Kept
         ELSE \E n \in Nat :
                /\ \A k \in 1 .. n : At(card.out, k) = FF
                /\ \/ At(card.out, n + 1) = 229 /\ Stored
                   \/ At(card.out, n + 1) = 237 /\ Kept
  BY <1>1 DEF Phases, Writes
<1>6. /\ (Stored' <=> Stored) /\ (Kept' <=> Kept) /\ (Talks' <=> Talks)
  BY <1>3, <1>4 DEF Stored, Kept, Talks
<1>7. /\ card.kind \in {"v1", "v2", "late"} => miso = At(card.out, 1)
      /\ card.kind = "low" => miso = 0
  BY <1>1, Hears
<1>8. TypeOK' /\ at' \in {"response", "busy", "deselect"}
  BY <1>1, <1>3 DEF TypeInv
<1>9. SUFFICES Writes'
  BY <1>1, <1>3, <1>8 DEF Phases, Listening, Heeds, Inits, Reads, InitTells, Returned
<1>10. CASE card.kind = "low"
  <2>1. at' = "deselect" /\ token' = FF
    BY <1>3, <1>7, <1>10 DEF Accepted, FF, SD_DATA_ACCEPTED
  <2> QED
    BY <1>5, <1>6, <1>10, <2>1 DEF Writes, FF, SD_DATA_ACCEPTED
<1>11. CASE card.kind # "low"
  <2>1. PICK n \in Nat :
                /\ \A k \in 1 .. n : At(card.out, k) = FF
                /\ \/ At(card.out, n + 1) = 229 /\ Stored
                   \/ At(card.out, n + 1) = 237 /\ Kept
    BY <1>5, <1>11
  <2>2. Talks /\ miso = At(card.out, 1)
    BY <1>5, <1>7, <1>11 DEF Talks
  <2>3. CASE n = 0
    <3>1. n + 1 = 1
      BY <2>3
    <3>2. (miso = 229 /\ Stored) \/ (miso = 237 /\ Kept)
      BY <2>1, <2>2, <3>1
    <3>3. CASE miso = 229 /\ Stored
      <4>1. at' = "busy" /\ token' = SD_DATA_ACCEPTED
        BY <1>3, <3>3 DEF Accepted, FF, SD_DATA_ACCEPTED
      <4> QED
        BY <1>4, <1>6, <2>2, <3>3, <4>1 DEF Writes
    <3>4. CASE miso = 237 /\ Kept
      <4>1. at' = "deselect" /\ token' = FF
        BY <1>3, <3>4 DEF Accepted, FF, SD_DATA_ACCEPTED
      <4> QED
        BY <1>6, <3>4, <4>1 DEF Writes, FF, SD_DATA_ACCEPTED
    <3> QED
      BY <3>2, <3>3, <3>4
  <2>4. CASE n # 0
    <3>1. 1 \in 1 .. n
      BY <2>4
    <3>2. miso = FF
      BY <2>1, <2>2, <3>1
    <3>3. at' = "response" /\ token' = FF
      BY <1>1, <1>3, <1>5, <3>2
    <3> DEFINE m == n - 1
    <3>4. m \in Nat /\ m + 1 = n
      BY <2>4
    <3> HIDE DEF m
    <3>5. /\ \A k \in 1 .. m : At(card'.out, k) = FF
          /\ At(card'.out, m + 1) = At(card.out, n + 1)
      <4>1. \A k \in Nat \ {0} : At(card'.out, k) = At(card.out, k + 1)
        BY <1>4, <2>2 DEF Talks
      <4>2. ASSUME NEW k \in 1 .. m PROVE At(card'.out, k) = FF
        <5>1. k \in Nat \ {0} /\ k + 1 \in 1 .. n
          BY <3>4
        <5> QED
          BY <2>1, <4>1, <5>1
      <4>3. m + 1 \in Nat \ {0} /\ m + 1 + 1 = n + 1
        BY <3>4
      <4> QED
        BY <4>1, <4>2, <4>3
    <3>6. \E j \in Nat :
                /\ \A k \in 1 .. j : At(card'.out, k) = FF
                /\ \/ At(card'.out, j + 1) = 229 /\ Stored'
                   \/ At(card'.out, j + 1) = 237 /\ Kept'
      BY <1>6, <2>1, <3>4, <3>5
    <3> QED
      BY <1>4, <1>6, <1>11, <2>2, <3>3, <3>6 DEF Writes
  <2> QED
    BY <2>3, <2>4
<1> QED
  BY <1>10, <1>11

(* While the card is busy its block is stored already.                     *)
LEMMA PhaseAwaitWritten ==
  ASSUME TypeInv, Flow, TypeInv', Flow', Phases, AwaitWritten
  PROVE  Phases'
<1>1. /\ at = "busy" /\ Transfer(FF)
      /\ readAttempts' = IF miso = 0 THEN (readAttempts + 1) % U8 ELSE readAttempts
      /\ at' = IF miso = 0 /\ readAttempts' # MAX_WRITE THEN "busy" ELSE "deselect"
      /\ token' = IF miso = 0 /\ readAttempts' = MAX_WRITE THEN 0 ELSE token
      /\ UNCHANGED <<call, cmd, ntries, before>>
  BY DEF AwaitWritten, WriteAttempts, Frame
<1>2. /\ cmd = 24 /\ call = "sdc_write_block" /\ selected /\ card.takes = "cmd"
      /\ readAttempts \in Nat
      /\ token = SD_DATA_ACCEPTED /\ Stored /\ (card.kind = "low" \/ Talks)
  BY <1>1 DEF Flow, TypeInv, TypeOK, Phases, Writes
<1>3. miso = 0 => readAttempts' # MAX_WRITE
  <2> DEFINE next == (readAttempts + 1) % U8
  <2>1. next \in 0 .. U8 - 1 /\ (miso = 0 => readAttempts' = next)
    BY <1>1, <1>2, ModuloIs
  <2> HIDE DEF next
  <2> QED
    BY <2>1, Numbers
<1>4. /\ card'.kind = card.kind /\ card'.blocks = card.blocks /\ card'.takes = "cmd"
  <2>1. FF \in Byte /\ FF # SD_START_TOKEN
    BY DEF Byte, FF, SD_START_TOKEN
  <2> QED
    BY <1>1, <1>2, <2>1, Exchanged
<1>5. /\ at' \in {"busy", "deselect"} /\ token' = SD_DATA_ACCEPTED
  BY <1>1, <1>2, <1>3
<1>6. Writes'
  BY <1>2, <1>4, <1>5 DEF Writes, Stored, Talks
<1>7. TypeOK'
  BY DEF TypeInv
<1> QED
  BY <1>1, <1>2, <1>5, <1>6, <1>7
     DEF Phases, Listening, Heeds, Inits, Reads, InitTells, Returned
(* The driver decides what to do with what it has heard.                   *)
LEMMA PhaseDeselect ==
  ASSUME TypeInv, Flow, TypeInv', Flow', Phases, Deselect
  PROVE  Phases'
<1>1. /\ at = "deselect" /\ card' = [card EXCEPT !.out = <<>>, !.takes = "cmd"]
      /\ UNCHANGED <<call, res, token, buf, before>>
  BY DEF Deselect, NoOutput, Frame
<1>2. /\ CardType(card) /\ card \in Cards /\ selected
      /\ call = "sd_init" <=> cmd \in {0, 8, 55, 41, 58}
      /\ call = "sdc_read_block" <=> cmd = 17
      /\ call = "sdc_write_block" <=> cmd = 24
      /\ cmd \in {0, 8, 55, 41, 58, 17, 24}
      /\ cmd \in {55, 41} => ntries <= NUM_ATTEMPTS
      /\ ntries \in Nat /\ TypeOK'
  BY <1>1 DEF Flow, TypeInv, TypeOK, CardType
<1>3. /\ card'.kind = card.kind /\ card'.power = card.power /\ card'.clocked = card.clocked
      /\ card'.cmd0s = card.cmd0s /\ card'.acmds = card.acmds /\ card'.app = card.app
      /\ card'.idleAfter = card.idleAfter /\ card'.readyAfter = card.readyAfter
      /\ card'.blocks = card.blocks
  <2>1. /\ card'.kind = card.kind /\ card'.power = card.power /\ card'.clocked = card.clocked
    BY <1>1, <1>2 DEF Cards
  <2>2. /\ card'.cmd0s = card.cmd0s /\ card'.acmds = card.acmds /\ card'.app = card.app
    BY <1>1, <1>2 DEF Cards
  <2>3. /\ card'.idleAfter = card.idleAfter /\ card'.readyAfter = card.readyAfter
        /\ card'.blocks = card.blocks
    BY <1>1, <1>2 DEF Cards
  <2> QED
    BY <2>1, <2>2, <2>3
<1>4. /\ card.kind \in AllKinds /\ card.power \in {"off", "idle", "ready"}
      /\ card.cmd0s \in Nat /\ card.acmds \in Nat /\ card.idleAfter \in Nat
      /\ card.readyAfter \in Nat
      /\ card.cmd0s < card.idleAfter
      /\ card.acmds < card.readyAfter \/ card.power # "idle"
  BY <1>2 DEF CardType, Cards
<1>5. /\ call = "sd_init" => res[0] = HeardOf(card, cmd)
      /\ Talks /\ card.power # "off" =>
           /\ cmd = 8 /\ card.kind = "v2" => res[4] = 170
           /\ cmd = 58 => res[1] = IF card.power = "ready" THEN 192 ELSE 0
  BY <1>1 DEF Phases, Heeds, Heard
<1>6. call = "sd_init" =>
        /\ cmd = 0 /\ card.kind = "v2" =>
             /\ ntries <= NUM_ATTEMPTS /\ card.clocked
             /\ IF card.power = "idle" THEN card.idleAfter <= NUM_ATTEMPTS => ntries > 0
                                       ELSE card.cmd0s > NUM_ATTEMPTS - ntries
        /\ cmd = 8 /\ card.kind = "v2" /\ card.idleAfter <= NUM_ATTEMPTS => card.power = "idle"
        /\ cmd \in {55, 41, 58} => card.kind = "v2" /\ card.power # "off"
        /\ cmd \in {55, 41} /\ card.power = "idle" => card.acmds >= ntries
        /\ cmd = 55 => card.app
        /\ cmd = 41 /\ card.power = "idle" => card.acmds > ntries
        /\ cmd = 58 => card.power = "ready"
  BY <1>1 DEF Phases, Inits
<1>7. /\ NUM_ATTEMPTS \in Nat /\ U8 \in Nat /\ NUM_ATTEMPTS < U8 - 1
  BY Numbers
<1>8. ASSUME at' \in {"return", "select"}
      PROVE  Listening' /\ Heeds'
  BY <1>8 DEF Listening, Heeds
<1>9. CASE call # "sd_init"
  <2>1. at' = "return"
    BY <1>2, <1>9 DEF Deselect, Returns
  <2>2. Reads' /\ Writes'
    BY <1>1, <1>3, <2>1 DEF Phases, Reads, Writes, Stored, Kept
  <2> QED
    BY <1>1, <1>2, <1>8, <1>9, <2>1, <2>2 DEF Phases, Inits, InitTells, Returned
<1>10. CASE call = "sd_init"
  <2>1. Reads' /\ Writes'
    BY <1>1, <1>10 DEF Reads, Writes
  (* Sending c next needs the phase of c; returning, that the verdict is right. *)
  <2>2. ASSUME at' = "select", Inits' PROVE Phases'
    BY <1>2, <1>8, <2>1, <2>2 DEF Phases, InitTells, Returned
  <2>3. ASSUME at' = "return",
               /\ ret' = SD_SUCCESS => card.power = "ready"
               /\ card.kind # "v2" => ret' # SD_SUCCESS
               /\ card.kind = "v2" /\ card.idleAfter <= NUM_ATTEMPTS
                    /\ card.readyAfter <= NUM_ATTEMPTS + 1 => ret' = SD_SUCCESS
        PROVE  Phases'
    BY <1>2, <1>3, <1>8, <2>1, <2>3 DEF Phases, Inits, InitTells, Returned
  <2>4. CASE cmd = 0
    <3> DEFINE left == IF res[0] = 1 THEN ntries ELSE (ntries + U8 - 1) % U8
    <3>1. IF res[0] # 1 /\ ntries > 0 THEN Sends(0, left)
          ELSE IF left = 0 THEN Returns(SD_ERR_UNKNOWN_CARD) ELSE Sends(8, left)
      BY <2>4 DEF Deselect, AfterCmd0
    <3>2. card.kind = "v2" => (res[0] = 1 <=> card.power = "idle")
      BY <1>4, <1>5, <1>10, <2>4 DEF HeardOf, R1, FF
    <3>3. /\ res[0] # 1 /\ ntries > 0 => left = ntries - 1
          /\ res[0] # 1 /\ ntries = 0 => left = U8 - 1
      <4>1. ntries \in 0 .. U8 - 1
        BY DEF TypeInv, TypeOK
      <4>2. CASE ntries > 0
        <5>1. (ntries + U8 - 1) % U8 = ntries - 1
          BY <1>7, <4>1, <4>2, ModuloBack
        <5> QED
          BY <5>1, <4>2
      <4>3. CASE ntries = 0
        <5>1. (0 + U8 - 1) % U8 = U8 - 1
          BY <1>7, ModuloBack
        <5> QED
          BY <4>3, <5>1
      <4> QED
        BY <1>2, <4>2, <4>3
    <3>4. res[0] = 1 => left = ntries
      OBVIOUS
    <3> HIDE DEF left
    <3>5. CASE res[0] # 1 /\ ntries > 0
      <4>1. at' = "select" /\ cmd' = 0 /\ ntries' = ntries - 1 /\ call' = "sd_init"
        BY <1>1, <1>10, <3>1, <3>3, <3>5 DEF Sends
      <4>2. card.kind = "v2" =>
              /\ ntries - 1 <= NUM_ATTEMPTS /\ card.clocked
              /\ card.cmd0s >= NUM_ATTEMPTS - (ntries - 1)
        BY <1>2, <1>4, <1>6, <1>7, <1>10, <2>4, <3>2, <3>5
      <4>3. Inits'
        BY <1>3, <4>1, <4>2 DEF Inits
      <4> QED
        BY <2>2, <4>1, <4>3
    <3>6. CASE ~ (res[0] # 1 /\ ntries > 0) /\ left = 0
      <4>1. at' = "return" /\ ret' = SD_ERR_UNKNOWN_CARD
        BY <3>1, <3>6 DEF Returns
      <4>2. res[0] = 1 /\ ntries = 0
        BY <1>2, <1>7, <3>3, <3>4, <3>6
      <4>3. card.kind = "v2" => ~ (card.idleAfter <= NUM_ATTEMPTS)
        BY <1>6, <1>10, <2>4, <3>2, <4>2
      <4> QED
        BY <2>3, <4>1, <4>3 DEF SD_ERR_UNKNOWN_CARD, SD_SUCCESS
    <3>7. CASE ~ (res[0] # 1 /\ ntries > 0) /\ left # 0
      <4>1. at' = "select" /\ cmd' = 8 /\ call' = "sd_init"
        BY <1>1, <1>10, <3>1, <3>7 DEF Sends
      <4>2. card.kind = "v2" /\ card.idleAfter <= NUM_ATTEMPTS => card.power = "idle"
        <5>1. res[0] # 1 => ntries = 0
          BY <1>2, <3>7
        <5> QED
          BY <1>4, <1>6, <1>7, <1>10, <2>4, <3>2, <5>1
      <4>3. Inits'
        BY <1>3, <4>1, <4>2 DEF Inits
      <4> QED
        BY <2>2, <4>1, <4>3
    <3> QED
      BY <3>5, <3>6, <3>7
  <2>5. CASE cmd = 8
    <3>1. IF res[0] # 1 THEN Returns(SD_ERR_MAYBE_VER1CARD)
          ELSE IF res[4] # 170 THEN Returns(SD_ERR_UNKNOWN_CARD)
          ELSE Sends(55, 0)
      BY <2>5 DEF Deselect, AfterCmd8
    <3>2. res[0] = 1 <=> card.kind = "v2" /\ card.power = "idle"
      BY <1>4, <1>5, <1>10, <2>5 DEF HeardOf, R1, FF, IllegalCommand, AllKinds
    <3>3. card.kind = "v2" /\ card.power = "idle" => res[4] = 170
      BY <1>5, <2>5 DEF Talks
    <3>4. CASE res[0] # 1 \/ res[4] # 170
      <4>1. at' = "return" /\ ret' \in {SD_ERR_MAYBE_VER1CARD, SD_ERR_UNKNOWN_CARD}
        BY <3>1, <3>4 DEF Returns
      <4>2. ~ (card.kind = "v2" /\ card.idleAfter <= NUM_ATTEMPTS)
        BY <1>6, <1>10, <2>5, <3>2, <3>3, <3>4
      <4> QED
        BY <2>3, <4>1, <4>2 DEF SD_ERR_MAYBE_VER1CARD, SD_ERR_UNKNOWN_CARD, SD_SUCCESS
    <3>5. CASE res[0] = 1 /\ res[4] = 170
      <4>1. at' = "select" /\ cmd' = 55 /\ ntries' = 0 /\ call' = "sd_init"
        BY <1>1, <1>10, <3>1, <3>5 DEF Sends
      <4>2. Inits'
        BY <1>3, <1>4, <3>2, <3>5, <4>1 DEF Inits
      <4> QED
        BY <2>2, <4>1, <4>2
    <3> QED
      BY <3>4, <3>5
  <2>6. CASE cmd \in {55, 41}
    <3>1. IF cmd = 55 /\ res[0] < 2 THEN Sends(41, ntries)
          ELSE IF res[0] = 0 THEN Sends(58, ntries + 1)
          ELSE IF ntries + 1 > NUM_ATTEMPTS THEN Returns(SD_ERR_UNKNOWN_CARD)
          ELSE Sends(55, ntries + 1)
      BY <2>6 DEF Deselect, AfterInitTry, Ready
    <3>2. /\ card.kind = "v2" /\ card.power # "off"
          /\ res[0] = IF card.power = "idle" THEN 1 ELSE 0
      BY <1>5, <1>6, <1>10, <2>6 DEF HeardOf, R1
    <3>3. CASE cmd = 55
      <4>1. at' = "select" /\ cmd' = 41 /\ ntries' = ntries /\ call' = "sd_init"
        BY <1>1, <1>10, <3>1, <3>2, <3>3 DEF Sends
      <4>2. Inits'
        BY <1>3, <1>6, <1>10, <3>2, <3>3, <4>1 DEF Inits
      <4> QED
        BY <2>2, <4>1, <4>2
    <3>4. CASE cmd = 41 /\ card.power = "ready"
      <4>1. at' = "select" /\ cmd' = 58 /\ call' = "sd_init"
        BY <1>1, <1>10, <3>1, <3>2, <3>4 DEF Sends
      <4>2. Inits'
        BY <1>3, <3>2, <3>4, <4>1 DEF Inits
      <4> QED
        BY <2>2, <4>1, <4>2
    <3>5. CASE cmd = 41 /\ card.power = "idle" /\ ntries + 1 > NUM_ATTEMPTS
      <4>1. at' = "return" /\ ret' = SD_ERR_UNKNOWN_CARD
        BY <3>1, <3>2, <3>5 DEF Returns
      <4>2. ~ (card.readyAfter <= NUM_ATTEMPTS + 1)
        BY <1>2, <1>4, <1>6, <1>7, <1>10, <3>5
      <4> QED
        BY <2>3, <4>1, <4>2 DEF SD_ERR_UNKNOWN_CARD, SD_SUCCESS
    <3>6. CASE cmd = 41 /\ card.power = "idle" /\ ~ (ntries + 1 > NUM_ATTEMPTS)
      <4>1. at' = "select" /\ cmd' = 55 /\ ntries' = ntries + 1 /\ call' = "sd_init"
        BY <1>1, <1>10, <3>1, <3>2, <3>6 DEF Sends
      <4>2. card.acmds >= ntries + 1
        BY <1>2, <1>4, <1>6, <1>10, <3>6
      <4>3. Inits'
        BY <1>3, <3>2, <4>1, <4>2 DEF Inits
      <4> QED
        BY <2>2, <4>1, <4>3
    <3> QED
      BY <1>4, <2>6, <3>2, <3>3, <3>4, <3>5, <3>6
  <2>7. CASE cmd = 58
    <3>1. at' = "return" /\ ret' = IF res[1] >= 128 THEN SD_SUCCESS ELSE SD_ERR_UNKNOWN_CARD
      BY <2>7 DEF Deselect, AfterCmd58, Returns
    <3>2. card.kind = "v2" /\ card.power = "ready" /\ res[1] = 192
      BY <1>5, <1>6, <1>10, <2>7 DEF Talks
    <3>3. ret' = SD_SUCCESS
      BY <3>1, <3>2
    <3> QED
      BY <2>3, <3>1, <3>2, <3>3
  <2> QED
    BY <1>2, <1>10, <2>4, <2>5, <2>6, <2>7
<1> QED
  BY <1>9, <1>10

-----------------------------------------------------------------------------
(* Every step keeps the phases; a card that is pulled out ends them.       *)
LEMMA PhaseStep ==
  ASSUME TypeInv, Flow, TypeInv', Flow', PhaseInv, [Next]_vars
  PROVE  PhaseInv'
<1> SUFFICES ASSUME Undisturbed' PROVE Phases'
  BY DEF PhaseInv
<1>1. CASE CallInit \/ CallRead \/ CallWrite
  BY <1>1, PhaseCall DEF CallInit, CallRead, CallWrite
<1>2. CASE Driver
  <2>1. UNCHANGED <<faults, before>>
    BY <1>2 DEF Driver, Powerup, Select, SendCommand, ReadRes1, ReadRes7, AwaitToken, ReadData,
                WriteData, AwaitResponse, AwaitWritten, Deselect, Frame
  <2>2. Phases
    BY <2>1 DEF PhaseInv, Undisturbed
  <2> QED
    BY <1>2, <2>2, PhasePowerup, PhaseSelect, PhaseSendCommand, PhaseReadRes1, PhaseReadRes7,
       PhaseAwaitToken, PhaseReadData, PhaseWriteData, PhaseAwaitResponse, PhaseAwaitWritten,
       PhaseDeselect DEF Driver
<1>3. CASE Removed \/ PowerLost
  <2>1. faults' = faults + 1 /\ before' = before
    BY <1>3 DEF Removed, PowerLost, Fault
  <2>2. faults \in Nat /\ before.faults \in Nat /\ before.faults <= faults
    BY DEF TypeInv
  <2>3. before'.faults = before.faults /\ faults' = before'.faults
    BY <2>1 DEF Undisturbed
  <2> QED
    BY <2>1, <2>2, <2>3
<1>4. CASE UNCHANGED vars
  <2>1. UNCHANGED <<call, at, cmd, ntries, ntry, readAttempts, res, i, read, buf, token, ret,
                    selected, card, faults, before>>
    BY <1>4 DEF vars, driver
  <2>2. Phases
    BY <2>1 DEF PhaseInv, Undisturbed
  <2>3. Listening' /\ Heeds'
    BY <2>1, <2>2 DEF Phases, Listening, Heeds, Talks, Heard
  <2>4. Inits' /\ Reads'
    BY <2>1, <2>2 DEF Phases, Inits, Reads, Talks
  <2>5. (Talks' <=> Talks) /\ (Kept' <=> Kept) /\ (Stored' <=> Stored)
    BY <2>1 DEF Talks, Kept, Stored
  <2>6. Writes'
    BY <2>1, <2>2, <2>5 DEF Phases, Writes
  <2>7. InitTells'
    <3>1. TypeOK' /\ Undisturbed
      BY <2>1 DEF TypeInv, Undisturbed
    <3> QED
      BY <2>1, <2>2, <3>1 DEF Phases, InitTells, Returned
  <2> QED
    BY <2>3, <2>4, <2>6, <2>7 DEF Phases
<1> QED
  BY <1>1, <1>2, <1>3, <1>4 DEF Next

(* The invariant is inductive.                                             *)
LEMMA Inductive ==
  /\ Init => SdInv
  /\ SdInv /\ [Next]_vars => SdInv'
<1>1. Init => SdInv
  BY FlowInit, PhaseInit DEF SdInv, PhaseInv
<1>2. SdInv /\ [Next]_vars => SdInv'
  BY FlowStep, PhaseStep DEF SdInv
<1> QED
  BY <1>1, <1>2

(* sd_init says that a card is ready only when it is, never takes a card   *)
(* of another kind for one, and does not give up on a card of version 2    *)
(* that needs no more attempts than it makes (sd.c 234-323).               *)
THEOREM CardTold == Spec => []InitTells
<1>1. SdInv => InitTells
  BY DEF SdInv, TypeInv, PhaseInv, Phases, InitTells, Returned
<1> QED
  BY <1>1, Inductive, PTL DEF Spec

(* A card that stays in place: a read that has seen the start token has    *)
(* the whole block, and a write says accepted exactly when the card has    *)
(* stored it.  Every call leaves the card deselected (sd.c 325-414).       *)
THEOREM CardObeyed == Spec => []BlocksMove
<1>1. SdInv => BlocksMove
  BY DEF SdInv, PhaseInv, Phases, Flow, Reads, Writes, BlocksMove, Stored, Kept
<1> QED
  BY <1>1, Inductive, PTL DEF Spec
=============================================================================
