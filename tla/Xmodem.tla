------------------------------- MODULE Xmodem -------------------------------
(***************************************************************************)
(* Loading a program over the UART: the receiver in the bootloader         *)
(* (sw/bootloader/target/hydrogensoc/uartboot.c) and the sender on the     *)
(* host (scripts/xmsend.py), with a serial line between them that may lose *)
(* or garble a byte.  A packet is SOH, its number, the complement of the   *)
(* number, the data and a checksum; here the data is one byte and the      *)
(* checksum another, that tells any two data bytes apart.                  *)
(***************************************************************************)
EXTENDS Integers, Sequences, SequencesExt

CONSTANTS
  Files,        \* what may be sent: sequences of packets' data
  ROOM,         \* packets that fit in memory: len/128
  MaxPings,     \* pings before XMODEM_WAIT_TIMEOUT_SEC passes
  SyncReads,    \* pings the sender waits for
  MaxFailed,    \* max_failed_packets
  StartFaults,  \* what may happen to the first byte of a packet, to the
  BodyFaults,   \*   other ones, and to the receiver's answers:
  ReplyFaults,  \*   subsets of {"lost", "garbled"}
  Garbles,      \* what a garbled byte turns into
  MaxFaults,    \* bound on the faults
  Noise,        \* what the line may hold before the receiver starts
  Senders       \* {"sync"}, or "exit" too when there may be no sender

ASSUME XmodemAssumption ==
  /\ ROOM \in Nat \ {0} /\ MaxPings \in Nat \ {0} /\ SyncReads \in Nat \ {0}
  /\ MaxFailed \in Nat /\ MaxFaults \in Nat
  /\ Garbles \subseteq 0 .. 255 /\ Noise \subseteq Seq(0 .. 255)
  /\ Files \subseteq Seq(0 .. 255) /\ <<>> \notin Files
  /\ Senders \subseteq {"sync", "exit"}

VARIABLES
  rpc,          \* where the receiver is
  pings,        \* how often it has sent a C
  packetnum,
  pkt,          \* the bytes of the packet read so far
  mem,          \* bf
  spc,          \* where the sender is
  file,         \* packed_file
  synced,       \* inchars: the pings read so far
  index,
  packet_nr,
  failed,       \* failed_packets
  out,          \* what is left of the packet to send
  toBoard, toHost,  \* the two lines
  faults        \* how many faults there were

receiver == <<rpc, pings, packetnum, pkt, mem>>
sender == <<spc, file, synced, index, packet_nr, failed, out>>
vars == <<receiver, sender, toBoard, toHost, faults>>

SOH == 1
EOT == 4
ACK == 6
NAK == 21
CAN == 24
PING == 67      \* 'C'
None == -1      \* what _inbyte returns when it gives up

Byte == 0 .. 255

Checksum(d) == (17 * d + 3) % 256

Packet(nr, d) == <<SOH, nr, 255 - nr, d, Checksum(d)>>

(* A loaded program, a terminated transfer, and boot_panic. *)
Stopped == rpc \in {"booted", "terminated", "unknown", "timeout", "unreachable"}

SenderStopped == spc \in {"done", "gaveup", "exit"}

-----------------------------------------------------------------------------
(* The line.                                                               *)

Arrivals(byte, kinds) ==
  {<<byte>>}
    \union {<<>> : k \in {"lost"} \cap kinds}
    \union {<<g>> : g \in IF "garbled" \in kinds THEN Garbles ELSE {}}

Carry(line, byte, kinds, newline) ==
  \E got \in Arrivals(byte, IF faults < MaxFaults THEN kinds ELSE {}) :
    /\ newline = line \o got
    /\ faults' = faults + (IF got = <<byte>> THEN 0 ELSE 1)

(* What may arrive of a packet q, after each of its bytes, and the faults *)
(* that it takes.                                                          *)
Treated(ways, byte, kinds) ==
  {w \in UNION {{[faults |-> w.faults + (IF got = <<byte>> THEN 0 ELSE 1), got |-> w.got \o got] :
                   got \in Arrivals(byte, kinds)} : w \in ways} :
     w.faults <= MaxFaults}

Heard(q) ==
  LET h0 == {[faults |-> 0, got |-> <<>>]}
      h1 == Treated(h0, q[1], StartFaults)
      h2 == Treated(h1, q[2], BodyFaults)
      h3 == Treated(h2, q[3], BodyFaults)
      h4 == Treated(h3, q[4], BodyFaults)
      h5 == Treated(h4, q[5], BodyFaults)
  IN <<h0, h1, h2, h3, h4, h5>>

(* The timeouts are long against the line, and each side answers promptly: *)
(* a read gives up only when there is nothing left to come.                *)
SenderWaits ==
  \/ SenderStopped
  \/ /\ toHost = <<>>
     /\ \/ spc \in {"reply", "eotreply"}
        \/ spc = "sync" /\ Len(synced) < SyncReads

ReceiverTimeout == toBoard = <<>> /\ SenderWaits

SenderTimeout == toHost = <<>> /\ Stopped

(* _inbyte: the next byte, or nothing. *)
Inbyte(c) ==
  \/ toBoard # <<>> /\ c = Head(toBoard) /\ toBoard' = Tail(toBoard)
  \/ ReceiverTimeout /\ c = None /\ UNCHANGED toBoard

Outbyte(c) == Carry(toHost, c, ReplyFaults, toHost')

Quiet == UNCHANGED <<toHost, faults>>

-----------------------------------------------------------------------------
(* The receiver.                                                           *)

Flushed(line) == <<>>

FlushInput ==
  /\ rpc = "flush"
  /\ rpc' = "ping"
  /\ toBoard' = Flushed(toBoard)
  /\ UNCHANGED <<pings, packetnum, pkt, mem, sender>> /\ Quiet

Ping ==
  /\ rpc = "ping" /\ pings < MaxPings
  /\ rpc' = "answer"
  /\ pings' = pings + 1
  /\ Outbyte(PING)
  /\ UNCHANGED <<packetnum, pkt, mem, sender, toBoard>>

(* Nobody answers: the receiver cancels the transfer and panics. *)
PingsOut ==
  /\ rpc = "ping" /\ pings = MaxPings
  /\ rpc' = "timeout"
  /\ toHost' = toHost \o <<CAN, CAN, CAN>>
  /\ UNCHANGED <<pings, packetnum, pkt, mem, sender, toBoard, faults>>

(* The first byte after a ping. *)
Answer(c) ==
  /\ rpc = "answer"
  /\ Inbyte(c)
  /\ rpc' = CASE c = None -> "ping"
              [] c = SOH  -> "packet"
              [] c = EOT  -> "booted"
              [] c = CAN  -> "terminated"
              [] OTHER    -> "unknown"
  /\ UNCHANGED <<pings, packetnum, pkt, mem, sender>> /\ Quiet

(* Mutant of NextStart: the receiver waits on when no packet comes. *)
NextStartWaits(c) ==
  CASE c = SOH -> "packet"
    [] c = EOT -> "booted"
    [] c = CAN -> "terminated"
    [] c = None -> "start"
    [] OTHER   -> "unknown"

NextStart(c) ==
  CASE c = SOH -> "packet"
    [] c = EOT -> "booted"
    [] c = CAN -> "terminated"
    [] OTHER   -> "unknown"

(* The first byte of a further packet; the end is acknowledged. *)
CheckStart(c) ==
  /\ rpc = "start"
  /\ Inbyte(c)
  /\ rpc' = NextStart(c)
  /\ IF c \in {EOT, CAN} THEN Outbyte(ACK) ELSE Quiet
  /\ UNCHANGED <<pings, packetnum, pkt, mem, sender>>

(* A byte of get_packet: as a uint8_t, and its data go to memory at once. *)
GetByte(c) ==
  /\ rpc = "packet" /\ Len(pkt) < 4
  /\ Inbyte(c)
  /\ pkt' = Append(pkt, c % 256)
  /\ mem' = IF Len(pkt) = 2 THEN [mem EXCEPT ![packetnum] = c % 256] ELSE mem
  /\ UNCHANGED <<rpc, pings, packetnum, sender>> /\ Quiet

(* Mutant of Success: the checksum is not compared. *)
SuccessBlind(p, nr) == p[1] = nr /\ p[2] = 255 - p[1]

Success(p, nr) == p[1] = nr /\ p[2] = 255 - p[1] /\ p[4] = Checksum(p[3])

(* The bytes get_packet reads from what has arrived: 255 for one that does *)
(* not come.                                                               *)
Reads(got, n) == [i \in 1 .. n |-> IF i < Len(got) THEN got[i + 1] ELSE 255]

(* What the checks of the receiver are there for: whatever arrives of a    *)
(* packet neither ends the transfer nor makes another packet.              *)
DamageShows ==
  \A f \in Files : \A i \in DOMAIN f :
    LET q == Packet(i % 256, f[i]) IN
    \A k \in 1 .. 5 : \A w \in Heard(q)[k + 1] :
      LET read == Reads(w.got, 4) IN
      w.got # <<>> =>
        /\ w.got[1] \notin {EOT, CAN}
        /\ k = 5 /\ w.got[1] = SOH /\ read = Tail(Packet(read[1], read[3])) => read = Tail(q)

Remaining(n) == n < ROOM

(* The packet is complete: it is acknowledged or refused, and the receiver *)
(* goes on to the next one.                                                *)
Acknowledge ==
  /\ rpc = "packet" /\ Len(pkt) = 4
  /\ Outbyte(IF Success(pkt, (packetnum + 1) % 256) THEN ACK ELSE NAK)
  /\ packetnum' = packetnum + 1
  /\ pkt' = <<>>
  /\ rpc' = IF Remaining(packetnum + 1) THEN "start" ELSE "unreachable"
  /\ UNCHANGED <<pings, mem, sender, toBoard>>

Receiver ==
  \/ FlushInput \/ Ping \/ PingsOut \/ Acknowledge
  \/ \E c \in Range(toBoard) \union {None} : Answer(c) \/ CheckStart(c) \/ GetByte(c)

-----------------------------------------------------------------------------
(* The sender.                                                             *)

(* Nobody reads what reaches a board that has stopped. *)
Emit(byte, kinds) ==
  IF Stopped THEN UNCHANGED <<toBoard, faults>>
             ELSE Carry(toBoard, byte, kinds, toBoard')

(* read(5). *)
ReadPing ==
  /\ spc = "sync" /\ Len(synced) < SyncReads /\ toHost # <<>>
  /\ synced' = Append(synced, Head(toHost))
  /\ toHost' = Tail(toHost)
  /\ UNCHANGED <<receiver, spc, file, index, packet_nr, failed, out, toBoard, faults>>

(* The transfer starts when all that was read is a ping. *)
Synchronise ==
  /\ spc = "sync"
  /\ Len(synced) = SyncReads \/ SenderTimeout
  /\ synced' = <<>>
  /\ IF synced # <<>> /\ \A i \in DOMAIN synced : synced[i] = PING
     THEN /\ spc' = "send"
          /\ out' = Packet(packet_nr, file[index + 1])
     ELSE /\ spc' = IF Stopped THEN "exit" ELSE "sync"
          /\ UNCHANGED out
  /\ UNCHANGED <<receiver, file, index, packet_nr, failed, toBoard, toHost, faults>>

SendByte ==
  /\ spc = "send"
  /\ Emit(Head(out), IF Len(out) = 5 THEN StartFaults ELSE BodyFaults)
  /\ out' = Tail(out)
  /\ spc' = IF Len(out) = 1 THEN "reply" ELSE "send"
  /\ UNCHANGED <<receiver, file, synced, index, packet_nr, failed, toHost>>

(* read(): the answer, or nothing, and then whatever else has come. *)
ReadReply(c) ==
  \/ /\ toHost # <<>> /\ c = Head(toHost)
     /\ \E n \in 1 .. Len(toHost) : toHost' = SubSeq(toHost, n + 1, Len(toHost))
  \/ SenderTimeout /\ c = None /\ UNCHANGED toHost

(* Mutant of NextNr: the number is not advanced. *)
NextNrSame(nr) == nr

NextNr(nr) == (nr + 1) % 256

(* The head of the loop over the packets. *)
Proceed(i, nr, lost) ==
  IF i = Len(file) THEN spc' = "eot" /\ UNCHANGED out
  ELSE IF lost > MaxFailed THEN spc' = "gaveup" /\ UNCHANGED out
  ELSE spc' = "send" /\ out' = Packet(nr, file[i + 1])

Reply(c) ==
  /\ spc = "reply"
  /\ ReadReply(c)
  /\ index' = IF c = ACK THEN index + 1 ELSE index
  /\ packet_nr' = IF c = ACK THEN NextNr(packet_nr) ELSE packet_nr
  /\ failed' = IF c = NAK THEN failed + 1 ELSE failed
  /\ IF c = CAN THEN spc' = "exit" /\ UNCHANGED out
                ELSE Proceed(index', packet_nr', failed')
  /\ UNCHANGED <<receiver, file, synced, toBoard, faults>>

SendEot ==
  /\ spc = "eot"
  /\ Emit(EOT, StartFaults)
  /\ spc' = "eotreply"
  /\ UNCHANGED <<receiver, file, synced, index, packet_nr, failed, out, toHost>>

(* The end is repeated until it is acknowledged. *)
EotReply(c) ==
  /\ spc = "eotreply"
  /\ ReadReply(c)
  /\ spc' = CASE c = ACK -> "done" [] c = CAN -> "exit" [] OTHER -> "eot"
  /\ UNCHANGED <<receiver, file, synced, index, packet_nr, failed, out, toBoard, faults>>

Sender ==
  \/ ReadPing \/ Synchronise \/ SendByte \/ SendEot
  \/ \E c \in Range(toHost) \union {None} : Reply(c) \/ EotReply(c)

-----------------------------------------------------------------------------
Init ==
  /\ rpc = "flush" /\ pings = 0 /\ packetnum = 0 /\ pkt = <<>>
  /\ mem = [i \in 0 .. ROOM - 1 |-> 0]
  /\ spc \in Senders /\ file \in Files /\ synced = <<>>
  /\ index = 0 /\ packet_nr = 1 /\ failed = 0 /\ out = <<>>
  /\ toBoard \in Noise /\ toHost = <<>> /\ faults = 0

Next == Receiver \/ Sender

(* Both programs keep running, and no read that can end is left waiting.   *)
Spec == Init /\ [][Next]_vars /\ WF_vars(Receiver) /\ WF_vars(Sender)

-----------------------------------------------------------------------------
TypeOK ==
  /\ pings \in 0 .. MaxPings
  /\ packetnum \in 0 .. ROOM
  /\ pkt \in Seq(Byte) /\ Len(pkt) <= 4
  /\ mem \in [0 .. ROOM - 1 -> Byte]
  /\ index \in 0 .. Len(file)
  /\ failed \in 0 .. MaxFailed + 1
  /\ \A i \in DOMAIN toBoard : toBoard[i] \in Byte
  /\ \A i \in DOMAIN toHost : toHost[i] \in Byte
  /\ Stopped => pkt = <<>>

Stored(n) == \A i \in 1 .. n : mem[i - 1] = file[i]

(* What the sender was told has arrived is in memory (xmsend.py 206-209).  *)
AckedIsStored == Stored(index)

(* A refused packet is sent again, and the transfer succeeds after all     *)
(* (xmsend.py 210-213: the packet is sent again until max_failed_packets). *)
RetryRecovers == <>(rpc = "booted")
=============================================================================
