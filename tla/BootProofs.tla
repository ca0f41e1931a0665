------------------------------ MODULE BootProofs ------------------------------
(***************************************************************************)
(* Proofs about the boot loader (module Boot).  First the transfer over    *)
(* the UART (module Xmodem), for files and memories of any size, and every *)
(* fault of the line to the board that the checks of a packet can tell;    *)
(* then the program in the flash memory, for words of any width and every  *)
(* setting of the SPI controller (modules Spi and SpiCore).                *)
(***************************************************************************)
EXTENDS Boot, SequenceTheorems, TLAPS

USE XmodemAssumption

-----------------------------------------------------------------------------
(* Sequences, and what they hold.                                          *)
LEMMA Singles ==
  /\ \A x : Range(<<x>>) = {x}
  /\ Range(<<>>) = {}
  /\ \A x : Head(<<x>>) = x /\ Tail(<<x>>) = <<>> /\ Len(<<x>>) = 1
BY DEF Range

LEMMA RangeOf ==
  ASSUME NEW s \in Seq(Byte), NEW t \in Seq(Byte)
  PROVE  /\ Range(s) \subseteq Byte
         /\ Range(s \o t) = Range(s) \union Range(t)
         /\ s # <<>> => Head(s) \in Range(s)
<1>1. Range(s) \subseteq Byte
  BY DEF Range
<1>2. Range(s \o t) = Range(s) \union Range(t)
  <2>1. /\ s \o t \in Seq(Byte) /\ Len(s \o t) = Len(s) + Len(t)
        /\ \A i \in 1 .. Len(s) + Len(t) :
             (s \o t)[i] = IF i <= Len(s) THEN s[i] ELSE t[i - Len(s)]
    BY ConcatProperties
  <2>2. Range(s \o t) \subseteq Range(s) \union Range(t)
    BY <2>1 DEF Range
  <2>3. ASSUME NEW i \in 1 .. Len(s) PROVE s[i] \in Range(s \o t)
    BY <2>1 DEF Range
  <2>4. ASSUME NEW i \in 1 .. Len(t) PROVE t[i] \in Range(s \o t)
    <3>1. Len(s) + i \in 1 .. Len(s) + Len(t) /\ (s \o t)[Len(s) + i] = t[i]
      BY <2>1
    <3>. QED  BY <2>1, <3>1 DEF Range
  <2>5. Range(s) \subseteq Range(s \o t)
    BY <2>3 DEF Range
  <2>6. Range(t) \subseteq Range(s \o t)
    BY <2>4 DEF Range
  <2>. QED  BY <2>2, <2>5, <2>6
<1>3. s # <<>> => Head(s) \in Range(s)
  BY DEF Range
<1>. QED  BY <1>1, <1>2, <1>3

(* Taking the first of two or more leaves what comes behind it.            *)
LEMMA TailOfSuffix ==
  ASSUME NEW s \in Seq(Byte), NEW i \in 1 .. Len(s)
  PROVE  /\ SubSeq(s, i, Len(s)) \in Seq(Byte)
         /\ SubSeq(s, i, Len(s)) # <<>>
         /\ Head(SubSeq(s, i, Len(s))) = s[i]
         /\ Tail(SubSeq(s, i, Len(s))) = SubSeq(s, i + 1, Len(s))
<1>1. Len(s) \in i .. Len(s)
  OBVIOUS
<1>2. /\ Head(SubSeq(s, i, Len(s))) = s[i]
      /\ Tail(SubSeq(s, i, Len(s))) = SubSeq(s, i + 1, Len(s))
  BY <1>1, HeadTailOfSubSeq
<1>. DEFINE u == SubSeq(s, i, Len(s))
<1>3. u \in Seq(Byte) /\ Len(u) = Len(s) - i + 1
  BY <1>1, SubSeqProperties
<1>. HIDE DEF u
<1>4. u # <<>>
  BY <1>3
<1>. QED  BY <1>2, <1>3, <1>4 DEF u

-----------------------------------------------------------------------------
(* The line.                                                               *)
LEMMA PacketType ==
  ASSUME NEW nr \in Byte, NEW d \in Byte
  PROVE  /\ Checksum(d) \in Byte
         /\ Packet(nr, d) \in Seq(Byte) /\ Len(Packet(nr, d)) = 5
         /\ Packet(nr, d)[1] = SOH
         /\ Tail(Packet(nr, d)) = <<nr, 255 - nr, d, Checksum(d)>>
<1>1. Checksum(d) \in Byte
  BY DEF Checksum, Byte
<1>2. SOH \in Byte /\ 255 - nr \in Byte
  BY DEF SOH, Byte
<1>. QED  BY <1>1, <1>2 DEF Packet

(* A byte sent arrives, or is lost, or is another one.                     *)
Cost(byte, got) == IF got = <<byte>> THEN 0 ELSE 1

LEMMA ArrivalType ==
  ASSUME NEW byte \in Byte, NEW kinds, NEW got \in Arrivals(byte, kinds)
  PROVE  /\ got \in Seq(Byte) /\ Len(got) <= 1
         /\ kinds \subseteq {"lost"} => got \in {<<>>, <<byte>>}
<1>1. got \in {<<>>, <<byte>>} \/ \E g \in Garbles : got = <<g>>
  BY DEF Arrivals
<1>2. "garbled" \notin kinds => got \in {<<>>, <<byte>>}
  BY DEF Arrivals
<1>3. Garbles \subseteq Byte
  BY DEF Byte
<1>4. \A b \in Byte : <<b>> \in Seq(Byte) /\ Len(<<b>>) = 1
  OBVIOUS
<1>5. <<>> \in Seq(Byte) /\ Len(<<>>) = 0
  OBVIOUS
<1>6. got \in Seq(Byte) /\ Len(got) <= 1
  <2>1. CASE got = <<>>
    BY <1>5, <2>1
  <2>2. CASE got = <<byte>>
    BY <1>4, <2>2
  <2>3. CASE \E g \in Garbles : got = <<g>>
    BY <1>3, <1>4, <2>3
  <2>. QED  BY <1>1, <2>1, <2>2, <2>3
<1>7. kinds \subseteq {"lost"} => "garbled" \notin kinds
  OBVIOUS
<1>. QED  BY <1>2, <1>6, <1>7

LEMMA Carried ==
  ASSUME NEW line \in Seq(Byte), NEW byte \in Byte, NEW kinds, NEW newline,
         faults \in 0 .. MaxFaults, Carry(line, byte, kinds, newline)
  PROVE  \E got \in Arrivals(byte, kinds) :
           /\ newline = line \o got /\ newline \in Seq(Byte)
           /\ faults' = faults + Cost(byte, got) /\ faults' \in 0 .. MaxFaults
<1>1. PICK got \in Arrivals(byte, IF faults < MaxFaults THEN kinds ELSE {}) :
        newline = line \o got /\ faults' = faults + Cost(byte, got)
  BY DEF Carry, Cost
<1>2. got \in Arrivals(byte, kinds)
  BY <1>1 DEF Arrivals
<1>3. got \in Seq(Byte)
  BY <1>2, ArrivalType
<1>4. newline \in Seq(Byte)
  BY <1>1, <1>3
<1>5. faults' \in 0 .. MaxFaults
  <2>1. CASE faults < MaxFaults
    BY <1>1, <2>1 DEF Cost
  <2>2. CASE ~(faults < MaxFaults)
    <3>1. got = <<byte>>
      BY <1>1, <2>2 DEF Arrivals
    <3>. QED  BY <1>1, <3>1 DEF Cost
  <2>. QED  BY <2>1, <2>2
<1>. QED  BY <1>1, <1>2, <1>4, <1>5

(* Heard, packet byte by packet byte.                                      *)
Kinds(k) == IF k = 1 THEN StartFaults ELSE BodyFaults

LEMMA HeardStarts ==
  ASSUME NEW q PROVE Heard(q)[1] = {[faults |-> 0, got |-> <<>>]}
BY DEF Heard

LEMMA HeardNext ==
  ASSUME NEW q, NEW k \in 1 .. 5
  PROVE  Heard(q)[k + 1] = Treated(Heard(q)[k], q[k], Kinds(k))
<1>1. k \in {1, 2, 3, 4, 5}
  OBVIOUS
<1>2. CASE k = 1
  BY <1>2 DEF Heard, Kinds
<1>3. CASE k = 2
  BY <1>3 DEF Heard, Kinds
<1>4. CASE k = 3
  BY <1>4 DEF Heard, Kinds
<1>5. CASE k = 4
  BY <1>5 DEF Heard, Kinds
<1>6. CASE k = 5
  BY <1>6 DEF Heard, Kinds
<1>. QED  BY <1>1, <1>2, <1>3, <1>4, <1>5, <1>6

LEMMA HeardGrows ==
  ASSUME NEW q, NEW k \in 1 .. 5, NEW w \in Heard(q)[k],
         NEW got \in Arrivals(q[k], Kinds(k)),
         w.faults + Cost(q[k], got) <= MaxFaults
  PROVE  \E v \in Heard(q)[k + 1] :
           v.got = w.got \o got /\ v.faults = w.faults + Cost(q[k], got)
<1>. DEFINE v == [faults |-> w.faults + Cost(q[k], got), got |-> w.got \o got]
<1>. DEFINE Ways(u) == {[faults |-> u.faults + (IF g = <<q[k]>> THEN 0 ELSE 1), got |-> u.got \o g] :
                          g \in Arrivals(q[k], Kinds(k))}
<1>1. v \in Ways(w)
  BY DEF Cost
<1>2. v.faults <= MaxFaults
  OBVIOUS
<1>3. v \in Treated(Heard(q)[k], q[k], Kinds(k))
  <2>. HIDE DEF Ways, v
  <2>1. v \in UNION {Ways(u) : u \in Heard(q)[k]}
    BY <1>1
  <2>. QED  BY <1>2, <2>1 DEF Treated, Ways
<1>4. v.got = w.got \o got /\ v.faults = w.faults + Cost(q[k], got)
  OBVIOUS
<1>. HIDE DEF v
<1>. QED  BY <1>3, <1>4, HeardNext

LEMMA TreatedType ==
  ASSUME NEW ways, NEW byte \in Byte, NEW kinds, NEW n \in Nat,
         \A w \in ways : w.got \in Seq(Byte) /\ Len(w.got) <= n /\ w.faults \in Nat
  PROVE  \A v \in Treated(ways, byte, kinds) :
           v.got \in Seq(Byte) /\ Len(v.got) <= n + 1 /\ v.faults \in Nat
<1>. SUFFICES ASSUME NEW v \in Treated(ways, byte, kinds)
     PROVE  v.got \in Seq(Byte) /\ Len(v.got) <= n + 1 /\ v.faults \in Nat
  OBVIOUS
<1>1. PICK w \in ways, got \in Arrivals(byte, kinds) :
        v = [faults |-> w.faults + Cost(byte, got), got |-> w.got \o got]
  BY DEF Treated, Cost
<1>2. got \in Seq(Byte) /\ Len(got) <= 1
  BY ArrivalType
<1>3. w.got \in Seq(Byte) /\ Len(w.got) <= n /\ w.faults \in Nat
  OBVIOUS
<1>. QED  BY <1>1, <1>2, <1>3 DEF Cost

LEMMA HeardType ==
  ASSUME NEW q \in Seq(Byte), Len(q) = 5
  PROVE  \A k \in 0 .. 5 : \A w \in Heard(q)[k + 1] :
           w.got \in Seq(Byte) /\ Len(w.got) <= k /\ w.faults \in Nat
<1>. DEFINE P(k) == \A w \in Heard(q)[k + 1] :
                      w.got \in Seq(Byte) /\ Len(w.got) <= k /\ w.faults \in Nat
<1>1. P(0)
  <2>1. Heard(q)[0 + 1] = {[faults |-> 0, got |-> <<>>]}
    BY HeardStarts
  <2>2. \A w \in Heard(q)[0 + 1] : w.got = <<>> /\ w.faults = 0
    BY <2>1
  <2>3. <<>> \in Seq(Byte) /\ Len(<<>>) <= 0 /\ 0 \in Nat
    OBVIOUS
  <2>. QED  BY <2>2, <2>3
<1>2. ASSUME NEW k \in 0 .. 4, P(k) PROVE P(k + 1)
  <2>1. Heard(q)[k + 2] = Treated(Heard(q)[k + 1], q[k + 1], Kinds(k + 1))
    <3>1. k + 1 \in 1 .. 5 /\ (k + 1) + 1 = k + 2
      OBVIOUS
    <3>. QED  BY <3>1, HeardNext
  <2>2. q[k + 1] \in Byte
    OBVIOUS
  <2>3. \A v \in Heard(q)[k + 2] :
          v.got \in Seq(Byte) /\ Len(v.got) <= k + 1 /\ v.faults \in Nat
    BY <1>2, <2>1, <2>2, TreatedType
  <2>. QED  BY <2>3
<1>. HIDE DEF P
<1>3. P(0) /\ P(1) /\ P(2) /\ P(3) /\ P(4) /\ P(5)
  <2>1. P(1)
    BY <1>1, <1>2
  <2>2. P(2)
    BY <2>1, <1>2
  <2>3. P(3)
    BY <2>2, <1>2
  <2>4. P(4)
    BY <2>3, <1>2
  <2>5. P(5)
    BY <2>4, <1>2
  <2>. QED  BY <1>1, <2>1, <2>2, <2>3, <2>4, <2>5
<1>4. \A k \in 0 .. 5 : k \in {0, 1, 2, 3, 4, 5}
  OBVIOUS
<1>5. \A k \in 0 .. 5 : P(k)
  BY <1>3, <1>4
<1>. QED  BY <1>5 DEF P

-----------------------------------------------------------------------------
(* The inductive invariant of a transfer.                                  *)
NextPacket == Packet(packet_nr, file[index + 1])

XTypes ==
  /\ rpc \in {"flush", "ping", "answer", "packet", "start",
              "booted", "terminated", "unknown", "timeout", "unreachable"}
  /\ spc \in {"sync", "send", "reply", "eot", "eotreply", "done", "gaveup", "exit"}
  /\ file \in Files
  /\ pings \in 0 .. MaxPings
  /\ packetnum \in 0 .. ROOM
  /\ ~Stopped => packetnum < ROOM
  /\ pkt \in Seq(Byte) /\ Len(pkt) <= 4
  /\ rpc # "packet" => pkt = <<>>
  /\ mem \in [0 .. ROOM - 1 -> Byte]
  /\ index \in 0 .. Len(file) /\ failed \in 0 .. MaxFailed + 1
  /\ packet_nr = (index + 1) % 256
  /\ {synced, out, toBoard, toHost} \subseteq Seq(Byte)
  /\ Len(synced) <= SyncReads
  /\ faults \in 0 .. MaxFaults

(* The sender: how much of the packet it has still to send, and when the   *)
(* file is at its end.                                                     *)
Left == Len(out)
SenderInv ==
  /\ spc = "sync" => index = 0 /\ failed = 0
  /\ spc \in {"send", "reply"} =>
       /\ index < Len(file) /\ failed <= MaxFailed
       /\ Left <= 5 /\ \A j \in 1 .. Left : out[j] = NextPacket[5 - Left + j]
       /\ spc = "send" <=> Left > 0
  /\ spc \in {"eot", "eotreply", "done"} => index = Len(file)

(* Before the transfer the sender counts pings. *)
Syncing ==
  /\ packetnum = 0
  /\ rpc \in {"flush", "ping", "answer"}
  /\ rpc # "flush" => toBoard = <<>>
  /\ toHost \in {<<>>, <<PING>>}
  /\ toHost # <<>> => rpc = "answer"
  /\ toHost # <<>> \/ rpc # "answer" => Len(synced) < SyncReads

(* A packet is on its way, and got has arrived of it. *)
Arrived(got) == \E w \in Heard(NextPacket)[6 - Left] : w.got = got /\ w.faults <= faults

InStep == packetnum = index + failed

Unread ==
  /\ rpc \in {"answer", "start"}
  /\ toHost = <<>> /\ Arrived(toBoard) /\ InStep

Reading(got) ==
  /\ rpc = "packet"
  /\ toHost = <<>> /\ Arrived(got) /\ InStep
  /\ got # <<>> /\ got[1] = SOH
  /\ pkt = Reads(got, Len(pkt))
  /\ toBoard = SubSeq(got, Len(pkt) + 2, Len(got))
  /\ Len(pkt) >= Len(got) => spc = "reply"
  /\ Len(pkt) >= 3 => mem[packetnum] = pkt[3]

Replied ==
  /\ spc = "reply" /\ rpc = "start"
  /\ toBoard = <<>> /\ packetnum = index + failed + 1
  /\ toHost \in {<<>>, <<ACK>>, <<NAK>>}
  /\ toHost = <<ACK>> => failed = 0

Pinging ==
  /\ spc = "reply" /\ rpc \in {"ping", "answer"}
  /\ toBoard = <<>> /\ InStep
  /\ toHost \in {<<>>, <<PING>>}
  /\ rpc = "ping" => toHost = <<>>

Deserted ==
  /\ rpc \in {"flush", "ping", "answer", "start"}
  /\ rpc # "flush" => toBoard = <<>>

LineInv ==
  ~Stopped =>
    /\ spc = "sync" => Syncing
    /\ spc \in {"send", "reply"} =>
         Unread \/ (\E got \in Seq(Byte) : Reading(got)) \/ Replied \/ Pinging
    /\ spc \in {"exit", "gaveup"} /\ index < Len(file) => Deserted

AckInv ==
  spc \in {"sync", "send", "reply"} /\ ACK \in Range(toHost) =>
    /\ spc = "reply" /\ toHost = <<ACK>>
    /\ packetnum > index /\ Stored(index + 1)

StoredInv ==
  /\ index <= packetnum /\ Stored(index)
  /\ rpc = "booted" => index = Len(file)

XInv == XTypes /\ SenderInv /\ LineInv /\ AckInv /\ StoredInv

(* The line's faults: answers may be lost, but are not mistaken.           *)
RepliesIntact == ReplyFaults \subseteq {"lost"}

(* The sender gives up before the receiver's packet number, a byte on the  *)
(* line, comes round to its own again.                                     *)
FewRetries == MaxFailed < 255

LEMMA Controls ==
  /\ {SOH, EOT, ACK, NAK, CAN, PING} \subseteq Byte
  /\ ACK \notin {SOH, EOT, NAK, CAN, PING, None} /\ None \notin Byte
  /\ SOH \notin {EOT, CAN} /\ EOT # CAN
  /\ None \notin {SOH, EOT, CAN}
BY DEF SOH, EOT, ACK, NAK, CAN, PING, None, Byte

LEMMA NextPacketType ==
  ASSUME XTypes, index < Len(file)
  PROVE  /\ packet_nr \in Byte /\ file[index + 1] \in Byte
         /\ NextPacket \in Seq(Byte) /\ Len(NextPacket) = 5
         /\ Tail(NextPacket) =
              <<packet_nr, 255 - packet_nr, file[index + 1], Checksum(file[index + 1])>>
<1>1. file \in Seq(Byte) /\ index + 1 \in 1 .. Len(file)
  BY DEF XTypes, Byte
<1>2. packet_nr \in Byte /\ file[index + 1] \in Byte
  <2>1. index \in Nat /\ packet_nr = (index + 1) % 256
    BY DEF XTypes
  <2>2. packet_nr \in Byte
    BY <2>1 DEF Byte
  <2>. QED  BY <1>1, <2>2
<1>. QED  BY <1>2, PacketType DEF NextPacket

(* What has arrived is part of what is heard.                              *)
LEMMA ArrivedType ==
  ASSUME XTypes, index < Len(file), Left <= 5, NEW got, Arrived(got)
  PROVE  got \in Seq(Byte) /\ Len(got) <= 5 - Left
<1>1. 5 - Left \in 0 .. 5 /\ (5 - Left) + 1 = 6 - Left
  <2>1. Left \in Nat
    BY DEF XTypes, Left
  <2>. QED  BY <2>1
<1>2. NextPacket \in Seq(Byte) /\ Len(NextPacket) = 5
  BY NextPacketType
<1>. QED  BY <1>1, <1>2, HeardType DEF Arrived

(* Steps of the receiver leave the sender alone.                           *)
LEMMA SenderKept ==
  ASSUME SenderInv, UNCHANGED sender
  PROVE  SenderInv' /\ NextPacket' = NextPacket /\ Left' = Left
BY DEF SenderInv, sender, NextPacket, Left

LEMMA FlushStep ==
  ASSUME XInv, FlushInput
  PROVE  XInv'
<1>1. /\ rpc = "flush" /\ rpc' = "ping" /\ toBoard' = <<>>
      /\ UNCHANGED <<pings, packetnum, pkt, mem, toHost, faults>>
      /\ UNCHANGED sender
      /\ UNCHANGED <<spc, file, synced, index, packet_nr, failed, out>>
  BY DEF FlushInput, Flushed, Quiet, sender
<1>2. XTypes'
  BY <1>1 DEF XInv, XTypes, Stopped
<1>3. SenderInv'
  BY <1>1, SenderKept DEF XInv
<1>4. LineInv'
  <2>1. spc \notin {"send", "reply"}
    BY <1>1 DEF XInv, LineInv, Stopped, Unread, Reading, Replied, Pinging
  <2>2. spc = "sync" => Syncing'
    BY <1>1 DEF XInv, LineInv, Stopped, Syncing
  <2>3. spc \in {"exit", "gaveup"} => Deserted'
    BY <1>1 DEF Deserted
  <2>. QED  BY <1>1, <2>1, <2>2, <2>3 DEF LineInv
<1>5. AckInv'
  BY <1>1 DEF XInv, AckInv, Stored
<1>6. StoredInv'
  BY <1>1 DEF XInv, StoredInv, Stored
<1>. QED  BY <1>2, <1>3, <1>4, <1>5, <1>6 DEF XInv

LEMMA PingStep ==
  ASSUME RepliesIntact, XInv, Ping
  PROVE  XInv'
<1>1. /\ rpc = "ping" /\ rpc' = "answer" /\ pings < MaxPings /\ pings' = pings + 1
      /\ UNCHANGED <<packetnum, pkt, mem, toBoard>>
      /\ UNCHANGED sender
      /\ UNCHANGED <<spc, file, synced, index, packet_nr, failed, out>>
      /\ Carry(toHost, PING, ReplyFaults, toHost')
  BY DEF Ping, Outbyte, sender
<1>2. /\ toHost' = toHost \/ toHost' = toHost \o <<PING>>
      /\ toHost' \in Seq(Byte) /\ faults' \in 0 .. MaxFaults
  <2>0. PING \in Byte /\ toHost \in Seq(Byte) /\ faults \in 0 .. MaxFaults
    BY Controls DEF XInv, XTypes
  <2>1. PICK got \in Arrivals(PING, ReplyFaults) :
          toHost' = toHost \o got /\ toHost' \in Seq(Byte) /\ faults' \in 0 .. MaxFaults
    BY <1>1, <2>0, Carried
  <2>2. got \in {<<>>, <<PING>>}
    BY ArrivalType, Controls DEF RepliesIntact
  <2>3. toHost \o <<>> = toHost
    BY DEF XInv, XTypes
  <2>. QED  BY <2>1, <2>2, <2>3
<1>3. XTypes'
  BY <1>1, <1>2 DEF XInv, XTypes, Stopped
<1>4. SenderInv'
  BY <1>1, SenderKept DEF XInv
<1>5. toHost = <<>> => toHost' \in {<<>>, <<PING>>}
  BY <1>2
<1>6. LineInv'
  <2>1. ASSUME spc = "sync" PROVE Syncing'
    BY <1>1, <1>5, <2>1 DEF XInv, LineInv, Stopped, Syncing
  <2>2. ASSUME spc \in {"send", "reply"} PROVE Pinging'
    <3>1. Pinging
      BY <1>1, <2>2 DEF XInv, LineInv, Stopped, Unread, Reading, Replied
    <3>. QED  BY <1>1, <1>5, <3>1 DEF Pinging, InStep
  <2>3. ASSUME spc \in {"exit", "gaveup"}, index < Len(file) PROVE Deserted'
    BY <1>1, <2>3 DEF XInv, LineInv, Stopped, Deserted
  <2>. QED  BY <1>1, <2>1, <2>2, <2>3 DEF LineInv
<1>7. AckInv'
  <2>1. ACK \in Range(toHost') => ACK \in Range(toHost)
    <3>1. Range(toHost \o <<PING>>) = Range(toHost) \union {PING}
      <4>1. toHost \in Seq(Byte) /\ <<PING>> \in Seq(Byte)
        BY Controls DEF XInv, XTypes
      <4>2. Range(<<PING>>) = {PING}
        BY Singles
      <4>. QED  BY <4>1, <4>2, RangeOf
    <3>. QED  BY <1>2, <3>1, Controls
  <2>2. spc \in {"sync", "send", "reply"} => ACK \notin Range(toHost)
    <3>1. spc \in {"sync", "send", "reply"} => toHost = <<>>
      BY <1>1 DEF XInv, LineInv, Stopped, Syncing, Unread, Reading, Replied, Pinging
    <3>. QED  BY <3>1, Singles
  <2>. QED  BY <1>1, <2>1, <2>2 DEF AckInv
<1>8. StoredInv'
  BY <1>1 DEF XInv, StoredInv, Stored
<1>. QED  BY <1>3, <1>4, <1>6, <1>7, <1>8 DEF XInv

LEMMA PingsOutStep ==
  ASSUME XInv, PingsOut
  PROVE  XInv'
<1>1. /\ rpc = "ping" /\ rpc' = "timeout"
      /\ toHost' = toHost \o <<CAN, CAN, CAN>>
      /\ UNCHANGED <<pings, packetnum, pkt, mem, toBoard, faults>>
      /\ UNCHANGED sender
      /\ UNCHANGED <<spc, file, synced, index, packet_nr, failed, out>>
  BY DEF PingsOut, sender
<1>2. <<CAN, CAN, CAN>> \in Seq(Byte) /\ toHost' \in Seq(Byte)
  BY <1>1, Controls DEF XInv, XTypes
<1>3. XTypes'
  BY <1>1, <1>2 DEF XInv, XTypes, Stopped
<1>4. SenderInv'
  BY <1>1, SenderKept DEF XInv
<1>5. LineInv'
  BY <1>1 DEF LineInv, Stopped
<1>6. AckInv'
  <2>1. ACK \notin Range(<<CAN, CAN, CAN>>)
    BY Controls DEF Range
  <2>2. ACK \in Range(toHost') => ACK \in Range(toHost)
    <3>1. toHost \in Seq(Byte)
      BY DEF XInv, XTypes
    <3>. QED  BY <1>1, <1>2, <2>1, <3>1, RangeOf
  <2>3. spc \in {"sync", "send", "reply"} => ACK \notin Range(toHost)
    <3>1. spc \in {"sync", "send", "reply"} => toHost = <<>>
      BY <1>1 DEF XInv, LineInv, Stopped, Syncing, Unread, Reading, Replied, Pinging
    <3>. QED  BY <3>1, Singles
  <2>. QED  BY <1>1, <2>2, <2>3 DEF AckInv
<1>7. StoredInv'
  BY <1>1 DEF XInv, StoredInv, Stored
<1>. QED  BY <1>3, <1>4, <1>5, <1>6, <1>7 DEF XInv

(* A read of the receiver.                                                 *)
LEMMA InbyteCases ==
  ASSUME XTypes, NEW c, Inbyte(c)
  PROVE  /\ toBoard' \in Seq(Byte)
         /\ \/ toBoard # <<>> /\ c = Head(toBoard) /\ c \in Byte /\ toBoard' = Tail(toBoard)
            \/ toBoard = <<>> /\ SenderWaits /\ c = None /\ toBoard' = toBoard
<1>1. toBoard \in Seq(Byte)
  BY DEF XTypes
<1>2. CASE toBoard # <<>> /\ c = Head(toBoard) /\ toBoard' = Tail(toBoard)
  BY <1>1, <1>2
<1>3. CASE ReceiverTimeout /\ c = None /\ UNCHANGED toBoard
  BY <1>1, <1>3 DEF ReceiverTimeout
<1>. QED  BY <1>2, <1>3 DEF Inbyte

(* Where an answer is waited for, or the start of a packet.                *)
LEMMA WhereItWaits ==
  ASSUME XInv, rpc \in {"answer", "start"}
  PROVE  /\ spc = "sync" => Syncing
         /\ spc \in {"send", "reply"} => Unread \/ Replied \/ Pinging
         /\ spc \in {"exit", "gaveup"} /\ index < Len(file) => Deserted
BY DEF XInv, LineInv, Stopped, Reading

(* Of a damaged packet, too, the first byte neither ends nor cancels the   *)
(* transfer.                                                               *)
LEMMA NoFalseEnd ==
  ASSUME DamageShows, XInv, rpc \in {"answer", "start"}, toBoard # <<>>,
         Head(toBoard) \in {EOT, CAN}
  PROVE  spc \notin {"sync", "send", "reply"} /\ index = Len(file)
<1>1. spc # "sync"
  BY WhereItWaits DEF Syncing
<1>2. ASSUME spc \in {"send", "reply"} PROVE FALSE
  <2>1. Unread
    BY <1>2, WhereItWaits DEF Replied, Pinging
  <2>2. /\ index < Len(file) /\ Left \in 0 .. 5
        /\ file \in Files /\ file \in Seq(Byte) /\ index \in Nat
    <3>1. index < Len(file) /\ Left <= 5
      BY <1>2 DEF XInv, SenderInv
    <3>2. Len(out) \in Nat /\ file \in Files /\ index \in 0 .. Len(file)
      BY DEF XInv, XTypes
    <3>3. file \in Seq(Byte)
      BY <3>2 DEF Byte
    <3>4. Left \in 0 .. 5
      <4>1. Left \in Nat
        BY <3>2 DEF Left
      <4>. QED  BY <3>1, <4>1
    <3>. QED  BY <3>1, <3>2, <3>3, <3>4
  <2>3. PICK w \in Heard(NextPacket)[6 - Left] : w.got = toBoard
    BY <2>1 DEF Unread, Arrived
  <2>4. Left # 5
    <3>1. ASSUME Left = 5 PROVE FALSE
      <4>1. w \in Heard(NextPacket)[1]
        BY <2>3, <3>1
      <4>2. w = [faults |-> 0, got |-> <<>>]
        BY <4>1, HeardStarts
      <4>3. w.got = <<>>
        BY <4>2
      <4>. QED  BY <2>3, <4>3
    <3>. QED  BY <3>1
  <2>5. 5 - Left \in 1 .. 5 /\ (5 - Left) + 1 = 6 - Left
    BY <2>2, <2>4
  <2>6. index + 1 \in DOMAIN file /\ NextPacket = Packet((index + 1) % 256, file[index + 1])
    BY <2>2 DEF NextPacket, XInv, XTypes
  <2>7. w.got[1] \notin {EOT, CAN}
    BY <2>2, <2>3, <2>5, <2>6 DEF DamageShows
  <2>. QED  BY <2>3, <2>7
<1>3. index = Len(file)
  <2>1. CASE spc \in {"eot", "eotreply", "done"}
    BY <2>1 DEF XInv, SenderInv
  <2>2. CASE spc \in {"exit", "gaveup"}
    <3>1. ~(index < Len(file))
      BY <2>2, WhereItWaits DEF Deserted
    <3>2. index \in 0 .. Len(file) /\ Len(file) \in Nat
      BY DEF XInv, XTypes
    <3>. QED  BY <3>1, <3>2
  <2>. QED  BY <1>1, <1>2, <2>1, <2>2 DEF XInv, XTypes
<1>. QED  BY <1>1, <1>2, <1>3

(* The start of a packet, as the receiver reads it.                        *)
LEMMA PacketStarts ==
  ASSUME XInv, rpc \in {"answer", "start"}, rpc' = "packet",
         toBoard # <<>>, Head(toBoard) = SOH, toBoard' = Tail(toBoard),
         UNCHANGED <<pings, packetnum, pkt, mem, toHost, faults>>,
         UNCHANGED sender
  PROVE  LineInv'
<1>0. PICK got \in Seq(Byte) : got = toBoard
  BY DEF XInv, XTypes
<1>1. spc # "sync"
  BY WhereItWaits DEF Syncing
<1>2. spc \in {"exit", "gaveup"} => ~(index < Len(file))
  BY WhereItWaits DEF Deserted
<1>3. NextPacket' = NextPacket /\ Left' = Left
  BY DEF sender, NextPacket, Left
<1>4. ASSUME spc \in {"send", "reply"} PROVE Reading(got)'
  <2>1. Unread
    BY <1>4, WhereItWaits DEF Replied, Pinging
  <2>2. got \in Seq(Byte) /\ pkt = <<>>
    BY DEF XInv, XTypes
  <2>3. Arrived(got)' /\ InStep' /\ toHost' = <<>>
    <3>1. Arrived(got) /\ InStep /\ toHost = <<>>
      BY <1>0, <2>1 DEF Unread
    <3>. HIDE DEF NextPacket
    <3>. QED  BY <1>3, <3>1 DEF Arrived, InStep, sender
  <2>4. got # <<>> /\ got[1] = SOH /\ Len(got) \in Nat /\ Len(got) > 0
    BY <1>0, <2>2
  <2>5. Tail(got) = SubSeq(got, 0 + 2, Len(got))
    <3>1. SubSeq(got, 1, Len(got)) = got /\ 1 \in 1 .. Len(got)
      BY <2>2, <2>4
    <3>. QED  BY <2>2, <3>1, TailOfSuffix
  <2>6. Reads(got, 0) = <<>>
    BY DEF Reads
  <2>7. pkt' = <<>> /\ Len(pkt') = 0 /\ toBoard' = SubSeq(got, 0 + 2, Len(got))
    BY <1>0, <2>2, <2>5
  <2>. QED
    BY <2>3, <2>4, <2>6, <2>7 DEF Reading
<1>. QED
  BY <1>1, <1>2, <1>4 DEF LineInv, sender

LEMMA AnswerStep ==
  ASSUME DamageShows, XInv, NEW c, Answer(c)
  PROVE  XInv'
<1>1. /\ rpc = "answer" /\ Inbyte(c)
      /\ UNCHANGED <<pings, packetnum, pkt, mem, toHost, faults>>
      /\ UNCHANGED sender
      /\ UNCHANGED <<spc, file, synced, index, packet_nr, failed, out>>
  BY DEF Answer, Quiet, sender
<1>2. /\ c = None => rpc' = "ping"
      /\ c = SOH => rpc' = "packet"
      /\ c = EOT => rpc' = "booted"
      /\ c = CAN => rpc' = "terminated"
      /\ c \notin {None, SOH, EOT, CAN} => rpc' = "unknown"
  BY DEF Answer, None, SOH, EOT, CAN
<1>3. /\ toBoard' \in Seq(Byte)
      /\ \/ toBoard # <<>> /\ c = Head(toBoard) /\ c \in Byte /\ toBoard' = Tail(toBoard)
         \/ toBoard = <<>> /\ SenderWaits /\ c = None /\ toBoard' = toBoard
  BY <1>1, InbyteCases DEF XInv
<1>4. XTypes'
  BY <1>1, <1>2, <1>3 DEF XInv, XTypes, Stopped
<1>5. SenderInv'
  BY <1>1, SenderKept DEF XInv
<1>6. LineInv'
  <2>1. CASE c = None
    <3>1. toBoard = <<>> /\ SenderWaits /\ toBoard' = <<>> /\ rpc' = "ping"
      BY <1>2, <1>3, <2>1, Controls
    <3>2. spc \in {"sync", "reply", "send"} => toHost = <<>> /\ spc # "send"
      BY <3>1 DEF SenderWaits, SenderStopped
    <3>3. ASSUME spc = "sync" PROVE Syncing'
      <4>1. Len(synced) < SyncReads
        BY <3>1, <3>3 DEF SenderWaits, SenderStopped
      <4>. QED  BY <1>1, <3>1, <3>2, <3>3, <4>1, WhereItWaits DEF Syncing
    <3>4. ASSUME spc \in {"send", "reply"} PROVE Pinging'
      BY <1>1, <3>1, <3>2, <3>4, WhereItWaits DEF Unread, Replied, Pinging, InStep
    <3>5. spc \in {"exit", "gaveup"} => Deserted'
      BY <3>1 DEF Deserted
    <3>. QED  BY <1>1, <3>3, <3>4, <3>5 DEF LineInv
  <2>2. CASE c = SOH
    BY <1>1, <1>2, <1>3, <2>2, PacketStarts, Controls
  <2>3. CASE c \notin {None, SOH}
    BY <1>2, <2>3 DEF LineInv, Stopped
  <2>. QED  BY <2>1, <2>2, <2>3
<1>7. AckInv'
  BY <1>1 DEF XInv, AckInv, Stored
<1>8. StoredInv'
  <2>1. rpc' = "booted" => c = EOT
    BY <1>2
  <2>2. rpc' = "booted" => index = Len(file)
    BY <1>1, <1>3, <2>1, NoFalseEnd, Controls
  <2>. QED  BY <1>1, <2>2 DEF XInv, StoredInv, Stored
<1>. QED  BY <1>4, <1>5, <1>6, <1>7, <1>8 DEF XInv

LEMMA CheckStartStep ==
  ASSUME DamageShows, XInv, NEW c, CheckStart(c)
  PROVE  XInv'
<1>1. /\ rpc = "start" /\ Inbyte(c)
      /\ IF c \in {EOT, CAN} THEN Outbyte(ACK) ELSE UNCHANGED <<toHost, faults>>
      /\ UNCHANGED <<pings, packetnum, pkt, mem>>
      /\ UNCHANGED sender
      /\ UNCHANGED <<spc, file, synced, index, packet_nr, failed, out>>
  BY DEF CheckStart, Quiet, sender
<1>2. /\ c = SOH => rpc' = "packet"
      /\ c = EOT => rpc' = "booted"
      /\ c = CAN => rpc' = "terminated"
      /\ c \notin {SOH, EOT, CAN} => rpc' = "unknown"
  BY DEF CheckStart, NextStart, SOH, EOT, CAN
<1>3. /\ toBoard' \in Seq(Byte)
      /\ \/ toBoard # <<>> /\ c = Head(toBoard) /\ c \in Byte /\ toBoard' = Tail(toBoard)
         \/ toBoard = <<>> /\ SenderWaits /\ c = None /\ toBoard' = toBoard
  BY <1>1, InbyteCases DEF XInv
<1>4. toHost' \in Seq(Byte) /\ faults' \in 0 .. MaxFaults
  <2>1. toHost \in Seq(Byte) /\ faults \in 0 .. MaxFaults /\ ACK \in Byte
    BY Controls DEF XInv, XTypes
  <2>. QED  BY <1>1, <2>1, Carried DEF Outbyte
<1>5. XTypes'
  BY <1>1, <1>2, <1>3, <1>4 DEF XInv, XTypes, Stopped
<1>6. SenderInv'
  BY <1>1, SenderKept DEF XInv
<1>7. c \in {EOT, CAN} => spc \notin {"sync", "send", "reply"} /\ index = Len(file)
  BY <1>1, <1>3, NoFalseEnd, Controls
<1>8. LineInv'
  <2>1. CASE c = SOH
    BY <1>1, <1>2, <1>3, <2>1, PacketStarts, Controls
  <2>2. CASE c # SOH
    BY <1>2, <2>2 DEF LineInv, Stopped
  <2>. QED  BY <2>1, <2>2
<1>9. AckInv'
  <2>1. CASE c \in {EOT, CAN}
    BY <1>1, <1>7, <2>1 DEF AckInv
  <2>2. CASE c \notin {EOT, CAN}
    BY <1>1, <2>2 DEF XInv, AckInv, Stored
  <2>. QED  BY <2>1, <2>2
<1>10. StoredInv'
  <2>1. rpc' = "booted" => c = EOT
    BY <1>2
  <2>. QED  BY <1>1, <1>7, <2>1 DEF XInv, StoredInv, Stored
<1>. QED  BY <1>5, <1>6, <1>8, <1>9, <1>10 DEF XInv

LEMMA ReadsNext ==
  ASSUME NEW got \in Seq(Byte), NEW n \in Nat,
         NEW b, b = IF n + 1 < Len(got) THEN got[n + 2] ELSE 255
  PROVE  Append(Reads(got, n), b) = Reads(got, n + 1)
<1>0. ASSUME NEW i \in Nat \ {0}
      PROVE  (IF i < Len(got) THEN got[i + 1] ELSE 255) \in Byte
  <2>1. i < Len(got) => i + 1 \in 1 .. Len(got)
    OBVIOUS
  <2>2. 255 \in Byte
    BY DEF Byte
  <2>. QED  BY <2>1, <2>2
<1>1. Reads(got, n) \in Seq(Byte) /\ Len(Reads(got, n)) = n
  BY <1>0 DEF Reads
<1>2. Reads(got, n + 1) \in Seq(Byte) /\ Len(Reads(got, n + 1)) = n + 1
  BY <1>0 DEF Reads
<1>3. b \in Byte
  <2>1. n + 1 \in Nat \ {0} /\ (n + 1) + 1 = n + 2
    OBVIOUS
  <2>. QED  BY <1>0, <2>1
<1>4. Append(Reads(got, n), b) \in Seq(Byte) /\ Len(Append(Reads(got, n), b)) = n + 1
  BY <1>1, <1>3
<1>5. ASSUME NEW i \in 1 .. n + 1 PROVE Append(Reads(got, n), b)[i] = Reads(got, n + 1)[i]
  <2>1. CASE i = n + 1
    <3>1. Append(Reads(got, n), b)[n + 1] = b
      BY <1>1, <1>3
    <3>2. Reads(got, n + 1)[n + 1] = IF n + 1 < Len(got) THEN got[(n + 1) + 1] ELSE 255
      <4>1. n + 1 \in 1 .. n + 1
        OBVIOUS
      <4>. QED  BY <4>1 DEF Reads
    <3>3. (n + 1) + 1 = n + 2
      OBVIOUS
    <3>. QED  BY <2>1, <3>1, <3>2, <3>3
  <2>2. CASE i \in 1 .. n
    <3>1. Append(Reads(got, n), b)[i] = Reads(got, n)[i]
      BY <1>1, <1>3, <2>2
    <3>2. i \in 1 .. n + 1
      OBVIOUS
    <3>3. Reads(got, n)[i] = IF i < Len(got) THEN got[i + 1] ELSE 255
      BY <2>2 DEF Reads
    <3>4. Reads(got, n + 1)[i] = IF i < Len(got) THEN got[i + 1] ELSE 255
      BY <3>2 DEF Reads
    <3>. QED  BY <3>1, <3>3, <3>4
  <2>3. i = n + 1 \/ i \in 1 .. n
    OBVIOUS
  <2>. QED  BY <2>1, <2>2, <2>3
<1>. QED  BY <1>2, <1>4, <1>5, SeqEqual

(* The data go to memory as they come.                                     *)
LEMMA GetByteStep ==
  ASSUME XInv, NEW c, GetByte(c)
  PROVE  XInv'
<1>1. /\ rpc = "packet" /\ Len(pkt) < 4 /\ Inbyte(c)
      /\ pkt' = Append(pkt, c % 256)
      /\ mem' = IF Len(pkt) = 2 THEN [mem EXCEPT ![packetnum] = c % 256] ELSE mem
      /\ UNCHANGED <<rpc, pings, packetnum, toHost, faults>>
      /\ UNCHANGED sender
      /\ UNCHANGED <<spc, file, synced, index, packet_nr, failed, out>>
  BY DEF GetByte, Quiet, sender
<1>2. /\ toBoard' \in Seq(Byte)
      /\ \/ toBoard # <<>> /\ c = Head(toBoard) /\ c \in Byte /\ toBoard' = Tail(toBoard)
         \/ toBoard = <<>> /\ SenderWaits /\ c = None /\ toBoard' = toBoard
  BY <1>1, InbyteCases DEF XInv
<1>3. c % 256 \in Byte /\ (c \in Byte => c % 256 = c) /\ (c = None => c % 256 = 255)
  <2>1. \A b \in Byte : b % 256 = b
    BY DEF Byte
  <2>2. \A x \in -256 .. -1 : x % 256 = x + 256
    OBVIOUS
  <2>3. None \in Int /\ -256 <= None /\ None <= -1 /\ None + 256 = 255 /\ 255 \in Byte
    BY DEF None, Byte
  <2>4. None \in -256 .. -1
    BY <2>3
  <2>5. None % 256 = 255
    BY <2>2, <2>3, <2>4
  <2>. QED  BY <1>2, <2>1, <2>3, <2>5
<1>4. /\ pkt \in Seq(Byte) /\ Len(pkt) \in Nat
      /\ packetnum \in 0 .. ROOM - 1 /\ mem \in [0 .. ROOM - 1 -> Byte]
      /\ toBoard \in Seq(Byte)
  <2>1. ~Stopped
    BY <1>1 DEF Stopped
  <2>2. pkt \in Seq(Byte)
    BY DEF XInv, XTypes
  <2>3. packetnum \in 0 .. ROOM - 1
    BY <2>1 DEF XInv, XTypes
  <2>4. Len(pkt) \in Nat
    BY <2>2
  <2>5. mem \in [0 .. ROOM - 1 -> Byte] /\ toBoard \in Seq(Byte)
    BY DEF XInv, XTypes
  <2>. QED  BY <1>1, <2>2, <2>3, <2>4, <2>5
<1>0. PICK n \in 0 .. 3 : n = Len(pkt)
  <2>1. Len(pkt) \in Nat /\ Len(pkt) < 4
    BY <1>1, <1>4
  <2>2. \A k \in Nat : k < 4 => k \in 0 .. 3
    OBVIOUS
  <2>. QED  BY <2>1, <2>2
<1>5. pkt' \in Seq(Byte) /\ Len(pkt') = n + 1
  BY <1>0, <1>1, <1>3, <1>4
<1>6. mem' \in [0 .. ROOM - 1 -> Byte]
      /\ \A i \in 0 .. ROOM - 1 : i # packetnum => mem'[i] = mem[i]
  BY <1>1, <1>3, <1>4
<1>7. XTypes'
  <2>1. Len(pkt') <= 4
    <3>1. n + 1 <= 4
      OBVIOUS
    <3>. QED  BY <1>5, <3>1
  <2>. QED  BY <1>1, <1>2, <1>5, <1>6, <2>1 DEF XInv, XTypes, Stopped
<1>8. SenderInv'
  BY <1>1, SenderKept DEF XInv
<1>9. spc \in {"send", "reply"} => \E got \in Seq(Byte) : Reading(got)
  BY <1>1 DEF XInv, LineInv, Stopped, Unread, Replied, Pinging
<1>10. LineInv'
  <2>1. spc # "sync" /\ (spc \in {"exit", "gaveup"} => ~(index < Len(file)))
    BY <1>1 DEF XInv, LineInv, Stopped, Syncing, Deserted
  <2>2. ASSUME spc \in {"send", "reply"}, NEW got \in Seq(Byte), Reading(got)
        PROVE  Reading(got)'
    <3>1. NextPacket' = NextPacket /\ Left' = Left
      BY <1>1, SenderKept DEF XInv
    <3>2. Arrived(got)' /\ InStep' /\ toHost' = <<>>
      <4>1. Arrived(got) /\ InStep /\ toHost = <<>>
        BY <2>2 DEF Reading
      <4>. HIDE DEF NextPacket
      <4>. QED  BY <1>1, <3>1, <4>1 DEF Arrived, InStep
    <3>3. /\ got # <<>> /\ got[1] = SOH
          /\ pkt = Reads(got, n) /\ toBoard = SubSeq(got, n + 2, Len(got))
          /\ n >= Len(got) => spc = "reply"
          /\ n >= 3 => mem[packetnum] = pkt[3]
      BY <1>0, <2>2 DEF Reading
    <3>4. n \in 0 .. 3 /\ Len(got) \in Nat
      BY <1>4
    (* What is left to show of the next place in the packet.               *)
    <3>7. ASSUME pkt' = Reads(got, n + 1), toBoard' = SubSeq(got, (n + 1) + 2, Len(got)),
                 n + 1 >= Len(got) => spc = "reply"
          PROVE  Reading(got)'
      <4>1. Len(pkt') = n + 1
        BY <1>5
      <4>2. n + 1 >= 3 => mem'[packetnum] = pkt'[3]
        <5>0. \A i \in 1 .. n : pkt'[i] = pkt[i]
          BY <1>0, <1>1, <1>3, <1>4
        <5>3. pkt'[n + 1] = c % 256
          BY <1>0, <1>1, <1>3, <1>4
        <5>1. CASE n = 2
          <6>1. mem'[packetnum] = c % 256
            BY <1>0, <1>1, <1>4, <5>1
          <6>2. pkt'[3] = c % 256
            BY <5>1, <5>3
          <6>. QED  BY <1>1, <6>1, <6>2
        <5>2. CASE n = 3
          <6>1. mem' = mem
            BY <1>0, <1>1, <5>2
          <6>2. pkt'[3] = pkt[3]
            BY <5>0, <5>2
          <6>3. mem[packetnum] = pkt[3]
            BY <3>3, <5>2
          <6>. QED  BY <1>1, <6>1, <6>2, <6>3
        <5>. QED  BY <3>4, <5>1, <5>2
      <4>. QED  BY <1>1, <3>2, <3>3, <3>7, <4>1, <4>2 DEF Reading
    <3>5. CASE n + 2 <= Len(got)
      <4>1. n + 2 \in 1 .. Len(got) /\ (n + 2) + 1 = (n + 1) + 2
        BY <3>4, <3>5
      <4>2. toBoard # <<>> /\ Head(toBoard) = got[n + 2]
            /\ Tail(toBoard) = SubSeq(got, (n + 1) + 2, Len(got))
        BY <3>3, <4>1, TailOfSuffix
      <4>3. c % 256 = got[n + 2] /\ toBoard' = SubSeq(got, (n + 1) + 2, Len(got))
        <5>1. c = got[n + 2] /\ c \in Byte /\ toBoard' = Tail(toBoard)
          BY <1>2, <4>2
        <5>. QED  BY <1>3, <4>2, <5>1
      <4>4. c % 256 = IF n + 1 < Len(got) THEN got[n + 2] ELSE 255
        BY <3>4, <3>5, <4>3
      <4>5. pkt' = Reads(got, n + 1)
        BY <1>1, <3>3, <3>4, <4>4, ReadsNext
      <4>6. ~(n + 1 >= Len(got)) 
        BY <3>4, <3>5
      <4>. QED  BY <3>7, <4>3, <4>5, <4>6
    <3>6. CASE ~(n + 2 <= Len(got))
      <4>1. toBoard = <<>>
        BY <3>3, <3>4, <3>6, SubSeqEmpty
      <4>2. c % 256 = 255 /\ toBoard' = <<>> /\ SenderWaits
        BY <1>2, <1>3, <4>1
      <4>3. spc = "reply"
        BY <2>2, <4>2 DEF SenderWaits, SenderStopped
      <4>4. SubSeq(got, (n + 1) + 2, Len(got)) = <<>>
        BY <3>4, <3>6, SubSeqEmpty
      <4>5. c % 256 = IF n + 1 < Len(got) THEN got[n + 2] ELSE 255
        BY <3>4, <3>6, <4>2
      <4>6. pkt' = Reads(got, n + 1)
        BY <1>1, <3>3, <3>4, <4>5, ReadsNext
      <4>. QED  BY <3>7, <4>2, <4>3, <4>4, <4>6
    <3>. QED  BY <3>5, <3>6
  <2>. QED  BY <1>1, <1>9, <2>1, <2>2 DEF LineInv
<1>11. AckInv'
  <2>1. spc \in {"send", "reply"} => toHost = <<>>
    BY <1>9 DEF Reading
  <2>2. spc # "sync"
    BY <1>1 DEF XInv, LineInv, Stopped, Syncing
  <2>. QED  BY <1>1, <2>1, <2>2, Singles DEF AckInv
<1>12. StoredInv'
  <2>1. index \in Nat /\ index <= packetnum /\ Stored(index)
    BY DEF XInv, XTypes, StoredInv
  <2>2. ASSUME NEW i \in 1 .. index PROVE mem'[i - 1] = file[i]
    <3>1. i - 1 \in 0 .. ROOM - 1 /\ i - 1 # packetnum
      BY <1>4, <2>1
    <3>. QED  BY <1>6, <2>1, <3>1 DEF Stored
  <2>. QED  BY <1>1, <2>1, <2>2 DEF StoredInv, Stored
<1>. QED  BY <1>7, <1>8, <1>10, <1>11, <1>12 DEF XInv

(* When a packet has been read to its end, all of it was sent.             *)
LEMMA WholePacketRead ==
  ASSUME XInv, rpc = "packet", Len(pkt) = 4, spc \in {"send", "reply"}
  PROVE  /\ spc = "reply" /\ toHost = <<>> /\ toBoard = <<>> /\ InStep
         /\ index < Len(file) /\ mem[packetnum] = pkt[3]
         /\ \E w \in Heard(NextPacket)[5 + 1] :
              w.got # <<>> /\ w.got[1] = SOH /\ pkt = Reads(w.got, 4)
<1>1. PICK got \in Seq(Byte) : Reading(got)
  BY DEF XInv, LineInv, Stopped, Unread, Replied, Pinging
<1>2. /\ toHost = <<>> /\ InStep /\ Arrived(got)
      /\ got # <<>> /\ got[1] = SOH
      /\ pkt = Reads(got, 4) /\ toBoard = SubSeq(got, 6, Len(got))
      /\ 4 >= Len(got) => spc = "reply"
      /\ mem[packetnum] = pkt[3]
  BY <1>1 DEF Reading
<1>3. index < Len(file) /\ Left <= 5 /\ (spc = "send" <=> Left > 0) /\ Left \in Nat
  BY DEF XInv, XTypes, SenderInv, Left
<1>4. Len(got) <= 5 - Left /\ Len(got) \in Nat
  BY <1>2, <1>3, ArrivedType DEF XInv
<1>5. spc = "reply"
  <2>1. spc = "send" => 4 >= Len(got)
    BY <1>3, <1>4
  <2>. QED  BY <1>2, <2>1
<1>6. Left = 0
  BY <1>3, <1>5
<1>7. toBoard = <<>>
  <2>1. Len(got) < 6
    BY <1>4, <1>6
  <2>. QED  BY <1>2, <1>4, <2>1, SubSeqEmpty
<1>8. PICK w \in Heard(NextPacket)[6] : w.got = got
  BY <1>2, <1>6 DEF Arrived
<1>. QED  BY <1>2, <1>3, <1>5, <1>7, <1>8

LEMMA NumbersMatch ==
  ASSUME NEW i \in Nat, NEW f \in 0 .. 254, (i + 1) % 256 = (i + f + 1) % 256
  PROVE  f = 0
OBVIOUS

(* An acknowledged packet is the one that the sender sent, and its data    *)
(* are in their place.                                                     *)
LEMMA SuccessMeansStored ==
  ASSUME DamageShows, FewRetries, XInv, rpc = "packet", Len(pkt) = 4,
         spc \in {"send", "reply"}, Success(pkt, (packetnum + 1) % 256)
  PROVE  packetnum = index /\ failed = 0 /\ Stored(index + 1)
<1>1. /\ InStep /\ index < Len(file) /\ mem[packetnum] = pkt[3]
      /\ \E w \in Heard(NextPacket)[5 + 1] :
           w.got # <<>> /\ w.got[1] = SOH /\ pkt = Reads(w.got, 4)
  BY WholePacketRead
<1>2. /\ index \in Nat /\ packetnum \in Nat /\ failed \in Nat
      /\ file \in Files /\ file \in Seq(Byte)
      /\ packet_nr = (index + 1) % 256
  BY DEF XInv, XTypes, Byte
<1>4. index + 1 \in DOMAIN file /\ NextPacket = Packet((index + 1) % 256, file[index + 1])
  BY <1>1, <1>2 DEF NextPacket
<1>5. pkt = Tail(NextPacket)
  <2>1. PICK w \in Heard(NextPacket)[5 + 1] :
          w.got # <<>> /\ w.got[1] = SOH /\ pkt = Reads(w.got, 4)
    BY <1>1
  <2>2. 5 \in 1 .. 5
    OBVIOUS
  <2>3. pkt = Tail(Packet(pkt[1], pkt[3])) => pkt = Tail(NextPacket)
    <3>1. PICK r : r = Reads(w.got, 4)
      OBVIOUS
    <3>2. \A u \in Heard(NextPacket)[5 + 1] :
            u.got # <<>> /\ u.got[1] = SOH =>
              LET read == Reads(u.got, 4) IN
                read = Tail(Packet(read[1], read[3])) => read = Tail(NextPacket)
      <4>1. PICK q : q = NextPacket
        OBVIOUS
      <4>2. \A u \in Heard(q)[5 + 1] :
              u.got # <<>> /\ u.got[1] = SOH =>
                LET read == Reads(u.got, 4) IN
                  read = Tail(Packet(read[1], read[3])) => read = Tail(q)
        <5>1. q = Packet((index + 1) % 256, file[index + 1])
          BY <1>4, <4>1
        <5>. QED  BY <1>2, <1>4, <2>2, <5>1 DEF DamageShows
      <4>. QED  BY <4>1, <4>2
    <3>3. r = Tail(Packet(r[1], r[3])) => r = Tail(NextPacket)
      BY <2>1, <3>1, <3>2
    <3>4. pkt = r
      BY <2>1, <3>1
    <3>. QED  BY <3>3, <3>4, Zenon
  <2>4. pkt \in Seq(Byte) /\ pkt[1] \in Byte /\ pkt[3] \in Byte
    <3>1. pkt \in Seq(Byte)
      BY DEF XInv, XTypes
    <3>2. 1 \in 1 .. Len(pkt) /\ 3 \in 1 .. Len(pkt)
      OBVIOUS
    <3>. QED  BY <3>1, <3>2, ElementOfSeq
  <2>5. Tail(Packet(pkt[1], pkt[3])) = <<pkt[1], 255 - pkt[1], pkt[3], Checksum(pkt[3])>>
    BY <2>4, PacketType
  <2>6. pkt = <<pkt[1], pkt[2], pkt[3], pkt[4]>>
    BY <2>4
  <2>7. pkt[2] = 255 - pkt[1] /\ pkt[4] = Checksum(pkt[3])
    BY DEF Success
  <2>. QED  BY <2>3, <2>5, <2>6, <2>7
<1>6. pkt = <<packet_nr, 255 - packet_nr, file[index + 1], Checksum(file[index + 1])>>
  BY <1>1, <1>5, NextPacketType DEF XInv
<1>7. pkt[1] = packet_nr /\ pkt[3] = file[index + 1]
  BY <1>6
<1>8. packet_nr = (packetnum + 1) % 256
  BY <1>7 DEF Success
<1>9. failed \in 0 .. 254
  <2>1. failed <= MaxFailed
    BY DEF XInv, SenderInv
  <2>. QED  BY <1>2, <2>1 DEF FewRetries
<1>10. packetnum = index + failed
  BY <1>1 DEF InStep
<1>11. failed = 0
  <2>1. packetnum + 1 = index + failed + 1
    BY <1>2, <1>10
  <2>2. (index + 1) % 256 = (index + failed + 1) % 256
    BY <1>2, <1>8, <2>1
  <2>. QED  BY <1>2, <1>9, <2>2, NumbersMatch
<1>12. packetnum = index
  BY <1>2, <1>10, <1>11
<1>13. mem[index] = file[index + 1]
  BY <1>1, <1>7, <1>12
<1>14. Stored(index + 1)
  <2>1. Stored(index)
    BY DEF XInv, StoredInv
  <2>2. \A i \in 1 .. index + 1 : i \in 1 .. index \/ (i = index + 1 /\ i - 1 = index)
    BY <1>2
  <2>. QED  BY <1>13, <2>1, <2>2 DEF Stored
<1>. QED  BY <1>11, <1>12, <1>14

LEMMA AcknowledgeStep ==
  ASSUME DamageShows, FewRetries, RepliesIntact, XInv, Acknowledge
  PROVE  XInv'
<1>. DEFINE answer == IF Success(pkt, (packetnum + 1) % 256) THEN ACK ELSE NAK
<1>1. /\ rpc = "packet" /\ Len(pkt) = 4
      /\ Carry(toHost, answer, ReplyFaults, toHost')
      /\ packetnum' = packetnum + 1 /\ pkt' = <<>>
      /\ rpc' = IF packetnum + 1 < ROOM THEN "start" ELSE "unreachable"
      /\ UNCHANGED <<pings, mem, toBoard>>
      /\ UNCHANGED sender
      /\ UNCHANGED <<spc, file, synced, index, packet_nr, failed, out>>
  BY DEF Acknowledge, Outbyte, Remaining, sender
<1>2. answer \in Byte /\ answer \in {ACK, NAK}
  BY Controls
<1>3. packetnum \in Nat /\ packetnum < ROOM
  BY <1>1 DEF XInv, XTypes, Stopped
<1>4. toHost' \in {toHost, toHost \o <<answer>>} /\ toHost' \in Seq(Byte) /\ faults' \in 0 .. MaxFaults
  <2>. HIDE DEF answer
  <2>0. toHost \in Seq(Byte) /\ faults \in 0 .. MaxFaults
    BY DEF XInv, XTypes
  <2>1. PICK got \in Arrivals(answer, ReplyFaults) :
          toHost' = toHost \o got /\ toHost' \in Seq(Byte) /\ faults' \in 0 .. MaxFaults
    BY <1>1, <1>2, <2>0, Carried
  <2>2. got \in {<<>>, <<answer>>}
    BY <1>2, ArrivalType DEF RepliesIntact
  <2>3. toHost \o <<>> = toHost
    BY <2>0
  <2>. QED  BY <2>1, <2>2, <2>3
<1>5. XTypes'
  <2>1. packetnum + 1 \in 0 .. ROOM /\ (rpc' = "start" => packetnum + 1 < ROOM)
    BY <1>1, <1>3
  <2>2. rpc' \in {"start", "unreachable"} /\ pkt' \in Seq(Byte) /\ Len(pkt') <= 4
    BY <1>1
  <2>. QED  BY <1>1, <1>4, <2>1, <2>2 DEF XInv, XTypes, Stopped
<1>6. SenderInv'
  BY <1>1, SenderKept DEF XInv
<1>7. spc \in {"send", "reply"} =>
        spc = "reply" /\ toHost = <<>> /\ toBoard = <<>> /\ InStep
  BY <1>1, WholePacketRead
<1>8. spc # "sync" /\ (spc \in {"exit", "gaveup"} => ~(index < Len(file)))
  BY <1>1 DEF XInv, LineInv, Stopped, Syncing, Deserted
<1>9. ASSUME spc \in {"send", "reply"}, toHost' = <<ACK>>
      PROVE  packetnum = index /\ failed = 0 /\ Stored(index + 1)
  <2>1. <<ACK>> # <<>> /\ (<<ACK>> = <<answer>> => ACK = answer)
    OBVIOUS
  <2>2. answer = ACK
    <3>. HIDE DEF answer
    <3>1. toHost' \in {<<>>, <<answer>>}
      BY <1>4, <1>7, <1>9, <1>2
    <3>. QED  BY <1>9, <2>1, <3>1
  <2>3. Success(pkt, (packetnum + 1) % 256)
    BY <2>2, Controls
  <2>. QED  BY <1>1, <1>9, <2>3, SuccessMeansStored
<1>10. spc \in {"send", "reply"} => toHost' \in {<<>>, <<ACK>>, <<NAK>>}
  BY <1>2, <1>4, <1>7
<1>11. LineInv'
  <2>1. ASSUME spc \in {"send", "reply"}, rpc' = "start" PROVE Replied'
    <3>1. packetnum' = index' + failed' + 1
      BY <1>1, <1>7, <2>1 DEF InStep
    <3>. QED  BY <1>1, <1>7, <1>9, <1>10, <2>1, <3>1 DEF Replied
  <2>. QED  BY <1>1, <1>8, <2>1 DEF LineInv, Stopped
<1>12. AckInv'
  <2>1. ASSUME spc \in {"send", "reply"}, ACK \in Range(toHost')
        PROVE  toHost' = <<ACK>>
    <3>1. Range(<<>>) = {} /\ Range(<<NAK>>) = {NAK}
      BY Singles
    <3>. QED  BY <1>10, <2>1, <3>1, Controls
  <2>2. ASSUME spc \in {"send", "reply"}, ACK \in Range(toHost')
        PROVE  packetnum' > index' /\ Stored(index + 1)' /\ spc = "reply"
    <3>1. packetnum' > index'
      BY <1>1, <1>3, <1>9, <2>1, <2>2
    <3>2. Stored(index + 1)'
      BY <1>1, <1>9, <2>1, <2>2 DEF Stored
    <3>. QED  BY <1>7, <2>2, <3>1, <3>2
  <2>. QED  BY <1>1, <1>8, <2>1, <2>2 DEF AckInv
<1>13. StoredInv'
  <2>1. index \in Nat /\ index <= packetnum
    BY DEF XInv, XTypes, StoredInv
  <2>2. index <= packetnum + 1
    BY <1>3, <2>1
  <2>. QED  BY <1>1, <2>2 DEF XInv, StoredInv, Stored
<1>. QED  BY <1>5, <1>6, <1>11, <1>12, <1>13 DEF XInv

-----------------------------------------------------------------------------
(* Steps of the sender leave the receiver alone.                           *)
LEMMA TailRange ==
  ASSUME NEW s \in Seq(Byte), s # <<>>, NEW n \in 1 .. Len(s)
  PROVE  /\ SubSeq(s, n + 1, Len(s)) \in Seq(Byte)
         /\ Range(SubSeq(s, n + 1, Len(s))) \subseteq Range(s)
<1>1. CASE n = Len(s)
  <2>1. SubSeq(s, n + 1, Len(s)) = <<>>
    <3>1. n + 1 \in Int /\ Len(s) \in Int /\ Len(s) < n + 1
      BY <1>1
    <3>. QED  BY <3>1, SubSeqEmpty
  <2>2. <<>> \in Seq(Byte) /\ Range(<<>>) = {}
    BY Singles
  <2>. QED  BY <2>1, <2>2
<1>2. CASE n # Len(s)
  <2>1. n + 1 \in 1 .. Len(s) /\ Len(s) \in n + 1 .. Len(s)
    BY <1>2
  <2>2. /\ SubSeq(s, n + 1, Len(s)) \in Seq(Byte)
        /\ Len(SubSeq(s, n + 1, Len(s))) = Len(s) - n
        /\ \A i \in 1 .. Len(s) - n : SubSeq(s, n + 1, Len(s))[i] = s[n + i]
    <3>1. Len(s) - (n + 1) + 1 = Len(s) - n
      OBVIOUS
    <3>. QED  BY <2>1, <3>1
  <2>3. ASSUME NEW i \in 1 .. Len(s) - n PROVE s[n + i] \in Range(s)
    BY DEF Range
  <2>. QED  BY <2>2, <2>3 DEF Range
<1>. QED  BY <1>1, <1>2

LEMMA ReadPingStep ==
  ASSUME XInv, ReadPing
  PROVE  XInv'
<1>1. /\ spc = "sync" /\ Len(synced) < SyncReads /\ toHost # <<>>
      /\ synced' = Append(synced, Head(toHost)) /\ toHost' = Tail(toHost)
      /\ UNCHANGED <<rpc, pings, packetnum, pkt, mem>>
      /\ UNCHANGED <<spc, file, index, packet_nr, failed, out, toBoard, faults>>
  BY DEF ReadPing, receiver
<1>2. toHost \in Seq(Byte) /\ synced \in Seq(Byte)
  BY DEF XInv, XTypes
<1>3. toHost' \in Seq(Byte) /\ Range(toHost') \subseteq Range(toHost)
  <2>1. Tail(toHost) = SubSeq(toHost, 1 + 1, Len(toHost)) /\ 1 \in 1 .. Len(toHost)
    <3>1. SubSeq(toHost, 1, Len(toHost)) = toHost /\ 1 \in 1 .. Len(toHost)
      BY <1>1, <1>2
    <3>. QED  BY <1>2, <3>1, TailOfSuffix
  <2>. QED  BY <1>1, <1>2, <2>1, TailRange
<1>4. synced' \in Seq(Byte) /\ Len(synced') <= SyncReads
  <2>1. Head(toHost) \in Byte /\ Len(synced) \in Nat
    BY <1>1, <1>2
  <2>. QED  BY <1>1, <1>2, <2>1
<1>5. XTypes'
  BY <1>1, <1>3, <1>4 DEF XInv, XTypes, Stopped
<1>6. SenderInv'
  BY <1>1 DEF XInv, SenderInv, Left, NextPacket
<1>7. LineInv'
  <2>1. ASSUME ~Stopped PROVE Syncing'
    <3>1. Syncing
      BY <1>1, <2>1 DEF XInv, LineInv
    <3>2. toHost = <<PING>> /\ rpc = "answer"
      BY <1>1, <3>1 DEF Syncing
    <3>3. toHost' = <<>>
      BY <1>1, <3>2
    <3>. QED  BY <1>1, <3>1, <3>2, <3>3 DEF Syncing
  <2>. QED  BY <1>1, <2>1 DEF LineInv, Stopped
<1>8. AckInv'
  <2>1. ACK \notin Range(toHost)
    BY <1>1 DEF XInv, AckInv
  <2>. QED  BY <1>3, <2>1 DEF AckInv
<1>9. StoredInv'
  BY <1>1 DEF XInv, StoredInv, Stored
<1>. QED  BY <1>5, <1>6, <1>7, <1>8, <1>9 DEF XInv

(* Of a packet that is about to be sent, nothing has arrived.              *)
LEMMA NothingSent ==
  ASSUME faults' \in Nat, Left' = 5
  PROVE  Arrived(<<>>)'
<1>. DEFINE w == [faults |-> 0, got |-> <<>>]
<1>1. w \in Heard(NextPacket')[1]
  BY HeardStarts
<1>2. 6 - Left' = 1
  OBVIOUS
<1>3. w \in Heard(NextPacket')[6 - Left']
  BY <1>1, <1>2
<1>4. w.got = <<>> /\ w.faults <= faults'
  OBVIOUS
<1>. HIDE DEF w, NextPacket
<1>. QED  BY <1>3, <1>4 DEF Arrived

LEMMA SynchroniseStep ==
  ASSUME XInv, Synchronise
  PROVE  XInv'
<1>1. /\ spc = "sync" /\ synced' = <<>>
      /\ Len(synced) = SyncReads \/ SenderTimeout
      /\ \/ spc' = "send" /\ out' = NextPacket
         \/ spc' = "exit" /\ Stopped /\ out' = out
         \/ spc' = "sync" /\ ~Stopped /\ out' = out
      /\ UNCHANGED <<rpc, pings, packetnum, pkt, mem>>
      /\ UNCHANGED <<file, index, packet_nr, failed, toBoard, toHost, faults>>
  BY DEF Synchronise, receiver, NextPacket
<1>2. index = 0 /\ failed = 0 /\ index < Len(file)
  <2>1. index = 0 /\ failed = 0
    BY <1>1 DEF XInv, SenderInv
  <2>2. file \in Seq(Byte) /\ file # <<>>
    BY DEF XInv, XTypes, Byte
  <2>. QED  BY <2>1, <2>2
<1>3. NextPacket \in Seq(Byte) /\ Len(NextPacket) = 5 /\ NextPacket' = NextPacket
  <2>1. NextPacket' = NextPacket
    BY <1>1 DEF NextPacket
  <2>. QED  BY <1>2, <2>1, NextPacketType DEF XInv
<1>4. XTypes'
  BY <1>1, <1>3 DEF XInv, XTypes, Stopped
<1>5. SenderInv'
  <2>1. ASSUME spc' = "send" PROVE SenderInv'
    <3>1. Left' = 5 /\ out' = NextPacket'
      BY <1>1, <1>3, <2>1 DEF Left
    <3>2. \A j \in 1 .. 5 : out'[j] = NextPacket'[5 - 5 + j]
      BY <3>1
    <3>3. failed' <= MaxFailed /\ index' < Len(file)'
      BY <1>1, <1>2
    <3>. QED  BY <2>1, <3>1, <3>2, <3>3 DEF SenderInv
  <2>2. CASE spc' \in {"exit", "sync"}
    BY <1>1, <1>2, <2>2 DEF SenderInv
  <2>. QED  BY <1>1, <2>1, <2>2
<1>6. LineInv'
  <2>1. ASSUME ~Stopped PROVE Syncing /\ rpc = "answer" /\ toHost = <<>> /\ toBoard = <<>> /\ packetnum = 0
    <3>1. Syncing /\ Len(synced) = SyncReads
      BY <1>1, <2>1 DEF XInv, LineInv, SenderTimeout
    <3>. QED  BY <3>1 DEF Syncing
  <2>2. ASSUME ~Stopped, spc' = "send" PROVE Unread'
    <3>1. Left' = 5
      BY <1>1, <1>3, <2>2 DEF Left
    <3>2. Arrived(<<>>)'
      <4>1. faults' \in Nat
        BY <1>4 DEF XTypes
      <4>. QED  BY <3>1, <4>1, NothingSent
    <3>3. InStep'
      BY <1>1, <1>2, <2>1, <2>2 DEF InStep
    <3>. QED  BY <1>1, <2>1, <2>2, <3>2, <3>3 DEF Unread
  <2>3. ASSUME ~Stopped, spc' = "sync" PROVE Syncing'
    BY <1>1, <2>1, <2>3 DEF Syncing
  <2>. QED  BY <1>1, <2>2, <2>3 DEF LineInv, Stopped
<1>7. AckInv'
  BY <1>1 DEF XInv, AckInv
<1>8. StoredInv'
  BY <1>1 DEF XInv, StoredInv, Stored
<1>. QED  BY <1>4, <1>5, <1>6, <1>7, <1>8 DEF XInv

(* What arrives of the next byte is appended to what has arrived.          *)
LEMMA SuffixGrows ==
  ASSUME NEW s \in Seq(Byte), NEW t \in Seq(Byte), NEW i \in 1 .. Len(s) + 1
  PROVE  SubSeq(s, i, Len(s)) \o t = SubSeq(s \o t, i, Len(s \o t))
<1>1. /\ s \o t \in Seq(Byte) /\ Len(s \o t) = Len(s) + Len(t)
      /\ \A j \in 1 .. Len(s) + Len(t) :
           (s \o t)[j] = IF j <= Len(s) THEN s[j] ELSE t[j - Len(s)]
  BY ConcatProperties
<1>. DEFINE a == SubSeq(s, i, Len(s))
            b == SubSeq(s \o t, i, Len(s \o t))
            n == Len(s) - i + 1
<1>2. n \in Nat /\ Len(t) \in Nat
  OBVIOUS
<1>3. /\ a \in Seq(Byte) /\ Len(a) = n
      /\ \A j \in 1 .. n : a[j] = s[i + j - 1]
  <2>1. CASE i = Len(s) + 1
    BY <2>1, SubSeqEmpty
  <2>2. CASE i \in 1 .. Len(s)
    BY <2>2, SubSeqProperties
  <2>. QED  BY <2>1, <2>2
<1>4. /\ b \in Seq(Byte) /\ Len(b) = n + Len(t)
      /\ \A j \in 1 .. n + Len(t) : b[j] = (s \o t)[i + j - 1]
  <2>. DEFINE u == s \o t
  <2>. HIDE DEF u
  <2>0. u \in Seq(Byte) /\ Len(u) = Len(s) + Len(t)
    BY <1>1 DEF u
  <2>1. CASE i = Len(u) + 1
    <3>1. n + Len(t) = 0
      BY <2>0, <2>1
    <3>2. SubSeq(u, i, Len(u)) = <<>>
      BY <2>0, <2>1, SubSeqEmpty
    <3>. QED  BY <3>1, <3>2 DEF u
  <2>2. CASE i \in 1 .. Len(u)
    <3>1. /\ SubSeq(u, i, Len(u)) \in Seq(Byte)
          /\ Len(SubSeq(u, i, Len(u))) = Len(u) - i + 1
          /\ \A j \in 1 .. Len(u) - i + 1 : SubSeq(u, i, Len(u))[j] = u[i + j - 1]
      BY <2>0, <2>2, SubSeqProperties
    <3>2. Len(u) - i + 1 = n + Len(t)
      BY <2>0
    <3>. HIDE DEF n
    <3>. QED  BY <3>1, <3>2 DEF u
  <2>. QED  BY <2>0, <2>1, <2>2
<1>. HIDE DEF a, b
<1>5. /\ a \o t \in Seq(Byte) /\ Len(a \o t) = n + Len(t)
      /\ \A j \in 1 .. n + Len(t) : (a \o t)[j] = IF j <= n THEN a[j] ELSE t[j - n]
  <2>. HIDE DEF n
  <2>1. /\ a \o t \in Seq(Byte) /\ Len(a \o t) = Len(a) + Len(t)
        /\ \A j \in 1 .. Len(a) + Len(t) : (a \o t)[j] = IF j <= Len(a) THEN a[j] ELSE t[j - Len(a)]
    <3>1. a \in Seq(Byte)
      BY <1>3
    <3>. QED  BY <3>1, ConcatProperties
  <2>. QED  BY <1>3, <2>1
<1>6. ASSUME NEW j \in 1 .. n + Len(t) PROVE (a \o t)[j] = b[j]
  <2>1. i + j - 1 \in 1 .. Len(s) + Len(t)
    OBVIOUS
  <2>2. b[j] = IF i + j - 1 <= Len(s) THEN s[i + j - 1] ELSE t[i + j - 1 - Len(s)]
    BY <1>1, <1>4, <2>1
  <2>3. CASE j <= n
    BY <1>3, <1>5, <2>2, <2>3
  <2>4. CASE ~(j <= n)
    <3>1. i + j - 1 - Len(s) = j - n /\ ~(i + j - 1 <= Len(s))
      BY <2>4
    <3>. QED  BY <1>5, <2>2, <2>4, <3>1
  <2>. QED  BY <2>3, <2>4
<1>7. a \o t = b
  <2>. HIDE DEF n
  <2>. QED  BY <1>4, <1>5, <1>6, SeqEqual
<1>. QED  BY <1>7 DEF a, b

LEMMA ReadsKept ==
  ASSUME NEW s \in Seq(Byte), NEW t \in Seq(Byte), NEW n \in Nat, n < Len(s)
  PROVE  Reads(s \o t, n) = Reads(s, n)
<1>1. /\ s \o t \in Seq(Byte) /\ Len(s \o t) = Len(s) + Len(t)
      /\ \A j \in 1 .. Len(s) + Len(t) :
           (s \o t)[j] = IF j <= Len(s) THEN s[j] ELSE t[j - Len(s)]
  BY ConcatProperties
<1>2. ASSUME NEW i \in 1 .. n
      PROVE  /\ i < Len(s) /\ i < Len(s \o t)
             /\ (s \o t)[i + 1] = s[i + 1]
  <2>1. i + 1 \in 1 .. Len(s) + Len(t) /\ i + 1 <= Len(s) /\ i < Len(s) + Len(t)
    OBVIOUS
  <2>. QED  BY <1>1, <2>1
<1>. QED  BY <1>2 DEF Reads

(* The next byte of the packet.                                            *)
LEMMA ByteArrives ==
  ASSUME XInv, ~Stopped, SendByte, NEW got \in Seq(Byte), Arrived(got)
  PROVE  \E g \in Seq(Byte) :
           /\ toBoard' = toBoard \o g /\ toBoard' \in Seq(Byte) /\ faults' \in 0 .. MaxFaults
           /\ Arrived(got \o g)'
<1>. DEFINE k == 6 - Left
<1>1. /\ spc = "send" /\ out' = Tail(out)
      /\ Carry(toBoard, Head(out), IF Left = 5 THEN StartFaults ELSE BodyFaults, toBoard')
      /\ UNCHANGED <<file, index, packet_nr>>
  BY DEF SendByte, Emit, Left
<1>2. Left \in 1 .. 5 /\ index < Len(file) /\ \A j \in 1 .. Left : out[j] = NextPacket[5 - Left + j]
  <2>1. Left \in Nat
    BY DEF XInv, XTypes, Left
  <2>. QED  BY <1>1, <2>1 DEF XInv, SenderInv
<1>3. out # <<>> /\ out \in Seq(Byte)
  <2>1. Len(out) > 0
    <3>1. Left > 0
      BY <1>2
    <3>. QED  BY <3>1 DEF Left
  <2>2. out \in Seq(Byte)
    BY DEF XInv, XTypes
  <2>. QED  BY <2>1, <2>2
<1>4. k \in 1 .. 5 /\ (Left = 5 <=> k = 1) /\ 5 - Left + 1 = k
  BY <1>2
<1>5. Left' = Left - 1
  BY <1>1, <1>3 DEF Left
<1>6. NextPacket' = NextPacket
  BY <1>1 DEF NextPacket
<1>7. NextPacket \in Seq(Byte) /\ Len(NextPacket) = 5
  BY <1>2, NextPacketType DEF XInv
<1>8. Head(out) = NextPacket[k] /\ Head(out) \in Byte
  <2>1. Head(out) = out[1] /\ 1 \in 1 .. Left /\ Head(out) \in Byte
    BY <1>2, <1>3
  <2>. QED  BY <1>2, <1>4, <2>1
<1>9. (IF Left = 5 THEN StartFaults ELSE BodyFaults) = Kinds(k)
  BY <1>4 DEF Kinds
<1>. DEFINE q == NextPacket
<1>. HIDE DEF k, q
<1>10. PICK g \in Arrivals(q[k], Kinds(k)) :
         /\ toBoard' = toBoard \o g /\ toBoard' \in Seq(Byte)
         /\ faults' = faults + Cost(q[k], g) /\ faults' \in 0 .. MaxFaults
  <2>1. toBoard \in Seq(Byte) /\ faults \in 0 .. MaxFaults
    BY DEF XInv, XTypes
  <2>2. q[k] \in Byte /\ Carry(toBoard, q[k], Kinds(k), toBoard')
    BY <1>1, <1>8, <1>9 DEF q
  <2>. QED  BY <2>1, <2>2, Carried
<1>11. g \in Seq(Byte)
  BY <1>8, ArrivalType DEF q
<1>12. PICK w \in Heard(q)[k] : w.got = got /\ w.faults <= faults /\ w.faults \in Nat
  <2>1. PICK w \in Heard(q)[k] : w.got = got /\ w.faults <= faults
    BY DEF Arrived, q, k
  <2>2. 5 - Left \in 0 .. 5 /\ (5 - Left) + 1 = k
    BY <1>2 DEF k
  <2>3. w.faults \in Nat
    BY <1>7, <2>1, <2>2, HeardType DEF q
  <2>. QED  BY <2>1, <2>3
<1>13. w.faults + Cost(q[k], g) <= MaxFaults /\ w.faults + Cost(q[k], g) <= faults'
  <2>1. Cost(q[k], g) \in {0, 1}
    BY DEF Cost
  <2>2. faults \in Nat
    BY DEF XInv, XTypes
  <2>. QED  BY <1>10, <1>12, <2>1, <2>2
<1>14. PICK v \in Heard(q)[k + 1] :
         v.got = w.got \o g /\ v.faults = w.faults + Cost(q[k], g)
  <2>0. PICK p : p = q
    OBVIOUS
  <2>1. PICK m \in 1 .. 5 : m = k
    BY <1>4
  <2>2. w \in Heard(p)[m] /\ g \in Arrivals(p[m], Kinds(m)) /\ w.faults + Cost(p[m], g) <= MaxFaults
    BY <1>13, <2>0, <2>1
  <2>3. \E v \in Heard(p)[m + 1] : v.got = w.got \o g /\ v.faults = w.faults + Cost(p[m], g)
    BY <2>2, HeardGrows
  <2>. QED  BY <2>0, <2>1, <2>3
<1>15. v.got = got \o g /\ v.faults <= faults'
  BY <1>12, <1>13, <1>14
<1>16. Arrived(got \o g)'
  <2>1. k + 1 = 6 - Left'
    BY <1>2, <1>5 DEF k
  <2>2. v \in Heard(NextPacket')[6 - Left']
    BY <1>6, <1>14, <2>1 DEF q
  <2>. QED  BY <1>15, <2>2 DEF Arrived
<1>. QED  BY <1>10, <1>11, <1>16

LEMMA SendByteStep ==
  ASSUME XInv, SendByte
  PROVE  XInv'
<1>1. /\ spc = "send" /\ out' = Tail(out)
      /\ spc' = IF Left = 1 THEN "reply" ELSE "send"
      /\ UNCHANGED <<rpc, pings, packetnum, pkt, mem>>
      /\ UNCHANGED <<file, synced, index, packet_nr, failed, toHost>>
  BY DEF SendByte, receiver, Left
<1>2. Stopped => UNCHANGED <<toBoard, faults>>
  BY DEF SendByte, Emit
<1>3. /\ Left \in 1 .. 5 /\ index < Len(file) /\ failed <= MaxFailed
      /\ \A j \in 1 .. Left : out[j] = NextPacket[5 - Left + j]
  <2>1. Left \in Nat
    BY DEF XInv, XTypes, Left
  <2>. QED  BY <1>1, <2>1 DEF XInv, SenderInv
<1>4. out # <<>> /\ out \in Seq(Byte)
  <2>1. Len(out) > 0
    <3>1. Left > 0
      BY <1>3
    <3>. QED  BY <3>1 DEF Left
  <2>2. out \in Seq(Byte)
    BY DEF XInv, XTypes
  <2>. QED  BY <2>1, <2>2
<1>5. /\ out' \in Seq(Byte) /\ Left' = Left - 1
      /\ \A j \in 1 .. Left - 1 : out'[j] = out[j + 1]
  BY <1>1, <1>4 DEF Left
<1>6. NextPacket' = NextPacket
  BY <1>1 DEF NextPacket
<1>7. toBoard' \in Seq(Byte) /\ faults' \in 0 .. MaxFaults
  <2>1. toBoard \in Seq(Byte) /\ faults \in 0 .. MaxFaults
    BY DEF XInv, XTypes
  <2>2. Head(out) \in Byte
    BY <1>4
  <2>3. CASE Stopped
    BY <1>2, <2>1, <2>3
  <2>4. CASE ~Stopped
    <3>1. Carry(toBoard, Head(out), IF Left = 5 THEN StartFaults ELSE BodyFaults, toBoard')
      BY <2>4 DEF SendByte, Emit, Left
    <3>. QED  BY <2>1, <2>2, <3>1, Carried
  <2>. QED  BY <2>3, <2>4
<1>8. XTypes'
  <2>1. spc' \in {"send", "reply"}
    BY <1>1
  <2>. QED  BY <1>1, <1>5, <1>7, <2>1 DEF XInv, XTypes, Stopped
<1>9. SenderInv'
  <2>1. ASSUME NEW j \in 1 .. Left' PROVE out'[j] = NextPacket'[5 - Left' + j]
    <3>1. j \in 1 .. Left - 1 /\ j + 1 \in 1 .. Left /\ 5 - Left + (j + 1) = 5 - Left' + j
      BY <1>3, <1>5
    <3>. QED  BY <1>3, <1>5, <1>6, <3>1
  <2>2. Left' <= 5 /\ (spc' = "send" <=> Left' > 0) /\ spc' \in {"send", "reply"}
    BY <1>1, <1>3, <1>5
  <2>. QED  BY <1>1, <1>3, <2>1, <2>2 DEF SenderInv
<1>10. ASSUME ~Stopped
       PROVE  Unread' \/ \E got \in Seq(Byte) : Reading(got)'
  <2>1. Unread \/ \E got \in Seq(Byte) : Reading(got)
    BY <1>1, <1>10 DEF XInv, LineInv, Replied, Pinging
  <2>2. CASE Unread
    <3>0. PICK line \in Seq(Byte) : line = toBoard
      BY DEF XInv, XTypes
    <3>1. rpc \in {"answer", "start"} /\ toHost = <<>> /\ Arrived(line) /\ InStep
      BY <2>2, <3>0 DEF Unread
    <3>2. PICK g \in Seq(Byte) : toBoard' = toBoard \o g /\ Arrived(line \o g)'
      BY <1>10, <3>1, ByteArrives
    <3>3. PICK l2 \in Seq(Byte) : l2 = line \o g /\ l2 = toBoard'
      <4>1. line \o g \in Seq(Byte)
        BY ConcatProperties
      <4>. QED  BY <3>0, <3>2, <4>1
    <3>4. Arrived(l2)'
      BY <3>2, <3>3
    <3>5. Arrived(toBoard)'
      <4>. HIDE DEF Arrived
      <4>. QED  BY <3>3, <3>4
    <3>. QED  BY <1>1, <3>1, <3>5 DEF Unread, InStep
  <2>3. ASSUME NEW got \in Seq(Byte), Reading(got)
        PROVE  \E new \in Seq(Byte) : Reading(new)'
    <3>1. /\ rpc = "packet" /\ toHost = <<>> /\ Arrived(got) /\ InStep
          /\ got # <<>> /\ got[1] = SOH
          /\ pkt = Reads(got, Len(pkt))
          /\ toBoard = SubSeq(got, Len(pkt) + 2, Len(got))
          /\ ~(Len(pkt) >= Len(got))
          /\ Len(pkt) >= 3 => mem[packetnum] = pkt[3]
      BY <1>1, <2>3 DEF Reading
    <3>2. PICK n \in Nat : n = Len(pkt) /\ n < Len(got)
      <4>1. Len(pkt) \in Nat /\ Len(got) \in Nat
        BY DEF XInv, XTypes
      <4>. QED  BY <3>1, <4>1
    <3>3. PICK g \in Seq(Byte) : toBoard' = toBoard \o g /\ Arrived(got \o g)'
      BY <1>10, <3>1, ByteArrives
    <3>4. PICK new \in Seq(Byte) : new = got \o g
      <4>1. got \o g \in Seq(Byte)
        BY ConcatProperties
      <4>. QED  BY <4>1
    <3>5. Arrived(new)'
      BY <3>3, <3>4
    <3>6. /\ Len(new) = Len(got) + Len(g) /\ new # <<>> /\ new[1] = SOH
          /\ Len(got) \in Nat /\ Len(g) \in Nat
      BY <3>1, <3>4
    <3>7. pkt = Reads(new, n)
      BY <3>1, <3>2, <3>4, ReadsKept
    <3>8. toBoard' = SubSeq(new, n + 2, Len(new))
      <4>1. n + 2 \in 1 .. Len(got) + 1
        BY <3>2
      <4>. QED  BY <3>1, <3>2, <3>3, <3>4, <4>1, SuffixGrows
    <3>9. ~(n >= Len(new))
      BY <3>2, <3>6
    <3>. QED  BY <1>1, <3>1, <3>2, <3>5, <3>6, <3>7, <3>8, <3>9 DEF Reading, InStep
  <2>. QED  BY <2>1, <2>2, <2>3
<1>11. LineInv'
  <2>1. spc' \in {"send", "reply"}
    BY <1>1
  <2>. QED  BY <1>1, <1>10, <2>1 DEF LineInv, Stopped
<1>12. AckInv'
  <2>1. ACK \notin Range(toHost)
    BY <1>1 DEF XInv, AckInv
  <2>. QED  BY <1>1, <2>1 DEF AckInv
<1>13. StoredInv'
  BY <1>1 DEF XInv, StoredInv, Stored
<1>. QED  BY <1>8, <1>9, <1>11, <1>12, <1>13 DEF XInv

(* A read of the sender: what it takes, and leaves.                        *)
LEMMA ReplyRead ==
  ASSUME XInv, NEW c, ReadReply(c)
  PROVE  /\ toHost' \in Seq(Byte) /\ Range(toHost') \subseteq Range(toHost)
         /\ \/ toHost # <<>> /\ c = Head(toHost)
            \/ toHost = <<>> /\ Stopped /\ c = None
         /\ \A b : toHost = <<b>> => toHost' = <<>> /\ c = b
<1>1. toHost \in Seq(Byte)
  BY DEF XInv, XTypes
<1>2. CASE /\ toHost # <<>> /\ c = Head(toHost)
           /\ \E n \in 1 .. Len(toHost) : toHost' = SubSeq(toHost, n + 1, Len(toHost))
  <2>1. PICK n \in 1 .. Len(toHost) : toHost' = SubSeq(toHost, n + 1, Len(toHost))
    BY <1>2
  <2>2. toHost' \in Seq(Byte) /\ Range(toHost') \subseteq Range(toHost)
    BY <1>1, <1>2, <2>1, TailRange
  <2>3. ASSUME NEW b, toHost = <<b>> PROVE toHost' = <<>> /\ c = b
    <3>1. Len(toHost) = 1 /\ n = 1 /\ n + 1 \in Int /\ 1 < n + 1
      BY <2>1, <2>3
    <3>2. toHost' = <<>>
      BY <2>1, <3>1, SubSeqEmpty
    <3>. QED  BY <1>2, <2>3, <3>2
  <2>. QED  BY <1>2, <2>2, <2>3
<1>3. CASE SenderTimeout /\ c = None /\ UNCHANGED toHost
  <2>1. toHost = <<>> /\ toHost' = <<>> /\ Stopped
    BY <1>3 DEF SenderTimeout
  <2>2. \A b : toHost # <<b>>
    BY <2>1
  <2>. QED  BY <1>1, <1>3, <2>1, <2>2
<1>. QED  BY <1>2, <1>3 DEF ReadReply

LEMMA NextPlace ==
  ASSUME NEW n \in Nat, NEW i \in 0 .. n, i < n \/ i # n
  PROVE  i + 1 \in 1 .. n
OBVIOUS

LEMMA NumberFits ==
  ASSUME NEW i \in Nat PROVE (i + 1) % 256 \in Byte
BY DEF Byte

(* The sender goes on with a packet.                                       *)
LEMMA GoesOn ==
  ASSUME XTypes', index' < Len(file'), failed' <= MaxFailed,
         spc' = "send", out' = Packet(packet_nr', file'[index' + 1])
  PROVE  SenderInv' /\ Left' = 5 /\ Arrived(<<>>)'
<1>1. file' \in Seq(Byte) /\ index' \in Nat /\ packet_nr' = (index' + 1) % 256
  BY DEF XTypes, Byte
<1>2. packet_nr' \in Byte /\ file'[index' + 1] \in Byte
  <2>1. Len(file') \in Nat /\ index' \in 0 .. Len(file')
    BY <1>1 DEF XTypes
  <2>2. index' + 1 \in 1 .. Len(file')
    BY <2>1, NextPlace
  <2>3. packet_nr' \in Byte
    BY <1>1, NumberFits
  <2>4. file'[index' + 1] \in Byte
    BY <1>1, <2>2
  <2>. QED  BY <2>3, <2>4
<1>3. Len(out') = 5 /\ out' = NextPacket'
  BY <1>2, PacketType DEF NextPacket
<1>4. Left' = 5
  BY <1>3 DEF Left
<1>5. faults' \in Nat
  BY DEF XTypes
<1>6. Arrived(<<>>)'
  BY <1>4, <1>5, NothingSent
<1>7. \A j \in 1 .. 5 : out'[j] = NextPacket'[5 - 5 + j]
  BY <1>3
<1>. QED  BY <1>4, <1>6, <1>7 DEF SenderInv

LEMMA NextNumber ==
  ASSUME NEW i \in Nat PROVE (((i + 1) % 256) + 1) % 256 = ((i + 1) + 1) % 256
OBVIOUS

LEMMA ReplyStep ==
  ASSUME XInv, NEW c, Reply(c)
  PROVE  XInv'
<1>1. /\ spc = "reply" /\ ReadReply(c)
      /\ index' = IF c = ACK THEN index + 1 ELSE index
      /\ packet_nr' = IF c = ACK THEN (packet_nr + 1) % 256 ELSE packet_nr
      /\ failed' = IF c = NAK THEN failed + 1 ELSE failed
      /\ UNCHANGED <<rpc, pings, packetnum, pkt, mem>>
      /\ UNCHANGED <<file, synced, toBoard, faults>>
  BY DEF Reply, NextNr, receiver
<1>2. \/ c = CAN /\ spc' = "exit" /\ out' = out
      \/ c # CAN /\ index' = Len(file) /\ spc' = "eot" /\ out' = out
      \/ c # CAN /\ index' # Len(file) /\ failed' > MaxFailed /\ spc' = "gaveup" /\ out' = out
      \/ /\ c # CAN /\ index' # Len(file) /\ ~(failed' > MaxFailed) /\ spc' = "send"
         /\ out' = Packet(packet_nr', file[index' + 1])
  BY DEF Reply, Proceed
<1>3. /\ toHost' \in Seq(Byte) /\ Range(toHost') \subseteq Range(toHost)
      /\ \/ toHost # <<>> /\ c = Head(toHost)
         \/ toHost = <<>> /\ Stopped /\ c = None
      /\ \A b : toHost = <<b>> => toHost' = <<>> /\ c = b
  BY <1>1, ReplyRead
<1>4. /\ toHost \in Seq(Byte) /\ file \in Seq(Byte) /\ Len(file) \in Nat
      /\ index \in Nat /\ index < Len(file) /\ failed \in Nat /\ failed <= MaxFailed
      /\ packet_nr = (index + 1) % 256 /\ packetnum \in Nat
  BY <1>1 DEF XInv, XTypes, SenderInv, Byte
<1>5. c = ACK => toHost = <<ACK>> /\ toHost' = <<>> /\ packetnum > index /\ Stored(index + 1)
  <2>1. ASSUME c = ACK PROVE ACK \in Range(toHost)
    <3>1. toHost # <<>> /\ c = Head(toHost)
      BY <1>3, <2>1, Controls
    <3>. QED  BY <1>4, <2>1, <3>1, RangeOf
  <2>2. c = ACK => toHost = <<ACK>> /\ packetnum > index /\ Stored(index + 1)
    BY <1>1, <2>1 DEF XInv, AckInv
  <2>. QED  BY <1>3, <2>2
<1>6. ACK # NAK /\ ACK # CAN /\ NAK # CAN
  BY DEF ACK, NAK, CAN
<1>7. XTypes'
  <2>1. index' \in 0 .. Len(file) /\ failed' \in 0 .. MaxFailed + 1
    BY <1>1, <1>4
  <2>2. packet_nr' = (index' + 1) % 256
    <3>1. CASE c = ACK
      BY <1>1, <1>4, <3>1, NextNumber
    <3>2. CASE c # ACK
      BY <1>1, <1>4, <3>2
    <3>. QED  BY <3>1, <3>2
  <2>3. out' \in Seq(Byte)
    <3>1. CASE out' = out
      BY <3>1 DEF XInv, XTypes
    <3>2. CASE out' # out
      <4>1. index' # Len(file) /\ out' = Packet(packet_nr', file[index' + 1])
        BY <1>2, <3>2
      <4>2. packet_nr' \in Byte /\ file[index' + 1] \in Byte
        <5>1. PICK n \in Nat : n = Len(file)
          BY <1>4
        <5>2. index' \in 0 .. n /\ index' # n
          BY <2>1, <4>1, <5>1
        <5>3. index' + 1 \in 1 .. n
          BY <5>2, NextPlace
        <5>4. file[index' + 1] \in Byte
          BY <1>4, <5>1, <5>3
        <5>5. packet_nr' \in Byte
          BY <2>2, <5>2, NumberFits
        <5>. QED  BY <5>4, <5>5
      <4>. QED  BY <4>1, <4>2, PacketType
    <3>. QED  BY <3>1, <3>2
  <2>4. spc' \in {"send", "eot", "gaveup", "exit"}
    BY <1>2
  <2>. QED  BY <1>1, <1>3, <2>1, <2>2, <2>3, <2>4 DEF XInv, XTypes, Stopped
<1>8. spc' = "send" =>
        /\ index' < Len(file) /\ index' < Len(file') /\ failed' <= MaxFailed
        /\ out' = Packet(packet_nr', file'[index' + 1])
  BY <1>1, <1>2, <1>4
<1>9. SenderInv'
  <2>1. CASE spc' = "send"
    BY <1>7, <1>8, <2>1, GoesOn
  <2>2. CASE spc' # "send"
    BY <1>1, <1>2, <2>2 DEF SenderInv
  <2>. QED  BY <2>1, <2>2
<1>10. ASSUME ~Stopped
       PROVE  /\ toBoard = <<>> /\ rpc \in {"answer", "start"} /\ toHost' = <<>>
              /\ packetnum = index' + failed' /\ c # CAN
  <2>1. toHost # <<>> /\ c = Head(toHost)
    BY <1>3, <1>10
  <2>2. Replied \/ Pinging
    BY <1>1, <1>10, <2>1 DEF XInv, LineInv, Unread, Reading
  <2>3. CASE Replied
    <3>1. /\ rpc = "start" /\ toBoard = <<>> /\ packetnum = index + failed + 1
          /\ toHost = <<ACK>> \/ toHost = <<NAK>>
          /\ toHost = <<ACK>> => failed = 0
      BY <2>1, <2>3 DEF Replied
    <3>2. CASE toHost = <<ACK>>
      BY <1>1, <1>3, <1>4, <1>6, <3>1, <3>2
    <3>3. CASE toHost = <<NAK>>
      BY <1>1, <1>3, <1>4, <1>6, <3>1, <3>3
    <3>. QED  BY <3>1, <3>2, <3>3
  <2>4. CASE Pinging
    <3>1. rpc = "answer" /\ toBoard = <<>> /\ packetnum = index + failed /\ toHost = <<PING>>
      BY <2>1, <2>4 DEF Pinging, InStep
    <3>2. c = PING /\ toHost' = <<>>
      BY <1>3, <3>1
    <3>3. c \notin {ACK, NAK, CAN}
      BY <3>2 DEF PING, ACK, NAK, CAN
    <3>. QED  BY <1>1, <3>1, <3>2, <3>3
  <2>. QED  BY <2>2, <2>3, <2>4
<1>11. LineInv'
  <2>1. ASSUME ~Stopped, spc' = "send" PROVE Unread'
    <3>1. Arrived(<<>>)'
      BY <1>7, <1>8, <2>1, GoesOn
    <3>. QED  BY <1>1, <1>10, <2>1, <3>1 DEF Unread, InStep
  <2>2. ASSUME ~Stopped, spc' \in {"exit", "gaveup"} PROVE Deserted'
    BY <1>1, <1>10, <2>2 DEF Deserted
  <2>. QED  BY <1>1, <1>2, <2>1, <2>2 DEF LineInv, Stopped
<1>12. AckInv'
  <2>1. ACK \in Range(toHost') => FALSE
    <3>1. ASSUME ACK \in Range(toHost') PROVE FALSE
      <4>1. toHost = <<ACK>>
        BY <1>1, <1>3, <3>1 DEF XInv, AckInv
      <4>2. toHost' = <<>>
        BY <1>3, <4>1
      <4>. QED  BY <3>1, <4>2, Singles
    <3>. QED  BY <3>1
  <2>. QED  BY <2>1 DEF AckInv
<1>13. StoredInv'
  <2>1. rpc # "booted"
    BY <1>4 DEF XInv, StoredInv
  <2>2. CASE c = ACK
    <3>1. index' = index + 1 /\ index + 1 <= packetnum
      BY <1>1, <1>4, <1>5, <2>2
    <3>2. Stored(index)'
      BY <1>1, <1>5, <2>2, <3>1 DEF Stored
    <3>. QED  BY <1>1, <2>1, <3>1, <3>2 DEF StoredInv
  <2>3. CASE c # ACK
    BY <1>1, <2>1, <2>3 DEF XInv, StoredInv, Stored
  <2>. QED  BY <2>2, <2>3
<1>. QED  BY <1>7, <1>9, <1>11, <1>12, <1>13 DEF XInv

LEMMA SendEotStep ==
  ASSUME XInv, SendEot
  PROVE  XInv'
<1>1. /\ spc = "eot" /\ spc' = "eotreply"
      /\ UNCHANGED <<rpc, pings, packetnum, pkt, mem>>
      /\ UNCHANGED <<file, synced, index, packet_nr, failed, out, toHost>>
  BY DEF SendEot, receiver
<1>2. toBoard' \in Seq(Byte) /\ faults' \in 0 .. MaxFaults
  <2>1. toBoard \in Seq(Byte) /\ faults \in 0 .. MaxFaults /\ EOT \in Byte
    BY Controls DEF XInv, XTypes
  <2>. QED  BY <2>1, Carried DEF SendEot, Emit
<1>3. XTypes'
  BY <1>1, <1>2 DEF XInv, XTypes, Stopped
<1>4. SenderInv' /\ LineInv' /\ AckInv'
  BY <1>1 DEF XInv, SenderInv, LineInv, AckInv
<1>5. StoredInv'
  BY <1>1 DEF XInv, StoredInv, Stored
<1>. QED  BY <1>3, <1>4, <1>5 DEF XInv

LEMMA EotReplyStep ==
  ASSUME XInv, NEW c, EotReply(c)
  PROVE  XInv'
<1>1. /\ spc = "eotreply" /\ spc' \in {"done", "exit", "eot"} /\ ReadReply(c)
      /\ UNCHANGED <<rpc, pings, packetnum, pkt, mem>>
      /\ UNCHANGED <<file, synced, index, packet_nr, failed, out, toBoard, faults>>
  BY DEF EotReply, receiver
<1>2. toHost' \in Seq(Byte)
  BY <1>1, ReplyRead
<1>3. XTypes'
  BY <1>1, <1>2 DEF XInv, XTypes, Stopped
<1>4. index = Len(file) /\ Len(file) \in Nat
  BY <1>1 DEF XInv, XTypes, SenderInv
<1>5. SenderInv' /\ LineInv' /\ AckInv'
  BY <1>1, <1>4 DEF SenderInv, LineInv, AckInv
<1>6. StoredInv'
  BY <1>1 DEF XInv, StoredInv, Stored
<1>. QED  BY <1>3, <1>5, <1>6 DEF XInv

-----------------------------------------------------------------------------
(* The transfer.                                                           *)
LEMMA XInvInit ==
  ASSUME Init PROVE XInv
<1>1. /\ rpc = "flush" /\ pings = 0 /\ packetnum = 0 /\ pkt = <<>>
      /\ mem = [i \in 0 .. ROOM - 1 |-> 0]
      /\ spc \in {"sync", "exit"} /\ file \in Files /\ synced = <<>>
      /\ index = 0 /\ packet_nr = 1 /\ failed = 0 /\ out = <<>>
      /\ toBoard \in Seq(Byte) /\ toHost = <<>> /\ faults = 0
  BY DEF Init, Byte
<1>2. file \in Seq(Byte) /\ Len(file) \in Nat
  BY <1>1 DEF Byte
<1>3. mem \in [0 .. ROOM - 1 -> Byte]
  BY <1>1 DEF Byte
<1>4. XTypes
  <2>1. 1 = (0 + 1) % 256
    OBVIOUS
  <2>2. {pkt, synced, out, toBoard, toHost} \subseteq Seq(Byte)
    BY <1>1
  <2>3. Len(pkt) = 0 /\ Len(synced) = 0
    BY <1>1
  <2>4. packetnum \in 0 .. ROOM /\ packetnum < ROOM /\ pings \in 0 .. MaxPings
    BY <1>1
  <2>5. index \in 0 .. Len(file) /\ failed \in 0 .. MaxFailed + 1 /\ faults \in 0 .. MaxFaults
    BY <1>1, <1>2
  <2>6. packet_nr = (index + 1) % 256
    BY <1>1, <2>1
  <2>7. pkt \in Seq(Byte) /\ Len(pkt) <= 4 /\ Len(synced) <= SyncReads
    BY <2>2, <2>3
  <2>8. {synced, out, toBoard, toHost} \subseteq Seq(Byte)
    BY <2>2
  <2>. QED  BY <1>1, <1>3, <2>4, <2>5, <2>6, <2>7, <2>8 DEF XTypes
<1>5. SenderInv /\ AckInv
  BY <1>1, Singles DEF SenderInv, AckInv
<1>6. LineInv
  <2>1. Len(synced) < SyncReads
    BY <1>1
  <2>. QED  BY <1>1, <2>1 DEF LineInv, Syncing, Deserted
<1>7. StoredInv
  BY <1>1 DEF StoredInv, Stored
<1>. QED  BY <1>4, <1>5, <1>6, <1>7 DEF XInv

(* What the theorems assume of the line, and of the sender.  DamageShows   *)
(* leaves out the SOH lost before packet 4, whose number is then taken for *)
(* the EOT (uartboot.c 186-188).                                           *)
TolerableLine == RepliesIntact /\ FewRetries /\ DamageShows

LEMMA ReceiverSteps ==
  ASSUME TolerableLine, XInv, Receiver PROVE XInv'
<1>1. CASE FlushInput
  BY <1>1, FlushStep
<1>2. CASE Ping
  BY <1>2, PingStep DEF TolerableLine
<1>3. CASE PingsOut
  BY <1>3, PingsOutStep
<1>4. CASE Acknowledge
  BY <1>4, AcknowledgeStep DEF TolerableLine
<1>5. ASSUME NEW c, Answer(c) PROVE XInv'
  BY <1>5, AnswerStep DEF TolerableLine
<1>6. ASSUME NEW c, CheckStart(c) PROVE XInv'
  BY <1>6, CheckStartStep DEF TolerableLine
<1>7. ASSUME NEW c, GetByte(c) PROVE XInv'
  BY <1>7, GetByteStep
<1>. QED  BY <1>1, <1>2, <1>3, <1>4, <1>5, <1>6, <1>7 DEF Receiver

LEMMA SenderSteps ==
  ASSUME XInv, Sender PROVE XInv'
<1>1. CASE ReadPing
  BY <1>1, ReadPingStep
<1>2. CASE Synchronise
  BY <1>2, SynchroniseStep
<1>3. CASE SendByte
  BY <1>3, SendByteStep
<1>4. CASE SendEot
  BY <1>4, SendEotStep
<1>5. ASSUME NEW c, Reply(c) PROVE XInv'
  BY <1>5, ReplyStep
<1>6. ASSUME NEW c, EotReply(c) PROVE XInv'
  BY <1>6, EotReplyStep
<1>. QED  BY <1>1, <1>2, <1>3, <1>4, <1>5, <1>6 DEF Sender

(* What comes after the receiver has stopped changes nothing.              *)
LEMMA LineIgnored ==
  ASSUME XInv, Stopped, toBoard' \in Seq(Byte),
         UNCHANGED <<receiver, sender, toHost, faults>>
  PROVE  XInv'
<1>1. /\ UNCHANGED <<rpc, pings, packetnum, pkt, mem, toHost, faults>>
      /\ UNCHANGED sender
      /\ UNCHANGED <<spc, file, synced, index, packet_nr, failed, out>>
  BY DEF receiver, sender
<1>2. XTypes'
  BY <1>1 DEF XInv, XTypes, Stopped
<1>3. SenderInv'
  BY <1>1, SenderKept DEF XInv
<1>4. LineInv' /\ AckInv' /\ StoredInv'
  BY <1>1 DEF XInv, LineInv, Stopped, AckInv, StoredInv, Stored
<1>. QED  BY <1>2, <1>3, <1>4 DEF XInv

LEMMA TransferKept ==
  ASSUME XInv, UNCHANGED vars PROVE XInv'
<1>1. /\ UNCHANGED <<rpc, pings, packetnum, pkt, mem, toBoard, toHost, faults>>
      /\ UNCHANGED sender
      /\ UNCHANGED <<spc, file, synced, index, packet_nr, failed, out>>
  BY DEF vars, receiver, sender
<1>2. XTypes'
  BY <1>1 DEF XInv, XTypes, Stopped
<1>3. SenderInv'
  BY <1>1, SenderKept DEF XInv
<1>4. AckInv' /\ StoredInv'
  BY <1>1 DEF XInv, AckInv, StoredInv, Stored
<1>5. LineInv'
  BY <1>1 DEF XInv, LineInv, Stopped, Syncing, Unread, Reading, Replied, Pinging,
              Deserted, Arrived, InStep, NextPacket, Left
<1>. QED  BY <1>2, <1>3, <1>4, <1>5 DEF XInv

-----------------------------------------------------------------------------
(* The boot loader around it.                                              *)
InRam == mem = [i \in 0 .. ROOM - 1 |-> 0]

BootInv ==
  /\ bootmode \in 0 .. 3
  /\ bootmode = UARTBOOT => XInv
  /\ bootmode # UARTBOOT => index = 0
  /\ bootmode \in {JUMP_TO_RAM, INF_LOOP} => InRam
  /\ bpc = "flash" => bootmode = FLASHBOOT
  /\ bpc = "uart" => bootmode = UARTBOOT
  /\ Started =>
       /\ bootmode # INF_LOOP
       /\ bootmode = UARTBOOT => rpc = "booted"
       /\ bpc = "key" => bootmode = UARTBOOT

LEMMA BootModes ==
  /\ FLASHBOOT = 0 /\ JUMP_TO_RAM = 1 /\ UARTBOOT = 2 /\ INF_LOOP = 3
BY DEF FLASHBOOT, JUMP_TO_RAM, UARTBOOT, INF_LOOP

LEMMA BootInvInit ==
  ASSUME BootInit PROVE BootInv
<1>1. Init /\ bpc = "start" /\ bootmode \in 0 .. 3
  BY BootAssumption DEF BootInit
<1>2. XInv /\ index = 0 /\ InRam
  BY <1>1, XInvInit DEF Init, InRam
<1>. QED  BY <1>1, <1>2 DEF BootInv, Started

LEMMA BootInvStep ==
  ASSUME TolerableLine, BootInv, [BootNext]_allVars PROVE BootInv'
<1>1. ASSUME UNCHANGED vars, UNCHANGED bootmode,
             \/ bpc' = bpc
             \/ bpc = "flash" /\ bpc' \in {"panic", "return"}
             \/ bpc = "start" /\ bpc' = Target(bootmode)
             \/ bpc = "uart" /\ Stopped /\ bpc' = "panic"
             \/ bpc = "uart" /\ Stopped /\ rpc = "booted" /\ bpc' \in {"return", "key"}
             \/ bpc \in {"return", "app"} /\ bpc' \in {"app", "returned"}
      PROVE  BootInv'
  <2>1. UNCHANGED <<rpc, mem, index>>
    BY <1>1 DEF vars, receiver, sender
  <2>2. bootmode = UARTBOOT => XInv'
    BY <1>1, TransferKept DEF BootInv
  <2>3. bpc = "start" /\ bpc' = Target(bootmode) =>
          /\ bpc' = "flash" => bootmode = FLASHBOOT
          /\ bpc' = "uart" => bootmode = UARTBOOT
          /\ Started' => bootmode = JUMP_TO_RAM
          /\ bpc' # "key"
    BY BootModes DEF Target, Started
  <2>4. Started' =>
          \/ Started
          \/ bpc = "start" /\ bpc' = Target(bootmode)
          \/ bpc = "flash" /\ bpc' = "return"
          \/ bpc = "uart" /\ rpc = "booted"
    BY <1>1 DEF Started
  <2>5. Started' =>
          /\ bootmode # INF_LOOP
          /\ bootmode = UARTBOOT => rpc = "booted"
          /\ bpc' = "key" => bootmode = UARTBOOT
    BY <1>1, <2>3, <2>4, BootModes DEF BootInv, Started
  <2>6. (bpc' = "flash" => bootmode = FLASHBOOT) /\ (bpc' = "uart" => bootmode = UARTBOOT)
    BY <1>1, <2>3 DEF BootInv
  <2>7. /\ bootmode # UARTBOOT => index' = 0
        /\ bootmode \in {JUMP_TO_RAM, INF_LOOP} => InRam'
        /\ bootmode \in 0 .. 3
    BY <2>1 DEF BootInv, InRam
  <2>. QED  BY <1>1, <2>1, <2>2, <2>5, <2>6, <2>7 DEF BootInv
<1>2. CASE Uartboot
  <2>1. bootmode = UARTBOOT /\ bpc = "uart" /\ Receiver /\ UNCHANGED bootVars
    BY <1>2 DEF Uartboot, BootInv
  <2>2. XInv'
    BY <2>1, ReceiverSteps DEF BootInv
  <2>. QED  BY <2>1, <2>2, BootModes DEF BootInv, bootVars, Started
<1>3. CASE HostSends
  <2>1. bootmode = UARTBOOT /\ Sender /\ UNCHANGED bootVars
    BY <1>3 DEF HostSends
  <2>2. XInv'
    BY <2>1, SenderSteps DEF BootInv
  <2>3. rpc' = rpc
    BY <2>1 DEF Sender, ReadPing, Synchronise, SendByte, SendEot, Reply, EotReply, receiver
  <2>. QED  BY <2>1, <2>2, <2>3, BootModes DEF BootInv, bootVars, Started
<1>4. CASE WaitForKey \/ PressEnter
  <2>1. /\ bpc = "key" /\ bpc' \in {"key", "return"} /\ UNCHANGED bootmode
        /\ UNCHANGED <<receiver, sender, toHost, faults>>
        /\ \/ toBoard # <<>> /\ toBoard' = Tail(toBoard)
           \/ toBoard' = Append(toBoard, CR)
    BY <1>4 DEF WaitForKey, PressEnter, bootVars
  <2>2. bootmode = UARTBOOT /\ rpc = "booted" /\ XInv
    BY <2>1 DEF BootInv, Started
  <2>3. toBoard' \in Seq(Byte)
    <3>1. CR \in Byte /\ toBoard \in Seq(Byte)
      BY <2>2 DEF CR, Byte, XInv, XTypes
    <3>. QED  BY <2>1, <3>1
  <2>4. XInv'
    BY <2>1, <2>2, <2>3, LineIgnored DEF Stopped
  <2>. QED  BY <2>1, <2>2, <2>4, BootModes DEF BootInv, receiver, Started
<1>5. CASE FlashAcknowledged
  <2>1. bpc = "flash" /\ UNCHANGED <<sender, bpc, bootmode>>
    BY <1>5 DEF FlashAcknowledged, FlashAccess
  <2>2. index' = index
    BY <2>1 DEF sender
  <2>. QED  BY <2>1, <2>2, BootModes DEF BootInv, Started
<1>6. CASE PlatformInit
  BY <1>1, <1>6 DEF PlatformInit, BootGoes
<1>7. CASE UartbootReturns
  BY <1>1, <1>7 DEF UartbootReturns, BootGoes
<1>8. CASE Jump \/ AppReturns
  BY <1>1, <1>8 DEF Jump, AppReturns, BootGoes
<1>9. CASE FlashRequests \/ FlashComputes
  BY <1>1, <1>9 DEF FlashRequests, FlashComputes, bootVars
<1>10. CASE FlashChecked \/ FlashDone
  BY <1>1, <1>10 DEF FlashChecked, FlashDone
<1>11. CASE UNCHANGED allVars
  BY <1>1, <1>11 DEF allVars, bootVars
<1>. QED
  BY <1>2, <1>3, <1>4, <1>5, <1>6, <1>7, <1>8, <1>9, <1>10, <1>11
     DEF BootNext, Board, Flashboot

(* What the sender was told has arrived is in memory, for files and        *)
(* memories of any size: xmsend.py goes to the next packet only when what  *)
(* get_packet of uartboot.c has stored is the packet before.               *)
THEOREM AcknowledgedIsStored ==
  ASSUME TolerableLine
  PROVE  BootSpec => []AckedIsStored
<1>1. BootInit => BootInv
  BY BootInvInit
<1>2. BootInv /\ [BootNext]_allVars => BootInv'
  BY BootInvStep
<1>3. BootInv => AckedIsStored
  <2>1. ASSUME index = 0 PROVE Stored(index)
    BY <2>1 DEF Stored
  <2>. QED  BY <2>1 DEF BootInv, AckedIsStored, XInv, StoredInv
<1>. QED  BY <1>1, <1>2, <1>3, PTL DEF BootSpec

(* Nothing is started in the two other modes but what is all there.        *)
LEMMA WholeUnlessFlash ==
  ASSUME BootInv, bootmode # FLASHBOOT PROVE StartsWhole
<1>. SUFFICES ASSUME Started PROVE StartsWhole
  BY DEF StartsWhole
<1>1. CASE bootmode = UARTBOOT
  <2>1. index = Len(file) /\ Stored(index) /\ index <= packetnum
    BY <1>1 DEF BootInv, XInv, StoredInv
  <2>2. packetnum <= ROOM /\ packetnum \in Nat /\ Len(file) \in Nat
    BY <1>1 DEF BootInv, XInv, XTypes
  <2>3. Len(file) <= ROOM /\ Stored(Len(file))
    BY <2>1, <2>2
  <2>. QED  BY <1>1, <2>3, BootModes DEF StartsWhole
<1>2. CASE bootmode # UARTBOOT
  <2>1. bootmode = JUMP_TO_RAM /\ InRam
    BY <1>2, BootModes DEF BootInv
  <2>. QED  BY <2>1, BootModes DEF StartsWhole, InRam
<1>. QED  BY <1>1, <1>2

(* The programs that uartboot.c returns, and that are in memory already,   *)
(* are started as a whole: no part of a file is missing when main jumps.   *)
THEOREM StartsWhatWasSent ==
  ASSUME TolerableLine
  PROVE  BootSpec => [](bootmode # FLASHBOOT => StartsWhole)
<1>1. BootInit => BootInv
  BY BootInvInit
<1>2. BootInv /\ [BootNext]_allVars => BootInv'
  BY BootInvStep
<1>3. BootInv => (bootmode # FLASHBOOT => StartsWhole)
  BY WholeUnlessFlash
<1>. QED  BY <1>1, <1>2, <1>3, PTL DEF BootSpec

-----------------------------------------------------------------------------
USE SpiCoreAssumption

(***************************************************************************)
(* The program in the flash memory.  The argument: the driver makes one    *)
(* access after the other, and which one says what is in the registers of  *)
(* the controller, what was sent since the memory was selected and what is *)
(* exchanged now (Session).  While a byte b goes out and e comes in, the   *)
(* shift registers of both ends hold, around the edge the clock is at, the *)
(* bits that are still to go and those that have come (Shifting).          *)
(***************************************************************************)
Regs ==
  [sckdiv : Nat \ {0}, en : BOOLEAN, pol : {0, 1}, pha : BOOLEAN, lsb : BOOLEAN,
   acs : {0, 1}, csmode : {"auto", "disable"}, post : Nat, pre : Nat]

BitSet == Byte \X Nat
Word == [1 .. WIDTH -> BitSet]

(* The i-th bit of b on the wires. *)
WireBit(b, i) == IF regs.lsb THEN <<b, WIDTH + 1 - i>> ELSE <<b, i>>

EngineTypes ==
  /\ spi_state \in {"IDLE", "POST", "XFER", "PRE"}
  /\ divcnt \in 0 .. regs.sckdiv
  /\ bits_remaining \in 0 .. WIDTH - 1
  /\ tx_shiftreg \in Word /\ rx_shiftreg \in Word
  /\ delay_ctr \in Nat
  /\ sck \in {0, 1} /\ core_cs \in {0, 1}
  /\ regs \in Regs
  /\ dev_out \in Seq(BitSet) /\ dev_out # <<>>

AtRest == spi_state = "IDLE" /\ core_cs = 1 /\ divcnt = 0

(* The memory is selected by the register. *)
Chosen == regs.csmode = "disable" /\ regs.acs = 1

(* The slave between two bytes, before e: in modes 0 and 2 its next bit is *)
(* the first of e; otherwise it takes e with the next leading edge.        *)
Between(e) ==
  /\ dev_bits = <<>>
  /\ IF regs.pha
     THEN (dev_out \in Seq(BitSet) /\ Len(dev_out) = 1) \/ dev_out = <<Blank>> \o Wire(e)
     ELSE dev_out = Wire(e)

(* The exchange of b, behind the bytes s, for e, with n as the next byte.  *)
(* The delay in front of the first bit:                                    *)
Waiting(s, b, e) ==
  /\ spi_state = "POST" /\ core_cs = 0 /\ sck = regs.pol
  /\ tx_shiftreg = Bits(b) /\ bits_remaining = WIDTH - 1
  /\ dev_in = s /\ Between(e)

done == WIDTH - 1 - bits_remaining

(* The clock within a bit: the level it begins with, and whether the edge  *)
(* at which the slave samples has passed.                                  *)
First == IF regs.pha THEN Flip(regs.pol) ELSE regs.pol
Past == divcnt > regs.sckdiv \div 2
sampled == IF Past THEN done + 1 ELSE done

Leaves(b) ==
  \A i \in 1 .. WIDTH :
    IF regs.lsb THEN i > done => tx_shiftreg[i] = <<b, i - done>>
                ELSE i <= WIDTH - done => tx_shiftreg[i] = <<b, i + done>>

Comes(e) ==
  \A i \in 1 .. WIDTH :
    IF regs.lsb THEN i <= done => rx_shiftreg[i] = <<e, WIDTH - done + i>>
                ELSE i > WIDTH - done => rx_shiftreg[i] = <<e, i - (WIDTH - done)>>

Offers(e) ==
  /\ dev_out \in Seq(BitSet) /\ Len(dev_out) = WIDTH - done
  /\ \A i \in 1 .. WIDTH - done : dev_out[i] = WireBit(e, done + i)

Gathers(s, b) ==
  IF sampled < WIDTH
  THEN /\ dev_bits \in Seq(BitSet) /\ Len(dev_bits) = sampled
       /\ \A i \in 1 .. sampled : dev_bits[i] = WireBit(b, i)
       /\ dev_in = s
  ELSE dev_bits = <<>> /\ dev_in = Append(s, Bits(b))

Shifting(s, b, e) ==
  /\ spi_state = "XFER" /\ core_cs = 0
  /\ sck = IF Past THEN Flip(First) ELSE First
  /\ Leaves(b) /\ Comes(e) /\ Offers(e) /\ Gathers(s, b)

(* The byte is exchanged; then the delay behind the last bit.              *)
Exchanged(s, b, e, n) ==
  /\ dev_in = Append(s, Bits(b)) /\ rx_shiftreg = Bits(e)
  /\ Between(n) /\ sck = regs.pol

Finishing(s, b, e, n) == spi_state = "PRE" /\ core_cs = 0 /\ Exchanged(s, b, e, n)
After(s, b, e, n) == AtRest /\ Exchanged(s, b, e, n)

Exchanging(s, b, e, n) == Waiting(s, b, e) \/ Shifting(s, b, e) \/ Finishing(s, b, e, n)

(* The sequence of accesses. *)
IdCommand == <<READID, 0>>
ReadCommand == <<READ>> \o ImgOffset \o [i \in 1 .. ROOM |-> 0]
End == 28 + 3 * ROOM

Prefix(cmd, n) == [i \in 1 .. n |-> Bits(cmd[i])]

(* Access r, 0 the write, 1 the poll and 2 the read, of byte k of a command. *)
Resting(s, e) == AtRest /\ sck = regs.pol /\ Between(e) /\ dev_in = s

Access(s, b, e, n, r) ==
  IF r = 0 /\ beat = 0 THEN Resting(s, e) /\ sent = s
  ELSE /\ sent = Append(s, Bits(b)) /\ expected = Bits(e)
       /\ r = 0 => Exchanging(s, b, e, n)
       /\ r = 1 => Exchanging(s, b, e, n) \/ After(s, b, e, n)
       /\ r = 2 => After(s, b, e, n)

Transfer(cmd, k, r) ==
  Access(Prefix(cmd, k - 1), cmd[k], Respond(Prefix(cmd, k - 1)), Respond(Prefix(cmd, k)), r)

(* The accesses to a command; base is the one before the first. *)
Session(base, cmd) ==
  Transfer(cmd, (fpos - base - 1) \div 3 + 1, (fpos - base - 1) % 3)

(* The accesses that have begun. *)
begun == fpos - 1 + beat
Selected == begun \in 6 .. 12 \/ begun \in 15 .. End - 1

RegsFollow ==
  /\ begun < 4 \/ begun >= End + 4 => regs.csmode = "auto"
  /\ begun \in 4 .. End + 3 => regs.csmode = "disable" /\ (regs.acs = 1 <=> Selected)
  /\ begun >= 3 => regs.en /\ regs.pol = spicfg.pol

Place ==
  /\ fpos \in 1 .. End + 6 /\ beat \in {0, 1}
  /\ fpos \in {14, End + 6} => beat = 0
  /\ fpos \in 7 .. 12 => Session(6, IdCommand)
  /\ fpos \in 16 .. End - 1 => Session(15, ReadCommand)
  /\ fpos \notin 7 .. 12 /\ fpos \notin 16 .. End - 1 => AtRest
  /\ fpos \in 4 .. End /\ AtRest => sck = regs.pol
  /\ fpos \in {6, 15} /\ beat = 1 =>
       Between(Respond(<<>>)) /\ dev_in = <<>> /\ sent = <<>>

(* The bytes read before access p. *)
Bytes(p) ==
  IF p <= 9 THEN 0
  ELSE IF p <= 12 THEN 1
  ELSE IF p <= 15 THEN 2
  ELSE IF p <= End THEN 2 + (p - 16) \div 3
  ELSE 6 + ROOM

Copied ==
  /\ fgot \in Seq(Byte) /\ Len(fgot) = Bytes(fpos)
  /\ Len(fgot) >= 2 => fgot[2] = flash_id
  /\ fpos >= 15 => Usable(flash_id)
  /\ \A i \in 0 .. ROOM - 1 : i < Bytes(fpos) - 6 => mem[i] = FlashImage[i]

FlashInv ==
  /\ EngineTypes /\ spicfg \in SpiConfigs /\ flash_id \in FlashIds
  /\ fpos \in 1 .. End + 6 /\ beat \in {0, 1}
  /\ bpc \in {"start", "flash", "uart", "loop", "key", "return", "app", "returned", "panic"}
  /\ bootmode # UARTBOOT => TypeOK
  /\ bpc = "start" => fpos = 1 /\ fgot = <<>> /\ beat = 0 /\ AtRest /\ RegsFollow
  /\ bpc = "flash" => bootmode = FLASHBOOT /\ Place /\ RegsFollow /\ Copied
  /\ bpc \in {"uart", "key"} => bootmode = UARTBOOT
  /\ Started /\ bootmode = FLASHBOOT => ~NoFlash /\ mem = FlashImage

-----------------------------------------------------------------------------
(* Words of bits.                                                          *)
LEMMA ByteBits ==
  ASSUME NEW b \in Byte
  PROVE  Bits(b) \in Word /\ \A i \in 1 .. WIDTH : Bits(b)[i] = <<b, i>>
BY DEF Bits, Word, BitSet

(* What nobody drives is a bit like any other.                             *)
LEMMA BlankBit == Blank \in BitSet
BY DEF Blank, BitSet, Byte

(* A shift register is a sequence of WIDTH bits.                           *)
LEMMA WordSeq ==
  ASSUME NEW w \in Word
  PROVE  /\ w \in Seq(BitSet) /\ Len(w) = WIDTH
         /\ \A i \in 1 .. WIDTH : w[i] \in BitSet
BY DEF Word

(* Where the bits of a shift register go, in either order.                 *)
LEMMA ShiftedFacts ==
  ASSUME NEW w \in Word, NEW x \in BitSet, NEW lsb \in BOOLEAN
  PROVE  /\ Shifted(w, x, lsb) \in Word
         /\ \A i \in 1 .. WIDTH :
              Shifted(w, x, lsb)[i] =
                IF lsb THEN IF i = 1 THEN x ELSE w[i - 1]
                       ELSE IF i = WIDTH THEN x ELSE w[i + 1]
<1>1. w \in Seq(BitSet) /\ Len(w) = WIDTH /\ w # <<>>
  BY WordSeq
<1>2. CASE lsb
  <2>1. /\ Front(w) \in Seq(BitSet) /\ Len(Front(w)) = WIDTH - 1
        /\ \A i \in 1 .. WIDTH - 1 : Front(w)[i] = w[i]
    BY <1>1, SubSeqProperties DEF Front
  <2>. DEFINE u == <<x>> \o Front(w)
  <2>2. /\ u \in Seq(BitSet) /\ Len(u) = WIDTH
        /\ \A i \in 1 .. WIDTH : u[i] = IF i = 1 THEN x ELSE Front(w)[i - 1]
    <3>1. <<x>> \in Seq(BitSet) /\ Len(<<x>>) = 1 /\ <<x>>[1] = x
      OBVIOUS
    <3>. QED  BY <2>1, <3>1, ConcatProperties
  <2>. HIDE DEF u
  <2>3. u \in Word
    BY <2>2 DEF Word
  <2>. QED  BY <1>2, <2>1, <2>2, <2>3 DEF u, Shifted
<1>3. CASE ~lsb
  <2>1. /\ Tail(w) \in Seq(BitSet) /\ Len(Tail(w)) = WIDTH - 1
        /\ \A i \in 1 .. WIDTH - 1 : Tail(w)[i] = w[i + 1]
    BY <1>1
  <2>. DEFINE u == Append(Tail(w), x)
  <2>2. /\ u \in Seq(BitSet) /\ Len(u) = WIDTH
        /\ \A i \in 1 .. WIDTH : u[i] = IF i = WIDTH THEN x ELSE Tail(w)[i]
    BY <2>1
  <2>. HIDE DEF u
  <2>3. u \in Word
    BY <2>2 DEF Word
  <2>. QED  BY <1>3, <2>1, <2>2, <2>3 DEF u, Shifted
<1>. QED  BY <1>2, <1>3

(* A byte on the wires, bit by bit.                                        *)
LEMMA WireFacts ==
  ASSUME NEW b \in Byte, regs.lsb \in BOOLEAN
  PROVE  /\ Wire(b) \in Seq(BitSet) /\ Len(Wire(b)) = WIDTH
         /\ \A i \in 1 .. WIDTH : Wire(b)[i] = WireBit(b, i)
         /\ \A i \in 1 .. WIDTH : WireBit(b, i) \in BitSet
<1>1. /\ Bits(b) \in Seq(BitSet) /\ Len(Bits(b)) = WIDTH
      /\ \A i \in 1 .. WIDTH : Bits(b)[i] = <<b, i>>
  BY ByteBits, WordSeq
<1>2. \A i \in 1 .. WIDTH : WireBit(b, i) \in BitSet
  BY DEF WireBit, BitSet
<1>3. CASE regs.lsb
  <2>1. Reverse(Bits(b)) = [i \in 1 .. WIDTH |-> Bits(b)[(WIDTH - i) + 1]]
    BY <1>1 DEF Reverse
  <2>2. Reverse(Bits(b)) = [i \in 1 .. WIDTH |-> WireBit(b, i)]
    BY <2>1, <1>1, <1>3 DEF WireBit
  <2>. QED  BY <2>2, <1>2, <1>3 DEF Wire
<1>4. CASE ~regs.lsb
  BY <1>1, <1>2, <1>4 DEF Wire, WireBit
<1>. QED  BY <1>3, <1>4

(* The bits of a byte, as they come from the wires, are the byte.          *)
LEMMA ReceivedFacts ==
  ASSUME NEW b \in Byte, regs.lsb \in BOOLEAN, NEW s \in Seq(BitSet), Len(s) = WIDTH,
         \A i \in 1 .. WIDTH : s[i] = WireBit(b, i)
  PROVE  Received(s) = Bits(b)
<1>1. CASE regs.lsb
  <2>1. Reverse(s) = [i \in 1 .. WIDTH |-> s[(WIDTH - i) + 1]]
    BY DEF Reverse
  <2>. QED  BY <2>1, <1>1 DEF WireBit, Received, Bits
<1>2. CASE ~regs.lsb
  <2>1. s = [i \in 1 .. WIDTH |-> s[i]]
    OBVIOUS
  <2>. QED  BY <2>1, <1>2 DEF WireBit, Received, Bits
<1>. QED  BY <1>1, <1>2

-----------------------------------------------------------------------------
(* One clock of the controller and of the slave.                           *)
LEMMA HalfOfBit ==
  ASSUME NEW d \in Nat \ {0}
  PROVE  d \div 2 \in Nat /\ d \div 2 < d
OBVIOUS

(* What a selected slave does: it looks at the edges of the clock only.    *)
LEMMA Listens ==
  ASSUME EngineTypes, Chosen, regs' = regs, NEW f, NEW x, SlaveClock(f, x)
  PROVE  /\ IF Samples
            THEN IF Len(Sampled) = WIDTH
                 THEN dev_in' = Append(dev_in, Received(Sampled)) /\ dev_bits' = <<>>
                 ELSE dev_bits' = Sampled /\ dev_in' = dev_in
            ELSE dev_in' = dev_in /\ dev_bits' = dev_bits
         /\ dev_out' = IF ~Shifts THEN dev_out
                       ELSE IF Len(dev_out) > 1 THEN Tail(dev_out) ELSE Wire(x)
<1>1. cs_o = 0 /\ cs(regs', core_cs') = 0
  BY DEF Chosen, cs_o, cs, Flip
<1>. QED  BY <1>1 DEF SlaveClock

(* Which edge a change of the clock is.                                    *)
LEMMA Edges ==
  ASSUME EngineTypes, sck' \in {0, 1}, regs' = regs
  PROVE  /\ sck' = sck => ~Samples /\ ~Shifts
         /\ sck = First /\ sck' = Flip(sck) => Samples /\ ~Shifts
         /\ sck = Flip(First) /\ sck' = First => Shifts /\ ~Samples
BY DEF EngineTypes, Regs, First, Flip, Samples, Shifts, Leading, Trailing

(* The byte the slave has still to take is at its output behind the first  *)
(* edge of the clock.                                                      *)
LEMMA TakesByte ==
  ASSUME EngineTypes, NEW e \in Byte, Between(e), regs.pha
  PROVE  (IF Len(dev_out) > 1 THEN Tail(dev_out) ELSE Wire(e)) = Wire(e)
<1>1. regs.lsb \in BOOLEAN
  BY DEF EngineTypes, Regs
<1>2. Wire(e) \in Seq(BitSet) /\ Len(Wire(e)) = WIDTH
  BY <1>1, WireFacts
<1>3. CASE Len(dev_out) = 1
  BY <1>3
<1>4. CASE dev_out = <<Blank>> \o Wire(e)
  <2>. DEFINE w == Wire(e)
  <2>1. <<Blank>> \in Seq(BitSet) /\ Len(<<Blank>>) = 1
    BY BlankBit
  <2>2. w \in Seq(BitSet) /\ Len(w) = WIDTH
    BY <1>2
  <2>. HIDE DEF w
  <2>3. /\ <<Blank>> \o w \in Seq(BitSet) /\ Len(<<Blank>> \o w) = WIDTH + 1
        /\ \A i \in 1 .. WIDTH : (<<Blank>> \o w)[i + 1] = w[i]
    BY <2>1, <2>2, ConcatProperties
  <2>. DEFINE u == <<Blank>> \o w
  <2>4. u \in Seq(BitSet) /\ Len(u) = WIDTH + 1 /\ \A i \in 1 .. WIDTH : u[i + 1] = w[i]
    BY <2>3
  <2>. HIDE DEF u
  <2>5. Tail(u) \in Seq(BitSet) /\ Len(Tail(u)) = WIDTH /\ \A i \in 1 .. WIDTH : Tail(u)[i] = w[i]
    BY <2>4
  <2>6. Tail(u) = w
    BY <2>2, <2>5, SeqEqual
  <2>. QED  BY <1>4, <2>4, <2>6 DEF u, w
<1>. QED  BY <1>3, <1>4 DEF Between

(* The types hold whatever is clocked, and whatever is written to the      *)
(* registers of the idle controller.                                       *)
LEMMA ClockTypes ==
  ASSUME EngineTypes, regs' \in Regs, regs' = regs \/ spi_state = "IDLE",
         NEW we, NEW b \in Byte, NEW x \in BitSet, SpiClock(regs, we, b, x)
  PROVE  /\ spi_state' \in {"IDLE", "POST", "XFER", "PRE"}
         /\ divcnt' \in 0 .. regs'.sckdiv
         /\ bits_remaining' \in 0 .. WIDTH - 1
         /\ tx_shiftreg' \in Word /\ rx_shiftreg' \in Word
         /\ delay_ctr' \in Nat /\ sck' \in {0, 1} /\ core_cs' \in {0, 1}
<1>1. Bits(b) \in Word
  BY ByteBits
<1>2. regs.lsb \in BOOLEAN
  BY DEF EngineTypes, Regs
<1>3. Shifted(tx_shiftreg, Blank, regs.lsb) \in Word /\ Shifted(rx_shiftreg, x, regs.lsb) \in Word
  BY <1>2, BlankBit, ShiftedFacts DEF EngineTypes
<1>. USE DEF EngineTypes, Regs, Flip, FirstEdge
<1>4. CASE SpiIdle(regs, we, b)
  BY <1>1, <1>4 DEF SpiIdle
<1>5. CASE SpiCount(regs)
  BY <1>5 DEF SpiCount
<1>6. CASE SpiPost(regs)
  BY <1>6 DEF SpiPost
<1>7. CASE SpiBit(regs, x)
  BY <1>3, <1>7 DEF SpiBit, LastBit
<1>8. CASE SpiPre(regs)
  BY <1>8 DEF SpiPre
<1>. QED  BY <1>4, <1>5, <1>6, <1>7, <1>8 DEF SpiClock

(* The slave always offers a bit. *)
LEMMA SlaveTypes ==
  ASSUME EngineTypes, NEW f \in Byte, NEW x \in Byte, SlaveClock(f, x)
  PROVE  dev_out' \in Seq(BitSet) /\ dev_out' # <<>>
<1>1. regs.lsb \in BOOLEAN
  BY DEF EngineTypes, Regs
<1>2. <<Blank>> \in Seq(BitSet) /\ <<Blank>> # <<>>
  BY BlankBit
<1>3. \A y \in Byte : Wire(y) \in Seq(BitSet) /\ Len(Wire(y)) = WIDTH
  BY <1>1, WireFacts
<1>4. \A w \in Seq(BitSet) :
         Len(w) = WIDTH => w # <<>> /\ <<>> \o w \in Seq(BitSet) /\ <<>> \o w # <<>>
                           /\ <<Blank>> \o w \in Seq(BitSet) /\ <<Blank>> \o w # <<>>
  BY <1>2
<1>5. dev_out \in Seq(BitSet) /\ dev_out # <<>>
  BY DEF EngineTypes
<1>6. ASSUME Len(dev_out) > 1 PROVE Tail(dev_out) \in Seq(BitSet) /\ Tail(dev_out) # <<>>
  <2>. DEFINE u == Tail(dev_out)
  <2>1. u \in Seq(BitSet) /\ Len(u) = Len(dev_out) - 1 /\ Len(dev_out) \in Nat
    BY <1>5
  <2>. HIDE DEF u
  <2>2. u # <<>>
    BY <1>6, <2>1
  <2>. QED  BY <2>1, <2>2 DEF u
<1>7. Wire(x) \in Seq(BitSet) /\ Wire(x) # <<>>
  BY <1>3, <1>4
<1>8. (IF regs.pha THEN <<Blank>> ELSE <<>>) \o Wire(f) \in Seq(BitSet)
        /\ (IF regs.pha THEN <<Blank>> ELSE <<>>) \o Wire(f) # <<>>
  BY <1>3, <1>4
<1>9. \/ dev_out' = <<Blank>>
      \/ dev_out' = (IF regs.pha THEN <<Blank>> ELSE <<>>) \o Wire(f)
      \/ dev_out' = dev_out
      \/ Len(dev_out) > 1 /\ dev_out' = Tail(dev_out)
      \/ dev_out' = Wire(x)
  BY DEF SlaveClock
<1>. QED  BY <1>2, <1>5, <1>6, <1>7, <1>8, <1>9, Zenon

-----------------------------------------------------------------------------
(* The exchange of a byte.                                                 *)
(* At the end of the delay, or at once: the first bit begins.              *)
LEMMA FirstBit ==
  ASSUME EngineTypes, Chosen, regs' = regs,
         NEW f, NEW x, NEW s, NEW b \in Byte, NEW e \in Byte,
         SlaveClock(f, x), x = e, dev_in = s, Between(e), sck = regs.pol,
         spi_state' = "XFER", core_cs' = 0, divcnt' = 0,
         tx_shiftreg' = Bits(b), bits_remaining' = WIDTH - 1, sck' = FirstEdge(regs)
  PROVE  Shifting(s, b, e)'
<1>1. regs.lsb \in BOOLEAN /\ regs.pha \in BOOLEAN /\ regs.pol \in {0, 1} /\ regs.sckdiv \in Nat \ {0}
  BY DEF EngineTypes, Regs
<1>2. regs.sckdiv \div 2 \in Nat
  BY <1>1, HalfOfBit
<1>3. /\ sck' = First /\ ~Past' /\ First' = First
      /\ IF regs.pha THEN sck = Flip(First) ELSE sck = First
  BY <1>1, <1>2 DEF FirstEdge, First, Past, Flip
<1>4. ~Samples /\ (Shifts <=> regs.pha)
  BY <1>1, <1>3, Edges DEF FirstEdge, Flip
<1>5. dev_in' = s /\ dev_bits' = <<>>
  BY <1>4, Listens DEF Between
<1>6. dev_out' = Wire(e)
  <2>1. dev_out' = IF ~Shifts THEN dev_out
                   ELSE IF Len(dev_out) > 1 THEN Tail(dev_out) ELSE Wire(e)
    BY Listens
  <2>2. CASE regs.pha
    BY <2>1, <2>2, <1>4, TakesByte
  <2>3. CASE ~regs.pha
    BY <2>1, <2>3, <1>4 DEF Between
  <2>. QED  BY <2>2, <2>3
<1>7. done' = 0 /\ sampled' = 0
  BY <1>3 DEF done, sampled
<1>8. Offers(e)'
  <2>1. \A i : WireBit(e, i)' = WireBit(e, i)
    BY DEF WireBit
  <2>. QED  BY <1>1, <1>6, <1>7, <2>1, WireFacts DEF Offers
<1>9. Leaves(b)'
  BY <1>1, <1>7, ByteBits DEF Leaves
<1>10. Comes(e)'
  BY <1>1, <1>7 DEF Comes
<1>11. Gathers(s, b)'
  <2>1. dev_bits' \in Seq(BitSet) /\ Len(dev_bits') = 0
    BY <1>5
  <2>. QED  BY <1>5, <1>7, <2>1 DEF Gathers
<1>. QED  BY <1>3, <1>8, <1>9, <1>10, <1>11 DEF Shifting

(* A clock of the delay in front of the first bit, or the end of it.       *)
LEMMA WaitStep ==
  ASSUME EngineTypes, Chosen, regs' = regs,
         NEW f, NEW x, NEW s, NEW b \in Byte, NEW e \in Byte, NEW we, NEW v, NEW bit,
         SlaveClock(f, x), SpiClock(regs, we, v, bit),
         x = e, Waiting(s, b, e)
  PROVE  Waiting(s, b, e)' \/ Shifting(s, b, e)'
<1>1. SpiCount(regs) \/ SpiPost(regs)
  BY DEF Waiting, SpiClock, SpiIdle, SpiBit, SpiPre
<1>2. CASE spi_state' = "POST"
  <2>1. sck' = sck /\ core_cs' = 0 /\ tx_shiftreg' = Bits(b) /\ bits_remaining' = WIDTH - 1
    BY <1>1, <1>2 DEF Waiting, SpiCount, SpiPost
  <2>2. ~Samples /\ ~Shifts
    BY <2>1, Edges DEF EngineTypes
  <2>3. dev_in' = dev_in /\ dev_bits' = dev_bits /\ dev_out' = dev_out
    BY <2>2, Listens
  <2>4. Wire(e)' = Wire(e)
    BY DEF Wire
  <2>. QED  BY <1>2, <2>1, <2>3, <2>4 DEF Waiting, Between
<1>3. CASE spi_state' # "POST"
  <2>1. /\ spi_state' = "XFER" /\ core_cs' = 0 /\ divcnt' = 0 /\ sck' = FirstEdge(regs)
        /\ tx_shiftreg' = Bits(b) /\ bits_remaining' = WIDTH - 1
    BY <1>1, <1>3 DEF Waiting, SpiCount, SpiPost
  <2>. QED  BY <2>1, FirstBit DEF Waiting
<1>. QED  BY <1>2, <1>3

(* The byte is written to the idle controller. *)
LEMMA StartStep ==
  ASSUME EngineTypes, Chosen, regs' = regs, regs.en, AtRest, sck = regs.pol,
         NEW f, NEW x, NEW s, NEW b \in Byte, NEW e \in Byte, NEW bit,
         SlaveClock(f, x), SpiClock(regs, TRUE, b, bit),
         x = e, dev_in = s, Between(e)
  PROVE  Waiting(s, b, e)' \/ Shifting(s, b, e)'
<1>1. SpiIdle(regs, TRUE, b)
  BY DEF AtRest, SpiClock, SpiCount, SpiPost, SpiBit, SpiPre
<1>2. CASE regs.post = 0
  BY <1>1, <1>2, FirstBit DEF SpiIdle
<1>3. CASE regs.post # 0
  <2>1. /\ spi_state' = "POST" /\ sck' = sck /\ core_cs' = 0
        /\ tx_shiftreg' = Bits(b) /\ bits_remaining' = WIDTH - 1
    BY <1>1, <1>3 DEF SpiIdle
  <2>2. ~Samples /\ ~Shifts
    BY <2>1, Edges DEF EngineTypes
  <2>3. dev_in' = dev_in /\ dev_bits' = dev_bits /\ dev_out' = dev_out
    BY <2>2, Listens
  <2>4. Wire(e)' = Wire(e)
    BY DEF Wire
  <2>. QED  BY <2>1, <2>3, <2>4 DEF Waiting, Between
<1>. QED  BY <1>2, <1>3

(* Nothing is written to it. *)
LEMMA RestStep ==
  ASSUME EngineTypes, Chosen, regs' = regs, AtRest, sck = regs.pol,
         NEW f, NEW x, NEW v, NEW bit,
         SlaveClock(f, x), SpiClock(regs, FALSE, v, bit)
  PROVE  /\ AtRest' /\ sck' = regs.pol /\ rx_shiftreg' = rx_shiftreg
         /\ dev_in' = dev_in /\ dev_bits' = dev_bits /\ dev_out' = dev_out
<1>1. SpiIdle(regs, FALSE, v)
  BY DEF AtRest, SpiClock, SpiCount, SpiPost, SpiBit, SpiPre
<1>2. AtRest' /\ sck' = sck /\ rx_shiftreg' = rx_shiftreg
  BY <1>1 DEF SpiIdle, AtRest
<1>3. ~Samples /\ ~Shifts
  BY <1>2, Edges DEF EngineTypes
<1>. QED  BY <1>2, <1>3, Listens

(* Within a bit the clock changes once, and then the slave takes the bit.  *)
LEMMA CountStep ==
  ASSUME EngineTypes, Chosen, regs' = regs,
         NEW f, NEW x, NEW s, NEW b \in Byte, NEW e \in Byte,
         SlaveClock(f, x), SpiCount(regs), Shifting(s, b, e)
  PROVE  Shifting(s, b, e)'
<1>1. regs.lsb \in BOOLEAN /\ regs.pha \in BOOLEAN /\ regs.pol \in {0, 1} /\ regs.sckdiv \in Nat \ {0}
  BY DEF EngineTypes, Regs
<1>. DEFINE h == regs.sckdiv \div 2
<1>2. h \in Nat /\ h < regs.sckdiv
  BY <1>1, HalfOfBit
<1>3. /\ spi_state' = "XFER" /\ core_cs' = 0 /\ done' = done /\ First' = First
      /\ tx_shiftreg' = tx_shiftreg /\ rx_shiftreg' = rx_shiftreg
      /\ divcnt' = divcnt + 1 /\ divcnt \in Nat /\ done \in 0 .. WIDTH - 1
      /\ sck' = IF divcnt = h THEN Flip(sck) ELSE sck
  BY DEF Shifting, SpiCount, done, First, EngineTypes
<1>4. Leaves(b)' /\ Comes(e)'
  BY <1>3 DEF Shifting, Leaves, Comes
<1>5. \A y, i : WireBit(y, i)' = WireBit(y, i)
  BY DEF WireBit
<1>6. CASE divcnt # h
  <2>1. sck' = sck /\ (Past' <=> Past)
    BY <1>2, <1>3, <1>6 DEF Past
  <2>2. ~Samples /\ ~Shifts
    BY <2>1, Edges DEF EngineTypes
  <2>3. dev_in' = dev_in /\ dev_bits' = dev_bits /\ dev_out' = dev_out
    BY <2>2, Listens
  <2>4. sampled' = sampled
    BY <1>3, <2>1 DEF sampled
  <2>5. Offers(e)'
    BY <1>3, <1>5, <2>3 DEF Shifting, Offers
  <2>6. Gathers(s, b)'
    BY <1>5, <2>3, <2>4 DEF Shifting, Gathers
  <2>. QED  BY <1>3, <1>4, <2>1, <2>5, <2>6 DEF Shifting
<1>7. CASE divcnt = h
  <2>1. ~Past /\ Past' /\ sck = First /\ sck' = Flip(First)
    BY <1>2, <1>3, <1>7 DEF Past, Shifting
  <2>2. Samples /\ ~Shifts
    BY <1>1, <2>1, Edges DEF First, Flip
  <2>3. mosi(regs.lsb) = WireBit(b, done + 1)
    BY <1>1, <1>3 DEF mosi, Shifting, Leaves, WireBit
  <2>4. sampled = done /\ sampled' = done + 1 /\ sampled < WIDTH
    BY <1>3, <2>1 DEF sampled
  <2>5. /\ dev_bits \in Seq(BitSet) /\ Len(dev_bits) = done /\ dev_in = s
        /\ \A i \in 1 .. done : dev_bits[i] = WireBit(b, i)
    BY <2>4 DEF Shifting, Gathers
  <2>6. WireBit(b, done + 1) \in BitSet
    BY <1>1, <1>3, WireFacts
  <2>7. /\ Sampled \in Seq(BitSet) /\ Len(Sampled) = done + 1
        /\ \A i \in 1 .. done + 1 : Sampled[i] = WireBit(b, i)
    BY <1>3, <2>3, <2>5, <2>6 DEF Sampled
  <2>8. dev_out' = dev_out
    BY <2>2, Listens
  <2>9. Offers(e)'
    BY <1>3, <1>5, <2>8 DEF Shifting, Offers
  <2>10. Gathers(s, b)'
    <3>1. CASE done + 1 = WIDTH
      <4>1. Received(Sampled) = Bits(b)
        BY <1>1, <2>7, <3>1, ReceivedFacts
      <4>2. dev_in' = Append(s, Bits(b)) /\ dev_bits' = <<>>
        BY <2>2, <2>5, <2>7, <3>1, <4>1, Listens
      <4>. QED  BY <2>4, <3>1, <4>2 DEF Gathers
    <3>2. CASE done + 1 # WIDTH
      <4>1. dev_bits' = Sampled /\ dev_in' = s
        BY <2>2, <2>5, <2>7, <3>2, Listens
      <4>. QED  BY <1>3, <1>5, <2>4, <2>7, <3>2, <4>1 DEF Gathers
    <3>. QED  BY <3>1, <3>2
  <2>. QED  BY <1>3, <1>4, <2>1, <2>9, <2>10 DEF Shifting
<1>. QED  BY <1>6, <1>7

(* At its end the controller takes the bit the slave offers, and at the    *)
(* edge behind it the slave offers the next one.                           *)
LEMMA BitStep ==
  ASSUME EngineTypes, Chosen, regs' = regs,
         NEW f, NEW x, NEW s, NEW b \in Byte, NEW e \in Byte, NEW n \in Byte,
         SlaveClock(f, x), SpiBit(regs, Head(dev_out)), Shifting(s, b, e),
         dev_in = Append(s, Bits(b)) => x = n
  PROVE  Shifting(s, b, e)' \/ Finishing(s, b, e, n)' \/ After(s, b, e, n)'
<1>1. regs.lsb \in BOOLEAN /\ regs.pha \in BOOLEAN /\ regs.pol \in {0, 1} /\ regs.sckdiv \in Nat \ {0}
  BY DEF EngineTypes, Regs
<1>2. regs.sckdiv \div 2 \in Nat /\ regs.sckdiv \div 2 < regs.sckdiv
  BY <1>1, HalfOfBit
<1>3. divcnt = regs.sckdiv /\ Past /\ sck = Flip(First) /\ divcnt' = 0
  BY <1>2 DEF SpiBit, Past, Shifting
<1>4. done \in 0 .. WIDTH - 1 /\ sampled = done + 1 /\ (LastBit <=> done = WIDTH - 1)
  BY <1>3 DEF sampled, done, EngineTypes, LastBit
<1>5. /\ dev_out \in Seq(BitSet) /\ Len(dev_out) = WIDTH - done
      /\ \A i \in 1 .. WIDTH - done : dev_out[i] = WireBit(e, done + i)
  BY DEF Shifting, Offers
<1>6. Head(dev_out) = WireBit(e, done + 1) /\ WireBit(e, done + 1) \in BitSet
  BY <1>1, <1>4, <1>5, WireFacts
<1>7. /\ tx_shiftreg' \in Word /\ rx_shiftreg' \in Word
      /\ \A i \in 1 .. WIDTH :
           /\ tx_shiftreg'[i] = IF regs.lsb THEN IF i = 1 THEN Blank ELSE tx_shiftreg[i - 1]
                                ELSE IF i = WIDTH THEN Blank ELSE tx_shiftreg[i + 1]
           /\ rx_shiftreg'[i] = IF regs.lsb THEN IF i = 1 THEN WireBit(e, done + 1) ELSE rx_shiftreg[i - 1]
                                ELSE IF i = WIDTH THEN WireBit(e, done + 1) ELSE rx_shiftreg[i + 1]
  <2>1. tx_shiftreg \in Word /\ rx_shiftreg \in Word
    BY DEF EngineTypes
  <2>. QED  BY <1>1, <1>6, <2>1, BlankBit, ShiftedFacts DEF SpiBit
<1>8. First \in {0, 1} /\ First' = First /\ (IF regs.pha THEN First = Flip(regs.pol) ELSE First = regs.pol)
  BY <1>1 DEF First, Flip
<1>9. \A y, i : WireBit(y, i)' = WireBit(y, i)
  BY DEF WireBit
<1>10. \A i \in 1 .. WIDTH :
         IF regs.lsb THEN i <= done + 1 => rx_shiftreg'[i] = <<e, WIDTH - (done + 1) + i>>
                     ELSE i > WIDTH - (done + 1) => rx_shiftreg'[i] = <<e, i - (WIDTH - (done + 1))>>
  <2>1. ASSUME NEW i \in 1 .. WIDTH, regs.lsb, i <= done + 1
        PROVE  rx_shiftreg'[i] = <<e, WIDTH - (done + 1) + i>>
    <3>1. CASE i = 1
      BY <1>4, <1>7, <2>1, <3>1 DEF WireBit
    <3>2. CASE i # 1
      <4>1. i - 1 \in 1 .. WIDTH /\ i - 1 <= done /\ WIDTH - done + (i - 1) = WIDTH - (done + 1) + i
        BY <1>4, <2>1, <3>2
      <4>2. rx_shiftreg'[i] = rx_shiftreg[i - 1] /\ rx_shiftreg[i - 1] = <<e, WIDTH - done + (i - 1)>>
        BY <1>7, <2>1, <3>2, <4>1 DEF Shifting, Comes
      <4>. QED  BY <4>1, <4>2
    <3>. QED  BY <3>1, <3>2
  <2>2. ASSUME NEW i \in 1 .. WIDTH, ~regs.lsb, i > WIDTH - (done + 1)
        PROVE  rx_shiftreg'[i] = <<e, i - (WIDTH - (done + 1))>>
    <3>1. CASE i = WIDTH
      BY <1>4, <1>7, <2>2, <3>1 DEF WireBit
    <3>2. CASE i # WIDTH
      <4>1. /\ i + 1 \in 1 .. WIDTH /\ i + 1 > WIDTH - done
            /\ (i + 1) - (WIDTH - done) = i - (WIDTH - (done + 1))
        BY <1>4, <2>2, <3>2
      <4>2. rx_shiftreg'[i] = rx_shiftreg[i + 1] /\ rx_shiftreg[i + 1] = <<e, (i + 1) - (WIDTH - done)>>
        BY <1>7, <2>2, <3>2, <4>1 DEF Shifting, Comes
      <4>. QED  BY <4>1, <4>2
    <3>. QED  BY <3>1, <3>2
  <2>. QED  BY <2>1, <2>2
<1>11. CASE ~LastBit
  <2>1. /\ done' = done + 1 /\ done + 1 < WIDTH /\ sck' = First
        /\ spi_state' = "XFER" /\ core_cs' = 0
    BY <1>3, <1>4, <1>8, <1>11 DEF SpiBit, done, Shifting, EngineTypes, Flip
  <2>2. ~Past' /\ sampled' = done + 1
    BY <1>2, <1>3, <2>1 DEF Past, sampled
  <2>3. Shifts /\ ~Samples
    BY <1>3, <1>8, <2>1, Edges
  <2>4. Leaves(b)'
    <3>1. ASSUME NEW i \in 1 .. WIDTH, regs.lsb, i > done + 1 PROVE tx_shiftreg'[i] = <<b, i - (done + 1)>>
      <4>1. i - 1 \in 1 .. WIDTH /\ i - 1 > done /\ i # 1 /\ (i - 1) - done = i - (done + 1)
        BY <1>4, <3>1
      <4>2. tx_shiftreg'[i] = tx_shiftreg[i - 1] /\ tx_shiftreg[i - 1] = <<b, (i - 1) - done>>
        BY <1>7, <3>1, <4>1 DEF Shifting, Leaves
      <4>. QED  BY <4>1, <4>2
    <3>2. ASSUME NEW i \in 1 .. WIDTH, ~regs.lsb, i <= WIDTH - (done + 1)
          PROVE  tx_shiftreg'[i] = <<b, i + (done + 1)>>
      <4>1. i + 1 \in 1 .. WIDTH /\ i + 1 <= WIDTH - done /\ i # WIDTH /\ (i + 1) + done = i + (done + 1)
        BY <1>4, <3>2
      <4>2. tx_shiftreg'[i] = tx_shiftreg[i + 1] /\ tx_shiftreg[i + 1] = <<b, (i + 1) + done>>
        BY <1>7, <3>2, <4>1 DEF Shifting, Leaves
      <4>. QED  BY <4>1, <4>2
    <3>. QED  BY <2>1, <3>1, <3>2 DEF Leaves
  <2>5. Comes(e)'
    BY <1>10, <2>1 DEF Comes
  <2>6. dev_in' = dev_in /\ dev_bits' = dev_bits /\ dev_out' = Tail(dev_out)
    BY <1>4, <1>5, <2>1, <2>3, Listens
  <2>7. Offers(e)'
    <3>1. /\ Tail(dev_out) \in Seq(BitSet) /\ Len(Tail(dev_out)) = WIDTH - (done + 1)
          /\ \A i \in 1 .. WIDTH - (done + 1) : Tail(dev_out)[i] = dev_out[i + 1]
      BY <1>4, <1>5, <2>1
    <3>2. \A i \in 1 .. WIDTH - (done + 1) : Tail(dev_out)[i] = WireBit(e, done + 1 + i)
      BY <1>4, <1>5, <3>1
    <3>. QED  BY <1>9, <2>1, <2>6, <3>1, <3>2 DEF Offers
  <2>8. Gathers(s, b)'
    BY <1>4, <1>9, <2>1, <2>2, <2>6 DEF Shifting, Gathers
  <2>. QED  BY <1>8, <2>1, <2>2, <2>4, <2>5, <2>7, <2>8 DEF Shifting
<1>12. CASE LastBit
  <2>1. done = WIDTH - 1 /\ sck' = regs.pol
    BY <1>4, <1>12 DEF SpiBit
  <2>2. dev_bits = <<>> /\ dev_in = Append(s, Bits(b))
    BY <1>4, <2>1 DEF Shifting, Gathers
  <2>3. \A i \in 1 .. WIDTH : rx_shiftreg'[i] = <<e, i>>
    BY <1>10, <2>1
  <2>4. rx_shiftreg' = Bits(e)
    <3>1. rx_shiftreg' = [i \in 1 .. WIDTH |-> rx_shiftreg'[i]]
      BY <1>7 DEF Word
    <3>. QED  BY <2>3, <3>1 DEF Bits
  <2>5. Len(dev_out) = 1
    BY <1>5, <2>1
  <2>6. /\ ~Samples /\ dev_in' = dev_in /\ dev_bits' = dev_bits
        /\ dev_out' = IF regs.pha THEN dev_out ELSE Wire(n)
    <3>1. CASE regs.pha
      <4>1. sck' = sck
        BY <1>1, <1>3, <1>8, <2>1, <3>1 DEF Flip
      <4>. QED  BY <3>1, <4>1, Edges, Listens DEF EngineTypes
    <3>2. CASE ~regs.pha
      <4>1. Shifts /\ ~Samples
        BY <1>3, <1>8, <2>1, <3>2, Edges
      <4>2. x = n
        BY <2>2
      <4>. QED  BY <3>2, <4>1, <4>2, <2>5, Listens
    <3>. QED  BY <3>1, <3>2
  <2>7. Wire(n)' = Wire(n)
    BY DEF Wire
  <2>8. Between(n)'
    BY <1>5, <2>2, <2>5, <2>6, <2>7 DEF Between
  <2>9. Exchanged(s, b, e, n)'
    BY <2>1, <2>2, <2>4, <2>6, <2>8 DEF Exchanged
  <2>10. (spi_state' = "PRE" /\ core_cs' = 0) \/ AtRest'
    BY <1>3, <1>12 DEF SpiBit, Shifting, AtRest
  <2>. QED  BY <2>9, <2>10 DEF Finishing, After
<1>. QED  BY <1>11, <1>12

(* The delay behind the last bit. *)
LEMMA FinishStep ==
  ASSUME EngineTypes, Chosen, regs' = regs,
         NEW f, NEW x, NEW s, NEW b \in Byte, NEW e \in Byte, NEW n \in Byte, NEW we, NEW v, NEW bit,
         SlaveClock(f, x), SpiClock(regs, we, v, bit), Finishing(s, b, e, n)
  PROVE  Finishing(s, b, e, n)' \/ After(s, b, e, n)'
<1>1. SpiCount(regs) \/ SpiPre(regs)
  BY DEF Finishing, SpiClock, SpiIdle, SpiPost, SpiBit
<1>2. /\ sck' = sck /\ rx_shiftreg' = rx_shiftreg
      /\ (spi_state' = "PRE" /\ core_cs' = 0) \/ AtRest'
  BY <1>1 DEF Finishing, SpiCount, SpiPre, AtRest
<1>3. ~Samples /\ ~Shifts
  BY <1>2, Edges DEF EngineTypes
<1>4. dev_in' = dev_in /\ dev_bits' = dev_bits /\ dev_out' = dev_out
  BY <1>3, Listens
<1>5. Wire(n)' = Wire(n)
  BY DEF Wire
<1>6. Exchanged(s, b, e, n)'
  BY <1>2, <1>4, <1>5 DEF Finishing, Exchanged, Between
<1>. QED  BY <1>2, <1>6 DEF Finishing, After

(* An exchange goes on to its end. *)
LEMMA ExchangeStep ==
  ASSUME EngineTypes, Chosen, regs' = regs,
         NEW f, NEW x, NEW s, NEW b \in Byte, NEW e \in Byte, NEW n \in Byte, NEW we, NEW v,
         SlaveClock(f, x), SpiClock(regs, we, v, Head(dev_out)),
         dev_in = s => x = e, dev_in = Append(s, Bits(b)) => x = n,
         Exchanging(s, b, e, n)
  PROVE  Exchanging(s, b, e, n)' \/ After(s, b, e, n)'
<1>1. CASE Waiting(s, b, e)
  <2>1. x = e
    BY <1>1 DEF Waiting
  <2>. QED  BY <1>1, <2>1, WaitStep DEF Exchanging
<1>2. CASE Shifting(s, b, e)
  <2>1. SpiCount(regs) \/ SpiBit(regs, Head(dev_out))
    BY <1>2 DEF Shifting, SpiClock, SpiIdle, SpiPost, SpiPre
  <2>. QED  BY <1>2, <2>1, CountStep, BitStep DEF Exchanging
<1>3. CASE Finishing(s, b, e, n)
  BY <1>3, FinishStep DEF Exchanging
<1>. QED  BY <1>1, <1>2, <1>3 DEF Exchanging

-----------------------------------------------------------------------------
(* The accesses of flashboot, one after the other.                         *)
IsJoin(u, s, t) ==
  /\ Len(u) = Len(s) + Len(t)
  /\ \A i \in 1 .. Len(s) : u[i] = s[i]
  /\ \A i \in Len(s) + 1 .. Len(s) + Len(t) : u[i] = t[i - Len(s)]

(* What is in a sequence that is two sequences, one after the other.       *)
LEMMA Joined ==
  ASSUME NEW A, NEW s \in Seq(A), NEW t \in Seq(A), NEW u, u = s \o t
  PROVE  u \in Seq(A) /\ IsJoin(u, s, t)
<1>1. /\ s \o t \in Seq(A) /\ Len(s \o t) = Len(s) + Len(t)
      /\ \A i \in 1 .. Len(s) + Len(t) : (s \o t)[i] = IF i <= Len(s) THEN s[i] ELSE t[i - Len(s)]
  BY ConcatProperties
<1>2. /\ u \in Seq(A) /\ Len(u) = Len(s) + Len(t)
      /\ \A i \in 1 .. Len(s) + Len(t) : u[i] = IF i <= Len(s) THEN s[i] ELSE t[i - Len(s)]
  BY <1>1
<1>. QED  BY <1>2 DEF IsJoin

(* The bytes of the two commands.                                          *)
LEMMA Commands ==
  /\ Len(IdCommand) = 2 /\ IdCommand[1] = READID /\ IdCommand[2] = 0
  /\ IdCommand \in Seq(Byte)
  /\ ReadCommand \in Seq(Byte) /\ Len(ReadCommand) = ROOM + 4
  /\ ReadCommand[1] = READ
  /\ \A i \in 1 .. 3 : ReadCommand[i + 1] = ImgOffset[i]
<1>. USE DEF READID, READ, ImgOffset, Byte
<1>1. IdCommand \in Seq(Byte) /\ Len(IdCommand) = 2 /\ IdCommand[1] = READID /\ IdCommand[2] = 0
  BY DEF IdCommand
<1>. DEFINE zeros == [i \in 1 .. ROOM |-> 0]
<1>2. zeros \in Seq(Byte) /\ Len(zeros) = ROOM
  OBVIOUS
<1>. HIDE DEF zeros
<1>. DEFINE t == <<READ>> \o ImgOffset
<1>3. /\ t \in Seq(Byte) /\ Len(t) = 4 /\ t[1] = READ
      /\ \A i \in 1 .. 3 : t[i + 1] = ImgOffset[i]
  OBVIOUS
<1>. HIDE DEF t, Byte
<1>4. ReadCommand = t \o zeros
  BY DEF ReadCommand, t, zeros
<1>5. /\ ReadCommand \in Seq(Byte) /\ Len(ReadCommand) = 4 + ROOM
      /\ \A i \in 1 .. 4 : ReadCommand[i] = t[i]
  <2>1. ReadCommand \in Seq(Byte) /\ IsJoin(ReadCommand, t, zeros)
    BY <1>2, <1>3, <1>4, Joined, Zenon
  <2>. QED  BY <1>2, <1>3, <2>1 DEF IsJoin
<1>. QED  BY <1>1, <1>3, <1>5

(* The accesses of Transfers for a command: three for each byte. *)
LEMMA TransfersFacts ==
  ASSUME NEW A, NEW cmd \in Seq(Byte), Poll \in A, Read \in A, \A b \in Byte : Data(b) \in A
  PROVE  /\ Transfers(cmd) \in Seq(A) /\ Len(Transfers(cmd)) = 3 * Len(cmd)
         /\ \A k \in 1 .. Len(cmd) :
              /\ Transfers(cmd)[3 * k - 2] = Data(cmd[k])
              /\ Transfers(cmd)[3 * k - 1] = Poll
              /\ Transfers(cmd)[3 * k] = Read
<1>. DEFINE at(n) == spi_transfer(cmd[1 + (n - 1) \div 3])[1 + ((n - 1) % 3)]
<1>1. Transfers(cmd) = [n \in 1 .. 3 * Len(cmd) |-> at(n)]
  <2>1. Len(spi_transfer(0)) = 3
    BY DEF spi_transfer
  <2>. QED  BY <2>1 DEF Transfers
<1>2. \A b : spi_transfer(b)[1] = Data(b) /\ spi_transfer(b)[2] = Poll /\ spi_transfer(b)[3] = Read
  BY DEF spi_transfer
<1>3. Len(cmd) \in Nat
  OBVIOUS
<1>4. ASSUME NEW k \in 1 .. Len(cmd)
      PROVE  at(3 * k - 2) = Data(cmd[k]) /\ at(3 * k - 1) = Poll /\ at(3 * k) = Read
  <2>1. /\ ((3 * k - 2) - 1) \div 3 = k - 1 /\ ((3 * k - 2) - 1) % 3 = 0
        /\ ((3 * k - 1) - 1) \div 3 = k - 1 /\ ((3 * k - 1) - 1) % 3 = 1
        /\ (3 * k - 1) \div 3 = k - 1 /\ (3 * k - 1) % 3 = 2
    BY <1>3
  <2>2. 1 + (k - 1) = k
    BY <1>3
  <2>. QED  BY <1>2, <2>1, <2>2
<1>5. ASSUME NEW n \in 1 .. 3 * Len(cmd) PROVE at(n) \in A
  <2>1. PICK k \in 1 .. Len(cmd) : n = 3 * k - 2 \/ n = 3 * k - 1 \/ n = 3 * k
    <3>. DEFINE j == 1 + (n - 1) \div 3
    <3>1. j \in 1 .. Len(cmd) /\ (n = 3 * j - 2 \/ n = 3 * j - 1 \/ n = 3 * j)
      BY <1>3
    <3>. QED  BY <3>1
  <2>2. cmd[k] \in Byte
    OBVIOUS
  <2>. QED  BY <1>4, <2>1, <2>2
<1>. HIDE DEF at
<1>6. \A k \in 1 .. Len(cmd) : {3 * k - 2, 3 * k - 1, 3 * k} \subseteq 1 .. 3 * Len(cmd)
  BY <1>3
<1>. QED  BY <1>1, <1>3, <1>4, <1>5, <1>6

(* The writes of flashboot to the other registers. *)
SetDiv == Set([sckdiv |-> spicfg.sckdiv])
SetMode == Set([en |-> TRUE, pol |-> spicfg.pol, pha |-> spicfg.pha, lsb |-> spicfg.lsb])
SetCs(mode, active) == Set([csmode |-> mode, acs |-> active])
SetDelays == Set([post |-> spicfg.post, pre |-> spicfg.pre])
SetActive(active) == Set([acs |-> active])

AllAccesses ==
  {Poll, Read, CheckId, SetDiv, SetMode, SetCs("disable", 0), SetCs("auto", 1), SetDelays,
   SetActive(0), SetActive(1)} \union {Data(b) : b \in Byte}

(* The accesses of spi_init.                                               *)
LEMMA InitAccesses ==
  ASSUME NEW mode, NEW active, SetCs(mode, active) \in AllAccesses
  PROVE  LET s == spi_init(spicfg, mode, active)
         IN  /\ s \in Seq(AllAccesses) /\ Len(s) = 5
             /\ s[1] = Poll /\ s[2] = SetDiv /\ s[3] = SetMode
             /\ s[4] = SetCs(mode, active) /\ s[5] = SetDelays
<1>1. spi_init(spicfg, mode, active) = <<Poll, SetDiv, SetMode, SetCs(mode, active), SetDelays>>
  BY DEF spi_init, SetDiv, SetMode, SetCs, SetDelays
<1>2. {Poll, SetDiv, SetMode, SetDelays} \subseteq AllAccesses
  BY DEF AllAccesses
<1>. QED  BY <1>1, <1>2

(* A command between the selection and the deselection.                    *)
IsSession(s, cmd, n) ==
  /\ s \in Seq(AllAccesses) /\ Len(s) = 3 * n + 2
  /\ s[1] = SetActive(1) /\ s[3 * n + 2] = SetActive(0)
  /\ \A k \in 1 .. n :
       s[3 * k - 1] = Data(cmd[k]) /\ s[3 * k] = Poll /\ s[3 * k + 1] = Read

(* The accesses between spi_select and spi_deselect.                       *)
LEMMA CommandAccesses ==
  ASSUME NEW cmd \in Seq(Byte), NEW n, n = Len(cmd),
         NEW s, s = spi_select \o Transfers(cmd) \o spi_deselect
  PROVE  IsSession(s, cmd, n)
<1>. DEFINE t == Transfers(cmd)
            u == spi_select
            v == spi_deselect
<1>1. n \in Nat
  OBVIOUS
<1>2. /\ t \in Seq(AllAccesses) /\ Len(t) = 3 * n
      /\ \A k \in 1 .. n : t[3 * k - 2] = Data(cmd[k]) /\ t[3 * k - 1] = Poll /\ t[3 * k] = Read
  <2>1. Poll \in AllAccesses /\ Read \in AllAccesses /\ \A b \in Byte : Data(b) \in AllAccesses
    BY DEF AllAccesses
  <2>2. /\ t \in Seq(AllAccesses) /\ Len(t) = 3 * Len(cmd)
        /\ \A k \in 1 .. Len(cmd) : t[3 * k - 2] = Data(cmd[k]) /\ t[3 * k - 1] = Poll /\ t[3 * k] = Read
    BY <2>1, TransfersFacts
  <2>. QED  BY <2>2
<1>3. /\ u \in Seq(AllAccesses) /\ Len(u) = 1 /\ u[1] = SetActive(1)
      /\ v \in Seq(AllAccesses) /\ Len(v) = 1 /\ v[1] = SetActive(0)
  <2>1. SetActive(1) \in AllAccesses /\ SetActive(0) \in AllAccesses
    BY DEF AllAccesses
  <2>2. u = <<SetActive(1)>> /\ v = <<SetActive(0)>>
    BY DEF spi_select, spi_deselect, SetActive
  <2>. QED  BY <2>1, <2>2
<1>. HIDE DEF t, u, v
<1>. DEFINE ut == u \o t
            all == u \o t \o v
<1>4. ut = u \o t /\ all = ut \o v
  OBVIOUS
<1>. HIDE DEF ut, all
<1>5. /\ ut \in Seq(AllAccesses) /\ Len(ut) = 3 * n + 1 /\ ut[1] = SetActive(1)
      /\ \A i \in 1 .. 3 * n : ut[i + 1] = t[i]
  <2>1. /\ ut \in Seq(AllAccesses) /\ Len(ut) = 1 + 3 * n
        /\ ut[1] = u[1] /\ \A i \in 2 .. 1 + 3 * n : ut[i] = t[i - 1]
    <3>1. ut \in Seq(AllAccesses) /\ IsJoin(ut, u, t)
      BY <1>2, <1>3, <1>4, Joined, Zenon
    <3>. QED  BY <1>1, <1>2, <1>3, <3>1 DEF IsJoin
  <2>2. \A i \in 1 .. 3 * n : i + 1 \in 2 .. 1 + 3 * n /\ (i + 1) - 1 = i
    BY <1>1
  <2>. QED  BY <1>1, <1>3, <2>1, <2>2
<1>6. /\ all \in Seq(AllAccesses) /\ Len(all) = 3 * n + 2
      /\ \A i \in 1 .. 3 * n + 1 : all[i] = ut[i]
      /\ all[3 * n + 2] = SetActive(0)
  <2>1. /\ all \in Seq(AllAccesses) /\ Len(all) = 3 * n + 1 + 1
        /\ \A i \in 1 .. 3 * n + 1 : all[i] = ut[i]
        /\ \A i \in 3 * n + 1 + 1 .. 3 * n + 1 + 1 : all[i] = v[i - (3 * n + 1)]
    <3>1. all \in Seq(AllAccesses) /\ IsJoin(all, ut, v)
      BY <1>3, <1>4, <1>5, Joined, Zenon
    <3>. QED  BY <1>1, <1>3, <1>5, <3>1 DEF IsJoin
  <2>2. 3 * n + 1 + 1 = 3 * n + 2 /\ (3 * n + 2) - (3 * n + 1) = 1 /\ 3 * n + 2 \in Nat
    BY <1>1
  <2>. QED  BY <1>3, <2>1, <2>2
<1>7. ASSUME NEW k \in 1 .. n
      PROVE  all[3 * k - 1] = Data(cmd[k]) /\ all[3 * k] = Poll /\ all[3 * k + 1] = Read
  <2>1. {3 * k - 2, 3 * k - 1, 3 * k} \subseteq 1 .. 3 * n
    BY <1>1
  <2>2. \A i \in {3 * k - 2, 3 * k - 1, 3 * k} : i + 1 \in 1 .. 3 * n + 1 /\ all[i + 1] = t[i]
    BY <1>1, <1>5, <1>6, <2>1
  <2>3. (3 * k - 2) + 1 = 3 * k - 1 /\ (3 * k - 1) + 1 = 3 * k
    BY <1>1
  <2>. QED  BY <1>2, <2>2, <2>3
<1>8. all[1] = SetActive(1)
  BY <1>1, <1>5, <1>6
<1>9. all \in Seq(AllAccesses) /\ Len(all) = 3 * n + 2 /\ all[3 * n + 2] = SetActive(0)
  BY <1>6
<1>10. s = all
  BY DEF t, u, v, all
<1>. QED  BY <1>7, <1>8, <1>9, <1>10 DEF IsSession

(* Where in flashboot each access is.                                      *)
LEMMA Plan ==
  /\ flashboot \in Seq(AllAccesses) /\ Len(flashboot) = End + 5
  /\ \A p \in {1, End + 1} :
       /\ flashboot[p] = Poll /\ flashboot[p + 1] = SetDiv /\ flashboot[p + 2] = SetMode
       /\ flashboot[p + 4] = SetDelays
  /\ flashboot[4] = SetCs("disable", 0) /\ flashboot[End + 4] = SetCs("auto", 1)
  /\ flashboot[6] = SetActive(1) /\ flashboot[15] = SetActive(1)
  /\ flashboot[13] = SetActive(0) /\ flashboot[End] = SetActive(0)
  /\ flashboot[14] = CheckId
  /\ \A k \in 1 .. 2 :
       /\ flashboot[3 * k + 4] = Data(IdCommand[k])
       /\ flashboot[3 * k + 5] = Poll /\ flashboot[3 * k + 6] = Read
  /\ \A k \in 1 .. ROOM + 4 :
       /\ flashboot[3 * k + 13] = Data(ReadCommand[k])
       /\ flashboot[3 * k + 14] = Poll /\ flashboot[3 * k + 15] = Read
<1>. DEFINE i == spi_init(spicfg, "disable", 0)
            g == flashgetid
            h == <<CheckId>>
            c == flashcpy
            j == spi_init(spicfg, "auto", 1)
            A == AllAccesses
            m == 3 * (ROOM + 4) + 2
<1>1. /\ i \in Seq(A) /\ Len(i) = 5
      /\ i[1] = Poll /\ i[2] = SetDiv /\ i[3] = SetMode /\ i[4] = SetCs("disable", 0) /\ i[5] = SetDelays
  <2>1. SetCs("disable", 0) \in A
    BY DEF AllAccesses
  <2>. QED  BY <2>1, InitAccesses
<1>2. /\ j \in Seq(A) /\ Len(j) = 5
      /\ j[1] = Poll /\ j[2] = SetDiv /\ j[3] = SetMode /\ j[4] = SetCs("auto", 1) /\ j[5] = SetDelays
  <2>1. SetCs("auto", 1) \in A
    BY DEF AllAccesses
  <2>. QED  BY <2>1, InitAccesses
<1>3. /\ g \in Seq(A) /\ Len(g) = 8 /\ g[1] = SetActive(1) /\ g[8] = SetActive(0)
      /\ \A k \in 1 .. 2 : g[3 * k - 1] = Data(IdCommand[k]) /\ g[3 * k] = Poll /\ g[3 * k + 1] = Read
  <2>1. g = spi_select \o Transfers(IdCommand) \o spi_deselect
    BY DEF flashgetid, IdCommand
  <2>2. 2 = Len(IdCommand) /\ IdCommand \in Seq(Byte)
    BY Commands
  <2>3. IsSession(g, IdCommand, 2)
    BY <2>1, <2>2, CommandAccesses, Zenon
  <2>. QED  BY <2>3 DEF IsSession
<1>4. /\ c \in Seq(A) /\ Len(c) = m /\ c[1] = SetActive(1) /\ c[m] = SetActive(0)
      /\ \A k \in 1 .. ROOM + 4 :
           c[3 * k - 1] = Data(ReadCommand[k]) /\ c[3 * k] = Poll /\ c[3 * k + 1] = Read
  <2>1. c = spi_select \o Transfers(ReadCommand) \o spi_deselect
    BY DEF flashcpy, ReadCommand
  <2>2. ROOM + 4 = Len(ReadCommand) /\ ReadCommand \in Seq(Byte)
    BY Commands
  <2>3. IsSession(c, ReadCommand, ROOM + 4)
    BY <2>1, <2>2, CommandAccesses, Zenon
  <2>. QED  BY <2>3 DEF IsSession
<1>5. h \in Seq(A) /\ Len(h) = 1 /\ h[1] = CheckId
  BY DEF AllAccesses
<1>6. flashboot = i \o g \o h \o c \o j
  BY DEF flashboot
<1>7. m \in Nat /\ m + 14 = End
  BY DEF End
<1>. HIDE DEF i, g, h, c, j, A, m
<1>. DEFINE ig == i \o g
            igh == ig \o h
            ighc == igh \o c
<1>8. ig = i \o g /\ igh = ig \o h /\ ighc = igh \o c /\ flashboot = ighc \o j
  BY <1>6
<1>. HIDE DEF ig, igh, ighc
<1>9. /\ ig \in Seq(A) /\ Len(ig) = 13
      /\ \A p \in 1 .. 5 : ig[p] = i[p]
      /\ \A p \in 6 .. 13 : ig[p] = g[p - 5]
  <2>1. ig \in Seq(A) /\ IsJoin(ig, i, g)
    BY <1>1, <1>3, <1>8, Joined, Zenon
  <2>. QED  BY <1>1, <1>3, <2>1 DEF IsJoin
<1>10. /\ igh \in Seq(A) /\ Len(igh) = 14
       /\ \A p \in 1 .. 13 : igh[p] = ig[p]
       /\ igh[14] = CheckId
  <2>1. /\ igh \in Seq(A) /\ Len(igh) = 14
        /\ \A p \in 1 .. 13 : igh[p] = ig[p]
        /\ \A p \in 14 .. 14 : igh[p] = h[p - 13]
    <3>1. igh \in Seq(A) /\ IsJoin(igh, ig, h)
      BY <1>5, <1>8, <1>9, Joined, Zenon
    <3>. QED  BY <1>5, <1>9, <3>1 DEF IsJoin
  <2>. QED  BY <1>5, <2>1
<1>11. /\ ighc \in Seq(A) /\ Len(ighc) = 14 + m
       /\ \A p \in 1 .. 14 : ighc[p] = igh[p]
       /\ \A p \in 15 .. 14 + m : ighc[p] = c[p - 14]
  <2>1. ighc \in Seq(A) /\ IsJoin(ighc, igh, c)
    BY <1>4, <1>8, <1>10, Joined, Zenon
  <2>. QED  BY <1>4, <1>7, <1>10, <2>1 DEF IsJoin
<1>12. /\ flashboot \in Seq(A) /\ Len(flashboot) = End + 5
       /\ \A p \in 1 .. 5 : flashboot[p] = i[p]
       /\ \A p \in 6 .. 13 : flashboot[p] = g[p - 5]
       /\ flashboot[14] = CheckId
       /\ \A p \in 15 .. End : flashboot[p] = c[p - 14]
       /\ \A p \in End + 1 .. End + 5 : flashboot[p] = j[p - End]
  <2>1. /\ flashboot \in Seq(A) /\ Len(flashboot) = End + 5
        /\ \A p \in 1 .. End : flashboot[p] = ighc[p]
        /\ \A p \in End + 1 .. End + 5 : flashboot[p] = j[p - End]
    <3>1. Len(ighc) = End /\ End \in Nat
      BY <1>7, <1>11
    <3>2. flashboot \in Seq(A) /\ IsJoin(flashboot, ighc, j)
      BY <1>2, <1>8, <1>11, Joined, Zenon
    <3>. QED  BY <1>2, <3>1, <3>2 DEF IsJoin
  <2>2. \A p \in 1 .. 14 : p \in 1 .. End
    BY <1>7
  <2>3. \A p \in 1 .. 13 : flashboot[p] = ig[p]
    <3>1. \A p \in 1 .. 14 : flashboot[p] = igh[p]
      BY <1>11, <2>1, <2>2
    <3>2. \A p \in 1 .. 13 : p \in 1 .. 14
      OBVIOUS
    <3>. QED  BY <1>10, <3>1, <3>2
  <2>4. flashboot[14] = CheckId
    BY <1>10, <1>11, <2>1, <2>2
  <2>5. \A p \in 15 .. End : flashboot[p] = c[p - 14]
    BY <1>7, <1>11, <2>1
  <2>6. \A p \in 1 .. 5 : flashboot[p] = i[p]
    BY <1>9, <2>3
  <2>7. \A p \in 6 .. 13 : flashboot[p] = g[p - 5]
    BY <1>9, <2>3
  <2>. QED  BY <2>1, <2>4, <2>5, <2>6, <2>7
<1>13. End \in Nat /\ End = 3 * ROOM + 28 /\ m = End - 14
  BY <1>7 DEF End
<1>14. \A p \in {1, End + 1} :
       /\ flashboot[p] = Poll /\ flashboot[p + 1] = SetDiv /\ flashboot[p + 2] = SetMode
       /\ flashboot[p + 4] = SetDelays
  BY <1>1, <1>2, <1>12, <1>13
<1>15. /\ flashboot[4] = SetCs("disable", 0) /\ flashboot[End + 4] = SetCs("auto", 1)
       /\ flashboot[6] = SetActive(1) /\ flashboot[15] = SetActive(1)
       /\ flashboot[13] = SetActive(0) /\ flashboot[End] = SetActive(0)
       /\ flashboot[14] = CheckId
  BY <1>1, <1>2, <1>3, <1>4, <1>12, <1>13
<1>16. ASSUME NEW k \in 1 .. 2
       PROVE  /\ flashboot[3 * k + 4] = Data(IdCommand[k])
              /\ flashboot[3 * k + 5] = Poll /\ flashboot[3 * k + 6] = Read
  BY <1>3, <1>12, <1>13
<1>17. ASSUME NEW k \in 1 .. ROOM + 4
       PROVE  /\ flashboot[3 * k + 13] = Data(ReadCommand[k])
              /\ flashboot[3 * k + 14] = Poll /\ flashboot[3 * k + 15] = Read
  <2>1. \A p \in {3 * k + 13, 3 * k + 14, 3 * k + 15} : p \in 15 .. End
    BY <1>13
  <2>2. /\ flashboot[3 * k + 13] = c[(3 * k + 13) - 14]
        /\ flashboot[3 * k + 14] = c[(3 * k + 14) - 14]
        /\ flashboot[3 * k + 15] = c[(3 * k + 15) - 14]
    BY <1>12, <2>1
  <2>3. (3 * k + 13) - 14 = 3 * k - 1 /\ (3 * k + 14) - 14 = 3 * k /\ (3 * k + 15) - 14 = 3 * k + 1
    OBVIOUS
  <2>4. c[3 * k - 1] = Data(ReadCommand[k]) /\ c[3 * k] = Poll /\ c[3 * k + 1] = Read
    BY <1>4
  <2>. QED  BY <2>2, <2>3, <2>4
<1>18. flashboot \in Seq(AllAccesses) /\ Len(flashboot) = End + 5
  BY <1>12 DEF A
<1>. QED  BY <1>14, <1>15, <1>16, <1>17, <1>18

-----------------------------------------------------------------------------
(* A clock with an access.                                                 *)
(* The registers behind an access a: Written is what SpiTick makes of them. *)
Written(a) ==
  IF a.reg = "set" THEN [f \in DOMAIN regs |-> IF f \in DOMAIN a.to THEN a.to[f] ELSE regs[f]]
  ELSE regs

(* What the driver writes fits the registers.                              *)
LEMMA RegsWritten ==
  ASSUME regs \in Regs, spicfg \in SpiConfigs
  PROVE  /\ Written(SetDiv) \in Regs /\ Written(SetMode) \in Regs /\ Written(SetDelays) \in Regs
         /\ \A a \in {0, 1} :
              /\ Written(SetActive(a)) \in Regs
              /\ \A m \in {"auto", "disable"} : Written(SetCs(m, a)) \in Regs
         /\ \A a \in {Poll, Read, None_} : Written(a) = regs
         /\ \A b : Written(Data(b)) = regs
<1>1. /\ spicfg.sckdiv \in Nat \ {0} /\ spicfg.pol \in {0, 1} /\ spicfg.pha \in BOOLEAN
      /\ spicfg.lsb \in BOOLEAN /\ spicfg.post \in Nat /\ spicfg.pre \in Nat
  BY BootAssumption
<1>. USE DEF Written, Set, Regs
<1>2. Written(SetDiv) \in Regs
  BY <1>1 DEF SetDiv
<1>3. Written(SetMode) \in Regs
  <2>1. Written(SetMode) =
          [sckdiv |-> regs.sckdiv, en |-> TRUE, pol |-> spicfg.pol, pha |-> spicfg.pha,
           lsb |-> spicfg.lsb, acs |-> regs.acs, csmode |-> regs.csmode,
           post |-> regs.post, pre |-> regs.pre]
    BY DEF SetMode
  <2>. HIDE DEF Written
  <2>. QED  BY <1>1, <2>1
<1>4. Written(SetDelays) \in Regs
  BY <1>1 DEF SetDelays
<1>5. ASSUME NEW a \in {0, 1} PROVE Written(SetActive(a)) \in Regs
  BY DEF SetActive
<1>6. ASSUME NEW a \in {0, 1}, NEW m \in {"auto", "disable"} PROVE Written(SetCs(m, a)) \in Regs
  BY DEF SetCs
<1>7. \A a \in {Poll, Read, None_} : Written(a) = regs
  BY DEF Poll, Read, None_
<1>8. \A b : Written(Data(b)) = regs
  BY DEF Data
<1>. QED  BY <1>2, <1>3, <1>4, <1>5, <1>6, <1>7, <1>8

(* The fields that matter. *)
LEMMA FieldsWritten ==
  ASSUME regs \in Regs, spicfg \in SpiConfigs
  PROVE  /\ \A a \in {SetDiv, SetDelays, SetMode} :
              Written(a).csmode = regs.csmode /\ Written(a).acs = regs.acs
         /\ \A a \in {SetDiv, SetDelays} :
              Written(a).en = regs.en /\ Written(a).pol = regs.pol
         /\ Written(SetMode).en /\ Written(SetMode).pol = spicfg.pol
         /\ \A x \in {0, 1} :
              /\ Written(SetActive(x)).acs = x
              /\ Written(SetActive(x)).csmode = regs.csmode
              /\ Written(SetActive(x)).en = regs.en /\ Written(SetActive(x)).pol = regs.pol
              /\ Written(SetActive(x)).pha = regs.pha /\ Written(SetActive(x)).lsb = regs.lsb
              /\ x = regs.acs => Written(SetActive(x)) = regs
              /\ \A m \in {"auto", "disable"} :
                   /\ Written(SetCs(m, x)).acs = x /\ Written(SetCs(m, x)).csmode = m
                   /\ Written(SetCs(m, x)).en = regs.en /\ Written(SetCs(m, x)).pol = regs.pol
<1>. USE DEF Written, Set, Regs
<1>1. /\ Written(SetDiv).csmode = regs.csmode /\ Written(SetDiv).acs = regs.acs
      /\ Written(SetDiv).en = regs.en /\ Written(SetDiv).pol = regs.pol
  BY DEF SetDiv
<1>2. /\ Written(SetDelays).csmode = regs.csmode /\ Written(SetDelays).acs = regs.acs
      /\ Written(SetDelays).en = regs.en /\ Written(SetDelays).pol = regs.pol
  BY DEF SetDelays
<1>3. /\ Written(SetMode).csmode = regs.csmode /\ Written(SetMode).acs = regs.acs
      /\ Written(SetMode).en /\ Written(SetMode).pol = spicfg.pol
  BY DEF SetMode
<1>4. ASSUME NEW x \in {0, 1}
      PROVE  /\ Written(SetActive(x)).acs = x
             /\ Written(SetActive(x)).csmode = regs.csmode
             /\ Written(SetActive(x)).en = regs.en /\ Written(SetActive(x)).pol = regs.pol
             /\ Written(SetActive(x)).pha = regs.pha /\ Written(SetActive(x)).lsb = regs.lsb
             /\ x = regs.acs => Written(SetActive(x)) = regs
  BY DEF SetActive
<1>5. ASSUME NEW x \in {0, 1}, NEW m \in {"auto", "disable"}
      PROVE  /\ Written(SetCs(m, x)).acs = x /\ Written(SetCs(m, x)).csmode = m
             /\ Written(SetCs(m, x)).en = regs.en /\ Written(SetCs(m, x)).pol = regs.pol
  BY DEF SetCs
<1>. HIDE DEF Written, Set, Regs
<1>6. /\ \A a \in {SetDiv, SetDelays, SetMode} :
           Written(a).csmode = regs.csmode /\ Written(a).acs = regs.acs
      /\ \A a \in {SetDiv, SetDelays} :
           Written(a).en = regs.en /\ Written(a).pol = regs.pol
      /\ Written(SetMode).en /\ Written(SetMode).pol = spicfg.pol
  BY <1>1, <1>2, <1>3
<1>. QED  BY <1>4, <1>5, <1>6

(* The types hold, with the byte the flash memory answers. *)
LEMMA AnswerType ==
  ASSUME flash_id \in FlashIds, NEW s
  PROVE  Respond(s) \in Byte
<1>1. 255 \in Byte
  BY DEF Byte
<1>2. flash_id \in Byte /\ \A i \in DOMAIN FlashImage : FlashImage[i] \in Byte
  BY BootAssumption
<1>. QED  BY <1>1, <1>2 DEF Respond

(* A clock of controller and slave keeps their types.                      *)
LEMMA TickTypes ==
  ASSUME EngineTypes, flash_id \in FlashIds, spicfg \in SpiConfigs,
         NEW a \in AllAccesses \union {None_}, Written(a) \in Regs,
         Written(a) = regs \/ spi_state = "IDLE",
         SpiTick(a, Respond(<<>>), Respond(dev_in))
  PROVE  EngineTypes' /\ regs' = Written(a)
<1>1. regs' = Written(a)
  BY DEF SpiTick, Written
<1>2. Respond(<<>>) \in Byte /\ Respond(dev_in) \in Byte
  BY AnswerType
<1>3. dev_out' \in Seq(BitSet) /\ dev_out' # <<>>
  BY <1>2, SlaveTypes DEF SpiTick
<1>4. Head(dev_out) \in BitSet
  BY DEF EngineTypes
<1>. DEFINE b == IF a.reg = "tdata" THEN a.b ELSE 0
<1>5. b \in Byte
  <2>1. 0 \in Byte
    BY DEF Byte
  <2>2. \A x : a = Set(x) => a.reg # "tdata"
    BY DEF Set
  <2>3. a \in {Poll, Read, CheckId, None_} => a.reg # "tdata"
    BY DEF Poll, Read, CheckId, None_
  <2>4. ASSUME NEW x \in Byte, a = Data(x) PROVE a.b \in Byte
    BY <2>4 DEF Data
  <2>. QED  BY <2>1, <2>2, <2>3, <2>4 DEF AllAccesses, SetDiv, SetMode, SetCs, SetDelays, SetActive
<1>6. SpiClock(regs, a.reg = "tdata", b, Head(dev_out))
  BY DEF SpiTick
<1>. HIDE DEF b
<1>. QED  BY <1>1, <1>3, <1>4, <1>5, <1>6, ClockTypes DEF EngineTypes

(* What has been sent. *)
LEMMA PrefixFacts ==
  ASSUME NEW cmd \in Seq(Byte)
  PROVE  /\ Prefix(cmd, 0) = <<>>
         /\ \A k \in 1 .. Len(cmd) :
              /\ Prefix(cmd, k - 1) \in Seq(Word)
              /\ cmd[k] \in Byte
              /\ Prefix(cmd, k) = Append(Prefix(cmd, k - 1), Bits(cmd[k]))
<1>1. Prefix(cmd, 0) = <<>>
  BY DEF Prefix
<1>2. \A k \in 1 .. Len(cmd) : cmd[k] \in Byte /\ Bits(cmd[k]) \in Word
  BY ByteBits
<1>3. ASSUME NEW k \in 1 .. Len(cmd)
      PROVE  /\ Prefix(cmd, k - 1) \in Seq(Word)
             /\ Prefix(cmd, k) = Append(Prefix(cmd, k - 1), Bits(cmd[k]))
  <2>. DEFINE word(i) == Bits(cmd[i])
  <2>1. \A i \in 1 .. k : word(i) \in Word
    BY <1>2
  <2>. HIDE DEF word
  <2>. DEFINE s == [i \in 1 .. k - 1 |-> word(i)]
              t == [i \in 1 .. k |-> word(i)]
  <2>2. s \in Seq(Word) /\ t \in Seq(Word) /\ Len(s) = k - 1 /\ Len(t) = k
    BY <2>1
  <2>3. \A i \in 1 .. k : t[i] = Append(s, word(k))[i]
    BY <2>1, <2>2
  <2>4. t = Append(s, word(k))
    BY <2>1, <2>2, <2>3
  <2>5. s = Prefix(cmd, k - 1) /\ t = Prefix(cmd, k)
    BY DEF word, Prefix
  <2>. QED  BY <2>2, <2>4, <2>5 DEF word
<1>. QED  BY <1>1, <1>2, <1>3

(* The second answer to the first command is the identification, and the   *)
(* ones behind the address are the image.                                  *)
LEMMA IdAnswer ==
  ASSUME flash_id \in FlashIds PROVE Respond(Prefix(IdCommand, 1)) = flash_id
<1>. DEFINE s == Prefix(IdCommand, 1)
<1>1. s = <<Bits(READID)>>
  <2>1. 1 .. 1 = {1} /\ IdCommand[1] = READID
    BY Commands
  <2>2. s = [i \in 1 .. 1 |-> Bits(READID)]
    BY <2>1 DEF Prefix
  <2>. QED  BY <2>2
<1>2. s # <<>> /\ s[1] = Bits(READID)
  BY <1>1
<1>. HIDE DEF s
<1>. QED  BY <1>2 DEF Respond, s

(* The memory answers the read command with the image.                     *)
LEMMA ImageAnswer ==
  ASSUME flash_id \in FlashIds, Usable(flash_id), NEW k \in 5 .. ROOM + 4
  PROVE  Respond(Prefix(ReadCommand, k - 1)) = FlashImage[k - 5]
<1>. DEFINE s == Prefix(ReadCommand, k - 1)
<1>1. s \in Seq(Word) /\ Len(s) = k - 1 /\ \A i \in 1 .. k - 1 : s[i] = Bits(ReadCommand[i])
  BY Commands, PrefixFacts DEF Prefix
<1>2. Bits(READ) # Bits(READID)
  <2>1. Bits(READ)[1] = <<3, 1>> /\ Bits(READID)[1] = <<159, 1>>
    BY DEF Bits, READ, READID
  <2>. QED  BY <2>1
<1>3. s[1] = Bits(READ) /\ \A i \in 1 .. 3 : s[i + 1] = Bits(ImgOffset[i])
  BY <1>1, Commands
<1>. DEFINE u == SubSeq(s, 1, 4)
            v == [i \in 1 .. 3 |-> Bits(ImgOffset[i])]
            w == <<Bits(READ)>> \o v
<1>4. u \in Seq(Word) /\ Len(u) = 4 /\ \A i \in 1 .. 4 : u[i] = s[i]
  BY <1>1
<1>5. w \in Seq(Word) /\ Len(w) = 4 /\ w[1] = Bits(READ) /\ \A i \in 1 .. 3 : w[i + 1] = Bits(ImgOffset[i])
  <2>1. Bits(READ) \in Word /\ \A i \in 1 .. 3 : Bits(ImgOffset[i]) \in Word
    BY ByteBits DEF READ, ImgOffset, Byte
  <2>2. v \in Seq(Word) /\ Len(v) = 3 /\ \A i \in 1 .. 3 : v[i] = Bits(ImgOffset[i])
    BY <2>1
  <2>3. <<Bits(READ)>> \in Seq(Word) /\ Len(<<Bits(READ)>>) = 1 /\ <<Bits(READ)>>[1] = Bits(READ)
    BY <2>1
  <2>. HIDE DEF v
  <2>. DEFINE r == <<Bits(READ)>>
  <2>4. r \in Seq(Word) /\ Len(r) = 1 /\ r[1] = Bits(READ) /\ w = r \o v
    BY <2>3
  <2>. HIDE DEF r, w
  <2>5. w \in Seq(Word) /\ IsJoin(w, r, v)
    BY <2>2, <2>4, Joined, Zenon
  <2>6. Len(w) = 4 /\ w[1] = r[1] /\ \A i \in 2 .. 4 : w[i] = v[i - 1]
    BY <2>2, <2>4, <2>5 DEF IsJoin
  <2>. QED  BY <2>2, <2>4, <2>5, <2>6
<1>. HIDE DEF s, u, v, w
<1>6. u = w
  <2>1. \A i \in 1 .. 4 : u[i] = w[i]
    <3>1. \A i \in 2 .. 4 : i - 1 \in 1 .. 3 /\ (i - 1) + 1 = i
      OBVIOUS
    <3>2. \A i \in 2 .. 4 : u[i] = w[i]
      BY <1>3, <1>4, <1>5, <3>1
    <3>. QED  BY <1>3, <1>4, <1>5, <3>2
  <2>. QED  BY <1>4, <1>5, <2>1, SeqEqual
<1>7. ~NoFlash /\ s # <<>> /\ s[1] # Bits(READID) /\ Len(s) - 4 = k - 5 /\ k - 5 \in DOMAIN FlashImage
  BY <1>1, <1>2, <1>3, BootAssumption DEF NoFlash, Usable
<1>8. Respond(s) = FlashImage[Len(s) - 4]
  BY <1>6, <1>7 DEF Respond, u, v, w
<1>. QED  BY <1>7, <1>8 DEF s

-----------------------------------------------------------------------------
(* The accesses of a byte.                                                 *)
(* The slave answers e to what it got before, and n with this byte.        *)
Answers(s, b, e, n, x) ==
  (dev_in = s => x = e) /\ (dev_in = Append(s, Bits(b)) => x = n)

(* A clock that writes nothing. *)
LEMMA QuietClock ==
  ASSUME EngineTypes, Chosen, regs' = regs,
         NEW f, NEW x, NEW s, NEW b \in Byte, NEW e \in Byte, NEW n \in Byte,
         SlaveClock(f, x), SpiClock(regs, FALSE, 0, Head(dev_out)), Answers(s, b, e, n, x)
  PROVE  /\ Resting(s, e) => Resting(s, e)'
         /\ Exchanging(s, b, e, n) => Exchanging(s, b, e, n)' \/ After(s, b, e, n)'
         /\ After(s, b, e, n) => After(s, b, e, n)'
<1>1. \A y : Wire(y)' = Wire(y)
  BY DEF Wire
<1>2. ASSUME AtRest, sck = regs.pol
      PROVE  /\ AtRest' /\ sck' = regs'.pol /\ rx_shiftreg' = rx_shiftreg /\ dev_in' = dev_in
             /\ \A y : Between(y) => Between(y)'
  <2>1. /\ AtRest' /\ sck' = regs.pol /\ rx_shiftreg' = rx_shiftreg
        /\ dev_in' = dev_in /\ dev_bits' = dev_bits /\ dev_out' = dev_out
    BY <1>2, RestStep
  <2>. QED  BY <1>1, <2>1 DEF Between
<1>3. Resting(s, e) => Resting(s, e)'
  BY <1>2 DEF Resting
<1>4. After(s, b, e, n) => After(s, b, e, n)'
  BY <1>2 DEF After, Exchanged
<1>5. Exchanging(s, b, e, n) => Exchanging(s, b, e, n)' \/ After(s, b, e, n)'
  BY ExchangeStep DEF Answers
<1>. QED  BY <1>3, <1>4, <1>5

(* The kinds of access. *)
LEMMA Ticks ==
  ASSUME regs \in Regs, spicfg \in SpiConfigs, NEW f, NEW x
  PROVE  /\ \A a \in {Poll, Read, None_} :
              /\ a.reg \notin {"tdata", "set"}
              /\ SpiTick(a, f, x) => /\ regs' = regs /\ SlaveClock(f, x)
                                     /\ SpiClock(regs, FALSE, 0, Head(dev_out))
         /\ \A b :
              /\ Data(b).reg = "tdata" /\ Data(b).b = b
              /\ SpiTick(Data(b), f, x) => /\ regs' = regs /\ SlaveClock(f, x)
                                           /\ SpiClock(regs, TRUE, b, Head(dev_out))
<1>1. \A a \in {Poll, Read, None_} : a.reg \notin {"tdata", "set"}
  BY DEF Poll, Read, None_
<1>2. \A b : Data(b).reg = "tdata" /\ Data(b).b = b
  BY DEF Data
<1>3. ASSUME NEW a \in {Poll, Read, None_}, SpiTick(a, f, x)
      PROVE  regs' = regs /\ SlaveClock(f, x) /\ SpiClock(regs, FALSE, 0, Head(dev_out))
  <2>1. (a.reg = "tdata") = FALSE /\ a.reg # "set"
    BY <1>1
  <2>2. SpiClock(regs, FALSE, 0, Head(dev_out))
    BY <1>3, <2>1 DEF SpiTick
  <2>. QED  BY <1>3, <2>1, <2>2 DEF SpiTick
<1>4. ASSUME NEW b, SpiTick(Data(b), f, x)
      PROVE  regs' = regs /\ SlaveClock(f, x) /\ SpiClock(regs, TRUE, b, Head(dev_out))
  <2>1. (Data(b).reg = "tdata") = TRUE /\ Data(b).reg # "set"
    BY <1>2
  <2>2. SpiClock(regs, TRUE, b, Head(dev_out))
    BY <1>2, <1>4, <2>1 DEF SpiTick
  <2>. QED  BY <1>4, <2>1, <2>2 DEF SpiTick
<1>. QED  BY <1>1, <1>2, <1>3, <1>4

(* A clock between the accesses, in the exchange of a byte.                *)
LEMMA AccessComputes ==
  ASSUME EngineTypes, Chosen, spicfg \in SpiConfigs,
         NEW f, NEW x, NEW s, NEW b \in Byte, NEW e \in Byte, NEW n \in Byte, NEW r \in 0 .. 2,
         Answers(s, b, e, n, x), Access(s, b, e, n, r), Computes(f, x)
  PROVE  Access(s, b, e, n, r)'
<1>1. /\ beat = 0 /\ beat' = 0 /\ sent' = sent /\ expected' = expected
      /\ regs' = regs /\ SlaveClock(f, x) /\ SpiClock(regs, FALSE, 0, Head(dev_out))
  BY Ticks DEF Computes, EngineTypes
<1>2. /\ Resting(s, e) => Resting(s, e)'
      /\ Exchanging(s, b, e, n) => Exchanging(s, b, e, n)' \/ After(s, b, e, n)'
      /\ After(s, b, e, n) => After(s, b, e, n)'
  BY <1>1, QuietClock
<1>. QED  BY <1>1, <1>2 DEF Access

(* The first clock of an access, in the exchange of a byte.                *)
LEMMA AccessRequests ==
  ASSUME EngineTypes, Chosen, spicfg \in SpiConfigs, regs.en,
         NEW f, NEW x, NEW s, NEW b \in Byte, NEW e \in Byte, NEW n \in Byte, NEW r \in 0 .. 2,
         Answers(s, b, e, n, x), Access(s, b, e, n, r),
         NEW a, a = IF r = 0 THEN Data(b) ELSE IF r = 1 THEN Poll ELSE Read,
         Requests(a, f, x)
  PROVE  Access(s, b, e, n, r)' /\ beat' = 1 /\ regs' = regs
<1>1. beat = 0 /\ beat' = 1
  BY DEF Requests
<1>2. CASE r = 0
  <2>1. /\ regs' = regs /\ SlaveClock(f, x) /\ SpiClock(regs, TRUE, b, Head(dev_out))
        /\ sent' = Append(sent, Bits(b)) /\ expected' = Bits(x)
    <3>1. a = Data(b) /\ a.reg = "tdata" /\ a.b = b
      BY <1>2 DEF Data
    <3>2. SpiTick(Data(b), f, x) /\ regs \in Regs
      BY <3>1 DEF Requests, EngineTypes
    <3>3. regs' = regs /\ SlaveClock(f, x) /\ SpiClock(regs, TRUE, b, Head(dev_out))
      BY <3>2, Ticks
    <3>. QED  BY <3>1, <3>3 DEF Requests
  <2>2. Resting(s, e) /\ sent = s /\ x = e
    BY <1>1, <1>2 DEF Access, Answers, Resting
  <2>3. Waiting(s, b, e)' \/ Shifting(s, b, e)'
    BY <2>1, <2>2, StartStep DEF Resting
  <2>. QED  BY <1>1, <1>2, <2>1, <2>2, <2>3 DEF Access, Exchanging
<1>3. CASE r # 0
  <2>1. /\ regs' = regs /\ SlaveClock(f, x) /\ SpiClock(regs, FALSE, 0, Head(dev_out))
        /\ sent' = sent /\ expected' = expected
    <3>1. a \in {Poll, Read, None_}
      BY <1>3
    <3>. QED  BY <3>1, Ticks DEF Requests, EngineTypes
  <2>2. /\ Exchanging(s, b, e, n) => Exchanging(s, b, e, n)' \/ After(s, b, e, n)'
        /\ After(s, b, e, n) => After(s, b, e, n)'
    BY <2>1, QuietClock
  <2>. QED  BY <1>1, <1>3, <2>1, <2>2 DEF Access
<1>. QED  BY <1>2, <1>3

(* The second one, which says what access is next.                         *)
LEMMA AccessAcknowledged ==
  ASSUME EngineTypes, Chosen, spicfg \in SpiConfigs,
         NEW f, NEW x, NEW s, NEW b \in Byte, NEW e \in Byte, NEW n \in Byte, NEW r \in 0 .. 2,
         Answers(s, b, e, n, x), Access(s, b, e, n, r),
         NEW a, a = IF r = 0 THEN Data(b) ELSE IF r = 1 THEN Poll ELSE Read,
         Acknowledged(a, f, x)
  PROVE  /\ beat' = 0 /\ regs' = regs /\ sent' = Append(s, Bits(b))
         /\ r = 0 => Access(s, b, e, n, 1)'
         /\ r = 1 => IF spi_busy THEN Access(s, b, e, n, 1)' ELSE Access(s, b, e, n, 2)'
         /\ r = 2 => Resting(Append(s, Bits(b)), n)' /\ rx_shiftreg = Bits(e)
<1>1. beat = 1 /\ beat' = 0 /\ sent' = sent /\ expected' = expected
  BY DEF Acknowledged
<1>2. sent = Append(s, Bits(b)) /\ expected = Bits(e)
  BY <1>1 DEF Access
<1>3. CASE r = 0
  <2>1. regs' = regs /\ SlaveClock(f, x) /\ SpiClock(regs, TRUE, b, Head(dev_out))
    BY <1>3, Ticks DEF Acknowledged, EngineTypes
  <2>2. Exchanging(s, b, e, n)
    BY <1>1, <1>3 DEF Access
  <2>3. Exchanging(s, b, e, n)' \/ After(s, b, e, n)'
    BY <2>1, <2>2, ExchangeStep DEF Answers
  <2>. QED  BY <1>1, <1>2, <1>3, <2>1, <2>3 DEF Access
<1>4. CASE r # 0
  <2>1. regs' = regs /\ SlaveClock(f, x) /\ SpiClock(regs, FALSE, 0, Head(dev_out))
    <3>1. a \in {Poll, Read, None_}
      BY <1>4
    <3>2. SpiTick(a, f, x) /\ regs \in Regs
      BY DEF Acknowledged, EngineTypes
    <3>. QED  BY <3>1, <3>2, Ticks
  <2>2. /\ Exchanging(s, b, e, n) => Exchanging(s, b, e, n)' \/ After(s, b, e, n)'
        /\ After(s, b, e, n) => After(s, b, e, n)'
    BY <2>1, QuietClock
  <2>3. CASE r = 1
    <3>1. Exchanging(s, b, e, n) => spi_busy
      BY DEF Exchanging, Waiting, Shifting, Finishing, spi_busy
    <3>2. Exchanging(s, b, e, n) \/ After(s, b, e, n)
      BY <1>1, <2>3 DEF Access
    <3>3. After(s, b, e, n) => ~spi_busy
      BY DEF After, AtRest, spi_busy
    <3>. QED  BY <1>1, <1>2, <2>1, <2>2, <2>3, <3>1, <3>2, <3>3 DEF Access
  <2>4. CASE r = 2
    <3>1. After(s, b, e, n)
      BY <1>1, <2>4 DEF Access
    <3>2. Resting(Append(s, Bits(b)), n)' /\ rx_shiftreg = Bits(e)
      BY <2>2, <3>1 DEF After, Exchanged, Resting
    <3>. QED  BY <1>1, <1>2, <2>1, <2>4, <3>2
  <2>. QED  BY <1>4, <2>3, <2>4
<1>. QED  BY <1>3, <1>4

(* The accesses to a command of the flash memory. *)
AccessOf(cmd, k, r) == IF r = 0 THEN Data(cmd[k]) ELSE IF r = 1 THEN Poll ELSE Read

(* What the memory answers to the bytes of a command.                      *)
LEMMA Answering ==
  ASSUME flash_id \in FlashIds, NEW cmd \in Seq(Byte), NEW k \in 1 .. Len(cmd)
  PROVE  /\ cmd[k] \in Byte /\ Respond(Prefix(cmd, k - 1)) \in Byte /\ Respond(Prefix(cmd, k)) \in Byte
         /\ Prefix(cmd, k) = Append(Prefix(cmd, k - 1), Bits(cmd[k]))
         /\ Answers(Prefix(cmd, k - 1), cmd[k], Respond(Prefix(cmd, k - 1)),
                    Respond(Prefix(cmd, k)), Respond(dev_in))
<1>1. /\ cmd[k] \in Byte
      /\ Prefix(cmd, k) = Append(Prefix(cmd, k - 1), Bits(cmd[k]))
  BY PrefixFacts
<1>2. Respond(Prefix(cmd, k - 1)) \in Byte /\ Respond(Prefix(cmd, k)) \in Byte
  BY AnswerType
<1>. QED  BY <1>1, <1>2 DEF Answers

(* The memory answers by what it is and what it was sent.                  *)
LEMMA SameAnswers ==
  ASSUME flash_id' = flash_id PROVE \A in : Respond(in)' = Respond(in)
BY DEF Respond, NoFlash

(* The bytes of an access do not change in it. *)
LEMMA TransferIsAccess ==
  ASSUME flash_id' = flash_id, NEW cmd, NEW k, NEW e, NEW n,
         e = Respond(Prefix(cmd, k - 1)), n = Respond(Prefix(cmd, k))
  PROVE  \A r : /\ Transfer(cmd, k, r) <=> Access(Prefix(cmd, k - 1), cmd[k], e, n, r)
                /\ Transfer(cmd, k, r)' <=> Access(Prefix(cmd, k - 1), cmd[k], e, n, r)'
<1>. DEFINE s == Prefix(cmd, k - 1)
            b == cmd[k]
<1>1. Respond(s)' = e /\ Respond(Prefix(cmd, k))' = n
  BY SameAnswers
<1>2. Between(Respond(s))' <=> Between(e)'
  BY <1>1 DEF Between, Wire
<1>3. Between(Respond(Prefix(cmd, k)))' <=> Between(n)'
  BY <1>1 DEF Between, Wire
<1>4. Comes(Respond(s))' <=> Comes(e)'
  BY <1>1 DEF Comes
<1>5. Offers(Respond(s))' <=> Offers(e)'
  BY <1>1 DEF Offers, WireBit
<1>6. Bits(Respond(s))' = Bits(e)
  BY <1>1
<1>7. ASSUME NEW r PROVE Transfer(cmd, k, r)' <=> Access(s, b, e, n, r)'
  BY <1>2, <1>3, <1>4, <1>5, <1>6
     DEF Transfer, Access, Resting, Exchanging, Waiting, Shifting, Finishing, After, Exchanged
<1>. QED  BY <1>7 DEF Transfer

(* A clock within an access to a command stays in it.                      *)
LEMMA TransferGoesOn ==
  ASSUME EngineTypes, Chosen, spicfg \in SpiConfigs, flash_id \in FlashIds, flash_id' = flash_id,
         NEW cmd \in Seq(Byte), NEW k \in 1 .. Len(cmd), NEW r \in 0 .. 2, Transfer(cmd, k, r),
         \/ Computes(Respond(<<>>), Respond(dev_in))
         \/ regs.en /\ Requests(AccessOf(cmd, k, r), Respond(<<>>), Respond(dev_in))
  PROVE  Transfer(cmd, k, r)'
<1>. DEFINE s == Prefix(cmd, k - 1)
            b == cmd[k]
<1>1. PICK e \in Byte : e = Respond(s)
  BY AnswerType
<1>2. PICK n \in Byte : n = Respond(Prefix(cmd, k))
  BY AnswerType
<1>3. PICK x : x = Respond(dev_in)
  OBVIOUS
<1>4. PICK f : f = Respond(<<>>)
  OBVIOUS
<1>5. b \in Byte /\ Answers(s, b, e, n, x)
  BY <1>1, <1>2, <1>3, Answering
<1>6. /\ Transfer(cmd, k, r) <=> Access(s, b, e, n, r)
      /\ Transfer(cmd, k, r)' <=> Access(s, b, e, n, r)'
  BY <1>1, <1>2, TransferIsAccess
<1>. HIDE DEF s, b
<1>7. CASE Computes(f, x)
  BY <1>5, <1>6, <1>7, AccessComputes
<1>8. CASE regs.en /\ Requests(AccessOf(cmd, k, r), f, x)
  BY <1>5, <1>6, <1>8, AccessRequests DEF AccessOf, b
<1>. QED  BY <1>3, <1>4, <1>7, <1>8

(* After an access to a command comes the next one.                        *)
LEMMA TransferAcknowledged ==
  ASSUME EngineTypes, Chosen, spicfg \in SpiConfigs, flash_id \in FlashIds, flash_id' = flash_id,
         NEW cmd \in Seq(Byte), NEW k \in 1 .. Len(cmd), NEW r \in 0 .. 2, Transfer(cmd, k, r),
         Acknowledged(AccessOf(cmd, k, r), Respond(<<>>), Respond(dev_in))
  PROVE  /\ beat' = 0 /\ regs' = regs
         /\ r = 0 => Transfer(cmd, k, 1)'
         /\ r = 1 => IF spi_busy THEN Transfer(cmd, k, 1)' ELSE Transfer(cmd, k, 2)'
         /\ r = 2 => /\ rx_shiftreg = Bits(Respond(Prefix(cmd, k - 1)))
                     /\ AtRest' /\ sck' = regs'.pol
                     /\ k < Len(cmd) => Transfer(cmd, k + 1, 0)'
<1>. DEFINE s == Prefix(cmd, k - 1)
            b == cmd[k]
<1>1. PICK e \in Byte : e = Respond(s)
  BY AnswerType
<1>2. PICK n \in Byte : n = Respond(Prefix(cmd, k))
  BY AnswerType
<1>3. PICK x : x = Respond(dev_in)
  OBVIOUS
<1>4. PICK f : f = Respond(<<>>)
  OBVIOUS
<1>5. b \in Byte /\ Answers(s, b, e, n, x) /\ Prefix(cmd, k) = Append(s, Bits(b))
  BY <1>1, <1>2, <1>3, Answering
<1>6. \A q : /\ Transfer(cmd, k, q) <=> Access(s, b, e, n, q)
             /\ Transfer(cmd, k, q)' <=> Access(s, b, e, n, q)'
  BY <1>1, <1>2, TransferIsAccess
<1>7. Acknowledged(AccessOf(cmd, k, r), f, x)
  BY <1>3, <1>4
<1>8. AccessOf(cmd, k, r) = IF r = 0 THEN Data(b) ELSE IF r = 1 THEN Poll ELSE Read
  BY DEF AccessOf
<1>. HIDE DEF s, b
<1>9. PICK a : a = AccessOf(cmd, k, r)
  OBVIOUS
<1>10. Access(s, b, e, n, r)
  BY <1>6
<1>11. /\ beat' = 0 /\ regs' = regs /\ sent' = Append(s, Bits(b))
       /\ r = 0 => Access(s, b, e, n, 1)'
       /\ r = 1 => IF spi_busy THEN Access(s, b, e, n, 1)' ELSE Access(s, b, e, n, 2)'
       /\ r = 2 => Resting(Append(s, Bits(b)), n)' /\ rx_shiftreg = Bits(e)
  BY <1>5, <1>7, <1>8, <1>9, <1>10, AccessAcknowledged
<1>12. ASSUME r = 2, k < Len(cmd) PROVE Transfer(cmd, k + 1, 0)'
  <2>1. (k + 1) - 1 = k /\ k + 1 \in 1 .. Len(cmd)
    BY <1>12
  <2>2. Resting(Append(s, Bits(b)), n)'
    BY <1>11, <1>12
  <2>3. PICK m \in Byte : m = Respond(Prefix(cmd, k + 1))
    BY AnswerType
  <2>4. Access(Prefix(cmd, k), cmd[k + 1], n, m, 0)'
    BY <1>5, <1>11, <2>2 DEF Access
  <2>. QED  BY <1>2, <2>1, <2>3, <2>4, TransferIsAccess
<1>13. r = 2 => AtRest' /\ sck' = regs'.pol
  BY <1>11 DEF Resting
<1>. QED  BY <1>1, <1>6, <1>11, <1>12, <1>13 DEF s

-----------------------------------------------------------------------------
(* The other accesses.                                                     *)
LEMMA ToEnd == End \in Nat /\ End = 28 + 3 * ROOM /\ End > 30
BY DEF End

(* Without a write to its transmit register the idle controller stays so.  *)
LEMMA StaysAtRest ==
  ASSUME EngineTypes, AtRest, NEW f, NEW x, NEW a, a.reg # "tdata", SpiTick(a, f, x)
  PROVE  AtRest' /\ sck' = regs.pol
<1>1. (a.reg = "tdata") = FALSE
  OBVIOUS
<1>2. SpiClock(regs, FALSE, 0, Head(dev_out))
  BY <1>1 DEF SpiTick
<1>3. SpiIdle(regs, FALSE, 0)
  BY <1>2 DEF AtRest, SpiClock, SpiCount, SpiPost, SpiBit, SpiPre
<1>. QED  BY <1>3 DEF SpiIdle, AtRest

(* Selecting the memory: its first answer stands at its output. *)
LEMMA Selects ==
  ASSUME EngineTypes, AtRest, spicfg \in SpiConfigs, flash_id \in FlashIds, flash_id' = flash_id,
         regs.csmode = "disable", regs.acs = 0,
         NEW x, SpiTick(SetActive(1), Respond(<<>>), x)
  PROVE  dev_in' = <<>> /\ Between(Respond(<<>>))'
<1>1. /\ regs' = Written(SetActive(1)) /\ regs \in Regs
      /\ SlaveClock(Respond(<<>>), x)
  BY DEF SpiTick, Written, EngineTypes
<1>2. /\ regs'.acs = 1 /\ regs'.csmode = "disable"
      /\ regs'.pha = regs.pha /\ regs'.lsb = regs.lsb
  BY <1>1, FieldsWritten
<1>3. cs_o = 1 /\ cs(regs', core_cs') = 0
  BY <1>2 DEF cs_o, cs, Flip
<1>4. PICK e \in Byte : e = Respond(<<>>)
  BY AnswerType
<1>5. /\ dev_in' = <<>> /\ dev_bits' = <<>>
      /\ dev_out' = (IF regs.pha THEN <<Blank>> ELSE <<>>) \o Wire(e)
  BY <1>1, <1>3, <1>4 DEF SlaveClock
<1>6. Respond(<<>>)' = e /\ Wire(e)' = Wire(e)
  BY <1>2, <1>4, SameAnswers DEF Wire
<1>7. Wire(e) \in Seq(BitSet)
  BY WireFacts DEF EngineTypes, Regs
<1>8. \A w \in Seq(BitSet) : <<>> \o w = w
  BY ConcatEmptySeq
<1>9. dev_out' = IF regs.pha THEN <<Blank>> \o Wire(e) ELSE Wire(e)
  BY <1>5, <1>7, <1>8
<1>10. Between(e)'
  BY <1>2, <1>5, <1>6, <1>9 DEF Between
<1>11. Between(Respond(<<>>))' <=> Between(e)'
  BY <1>6 DEF Between, Wire
<1>. QED  BY <1>5, <1>10, <1>11

(* Where the commands are. *)
Commanded(base, cmd) == (base = 6 /\ cmd = IdCommand) \/ (base = 15 /\ cmd = ReadCommand)

(* The access of a command says which byte it is about.                    *)
LEMMA Counting ==
  ASSUME NEW base \in {6, 15}, NEW k \in Nat \ {0}, NEW r \in 0 .. 2
  PROVE  /\ ((base + 3 * k - 2 + r) - base - 1) \div 3 + 1 = k
         /\ ((base + 3 * k - 2 + r) - base - 1) % 3 = r
<1>1. (base + 3 * k - 2 + r) - base - 1 = 3 * (k - 1) + r
  OBVIOUS
<1>2. (3 * (k - 1) + r) \div 3 = k - 1 /\ (3 * (k - 1) + r) % 3 = r
  OBVIOUS
<1>. QED  BY <1>1, <1>2

(* Where the two commands are in flashboot.                                *)
LEMMA CommandFacts ==
  ASSUME NEW base, NEW cmd, Commanded(base, cmd)
  PROVE  /\ cmd \in Seq(Byte) /\ Len(cmd) \in Nat /\ base \in {6, 15}
         /\ Len(cmd) = IF base = 6 THEN 2 ELSE ROOM + 4
         /\ base + 3 * Len(cmd) + 1 = IF base = 6 THEN 13 ELSE End
<1>1. /\ cmd \in Seq(Byte) /\ base \in {6, 15} /\ Len(cmd) = IF base = 6 THEN 2 ELSE ROOM + 4
  BY Commands DEF Commanded
<1>. QED  BY <1>1, ToEnd

(* The accesses of a command are those of spi_transfer.                    *)
LEMMA InCommand ==
  ASSUME NEW base, NEW cmd, Commanded(base, cmd), NEW k \in 1 .. Len(cmd), NEW r \in 0 .. 2,
         NEW p, p = base + 3 * k - 2 + r
  PROVE  /\ flashboot[p] = AccessOf(cmd, k, r)
         /\ p \in 1 .. End + 5
         /\ base = 6 => p \in 7 .. 12
         /\ base = 15 => p \in 16 .. End - 1
         /\ fpos = p => (Session(base, cmd) <=> Transfer(cmd, k, r))
<1>1. /\ base \in {6, 15} /\ k \in Nat \ {0} /\ k <= (IF base = 6 THEN 2 ELSE ROOM + 4)
  BY CommandFacts
<1>2. /\ p \in Nat
      /\ base = 6 => p \in 7 .. 12
      /\ base = 15 => p \in 16 .. End - 1
  BY <1>1, ToEnd
<1>3. p \in 1 .. End + 5
  BY <1>1, <1>2, ToEnd
<1>4. flashboot[p] = AccessOf(cmd, k, r)
  <2>1. CASE base = 6
    <3>1. cmd = IdCommand /\ k \in 1 .. 2
      BY <1>1, <2>1 DEF Commanded
    <3>2. p = IF r = 0 THEN 3 * k + 4 ELSE IF r = 1 THEN 3 * k + 5 ELSE 3 * k + 6
      BY <1>1, <2>1
    <3>3. /\ flashboot[3 * k + 4] = Data(cmd[k])
          /\ flashboot[3 * k + 5] = Poll /\ flashboot[3 * k + 6] = Read
      BY <3>1, Plan
    <3>. QED  BY <3>2, <3>3 DEF AccessOf
  <2>2. CASE base = 15
    <3>1. cmd = ReadCommand /\ k \in 1 .. ROOM + 4
      BY <1>1, <2>2 DEF Commanded
    <3>2. p = IF r = 0 THEN 3 * k + 13 ELSE IF r = 1 THEN 3 * k + 14 ELSE 3 * k + 15
      BY <1>1, <2>2
    <3>3. /\ flashboot[3 * k + 13] = Data(cmd[k])
          /\ flashboot[3 * k + 14] = Poll /\ flashboot[3 * k + 15] = Read
      BY <3>1, Plan
    <3>. QED  BY <3>2, <3>3 DEF AccessOf
  <2>. QED  BY <1>1, <2>1, <2>2
<1>5. (p - base - 1) \div 3 + 1 = k /\ (p - base - 1) % 3 = r
  BY <1>1, Counting
<1>6. fpos = p => (Session(base, cmd) <=> Transfer(cmd, k, r))
  BY <1>5 DEF Session
<1>. QED  BY <1>2, <1>3, <1>4, <1>6

(* Every position is one of flashboot's own accesses, or one of a command. *)
Outside == {1, 2, 3, 4, 5, 6, 13, 14, 15, End, End + 1, End + 2, End + 3, End + 4, End + 5}

(* Every access is one of a command, or sets up the controller.            *)
LEMMA Where ==
  ASSUME NEW p \in 1 .. End + 5
  PROVE  \/ p \in Outside /\ p \notin 7 .. 12 /\ p \notin 16 .. End - 1
         \/ \E base, cmd : /\ Commanded(base, cmd)
                           /\ \E k \in 1 .. Len(cmd), r \in 0 .. 2 : p = base + 3 * k - 2 + r
<1>1. CASE p \in 7 .. 12
  <2>. DEFINE k == (p - 7) \div 3 + 1
              r == (p - 7) % 3
  <2>1. k \in 1 .. 2 /\ r \in 0 .. 2 /\ p = 6 + 3 * k - 2 + r
    BY <1>1
  <2>2. Commanded(6, IdCommand) /\ Len(IdCommand) = 2
    BY Commands DEF Commanded
  <2>. HIDE DEF k, r
  <2>. QED  BY <2>1, <2>2
<1>2. CASE p \in 16 .. End - 1
  <2>. DEFINE k == (p - 16) \div 3 + 1
              r == (p - 16) % 3
  <2>1. k \in 1 .. ROOM + 4 /\ r \in 0 .. 2 /\ p = 15 + 3 * k - 2 + r
    BY <1>2, ToEnd
  <2>2. Commanded(15, ReadCommand) /\ Len(ReadCommand) = ROOM + 4
    BY Commands DEF Commanded
  <2>. HIDE DEF k, r
  <2>. QED  BY <2>1, <2>2
<1>3. CASE p \notin 7 .. 12 /\ p \notin 16 .. End - 1
  BY <1>3, ToEnd DEF Outside
<1>. QED  BY <1>1, <1>2, <1>3

(* What an access outside the commands writes, once or twice. *)
LEMMA OutsideWrites ==
  ASSUME EngineTypes, spicfg \in SpiConfigs, fpos \in Outside, fpos # 14, beat \in {0, 1}, RegsFollow
  PROVE  /\ flashboot[fpos] \in AllAccesses /\ flashboot[fpos].reg \in {"busy", "set"}
         /\ Written(flashboot[fpos]) \in Regs
         /\ fpos < 4 \/ fpos >= End + 4 => Written(flashboot[fpos]).csmode = "auto"
         /\ fpos \in 4 .. End + 3 =>
              /\ Written(flashboot[fpos]).csmode = "disable"
              /\ Written(flashboot[fpos]).acs = 1 <=> fpos \in {6, 15}
         /\ fpos >= 3 => Written(flashboot[fpos]).en /\ Written(flashboot[fpos]).pol = spicfg.pol
<1>. DEFINE a == flashboot[fpos]
            w == Written(a)
<1>1. regs \in Regs /\ fpos \in 1 .. End + 5 /\ End \in Nat /\ End > 30 /\ begun \in {fpos - 1, fpos}
  BY ToEnd DEF EngineTypes, Outside, begun
<1>2. /\ regs.csmode \in {"auto", "disable"} /\ regs.acs \in {0, 1}
      /\ fpos < 4 => regs.csmode = "auto"
      /\ fpos \in 5 .. End + 3 => regs.csmode = "disable"
      /\ fpos \in {5, End + 1, End + 2, End + 3} => regs.acs = 0
      /\ fpos >= 4 => regs.en /\ regs.pol = spicfg.pol
  BY <1>1 DEF RegsFollow, Regs, Selected
<1>3. {0, 1} = {0} \union {1} /\ "auto" \in {"auto", "disable"} /\ "disable" \in {"auto", "disable"}
  OBVIOUS
<1>4. CASE fpos \in {1, End + 1}
  <2>1. a = Poll /\ w = regs
    BY <1>1, <1>4, Plan, RegsWritten
  <2>2. a \in AllAccesses /\ a.reg = "busy"
    BY <2>1 DEF AllAccesses, Poll
  <2>. HIDE DEF a, w
  <2>. QED  BY <1>1, <1>2, <1>4, <2>1, <2>2 DEF a, w
<1>5. CASE fpos \in {2, End + 2}
  <2>1. a = SetDiv
    <3>1. fpos = 1 + 1 \/ fpos = (End + 1) + 1
      BY <1>1, <1>5
    <3>2. flashboot[1 + 1] = SetDiv /\ flashboot[(End + 1) + 1] = SetDiv
      BY Plan
    <3>. QED  BY <3>1, <3>2
  <2>2. a \in AllAccesses /\ a.reg = "set"
    BY <2>1 DEF AllAccesses, SetDiv, Set
  <2>3. w \in Regs /\ w.csmode = regs.csmode /\ w.acs = regs.acs /\ w.en = regs.en /\ w.pol = regs.pol
    BY <1>1, <2>1, RegsWritten, FieldsWritten
  <2>. HIDE DEF a, w
  <2>. QED  BY <1>1, <1>2, <1>5, <2>2, <2>3 DEF a, w
<1>6. CASE fpos \in {3, End + 3}
  <2>1. a = SetMode
    <3>1. fpos = 1 + 2 \/ fpos = (End + 1) + 2
      BY <1>1, <1>6
    <3>2. flashboot[1 + 2] = SetMode /\ flashboot[(End + 1) + 2] = SetMode
      BY Plan
    <3>. QED  BY <3>1, <3>2
  <2>2. a \in AllAccesses /\ a.reg = "set"
    BY <2>1 DEF AllAccesses, SetMode, Set
  <2>3. w \in Regs /\ w.csmode = regs.csmode /\ w.acs = regs.acs /\ w.en /\ w.pol = spicfg.pol
    BY <1>1, <2>1, RegsWritten, FieldsWritten
  <2>. HIDE DEF a, w
  <2>. QED  BY <1>1, <1>2, <1>6, <2>2, <2>3 DEF a, w
<1>7. CASE fpos \in {5, End + 5}
  <2>1. a = SetDelays
    <3>1. fpos = 1 + 4 \/ fpos = (End + 1) + 4
      BY <1>1, <1>7
    <3>2. flashboot[1 + 4] = SetDelays /\ flashboot[(End + 1) + 4] = SetDelays
      BY Plan
    <3>. QED  BY <3>1, <3>2
  <2>2. a \in AllAccesses /\ a.reg = "set"
    BY <2>1 DEF AllAccesses, SetDelays, Set
  <2>3. w \in Regs /\ w.csmode = regs.csmode /\ w.acs = regs.acs /\ w.en = regs.en /\ w.pol = regs.pol
    BY <1>1, <2>1, RegsWritten, FieldsWritten
  <2>4. fpos = End + 5 => regs.csmode = "auto"
    BY <1>1 DEF RegsFollow
  <2>. HIDE DEF a, w
  <2>. QED  BY <1>1, <1>2, <1>7, <2>2, <2>3, <2>4 DEF a, w
<1>8. CASE fpos \in {4, End + 4}
  <2>1. \/ fpos = 4 /\ a = SetCs("disable", 0)
        \/ fpos = End + 4 /\ a = SetCs("auto", 1)
    BY <1>8, Plan
  <2>2. a \in AllAccesses /\ a.reg = "set"
    BY <2>1 DEF AllAccesses, SetCs, Set
  <2>3. /\ w \in Regs /\ w.en = regs.en /\ w.pol = regs.pol
        /\ IF fpos = 4 THEN w.csmode = "disable" /\ w.acs = 0 ELSE w.csmode = "auto"
    BY <1>1, <2>1, RegsWritten, FieldsWritten
  <2>. HIDE DEF a, w
  <2>. QED  BY <1>1, <1>2, <1>8, <2>2, <2>3 DEF a, w
<1>9. CASE fpos \in {6, 13, 15, End}
  <2>1. \/ fpos \in {6, 15} /\ a = SetActive(1)
        \/ fpos \in {13, End} /\ a = SetActive(0)
    BY <1>9, Plan
  <2>2. a \in AllAccesses /\ a.reg = "set"
    BY <2>1 DEF AllAccesses, SetActive, Set
  <2>3. /\ w \in Regs /\ w.en = regs.en /\ w.pol = regs.pol /\ w.csmode = regs.csmode
        /\ IF fpos \in {6, 15} THEN w.acs = 1 ELSE w.acs = 0
    BY <1>1, <2>1, RegsWritten, FieldsWritten
  <2>. HIDE DEF a, w
  <2>. QED  BY <1>1, <1>2, <1>9, <2>2, <2>3 DEF a, w
<1>. QED  BY <1>4, <1>5, <1>6, <1>7, <1>8, <1>9 DEF Outside

(* What has begun, and is in the registers, in the next state. *)
LEMMA RegsOutside ==
  ASSUME EngineTypes, spicfg \in SpiConfigs, fpos \in Outside, fpos # 14, beat \in {0, 1}, RegsFollow,
         regs' = Written(flashboot[fpos]), begun' = fpos, spicfg' = spicfg
  PROVE  RegsFollow'
<1>1. /\ fpos < 4 \/ fpos >= End + 4 => regs'.csmode = "auto"
      /\ fpos \in 4 .. End + 3 => regs'.csmode = "disable" /\ (regs'.acs = 1 <=> fpos \in {6, 15})
      /\ fpos >= 3 => regs'.en /\ regs'.pol = spicfg.pol
  BY OutsideWrites
<1>2. Selected' <=> fpos \in {6, 15}
  BY ToEnd DEF Selected, Outside
<1>. QED  BY <1>1, <1>2 DEF RegsFollow

(* While the memory is selected the registers do not change.               *)
LEMMA RegsInside ==
  ASSUME RegsFollow, spicfg' = spicfg, regs' = regs, Selected, Selected', begun \in Nat, begun' \in Nat
  PROVE  RegsFollow'
BY ToEnd DEF RegsFollow, Selected

-----------------------------------------------------------------------------
(* The place of the driver, clock by clock.                                *)
LEMMA SelectedInCommands ==
  ASSUME fpos \in 7 .. 12 \/ fpos \in 16 .. End - 1, beat \in {0, 1}, RegsFollow
  PROVE  Chosen /\ regs.en /\ Selected /\ begun \in Nat
<1>1. begun \in Nat /\ Selected /\ begun \in 4 .. End + 3
  BY ToEnd DEF begun, Selected
<1>. QED  BY <1>1 DEF RegsFollow, Chosen

(* Within a command, what the invariant says of the driver.                *)
LEMMA CommandPlace ==
  ASSUME NEW base, NEW cmd, Commanded(base, cmd), NEW k \in 1 .. Len(cmd), NEW r \in 0 .. 2,
         fpos = base + 3 * k - 2 + r, Place
  PROVE  /\ cmd \in Seq(Byte) /\ Len(cmd) \in Nat /\ base \in Nat
         /\ base + 3 * Len(cmd) + 1 = IF base = 6 THEN 13 ELSE End
         /\ fpos \in 7 .. 12 \/ fpos \in 16 .. End - 1
         /\ flashboot[fpos] = AccessOf(cmd, k, r) /\ Transfer(cmd, k, r)
<1>1. /\ cmd \in Seq(Byte) /\ Len(cmd) \in Nat /\ base \in Nat
      /\ base + 3 * Len(cmd) + 1 = IF base = 6 THEN 13 ELSE End
  BY CommandFacts
<1>2. /\ base = 6 => fpos \in 7 .. 12
      /\ base = 15 => fpos \in 16 .. End - 1
      /\ flashboot[fpos] = AccessOf(cmd, k, r)
      /\ Session(base, cmd) <=> Transfer(cmd, k, r)
  <2>1. PICK p : p = fpos
    OBVIOUS
  <2>2. p = base + 3 * k - 2 + r
    BY <2>1
  <2>3. /\ flashboot[p] = AccessOf(cmd, k, r)
        /\ base = 6 => p \in 7 .. 12
        /\ base = 15 => p \in 16 .. End - 1
        /\ fpos = p => (Session(base, cmd) <=> Transfer(cmd, k, r))
    BY <2>2, InCommand
  <2>. QED  BY <2>1, <2>3
<1>3. (base = 6 /\ cmd = IdCommand) \/ (base = 15 /\ cmd = ReadCommand)
  BY DEF Commanded
<1>4. Session(base, cmd)
  BY <1>1, <1>2, <1>3 DEF Place
<1>. QED  BY <1>1, <1>2, <1>3, <1>4

(* And what is to be shown of it there,                                    *)
LEMMA PlaceInCommand ==
  ASSUME NEW base, NEW cmd, Commanded(base, cmd), NEW k \in 1 .. Len(cmd), NEW r \in 0 .. 2,
         fpos' = base + 3 * k - 2 + r, beat' \in {0, 1}, Transfer(cmd, k, r)'
  PROVE  Place'
<1>1. /\ fpos' \in 1 .. End + 5
      /\ base = 6 => fpos' \in 7 .. 12
      /\ base = 15 => fpos' \in 16 .. End - 1
      /\ Session(base, cmd)'
  <2>1. PICK p : p = fpos'
    OBVIOUS
  <2>2. p = base + 3 * k - 2 + r
    BY <2>1
  <2>3. /\ p \in 1 .. End + 5
        /\ base = 6 => p \in 7 .. 12
        /\ base = 15 => p \in 16 .. End - 1
    <3>1. /\ base \in {6, 15} /\ k \in Nat \ {0}
          /\ k <= (IF base = 6 THEN 2 ELSE ROOM + 4)
      BY CommandFacts
    <3>. QED  BY <2>2, <3>1, ToEnd
  <2>4. (p - base - 1) \div 3 + 1 = k /\ (p - base - 1) % 3 = r
    <3>1. base \in {6, 15} /\ k \in Nat \ {0}
      BY CommandFacts
    <3>. QED  BY <2>2, <3>1, Counting
  <2>5. (fpos' - base - 1) \div 3 + 1 = k /\ (fpos' - base - 1) % 3 = r
    BY <2>1, <2>4
  <2>6. Session(base, cmd)'
    BY <2>5 DEF Session, Transfer, Access
  <2>. QED  BY <2>1, <2>3, <2>6
<1>2. (base = 6 /\ cmd = IdCommand) \/ (base = 15 /\ cmd = ReadCommand)
  BY DEF Commanded
<1>3. (fpos \in 7 .. 12 => Session(6, IdCommand))'
  BY <1>1, <1>2, ToEnd
<1>4. (fpos \in 16 .. End - 1 => Session(15, ReadCommand))'
  BY <1>1, <1>2, ToEnd
<1>5. AtRest' => sck' = regs'.pol
  BY DEF Transfer, Access, Resting, Exchanging, Waiting, Shifting, Finishing, After, Exchanged, AtRest
<1>6. fpos' \in 1 .. End + 6 /\ fpos' \notin {6, 14, 15, End + 6}
      /\ (fpos' \in 7 .. 12 \/ fpos' \in 16 .. End - 1)
  BY <1>1, <1>2, ToEnd
<1>. QED  BY <1>3, <1>4, <1>5, <1>6 DEF Place

(* and elsewhere.                                                          *)
LEMMA PlaceOutside ==
  ASSUME fpos' \in 1 .. End + 6, fpos' \notin 7 .. 12, fpos' \notin 16 .. End - 1, beat' \in {0, 1},
         fpos' \in {14, End + 6} => beat' = 0,
         AtRest', fpos' \in 4 .. End => sck' = regs'.pol,
         fpos' \in {6, 15} /\ beat' = 1 => Between(Respond(<<>>))' /\ dev_in' = <<>> /\ sent' = <<>>
  PROVE  Place'
BY DEF Place

(* A clock between the accesses.                                           *)
LEMMA ComputesStep ==
  ASSUME EngineTypes, spicfg \in SpiConfigs, flash_id \in FlashIds, Place, RegsFollow,
         Computes(Respond(<<>>), Respond(dev_in)), UNCHANGED <<fpos, spicfg, flash_id>>
  PROVE  EngineTypes' /\ Place' /\ RegsFollow'
<1>1. /\ fpos \in 1 .. End + 6 /\ beat = 0 /\ beat' = 0 /\ fpos' = fpos
      /\ regs \in Regs /\ SpiTick(None_, Respond(<<>>), Respond(dev_in))
  BY DEF Place, Computes, EngineTypes
<1>2. Written(None_) = regs
  BY <1>1, RegsWritten
<1>3. EngineTypes' /\ regs' = regs
  BY <1>1, <1>2, TickTypes
<1>4. RegsFollow'
  BY <1>1, <1>3 DEF RegsFollow, Selected, begun
<1>5. CASE fpos \in 7 .. 12 \/ fpos \in 16 .. End - 1
  <2>1. Chosen
    BY <1>1, <1>5, SelectedInCommands
  <2>2. fpos \in 1 .. End + 5
    BY <1>5, ToEnd
  <2>3. PICK base, cmd : /\ Commanded(base, cmd)
                         /\ \E k \in 1 .. Len(cmd), r \in 0 .. 2 : fpos = base + 3 * k - 2 + r
    BY <1>5, <2>2, Where
  <2>4. PICK k \in 1 .. Len(cmd), r \in 0 .. 2 : fpos = base + 3 * k - 2 + r
    BY <2>3
  <2>5. cmd \in Seq(Byte) /\ Transfer(cmd, k, r)
    BY <2>3, <2>4, CommandPlace
  <2>7. Transfer(cmd, k, r)'
    BY <2>1, <2>4, <2>5, TransferGoesOn
  <2>. QED  BY <1>1, <1>3, <1>4, <2>3, <2>4, <2>7, PlaceInCommand
<1>6. CASE fpos \notin 7 .. 12 /\ fpos \notin 16 .. End - 1
  <2>1. AtRest
    BY <1>6 DEF Place
  <2>2. AtRest' /\ sck' = regs.pol
    <3>1. None_.reg # "tdata"
      BY DEF None_
    <3>. QED  BY <1>1, <2>1, <3>1, StaysAtRest
  <2>. QED  BY <1>1, <1>3, <1>4, <1>6, <2>2, PlaceOutside
<1>. QED  BY <1>5, <1>6

(* A clock of an access within a command writes no settings.               *)
LEMMA TickInCommand ==
  ASSUME EngineTypes, spicfg \in SpiConfigs, flash_id \in FlashIds,
         NEW cmd \in Seq(Byte), NEW k \in 1 .. Len(cmd), NEW r \in 0 .. 2,
         SpiTick(AccessOf(cmd, k, r), Respond(<<>>), Respond(dev_in))
  PROVE  EngineTypes' /\ regs' = regs
<1>. DEFINE a == AccessOf(cmd, k, r)
<1>1. regs \in Regs /\ cmd[k] \in Byte
  BY DEF EngineTypes
<1>2. a \in {Poll, Read} \/ a = Data(cmd[k])
  BY DEF AccessOf
<1>. HIDE DEF a
<1>3. a \in AllAccesses
  BY <1>1, <1>2 DEF AllAccesses
<1>4. Written(a) = regs
  BY <1>1, <1>2, RegsWritten
<1>. QED  BY <1>1, <1>3, <1>4, TickTypes DEF a

(* A clock of an access elsewhere leaves the controller at rest.           *)
LEMMA TickOutside ==
  ASSUME EngineTypes, spicfg \in SpiConfigs, flash_id \in FlashIds,
         fpos \in Outside, fpos # 14, beat \in {0, 1}, RegsFollow, AtRest, fpos \in 4 .. End => sck = regs.pol,
         SpiTick(flashboot[fpos], Respond(<<>>), Respond(dev_in)), begun' = fpos, spicfg' = spicfg
  PROVE  /\ EngineTypes' /\ regs' = Written(flashboot[fpos]) /\ RegsFollow'
         /\ AtRest' /\ (fpos \in 3 .. End /\ fpos + beat > 3 => sck' = regs'.pol)
         /\ ~spi_busy
<1>. DEFINE a == flashboot[fpos]
<1>1. a \in AllAccesses /\ a.reg # "tdata" /\ Written(a) \in Regs
  BY OutsideWrites
<1>. HIDE DEF a
<1>2. EngineTypes' /\ regs' = Written(a)
  BY <1>1, TickTypes DEF a, AtRest
<1>3. RegsFollow'
  BY <1>2, RegsOutside DEF a
<1>4. AtRest' /\ sck' = regs.pol
  BY <1>1, StaysAtRest DEF a
<1>5. ASSUME fpos \in 3 .. End, fpos + beat > 3 PROVE sck' = regs'.pol
  <2>1. regs'.pol = spicfg.pol
    BY <1>2, <1>5, OutsideWrites DEF a
  <2>2. begun >= 3
    BY <1>5 DEF begun
  <2>3. regs.pol = spicfg.pol
    BY <2>2 DEF RegsFollow
  <2>. QED  BY <1>4, <2>1, <2>3
<1>. QED  BY <1>2, <1>3, <1>4, <1>5 DEF a, spi_busy, AtRest

(* The first clock of an access.                                           *)
LEMMA RequestsStep ==
  ASSUME EngineTypes, spicfg \in SpiConfigs, flash_id \in FlashIds, Place, RegsFollow,
         fpos \in 1 .. End + 5, fpos # 14,
         Requests(flashboot[fpos], Respond(<<>>), Respond(dev_in)), UNCHANGED <<fpos, spicfg, flash_id>>
  PROVE  EngineTypes' /\ Place' /\ RegsFollow'
<1>1. /\ beat = 0 /\ beat' = 1 /\ fpos' = fpos /\ begun' = fpos
      /\ SpiTick(flashboot[fpos], Respond(<<>>), Respond(dev_in))
  BY DEF Requests, begun
<1>2. ASSUME NEW base, NEW cmd, Commanded(base, cmd), NEW k \in 1 .. Len(cmd), NEW r \in 0 .. 2,
             fpos = base + 3 * k - 2 + r
      PROVE  EngineTypes' /\ Place' /\ RegsFollow'
  <2>1. /\ cmd \in Seq(Byte) /\ Transfer(cmd, k, r) /\ flashboot[fpos] = AccessOf(cmd, k, r)
        /\ fpos \in 7 .. 12 \/ fpos \in 16 .. End - 1
    BY <1>2, CommandPlace
  <2>2. Chosen /\ regs.en /\ Selected /\ begun \in Nat
    BY <1>1, <2>1, SelectedInCommands
  <2>3. EngineTypes' /\ regs' = regs
    BY <1>1, <2>1, TickInCommand
  <2>4. Transfer(cmd, k, r)'
    BY <2>1, <2>2, TransferGoesOn
  <2>5. Place'
    BY <1>1, <1>2, <2>4, PlaceInCommand
  <2>6. Selected' /\ begun' \in Nat
    BY <1>1, <2>1, ToEnd DEF Selected
  <2>. QED  BY <2>2, <2>3, <2>5, <2>6, RegsInside
<1>3. CASE fpos \in Outside /\ fpos \notin 7 .. 12 /\ fpos \notin 16 .. End - 1
  <2>1. AtRest /\ (fpos \in 4 .. End => sck = regs.pol)
    BY <1>3 DEF Place
  <2>2. /\ EngineTypes' /\ regs' = Written(flashboot[fpos]) /\ RegsFollow'
        /\ AtRest' /\ (fpos \in 4 .. End => sck' = regs'.pol)
    BY <1>1, <1>3, <2>1, TickOutside
  <2>3. ASSUME fpos \in {6, 15} PROVE dev_in' = <<>> /\ Between(Respond(<<>>))' /\ sent' = <<>>
    <3>1. flashboot[fpos] = SetActive(1)
      BY <2>3, Plan
    <3>2. regs.csmode = "disable" /\ regs.acs = 0
      <4>1. begun \in {5, 14} /\ begun \in 4 .. End + 3
        BY <1>1, <2>3, ToEnd DEF begun
      <4>2. regs.csmode = "disable" /\ regs.acs # 1 /\ regs.acs \in {0, 1}
        BY <4>1 DEF RegsFollow, Selected, EngineTypes, Regs
      <4>. QED  BY <4>2
    <3>3. PICK x : x = Respond(dev_in)
      OBVIOUS
    <3>4. dev_in' = <<>> /\ Between(Respond(<<>>))'
      BY <1>1, <2>1, <3>1, <3>2, <3>3, Selects
    <3>5. sent' = <<>>
      BY <3>1 DEF Requests, SetActive, Set
    <3>. QED  BY <3>4, <3>5
  <2>4. fpos' \in 1 .. End + 6 /\ fpos' \notin {14, End + 6}
    BY <1>1, ToEnd
  <2>. QED  BY <1>1, <1>3, <2>2, <2>3, <2>4, PlaceOutside
<1>. QED  BY <1>2, <1>3, Where

(* The memory is selected, and the first byte has not been written. *)
LEMMA CommandStarts ==
  ASSUME EngineTypes, Chosen, spicfg \in SpiConfigs, flash_id \in FlashIds, flash_id' = flash_id,
         NEW base, NEW cmd, Commanded(base, cmd), regs' = regs,
         NEW f, SpiTick(SetActive(1), f, Respond(dev_in)), beat' = 0,
         AtRest, sck = regs.pol, Between(Respond(<<>>)), dev_in = <<>>, sent = <<>>, sent' = sent
  PROVE  Transfer(cmd, 1, 0)'
<1>1. /\ cmd \in Seq(Byte) /\ 1 \in 1 .. Len(cmd) /\ Prefix(cmd, 1 - 1) = <<>>
      /\ cmd[1] \in Byte /\ Prefix(cmd, 1) = Append(<<>>, Bits(cmd[1]))
  <2>1. cmd \in Seq(Byte) /\ 1 \in 1 .. Len(cmd)
    BY CommandFacts
  <2>2. Prefix(cmd, 0) = <<>> /\ 1 - 1 = 0
    BY <2>1, PrefixFacts
  <2>3. cmd[1] \in Byte /\ Prefix(cmd, 1) = Append(Prefix(cmd, 1 - 1), Bits(cmd[1]))
    BY <2>1, PrefixFacts
  <2>. QED  BY <2>1, <2>2, <2>3
<1>2. PICK e \in Byte : e = Respond(<<>>)
  BY AnswerType
<1>3. PICK n \in Byte : n = Respond(Prefix(cmd, 1))
  BY AnswerType
<1>4. PICK x : x = Respond(dev_in)
  OBVIOUS
<1>5. Answers(<<>>, cmd[1], e, n, x)
  BY <1>1, <1>2, <1>3, <1>4 DEF Answers
<1>6. Resting(<<>>, e)
  BY <1>2 DEF Resting
<1>7. SlaveClock(f, x) /\ SpiClock(regs, FALSE, 0, Head(dev_out))
  <2>1. (SetActive(1).reg = "tdata") = FALSE
    BY DEF SetActive, Set
  <2>. QED  BY <1>4, <2>1 DEF SpiTick
<1>8. Resting(<<>>, e)'
  BY <1>1, <1>5, <1>6, <1>7, QuietClock
<1>9. Access(<<>>, cmd[1], e, n, 0)'
  BY <1>8 DEF Access
<1>10. e = Respond(Prefix(cmd, 1 - 1))
  BY <1>1, <1>2
<1>. QED  BY <1>1, <1>3, <1>9, <1>10, TransferIsAccess

(* The second clock of an access, and the step to the next one.            *)
LEMMA AcknowledgedStep ==
  ASSUME EngineTypes, spicfg \in SpiConfigs, flash_id \in FlashIds, Place, RegsFollow,
         fpos \in 1 .. End + 5, fpos # 14,
         Acknowledged(flashboot[fpos], Respond(<<>>), Respond(dev_in)), UNCHANGED <<spicfg, flash_id>>,
         fpos' = IF flashboot[fpos] = Poll /\ spi_busy THEN fpos ELSE fpos + 1
  PROVE  EngineTypes' /\ Place' /\ RegsFollow'
<1>1. /\ beat = 1 /\ beat' = 0 /\ begun = fpos /\ sent' = sent
      /\ SpiTick(flashboot[fpos], Respond(<<>>), Respond(dev_in))
  BY DEF Acknowledged, begun
<1>2. ASSUME NEW base, NEW cmd, Commanded(base, cmd), NEW k \in 1 .. Len(cmd), NEW r \in 0 .. 2,
             fpos = base + 3 * k - 2 + r
      PROVE  EngineTypes' /\ Place' /\ RegsFollow'
  <2>1. /\ cmd \in Seq(Byte) /\ Transfer(cmd, k, r) /\ flashboot[fpos] = AccessOf(cmd, k, r)
        /\ fpos \in 7 .. 12 \/ fpos \in 16 .. End - 1
    BY <1>2, CommandPlace
  <2>2. Chosen /\ regs.en /\ Selected /\ begun \in Nat
    BY <1>1, <2>1, SelectedInCommands
  <2>3. EngineTypes' /\ regs' = regs
    BY <1>1, <2>1, TickInCommand
  <2>4. /\ r = 0 => Transfer(cmd, k, 1)'
        /\ r = 1 => IF spi_busy THEN Transfer(cmd, k, 1)' ELSE Transfer(cmd, k, 2)'
        /\ r = 2 => /\ AtRest' /\ sck' = regs'.pol
                    /\ k < Len(cmd) => Transfer(cmd, k + 1, 0)'
    BY <2>1, <2>2, TransferAcknowledged
  <2>5. /\ base \in {6, 15} /\ Len(cmd) \in Nat /\ base + 3 * Len(cmd) + 1 = IF base = 6 THEN 13 ELSE End
    BY <1>2, CommandFacts
  <2>6. fpos' = IF r = 1 /\ spi_busy THEN fpos ELSE fpos + 1
    BY <2>1 DEF AccessOf, Data, Poll, Read
  <2>7. begun' = fpos' - 1
    BY <1>1, <1>2, <2>5, <2>6 DEF begun
  <2>8. RegsFollow'
    <3>1. begun' \in {fpos - 1, fpos}
      BY <1>2, <2>5, <2>6, <2>7
    <3>2. Selected' /\ begun' \in Nat
      BY <2>1, <3>1, ToEnd DEF Selected
    <3>. QED  BY <2>2, <2>3, <3>2, RegsInside
  <2>9. Place'
    <3>1. CASE r = 0
      <4>1. fpos' = base + 3 * k - 2 + 1
        BY <1>2, <2>5, <2>6, <3>1
      <4>. QED  BY <1>1, <1>2, <2>4, <3>1, <4>1, PlaceInCommand
    <3>2. CASE r = 1 /\ spi_busy
      <4>1. fpos' = base + 3 * k - 2 + 1
        BY <1>2, <2>5, <2>6, <3>2
      <4>. QED  BY <1>1, <1>2, <2>4, <3>2, <4>1, PlaceInCommand
    <3>3. CASE r = 1 /\ ~spi_busy
      <4>1. fpos' = base + 3 * k - 2 + 2
        BY <1>2, <2>5, <2>6, <3>3
      <4>. QED  BY <1>1, <1>2, <2>4, <3>3, <4>1, PlaceInCommand
    <3>4. CASE r = 2 /\ k < Len(cmd)
      <4>1. fpos' = base + 3 * (k + 1) - 2 + 0 /\ k + 1 \in 1 .. Len(cmd)
        BY <1>2, <2>5, <2>6, <3>4
      <4>. QED  BY <1>1, <1>2, <2>4, <3>4, <4>1, PlaceInCommand
    <3>5. CASE r = 2 /\ k = Len(cmd)
      <4>1. fpos' = IF base = 6 THEN 13 ELSE End
        BY <1>2, <2>5, <2>6, <3>5
      <4>2. /\ fpos' \in 1 .. End + 6 /\ fpos' \notin 7 .. 12 /\ fpos' \notin 16 .. End - 1
            /\ fpos' \notin {6, 15, 14, End + 6}
        BY <4>1, ToEnd
      <4>. QED  BY <1>1, <2>4, <3>5, <4>2, PlaceOutside
    <3>. QED  BY <2>5, <3>1, <3>2, <3>3, <3>4, <3>5
  <2>. QED  BY <2>3, <2>8, <2>9
<1>3. CASE fpos \in Outside /\ fpos \notin 7 .. 12 /\ fpos \notin 16 .. End - 1
  <2>1. AtRest /\ (fpos \in 4 .. End => sck = regs.pol)
    BY <1>3 DEF Place
  <2>2. fpos' = fpos + 1 /\ begun' = fpos
    <3>1. ~spi_busy
      BY <2>1 DEF spi_busy, AtRest
    <3>2. fpos' = fpos + 1
      BY <3>1
    <3>. QED  BY <1>1, <3>2, ToEnd DEF begun
  <2>3. /\ EngineTypes' /\ regs' = Written(flashboot[fpos]) /\ RegsFollow'
        /\ AtRest' /\ (fpos \in 3 .. End => sck' = regs'.pol)
    BY <1>1, <1>3, <2>1, <2>2, TickOutside
  <2>4. ASSUME fpos \in {6, 15} PROVE Place'
    <3>1. flashboot[fpos] = SetActive(1)
      BY <2>4, Plan
    <3>2. Chosen /\ regs \in Regs /\ regs.acs = 1
      <4>1. begun \in 4 .. End + 3 /\ Selected
        BY <1>1, <2>4, ToEnd DEF Selected
      <4>. QED  BY <4>1 DEF RegsFollow, EngineTypes, Chosen
    <3>3. regs' = regs
      BY <2>3, <3>1, <3>2, FieldsWritten
    <3>4. Between(Respond(<<>>)) /\ dev_in = <<>> /\ sent = <<>> /\ sck = regs.pol
      BY <1>1, <2>1, <2>4, ToEnd DEF Place
    <3>5. PICK cmd : Commanded(fpos, cmd)
      BY <2>4 DEF Commanded
    <3>6. PICK f : f = Respond(<<>>)
      OBVIOUS
    <3>7. Transfer(cmd, 1, 0)'
      BY <1>1, <2>1, <3>1, <3>2, <3>3, <3>4, <3>5, <3>6, CommandStarts
    <3>8. PICK base : base = fpos
      OBVIOUS
    <3>9. Commanded(base, cmd) /\ 1 \in 1 .. Len(cmd) /\ fpos' = base + 3 * 1 - 2 + 0
      <4>1. Commanded(base, cmd)
        BY <3>5, <3>8
      <4>2. 1 \in 1 .. Len(cmd)
        BY <4>1, CommandFacts
      <4>. QED  BY <2>2, <2>4, <3>8, <4>1, <4>2
    <3>. QED  BY <1>1, <3>7, <3>9, PlaceInCommand
  <2>5. ASSUME fpos \notin {6, 15} PROVE Place'
    <3>1. /\ fpos' \in 1 .. End + 6 /\ fpos' \notin 7 .. 12 /\ fpos' \notin 16 .. End - 1
          /\ fpos' \in 4 .. End => fpos \in 3 .. End
      BY <1>3, <2>2, <2>5, ToEnd DEF Outside
    <3>. QED  BY <1>1, <2>3, <3>1, PlaceOutside
  <2>. QED  BY <2>3, <2>4, <2>5
<1>. QED  BY <1>2, <1>3, Where

-----------------------------------------------------------------------------
(* What flashboot has read and copied.                                     *)
LEMMA ByteRead ==
  ASSUME NEW e \in Byte PROVE Value(Bits(e)) = e
<1>1. 1 \in 1 .. WIDTH /\ \A i \in 1 .. WIDTH : Bits(e)[i] = <<e, i>>
  BY ByteBits
<1>2. IsByte(Bits(e)) /\ ByteOf(Bits(e)) = e
  BY <1>1 DEF IsByte, ByteOf
<1>. QED  BY <1>2 DEF Value

(* An access reads a byte when it is the last of spi_transfer,             *)
LEMMA BytesInCommand ==
  ASSUME NEW base, NEW cmd, Commanded(base, cmd), NEW k \in 1 .. Len(cmd), NEW r \in 0 .. 2,
         NEW p, p = base + 3 * k - 2 + r
  PROVE  /\ Bytes(p) = IF base = 6 THEN k - 1 ELSE k + 1
         /\ Bytes(p + 1) = IF r = 2 THEN Bytes(p) + 1 ELSE Bytes(p)
<1>1. /\ base \in {6, 15} /\ k \in Nat \ {0}
      /\ k <= (IF base = 6 THEN 2 ELSE ROOM + 4)
  BY CommandFacts
<1>2. CASE base = 6
  <2>1. /\ k = 1 => p \in 7 .. 9 /\ (r = 2 <=> p = 9)
        /\ k = 2 => p \in 10 .. 12 /\ (r = 2 <=> p = 12)
        /\ k \in {1, 2}
    BY <1>1, <1>2
  <2>. QED  BY <1>2, <2>1, ToEnd DEF Bytes
<1>3. CASE base = 15
  <2>1. p - 16 = 3 * (k - 1) + r /\ p \in 16 .. End - 1 /\ p + 1 \in 16 .. End
    BY <1>1, <1>3, ToEnd
  <2>2. (p - 16) \div 3 = k - 1
    <3>1. (3 * (k - 1) + r) \div 3 = k - 1
      BY <1>1
    <3>. QED  BY <2>1, <3>1
  <2>3. ((p + 1) - 16) \div 3 = IF r = 2 THEN k ELSE k - 1
    <3>1. (p + 1) - 16 = 3 * (k - 1) + (r + 1)
      BY <1>1, <2>1
    <3>2. (3 * (k - 1) + (r + 1)) \div 3 = IF r = 2 THEN k ELSE k - 1
      BY <1>1
    <3>. QED  BY <3>1, <3>2
  <2>4. Bytes(p) = 2 + (p - 16) \div 3 /\ Bytes(p + 1) = 2 + ((p + 1) - 16) \div 3
    <3>1. p \in Int /\ p > 15 /\ p <= End /\ p + 1 > 15 /\ p + 1 <= End
      BY <2>1, ToEnd
    <3>. QED  BY <3>1 DEF Bytes
  <2>. QED  BY <1>1, <1>3, <2>2, <2>3, <2>4
<1>. QED  BY <1>1, <1>2, <1>3

(* and only then.                                                          *)
LEMMA BytesOutside ==
  ASSUME NEW p \in Outside
  PROVE  Bytes(p + 1) = Bytes(p)
<1>1. CASE p \in {1, 2, 3, 4, 5, 6, 13, 14}
  BY <1>1 DEF Bytes
<1>2. CASE p = 15
  BY <1>2, ToEnd DEF Bytes
<1>3. CASE p = End
  <2>1. (End - 16) \div 3 = ROOM + 4
    <3>1. End - 16 = 3 * (ROOM + 4)
      BY ToEnd
    <3>2. (3 * (ROOM + 4)) \div 3 = ROOM + 4
      OBVIOUS
    <3>. QED  BY <3>1, <3>2
  <2>. QED  BY <1>3, <2>1, ToEnd DEF Bytes
<1>4. CASE p \in {End + 1, End + 2, End + 3, End + 4, End + 5}
  <2>1. p \in Nat /\ p > End /\ p + 1 > End /\ End > 30
    BY <1>4, ToEnd
  <2>. QED  BY <2>1, ToEnd DEF Bytes
<1>. QED  BY <1>1, <1>2, <1>3, <1>4 DEF Outside

(* Nothing is read. *)
LEMMA CopiedKept ==
  ASSUME Copied, UNCHANGED <<fgot, mem, flash_id>>, Bytes(fpos') = Bytes(fpos),
         fpos' >= 15 => Usable(flash_id)
  PROVE  Copied'
BY DEF Copied, Usable

(* Each byte that is read is the next one of the image.                    *)
LEMMA CopiedStep ==
  ASSUME EngineTypes, spicfg \in SpiConfigs, flash_id \in FlashIds, Place, RegsFollow, Copied,
         mem \in [0 .. ROOM - 1 -> Byte], fpos \in 1 .. End + 5, fpos # 14,
         Acknowledged(flashboot[fpos], Respond(<<>>), Respond(dev_in)), UNCHANGED <<spicfg, flash_id>>,
         fpos' = IF flashboot[fpos] = Poll /\ spi_busy THEN fpos ELSE fpos + 1,
         IF flashboot[fpos] = Read
         THEN /\ fgot' = Append(fgot, Value(rx_shiftreg))
              /\ mem' = IF Len(fgot) < Before THEN mem
                        ELSE [mem EXCEPT ![Len(fgot) - Before] = Value(rx_shiftreg)]
         ELSE UNCHANGED <<fgot, mem>>
  PROVE  Copied' /\ mem' \in [0 .. ROOM - 1 -> Byte]
<1>0. beat = 1
  BY DEF Acknowledged
<1>1. CASE fpos \in Outside /\ fpos \notin 7 .. 12 /\ fpos \notin 16 .. End - 1
  <2>1. flashboot[fpos] # Read
    <3>1. flashboot[fpos].reg \in {"busy", "set"}
      BY <1>0, <1>1, OutsideWrites
    <3>. QED  BY <3>1 DEF Read
  <2>2. ~spi_busy
    BY <1>1 DEF Place, AtRest, spi_busy
  <2>3. fpos' = fpos + 1 /\ UNCHANGED <<fgot, mem>>
    BY <2>1, <2>2
  <2>4. Bytes(fpos') = Bytes(fpos)
    BY <1>1, <2>3, BytesOutside
  <2>5. fpos' >= 15 => Usable(flash_id)
    BY <2>3 DEF Copied
  <2>. QED  BY <2>3, <2>4, <2>5, CopiedKept
<1>2. ASSUME NEW base, NEW cmd, Commanded(base, cmd), NEW k \in 1 .. Len(cmd), NEW r \in 0 .. 2,
             fpos = base + 3 * k - 2 + r
      PROVE  Copied' /\ mem' \in [0 .. ROOM - 1 -> Byte]
  <2>1. /\ cmd \in Seq(Byte) /\ Transfer(cmd, k, r) /\ flashboot[fpos] = AccessOf(cmd, k, r)
        /\ fpos \in 7 .. 12 \/ fpos \in 16 .. End - 1
    BY <1>2, CommandPlace
  <2>2. Chosen
    BY <1>0, <2>1, SelectedInCommands
  <2>3. /\ base \in {6, 15} /\ k \in Nat \ {0}
        /\ k <= (IF base = 6 THEN 2 ELSE ROOM + 4)
        /\ base = 6 => fpos <= 12
        /\ base = 15 => fpos >= 16
    <3>1. /\ base \in {6, 15} /\ k \in Nat \ {0}
          /\ k <= (IF base = 6 THEN 2 ELSE ROOM + 4)
      BY <1>2, CommandFacts
    <3>. QED  BY <1>2, <3>1
  <2>4. PICK p : p = fpos
    OBVIOUS
  <2>5. /\ Bytes(p) = IF base = 6 THEN k - 1 ELSE k + 1
        /\ Bytes(p + 1) = IF r = 2 THEN Bytes(p) + 1 ELSE Bytes(p)
    BY <1>2, <2>4, BytesInCommand
  <2>6. CASE r # 2
    <3>1. flashboot[fpos] # Read
      BY <2>1, <2>6 DEF AccessOf, Data, Poll, Read
    <3>2. UNCHANGED <<fgot, mem>> /\ fpos' \in {fpos, fpos + 1}
      BY <3>1
    <3>3. Bytes(fpos') = Bytes(fpos)
      BY <2>4, <2>5, <2>6, <3>2
    <3>4. fpos' >= 15 => Usable(flash_id)
      BY <2>3, <3>2 DEF Copied
    <3>. QED  BY <3>2, <3>3, <3>4, CopiedKept
  <2>7. CASE r = 2
    <3>1. PICK e \in Byte : e = Respond(Prefix(cmd, k - 1))
      BY AnswerType
    <3>2. rx_shiftreg = Bits(e)
      BY <2>1, <2>2, <2>7, <3>1, TransferAcknowledged
    <3>3. flashboot[fpos] = Read /\ fpos' = fpos + 1 /\ Value(rx_shiftreg) = e
      BY <2>1, <2>7, <3>2, ByteRead DEF AccessOf, Poll, Read
    <3>. DEFINE n == Len(fgot)
    <3>4. /\ fgot \in Seq(Byte) /\ n = (IF base = 6 THEN k - 1 ELSE k + 1) /\ n \in Nat
          /\ Bytes(fpos) = n /\ Bytes(fpos') = n + 1
      BY <2>3, <2>4, <2>5, <2>7, <3>3 DEF Copied
    <3>. HIDE DEF n
    <3>5. /\ fgot' = Append(fgot, e) /\ fgot' \in Seq(Byte) /\ Len(fgot') = n + 1
          /\ \A i \in 1 .. n : fgot'[i] = fgot[i]
          /\ fgot'[n + 1] = e
      <4>1. fgot' = Append(fgot, e)
        BY <3>3
      <4>. QED  BY <3>4, <4>1 DEF n
    <3>6. (fpos >= 15 => Usable(flash_id))'
      <4>1. fpos' >= 15 => Usable(flash_id)
        BY <2>3, <3>3 DEF Copied
      <4>. QED  BY <4>1 DEF Usable
    <3>7. Len(fgot') >= 2 => fgot'[2] = flash_id
      <4>1. CASE n >= 2
        <5>1. fgot[2] = flash_id /\ 2 \in 1 .. n
          BY <3>4, <4>1 DEF Copied, n
        <5>. QED  BY <3>5, <5>1
      <4>2. CASE n = 1
        <5>5. n = IF base = 6 THEN k - 1 ELSE k + 1
          BY <3>4
        <5>1. base = 6 /\ k = 2
          BY <2>3, <4>2, <5>5
        <5>2. cmd = IdCommand
          BY <1>2, <5>1 DEF Commanded
        <5>3. e = flash_id
          BY <3>1, <5>1, <5>2, IdAnswer
        <5>4. fgot'[1 + 1] = e
          BY <3>5, <4>2
        <5>. QED  BY <5>3, <5>4
      <4>. QED  BY <3>4, <3>5, <4>1, <4>2
    <3>8. CASE n < 6
      <4>1. mem' = mem
        BY <3>3, <3>8 DEF Before, n
      <4>2. \A i \in 0 .. ROOM - 1 : ~(i < Bytes(fpos') - 6)
        BY <3>4, <3>8
      <4>. QED  BY <3>5, <3>4, <3>6, <3>7, <4>1, <4>2 DEF Copied
    <3>9. CASE n >= 6
      <4>1. base = 15 /\ k \in 5 .. ROOM + 4 /\ n - 6 = k - 5 /\ k - 5 \in 0 .. ROOM - 1
        BY <2>3, <3>4, <3>9
      <4>2. cmd = ReadCommand /\ Usable(flash_id)
        BY <1>2, <2>3, <4>1 DEF Commanded, Copied
      <4>3. e = FlashImage[k - 5]
        BY <3>1, <4>1, <4>2, ImageAnswer
      <4>4. mem' = [mem EXCEPT ![k - 5] = e]
        BY <3>3, <3>4, <3>9, <4>1 DEF Before, n
      <4>5. mem' \in [0 .. ROOM - 1 -> Byte]
        BY <4>1, <4>4
      <4>6. \A i \in 0 .. ROOM - 1 : i < Bytes(fpos') - 6 => mem'[i] = FlashImage[i]
        <5>1. \A i \in 0 .. ROOM - 1 : i < n - 6 => mem[i] = FlashImage[i]
          BY <3>4 DEF Copied
        <5>2. ASSUME NEW i \in 0 .. ROOM - 1, i < Bytes(fpos') - 6
              PROVE  mem'[i] = FlashImage[i]
          <6>1. i < n - 6 \/ i = k - 5
            BY <3>4, <4>1, <5>2
          <6>2. mem'[i] = IF i = k - 5 THEN e ELSE mem[i]
            BY <4>1, <4>4
          <6>. QED  BY <4>3, <5>1, <6>1, <6>2
        <5>. QED  BY <5>2
      <4>. QED  BY <3>5, <3>4, <3>6, <3>7, <4>5, <4>6 DEF Copied
    <3>. QED  BY <3>4, <3>8, <3>9
  <2>. QED  BY <2>6, <2>7
<1>. QED  BY <1>1, <1>2, Where

-----------------------------------------------------------------------------
(* The invariant.                                                          *)
LEMMA FlashInvInit ==
  ASSUME BootInit PROVE FlashInv
<1>1. /\ Init /\ SpiInit /\ bpc = "start" /\ spicfg \in SpiConfigs /\ flash_id \in FlashIds
      /\ fpos = 1 /\ fgot = <<>> /\ beat = 0
  BY DEF BootInit, SpiInit
<1>2. regs = Reset /\ Reset \in Regs /\ Reset.csmode = "auto" /\ Reset.sckdiv = 1
  BY <1>1 DEF SpiInit, Reset, Regs
<1>3. EngineTypes
  <2>1. Bits(0) \in Word
    BY ByteBits DEF Byte
  <2>2. <<Blank>> \in Seq(BitSet) /\ <<Blank>> # <<>>
    BY BlankBit
  <2>. QED  BY <1>1, <1>2, <2>1, <2>2 DEF EngineTypes, SpiInit, SpiCoreInit
<1>4. AtRest /\ RegsFollow
  <2>1. AtRest
    BY <1>1 DEF AtRest, SpiInit, SpiCoreInit
  <2>2. begun = 0
    BY <1>1 DEF begun
  <2>. QED  BY <1>2, <2>1, <2>2, ToEnd DEF RegsFollow
<1>5. TypeOK
  <2>1. /\ rpc = "flush" /\ pings = 0 /\ packetnum = 0 /\ pkt = <<>> /\ index = 0 /\ failed = 0
        /\ mem = [i \in 0 .. ROOM - 1 |-> 0] /\ file \in Seq(0 .. 255)
        /\ toBoard \in Seq(0 .. 255) /\ toHost = <<>>
    BY <1>1 DEF Init
  <2>2. mem \in [0 .. ROOM - 1 -> Byte]
    BY <2>1 DEF Byte
  <2>3. pkt \in Seq(Byte) /\ Len(pkt) <= 4
    BY <2>1
  <2>4. index \in 0 .. Len(file) /\ failed \in 0 .. MaxFailed + 1 /\ pings \in 0 .. MaxPings
        /\ packetnum \in 0 .. ROOM
    BY <2>1
  <2>5. \A i \in DOMAIN toBoard : toBoard[i] \in Byte
    <3>1. toBoard \in Seq(Byte)
      BY <2>1 DEF Byte
    <3>. QED  BY <3>1
  <2>6. \A i \in DOMAIN toHost : toHost[i] \in Byte
    BY <2>1
  <2>. QED  BY <2>1, <2>2, <2>3, <2>4, <2>5, <2>6 DEF TypeOK
<1>. QED  BY <1>1, <1>3, <1>4, <1>5, ToEnd DEF FlashInv, Started

(* Nothing of the controller and of the memory moves. *)
LEMMA EngineKept ==
  ASSUME UNCHANGED <<spiVars, spicfg, flash_id, fpos>>
  PROVE  /\ EngineTypes => EngineTypes'
         /\ RegsFollow => RegsFollow'
         /\ AtRest' = AtRest /\ regs' = regs /\ beat' = beat /\ sck' = sck
<1>. USE DEF spiVars, spiCore, slave
<1>1. EngineTypes => EngineTypes'
  BY DEF EngineTypes
<1>2. begun' = begun /\ Selected' = Selected
  BY DEF begun, Selected
<1>3. RegsFollow => RegsFollow'
  BY <1>2 DEF RegsFollow
<1>. QED  BY <1>1, <1>3 DEF AtRest

(* The place of the driver depends on nothing else.                        *)
LEMMA PlaceKept ==
  ASSUME UNCHANGED <<spiVars, spicfg, flash_id, fpos>>, Place
  PROVE  Place'
<1>1. /\ UNCHANGED <<spi_state, divcnt, bits_remaining, tx_shiftreg, rx_shiftreg, delay_ctr, sck, core_cs>>
      /\ UNCHANGED <<regs, beat, dev_in, dev_bits, dev_out, sent, expected, fpos, flash_id>>
  BY DEF spiVars, spiCore, slave
<1>2. \A in : Respond(in)' = Respond(in)
  BY <1>1, SameAnswers
<1>3. /\ AtRest' <=> AtRest
      /\ done' = done /\ First' = First /\ (Past' <=> Past)
  BY <1>1 DEF AtRest, done, First, Past
<1>4. sampled' = sampled
  BY <1>3 DEF sampled
<1>5. /\ \A e : (Between(e)' <=> Between(e))
      /\ \A e : (Comes(e)' <=> Comes(e))
      /\ \A b : (Leaves(b)' <=> Leaves(b))
  BY <1>1, <1>3 DEF Between, Wire, Comes, Leaves
<1>6. \A e, i : WireBit(e, i)' = WireBit(e, i)
  BY <1>1 DEF WireBit
<1>7. /\ \A e : (Offers(e)' <=> Offers(e))
      /\ \A s, b : (Gathers(s, b)' <=> Gathers(s, b))
  BY <1>1, <1>3, <1>4, <1>6 DEF Offers, Gathers
<1>8. ASSUME NEW s, NEW b, NEW e, NEW n, NEW r PROVE Access(s, b, e, n, r)' <=> Access(s, b, e, n, r)
  BY <1>1, <1>3, <1>5, <1>7
     DEF Access, Resting, Exchanging, Waiting, Shifting, Finishing, After, Exchanged
<1>9. ASSUME NEW cmd, NEW k, NEW r PROVE Transfer(cmd, k, r) => Transfer(cmd, k, r)'
  <2>1. PICK e : e = Respond(Prefix(cmd, k - 1))
    OBVIOUS
  <2>2. PICK n : n = Respond(Prefix(cmd, k))
    OBVIOUS
  <2>. QED  BY <1>1, <1>8, <2>1, <2>2, TransferIsAccess
<1>10. ASSUME NEW base, NEW cmd PROVE Session(base, cmd) => Session(base, cmd)'
  <2>. DEFINE k == (fpos - base - 1) \div 3 + 1
              r == (fpos - base - 1) % 3
  <2>1. PICK kk, rr : kk = k /\ rr = r
    OBVIOUS
  <2>2. k' = kk /\ r' = rr
    BY <1>1, <2>1
  <2>3. Transfer(cmd, kk, rr) => Transfer(cmd, kk, rr)'
    BY <1>9
  <2>. QED  BY <2>1, <2>2, <2>3 DEF Session, Transfer, Access
<1>11. Between(Respond(<<>>)) => Between(Respond(<<>>))'
  BY <1>1, <1>2 DEF Between, Wire
<1>12. Session(6, IdCommand) => Session(6, IdCommand)'
  BY <1>10
<1>13. Session(15, ReadCommand) => Session(15, ReadCommand)'
  BY <1>10
<1>. QED  BY <1>1, <1>3, <1>11, <1>12, <1>13 DEF Place

(* The manufacturer is checked once, between the commands.                 *)
LEMMA CheckIsAt14 ==
  ASSUME EngineTypes, spicfg \in SpiConfigs, Place, RegsFollow, fpos \in DOMAIN flashboot
  PROVE  /\ fpos \in 1 .. End + 5
         /\ flashboot[fpos] = CheckId <=> fpos = 14
<1>1. fpos \in 1 .. End + 5 /\ beat \in {0, 1}
  BY Plan DEF Place
<1>2. flashboot[14] = CheckId
  BY Plan
<1>3. CheckId.reg = "check"
  BY DEF CheckId
<1>4. ASSUME fpos \in Outside, fpos # 14 PROVE flashboot[fpos] # CheckId
  <2>1. flashboot[fpos].reg \in {"busy", "set"}
    BY <1>1, <1>4, OutsideWrites
  <2>. QED  BY <1>3, <2>1
<1>5. ASSUME NEW base, NEW cmd, Commanded(base, cmd), NEW k \in 1 .. Len(cmd), NEW r \in 0 .. 2,
             fpos = base + 3 * k - 2 + r
      PROVE  flashboot[fpos] # CheckId /\ fpos # 14
  <2>1. flashboot[fpos] = AccessOf(cmd, k, r) /\ (fpos \in 7 .. 12 \/ fpos \in 16 .. End - 1)
    BY <1>5, CommandPlace
  <2>2. flashboot[fpos].reg \in {"tdata", "busy", "rdata"}
    BY <2>1 DEF AccessOf, Data, Poll, Read
  <2>. QED  BY <1>3, <2>1, <2>2
<1>. QED  BY <1>1, <1>2, <1>4, <1>5, Where

(* The driver. *)
LEMMA FlashbootSteps ==
  ASSUME FlashInv, Flashboot \/ FlashComputes
  PROVE  FlashInv'
<1>1. /\ EngineTypes /\ spicfg \in SpiConfigs /\ flash_id \in FlashIds
      /\ bpc = "flash" /\ bootmode = FLASHBOOT /\ Place /\ RegsFollow /\ Copied /\ TypeOK
      /\ FLASHBOOT # UARTBOOT
  BY DEF FlashInv, Flashboot, FlashComputes, FlashRequests, FlashAccess, FlashAcknowledged,
         FlashChecked, FlashDone, FLASHBOOT, UARTBOOT
<1>2. ASSUME UNCHANGED <<bpc, bootmode, spicfg, flash_id>>, EngineTypes', Place', RegsFollow', Copied', TypeOK'
      PROVE  FlashInv'
  BY <1>1, <1>2 DEF FlashInv, Place, Started
<1>3. UNCHANGED vars => TypeOK'
  BY <1>1 DEF vars, receiver, sender, TypeOK, Stopped
<1>4. CASE FlashRequests
  <2>1. /\ fpos \in 1 .. End + 5 /\ fpos # 14
        /\ Requests(flashboot[fpos], Respond(<<>>), Respond(dev_in))
        /\ UNCHANGED <<vars, mem, bpc, bootmode, spicfg, flash_id, fpos, fgot>>
    BY <1>1, <1>4, CheckIsAt14 DEF FlashRequests, FlashAccess, bootVars, vars, receiver
  <2>2. EngineTypes' /\ Place' /\ RegsFollow'
    BY <1>1, <2>1, RequestsStep
  <2>3. Copied'
    BY <1>1, <2>1, CopiedKept DEF Copied
  <2>. QED  BY <1>2, <1>3, <2>1, <2>2, <2>3
<1>5. CASE FlashAcknowledged
  <2>1. /\ fpos \in 1 .. End + 5 /\ fpos # 14
        /\ Acknowledged(flashboot[fpos], Respond(<<>>), Respond(dev_in))
        /\ fpos' = IF flashboot[fpos] = Poll /\ spi_busy THEN fpos ELSE fpos + 1
        /\ IF flashboot[fpos] = Read
           THEN /\ fgot' = Append(fgot, Value(rx_shiftreg))
                /\ mem' = IF Len(fgot) < Before THEN mem
                          ELSE [mem EXCEPT ![Len(fgot) - Before] = Value(rx_shiftreg)]
           ELSE UNCHANGED <<fgot, mem>>
        /\ UNCHANGED <<rpc, pings, packetnum, pkt, sender, toBoard, toHost, faults>>
        /\ UNCHANGED <<bpc, bootmode, spicfg, flash_id>>
    BY <1>1, <1>5, CheckIsAt14 DEF FlashAcknowledged, FlashAccess
  <2>2. EngineTypes' /\ Place' /\ RegsFollow'
    BY <1>1, <2>1, AcknowledgedStep
  <2>3. Copied' /\ mem' \in [0 .. ROOM - 1 -> Byte]
    BY <1>1, <2>1, CopiedStep DEF TypeOK
  <2>4. TypeOK'
    BY <1>1, <2>1, <2>3 DEF TypeOK, Stopped, sender
  <2>. QED  BY <1>2, <2>1, <2>2, <2>3, <2>4
<1>6. CASE FlashComputes
  <2>1. /\ Computes(Respond(<<>>), Respond(dev_in))
        /\ UNCHANGED <<vars, mem, bpc, bootmode, spicfg, flash_id, fpos, fgot>>
    BY <1>6 DEF FlashComputes, bootVars, vars, receiver
  <2>2. EngineTypes' /\ Place' /\ RegsFollow'
    BY <1>1, <2>1, ComputesStep
  <2>3. Copied'
    BY <1>1, <2>1, CopiedKept DEF Copied
  <2>. QED  BY <1>2, <1>3, <2>1, <2>2, <2>3
<1>7. CASE FlashChecked
  <2>1. /\ fpos = 14 /\ UNCHANGED <<vars, mem, spiVars, bootmode, spicfg, flash_id, fgot>>
        /\ IF Usable(fgot[2]) THEN fpos' = fpos + 1 /\ UNCHANGED bpc ELSE bpc' = "panic" /\ UNCHANGED fpos
    BY <1>1, <1>7, CheckIsAt14 DEF FlashChecked, vars, receiver
  <2>2. TypeOK'
    BY <1>3, <2>1
  <2>3. /\ AtRest /\ beat = 0 /\ sck = regs.pol
        /\ AtRest' /\ beat' = 0 /\ sck' = regs'.pol
        /\ EngineTypes' /\ regs' = regs
    <3>1. AtRest /\ beat = 0 /\ sck = regs.pol
      BY <1>1, <2>1, ToEnd DEF Place
    <3>. QED  BY <1>1, <2>1, <3>1 DEF spiVars, spiCore, slave, AtRest, EngineTypes
  <2>4. CASE Usable(fgot[2])
    <3>1. fpos' = 15 /\ UNCHANGED bpc
      BY <2>1, <2>4
    <3>2. Place'
      BY <2>3, <3>1, ToEnd, PlaceOutside
    <3>3. RegsFollow'
      <4>1. begun = 13 /\ begun' = 14
        BY <2>1, <2>3, <3>1 DEF begun
      <4>2. ~Selected /\ ~Selected'
        BY <4>1 DEF Selected
      <4>. QED  BY <1>1, <2>1, <2>3, <4>1, <4>2, ToEnd DEF RegsFollow
    <3>4. Copied'
      <4>1. Bytes(14) = 2 /\ Bytes(15) = 2
        BY DEF Bytes
      <4>2. Len(fgot) = 2 /\ fgot[2] = flash_id
        BY <1>1, <2>1, <4>1 DEF Copied
      <4>3. Usable(flash_id)
        BY <2>4, <4>2
      <4>4. Bytes(fpos') = Bytes(fpos)
        BY <2>1, <3>1, <4>1
      <4>. QED  BY <1>1, <2>1, <4>3, <4>4, CopiedKept
    <3>. QED  BY <1>2, <2>1, <2>2, <2>3, <3>1, <3>2, <3>3, <3>4
  <2>5. CASE ~Usable(fgot[2])
    <3>1. bpc' = "panic" /\ fpos' = fpos
      BY <2>1, <2>5
    <3>. QED  BY <1>1, <2>1, <2>2, <2>3, <3>1, ToEnd DEF FlashInv, Started
  <2>. QED  BY <2>4, <2>5
<1>8. CASE FlashDone
  <2>1. /\ fpos > End + 5 /\ bpc' = "return"
        /\ UNCHANGED <<vars, mem, spiVars, bootmode, spicfg, flash_id, fpos, fgot>>
    BY <1>8, Plan DEF FlashDone, vars, receiver
  <2>2. fpos = End + 6 /\ beat \in {0, 1}
    BY <1>1, <2>1, ToEnd DEF Place
  <2>3. EngineTypes' /\ TypeOK' /\ beat' = beat
    <3>1. EngineTypes' /\ beat' = beat
      BY <1>1, <2>1, EngineKept
    <3>. QED  BY <1>3, <2>1, <3>1
  <2>4. ~NoFlash /\ mem = FlashImage
    <3>1. Bytes(fpos) = 6 + ROOM
      BY <2>2, ToEnd DEF Bytes
    <3>2. Usable(flash_id) /\ \A i \in 0 .. ROOM - 1 : mem[i] = FlashImage[i]
      BY <1>1, <2>2, <3>1, ToEnd DEF Copied
    <3>3. mem \in [0 .. ROOM - 1 -> Byte] /\ FlashImage \in [0 .. ROOM - 1 -> Byte]
      BY <1>1, BootAssumption DEF TypeOK
    <3>. QED  BY <3>2, <3>3 DEF Usable, NoFlash
  <2>5. (~NoFlash)' /\ mem' = FlashImage
    BY <2>1, <2>4 DEF NoFlash
  <2>. QED  BY <1>1, <2>1, <2>2, <2>3, <2>5, ToEnd DEF FlashInv, Started
<1>. QED  BY <1>4, <1>5, <1>6, <1>7, <1>8 DEF Flashboot

(* The rest of the boot loader. *)
LEMMA OtherSteps ==
  ASSUME FlashInv, UNCHANGED <<spiVars, bootmode, spicfg, flash_id, fpos, fgot>>,
         bootmode = UARTBOOT \/ UNCHANGED vars,
         \/ bpc' = bpc
         \/ bpc = "start" /\ bpc' = Target(bootmode)
         \/ bpc \in {"uart", "key"} /\ bpc' \in {"uart", "key", "return", "panic"}
         \/ bpc \in {"return", "app"} /\ bpc' \in {"app", "returned"}
  PROVE  FlashInv'
<1>1. /\ EngineTypes' /\ (RegsFollow => RegsFollow')
      /\ AtRest' = AtRest /\ regs' = regs /\ beat' = beat /\ sck' = sck
  BY EngineKept DEF FlashInv
<1>2. FLASHBOOT # UARTBOOT
  BY DEF FLASHBOOT, UARTBOOT
<1>3. UNCHANGED vars => mem' = mem /\ (TypeOK => TypeOK')
  BY DEF vars, receiver, sender, TypeOK, Stopped
<1>4. bootmode' # UARTBOOT => TypeOK'
  BY <1>3 DEF FlashInv
<1>5. bpc = "start" =>
        /\ Target(bootmode) \in {"flash", "return", "uart", "loop"}
        /\ Target(bootmode) = "flash" => bootmode = FLASHBOOT
        /\ Target(bootmode) = "uart" => bootmode = UARTBOOT
        /\ Target(bootmode) = "return" => bootmode # FLASHBOOT
  BY DEF Target, FLASHBOOT, JUMP_TO_RAM, UARTBOOT
<1>6. bpc' \in {"start", "flash", "uart", "loop", "key", "return", "app", "returned", "panic"}
  BY <1>5 DEF FlashInv
<1>7. ASSUME bpc' = "start"
      PROVE  fpos' = 1 /\ fgot' = <<>> /\ beat' = 0 /\ AtRest' /\ RegsFollow'
  <2>1. bpc = "start"
    BY <1>5, <1>7
  <2>. QED  BY <1>1, <2>1 DEF FlashInv
<1>8. ASSUME bpc' = "flash"
      PROVE  bootmode' = FLASHBOOT /\ Place' /\ RegsFollow' /\ Copied'
  <2>1. CASE bpc = "flash"
    <3>1. bootmode = FLASHBOOT /\ Place /\ RegsFollow /\ Copied /\ UNCHANGED vars
      BY <1>2, <2>1 DEF FlashInv
    <3>2. Copied'
      <4>1. UNCHANGED <<fgot, mem, flash_id>> /\ (fpos' >= 15 => Usable(flash_id))
        BY <1>3, <3>1 DEF Copied
      <4>. QED  BY <3>1, <4>1, CopiedKept
    <3>. QED  BY <1>1, <3>1, <3>2, PlaceKept
  <2>2. CASE bpc # "flash"
    <3>1. bpc = "start" /\ Target(bootmode) = "flash" /\ bootmode = FLASHBOOT
      BY <1>5, <1>8, <2>2
    <3>2. fpos' = 1 /\ fgot' = <<>> /\ beat' = 0 /\ AtRest' /\ RegsFollow'
      BY <1>1, <3>1 DEF FlashInv
    <3>3. Place'
      BY <3>2, ToEnd, PlaceOutside
    <3>4. Copied'
      <4>1. Bytes(fpos') = 0
        BY <3>2 DEF Bytes
      <4>2. fgot' \in Seq(Byte) /\ Len(fgot') = 0
        BY <3>2
      <4>3. \A i \in 0 .. ROOM - 1 : ~(i < Bytes(fpos') - 6)
        BY <4>1
      <4>. QED  BY <3>2, <4>1, <4>2, <4>3 DEF Copied
    <3>. QED  BY <3>1, <3>2, <3>3, <3>4
  <2>. QED  BY <2>1, <2>2
<1>9. bpc' \in {"uart", "key"} => bootmode' = UARTBOOT
  BY <1>5 DEF FlashInv
<1>10. ASSUME Started', bootmode' = FLASHBOOT PROVE (~NoFlash)' /\ mem' = FlashImage
  <2>1. bootmode = FLASHBOOT /\ UNCHANGED vars /\ bpc \notin {"uart", "key"}
    BY <1>2, <1>10 DEF FlashInv
  <2>2. Started
    BY <1>5, <1>10, <2>1 DEF Started
  <2>3. ~NoFlash /\ mem = FlashImage
    BY <2>1, <2>2 DEF FlashInv
  <2>. QED  BY <1>3, <2>1, <2>3 DEF NoFlash
<1>. QED  BY <1>1, <1>4, <1>6, <1>7, <1>8, <1>9, <1>10 DEF FlashInv

(* The invariant is inductive.                                             *)
LEMMA FlashInvStep ==
  ASSUME FlashInv, [BootNext]_allVars PROVE FlashInv'
<1>1. CASE Flashboot \/ FlashComputes
  BY <1>1, FlashbootSteps
<1>2. CASE PlatformInit
  BY <1>2, OtherSteps DEF PlatformInit, BootGoes
<1>3. CASE Uartboot
  <2>1. bpc = "uart" /\ UNCHANGED <<spiVars, bpc, bootmode, spicfg, flash_id, fpos, fgot>>
    BY <1>3 DEF Uartboot, bootVars
  <2>2. bootmode = UARTBOOT
    BY <2>1 DEF FlashInv
  <2>. QED  BY <2>1, <2>2, OtherSteps
<1>4. CASE UartbootReturns
  BY <1>4, OtherSteps DEF UartbootReturns, BootGoes
<1>5. CASE WaitForKey \/ PressEnter
  <2>1. /\ bpc = "key" /\ bpc' \in {"key", "return"}
        /\ UNCHANGED <<spiVars, bootmode, spicfg, flash_id, fpos, fgot>>
    BY <1>5 DEF WaitForKey, PressEnter, bootVars
  <2>2. bootmode = UARTBOOT
    BY <2>1 DEF FlashInv
  <2>. QED  BY <2>1, <2>2, OtherSteps
<1>6. CASE Jump \/ AppReturns
  BY <1>6, OtherSteps DEF Jump, AppReturns, BootGoes
<1>7. CASE HostSends
  <2>1. /\ bootmode = UARTBOOT
        /\ UNCHANGED <<spiVars, bpc, bootmode, spicfg, flash_id, fpos, fgot>>
    BY <1>7 DEF HostSends, bootVars
  <2>. QED  BY <2>1, OtherSteps
<1>8. CASE UNCHANGED allVars
  BY <1>8, OtherSteps DEF allVars, bootVars
<1>. QED
  BY <1>1, <1>2, <1>3, <1>4, <1>5, <1>6, <1>7, <1>8 DEF BootNext, Board

(* When spi_transfer reads the received byte, the shift registers of both  *)
(* ends are through with it: for words of any width, every divisor, mode,  *)
(* bit order and delay that flash boot gives the controller, the slave has *)
(* what was sent and the byte read is the one it meant (SPI_core.v, spi.c).*)
THEOREM EveryByteIsExchanged ==
  BootSpec => []ExchangesWhole
<1>1. BootInit => FlashInv
  BY FlashInvInit
<1>2. FlashInv /\ [BootNext]_allVars => FlashInv'
  BY FlashInvStep
<1>3. FlashInv => ExchangesWhole
  <2>. SUFFICES ASSUME FlashInv, FlashAccess, flashboot[fpos] = Read, beat = 1
                PROVE  dev_in = sent /\ dev_bits = <<>> /\ rx_shiftreg = expected
    BY DEF ExchangesWhole
  <2>1. /\ EngineTypes /\ spicfg \in SpiConfigs /\ Place /\ RegsFollow
        /\ fpos \in DOMAIN flashboot /\ flashboot[fpos] # CheckId
    BY DEF FlashInv, FlashAccess
  <2>2. fpos \in 1 .. End + 5 /\ fpos # 14
    BY <2>1, CheckIsAt14
  <2>3. fpos \notin Outside
    <3>1. Read.reg = "rdata"
      BY DEF Read
    <3>. QED  BY <2>1, <2>2, <3>1, OutsideWrites
  <2>4. PICK base, cmd : /\ Commanded(base, cmd)
                         /\ \E k \in 1 .. Len(cmd), r \in 0 .. 2 : fpos = base + 3 * k - 2 + r
    BY <2>2, <2>3, Where
  <2>5. PICK k \in 1 .. Len(cmd), r \in 0 .. 2 : fpos = base + 3 * k - 2 + r
    BY <2>4
  <2>6. flashboot[fpos] = AccessOf(cmd, k, r) /\ Transfer(cmd, k, r)
    BY <2>1, <2>4, <2>5, CommandPlace
  <2>7. r = 2
    BY <2>6 DEF AccessOf, Data, Poll, Read
  <2>. QED  BY <2>6, <2>7 DEF Transfer, Access, After, Exchanged, Between
<1>. QED  BY <1>1, <1>2, <1>3, PTL DEF BootSpec

(* Flash boot leaves the receiver of the other boot in its types, and in   *)
(* UART boot the transfer's invariant has them.                            *)
LEMMA BootTypes ==
  ASSUME BootInv, FlashInv PROVE BootTypeOK
<1>1. TypeOK
  <2>1. CASE bootmode # UARTBOOT
    BY <2>1 DEF FlashInv
  <2>2. CASE bootmode = UARTBOOT
    <3>1. XTypes
      BY <2>2 DEF BootInv, XInv
    <3>2. toBoard \in Seq(Byte) /\ toHost \in Seq(Byte)
      BY <3>1 DEF XTypes
    <3>3. /\ \A i \in DOMAIN toBoard : toBoard[i] \in Byte
          /\ \A i \in DOMAIN toHost : toHost[i] \in Byte
      BY <3>2
    <3>4. Stopped => pkt = <<>>
      BY <3>1 DEF XTypes, Stopped
    <3>. QED  BY <3>1, <3>3, <3>4 DEF XTypes, TypeOK
  <2>. QED  BY <2>1, <2>2
<1>2. Len(flashboot) = End + 5
  BY Plan DEF FlashInv
<1>3. fpos \in 1 .. Len(flashboot) + 1
  BY <1>2, ToEnd DEF FlashInv
<1>4. {sck, core_cs, beat} \subseteq {0, 1}
  BY DEF FlashInv, EngineTypes
<1>. QED  BY <1>1, <1>3, <1>4 DEF FlashInv, EngineTypes, BootTypeOK

(* Whatever the pins say, what is started is whole: the image of the flash *)
(* memory, read by flashcpy, the file of the sender, stored by get_packet, *)
(* or memory as it was; and no variable ever leaves its type.              *)
THEOREM ImageIsStartedWhole ==
  ASSUME TolerableLine
  PROVE  BootSpec => []StartsImage
<1>1. BootInit => BootInv /\ FlashInv
  BY BootInvInit, FlashInvInit
<1>2. BootInv /\ FlashInv /\ [BootNext]_allVars => (BootInv /\ FlashInv)'
  BY BootInvStep, FlashInvStep
<1>3. BootInv /\ FlashInv => StartsImage
  <2>. SUFFICES ASSUME BootInv, FlashInv PROVE StartsImage
    OBVIOUS
  <2>1. bootmode = FLASHBOOT => StartsWhole
    <3>. SUFFICES ASSUME bootmode = FLASHBOOT, Started
                  PROVE  ~NoFlash /\ mem = FlashImage
      BY BootModes DEF StartsWhole
    <3>. QED  BY DEF FlashInv
  <2>2. bootmode # FLASHBOOT => StartsWhole
    BY WholeUnlessFlash
  <2>. QED  BY <2>1, <2>2, BootTypes DEF StartsImage
<1>. QED  BY <1>1, <1>2, <1>3, PTL DEF BootSpec
=============================================================================
