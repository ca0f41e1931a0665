---------------------------- MODULE TimerProofs ----------------------------
(***************************************************************************)
(* Proofs about TimerDriver, for every width of a half, every delay and    *)
(* every length of a run.  What cycle() and sleep_ms() return is proved    *)
(* for every handler; what the interrupt line tells, for one that does not *)
(* ask for the next interrupt itself (Rearm = {}): one that does can       *)
(* overwrite the request it interrupted, and start.S 86-108 can lose the   *)
(* place it returns to.  A request written over one that was not cleared   *)
(* can lose it, too (start.S 63-83).                                       *)
(***************************************************************************)
EXTENDS TimerDriver, SequenceTheorems, TLAPS

-----------------------------------------------------------------------------
(* Type correctness, of the saved contexts too.  The two counters of the   *)
(* hardware start together and never part.                                 *)
Regs == (0 .. WORD - 1) \X (0 .. WORD - 1) \X (Delays \union Rearm \union {0})
          \X (0 .. WORD * WORD - 1)

TypeInv ==
  /\ TypeOK
  /\ csr_cycle = mtime
  /\ frames \in Seq([mepc : Accesses, regs : Regs])
  /\ from \in Seq(SUBSET Accesses)

HandlerAccesses ==
  ({"trap"} \X (1 .. 3)) \union ({"handler"} \X {1, 2}) \union ({"rearm"} \X (1 .. 4))

(* The context frames hold the program's own place at most in the oldest   *)
(* of them, and nothing is on the stack while the program itself runs. A   *)
(* handler that is interrupted in EPILOGUE may come back to the wrong      *)
(* place (it is stuck then), but never to the program with frames left     *)
(* behind.                                                                 *)
StackInv ==
  /\ IF pc \in HandlerAccesses THEN last \in HandlerAccesses
     ELSE last \notin HandlerAccesses /\ frames = <<>>
  /\ mepc \notin HandlerAccesses =>
       /\ pc = <<"trap", 1>> => frames = <<>>
       /\ pc = <<"trap", 3>> => Len(frames) <= 1
  /\ \A i \in DOMAIN frames : frames[i].mepc \notin HandlerAccesses => i = 1

(* What the registers have read when p is the next instruction: halves of  *)
(* times of this call, the low one no earlier than the high one; in the    *)
(* loop of sleep_ms the end of the sleep is not before its time.           *)
ReadsAt(p, regs, s, now) ==
  /\ p \in Callers \X {2} => \E t \in s .. now : regs[1] = Hi(t)
  /\ p \in Callers \X {3} =>
       \E t, u \in s .. now : t <= u /\ regs[1] = Hi(t) /\ regs[2] = Lo(u)
  /\ p \in {"asleep"} \X (1 .. 3) => regs[4] >= s + regs[3]

(* This holds for the next instruction, for the one before it, which a     *)
(* trap may repeat, and for every context saved on the stack.              *)
CycleInv ==
  /\ StackInv
  /\ start <= csr_cycle
  /\ \A p \in {pc, last} : ReadsAt(p, callVars, start, csr_cycle)
  /\ pc \in {<<"trap", 1>>, <<"trap", 3>>} => ReadsAt(mepc, callVars, start, csr_cycle)
  /\ \A i \in DOMAIN frames : ReadsAt(frames[i].mepc, frames[i].regs, start, csr_cycle)

(* The handler runs; the program, unless its place was lost, goes on at    *)
(* one of Positions.                                                       *)
Handling == InHandler \union {<<"handler", 2>>, <<"trap", 2>>, <<"trap", 3>>}
Positions ==
  IF pc \notin Handling THEN {pc, last}
  ELSE IF mepc \notin Handling THEN {mepc}
  ELSE IF frames # <<>> THEN {frames[1].mepc} \ Handling ELSE {}

(* A handler is interrupted at most once and by no other than the stale    *)
(* request: in PROLOGUE, which loses the program's place, or behind it,    *)
(* when two contexts are on the stack until the second handler returns.    *)
Context(p) == [mepc |-> p, regs |-> callVars]

LostInv ==
  /\ mepc = <<"trap", 1>>
  /\ frames = IF pc = <<"trap", 1>> THEN <<>> ELSE <<Context(mepc)>>

NestedInv ==
  /\ mepc = <<"handler", 1>>
  /\ \E p \in Accesses \ HandlerAccesses :
       /\ from # <<>> /\ p \in from[1]
       /\ \/ Len(from) = 1 /\ frames = <<Context(p)>> /\ Hi(mtimecmp) = AllOnes
             /\ pc \notin {<<"trap", 1>>, <<"trap", 3>>}
          \/ Len(from) = 2 /\ pc = <<"trap", 1>> /\ frames = <<Context(p)>>
          \/ Len(from) = 2 /\ pc # <<"trap", 1>> /\ frames = <<Context(p), Context(mepc)>>

(* Without it handlers do not nest, and the saved context is that of the   *)
(* program.                                                                *)
NestInv ==
  /\ {pc, last, mepc} \cap ({"rearm"} \X (1 .. 4)) = {}
  /\ pc \in InHandler => last = pc
  /\ IF pc \notin Handling THEN last \notin Handling /\ frames = <<>> /\ from = <<>>
     ELSE IF mepc \in Handling THEN stale /\ (LostInv \/ NestedInv)
     ELSE /\ Len(from) = 1 /\ mepc \in from[1]
          /\ frames = IF pc = <<"trap", 1>> THEN <<>> ELSE <<Context(mepc)>>

(* A store that was left on the bus is the one the program makes again.    *)
PostedInv ==
  posted # NoStore =>
    /\ pc = <<"trap", 1>> /\ mepc = posted
    /\ posted \in {<<"intr", 3>>, <<"intr", 4>>, <<"clear", 1>>, <<"handler", 1>>}

(* No rising edge of the line is lost: outside the handler's first steps   *)
(* the previous level was low whenever the line is up, and in them it      *)
(* stays up, unless a store of a stale request took it down.               *)
StaysUp == ~mie \/ (int_o /\ async_r) \/ Hi(mtimecmp) = AllOnes
EdgeInv ==
  IF pc \in InHandler THEN StaysUp \/ (stale /\ mepc \notin Handling /\ posted = NoStore)
  ELSE async_r => ~(mie /\ int_o)

(* No request is being written: the comparator holds the last one, or the  *)
(* largest high half once it was cleared. An instruction that would write  *)
(* to it again is never where the program goes on while a request stands.  *)
QuietInv ==
  /\ <<"intr", 3>> \notin Positions
  /\ posted \notin {"intr"} \X {3, 4}
  /\ due = None => Hi(mtimecmp) = AllOnes
  /\ due # None =>
       /\ mtimecmp <= due /\ (~torn => mtimecmp = due)
       /\ <<"clear", 2>> \notin Positions /\ pc # <<"intr", 4>>
       /\ pc \notin Handling \ InHandler

(* A request is being written: tend is its time, and the comparator is not *)
(* below it unless it is stale.                                            *)
AskInv ==
  /\ due # None /\ tend <= due /\ (~torn => tend = due)
  /\ ~stale => /\ Lo(mtimecmp) = AllOnes /\ mtimecmp >= tend
               /\ pc = <<"intr", 3>> => Hi(mtimecmp) = AllOnes
               /\ posted # <<"intr", 3>>
  /\ Positions \subseteq {"intr"} \X {2, 3, 4}
  /\ pc = <<"intr", 2>> => last = pc
  /\ pc = <<"intr", 3>> => last # <<"intr", 4>>
  /\ pc = <<"intr", 4>> => last = <<"intr", 3>>
  /\ <<"intr", 4>> \in {pc, posted} => Hi(mtimecmp) = Hi(tend)
  /\ pc \in Handling \ InHandler => <<"intr", 4>> \notin Positions

(* The high half that was read is never ahead of the timer.                *)
RequestInv ==
  /\ pc \in Handling \ InHandler => Hi(mtimecmp) = AllOnes
  /\ <<"intr", 2>> \in Positions => hi <= Hi(mtime)
  /\ IF asks THEN AskInv ELSE QuietInv

LineInv == TypeInv /\ NestInv /\ PostedInv /\ EdgeInv /\ RequestInv

-----------------------------------------------------------------------------
(* The halves of a time, and the time put together from its halves.        *)
LEMMA Halves ==
  ASSUME NEW t \in Nat
  PROVE  Lo(t) \in 0 .. WORD - 1 /\ Hi(t) \in Nat /\ t = Both(Hi(t), Lo(t))
BY TimerWbAssumption DEF Lo, Hi, Both

LEMMA HalvesOfBoth ==
  ASSUME NEW h \in Nat, NEW l \in 0 .. WORD - 1
  PROVE  Both(h, l) \in Nat /\ Hi(Both(h, l)) = h /\ Lo(Both(h, l)) = l
BY TimerWbAssumption DEF Lo, Hi, Both

LEMMA HiMonotonic ==
  ASSUME NEW t \in Nat, NEW u \in Nat, t <= u
  PROVE  Hi(t) <= Hi(u)
BY TimerWbAssumption DEF Hi

LEMMA BothMonotonic ==
  ASSUME NEW g \in Nat, NEW h \in Nat, g < h, NEW k \in 0 .. WORD - 1, NEW l \in Nat
  PROVE  Both(g, k) < Both(h, l)
<1>1. WORD * g + WORD <= WORD * h
  BY TimerWbAssumption
<1>2. WORD * g \in Nat /\ WORD * h \in Nat
  BY TimerWbAssumption
<1>3. QED
  BY <1>1, <1>2, TimerWbAssumption DEF Both

LEMMA BothInRange ==
  ASSUME NEW h \in 0 .. WORD - 1, NEW l \in 0 .. WORD - 1
  PROVE  Both(h, l) \in 0 .. WORD * WORD - 1
<1>1. WORD * h + WORD <= WORD * WORD /\ WORD * h \in Nat /\ WORD * WORD \in Nat
  BY TimerWbAssumption
<1>2. QED
  BY <1>1, TimerWbAssumption DEF Both

LEMMA HiInRange ==
  ASSUME NEW t \in 0 .. WORD * WORD - 1
  PROVE  Hi(t) \in 0 .. WORD - 1
<1>1. t \in Nat /\ WORD * WORD \in Nat
  BY TimerWbAssumption
<1>2. ASSUME Hi(t) >= WORD PROVE FALSE
  <2>1. WORD * Hi(t) >= WORD * WORD
    BY <1>1, <1>2, Halves, TimerWbAssumption
  <2>2. t >= WORD * Hi(t)
    BY <1>1, Halves, TimerWbAssumption DEF Both
  <2>3. WORD * Hi(t) \in Nat
    BY <1>1, Halves, TimerWbAssumption
  <2>4. QED
    BY <1>1, <2>1, <2>2, <2>3
<1>3. QED
  BY <1>1, <1>2, Halves, TimerWbAssumption

(* No time of a run reaches the width of the registers.                    *)
LEMMA TimesInRange ==
  /\ WORD * WORD \in Nat /\ MaxTime \in Nat /\ MaxTime < WORD * WORD - 1
  /\ \A t \in 0 .. MaxTime : t \in 0 .. WORD * WORD - 1 /\ Wide(t) = t
<1>1. WORD * WORD \in Nat /\ WORD * AllOnes + WORD = WORD * WORD /\ WORD * AllOnes \in Nat
  BY TimerWbAssumption DEF AllOnes
<1>2. MaxTime \in Nat /\ MaxTime < WORD * AllOnes
  BY <1>1, TimerDriverAssumption DEF Both
<1>3. MaxTime < WORD * WORD - 1
  BY <1>1, <1>2, TimerWbAssumption
<1>4. ASSUME NEW t \in 0 .. MaxTime PROVE t \in 0 .. WORD * WORD - 1 /\ Wide(t) = t
  <2>1. t \in Nat /\ t < WORD * WORD
    BY <1>1, <1>2, <1>3
  <2>2. \A m \in Nat : t < m => t % m = t
    BY <2>1
  <2>3. QED
    BY <1>1, <1>3, <2>1, <2>2 DEF Wide
<1>5. QED
  BY <1>1, <1>2, <1>3, <1>4

(* A comparator with its high half cleared is after every time of a run.   *)
LEMMA ClearedIsLate ==
  ASSUME NEW c \in Nat, Hi(c) = AllOnes
  PROVE  c > MaxTime
<1>1. c = WORD * AllOnes + Lo(c) /\ Lo(c) \in Nat /\ WORD * AllOnes \in Nat
  BY Halves, TimerWbAssumption DEF Both, AllOnes
<1>2. QED
  BY <1>1, TimerDriverAssumption, TimerWbAssumption DEF Both

-----------------------------------------------------------------------------
Registers == {"none", "mtimecmp", "mtimecmph"}

(* The register write of a clock edge keeps the types; a read changes      *)
(* none.                                                                   *)
LEMMA ClockType ==
  ASSUME TypeInv, mtime < MaxTime,
         NEW reg \in Registers, NEW val \in 0 .. WORD - 1, Clock(reg, val)
  PROVE  /\ mtime' = mtime + 1 /\ mtime' \in 0 .. MaxTime /\ csr_cycle' = mtime'
         /\ mtimecmp' \in 0 .. WORD * WORD - 1
<1>1. mtime \in 0 .. MaxTime /\ csr_cycle = mtime /\ mtimecmp \in 0 .. WORD * WORD - 1
  BY DEF TypeInv, TypeOK
<1>2. mtime + 1 \in 0 .. MaxTime
  BY <1>1, TimesInRange
<1>3. mtime' = mtime + 1 /\ csr_cycle' = mtime'
  BY <1>1, <1>2, TimesInRange DEF Clock
<1>4. Hi(mtimecmp) \in 0 .. WORD - 1 /\ Lo(mtimecmp) \in 0 .. WORD - 1
  <2>1. mtimecmp \in Nat
    BY <1>1, TimesInRange
  <2>2. QED
    BY <1>1, <2>1, HiInRange, Halves
<1>5. mtimecmp' \in 0 .. WORD * WORD - 1
  <2>1. CASE reg = "none"
    BY <2>1, <1>1 DEF Clock, WriteCmp
  <2>2. CASE reg = "mtimecmp"
    <3>1. mtimecmp' = Both(Hi(mtimecmp), val)
      BY <2>2 DEF Clock, WriteCmp
    <3>2. QED
      BY <3>1, <1>4, BothInRange
  <2>3. CASE reg = "mtimecmph"
    <3>1. mtimecmp' = Both(val, Lo(mtimecmp))
      BY <2>3 DEF Clock, WriteCmp
    <3>2. QED
      BY <3>1, <1>4, BothInRange
  <2>4. QED
    BY <2>1, <2>2, <2>3 DEF Registers
<1>6. QED
  BY <1>2, <1>3, <1>5

LEMMA ReadsType ==
  ASSUME TypeInv, mtime < MaxTime, ReadOnly
  PROVE  /\ mtime' = mtime + 1 /\ mtime' \in 0 .. MaxTime /\ csr_cycle' = mtime'
         /\ mtimecmp' = mtimecmp
<1>1. "none" \in Registers /\ 0 \in 0 .. WORD - 1
  BY TimerWbAssumption DEF Registers
<1>2. mtimecmp' = mtimecmp
  BY DEF ReadOnly, Clock, WriteCmp
<1>3. QED
  BY <1>1, <1>2, ClockType DEF ReadOnly

(* A store that takes effect, with its instruction or behind a trap.       *)
LEMMA TakesType ==
  ASSUME TypeInv, mtime < MaxTime, NEW p, Takes(p)
  PROVE  /\ mtime' = mtime + 1 /\ mtime' \in 0 .. MaxTime /\ csr_cycle' = mtime'
         /\ mtimecmp' \in 0 .. WORD * WORD - 1
         /\ due' \in {None, due} /\ asks' \in {asks, FALSE} /\ UNCHANGED <<start, torn>>
<1>1. tend \in 0 .. WORD * WORD - 1
  BY DEF TypeInv, TypeOK
<1>2. Hi(tend) \in 0 .. WORD - 1 /\ Lo(tend) \in 0 .. WORD - 1 /\ AllOnes \in 0 .. WORD - 1
  BY <1>1, TimesInRange, HiInRange, Halves, TimerWbAssumption DEF AllOnes
<1>3. PICK reg \in Registers, val \in 0 .. WORD - 1 : Clock(reg, val)
  <2>1. "mtimecmp" \in Registers /\ "mtimecmph" \in Registers
    BY DEF Registers
  <2>2. QED
    BY <1>2, <2>1 DEF Takes, TakesHi, TakesLo, TakesClearHi, TakesClearLo, ClearFirst
<1>4. due' \in {None, due} /\ asks' \in {asks, FALSE} /\ UNCHANGED <<start, torn>>
  BY DEF Takes, TakesHi, TakesLo, TakesClearHi, TakesClearLo
<1>5. QED
  BY <1>3, <1>4, ClockType

LEMMA InitType == Init => TypeInv
<1> SUFFICES ASSUME Init PROVE TypeInv
  OBVIOUS
<1>1. mtime = 0 /\ csr_cycle = 0 /\ 0 \in 0 .. MaxTime /\ 0 \in 0 .. WORD - 1
      /\ 0 \in 0 .. WORD * WORD - 1
  BY TimesInRange, TimerWbAssumption DEF Init, TimerInit
<1>2. mtimecmp \in 0 .. WORD * WORD - 1
  BY BothInRange, TimerWbAssumption DEF Init, TimerInit, AllOnes
<1>3. Idle \in Accesses
  BY DEF Idle, Accesses
<1>4. TypeOK
  BY <1>1, <1>2, <1>3 DEF Init, TypeOK
<1>5. frames \in Seq([mepc : Accesses, regs : Regs]) /\ from \in Seq(SUBSET Accesses)
  BY DEF Init
<1>6. QED
  BY <1>1, <1>4, <1>5 DEF TypeInv

(* The accesses the program can make next.                                 *)
LEMMA AccessesHas ==
  /\ Idle \in Accesses /\ Asleep \in Accesses
  /\ \A c \in {"time", "clear", "handler"}, i \in {1, 2} : <<c, i>> \in Accesses
  /\ \A c \in {"intr", "rearm"}, i \in 1 .. 4 : <<c, i>> \in Accesses
  /\ \A c \in Callers, i \in 1 .. 3 : <<c, i>> \in Accesses
  /\ \A i \in 1 .. 3 : <<"trap", i>> \in Accesses
  /\ \A c : Back(c) \in Accesses
BY DEF Accesses, Back

(* The top of a stack and what is below it.                                *)
LEMMA LastAndFront ==
  ASSUME NEW S, NEW s \in Seq(S), s # <<>>
  PROVE  /\ Len(s) \in Nat \ {0} /\ Len(s) \in DOMAIN s
         /\ Last(s) = s[Len(s)] /\ Last(s) \in S
         /\ Front(s) \in Seq(S) /\ Len(Front(s)) = Len(s) - 1
         /\ \A i \in DOMAIN Front(s) : i \in DOMAIN s /\ Front(s)[i] = s[i]
<1>1. Len(s) \in Nat \ {0} /\ DOMAIN s = 1 .. Len(s)
  BY EmptySeq
<1>2. Last(s) = s[Len(s)] /\ Last(s) \in S
  BY <1>1 DEF Last
<1>3. Front(s) \in Seq(S) /\ Len(Front(s)) = Len(s) - 1
  BY <1>1, SubSeqProperties DEF Front
<1>4. ASSUME NEW i \in DOMAIN Front(s) PROVE i \in DOMAIN s /\ Front(s)[i] = s[i]
  <2>1. i \in 1 .. Len(s) - 1
    BY <1>3
  <2>2. QED
    BY <1>1, <2>1, SubSeqProperties DEF Front
<1>5. QED
  BY <1>1, <1>2, <1>3, <1>4

LEMMA FrontOfPair ==
  ASSUME NEW S, NEW s \in Seq(S), Len(s) = 2
  PROVE  Front(s) = <<s[1]>> /\ Len(Front(s)) = 1 /\ Front(s)[1] = s[1] /\ Front(s) # <<>>
<1>1. s # <<>>
  OBVIOUS
<1>2. Front(s) \in Seq(S) /\ Len(Front(s)) = 1
  <2>1. Front(s) \in Seq(S) /\ Len(Front(s)) = Len(s) - 1
    BY <1>1, LastAndFront
  <2>2. QED
    BY <2>1
<1>3. 1 \in DOMAIN Front(s)
  BY <1>2
<1>4. Front(s)[1] = s[1]
  BY <1>1, <1>3, LastAndFront
<1>5. QED
  BY <1>2, <1>4

LEMMA AppendToOne ==
  ASSUME NEW x, NEW y
  PROVE  Append(<<x>>, y) = <<x, y>>
<1> DEFINE S == {x, y}
           s == Append(<<x>>, y)
           t == <<x, y>>
<1>1. <<x>> \in Seq(S) /\ Len(<<x>>) = 1 /\ <<x>>[1] = x
  OBVIOUS
<1>2. s \in Seq(S) /\ Len(s) = 2 /\ s[1] = x /\ s[2] = y
  BY <1>1, AppendProperties
<1>3. t \in Seq(S) /\ Len(t) = 2 /\ t[1] = x /\ t[2] = y
  OBVIOUS
<1>4. Len(s) = Len(t) /\ \A i \in 1 .. Len(s) : s[i] = t[i]
  BY <1>2, <1>3
<1>5. s = t
  <2> HIDE DEF s, t
  <2>1. QED
    BY <1>2, <1>3, <1>4, SeqEqual
<1>6. QED
  BY <1>5

(* Every step keeps the types.                                             *)
LEMMA TypeStep == TypeInv /\ [Next]_vars => TypeInv'
<1> SUFFICES ASSUME TypeInv, [Next]_vars PROVE TypeInv'
  OBVIOUS
<1>1. CASE UNCHANGED vars
  BY <1>1 DEF TypeInv, TypeOK, vars, timerVars, callVars, histVars, trapVars, Accesses, Stores, Regs
<1> SUFFICES ASSUME Next PROVE TypeInv'
  BY <1>1
<1>2. mtime < MaxTime /\ async_r' \in BOOLEAN
  BY DEF Next, intrpt_timer_async, TypeInv, TypeOK
<1>3. TypeOK /\ csr_cycle = mtime /\ TypeOK!1
  BY DEF TypeInv, TypeOK
<1>10. CASE Library /\ UNCHANGED <<mie, mepc, posted, frames, from>>
  <2> DEFINE Accessed == mtime' \in 0 .. MaxTime /\ csr_cycle' = mtime'
                         /\ mtimecmp' \in 0 .. WORD * WORD - 1
             Registered == {hi', lo'} \subseteq 0 .. WORD - 1 /\ tend' \in 0 .. WORD * WORD - 1
                  /\ delay' \in Delays \union Rearm \union {0}
             Recorded == start' \in 0 .. MaxTime /\ due' \in {None} \union (0 .. MaxTime)
                      /\ {torn', stale', asks'} \subseteq BOOLEAN
             Controlled == {pc', last'} \subseteq Accesses
  <2>1. ASSUME Accessed, Registered, Recorded, Controlled
        PROVE TypeInv'
    BY <2>1, <1>2, <1>3, <1>10 DEF TypeInv, TypeOK, Accesses, Stores, Regs
  <2>2. CASE \/ CallGetTime \/ CallClear \/ CallCycle
             \/ \E d \in Delays : CallGetInterrupt(d) \/ CallSleep(d)
    <3>1. Accessed
      BY <2>2, <1>2, <1>3, ReadsType
      DEF CallGetTime, CallClear, CallCycle, CallGetInterrupt, CallSleep, Call, TypeOK
    <3>2. Registered /\ Recorded
      BY <2>2, <1>3
      DEF CallGetTime, CallClear, CallCycle, CallGetInterrupt, CallSleep, Call, callVars, TypeOK
    <3>3. Controlled
      BY <2>2, AccessesHas
      DEF CallGetTime, CallClear, CallCycle, CallGetInterrupt, CallSleep, Call, Access, Callers
    <3>4. QED
      BY <2>1, <3>1, <3>2, <3>3
  <2>3. CASE \/ \E c \in {"time", "intr", "rearm"} : ReadHi(c)
             \/ \E c \in Callers : ReadCycleH(c) \/ ReadCycle(c) \/ CycleRetries(c)
             \/ GetTimeReturns \/ CycleReturns \/ SleepGoesOn \/ SleepReturns
    <3>1. Accessed
      BY <2>3, <1>2, <1>3, ReadsType
      DEF ReadHi, ReadCycleH, ReadCycle, CycleRetries, GetTimeReturns, CycleReturns,
          SleepGoesOn, SleepReturns, TypeOK
    <3>2. Registered /\ Recorded
      <4>1. Hi(mtime) \in 0 .. WORD - 1 /\ Lo(mtime) \in 0 .. WORD - 1
        BY <1>3, TimesInRange, HiInRange, Halves DEF TypeOK
      <4>2. QED
        BY <2>3, <1>3, <4>1
        DEF ReadHi, ReadCycleH, ReadCycle, CycleRetries, GetTimeReturns, CycleReturns,
            SleepGoesOn, SleepReturns, callVars, histVars, TypeOK
    <3>3. Controlled
      BY <2>3, AccessesHas
      DEF ReadHi, ReadCycleH, ReadCycle, CycleRetries, GetTimeReturns, CycleReturns,
          SleepGoesOn, SleepReturns, Access, Callers
    <3>4. QED
      BY <2>1, <3>1, <3>2, <3>3
  <2>4. CASE \E c \in {"intr", "rearm"} : ReadIntrLo(c) \/ WriteHi(c) \/ WriteLo(c)
    <3>1. Accessed
      BY <2>4, <1>2, <1>3, ReadsType, TakesType DEF ReadIntrLo, WriteHi, WriteLo, TypeOK
    <3>2. Registered /\ Recorded
      <4>1. ASSUME NEW c, ReadIntrLo(c)
            PROVE  Registered /\ Recorded
        <5>1. mtime + delay \in 0 .. MaxTime
          BY <4>1, <1>3, TimerDriverAssumption DEF ReadIntrLo, InTime, TypeOK
        <5>2. tend' \in 0 .. WORD * WORD - 1
          <6>1. curtime + delay \in Nat
            <7>1. hi \in Nat /\ mtime \in Nat /\ delay \in Nat
              BY <1>3, TimesInRange, TimerDriverAssumption, TimerWbAssumption DEF TypeOK
            <7>2. curtime \in Nat
              BY <7>1, Halves, HalvesOfBoth DEF curtime
            <7>3. QED
              BY <7>1, <7>2
          <6>2. \A t \in Nat : Wide(t) \in 0 .. WORD * WORD - 1
            BY TimerWbAssumption, TimesInRange DEF Wide
          <6>3. QED
            BY <4>1, <6>1, <6>2 DEF ReadIntrLo
        <5>3. QED
          BY <4>1, <5>1, <5>2, <1>3 DEF ReadIntrLo, TypeOK
      <4>2. QED
        BY <2>4, <4>1, <1>2, <1>3, TakesType DEF WriteHi, WriteLo, callVars, TypeOK
    <3>3. Controlled
      BY <2>4, AccessesHas DEF ReadIntrLo, WriteHi, WriteLo, Access
    <3>4. QED
      BY <2>1, <3>1, <3>2, <3>3
  <2>5. CASE \E c \in {"clear", "handler"} : ClearHi(c) \/ ClearLo(c)
    <3>1. Accessed
      BY <2>5, <1>2, TakesType DEF ClearHi, ClearLo
    <3>2. Registered /\ Recorded
      BY <2>5, <1>2, <1>3, TakesType DEF ClearHi, ClearLo, callVars, TypeOK
    <3>3. Controlled
      BY <2>5, AccessesHas DEF ClearHi, ClearLo, Access
    <3>4. QED
      BY <2>1, <3>1, <3>2, <3>3
  <2>6. CASE SleepBegins
    <3>1. Accessed
      BY <2>6, <1>2, <1>3, ReadsType DEF SleepBegins, TypeOK
    <3>2. Registered /\ Recorded
      <4>1. csr_cycle \in Nat /\ delay \in Nat /\ lo \in 0 .. WORD - 1
        BY <1>3, TimesInRange, TimerDriverAssumption DEF TypeOK
      <4>2. cycles + delay \in Nat
        <5>1. cycles \in Nat
          BY <4>1, Halves, HalvesOfBoth DEF cycles
        <5>2. QED
          BY <4>1, <5>1
      <4>3. \A t \in Nat : Wide(t) \in 0 .. WORD * WORD - 1
        BY TimerWbAssumption, TimesInRange DEF Wide
      <4>4. QED
        BY <2>6, <1>3, <4>2, <4>3 DEF SleepBegins, histVars, TypeOK
    <3>3. Controlled
      BY <2>6, AccessesHas DEF SleepBegins, Access, Callers
    <3>4. QED
      BY <2>1, <3>1, <3>2, <3>3
  <2>7. QED
    BY <1>10, <2>2, <2>3, <2>4, <2>5, <2>6 DEF Library
<1>11. CASE (Tick \/ Wfi \/ Wakes) /\ UNCHANGED <<mie, mepc, posted, frames, from>>
  <2>1. {pc', last'} \subseteq Accesses /\ UNCHANGED <<callVars, histVars>>
    BY <1>3, <1>11, AccessesHas DEF Tick, Wfi, Wakes, TypeOK
  <2>2. ReadOnly
    BY <1>11 DEF Tick, Wfi, Wakes
  <2>3. QED
    BY <1>2, <1>3, <1>11, <2>1, <2>2, ReadsType
    DEF TypeInv, TypeOK, Stores, callVars, histVars, Regs
<1>12. CASE \E b \in BOOLEAN : EnableInt(b) /\ UNCHANGED <<mepc, posted, frames, from>>
  BY <1>2, <1>3, <1>12, ReadsType DEF EnableInt, TypeInv, TypeOK, Stores, callVars, histVars, Regs
<1>13. CASE Prologue /\ UNCHANGED <<mie, posted>>
  <2>1. {pc', last'} \subseteq Accesses /\ UNCHANGED <<callVars, histVars, mepc, from>>
    BY <1>13, AccessesHas DEF Prologue
  <2>2. callVars \in Regs /\ mepc \in Accesses
    BY <1>3 DEF callVars, Regs, TypeOK
  <2>3. frames' \in Seq([mepc : Accesses, regs : Regs])
    BY <1>13, <2>2 DEF Prologue, TypeInv
  <2>4. (frames \in Seq([mepc : Accesses, regs : Regs]))'
    BY <2>3 DEF Regs
  <2>5. QED
    BY <1>2, <1>3, <1>13, <2>1, <2>4, ReadsType
    DEF Prologue, TypeInv, TypeOK, Stores, callVars, histVars
<1>14. CASE Epilogue /\ UNCHANGED <<mie, posted>>
  <2>1. Last(frames) \in [mepc : Accesses, regs : Regs]
    BY <1>14, LastAndFront DEF Epilogue, TypeInv
  <2>2. {pc', last', mepc'} \subseteq Accesses /\ UNCHANGED <<histVars, frames, from>>
    BY <1>14, <2>1, AccessesHas DEF Epilogue, Access
  <2>3. /\ {hi', lo'} \subseteq 0 .. WORD - 1 /\ tend' \in 0 .. WORD * WORD - 1
        /\ delay' \in Delays \union Rearm \union {0}
    BY <1>14, <2>1 DEF Epilogue, Regs
  <2>4. QED
    BY <1>2, <1>3, <1>14, <2>2, <2>3, ReadsType
    DEF Epilogue, TypeInv, TypeOK, Stores, histVars, Regs
<1>15. CASE Mret /\ UNCHANGED <<mie, posted>>
  <2>1. {pc', last', mepc'} \subseteq Accesses /\ UNCHANGED <<callVars, histVars>>
    BY <1>3, <1>15 DEF Mret, TypeOK
  <2>2. frames' \in Seq([mepc : Accesses, regs : Regs])
    BY <1>15, LastAndFront DEF Mret, TypeInv
  <2>3. from' \in Seq(SUBSET Accesses)
    BY <1>15 DEF Mret, TypeInv, Front
  <2>4. QED
    BY <1>2, <1>3, <1>15, <2>1, <2>2, <2>3, ReadsType
    DEF Mret, TypeInv, TypeOK, Stores, callVars, histVars, Regs
<1>16. CASE Trap
  <2>1. {pc', last', mepc'} \subseteq Accesses
    BY <1>3, <1>16, AccessesHas DEF Trap, Saved, TypeOK
  <2>2. from' \in Seq(SUBSET Accesses)
    <3>1. (IF pc = Asleep THEN {Idle} ELSE {pc, last}) \in SUBSET Accesses
      BY <1>3, AccessesHas DEF TypeOK
    <3>2. QED
      BY <1>16, <3>1 DEF Trap, TypeInv
  <2>3. /\ mtime' \in 0 .. MaxTime /\ csr_cycle' = mtime' /\ mtimecmp' \in 0 .. WORD * WORD - 1
        /\ due' \in {None, due} /\ asks' \in {asks, FALSE} /\ UNCHANGED <<start, torn, stale>>
    BY <1>2, <1>3, <1>16, ReadsType, TakesType DEF Trap, histVars, TypeOK
  <2>4. posted' \in Stores \union {NoStore} /\ mie' \in BOOLEAN
    BY <1>3, <1>16 DEF Trap, TypeOK
  <2>5. QED
    BY <1>2, <1>3, <1>16, <2>1, <2>2, <2>3, <2>4 DEF Trap, TypeInv, TypeOK, Stores, callVars, Regs
<1>17. CASE Completes
  BY <1>2, <1>3, <1>17, TakesType DEF Completes, TypeInv, TypeOK, Stores, callVars, Regs
<1>18. QED
  BY <1>10, <1>11, <1>12, <1>13, <1>14, <1>15, <1>16, <1>17 DEF Next, Program

(* The registers of the timer and of the driver keep their ranges: no time *)
(* is cut off by the width of the comparator or of the cycle counter.      *)
THEOREM TimerTypeCorrect == Spec => []TypeOK
<1>1. TypeInv => TypeOK
  BY DEF TypeInv
<1>2. QED
  BY <1>1, InitType, TypeStep, PTL DEF Spec

-----------------------------------------------------------------------------
(* Where nothing is being read; and where something is.                    *)
Elsewhere == {Idle, Asleep} \union ({"time", "clear"} \X {1, 2}) \union ({"intr"} \X (1 .. 4))
Reading == (Callers \X {2, 3}) \union ({"asleep"} \X (1 .. 3))

LEMMA Places ==
  /\ HandlerAccesses \cap Reading = {} /\ Elsewhere \cap Reading = {}
  /\ HandlerAccesses \cap (Elsewhere \union Reading) = {}
  /\ \A i \in 1 .. 3 : <<"trap", i>> \in HandlerAccesses
  /\ \A i \in 1 .. 2 : <<"handler", i>> \in HandlerAccesses
  /\ \A i \in 1 .. 4 : <<"rearm", i>> \in HandlerAccesses /\ <<"intr", i>> \in Elsewhere
  /\ \A i \in 1 .. 2 : <<"time", i>> \in Elsewhere /\ <<"clear", i>> \in Elsewhere
  /\ Idle \in Elsewhere /\ Asleep \in Elsewhere
  /\ \A c \in Callers, i \in 1 .. 3 : <<c, i>> \notin HandlerAccesses
  /\ \A c \in Callers \ {"asleep"} : <<c, 1>> \notin Reading
BY DEF HandlerAccesses, Elsewhere, Reading, Callers, Idle, Asleep

LEMMA ReadsNothing ==
  ASSUME NEW p, p \notin Reading, NEW regs, NEW s, NEW now
  PROVE  ReadsAt(p, regs, s, now)
BY DEF Reading, ReadsAt, Callers

LEMMA ReadsLater ==
  ASSUME NEW p, NEW regs, NEW s \in Nat, NEW now \in Nat, NEW then \in Nat, now <= then,
         ReadsAt(p, regs, s, now)
  PROVE  ReadsAt(p, regs, s, then)
<1>1. s .. now \subseteq s .. then
  OBVIOUS
<1>2. QED
  BY <1>1 DEF ReadsAt

(* cycle(): when both readings of the high half agree, the low half was    *)
(* read while it had that value.                                           *)
LEMMA ReadingsAgree ==
  ASSUME NEW s \in Nat, NEW now \in Nat,
         NEW t \in s .. now, NEW u \in s .. now, t <= u, Hi(t) = Hi(now)
  PROVE  Both(Hi(now), Lo(u)) = u
<1>1. t \in Nat /\ u \in Nat
  OBVIOUS
<1>2. Hi(t) <= Hi(u) /\ Hi(u) <= Hi(now) /\ {Hi(t), Hi(u), Hi(now)} \subseteq Nat
  BY <1>1, HiMonotonic, Halves
<1>3. Hi(u) = Hi(now)
  BY <1>2
<1>4. QED
  BY <1>1, <1>3, Halves

(* A library function runs where it was called: in the handler or outside. *)
LEMMA LibraryStays ==
  ASSUME Library
  PROVE  /\ last' = pc /\ pc' \notin {<<"trap", 1>>, <<"trap", 3>>}
         /\ pc' \in HandlerAccesses <=> pc \in HandlerAccesses
<1> DEFINE Stays == /\ last' = pc /\ pc' \notin {<<"trap", 1>>, <<"trap", 3>>}
                    /\ pc' \in HandlerAccesses <=> pc \in HandlerAccesses
<1> USE DEF HandlerAccesses, Access, Callers, Idle
<1>1. CASE \/ CallGetTime \/ CallClear \/ CallCycle
           \/ \E d \in Delays : CallGetInterrupt(d) \/ CallSleep(d)
  BY <1>1 DEF CallGetTime, CallClear, CallCycle, CallGetInterrupt, CallSleep, Call
<1>2. CASE \E c \in {"time", "intr", "rearm"} : ReadHi(c)
  BY <1>2 DEF ReadHi
<1>3. CASE \E c \in {"intr", "rearm"} : ReadIntrLo(c) \/ WriteHi(c) \/ WriteLo(c)
  <2>1. ASSUME NEW c \in {"intr", "rearm"}, ReadIntrLo(c) \/ WriteHi(c) PROVE Stays
    BY <2>1 DEF ReadIntrLo, WriteHi
  <2>2. ASSUME WriteLo("intr") PROVE Stays
    BY <2>2 DEF WriteLo, Back
  <2>3. ASSUME WriteLo("rearm") PROVE Stays
    BY <2>3 DEF WriteLo, Back
  <2>4. QED
    BY <1>3, <2>1, <2>2, <2>3
<1>4. CASE \E c \in {"clear", "handler"} : ClearHi(c) \/ ClearLo(c)
  <2>1. ASSUME NEW c \in {"clear", "handler"}, ClearHi(c) PROVE Stays
    BY <2>1 DEF ClearHi
  <2>2. ASSUME ClearLo("clear") PROVE Stays
    BY <2>2 DEF ClearLo, Back
  <2>3. ASSUME ClearLo("handler") PROVE Stays
    BY <2>3 DEF ClearLo, Back
  <2>4. QED
    BY <1>4, <2>1, <2>2, <2>3
<1>5. CASE \/ \E c \in Callers : ReadCycleH(c) \/ ReadCycle(c) \/ CycleRetries(c)
           \/ GetTimeReturns \/ CycleReturns \/ SleepBegins \/ SleepGoesOn \/ SleepReturns
  BY <1>5 DEF ReadCycleH, ReadCycle, CycleRetries, GetTimeReturns, CycleReturns,
              SleepBegins, SleepGoesOn, SleepReturns
<1>6. QED
  BY <1>1, <1>2, <1>3, <1>4, <1>5 DEF Library

LEMMA StackStep == TypeInv /\ StackInv /\ [Next]_vars => StackInv'
<1> SUFFICES ASSUME TypeInv, StackInv, [Next]_vars PROVE StackInv'
  OBVIOUS
<1>0. CASE UNCHANGED vars
  BY <1>0 DEF StackInv, HandlerAccesses, vars, trapVars
<1> SUFFICES ASSUME Next PROVE StackInv'
  BY <1>0
<1>1. ASSUME UNCHANGED <<frames, mepc>>, last' \in {pc, last},
             pc' \in HandlerAccesses <=> pc \in HandlerAccesses,
             pc' \in {<<"trap", 1>>, <<"trap", 3>>} => pc' = pc
      PROVE  StackInv'
  BY <1>1 DEF StackInv, HandlerAccesses
<1>2. CASE (Tick \/ Library) /\ UNCHANGED <<mie, mepc, posted, frames, from>>
  <2>1. CASE Tick
    BY <2>1, <1>1, <1>2 DEF Tick
  <2>2. CASE Library
    BY <2>2, <1>1, <1>2, LibraryStays
  <2>3. QED
    BY <1>2, <2>1, <2>2
<1>3. CASE (Wfi \/ Wakes) /\ UNCHANGED <<mie, mepc, posted, frames, from>>
  BY <1>3 DEF Wfi, Wakes, Idle, Asleep, StackInv, HandlerAccesses
<1>4. CASE Completes \/ \E b \in BOOLEAN : EnableInt(b) /\ UNCHANGED <<mepc, posted, frames, from>>
  BY <1>4, <1>1 DEF Completes, EnableInt
<1>5. CASE Prologue
  <2>1. /\ pc = <<"trap", 1>> /\ pc' = <<"handler", 1>> /\ last' = pc' /\ mepc' = mepc
        /\ frames' = Append(frames, [mepc |-> mepc, regs |-> callVars])
    BY <1>5 DEF Prologue
  <2>2. pc' \in HandlerAccesses /\ last' \in HandlerAccesses
    BY <2>1, Places
  <2>3. ASSUME NEW i \in DOMAIN frames', frames'[i].mepc \notin HandlerAccesses PROVE i = 1
    <3>1. frames \in Seq([mepc : Accesses, regs : Regs])
      BY DEF TypeInv
    <3>2. CASE i \in DOMAIN frames
      BY <2>1, <2>3, <3>1, <3>2 DEF StackInv
    <3>3. CASE i \notin DOMAIN frames
      <4>1. i = Len(frames) + 1 /\ frames'[i].mepc = mepc
        BY <2>1, <2>3, <3>1, <3>3
      <4>2. frames = <<>>
        BY <2>1, <2>3, <4>1 DEF StackInv
      <4>3. QED
        BY <4>1, <4>2
    <3>4. QED
      BY <3>2, <3>3
  <2>4. QED
    BY <2>1, <2>2, <2>3 DEF StackInv, HandlerAccesses
<1>6. CASE Epilogue
  <2>1. /\ pc = <<"trap", 2>> /\ pc' = <<"trap", 3>> /\ last' = pc /\ frames' = frames
        /\ frames # <<>> /\ mepc' = Last(frames).mepc
    BY <1>6 DEF Epilogue, Access
  <2>2. pc' \in HandlerAccesses /\ last' \in HandlerAccesses
    BY <2>1, Places
  <2>3. ASSUME mepc' \notin HandlerAccesses PROVE Len(frames) <= 1
    <3>1. Len(frames) \in Nat \ {0} /\ mepc' = frames[Len(frames)].mepc
      BY <2>1, LastAndFront DEF TypeInv
    <3>2. Len(frames) \in DOMAIN frames
      BY <3>1 DEF TypeInv
    <3>3. QED
      BY <2>3, <3>1, <3>2 DEF StackInv
  <2>4. QED
    BY <2>1, <2>2, <2>3 DEF StackInv, HandlerAccesses
<1>7. CASE Mret
  <2>1. /\ pc = <<"trap", 3>> /\ pc' = mepc /\ last' = mepc /\ mepc' = mepc
        /\ frames # <<>> /\ frames' = Front(frames)
    BY <1>7 DEF Mret
  <2>2. \A i \in DOMAIN frames' : frames'[i].mepc \notin HandlerAccesses => i = 1
    BY <2>1, LastAndFront DEF TypeInv, StackInv
  <2>3. mepc \notin HandlerAccesses => frames' = <<>>
    <3>1. Len(frames') = Len(frames) - 1 /\ Len(frames) \in Nat \ {0}
          /\ frames' \in Seq([mepc : Accesses, regs : Regs])
      BY <2>1, LastAndFront DEF TypeInv
    <3>2. mepc \notin HandlerAccesses => Len(frames) <= 1
      BY <2>1 DEF StackInv
    <3>3. Len(frames') = 0 => frames' = <<>>
      BY <3>1, EmptySeq
    <3>4. QED
      BY <3>1, <3>2, <3>3
  <2>4. QED
    BY <2>1, <2>2, <2>3, Places DEF StackInv
<1>8. CASE Trap
  <2>1. /\ pc' = <<"trap", 1>> /\ last' = pc' /\ frames' = frames
        /\ mepc' \in {Idle, pc, last}
    BY <1>8 DEF Trap, Saved
  <2>2. mepc' \notin HandlerAccesses => frames = <<>>
    <3>1. CASE pc = Asleep
      BY <3>1, Places DEF StackInv
    <3>2. CASE pc # Asleep
      BY <1>8, <3>2 DEF Trap, Saved, StackInv
    <3>3. QED
      BY <3>1, <3>2
  <2>3. QED
    BY <2>1, <2>2, Places DEF StackInv
<1>9. QED
  BY <1>2, <1>3, <1>4, <1>5, <1>6, <1>7, <1>8 DEF Next, Program

(* A step is one cycle, of both counters.                                  *)
LEMMA TimePasses ==
  ASSUME TypeInv, Next
  PROVE  /\ csr_cycle \in Nat /\ csr_cycle' = csr_cycle + 1 /\ mtime = csr_cycle
         /\ mtime' = mtime + 1 /\ start \in Nat /\ csr_cycle' \in 0 .. MaxTime
<1>1. mtime' = mtime + 1
  <2>1. CASE Library
    BY <2>1, ReadsType, TakesType
    DEF Next, Library, CallGetTime, CallClear, CallCycle, CallGetInterrupt, CallSleep, Call,
        ReadHi, ReadIntrLo, WriteHi, WriteLo, ClearHi, ClearLo, ReadCycleH, ReadCycle,
        CycleRetries, GetTimeReturns, CycleReturns, SleepBegins, SleepGoesOn, SleepReturns
  <2>2. CASE Program /\ ~Library
    BY <2>2, ReadsType, TakesType
    DEF Next, Program, Tick, Wfi, Wakes, EnableInt, Prologue, Epilogue, Mret, Completes
  <2>3. CASE Trap
    BY <2>3, ReadsType, TakesType DEF Next, Trap
  <2>4. QED
    BY <2>1, <2>2, <2>3 DEF Next
<1>2. mtime \in 0 .. MaxTime /\ mtime + 1 \in 0 .. MaxTime /\ start \in Nat
  BY TimesInRange DEF TypeInv, TypeOK, Next
<1>3. TypeInv'
  BY TypeStep
<1>4. QED
  BY <1>1, <1>2, <1>3, TimesInRange DEF TypeInv

(* The library functions keep what has been read.                          *)
LEMMA LibraryReads ==
  ASSUME TypeInv, CycleInv, Next, Library, UNCHANGED <<mepc, frames>>
  PROVE  /\ start' <= csr_cycle'
         /\ \A p \in {pc', last'} : ReadsAt(p, callVars', start', csr_cycle')
         /\ start' = start \/ frames = <<>>
<1> DEFINE Now(p) == ReadsAt(p, callVars, start, csr_cycle)
           Later(p) == ReadsAt(p, callVars', start', csr_cycle')
<1> USE DEF Access
<1>1. /\ csr_cycle \in Nat /\ csr_cycle' = csr_cycle + 1 /\ mtime = csr_cycle /\ start \in Nat
      /\ start <= csr_cycle
  BY TimePasses DEF CycleInv
<1>2. ASSUME NEW p, Now(p), UNCHANGED <<callVars, start>> PROVE Later(p)
  BY <1>1, <1>2, ReadsLater
<1>3. ASSUME NEW p, p \notin Reading PROVE Later(p)
  BY <1>3, ReadsNothing
<1>4. Now(pc) /\ Now(last)
  BY DEF CycleInv
<1>5. CASE \/ CallGetTime \/ CallClear \/ CallCycle
           \/ \E d \in Delays : CallGetInterrupt(d) \/ CallSleep(d)
  <2>1. pc = Idle /\ last' = Idle /\ start' = mtime
    BY <1>5 DEF CallGetTime, CallClear, CallCycle, CallGetInterrupt, CallSleep, Call
  <2>2. pc' \in ({"time", "clear", "intr"} \union (Callers \ {"asleep"})) \X {1}
    BY <1>5 DEF CallGetTime, CallClear, CallCycle, CallGetInterrupt, CallSleep, Call, Callers
  <2>3. pc' \notin Reading /\ last' \notin Reading
    BY <2>1, <2>2 DEF Reading, Callers, Idle
  <2>4. frames = <<>>
    BY <2>1 DEF CycleInv, StackInv, HandlerAccesses, Idle
  <2>5. QED
    BY <1>1, <1>3, <2>1, <2>3, <2>4
<1>6. CASE \/ \E c \in {"time", "intr", "rearm"} : ReadHi(c)
           \/ \E c \in {"intr", "rearm"} : ReadIntrLo(c) \/ WriteHi(c) \/ WriteLo(c)
           \/ \E c \in {"clear", "handler"} : ClearHi(c) \/ ClearLo(c)
           \/ GetTimeReturns
  <2>1. start' = start
    BY <1>6 DEF ReadHi, ReadIntrLo, WriteHi, WriteLo, ClearHi, ClearLo, Takes, GetTimeReturns, histVars
  <2>2. pc' \notin Reading /\ last' \notin Reading
    BY <1>6 DEF ReadHi, ReadIntrLo, WriteHi, WriteLo, ClearHi, ClearLo, GetTimeReturns,
                Reading, Callers, Idle, Back
  <2>3. QED
    BY <1>1, <1>3, <2>1, <2>2
<1>7. CASE \E c \in Callers : ReadCycleH(c)
  <2>1. PICK c \in Callers : ReadCycleH(c)
    BY <1>7
  <2>2. /\ last' = <<c, 1>> /\ pc' = <<c, 2>> /\ start' = start /\ pc = <<c, 1>>
        /\ hi' = Hi(csr_cycle) /\ UNCHANGED <<lo, delay, tend>>
    BY <2>1 DEF ReadCycleH, histVars
  <2>3. Now(pc) => (c = "asleep" => tend >= start + delay)
    BY <2>2 DEF ReadsAt, callVars
  <2>4. Later(pc') /\ Later(last')
    BY <1>1, <1>4, <2>2, <2>3 DEF ReadsAt, callVars
  <2>5. QED
    BY <1>1, <2>2, <2>4
<1>8. CASE \E c \in Callers : ReadCycle(c)
  <2>1. PICK c \in Callers : ReadCycle(c)
    BY <1>8
  <2>2. /\ last' = <<c, 2>> /\ pc' = <<c, 3>> /\ start' = start /\ pc = <<c, 2>>
        /\ lo' = Lo(csr_cycle) /\ UNCHANGED <<hi, delay, tend>>
    BY <2>1 DEF ReadCycle, histVars
  <2>3. (c = "asleep" => tend >= start + delay) /\ \E t \in start .. csr_cycle : hi = Hi(t)
    BY <1>4, <2>2 DEF ReadsAt, callVars
  <2>4. Later(last')
    BY <1>1, <2>2, <2>3 DEF ReadsAt, callVars
  <2>5. Later(pc')
    <3>1. PICK t \in start .. csr_cycle : hi = Hi(t)
      BY <2>3
    <3>2. t \in start' .. csr_cycle' /\ csr_cycle \in start' .. csr_cycle' /\ t <= csr_cycle
      BY <1>1, <2>2
    <3>3. QED
      BY <2>2, <2>3, <3>1, <3>2 DEF ReadsAt, callVars
  <2>6. QED
    BY <1>1, <2>2, <2>4, <2>5
<1>9. CASE \/ \E c \in Callers : CycleRetries(c)
           \/ CycleReturns \/ SleepGoesOn \/ SleepReturns
  <2>1. /\ last' = pc /\ UNCHANGED <<callVars, start>>
        /\ \/ pc' \notin Reading
           \/ pc' = <<"asleep", 1>> /\ pc = <<"asleep", 3>>
    BY <1>9 DEF CycleRetries, CycleReturns, SleepGoesOn, SleepReturns, histVars, Reading, Callers, Idle
  <2>2. Later(last')
    BY <1>2, <1>4, <2>1
  <2>3. ASSUME pc' = <<"asleep", 1>>, pc = <<"asleep", 3>> PROVE Later(pc')
    <3>1. tend >= start + delay
      BY <1>4, <2>3 DEF ReadsAt, callVars
    <3>2. QED
      BY <2>1, <2>3, <3>1 DEF ReadsAt, callVars
  <2>4. QED
    BY <1>1, <1>3, <2>1, <2>2, <2>3
<1>10. CASE SleepBegins
  <2>1. /\ last' = <<"sleep", 3>> /\ pc = <<"sleep", 3>> /\ pc' = <<"asleep", 1>>
        /\ UNCHANGED <<hi, lo, delay, start>> /\ hi = Hi(csr_cycle)
        /\ csr_cycle + delay <= MaxTime /\ tend' = Wide(cycles + delay)
    BY <1>10 DEF SleepBegins, histVars, agrees, InTime
  <2>2. PICK t, u \in start .. csr_cycle : t <= u /\ hi = Hi(t) /\ lo = Lo(u)
    BY <1>4, <2>1 DEF ReadsAt, Callers, callVars
  <2>3. cycles = u
    BY <1>1, <2>1, <2>2, ReadingsAgree DEF cycles
  <2>4. delay \in Nat
    <3>1. delay \in Delays \union Rearm \union {0}
      BY DEF TypeInv, TypeOK
    <3>2. QED
      BY <3>1, TimerDriverAssumption
  <2>5. tend' = u + delay
    BY <1>1, <2>1, <2>2, <2>3, <2>4, TimesInRange
  <2>6. Later(pc')
    BY <1>1, <2>1, <2>2, <2>4, <2>5 DEF ReadsAt, callVars, Callers
  <2>7. Later(last')
    BY <1>1, <2>1, <2>2 DEF ReadsAt, callVars, Callers
  <2>8. QED
    BY <1>1, <2>1, <2>6, <2>7
<1>11. QED
  BY <1>5, <1>6, <1>7, <1>8, <1>9, <1>10 DEF Library

LEMMA InitCycle == Init => CycleInv
BY Places, ReadsNothing, TimesInRange
DEF Init, TimerInit, CycleInv, StackInv

LEMMA CycleStep == TypeInv /\ CycleInv /\ [Next]_vars => CycleInv'
<1> SUFFICES ASSUME TypeInv, CycleInv, [Next]_vars PROVE CycleInv'
  OBVIOUS
<1>0. CASE UNCHANGED vars
  BY <1>0 DEF CycleInv, StackInv, ReadsAt, HandlerAccesses, vars, timerVars, callVars, histVars, trapVars
<1> SUFFICES ASSUME Next PROVE CycleInv'
  BY <1>0
<1> DEFINE Now(p) == ReadsAt(p, callVars, start, csr_cycle)
           Later(p) == ReadsAt(p, callVars', start', csr_cycle')
           Frames == \A i \in DOMAIN frames :
                       ReadsAt(frames[i].mepc, frames[i].regs, start, csr_cycle)
<1>1. StackInv'
  BY StackStep DEF CycleInv
<1>2. /\ csr_cycle \in Nat /\ csr_cycle' = csr_cycle + 1 /\ start \in Nat
      /\ start <= csr_cycle /\ csr_cycle <= csr_cycle'
  BY TimePasses DEF CycleInv
<1>3. ASSUME NEW p, Now(p), UNCHANGED <<callVars, start>> PROVE Later(p)
  BY <1>2, <1>3, ReadsLater
<1>4. ASSUME NEW p, p \notin Reading PROVE Later(p)
  BY <1>4, ReadsNothing
<1>5. ASSUME start' <= csr_cycle', Later(pc'), Later(last'), Frames',
             pc' \in {<<"trap", 1>>, <<"trap", 3>>} => Later(mepc')
      PROVE  CycleInv'
  BY <1>1, <1>5 DEF CycleInv
<1>6. ASSUME frames' = frames, start' = start \/ frames = <<>> PROVE Frames'
  <2>1. CASE frames = <<>>
    BY <1>6, <2>1
  <2>2. CASE start' = start
    <3>1. ASSUME NEW i \in DOMAIN frames
          PROVE  ReadsAt(frames[i].mepc, frames[i].regs, start, csr_cycle')
      BY <3>1, <1>2, ReadsLater DEF CycleInv
    <3>2. QED
      BY <1>6, <2>2, <3>1
  <2>3. QED
    BY <1>6, <2>1, <2>2
<1>7. Now(pc) /\ Now(last) /\ (pc \in {<<"trap", 1>>, <<"trap", 3>>} => Now(mepc)) /\ Frames
  BY DEF CycleInv
<1>8. CASE Library /\ UNCHANGED <<mie, mepc, posted, frames, from>>
  BY <1>5, <1>6, <1>8, LibraryReads, LibraryStays
<1>9. CASE \/ (Tick \/ Wfi \/ Wakes) /\ UNCHANGED <<mie, mepc, posted, frames, from>>
           \/ Completes \/ \E b \in BOOLEAN : EnableInt(b) /\ UNCHANGED <<mepc, posted, frames, from>>
  <2>1. UNCHANGED <<callVars, start, mepc, frames>>
    BY <1>9 DEF Tick, Wfi, Wakes, Completes, Takes, EnableInt, histVars
  <2>2. pc' \in {pc, Idle, Asleep} /\ last' \in {last, Idle}
    BY <1>9 DEF Tick, Wfi, Wakes, Completes, EnableInt
  <2>3. Later(pc') /\ Later(last')
    BY <1>3, <1>4, <1>7, <2>1, <2>2, Places
  <2>4. pc' \in {<<"trap", 1>>, <<"trap", 3>>} => Later(mepc')
    BY <1>3, <1>7, <2>1, <2>2 DEF Idle, Asleep
  <2>5. QED
    BY <1>2, <1>5, <1>6, <2>1, <2>3, <2>4
<1>10. CASE Prologue
  <2>1. /\ pc = <<"trap", 1>> /\ pc' = <<"handler", 1>> /\ last' = pc' /\ mepc' = mepc
        /\ frames' = Append(frames, [mepc |-> mepc, regs |-> callVars])
        /\ UNCHANGED <<callVars, start>>
    BY <1>10 DEF Prologue, histVars
  <2>2. Later(pc') /\ Later(last')
    BY <1>4, <2>1, Places
  <2>3. ASSUME NEW i \in DOMAIN frames'
        PROVE  ReadsAt(frames'[i].mepc, frames'[i].regs, start', csr_cycle')
    <3>1. frames \in Seq([mepc : Accesses, regs : Regs])
      BY DEF TypeInv
    <3>2. CASE i \in DOMAIN frames
      <4>1. frames'[i] = frames[i]
        BY <2>1, <3>1, <3>2
      <4>2. QED
        BY <4>1, <1>2, <1>7, <2>1, <3>2, ReadsLater
    <3>3. CASE i \notin DOMAIN frames
      <4>1. frames'[i] = [mepc |-> mepc, regs |-> callVars]
        BY <2>1, <2>3, <3>1, <3>3
      <4>2. QED
        BY <4>1, <1>3, <1>7, <2>1
    <3>4. QED
      BY <3>2, <3>3
  <2>4. QED
    BY <1>2, <1>5, <2>1, <2>2, <2>3
<1>11. CASE Epilogue
  <2>1. /\ pc = <<"trap", 2>> /\ pc' = <<"trap", 3>> /\ last' = pc /\ frames' = frames
        /\ frames # <<>> /\ mepc' = Last(frames).mepc /\ start' = start
        /\ hi' = Last(frames).regs[1] /\ lo' = Last(frames).regs[2]
        /\ delay' = Last(frames).regs[3] /\ tend' = Last(frames).regs[4]
    BY <1>11 DEF Epilogue, Access, histVars
  <2>2. Later(pc') /\ Later(last')
    BY <1>4, <2>1, Places
  <2>3. Later(mepc')
    <3>1. Len(frames) \in DOMAIN frames /\ Last(frames) = frames[Len(frames)]
      BY <2>1, LastAndFront DEF TypeInv
    <3>2. ReadsAt(Last(frames).mepc, Last(frames).regs, start, csr_cycle')
      BY <1>2, <1>7, <3>1, ReadsLater
    <3>3. QED
      BY <2>1, <3>2 DEF ReadsAt, callVars
  <2>4. QED
    BY <1>2, <1>5, <1>6, <2>1, <2>2, <2>3
<1>12. CASE Mret
  <2>1. /\ pc = <<"trap", 3>> /\ pc' = mepc /\ last' = mepc /\ mepc' = mepc
        /\ frames # <<>> /\ frames' = Front(frames) /\ UNCHANGED <<callVars, start>>
    BY <1>12 DEF Mret, histVars
  <2>2. Later(mepc)
    BY <1>3, <1>7, <2>1
  <2>3. ASSUME NEW i \in DOMAIN frames'
        PROVE  ReadsAt(frames'[i].mepc, frames'[i].regs, start', csr_cycle')
    <3>1. i \in DOMAIN frames /\ frames'[i] = frames[i]
      BY <2>1, LastAndFront DEF TypeInv
    <3>2. QED
      BY <3>1, <1>2, <1>7, <2>1, ReadsLater
  <2>4. QED
    BY <1>2, <1>5, <2>1, <2>2, <2>3
<1>13. CASE Trap
  <2>1. /\ pc' = <<"trap", 1>> /\ last' = pc' /\ frames' = frames
        /\ mepc' \in {Idle, pc, last} /\ UNCHANGED <<callVars, start>>
    BY <1>13 DEF Trap, Takes, Saved, histVars
  <2>2. Later(pc') /\ Later(last')
    BY <1>4, <2>1, Places
  <2>3. Later(mepc')
    BY <1>3, <1>4, <1>7, <2>1, Places
  <2>4. QED
    BY <1>2, <1>5, <1>6, <2>1, <2>2, <2>3
<1>14. QED
  BY <1>8, <1>9, <1>10, <1>11, <1>12, <1>13 DEF Next, Program

LEMMA CycleStays == Spec => [](TypeInv /\ CycleInv)
BY InitType, TypeStep, InitCycle, CycleStep, PTL DEF Spec

(* cycle() (time.c 7-31) returns a time between its call and its return,   *)
(* for every program, every handler and every wrap-around of the low half. *)
THEOREM CycleReadsCurrent == Spec => CycleIsCurrent
<1>1. ASSUME TypeInv, CycleInv, [Next]_vars
      PROVE  [CycleReturns => cycles \in start .. csr_cycle]_vars
  <2> SUFFICES ASSUME Next, CycleReturns PROVE cycles \in start .. csr_cycle
    BY <1>1
  <2>1. start \in Nat /\ csr_cycle \in Nat
    BY <1>1, TimePasses
  <2>2. pc = <<"cycle", 3>> /\ hi = Hi(csr_cycle)
    BY DEF CycleReturns, Access, agrees
  <2>3. PICK t, u \in start .. csr_cycle : t <= u /\ hi = Hi(t) /\ lo = Lo(u)
    BY <1>1, <2>2 DEF CycleInv, ReadsAt, Callers, callVars
  <2>4. cycles = u
    BY <2>1, <2>2, <2>3, ReadingsAgree DEF cycles
  <2>5. QED
    BY <2>3, <2>4
<1>2. QED
  BY <1>1, CycleStays, PTL DEF Spec, CycleIsCurrent

(* sleep_ms (time.c 34-40) never returns before its time, whatever         *)
(* interrupts it.                                                          *)
THEOREM SleepNeverShort == Spec => SleepsLongEnough
<1>1. ASSUME TypeInv, CycleInv, [Next]_vars
      PROVE  [SleepReturns => csr_cycle >= start + delay]_vars
  <2> SUFFICES ASSUME Next, SleepReturns PROVE csr_cycle >= start + delay
    BY <1>1
  <2>1. start \in Nat /\ csr_cycle \in Nat
    BY <1>1, TimePasses
  <2>2. pc = <<"asleep", 3>> /\ hi = Hi(csr_cycle) /\ cycles >= tend
    BY DEF SleepReturns, Access, agrees
  <2>3. PICK t, u \in start .. csr_cycle : t <= u /\ hi = Hi(t) /\ lo = Lo(u)
    BY <1>1, <2>2 DEF CycleInv, ReadsAt, Callers, callVars
  <2>4. tend >= start + delay
    BY <1>1, <2>2 DEF CycleInv, ReadsAt, callVars
  <2>5. cycles = u
    BY <2>1, <2>2, <2>3, ReadingsAgree DEF cycles
  <2>6. delay \in Nat /\ tend \in Nat
    <3>1. delay \in Delays \union Rearm \union {0} /\ tend \in 0 .. WORD * WORD - 1
      BY <1>1 DEF TypeInv, TypeOK
    <3>2. QED
      BY <3>1, TimerDriverAssumption, TimesInRange
  <2>7. QED
    BY <2>1, <2>2, <2>3, <2>4, <2>5, <2>6
<1>2. QED
  BY <1>1, CycleStays, PTL DEF Spec, SleepsLongEnough

-----------------------------------------------------------------------------
LEMMA InitLine == Init => LineInv
<1> SUFFICES ASSUME Init PROVE LineInv
  OBVIOUS
<1>1. TypeInv
  BY InitType
<1>2. mtimecmp = Both(AllOnes, AllOnes) /\ AllOnes \in Nat /\ AllOnes \in 0 .. WORD - 1
  BY TimerWbAssumption DEF Init, TimerInit, AllOnes
<1>3. Hi(mtimecmp) = AllOnes
  BY <1>2, HalvesOfBoth
<1>4. NestInv /\ PostedInv /\ EdgeInv
  BY DEF Init, NestInv, PostedInv, EdgeInv, Handling, InHandler, Idle
<1>5. RequestInv
  BY <1>3 DEF Init, RequestInv, QuietInv, Positions, Handling, InHandler, Idle, NoStore
<1>6. QED
  BY <1>1, <1>4, <1>5 DEF LineInv

(* A cleared request keeps the line down to the end of the run.            *)
LEMMA Late ==
  ASSUME TypeInv, Hi(mtimecmp) = AllOnes
  PROVE  ~int_o /\ mtimecmp > MaxTime
<1>1. mtimecmp \in Nat /\ mtime \in 0 .. MaxTime
  BY TimesInRange DEF TypeInv, TypeOK
<1>2. QED
  BY <1>1, ClearedIsLate, TimesInRange DEF int_o

(* The types the arithmetic needs.                                         *)
LEMMA LineTypes ==
  ASSUME TypeInv
  PROVE  /\ {mtime, mtimecmp, tend, delay} \subseteq Nat /\ {hi, lo} \subseteq 0 .. WORD - 1
         /\ mtime <= MaxTime /\ MaxTime \in Nat /\ hi \in Nat
         /\ due \in {None} \union Nat /\ (due # None => due \in Nat /\ due <= MaxTime)
         /\ {torn, stale, asks} \subseteq BOOLEAN
<1>1. TypeOK
  BY DEF TypeInv
<1>2. delay \in Delays \union Rearm \union {0}
  BY <1>1 DEF TypeOK
<1>3. delay \in Nat
  BY <1>2, TimerDriverAssumption
<1>4. QED
  BY <1>1, <1>3, TimesInRange, TimerWbAssumption DEF TypeOK, None

(* What a store to the comparator does when it takes effect.               *)
LEMMA TakesEffect ==
  ASSUME TypeInv, NEW p, Takes(p)
  PROVE  /\ p = <<"intr", 3>> =>
              /\ Hi(mtimecmp') = Hi(tend) /\ Lo(mtimecmp') = Lo(mtimecmp)
              /\ mtimecmp' = Both(Hi(tend), Lo(mtimecmp)) /\ UNCHANGED <<due, asks>>
         /\ p = <<"intr", 4>> =>
              /\ Hi(mtimecmp') = Hi(mtimecmp) /\ asks' = FALSE /\ due' = due
              /\ mtimecmp' = Both(Hi(mtimecmp), Lo(tend))
         /\ p \in {<<"clear", 1>>, <<"handler", 1>>} =>
              /\ Hi(mtimecmp') = AllOnes /\ Lo(mtimecmp') = Lo(mtimecmp)
              /\ IF Unwritten THEN UNCHANGED <<due, asks>> ELSE due' = None /\ asks' = FALSE
         /\ p \in {<<"clear", 2>>, <<"handler", 2>>} =>
              /\ Hi(mtimecmp') = Hi(mtimecmp) /\ Lo(mtimecmp') = AllOnes
              /\ UNCHANGED <<due, asks>>
         /\ UNCHANGED <<start, torn>>
<1>1. /\ mtimecmp \in Nat /\ tend \in Nat /\ AllOnes \in 0 .. WORD - 1 /\ AllOnes \in Nat
      /\ Hi(mtimecmp) \in Nat /\ Lo(mtimecmp) \in 0 .. WORD - 1
      /\ Hi(tend) \in Nat /\ Lo(tend) \in 0 .. WORD - 1
  BY LineTypes, Halves, TimerWbAssumption DEF AllOnes
<1>2. CASE p = <<"intr", 3>>
  <2>1. mtimecmp' = Both(Hi(tend), Lo(mtimecmp)) /\ UNCHANGED <<due, asks>>
    BY <1>2 DEF Takes, TakesHi, Clock, WriteCmp
  <2>2. QED
    BY <1>1, <1>2, <2>1, HalvesOfBoth DEF Takes
<1>3. CASE p = <<"intr", 4>>
  <2>1. mtimecmp' = Both(Hi(mtimecmp), Lo(tend)) /\ asks' = FALSE /\ due' = due
    BY <1>3 DEF Takes, TakesLo, Clock, WriteCmp
  <2>2. QED
    BY <1>1, <1>3, <2>1, HalvesOfBoth DEF Takes
<1>4. CASE p \in {<<"clear", 1>>, <<"handler", 1>>}
  <2>1. /\ mtimecmp' = Both(AllOnes, Lo(mtimecmp))
        /\ IF Unwritten THEN UNCHANGED <<due, asks>> ELSE due' = None /\ asks' = FALSE
    BY <1>4 DEF Takes, TakesClearHi, ClearFirst, Clock, WriteCmp
  <2>2. QED
    BY <1>1, <1>4, <2>1, HalvesOfBoth DEF Takes
<1>5. CASE p \in {<<"clear", 2>>, <<"handler", 2>>}
  <2>1. mtimecmp' = Both(Hi(mtimecmp), AllOnes) /\ UNCHANGED <<due, asks>>
    BY <1>5 DEF Takes, TakesClearLo, Clock, WriteCmp
  <2>2. QED
    BY <1>1, <1>5, <2>1, HalvesOfBoth DEF Takes
<1>6. QED
  BY <1>2, <1>3, <1>4, <1>5 DEF Takes

(* Whenever the line is up, a request stands or is being written.          *)
LEMMA UpIsAsked ==
  ASSUME LineInv, int_o
  PROVE  /\ due # None /\ Hi(mtimecmp) # AllOnes
         /\ pc \notin {<<"clear", 2>>} \union (Handling \ InHandler)
         /\ pc \in {"intr"} \X {3, 4} => asks
         /\ pc = <<"intr", 3>> => stale
<1>1. TypeInv /\ RequestInv
  BY DEF LineInv
<1>2. Hi(mtimecmp) # AllOnes
  BY <1>1, Late
<1>3. QED
  BY <1>1, <1>2 DEF RequestInv, QuietInv, AskInv, Positions, Handling, InHandler

(* An interrupt traps in its own handler only when its request is stale.   *)
LEMMA TrapsOutside ==
  ASSUME LineInv, intrpt_timer
  PROVE  \/ pc \notin Handling /\ posted = NoStore
         \/ pc \in InHandler /\ stale /\ mepc \notin Handling /\ posted = NoStore
<1>1. CASE pc \in InHandler
  <2>1. ~StaysUp
    BY UpIsAsked DEF StaysUp, intrpt_timer, intrpt_timer_async
  <2>2. QED
    BY <1>1, <2>1 DEF LineInv, EdgeInv
<1>2. CASE pc \in Handling \ InHandler
  BY <1>2, UpIsAsked DEF intrpt_timer, intrpt_timer_async
<1>3. CASE pc \notin Handling
  BY <1>3 DEF LineInv, PostedInv, Handling, InHandler
<1>4. QED
  BY <1>1, <1>2, <1>3

(* Of the library only clearing runs in the handler.                       *)
LEMMA LibraryInHandler ==
  ASSUME LineInv, Library, Rearm = {}
  PROVE  \/ /\ ClearHi("handler") \/ ClearLo("handler")
            /\ pc \in {<<"handler", 1>>, <<"handler", 2>>} /\ last' = pc
            /\ pc' = IF pc = <<"handler", 1>> THEN <<"handler", 2>> ELSE <<"trap", 2>>
            /\ Takes(pc) /\ UNCHANGED <<callVars, stale>>
         \/ pc \notin Handling /\ last' = pc /\ pc' \notin Handling
            /\ pc' \notin {"rearm"} \X (1 .. 4)
<1> USE DEF Handling, InHandler
<1>1. CASE ClearHi("handler") \/ ClearLo("handler")
  BY <1>1 DEF ClearHi, ClearLo, Access, Back, callVars
<1>2. CASE ~(ClearHi("handler") \/ ClearLo("handler"))
  BY <1>2
  DEF LineInv, Library, CallGetTime, CallClear, CallCycle, CallGetInterrupt, CallSleep, Call,
      ReadHi, ReadIntrLo, WriteHi, WriteLo, ClearHi, ClearLo, ReadCycleH, ReadCycle,
      CycleRetries, GetTimeReturns, CycleReturns, SleepBegins, SleepGoesOn, SleepReturns,
      Access, Back, Idle, Callers, NestInv
<1>3. QED
  BY <1>1, <1>2

(* Clearing leaves the high half of the comparator cleared.                *)
LEMMA HandlerClears ==
  ASSUME LineInv, pc \in {<<"handler", 1>>, <<"handler", 2>>}, Takes(pc)
  PROVE  Hi(mtimecmp') = AllOnes
<1>1. pc = <<"handler", 2>> => Hi(mtimecmp) = AllOnes
  BY DEF LineInv, RequestInv, Handling, InHandler
<1>2. QED
  BY <1>1, TakesEffect DEF LineInv

(* Every step keeps the stack as NestInv describes it.                     *)
LEMMA NestStep ==
  ASSUME LineInv, Next, Rearm = {}
  PROVE  NestInv'
<1> USE DEF Handling, InHandler
<1>1. TypeInv /\ NestInv /\ PostedInv /\ RequestInv
  BY DEF LineInv
<1>2. CASE Library /\ UNCHANGED <<mie, mepc, posted, frames, from>>
  <2>1. CASE pc \in Handling
    <3>1. /\ pc \in {<<"handler", 1>>, <<"handler", 2>>} /\ last' = pc
          /\ pc' \in {<<"handler", 2>>, <<"trap", 2>>} /\ Takes(pc) /\ UNCHANGED <<callVars, stale>>
      BY <1>2, <2>1, LibraryInHandler
    <3>2. Hi(mtimecmp') = AllOnes
      BY <3>1, HandlerClears
    <3>3. \A p : Context(p)' = Context(p)
      BY <3>1 DEF Context, callVars
    <3>4. (LostInv => LostInv') /\ (NestedInv => NestedInv')
      BY <1>2, <3>1, <3>2, <3>3 DEF LostInv, NestedInv
    <3>5. QED
      BY <1>1, <1>2, <3>1, <3>3, <3>4 DEF NestInv
  <2>2. CASE pc \notin Handling
    BY <1>1, <1>2, <2>2, LibraryInHandler DEF NestInv
  <2>3. QED
    BY <2>1, <2>2
<1>3. CASE \/ (Tick \/ Wfi \/ Wakes) /\ UNCHANGED <<mie, mepc, posted, frames, from>>
           \/ \E b \in BOOLEAN : EnableInt(b) /\ UNCHANGED <<mepc, posted, frames, from>>
           \/ Completes
  <2>1. UNCHANGED <<callVars, stale, mepc, frames, from>>
    BY <1>3 DEF Tick, Wfi, Wakes, EnableInt, Completes, histVars
  <2>2. \A p : Context(p)' = Context(p)
    BY <2>1 DEF Context, callVars
  <2>3. CASE pc \in Handling
    <3>1. pc' = pc /\ last' = last
      BY <1>3, <2>3 DEF Tick, Wfi, Wakes, EnableInt, Completes, Idle, Asleep
    <3>2. mtimecmp' = mtimecmp \/ pc = <<"trap", 1>>
      BY <1>1, <1>3 DEF Tick, Wfi, Wakes, EnableInt, Completes, PostedInv, ReadOnly, Clock, WriteCmp
    <3>3. (LostInv => LostInv') /\ (NestedInv => NestedInv')
      BY <2>1, <2>2, <3>1, <3>2 DEF LostInv, NestedInv
    <3>4. QED
      BY <1>1, <2>1, <2>2, <2>3, <3>1, <3>3 DEF NestInv
  <2>4. CASE pc \notin Handling
    BY <1>1, <1>3, <2>1, <2>4 DEF Tick, Wfi, Wakes, EnableInt, Completes, Idle, Asleep, NestInv, PostedInv
  <2>5. QED
    BY <2>3, <2>4
<1>4. CASE Prologue
  <2>1. /\ pc = <<"trap", 1>> /\ pc' = <<"handler", 1>> /\ last' = pc'
        /\ frames' = Append(frames, Context(mepc)) /\ UNCHANGED <<callVars, stale, mepc, from>>
    BY <1>4 DEF Prologue, Context, histVars
  <2>2. \A p : Context(p)' = Context(p)
    BY <2>1 DEF Context, callVars
  <2>3. CASE mepc \notin Handling
    BY <1>1, <2>1, <2>2, <2>3 DEF NestInv
  <2>4. CASE mepc \in Handling /\ LostInv
    BY <1>1, <2>1, <2>2, <2>4 DEF NestInv, LostInv
  <2>5. CASE mepc \in Handling /\ NestedInv
    <3>1. NestedInv'
      <4>1. PICK p \in Accesses \ HandlerAccesses :
              from # <<>> /\ p \in from[1] /\ Len(from) = 2 /\ frames = <<Context(p)>>
        BY <2>1, <2>5 DEF NestedInv
      <4>2. frames' = <<Context(p), Context(mepc)>>
        <5>1. Append(<<Context(p)>>, Context(mepc)) = <<Context(p), Context(mepc)>>
          BY AppendToOne
        <5>2. QED
          BY <2>1, <4>1, <5>1
      <4>3. mepc = <<"handler", 1>>
        BY <2>5 DEF NestedInv
      <4>4. QED
        BY <2>1, <2>2, <4>1, <4>2, <4>3 DEF NestedInv
    <3>2. QED
      BY <1>1, <2>1, <2>5, <3>1 DEF NestInv
  <2>6. QED
    BY <1>1, <2>1, <2>3, <2>4, <2>5 DEF NestInv
<1>5. CASE Epilogue
  <2>1. /\ pc = <<"trap", 2>> /\ pc' = <<"trap", 3>> /\ last' = pc
        /\ UNCHANGED <<stale, frames, from>>
    BY <1>5 DEF Epilogue, Access, histVars
  <2>2. ASSUME NEW p, Last(frames) = Context(p)
        PROVE  mepc' = p /\ callVars' = callVars /\ \A q : Context(q)' = Context(q)
    BY <1>5, <2>2 DEF Epilogue, Context, callVars
  <2>3. CASE mepc \notin Handling
    <3>1. frames = <<Context(mepc)>> /\ Last(frames) = Context(mepc)
      BY <1>1, <2>1, <2>3 DEF NestInv, Last
    <3>2. mepc' = mepc /\ Context(mepc)' = Context(mepc)
      BY <2>2, <3>1
    <3>3. QED
      BY <1>1, <2>1, <2>3, <3>1, <3>2 DEF NestInv
  <2>4. CASE mepc \in Handling /\ LostInv
    <3>1. frames = <<Context(mepc)>> /\ Last(frames) = Context(mepc)
      BY <2>1, <2>4 DEF LostInv, Last
    <3>2. mepc' = mepc /\ Context(mepc)' = Context(mepc)
      BY <2>2, <3>1
    <3>3. QED
      BY <1>1, <2>1, <2>4, <3>1, <3>2 DEF NestInv, LostInv
  <2>5. CASE mepc \in Handling /\ NestedInv
    <3>1. PICK p \in Accesses \ HandlerAccesses :
            /\ from # <<>> /\ p \in from[1]
            /\ \/ Len(from) = 1 /\ frames = <<Context(p)>>
               \/ Len(from) = 2 /\ frames = <<Context(p), Context(mepc)>>
      BY <2>1, <2>5 DEF NestedInv
    <3>2. CASE Len(from) = 1 /\ frames = <<Context(p)>>
      <4>1. Last(frames) = Context(p)
        BY <3>2 DEF Last
      <4>2. mepc' = p /\ Context(p)' = Context(p)
        BY <2>2, <4>1
      <4>3. QED
        BY <1>1, <2>1, <3>1, <3>2, <4>2 DEF NestInv, HandlerAccesses
    <3>3. CASE Len(from) = 2 /\ frames = <<Context(p), Context(mepc)>>
      <4>1. Last(frames) = Context(mepc)
        BY <3>3 DEF Last
      <4>2. mepc' = mepc /\ Context(p)' = Context(p) /\ Context(mepc)' = Context(mepc)
        BY <2>2, <4>1
      <4>3. NestedInv'
        BY <2>1, <2>5, <3>1, <3>3, <4>2 DEF NestedInv
      <4>4. QED
        BY <1>1, <2>1, <2>5, <4>2, <4>3 DEF NestInv
    <3>4. QED
      BY <3>1, <3>2, <3>3
  <2>6. QED
    BY <1>1, <2>1, <2>3, <2>4, <2>5 DEF NestInv
<1>6. CASE Mret
  <2>1. /\ pc = <<"trap", 3>> /\ pc' = mepc /\ last' = mepc
        /\ frames' = Front(frames) /\ from' = Front(from)
        /\ UNCHANGED <<callVars, stale, mepc, mtimecmp>>
    BY <1>6 DEF Mret, histVars, ReadOnly, Clock, WriteCmp
  <2>2. \A p : Context(p)' = Context(p)
    BY <2>1 DEF Context, callVars
  <2>3. CASE mepc \notin Handling
    <3>1. Len(frames) = 1 /\ Len(from) = 1
      BY <1>1, <2>1, <2>3 DEF NestInv
    <3>2. Front(frames) = <<>> /\ Front(from) = <<>>
      BY <3>1, SubSeqEmpty DEF Front
    <3>3. QED
      BY <1>1, <2>1, <2>3, <3>2 DEF NestInv
  <2>4. CASE mepc \in Handling /\ LostInv
    <3>1. mepc = <<"trap", 1>> /\ Len(frames) = 1
      BY <2>1, <2>4 DEF LostInv
    <3>2. Front(frames) = <<>>
      BY <3>1, SubSeqEmpty DEF Front
    <3>3. QED
      BY <1>1, <2>1, <2>4, <3>1, <3>2 DEF NestInv, LostInv
  <2>5. CASE mepc \in Handling /\ NestedInv
    <3>1. PICK p \in Accesses \ HandlerAccesses :
            /\ from # <<>> /\ p \in from[1] /\ Len(from) = 2
            /\ frames = <<Context(p), Context(mepc)>>
      BY <2>1, <2>5 DEF NestedInv
    <3>2. Front(frames) = <<Context(p)>>
      <4>1. frames \in Seq([mepc : Accesses, regs : Regs]) /\ Len(frames) = 2
        BY <1>1, <3>1 DEF TypeInv
      <4>2. Front(frames) = <<frames[1]>>
        BY <4>1, FrontOfPair
      <4>3. QED
        BY <3>1, <4>2
    <3>3. Len(Front(from)) = 1 /\ Front(from)[1] = from[1] /\ Front(from) # <<>>
      <4>1. from \in Seq(SUBSET Accesses)
        BY <1>1 DEF TypeInv
      <4>2. QED
        BY <3>1, <4>1, FrontOfPair
    <3>4. Hi(mtimecmp) = AllOnes
      BY <1>1, <2>1 DEF RequestInv
    <3>5. mepc = <<"handler", 1>>
      BY <2>5 DEF NestedInv
    <3>6. NestedInv'
      BY <2>1, <2>2, <3>1, <3>2, <3>3, <3>4, <3>5 DEF NestedInv
    <3>7. QED
      BY <1>1, <2>1, <2>5, <3>5, <3>6 DEF NestInv
  <2>6. QED
    BY <1>1, <2>1, <2>3, <2>4, <2>5 DEF NestInv
<1>7. CASE Trap
  <2>1. \/ pc \notin Handling
        \/ pc \in InHandler /\ stale /\ mepc \notin Handling
    BY <1>7, TrapsOutside DEF Trap
  <2>2. /\ mepc' \in IF pc = Asleep THEN {Idle} ELSE {pc, last}
        /\ pc' = <<"trap", 1>> /\ last' = pc' /\ frames' = frames /\ UNCHANGED <<callVars, stale>>
        /\ from' = Append(from, IF pc = Asleep THEN {Idle} ELSE {pc, last})
    BY <1>7 DEF Trap, Saved, histVars, Stores, Asleep
  <2>3. from \in Seq(SUBSET Accesses) /\ mepc \in Accesses
    BY <1>1 DEF TypeInv, TypeOK
  <2>4. CASE pc \notin Handling
    <3>1. from = <<>> /\ frames = <<>> /\ last \notin Handling
      BY <1>1, <2>4 DEF NestInv
    <3>2. Len(from') = 1 /\ mepc' \in from'[1]
      BY <2>2, <3>1
    <3>3. QED
      BY <1>1, <2>2, <2>4, <3>1, <3>2 DEF NestInv, Idle
  <2>5. CASE pc \in InHandler /\ stale /\ mepc \notin Handling
    <3>1. /\ mepc' = pc /\ Len(from) = 1 /\ mepc \in from[1]
          /\ frames = IF pc = <<"trap", 1>> THEN <<>> ELSE <<Context(mepc)>>
      BY <1>1, <2>2, <2>5 DEF NestInv, Asleep
    <3>2. Len(from') = 2 /\ from'[1] = from[1] /\ from' # <<>>
      BY <2>2, <2>3, <3>1
    <3>3. CASE pc = <<"trap", 1>>
      BY <1>1, <2>2, <2>5, <3>1, <3>3 DEF NestInv, LostInv
    <3>4. CASE pc = <<"handler", 1>>
      <4>1. mepc \in Accesses \ HandlerAccesses
        BY <1>1, <2>3, <2>5 DEF NestInv, HandlerAccesses
      <4>2. frames' = <<Context(mepc)>> /\ Context(mepc) = [mepc |-> mepc, regs |-> callVars']
        BY <2>2, <3>1, <3>4 DEF Context, callVars
      <4>3. /\ mepc' = <<"handler", 1>> /\ pc' = <<"trap", 1>>
            /\ from' # <<>> /\ mepc \in from'[1] /\ Len(from') = 2
        BY <2>2, <3>1, <3>2, <3>4
      <4>4. NestedInv'
        BY <4>1, <4>2, <4>3 DEF NestedInv, Context
      <4>5. QED
        BY <1>1, <2>2, <2>5, <3>1, <3>4, <4>4 DEF NestInv
    <3>5. QED
      BY <2>5, <3>3, <3>4
  <2>6. QED
    BY <2>1, <2>4, <2>5
<1>8. QED
  BY <1>2, <1>3, <1>4, <1>5, <1>6, <1>7 DEF Next, Program

(* Only a store that a trap leaves behind is on the bus.                   *)
LEMMA PostedStep ==
  ASSUME LineInv, Next, Rearm = {}
  PROVE  PostedInv'
<1>1. TypeInv /\ NestInv /\ PostedInv
  BY DEF LineInv
<1>2. CASE Trap
  <2>1. int_o /\ posted = NoStore /\ pc' = <<"trap", 1>>
    BY <1>2, TrapsOutside DEF Trap, intrpt_timer, intrpt_timer_async
  <2>2. CASE posted' = posted
    BY <2>1, <2>2 DEF PostedInv
  <2>3. CASE pc \in Stores /\ mepc' = pc /\ posted' = pc
    <3>1. pc \in {<<"intr", 3>>, <<"intr", 4>>, <<"clear", 1>>, <<"handler", 1>>}
      BY <1>1, <2>1, <2>3, UpIsAsked DEF Stores, NestInv, Handling, InHandler
    <3>2. QED
      BY <2>1, <2>3, <3>1 DEF PostedInv
  <2>4. QED
    BY <1>2, <2>2, <2>3 DEF Trap
<1>3. CASE Completes
  BY <1>3 DEF Completes, PostedInv
<1>4. CASE Library /\ UNCHANGED <<mie, mepc, posted, frames, from>>
  <2>1. pc # <<"trap", 1>>
    BY <1>4, LibraryInHandler DEF Handling, InHandler
  <2>2. QED
    BY <1>1, <1>4, <2>1 DEF PostedInv
<1>5. CASE \/ (Tick \/ Wfi \/ Wakes) /\ UNCHANGED <<mie, mepc, posted, frames, from>>
           \/ \E b \in BOOLEAN : EnableInt(b) /\ UNCHANGED <<mepc, posted, frames, from>>
           \/ (Prologue \/ Epilogue \/ Mret) /\ UNCHANGED <<mie, posted>>
  BY <1>1, <1>5
  DEF Program, Tick, Wfi, Wakes, EnableInt, Prologue, Epilogue, Mret, Access, PostedInv, Idle,
      Asleep
<1>6. QED
  BY <1>2, <1>3, <1>4, <1>5 DEF Next, Program

(* A store of a request that is not stale takes the line down only for     *)
(* good, be it made with the trap or behind it.                            *)
LEMMA StoreKeeps ==
  ASSUME LineInv, Next, ~stale,
         NEW p \in {<<"intr", 3>>, <<"intr", 4>>, <<"clear", 1>>, <<"handler", 1>>},
         p = posted \/ (p = pc /\ int_o), Takes(p)
  PROVE  Hi(mtimecmp') = AllOnes \/ (Hi(mtimecmp) # AllOnes /\ (int_o => int_o'))
<1>1. TypeInv /\ RequestInv /\ mtime' = mtime + 1
  BY TimePasses DEF LineInv
<1>2. /\ mtime \in Nat /\ mtimecmp \in Nat /\ tend \in Nat
      /\ tend = Both(Hi(tend), Lo(tend))
  BY <1>1, LineTypes, Halves
<1>3. p # <<"intr", 3>>
  <2>1. p = pc /\ int_o => p # <<"intr", 3>>
    BY UpIsAsked
  <2>2. posted # <<"intr", 3>>
    BY <1>1 DEF RequestInv, AskInv, QuietInv
  <2>3. QED
    BY <2>1, <2>2
<1>4. CASE p = <<"intr", 4>> /\ asks
  <2>1. Hi(mtimecmp) = Hi(tend) /\ tend <= mtimecmp
    BY <1>1, <1>2, <1>4 DEF RequestInv, AskInv
  <2>2. Hi(mtimecmp') = Hi(mtimecmp) /\ mtimecmp' = tend
    BY <1>1, <1>2, <1>4, <2>1, TakesEffect
  <2>3. int_o => int_o'
    BY <1>1, <1>2, <2>1, <2>2 DEF int_o
  <2>4. QED
    BY <2>2, <2>3
<1>5. CASE p = <<"intr", 4>> /\ ~asks
  <2>1. p = pc /\ int_o
    BY <1>1, <1>5 DEF RequestInv, QuietInv
  <2>2. QED
    BY <1>5, <2>1, UpIsAsked
<1>6. CASE p \in {<<"clear", 1>>, <<"handler", 1>>}
  BY <1>1, <1>6, TakesEffect
<1>7. QED
  BY <1>3, <1>4, <1>5, <1>6

(* No step leaves an edge behind.                                          *)
LEMMA EdgeStep ==
  ASSUME LineInv, Next, Rearm = {}
  PROVE  EdgeInv'
<1>1. /\ TypeInv' /\ TypeInv /\ EdgeInv /\ NestInv /\ PostedInv /\ RequestInv
      /\ mtime' = mtime + 1 /\ mtime \in Nat /\ mtimecmp \in Nat
  BY TypeStep, TimePasses, TimesInRange DEF LineInv, TypeInv, TypeOK
<1>2. async_r' = (mie /\ int_o)
  BY DEF Next, intrpt_timer_async
<1> USE DEF InHandler
<1>3. Hi(mtimecmp') = AllOnes => (Hi(mtimecmp) = AllOnes)'
  BY DEF Hi, AllOnes
<1>4. mtimecmp' = mtimecmp => (int_o => int_o') /\ (Hi(mtimecmp') = Hi(mtimecmp))
  BY <1>1 DEF int_o
<1>5. CASE Trap
  <2>1. pc' = <<"trap", 1>> /\ mie /\ int_o /\ async_r' /\ stale' = stale
    BY <1>2, <1>5 DEF Trap, intrpt_timer, intrpt_timer_async, histVars
  <2>2. CASE ReadOnly
    <3>1. int_o'
      BY <1>4, <2>1, <2>2 DEF ReadOnly, Clock, WriteCmp
    <3>2. QED
      BY <2>1, <3>1 DEF EdgeInv, StaysUp
  <2>3. CASE pc \in Stores /\ mepc' = pc /\ Takes(pc) /\ UNCHANGED posted
    <3>1. pc \in {<<"intr", 3>>, <<"intr", 4>>, <<"clear", 1>>, <<"handler", 1>>}
      BY <1>1, <2>1, <2>3, UpIsAsked DEF Stores, NestInv, Handling
    <3>2. CASE ~stale
      BY <1>3, <2>1, <2>3, <3>1, <3>2, StoreKeeps DEF EdgeInv, StaysUp
    <3>3. CASE pc \in {<<"clear", 1>>, <<"handler", 1>>}
      BY <1>1, <1>3, <2>1, <2>3, <3>3, TakesEffect DEF EdgeInv, StaysUp
    <3>4. CASE stale /\ pc \in {<<"intr", 3>>, <<"intr", 4>>}
      <4>1. posted = NoStore
        BY <1>5, TrapsOutside DEF Trap
      <4>2. QED
        BY <2>1, <2>3, <3>4, <4>1 DEF EdgeInv, Handling
    <3>5. QED
      BY <1>1, <3>1, <3>2, <3>3, <3>4 DEF TypeInv, TypeOK
  <2>4. QED
    BY <1>5, <2>2, <2>3 DEF Trap
<1>6. CASE Completes
  <2>1. /\ pc = <<"trap", 1>> /\ pc' = pc /\ mepc' = mepc /\ mepc = posted /\ posted # NoStore
        /\ posted' = NoStore /\ mie' = mie /\ stale' = stale /\ Takes(posted)
        /\ posted \in {<<"intr", 3>>, <<"intr", 4>>, <<"clear", 1>>, <<"handler", 1>>}
    BY <1>1, <1>6 DEF Completes, PostedInv
  <2>2. StaysUp
    BY <1>1, <2>1 DEF EdgeInv
  <2>3. CASE ~stale
    <3>1. Hi(mtimecmp') = AllOnes \/ (Hi(mtimecmp) # AllOnes /\ (int_o => int_o'))
      BY <2>1, <2>3, StoreKeeps
    <3>2. StaysUp'
      BY <1>2, <1>3, <2>1, <2>2, <3>1 DEF StaysUp
    <3>3. QED
      BY <2>1, <3>2 DEF EdgeInv
  <2>4. CASE posted \in {<<"clear", 1>>, <<"handler", 1>>}
    BY <1>1, <1>3, <2>1, <2>4, TakesEffect DEF EdgeInv, StaysUp
  <2>5. CASE stale /\ posted \in {<<"intr", 3>>, <<"intr", 4>>}
    BY <2>1, <2>5 DEF EdgeInv, Handling
  <2>6. QED
    BY <1>1, <2>1, <2>3, <2>4, <2>5 DEF TypeInv, TypeOK
<1>7. CASE Program /\ ~Completes /\ pc \in InHandler
  <2>1. \/ /\ (Tick \/ Prologue) /\ UNCHANGED <<mie, mepc, posted>>
           /\ pc' \in InHandler /\ mtimecmp' = mtimecmp /\ stale' = stale
        \/ Library /\ UNCHANGED <<mie, mepc, posted, frames, from>>
    BY <1>7 DEF Program, Tick, Wfi, Wakes, EnableInt, Prologue, Epilogue, Mret, Access, Idle,
                Asleep, ReadOnly, Clock, WriteCmp, histVars
  <2>2. CASE mtimecmp' = mtimecmp /\ pc' \in InHandler /\ UNCHANGED <<stale, mie, mepc, posted>>
    <3>1. StaysUp => StaysUp'
      BY <1>2, <1>3, <1>4, <2>2 DEF StaysUp
    <3>2. QED
      BY <1>1, <1>7, <2>2, <3>1 DEF EdgeInv
  <2>3. CASE Library
    <3>1. pc' = <<"handler", 2>> /\ Hi(mtimecmp') = AllOnes
      BY <1>7, <2>3, LibraryInHandler, HandlerClears DEF Handling
    <3>2. (TypeInv /\ Hi(mtimecmp) = AllOnes)'
      BY <1>1, <1>3, <3>1
    <3>3. ~int_o'
      BY <3>2, Late, PTL
    <3>4. QED
      BY <3>1, <3>3 DEF EdgeInv
  <2>4. QED
    BY <2>1, <2>2, <2>3
<1>8. CASE Program /\ ~intrpt_timer /\ ~Completes /\ pc \notin InHandler
  <2>1. ~async_r'
    BY <1>1, <1>2, <1>8 DEF EdgeInv, intrpt_timer, intrpt_timer_async
  <2>2. CASE Mret /\ pc' \in InHandler
    <3>1. Hi(mtimecmp) = AllOnes /\ mtimecmp' = mtimecmp
      BY <1>1, <2>2 DEF Mret, RequestInv, Handling, ReadOnly, Clock, WriteCmp
    <3>2. QED
      BY <1>3, <1>4, <2>2, <3>1 DEF EdgeInv, StaysUp
  <2>3. CASE pc' \notin InHandler
    BY <2>1, <2>3 DEF EdgeInv
  <2>4. CASE ~Mret
    <3>1. CASE Library
      BY <1>8, <2>3, <3>1, LibraryInHandler DEF Handling
    <3>2. CASE ~Library
      BY <1>8, <2>3, <2>4, <3>2
      DEF Program, Tick, Wfi, Wakes, EnableInt, Prologue, Epilogue, Access, Idle, Asleep
    <3>3. QED
      BY <3>1, <3>2
  <2>5. QED
    BY <2>2, <2>3, <2>4
<1>9. QED
  BY <1>5, <1>6, <1>7, <1>8 DEF Next

(* Where the program goes on is in its oldest frame.                       *)
LEMMA FirstFrame ==
  ASSUME NestInv, pc \in Handling
  PROVE  /\ pc # <<"trap", 1>> \/ mepc = <<"handler", 1>> => frames # <<>>
         /\ frames # <<>> => Positions = {frames[1].mepc} \ Handling
<1>1. mepc \in Handling => LostInv \/ NestedInv
  BY DEF NestInv
<1>2. pc # <<"trap", 1>> \/ mepc = <<"handler", 1>> => frames # <<>>
  BY <1>1 DEF NestInv, LostInv, NestedInv, Handling, InHandler
<1>3. CASE mepc \notin Handling
  BY <1>2, <1>3 DEF NestInv, Positions, Context
<1>4. CASE mepc \in Handling
  BY <1>2, <1>4 DEF Positions
<1>5. QED
  BY <1>2, <1>3, <1>4

(* EPILOGUE restores the registers the program had.                        *)
LEMMA EpilogueKeeps ==
  ASSUME NestInv, Epilogue
  PROVE  UNCHANGED callVars
<1>1. PICK p : Last(frames) = Context(p)
  <2>1. pc = <<"trap", 2>>
    BY DEF Epilogue, Access
  <2>2. \/ frames = <<Context(mepc)>>
        \/ \E p : frames = <<Context(p)>> \/ frames = <<Context(p), Context(mepc)>>
    BY <2>1 DEF NestInv, LostInv, NestedInv, Handling, InHandler
  <2>3. QED
    BY <2>2 DEF Last
<1>2. QED
  BY <1>1 DEF Epilogue, Context, callVars

(* The handler leaves the program where it is.                             *)
LEMMA PositionsStay ==
  ASSUME LineInv, Prologue \/ Epilogue \/ Mret
  PROVE  Positions' = Positions
<1>1. TypeInv /\ NestInv
  BY DEF LineInv
<1> USE DEF Handling, InHandler
<1>2. CASE Prologue
  <2>1. /\ pc = <<"trap", 1>> /\ pc' = <<"handler", 1>> /\ mepc' = mepc
        /\ frames' = Append(frames, Context(mepc))
    BY <1>2 DEF Prologue, Context
  <2>2. CASE mepc \notin Handling
    BY <2>1, <2>2 DEF Positions
  <2>3. CASE mepc \in Handling
    <3>1. CASE LostInv
      <4>1. frames = <<>> /\ frames' = <<Context(mepc)>>
        BY <2>1, <3>1 DEF LostInv
      <4>2. frames' # <<>> /\ frames'[1].mepc = mepc
        BY <4>1 DEF Context
      <4>3. QED
        BY <2>1, <2>3, <4>1, <4>2 DEF Positions
    <3>2. CASE NestedInv
      <4>1. PICK p \in Accesses \ HandlerAccesses : frames = <<Context(p)>>
        BY <2>1, <3>2 DEF NestedInv
      <4>2. frames' = <<Context(p), Context(mepc)>>
        BY <2>1, <4>1, AppendToOne
      <4>3. frames' # <<>> /\ frames'[1].mepc = frames[1].mepc /\ frames # <<>>
        BY <4>1, <4>2 DEF Context
      <4>4. QED
        BY <2>1, <2>3, <4>3 DEF Positions
    <3>3. QED
      BY <1>1, <2>1, <2>3, <3>1, <3>2 DEF NestInv
  <2>4. QED
    BY <2>2, <2>3
<1>3. CASE Epilogue
  <2>1. pc = <<"trap", 2>> /\ pc' = <<"trap", 3>> /\ frames' = frames /\ mepc' = Last(frames).mepc
    BY <1>3 DEF Epilogue, Access
  <2>2. CASE frames = <<Context(mepc)>>
    <3>1. mepc' = mepc
      BY <2>1, <2>2 DEF Last, Context
    <3>2. QED
      BY <2>1, <3>1 DEF Positions
  <2>3. ASSUME NEW p \in Accesses \ HandlerAccesses, frames = <<Context(p)>>
        PROVE  Positions' = Positions
    <3>1. mepc' = p /\ frames[1].mepc = p /\ p \notin Handling
      BY <2>1, <2>3 DEF Last, Context, HandlerAccesses
    <3>2. Positions = {p}
      BY <1>1, <2>1, <2>3, <3>1, FirstFrame
    <3>3. QED
      BY <2>1, <3>1, <3>2 DEF Positions
  <2>4. ASSUME NEW p \in Accesses, frames = <<Context(p), Context(mepc)>>
        PROVE  Positions' = Positions
    <3>1. mepc' = mepc
      BY <2>1, <2>4 DEF Last, Context
    <3>2. QED
      BY <2>1, <3>1 DEF Positions
  <2>5. QED
    BY <1>1, <2>1, <2>2, <2>3, <2>4 DEF NestInv, LostInv, NestedInv
<1>4. CASE Mret
  <2>1. pc = <<"trap", 3>> /\ pc' = mepc /\ last' = mepc /\ mepc' = mepc /\ frames' = Front(frames)
    BY <1>4 DEF Mret
  <2>2. CASE mepc \notin Handling
    BY <2>1, <2>2 DEF Positions
  <2>3. CASE mepc \in Handling /\ LostInv
    <3>1. frames = <<Context(mepc)>> /\ Len(frames) = 1
      BY <2>1, <2>3 DEF LostInv
    <3>2. frames' = <<>>
      BY <2>1, <3>1, SubSeqEmpty DEF Front
    <3>3. frames # <<>> /\ frames[1].mepc \in Handling
      BY <2>3, <3>1 DEF Context
    <3>4. QED
      BY <2>1, <2>3, <3>2, <3>3 DEF Positions
  <2>4. CASE mepc \in Handling /\ NestedInv
    <3>1. PICK p \in Accesses \ HandlerAccesses : frames = <<Context(p), Context(mepc)>>
      BY <2>1, <2>4 DEF NestedInv
    <3>2. frames \in Seq([mepc : Accesses, regs : Regs]) /\ Len(frames) = 2
      BY <1>1, <3>1 DEF TypeInv
    <3>3. frames' # <<>> /\ frames'[1] = frames[1] /\ frames # <<>>
      BY <2>1, <3>2, FrontOfPair
    <3>4. QED
      BY <2>1, <2>4, <3>3 DEF Positions
  <2>5. QED
    BY <1>1, <2>1, <2>2, <2>3, <2>4 DEF NestInv
<1>5. QED
  BY <1>2, <1>3, <1>4

(* A trap saves one of the program's places, or loses it.                  *)
LEMMA PositionsTrap ==
  ASSUME LineInv, Trap
  PROVE  /\ pc' = <<"trap", 1>> /\ frames' = frames
         /\ Positions' \subseteq Positions \union {Idle}
         /\ pc # Asleep => Positions' \subseteq Positions
<1>1. NestInv /\ \/ pc \notin Handling
                 \/ pc \in InHandler /\ mepc \notin Handling
  BY TrapsOutside DEF Trap, LineInv
<1>2. /\ pc' = <<"trap", 1>> /\ frames' = frames
      /\ mepc' \in IF pc = Asleep THEN {Idle} ELSE {pc, last}
  BY DEF Trap, Saved, Stores, Asleep
<1> USE DEF Handling, InHandler
<1>3. CASE pc \notin Handling
  <2>1. mepc' \notin Handling /\ Positions = {pc, last}
    BY <1>1, <1>2, <1>3 DEF NestInv, Positions, Idle
  <2>2. QED
    BY <1>2, <2>1 DEF Positions
<1>4. CASE pc \in InHandler /\ mepc \notin Handling
  <2>1. mepc' \in Handling /\ pc # Asleep
    BY <1>1, <1>2, <1>4 DEF NestInv, Asleep
  <2>2. frames # <<>> => Positions = {frames[1].mepc} \ Handling
    BY <1>1, <1>4, FirstFrame
  <2>3. Positions' = IF frames # <<>> THEN {frames[1].mepc} \ Handling ELSE {}
    BY <1>2, <2>1 DEF Positions
  <2>4. QED
    BY <1>2, <2>2, <2>3
<1>5. QED
  BY <1>1, <1>3, <1>4

(* A high half that is not ahead of the timer stays so.                    *)
LEMMA HiStays ==
  ASSUME LineInv, Next, hi <= Hi(mtime)
  PROVE  hi <= Hi(mtime')
<1>1. TypeInv /\ mtime' = mtime + 1
  BY TimePasses DEF LineInv
<1>2. Hi(mtime) <= Hi(mtime') /\ {hi, Hi(mtime), Hi(mtime')} \subseteq Nat
  BY <1>1, LineTypes, HiMonotonic, Halves
<1>3. QED
  BY <1>2

(* The steps that leave the request alone, and the program where it is or  *)
(* out of reach of it.                                                     *)
LEMMA RequestStays ==
  ASSUME LineInv, Next, Rearm = {},
         \/ (Tick \/ Wfi \/ Wakes) /\ UNCHANGED <<mepc, posted, frames>>
         \/ \E b \in BOOLEAN : EnableInt(b) /\ UNCHANGED <<mepc, posted, frames>>
         \/ (Prologue \/ Epilogue \/ Mret) /\ UNCHANGED posted
         \/ Trap /\ ReadOnly /\ UNCHANGED histVars
  PROVE  RequestInv'
<1>1. TypeInv /\ NestInv /\ PostedInv /\ RequestInv
  BY DEF LineInv
<1>2. UNCHANGED <<mtimecmp, due, asks, torn, stale, hi, tend>>
  <2>1. UNCHANGED <<mtimecmp, due, asks, torn, stale>>
    BY DEF Tick, Wfi, Wakes, EnableInt, Prologue, Epilogue, Mret, ReadOnly, Clock, WriteCmp,
           histVars
  <2>2. UNCHANGED callVars
    BY <1>1, EpilogueKeeps DEF Tick, Wfi, Wakes, EnableInt, Prologue, Mret, Trap
  <2>3. QED
    BY <2>1, <2>2 DEF callVars
<1>3. hi <= Hi(mtime) => hi <= Hi(mtime')
  BY HiStays
<1> USE DEF Handling, InHandler
<1>4. CASE \/ Tick /\ UNCHANGED <<mepc, posted, frames>>
           \/ \E b \in BOOLEAN : EnableInt(b) /\ UNCHANGED <<mepc, posted, frames>>
  <2>1. UNCHANGED <<pc, last, mepc, posted, frames>>
    BY <1>4 DEF Tick, EnableInt
  <2>2. Positions' = Positions
    BY <2>1 DEF Positions
  <2>3. QED
    BY <1>1, <1>2, <1>3, <2>1, <2>2 DEF RequestInv, AskInv, QuietInv
<1>5. CASE (Wfi \/ Wakes) /\ UNCHANGED <<mepc, posted, frames>>
  <2>1. pc \in {Idle, Asleep} /\ pc' \in {Idle, Asleep} /\ last' \in {last, Idle}
    BY <1>5 DEF Wfi, Wakes
  <2>2. ~asks
    BY <1>1, <2>1 DEF RequestInv, AskInv, Positions, Idle, Asleep
  <2>3. Positions' \subseteq Positions \union {Idle, Asleep}
    BY <1>1, <2>1 DEF NestInv, Positions, Idle, Asleep
  <2>4. QED
    BY <1>1, <1>2, <1>3, <1>5, <2>1, <2>2, <2>3 DEF RequestInv, QuietInv, Idle, Asleep
<1>6. CASE (Prologue \/ Epilogue \/ Mret) /\ UNCHANGED posted
  <2>1. Positions' = Positions
    BY <1>6, PositionsStay
  <2>2. CASE Prologue \/ Epilogue
    <3>1. pc \in Handling /\ pc' \in Handling /\ (pc' \in InHandler <=> pc \in InHandler)
      BY <2>2 DEF Prologue, Epilogue, Access
    <3>2. pc' \notin {"intr"} \X {2, 3, 4} /\ posted \notin {"intr"} \X {3, 4}
      BY <1>1, <2>2 DEF Prologue, Epilogue, Access, PostedInv, NoStore, Idle
    <3>3. CASE asks
      <4>1. AskInv'
        BY <1>1, <1>2, <1>6, <2>1, <3>1, <3>2, <3>3 DEF RequestInv, AskInv
      <4>2. QED
        BY <1>1, <1>2, <1>3, <2>1, <3>1, <3>3, <4>1 DEF RequestInv
    <3>4. CASE ~asks
      <4>1. QuietInv'
        BY <1>1, <1>2, <1>6, <2>1, <3>1, <3>2, <3>4 DEF RequestInv, QuietInv
      <4>2. QED
        BY <1>1, <1>2, <1>3, <2>1, <3>1, <3>4, <4>1 DEF RequestInv
    <3>5. QED
      BY <3>3, <3>4
  <2>3. CASE Mret
    <3>1. /\ pc = <<"trap", 3>> /\ pc' = mepc /\ last' = mepc
          /\ posted \notin {"intr"} \X {3, 4}
      BY <1>1, <2>3 DEF Mret, PostedInv, NoStore, Idle
    <3>2. Hi(mtimecmp) = AllOnes
      BY <1>1, <3>1 DEF RequestInv
    <3>3. mepc \notin Handling => Positions = {mepc}
      BY <3>1 DEF Positions
    <3>4. mepc \in Handling => mepc \in InHandler
      BY <1>1, <3>1 DEF NestInv, LostInv, NestedInv
    <3>5. CASE asks
      <4>1. AskInv /\ <<"intr", 4>> \notin Positions
        BY <1>1, <3>1, <3>5 DEF RequestInv, AskInv
      <4>2. pc' # <<"intr", 4>>
        BY <3>1, <3>3, <4>1
      <4>3. AskInv'
        BY <1>2, <1>6, <2>1, <3>1, <3>2, <3>4, <4>1, <4>2 DEF AskInv
      <4>4. QED
        BY <1>1, <1>2, <1>3, <2>1, <3>1, <3>2, <3>4, <3>5, <4>3 DEF RequestInv
    <3>6. CASE ~asks
      BY <1>1, <1>2, <1>3, <1>6, <2>1, <3>1, <3>2, <3>4, <3>6 DEF RequestInv, QuietInv
    <3>7. QED
      BY <3>5, <3>6
  <2>4. QED
    BY <1>6, <2>2, <2>3
<1>7. CASE Trap /\ ReadOnly /\ UNCHANGED histVars
  <2>1. int_o /\ posted = NoStore
    BY <1>7, TrapsOutside DEF Trap, intrpt_timer, intrpt_timer_async
  <2>2. /\ pc' = <<"trap", 1>> /\ Positions' \subseteq Positions \union {Idle}
        /\ pc # Asleep => Positions' \subseteq Positions
    BY <1>7, PositionsTrap
  <2>3. posted' = NoStore \/ (posted' = pc /\ pc \in Stores)
    BY <1>7, <2>1 DEF Trap, histVars
  <2>4. /\ pc = <<"intr", 3>> => stale
        /\ pc \in {"intr"} \X {3, 4} => asks
    BY <2>1, UpIsAsked
  <2>5. CASE asks
    <3>1. AskInv /\ Positions' \subseteq Positions
      BY <1>1, <2>2, <2>5 DEF RequestInv, AskInv, Positions, Asleep
    <3>2. <<"intr", 4>> \in {pc', posted'} => Hi(mtimecmp) = Hi(tend)
      BY <2>2, <2>3, <3>1 DEF AskInv, NoStore, Idle
    <3>3. ~stale => posted' # <<"intr", 3>>
      BY <2>3, <2>4 DEF NoStore, Idle
    <3>4. AskInv'
      BY <1>2, <2>2, <3>1, <3>2, <3>3 DEF AskInv
    <3>5. QED
      BY <1>1, <1>2, <1>3, <2>2, <2>5, <3>1, <3>4 DEF RequestInv
  <2>6. CASE ~asks
    <3>1. posted' \notin {"intr"} \X {3, 4}
      BY <2>3, <2>4, <2>6 DEF NoStore, Idle
    <3>2. QED
      BY <1>1, <1>2, <1>3, <2>2, <2>6, <3>1 DEF RequestInv, QuietInv, Idle
  <2>7. QED
    BY <2>5, <2>6
<1>8. QED
  BY <1>4, <1>5, <1>6, <1>7

(* A store that takes effect with a trap or behind it.                     *)
LEMMA RequestBehind ==
  ASSUME LineInv, Next, Rearm = {},
         NEW p \in Stores, Takes(p), UNCHANGED <<callVars, stale>>,
         \/ Trap /\ p = pc /\ mepc' = pc /\ UNCHANGED posted
         \/ Completes /\ p = posted
  PROVE  RequestInv'
<1>1. TypeInv /\ TypeInv' /\ NestInv /\ PostedInv /\ RequestInv
  BY TypeStep DEF LineInv
<1> USE DEF Handling, InHandler
<1>2. /\ pc' = <<"trap", 1>> /\ mepc' = p /\ frames' = frames /\ posted' = NoStore
      /\ Positions' \subseteq Positions
      /\ p \in {<<"intr", 3>>, <<"intr", 4>>, <<"clear", 1>>, <<"handler", 1>>}
  <2>1. CASE Trap /\ p = pc /\ mepc' = pc /\ UNCHANGED posted
    <3>1. int_o /\ posted = NoStore /\ pc # Asleep
      BY <2>1, TrapsOutside DEF Trap, intrpt_timer, intrpt_timer_async, Stores, Asleep
    <3>2. p \in {<<"intr", 3>>, <<"intr", 4>>, <<"clear", 1>>, <<"handler", 1>>}
      BY <1>1, <2>1, <3>1, UpIsAsked DEF Stores, NestInv
    <3>3. QED
      BY <2>1, <3>1, <3>2, PositionsTrap
  <2>2. CASE Completes /\ p = posted
    <3>1. /\ pc = <<"trap", 1>> /\ mepc = posted /\ UNCHANGED <<pc, last, mepc, frames>>
          /\ posted' = NoStore
          /\ p \in {<<"intr", 3>>, <<"intr", 4>>, <<"clear", 1>>, <<"handler", 1>>}
      BY <1>1, <2>2 DEF Completes, PostedInv
    <3>2. Positions' = Positions
      BY <3>1 DEF Positions
    <3>3. QED
      BY <2>2, <3>1, <3>2
  <2>3. QED
    BY <2>1, <2>2
<1>3. p \in {"intr"} \X {3, 4} => asks /\ AskInv /\ (p = <<"intr", 3>> => stale)
  <2>1. CASE Trap /\ p = pc
    BY <1>1, <2>1, UpIsAsked DEF Trap, intrpt_timer, intrpt_timer_async, RequestInv
  <2>2. CASE Completes /\ p = posted
    BY <1>1, <2>2 DEF RequestInv, QuietInv, AskInv
  <2>3. QED
    BY <2>1, <2>2
<1>4. <<"intr", 2>> \in Positions' => hi' <= Hi(mtime')
  BY <1>1, <1>2, HiStays DEF RequestInv, callVars
<1>5. UNCHANGED <<hi, tend, stale, torn>>
  BY <1>1, TakesEffect DEF callVars
<1>6. CASE p = <<"intr", 3>>
  <2>1. stale /\ asks /\ AskInv /\ UNCHANGED <<due, asks>>
    BY <1>1, <1>3, <1>6, TakesEffect
  <2>2. AskInv'
    BY <1>2, <1>5, <2>1 DEF AskInv, NoStore, Idle
  <2>3. QED
    BY <1>2, <1>4, <2>1, <2>2 DEF RequestInv
<1>7. CASE p = <<"intr", 4>>
  <2>1. asks /\ AskInv /\ Hi(mtimecmp) = Hi(tend)
    <3>1. <<"intr", 4>> \in {pc, posted}
      BY <1>7
    <3>2. QED
      BY <1>3, <1>7, <3>1 DEF AskInv
  <2>2. mtimecmp' = tend /\ asks' = FALSE /\ due' = due
    BY <1>1, <1>7, <2>1, TakesEffect, LineTypes, Halves
  <2>3. Positions' = {<<"intr", 4>>}
    BY <1>2, <1>7 DEF Positions
  <2>4. QuietInv'
    BY <1>2, <1>5, <2>1, <2>2, <2>3 DEF QuietInv, AskInv, NoStore, Idle
  <2>5. QED
    BY <1>2, <1>4, <2>2, <2>4 DEF RequestInv
<1>8. CASE p \in {<<"clear", 1>>, <<"handler", 1>>}
  <2>1. /\ Hi(mtimecmp') = AllOnes
        /\ IF Unwritten THEN UNCHANGED <<due, asks>> ELSE due' = None /\ asks' = FALSE
    BY <1>1, <1>8, TakesEffect
  <2>2. CASE Unwritten
    <3>1. asks /\ AskInv /\ UNCHANGED <<due, asks>> /\ frames # <<>>
      BY <1>1, <2>1, <2>2 DEF Unwritten, RequestInv
    <3>2. stale
      <4>1. CASE Trap
        <5>1. pc \in Handling => stale
          BY <4>1, TrapsOutside DEF Trap
        <5>2. QED
          BY <1>1, <3>1, <5>1 DEF NestInv
      <4>2. CASE Completes
        <5>1. pc = <<"trap", 1>>
          BY <1>1, <4>2 DEF Completes, PostedInv
        <5>2. QED
          BY <1>1, <3>1, <5>1 DEF NestInv
      <4>3. QED
        BY <4>1, <4>2
    <3>3. AskInv'
      BY <1>2, <1>5, <3>1, <3>2 DEF AskInv, NoStore, Idle
    <3>4. QED
      BY <1>2, <1>4, <3>1, <3>3 DEF RequestInv
  <2>3. CASE ~Unwritten
    <3>1. due' = None /\ asks' = FALSE
      BY <2>1, <2>3
    <3>2. <<"intr", 3>> \notin Positions'
      <4>1. CASE p = <<"clear", 1>>
        BY <1>2, <4>1 DEF Positions
      <4>2. CASE p = <<"handler", 1>> /\ asks
        <5>1. pc \in Handling /\ (pc # <<"trap", 1>> \/ mepc = <<"handler", 1>>)
          BY <1>1, <4>2 DEF Completes, PostedInv
        <5>2. frames # <<>> /\ Positions = {frames[1].mepc} \ Handling
          BY <1>1, <5>1, FirstFrame
        <5>3. QED
          BY <1>2, <2>3, <4>2, <5>2 DEF Unwritten
      <4>3. CASE ~asks
        BY <1>1, <1>2, <4>3 DEF RequestInv, QuietInv
      <4>4. QED
        BY <1>8, <4>1, <4>2, <4>3
    <3>3. QuietInv'
      BY <1>2, <2>1, <3>1, <3>2 DEF QuietInv, NoStore, Idle, Hi, AllOnes
    <3>4. QED
      BY <1>2, <1>4, <3>1, <3>3 DEF RequestInv
  <2>4. QED
    BY <2>2, <2>3
<1>9. QED
  BY <1>2, <1>6, <1>7, <1>8

(* A library function that neither asks nor clears comes at most to the    *)
(* second reading of timer_get_interrupt.                                  *)
LEMMA RequestElsewhere ==
  ASSUME LineInv, Next, Library, UNCHANGED <<mepc, posted, frames>>,
         ~ \E c \in {"intr", "rearm"} : ReadIntrLo(c) \/ WriteHi(c) \/ WriteLo(c),
         ~ \E c \in {"clear", "handler"} : ClearHi(c) \/ ClearLo(c)
  PROVE  RequestInv'
<1> DEFINE Request == {<<"intr", 2>>, <<"intr", 3>>, <<"intr", 4>>, <<"clear", 2>>}
<1>1. /\ TypeInv /\ NestInv /\ RequestInv /\ mtime' = mtime + 1
  BY TimePasses DEF LineInv
<1>2. /\ pc \notin Handling /\ pc' \notin Handling /\ last' = pc
      /\ pc \notin Request /\ (pc' \in Request => pc' = <<"intr", 2>> /\ ReadHi("intr"))
      /\ UNCHANGED <<mtimecmp, due, asks, torn>>
      /\ pc \notin {"rearm"} \X (1 .. 4)
  BY <1>1
  DEF Library, CallGetTime, CallClear, CallCycle, CallGetInterrupt, CallSleep, Call, ReadHi,
      ReadCycleH, ReadCycle, CycleRetries, GetTimeReturns, CycleReturns, SleepBegins,
      SleepGoesOn, SleepReturns, Access, Idle, Callers, NestInv, Handling, InHandler, ReadOnly,
      Clock, WriteCmp, histVars
<1>3. ~asks
  BY <1>1, <1>2 DEF RequestInv, AskInv, Positions
<1>4. Positions' = {pc', pc} /\ Positions = {pc, last}
  BY <1>2 DEF Positions
<1>5. pc' = <<"intr", 2>> => hi' <= Hi(mtime')
  <2>1. ASSUME ReadHi("intr") PROVE hi' <= Hi(mtime')
    <3>1. Hi(mtime) <= Hi(mtime') /\ hi' = Hi(mtime)
      BY <1>1, <2>1, LineTypes, HiMonotonic DEF ReadHi
    <3>2. QED
      BY <3>1
  <2>2. QED
    BY <1>2, <2>1
<1>6. posted' \notin {"intr"} \X {3, 4}
  BY <1>1, <1>3 DEF RequestInv, QuietInv
<1>7. QED
  BY <1>1, <1>2, <1>3, <1>4, <1>5, <1>6 DEF RequestInv, QuietInv

(* The request is made: the time it computes is at most the one it is due  *)
(* at, and that time when the halves read belong together.                 *)
LEMMA RequestRead ==
  ASSUME LineInv, Next, ReadIntrLo("intr"), UNCHANGED posted
  PROVE  RequestInv'
<1>1. /\ TypeInv /\ NestInv /\ RequestInv /\ mtime' = mtime + 1
  BY TimePasses DEF LineInv
<1>2. /\ pc = <<"intr", 2>> /\ pc' = <<"intr", 3>> /\ last' = pc
      /\ tend' = Wide(curtime + delay) /\ mtime + delay <= MaxTime
      /\ due' = mtime + delay /\ asks' = TRUE /\ UNCHANGED <<mtimecmp, hi>>
      /\ torn' = (hi # Hi(mtime)) /\ stale' = (mtimecmp # Cleared)
  BY DEF ReadIntrLo, Access, InTime, ReadOnly, Clock, WriteCmp
<1>3. hi <= Hi(mtime)
  BY <1>1, <1>2 DEF RequestInv, Positions, Handling, InHandler
<1>4. /\ mtime \in Nat /\ delay \in Nat /\ hi \in Nat /\ Lo(mtime) \in 0 .. WORD - 1
      /\ Hi(mtime) \in Nat /\ mtime = Both(Hi(mtime), Lo(mtime)) /\ MaxTime \in Nat
      /\ Lo(mtime) \in Nat /\ curtime \in Nat
  BY <1>1, LineTypes, Halves, HalvesOfBoth, TimesInRange DEF curtime
<1>5. curtime <= mtime
  <2>1. CASE hi = Hi(mtime)
    BY <1>4, <2>1 DEF curtime
  <2>2. CASE hi < Hi(mtime)
    BY <1>4, <2>2, BothMonotonic DEF curtime
  <2>3. QED
    BY <1>3, <1>4, <2>1, <2>2
<1>6. tend' = curtime + delay
  BY <1>2, <1>4, <1>5, TimesInRange
<1>7. tend' <= due' /\ (~torn' => tend' = due') /\ due' # None
  <2>1. ~torn' => curtime = mtime
    BY <1>2, <1>4 DEF curtime
  <2>2. QED
    BY <1>2, <1>4, <1>5, <1>6, <2>1 DEF None
<1>8. ~stale' => /\ Lo(mtimecmp') = AllOnes /\ (Hi(mtimecmp) = AllOnes)'
                 /\ mtimecmp' >= tend'
  <2>1. AllOnes \in Nat /\ AllOnes \in 0 .. WORD - 1
    BY TimerWbAssumption DEF AllOnes
  <2>2. Hi(Cleared) = AllOnes /\ Lo(Cleared) = AllOnes
    BY <2>1, HalvesOfBoth DEF Cleared
  <2>3. mtimecmp = Cleared => mtimecmp > MaxTime
    BY <1>1, <2>2, Late
  <2>4. mtimecmp = Cleared => mtimecmp >= tend'
    BY <1>1, <1>2, <1>4, <1>5, <1>6, <2>3, LineTypes
  <2>5. QED
    BY <1>2, <2>2, <2>4 DEF Hi, AllOnes
<1>9. hi' <= Hi(mtime')
  BY <1>2, <1>3, HiStays
<1>10. Positions' = {<<"intr", 2>>, <<"intr", 3>>} /\ pc' \notin Handling
  BY <1>2 DEF Positions, Handling, InHandler
<1>11. posted' = NoStore
  BY <1>2 DEF LineInv, PostedInv
<1>12. AskInv'
  BY <1>2, <1>7, <1>8, <1>10, <1>11 DEF AskInv, NoStore, Idle, Handling, InHandler
<1>13. QED
  BY <1>2, <1>9, <1>10, <1>12 DEF RequestInv

(* The two writes of the request.                                          *)
LEMMA RequestWrite ==
  ASSUME LineInv, Next, WriteHi("intr") \/ WriteLo("intr"), UNCHANGED posted
  PROVE  RequestInv'
<1>1. /\ TypeInv /\ NestInv /\ PostedInv /\ RequestInv /\ mtime' = mtime + 1
  BY TimePasses DEF LineInv
<1>2. /\ mtimecmp \in Nat /\ tend \in Nat /\ due \in {None} \union Nat
      /\ Hi(mtimecmp) \in Nat /\ Lo(mtimecmp) \in 0 .. WORD - 1
      /\ Hi(tend) \in Nat /\ Lo(tend) \in 0 .. WORD - 1 /\ tend = Both(Hi(tend), Lo(tend))
  BY <1>1, LineTypes, Halves
<1> USE DEF Handling, InHandler
<1>3. CASE WriteHi("intr")
  <2>1. /\ pc = <<"intr", 3>> /\ pc' = <<"intr", 4>> /\ last' = pc /\ Takes(pc)
        /\ UNCHANGED <<hi, tend, stale>>
    BY <1>3 DEF WriteHi, Access, callVars
  <2>2. asks /\ AskInv
    BY <1>1, <2>1 DEF RequestInv, QuietInv, Positions
  <2>3. /\ Hi(mtimecmp') = Hi(tend) /\ Lo(mtimecmp') = Lo(mtimecmp)
        /\ mtimecmp' = Both(Hi(tend), Lo(mtimecmp)) /\ UNCHANGED <<due, asks, torn>>
    BY <1>1, <2>1, TakesEffect
  <2>4. ~stale => mtimecmp' >= tend
    <3>1. CASE ~stale
      <4>1. Lo(mtimecmp) = AllOnes
        BY <2>2, <3>1 DEF AskInv
      <4>2. WORD * Hi(tend) \in Nat /\ Lo(tend) <= AllOnes /\ AllOnes \in Nat
        BY <1>2, TimerWbAssumption DEF AllOnes
      <4>3. QED
        BY <1>2, <2>3, <4>1, <4>2 DEF Both
    <3>2. QED
      BY <3>1
  <2>5. Positions' = {<<"intr", 3>>, <<"intr", 4>>} /\ posted' = NoStore
    BY <1>1, <2>1 DEF Positions, PostedInv
  <2>6. AskInv'
    <3>1. (Hi(mtimecmp) = Hi(tend))'
      BY <2>1, <2>3 DEF Hi
    <3>2. (~stale => Lo(mtimecmp) = AllOnes)'
      BY <2>1, <2>2, <2>3 DEF AskInv, Lo, AllOnes
    <3>3. QED
      BY <2>1, <2>2, <2>3, <2>4, <2>5, <3>1, <3>2 DEF AskInv, NoStore, Idle
  <2>7. QED
    BY <2>1, <2>2, <2>3, <2>5, <2>6 DEF RequestInv
<1>4. CASE WriteLo("intr")
  <2>1. /\ pc = <<"intr", 4>> /\ pc' = Idle /\ last' = pc /\ Takes(pc) /\ UNCHANGED <<hi, tend>>
    BY <1>4 DEF WriteLo, Access, callVars, Back
  <2>2. /\ Hi(mtimecmp') = Hi(mtimecmp) /\ asks' = FALSE /\ UNCHANGED <<due, torn>>
        /\ mtimecmp' = Both(Hi(mtimecmp), Lo(tend))
    BY <1>1, <2>1, TakesEffect
  <2>3. Positions' = {<<"intr", 4>>, Idle} /\ pc' \notin Handling /\ posted' = NoStore
    BY <1>1, <2>1 DEF Positions, Idle, PostedInv
  <2>4. CASE asks
    <3>1. mtimecmp' = tend /\ due # None /\ tend <= due /\ (~torn => tend = due)
      BY <1>1, <1>2, <2>1, <2>2, <2>4 DEF RequestInv, AskInv
    <3>2. QED
      BY <2>1, <2>2, <2>3, <3>1 DEF RequestInv, QuietInv, Idle, NoStore
  <2>5. CASE ~asks
    <3>1. due = None /\ Hi(mtimecmp) = AllOnes
      BY <1>1, <2>1, <2>5 DEF RequestInv, QuietInv
    <3>2. QED
      BY <2>1, <2>2, <2>3, <3>1 DEF RequestInv, QuietInv, Idle, NoStore
  <2>6. QED
    BY <2>4, <2>5
<1>5. QED
  BY <1>3, <1>4

(* timer_clear_interrupt, called by the program or by the handler.         *)
LEMMA RequestClear ==
  ASSUME LineInv, Next, Rearm = {}, UNCHANGED <<mepc, posted, frames>>,
         NEW c \in {"clear", "handler"}, ClearHi(c) \/ ClearLo(c)
  PROVE  RequestInv'
<1>1. TypeInv /\ TypeInv' /\ NestInv /\ PostedInv /\ RequestInv
  BY TypeStep DEF LineInv
<1>2. /\ due # None => due \in Nat /\ due <= MaxTime
      /\ MaxTime \in Nat /\ tend \in Nat
  BY <1>1, LineTypes
<1> USE DEF Handling, InHandler
<1>3. hi <= Hi(mtime) => hi <= Hi(mtime')
  BY HiStays
<1>4. Hi(mtimecmp') = AllOnes => mtimecmp' > MaxTime /\ mtimecmp' \in Nat
  <2>1. mtimecmp' \in Nat
    BY <1>1, TimesInRange DEF TypeInv, TypeOK
  <2>2. QED
    BY <2>1, ClearedIsLate
<1>5. posted' = NoStore
  BY <1>1 DEF ClearHi, ClearLo, Access, PostedInv
<1>6. CASE ClearHi(c)
  <2>1. pc = <<c, 1>> /\ pc' = <<c, 2>> /\ last' = pc /\ Takes(pc) /\ UNCHANGED <<callVars, stale>>
    BY <1>6 DEF ClearHi, Access
  <2>2. /\ Hi(mtimecmp') = AllOnes /\ Lo(mtimecmp') = Lo(mtimecmp)
        /\ IF Unwritten THEN UNCHANGED <<due, asks>> ELSE due' = None /\ asks' = FALSE
        /\ UNCHANGED <<hi, tend, torn>>
    BY <1>1, <2>1, TakesEffect DEF callVars
  <2>3. /\ c = "clear" => Positions' = {<<"clear", 1>>, <<"clear", 2>>} /\ frames = <<>>
        /\ c = "handler" => Positions' = Positions /\ frames # <<>>
                            /\ Positions = {frames[1].mepc} \ Handling
    <3>1. c = "clear" => Positions' = {<<"clear", 1>>, <<"clear", 2>>} /\ frames = <<>>
      BY <1>1, <2>1 DEF Positions, NestInv
    <3>2. ASSUME c = "handler"
          PROVE  /\ Positions' = Positions /\ frames # <<>>
                 /\ Positions = {frames[1].mepc} \ Handling
      <4>1. pc \in Handling /\ pc' \in Handling /\ pc # <<"trap", 1>>
        BY <2>1, <3>2
      <4>2. Positions' = Positions
        BY <4>1 DEF Positions
      <4>3. QED
        BY <1>1, <4>1, <4>2, FirstFrame
    <3>3. QED
      BY <3>1, <3>2
  <2>4. (Hi(mtimecmp) = AllOnes)' /\ (Lo(mtimecmp) = AllOnes => (Lo(mtimecmp) = AllOnes)')
    BY <2>2 DEF Hi, Lo, AllOnes
  <2>5. CASE Unwritten
    <3>1. /\ asks /\ AskInv /\ frames[1].mepc \in {<<"intr", 2>>, <<"intr", 3>>}
          /\ c = "handler" /\ UNCHANGED <<due, asks>>
      BY <1>1, <2>2, <2>3, <2>5 DEF Unwritten, RequestInv
    <3>2. mtimecmp' >= tend
      BY <1>2, <1>4, <2>2, <3>1 DEF AskInv
    <3>3. AskInv'
      BY <1>5, <2>1, <2>2, <2>3, <2>4, <3>1, <3>2 DEF AskInv, NoStore, Idle
    <3>4. QED
      BY <1>1, <1>3, <2>1, <2>2, <2>3, <2>4, <3>1, <3>3 DEF RequestInv
  <2>6. CASE ~Unwritten
    <3>1. due' = None /\ asks' = FALSE
      BY <2>2, <2>6
    <3>2. <<"intr", 3>> \notin Positions'
      <4>1. CASE asks /\ c = "handler"
        BY <2>3, <2>6, <4>1 DEF Unwritten
      <4>2. CASE ~asks /\ c = "handler"
        BY <1>1, <2>3, <4>2 DEF RequestInv, QuietInv
      <4>3. QED
        BY <2>3, <4>1, <4>2
    <3>3. QED
      BY <1>1, <1>3, <1>5, <2>1, <2>2, <2>3, <2>4, <3>1, <3>2
      DEF RequestInv, QuietInv, NoStore, Idle
  <2>7. QED
    BY <2>5, <2>6
<1>7. CASE ClearLo(c)
  <2>1. /\ pc = <<c, 2>> /\ pc' = Back(c) /\ last' = pc /\ Takes(pc)
        /\ UNCHANGED <<hi, tend, stale>>
    BY <1>7 DEF ClearLo, Access
  <2>2. /\ Hi(mtimecmp') = Hi(mtimecmp) /\ Lo(mtimecmp') = AllOnes
        /\ UNCHANGED <<due, asks, torn>>
    BY <1>1, <2>1, TakesEffect
  <2>3. Hi(mtimecmp) = AllOnes /\ (~asks => due = None)
    BY <1>1, <2>1 DEF RequestInv, QuietInv, AskInv, Positions
  <2>4. /\ Positions' \subseteq Positions \union {Idle}
        /\ c = "handler" => Positions' = Positions /\ pc' = <<"trap", 2>>
        /\ pc' \in {Idle, <<"trap", 2>>}
    BY <2>1 DEF Positions, Back, Idle
  <2>5. (Hi(mtimecmp) = AllOnes)' /\ (Lo(mtimecmp) = AllOnes)'
    BY <2>2, <2>3 DEF Hi, Lo, AllOnes
  <2>6. CASE asks
    <3>1. c = "handler" /\ AskInv
      BY <1>1, <2>1, <2>6 DEF RequestInv, AskInv, Positions
    <3>2. mtimecmp' >= tend
      BY <1>2, <1>4, <2>2, <2>3, <3>1 DEF AskInv
    <3>3. <<"intr", 4>> \notin Positions
      BY <1>1, <2>1, <3>1 DEF AskInv
    <3>4. AskInv'
      BY <1>5, <2>1, <2>2, <2>4, <2>5, <3>1, <3>2, <3>3 DEF AskInv, NoStore, Idle
    <3>5. QED
      BY <1>1, <1>3, <2>1, <2>2, <2>4, <2>5, <2>6, <3>1, <3>4 DEF RequestInv
  <2>7. CASE ~asks
    BY <1>1, <1>3, <1>5, <2>1, <2>2, <2>3, <2>4, <2>5, <2>7
    DEF RequestInv, QuietInv, NoStore, Idle
  <2>8. QED
    BY <2>6, <2>7
<1>8. QED
  BY <1>6, <1>7

(* The invariant of the line is inductive.                                 *)
LEMMA LineStep == ASSUME Rearm = {} PROVE LineInv /\ [Next]_vars => LineInv'
<1> SUFFICES ASSUME LineInv, [Next]_vars PROVE LineInv'
  OBVIOUS
<1>0. CASE UNCHANGED vars
  BY <1>0, TypeStep
  DEF LineInv, NestInv, LostInv, NestedInv, Context, PostedInv, EdgeInv, StaysUp, RequestInv,
      AskInv, QuietInv, Positions, Handling, InHandler, int_o, Hi, Lo, AllOnes, vars, timerVars,
      callVars, histVars, trapVars
<1> SUFFICES ASSUME Next PROVE LineInv'
  BY <1>0
<1>1. TypeInv' /\ NestInv' /\ PostedInv' /\ EdgeInv'
  BY TypeStep, NestStep, PostedStep, EdgeStep DEF LineInv
<1>2. RequestInv'
  <2>1. CASE \/ (Tick \/ Wfi \/ Wakes) /\ UNCHANGED <<mepc, posted, frames>>
             \/ \E b \in BOOLEAN : EnableInt(b) /\ UNCHANGED <<mepc, posted, frames>>
             \/ (Prologue \/ Epilogue \/ Mret) /\ UNCHANGED posted
             \/ Trap /\ ReadOnly /\ UNCHANGED histVars
    BY <2>1, RequestStays
  <2>2. CASE Library /\ UNCHANGED <<mepc, posted, frames>>
    <3>1. \A c : ReadIntrLo(c) \/ WriteHi(c) \/ WriteLo(c) => c # "rearm"
      BY DEF LineInv, NestInv, ReadIntrLo, WriteHi, WriteLo, Access
    <3>2. QED
      BY <2>2, <3>1, RequestElsewhere, RequestRead, RequestWrite, RequestClear
  <2>3. CASE Trap /\ ~(ReadOnly /\ UNCHANGED histVars)
    <3>1. pc \in Stores /\ mepc' = pc /\ Takes(pc) /\ UNCHANGED <<callVars, posted, stale>>
      BY <2>3 DEF Trap
    <3>2. QED
      BY <2>3, <3>1, RequestBehind
  <2>4. CASE Completes
    <3>1. posted \in Stores /\ Takes(posted) /\ UNCHANGED <<callVars, stale>>
      BY <2>4 DEF Completes, LineInv, TypeInv, TypeOK
    <3>2. QED
      BY <2>4, <3>1, RequestBehind
  <2>5. QED
    BY <2>1, <2>2, <2>3, <2>4 DEF Next, Program
<1>3. QED
  BY <1>1, <1>2 DEF LineInv

LEMMA LineStays == ASSUME Rearm = {} PROVE Spec => []LineInv
<1>1. LineInv /\ [Next]_vars => LineInv'
  BY LineStep
<1>2. QED
  BY <1>1, InitLine, PTL DEF Spec

LEMMA LineInvTells == LineInv => LineTells
<1> SUFFICES ASSUME LineInv PROVE LineTells
  OBVIOUS
<1>1. /\ TypeInv /\ TypeOK /\ RequestInv /\ mtime \in Nat /\ mtimecmp \in Nat /\ tend \in Nat
      /\ (due # None => due \in Nat)
  BY LineTypes DEF LineInv, TypeInv
<1>2. CASE asks
  BY <1>1, <1>2 DEF RequestInv, AskInv, LineTells, Requested, Blurred, int_o
<1>3. CASE ~asks
  <2>1. due = None => ~int_o
    BY <1>1, <1>3, Late DEF RequestInv, QuietInv
  <2>2. QED
    BY <1>1, <1>3, <2>1 DEF RequestInv, QuietInv, LineTells, Requested, Blurred, int_o
<1>4. QED
  BY <1>2, <1>3

(* The line tells the truth about every request (timer.c 16-27), torn or   *)
(* not, interrupted or not: once written it is up from the requested time  *)
(* on, it is not up before when the reading was not torn, not even while   *)
(* the request is written over one that was cleared, and it is down once   *)
(* the request is cleared.                                                 *)
THEOREM LineAlwaysTells == ASSUME Rearm = {} PROVE Spec => []LineTells
BY LineStays, LineInvTells, PTL

(* A request that is due while interrupts are enabled has trapped or traps *)
(* in this cycle (CSR_Unit.v 92-105): no edge is lost.                     *)
THEOREM NoRequestMissed == ASSUME Rearm = {} PROVE Spec => []NotMissed
<1>1. LineInv => NotMissed
  BY LineInvTells
  DEF LineInv, LineTells, EdgeInv, NotMissed, intrpt_timer, intrpt_timer_async
<1>2. QED
  BY <1>1, LineStays, PTL

(* The interrupt traps for a request that stands and is due; or it was     *)
(* torn, or is being written over one that was not cleared.                *)
THEOREM TrapsOnlyWhenDue == ASSUME Rearm = {} PROVE Spec => TrapsAnswer
<1>1. LineInv /\ [Next]_vars => [Trap => due # None /\ (Blurred \/ mtime >= due)]_vars
  BY LineInvTells DEF LineTells, Trap, intrpt_timer, intrpt_timer_async
<1>2. QED
  BY <1>1, LineStays, PTL DEF Spec, TrapsAnswer

(* The handler returns to the instruction it interrupted, or to the one    *)
(* before (AtomRV.v 523, start.S 63-108), whatever store it left on the    *)
(* bus, unless that belongs to a request written over one not cleared.     *)
THEOREM HandlersResume == ASSUME Rearm = {} PROVE Spec => Resumes
<1>1. LineInv /\ [Next]_vars => [Mret => stale \/ pc' \in Last(from)]_vars
  <2> SUFFICES ASSUME LineInv, Mret, ~stale PROVE pc' \in Last(from)
    OBVIOUS
  <2>1. Len(from) = 1 /\ mepc \in from[1] /\ pc' = mepc
    BY DEF LineInv, NestInv, Mret, Handling, InHandler
  <2>2. QED
    BY <2>1 DEF Last
<1>2. QED
  BY <1>1, LineStays, PTL DEF Spec, Resumes
=============================================================================
