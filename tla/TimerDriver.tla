---------------------------- MODULE TimerDriver ----------------------------
(***************************************************************************)
(* The library functions that tell the time and ask for timer interrupts   *)
(* (sw/lib/libcatom/hydrogensoc/timer.c and libcatom/time.c), on the timer *)
(* and the cycle counter, which run on between any two accesses, and the   *)
(* interrupt itself: the edge that traps (CSR_Unit.v), the entry and exit  *)
(* of the trap handler (libcatom/start.S) and a handler such as the one of *)
(* examples/interrupt.  A step is one clock cycle, in which the program    *)
(* makes at most one access; pc names the access it makes next.            *)
(***************************************************************************)
EXTENDS TimerWb, Sequences, SequencesExt

CONSTANTS
  Delays,       \* the delays a program asks for
  Rearm,        \* and the one the handler asks for again; {} when it does not
  MaxTime       \* bound: the runs end here, long before 2^64 cycles

ASSUME TimerDriverAssumption ==
  /\ Delays \subseteq Nat /\ Rearm \subseteq Nat
  /\ MaxTime \in Nat /\ MaxTime < Both(AllOnes, 0)

VARIABLES
  pc,
  hi, lo,       \* the halves read so far (tmp1 and tmp2 in cycle())
  delay,        \* the argument of the call
  tend,         \* sleep_ms: when it may return
  mie,          \* the timer interrupt is enabled, in mstatus and mie
  async_r,      \* intrpt_timer_async_r
  last,         \* the access before pc
  mepc,
  posted,       \* the store a trap has left on the bus, or NoStore
  frames,       \* the context frames on the stack: [mepc, regs]
  from,         \* history: where the running handlers have to return to
  asks,         \* history: a request is being written
  start,        \* history: when the call began
  due,          \* history: when the requested interrupt is due, or None
  torn,         \* history: the halves of the request are not of one time
  stale         \* history: it is being written over a request not cleared

callVars == <<hi, lo, delay, tend>>
histVars == <<start, due, torn, stale, asks>>
trapVars == <<mie, async_r, last, mepc, posted, frames, from>>
vars == <<timerVars, pc, callVars, histVars, trapVars>>

None == -1
Idle == <<"idle", 0>>
NoStore == Idle

Init ==
  /\ TimerInit
  /\ pc = Idle
  /\ hi = 0 /\ lo = 0 /\ delay = 0 /\ tend = 0
  /\ start = 0 /\ due = None /\ torn = FALSE /\ stale = FALSE /\ asks = FALSE
  /\ mie = FALSE /\ async_r = FALSE /\ last = Idle /\ mepc = Idle
  /\ posted = NoStore /\ frames = <<>> /\ from = <<>>

(* Bound: nobody waits for a time after the end of the run. *)
InTime(t) == t <= MaxTime

Access(at, to) == pc = at /\ pc' = to /\ last' = at
ReadOnly == Clock("none", 0)

(* The program is elsewhere, or the access waits for the bus. *)
Tick == ReadOnly /\ UNCHANGED <<pc, last, callVars, histVars>>

Call(entry) ==
  /\ Access(Idle, entry)
  /\ start' = mtime
  /\ ReadOnly

-----------------------------------------------------------------------------
(* timer_get_time and timer_get_interrupt read the high half first.  The   *)
(* handler calls them as the program does: "intr" is a call by the program *)
(* and "rearm" one by the handler, as are "clear" and "handler".           *)
Back(c) == IF c \in {"intr", "clear"} THEN Idle ELSE <<"trap", 2>>

CallGetTime == Call(<<"time", 1>>) /\ UNCHANGED <<callVars, due, torn, stale, asks>>

CallGetInterrupt(d) ==
  /\ Call(<<"intr", 1>>)
  /\ delay' = d
  /\ UNCHANGED <<hi, lo, tend, due, torn, stale, asks>>

ReadHi(c) ==
  /\ Access(<<c, 1>>, <<c, 2>>)
  /\ hi' = Hi(mtime)
  /\ ReadOnly
  /\ UNCHANGED <<lo, delay, tend, histVars>>

(* Mutant of curtime: the halves change places. *)
CurtimeSwapped == Both(Lo(mtime), hi)

curtime == Both(hi, Lo(mtime))

GetTimeReturns ==
  /\ Access(<<"time", 2>>, Idle)
  /\ ReadOnly
  /\ UNCHANGED <<callVars, histVars>>

(* exp_time is kept in tend.  An older request that was not cleared is as  *)
(* bad as a torn reading while the new one is written: the comparator has  *)
(* halves of both then.                                                    *)
Cleared == Both(AllOnes, AllOnes)

ReadIntrLo(c) ==
  LET exp_time == Wide(curtime + delay) IN
  /\ Access(<<c, 2>>, <<c, 3>>)
  /\ InTime(mtime + delay)
  /\ tend' = exp_time
  /\ due' = mtime + delay
  /\ torn' = (hi # Hi(mtime)) /\ stale' = (mtimecmp # Cleared)
  /\ asks' = TRUE
  /\ ReadOnly
  /\ UNCHANGED <<hi, lo, delay, start>>

(* The stores to the comparator, and what each does when it takes effect.  *)
Stores == ({"intr", "rearm"} \X {3, 4}) \union ({"clear", "handler"} \X {1, 2})

(* Mutant of ClearFirst: the low half is cleared first. *)
ClearFirstLow == "mtimecmp"

ClearFirst == "mtimecmph"

(* Clearing ends the request, but not one the program is to write anew.    *)
Unwritten == asks /\ frames # <<>> /\ frames[1].mepc \in {<<"intr", 2>>, <<"intr", 3>>}

TakesHi == Clock("mtimecmph", Hi(tend)) /\ UNCHANGED <<due, asks>>
TakesLo == Clock("mtimecmp", Lo(tend)) /\ asks' = FALSE /\ UNCHANGED due

TakesClearHi ==
  /\ Clock(ClearFirst, AllOnes)
  /\ IF Unwritten THEN UNCHANGED <<due, asks>> ELSE due' = None /\ asks' = FALSE

TakesClearLo == Clock("mtimecmp", AllOnes) /\ UNCHANGED <<due, asks>>

Takes(store) ==
  /\ \/ store \in {"intr", "rearm"} \X {3} /\ TakesHi
     \/ store \in {"intr", "rearm"} \X {4} /\ TakesLo
     \/ store \in {"clear", "handler"} \X {1} /\ TakesClearHi
     \/ store \in {"clear", "handler"} \X {2} /\ TakesClearLo
  /\ UNCHANGED <<start, torn>>

WriteHi(c) ==
  /\ Access(<<c, 3>>, <<c, 4>>)
  /\ Takes(<<c, 3>>)
  /\ UNCHANGED <<callVars, stale>>

WriteLo(c) ==
  /\ Access(<<c, 4>>, Back(c))
  /\ Takes(<<c, 4>>) /\ stale' = FALSE
  /\ UNCHANGED callVars

CallClear ==
  /\ Call(<<"clear", 1>>)
  /\ UNCHANGED <<callVars, due, torn, stale, asks>>

ClearHi(c) ==
  /\ Access(<<c, 1>>, <<c, 2>>)
  /\ Takes(<<c, 1>>)
  /\ UNCHANGED <<callVars, stale>>

ClearLo(c) ==
  /\ Access(<<c, 2>>, IF c = "handler" /\ Rearm # {} THEN <<"rearm", 1>> ELSE Back(c))
  /\ Takes(<<c, 2>>)
  /\ IF pc' = <<"rearm", 1>> THEN delay' \in Rearm ELSE UNCHANGED delay
  /\ UNCHANGED <<hi, lo, tend, stale>>

-----------------------------------------------------------------------------
(* cycle() reads high, low, high and starts over when the high half has    *)
(* changed.  sleep_ms calls it once for the end of the sleep and then      *)
(* until that has come.                                                    *)
Callers == {"cycle", "sleep", "asleep"}

CallCycle ==
  /\ Call(<<"cycle", 1>>)
  /\ UNCHANGED <<callVars, due, torn, stale, asks>>

CallSleep(d) ==
  /\ Call(<<"sleep", 1>>)
  /\ delay' = d
  /\ UNCHANGED <<hi, lo, tend, due, torn, stale, asks>>

ReadCycleH(c) ==
  /\ Access(<<c, 1>>, <<c, 2>>)
  /\ hi' = Hi(csr_cycle)
  /\ ReadOnly
  /\ UNCHANGED <<lo, delay, tend, histVars>>

ReadCycle(c) ==
  /\ Access(<<c, 2>>, <<c, 3>>)
  /\ lo' = Lo(csr_cycle)
  /\ ReadOnly
  /\ UNCHANGED <<hi, delay, tend, histVars>>

(* Mutant of agrees: the second reading is not compared. *)
AgreesAlways == TRUE

agrees == hi = Hi(csr_cycle)
cycles == Both(Hi(csr_cycle), lo)

CycleRetries(c) ==
  /\ Access(<<c, 3>>, <<c, 1>>)
  /\ ~agrees
  /\ ReadOnly
  /\ UNCHANGED <<callVars, histVars>>

CycleReturns ==
  /\ Access(<<"cycle", 3>>, Idle)
  /\ agrees
  /\ ReadOnly
  /\ UNCHANGED <<callVars, histVars>>

SleepBegins ==
  /\ Access(<<"sleep", 3>>, <<"asleep", 1>>)
  /\ agrees /\ InTime(csr_cycle + delay)
  /\ tend' = Wide(cycles + delay)
  /\ ReadOnly
  /\ UNCHANGED <<hi, lo, delay, histVars>>

SleepGoesOn ==
  /\ Access(<<"asleep", 3>>, <<"asleep", 1>>)
  /\ agrees /\ cycles < tend
  /\ ReadOnly
  /\ UNCHANGED <<callVars, histVars>>

SleepReturns ==
  /\ Access(<<"asleep", 3>>, Idle)
  /\ agrees /\ cycles >= tend
  /\ ReadOnly
  /\ UNCHANGED <<callVars, histVars>>

-----------------------------------------------------------------------------
(* Interrupts.  The line is gated first and its rising edge traps; it also *)
(* wakes the core, enabled or not (AtomRV.v 150-159).                      *)

(* Mutant of intrpt_timer_async: the edge of the line itself is taken. *)
IntrptTimerRaw == int_o
intrpt_timer_async == mie /\ int_o
intrpt_timer == mie /\ intrpt_timer_async /\ ~async_r

Asleep == <<"wfi", 0>>

EnableInt(b) ==
  /\ pc = Idle /\ mie # b /\ mie' = b
  /\ ReadOnly
  /\ UNCHANGED <<pc, last, callVars, histVars>>

Wfi ==
  /\ pc = Idle /\ ~int_o /\ pc' = Asleep
  /\ ReadOnly
  /\ UNCHANGED <<last, callVars, histVars>>

Wakes ==
  /\ pc = Asleep /\ int_o /\ pc' = Idle /\ last' = Idle
  /\ ReadOnly
  /\ UNCHANGED <<callVars, histVars>>

(* Mutant of Saved: a sleeping core is not told apart. *)
SavedAsleep == {pc, last}

(* What mepc becomes: the instruction after the wfi, the one that comes    *)
(* next or, on a bubble of the pipeline, the one before, which is executed *)
(* a second time (AtomRV.v 523).                                           *)
Saved == IF pc = Asleep THEN {Idle} ELSE {pc, last}

(* A store that was in stage 2 stays on the bus when the trap flushes it   *)
(* (AtomRV_wb.v 154-176): it takes effect with the trap or behind it, and  *)
(* is made again after mret.  A write of the enables is done, too.         *)
Trap ==
  /\ intrpt_timer
  /\ pc' = <<"trap", 1>> /\ last' = <<"trap", 1>>
  /\ from' = Append(from, IF pc = Asleep THEN {Idle} ELSE {pc, last})
  /\ \/ mepc' \in Saved /\ ReadOnly /\ UNCHANGED <<posted, histVars>>
     \/ pc \in Stores /\ mepc' = pc /\ posted' = pc /\ ReadOnly /\ UNCHANGED histVars
     \/ pc \in Stores /\ mepc' = pc /\ Takes(pc) /\ UNCHANGED <<posted, stale>>
  /\ UNCHANGED mie \/ (pc = Idle /\ mepc' = Idle /\ mie' = FALSE)
  /\ UNCHANGED <<callVars, frames>>

Completes ==
  /\ posted # NoStore
  /\ Takes(posted) /\ posted' = NoStore
  /\ UNCHANGED <<pc, last, callVars, stale, mie, mepc, frames, from>>

(* trap_handler_base saves the registers and mepc, and trap_handler calls  *)
(* the handler, which clears the interrupt first.  A store of the program  *)
(* is done by then: the data port is served before the handler's fetches.  *)
(* Of what comes behind the reading of mepc, local work may be repeated.   *)
Prologue ==
  /\ pc = <<"trap", 1>> /\ posted = NoStore
  /\ pc' = <<"handler", 1>> /\ last' = <<"handler", 1>>
  /\ frames' = Append(frames, [mepc |-> mepc, regs |-> callVars])
  /\ ReadOnly
  /\ UNCHANGED <<callVars, histVars, mepc, from>>

(* EPILOGUE: a handler that was entered in between has changed mepc. *)
Epilogue ==
  /\ Access(<<"trap", 2>>, <<"trap", 3>>)
  /\ frames # <<>>
  /\ mepc' = Last(frames).mepc
  /\ LET regs == Last(frames).regs
     IN  hi' = regs[1] /\ lo' = regs[2] /\ delay' = regs[3] /\ tend' = regs[4]
  /\ ReadOnly
  /\ UNCHANGED <<histVars, frames, from>>

Mret ==
  /\ pc = <<"trap", 3>> /\ frames # <<>>
  /\ pc' = mepc /\ last' = mepc
  /\ frames' = Front(frames) /\ from' = Front(from)
  /\ ReadOnly
  /\ UNCHANGED <<callVars, histVars, mepc>>

-----------------------------------------------------------------------------
Library ==
  \/ CallGetTime \/ \E d \in Delays : CallGetInterrupt(d)
  \/ \E c \in {"time", "intr", "rearm"} : ReadHi(c)
  \/ \E c \in {"intr", "rearm"} : ReadIntrLo(c) \/ WriteHi(c) \/ WriteLo(c)
  \/ GetTimeReturns
  \/ CallClear \/ \E c \in {"clear", "handler"} : ClearHi(c) \/ ClearLo(c)
  \/ CallCycle \/ \E d \in Delays : CallSleep(d)
  \/ \E c \in Callers : ReadCycleH(c) \/ ReadCycle(c) \/ CycleRetries(c)
  \/ CycleReturns \/ SleepBegins \/ SleepGoesOn \/ SleepReturns

Program ==
  \/ (Tick \/ Library \/ Wfi \/ Wakes) /\ UNCHANGED <<mie, mepc, posted, frames, from>>
  \/ \E b \in BOOLEAN : EnableInt(b) /\ UNCHANGED <<mepc, posted, frames, from>>
  \/ (Prologue \/ Epilogue \/ Mret) /\ UNCHANGED <<mie, posted>>
  \/ Completes

Next ==
  /\ mtime < MaxTime
  /\ async_r' = intrpt_timer_async
  /\ Trap \/ (~intrpt_timer /\ Program)

Spec == Init /\ [][Next]_vars

-----------------------------------------------------------------------------
Accesses ==
  {Idle, Asleep} \union ({"time", "clear", "handler"} \X {1, 2})
    \union ({"intr", "rearm"} \X (1 .. 4)) \union ({"trap"} \union Callers) \X (1 .. 3)

TypeOK ==
  /\ {mtime, csr_cycle} \subseteq 0 .. MaxTime
  /\ {mtimecmp, tend} \subseteq 0 .. WORD * WORD - 1
  /\ {hi, lo} \subseteq 0 .. WORD - 1
  /\ delay \in Delays \union Rearm \union {0}
  /\ start \in 0 .. MaxTime /\ due \in {None} \union (0 .. MaxTime)
  /\ {torn, stale, asks, mie, async_r} \subseteq BOOLEAN
  /\ {pc, last, mepc} \subseteq Accesses /\ posted \in Stores \union {NoStore}

(* cycle() returns a time of its own call, also when the low half wraps    *)
(* around between its readings (time.c 7-31).                              *)
CycleIsCurrent == [][CycleReturns => cycles \in start .. csr_cycle]_vars

(* A sleep never ends before its time (time.c 34-40). *)
SleepsLongEnough == [][SleepReturns => csr_cycle >= start + delay]_vars

(* Once a request is written the line is up from the time asked for at the *)
(* latest, and no earlier, unless the low half of mtime wrapped around     *)
(* between the readings (timer.c 16-22); nor is it earlier while the       *)
(* request is being written, unless an older one was not cleared first.    *)
(* After timer_clear_interrupt the line stays down until                   *)
(* the next request is written (timer.c 24-27; "writing a large value ...  *)
(* clears the interrupt", rtl/uncore/timer/README.md).                     *)
Requested == due # None /\ ~asks
Blurred == torn \/ (asks /\ stale)
LineTells ==
  /\ TypeOK
  /\ Requested /\ mtime >= due => int_o
  /\ due # None /\ ~Blurred /\ int_o => mtime >= due
  /\ due = None => ~int_o

(* A request traps when it is due, and never twice. *)
TrapsAnswer == [][Trap => due # None /\ (Blurred \/ mtime >= due)]_vars

(* A request that is due while interrupts are enabled is not missed: it    *)
(* traps in this cycle, or its handler has not cleared it yet.             *)
InHandler == {<<"trap", 1>>, <<"handler", 1>>}
NotMissed ==
  Requested /\ mtime >= due /\ mie => intrpt_timer \/ pc \in InHandler

(* The handler returns to where the program was interrupted, or at most an *)
(* instruction before; after the wfi when it slept.  That needs a handler  *)
(* that does not ask for the next interrupt itself (start.S 86-108: one    *)
(* that comes during EPILOGUE changes mepc after it was restored), and     *)
(* that the trap did not come into the writing of a request over one not   *)
(* cleared: its store may take the line down behind the trap and up again  *)
(* before PROLOGUE (start.S 63-83) has saved mepc.                         *)
Resumes == [][Mret => stale \/ pc' \in Last(from)]_vars

(* Without that exception it does not hold. *)
ResumesAlways == [][Mret => pc' \in Last(from)]_vars
=============================================================================
