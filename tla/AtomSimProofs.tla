---------------------------- MODULE AtomSimProofs ----------------------------
(***************************************************************************)
(* Proofs about AtomSim, for every program, every set of breakpoints and   *)
(* every sequence of commands and signals.                                 *)
(***************************************************************************)
EXTENDS AtomSim, TLAPS

(* Where the program counter may be when the user is asked: at an EBREAK   *)
(* only in a simulator started with --debug.  A run command has been given *)
(* when it goes on from there.                                             *)
Asking == phase \in {"prompt", "resume"}
AskInv ==
  /\ Asking => in_debug_mode_ /\ pending_steps = 0 /\ (AtEbreak => debug_flag)
  /\ phase = "resume" => rval = "run"

(* Steps are only pending in debug mode, and no more than were asked for.  *)
PendingInv ==
  /\ pending_steps > 0 => in_debug_mode_
  /\ phase = "check" /\ asked.steps <= 1 => pending_steps = 0
  /\ phase = "step" /\ rval # "step" /\ asked.steps <= 1 => pending_steps = 0
  /\ phase = "step" /\ rval = "step" => pending_steps <= asked.steps
  /\ phase = "step" => rval \in {"none", "step", "run"}

(* A step that was asked for starts at once; nothing else moves the clock  *)
(* in debug mode.                                                          *)
StepInv ==
  phase = "step" /\ in_debug_mode_ /\ rval # "run" /\ asked.steps <= 1 =>
    rval = "step" /\ ticks = asked.from

(* Once Ctrl+C is noticed, a running simulator makes no further step.      *)
SignalInv ==
  CTRL_C_PRESSED /\ ~in_debug_mode_ =>
    ticks <= signalled + 1 /\ (phase = "step" => ticks = signalled)

Inv == TypeOK /\ StopsWhereAsked /\ AskInv /\ PendingInv /\ StepInv /\ SignalInv

LEMMA InitInv == Init => Inv
<1> SUFFICES ASSUME Init PROVE Inv
  OBVIOUS
<1>1. TypeOK
  <2>1. {debug_flag, in_debug_mode_, CTRL_C_PRESSED, trace_flag} \subseteq BOOLEAN
    BY DEF Init
  <2>2. breakpoints_ \in [Slots -> Pcs \union {NoPc}]
    BY DEF Init
  <2>3. phase = "check" /\ pending_steps = 0 /\ rval = "none" /\ m_trace \in {"null", "open"}
    BY DEF Init
  <2>4. pc \in Pcs /\ ticks \in 0 .. MaxTicks /\ signalled \in 0 .. MaxTicks
    BY AtomSimAssumption DEF Init
  <2>5. asked \in [steps : Nat, from : 0 .. MaxTicks]
    BY AtomSimAssumption DEF Init
  <2>6. QED
    BY <2>1, <2>2, <2>3, <2>4, <2>5 DEF TypeOK
<1>2. phase = "check" /\ pending_steps = 0 /\ ~CTRL_C_PRESSED
  BY DEF Init
<1>3. QED
  BY <1>1, <1>2 DEF Inv, StopsWhereAsked, AskInv, Asking, PendingInv, StepInv, SignalInv

LEMMA TypeStep == Inv /\ [Next]_vars => TypeOK'
<1> SUFFICES ASSUME Inv, [Next]_vars PROVE TypeOK'
  OBVIOUS
<1> USE AtomSimAssumption DEF Inv, TypeOK
<1>1. ASSUME Loop PROVE TypeOK'
  <2>1. CASE ExitAtEbreak
    BY <2>1 DEF ExitAtEbreak, Ends, Debug, Pending, Stops, Hit, AtEbreak, consoleVars, target, history
  <2>2. CASE ExitAtLimit
    BY <2>2 DEF ExitAtLimit, Ends, Debug, Pending, Stops, Hit, AtEbreak, consoleVars, target, history
  <2>3. CASE OpenPrompt
    BY <2>3 DEF OpenPrompt, consoleVars, target, history
  <2>4. CASE GoOn
    BY <2>4 DEF GoOn, Debug, Pending, Stops, Hit, AtEbreak, consoleVars, target, history
  <2>5. CASE Tick
    BY <2>5 DEF Tick, Left, consoleVars, history
  <2>6. CASE Resume
    BY <2>6 DEF Resume, consoleVars, target, history
  <2>7. CASE Destroy
    BY <2>7 DEF Destroy, Close, consoleVars, target, history
  <2>8. QED
    BY <1>1, <2>1, <2>2, <2>3, <2>4, <2>5, <2>6, <2>7 DEF Loop
<1>2. ASSUME User PROVE TypeOK'
  <2>1. CASE DoQuit
    BY <2>1 DEF DoQuit, Ends, target, history
  <2>2. CASE EndOfInput
    BY <2>2 DEF EndOfInput, Ends, consoleVars, target, history
  <2>3. CASE DoRun
    BY <2>3 DEF DoRun, target, history
  <2>4. CASE DoReset
    BY <2>4 DEF DoReset, history
  <2>5. CASE DoQuery
    BY <2>5 DEF DoQuery, loopVars, target, history
  <2>6. ASSUME NEW n \in Counts, DoStep(n) PROVE TypeOK'
    BY <2>6 DEF DoStep, target
  <2>7. ASSUME NEW a \in Pcs, DoBreak(a) PROVE TypeOK'
    BY <2>7 DEF DoBreak, loopVars, target, history
  <2>8. ASSUME NEW on \in BOOLEAN, DoTrace(on) PROVE TypeOK'
    BY <2>8 DEF DoTrace, Open, Close, target, history
  <2>9. QED
    BY <1>2, <2>1, <2>2, <2>3, <2>4, <2>5, <2>6, <2>7, <2>8 DEF User
<1>3. CASE Interrupt
  BY <1>3 DEF Interrupt, consoleVars, target
<1>4. CASE UNCHANGED vars
  BY <1>4 DEF vars, loopVars, consoleVars, target, history
<1>5. QED
  BY <1>1, <1>2, <1>3, <1>4 DEF Next

-----------------------------------------------------------------------------
(* What each action does to the rest of the invariant.                     *)
LEMMA InvStep == Inv /\ [Next]_vars => Inv'
<1> SUFFICES ASSUME Inv, [Next]_vars PROVE Inv'
  OBVIOUS
<1>1. TypeOK'
  BY TypeStep
<1> DEFINE Rest == AskInv /\ PendingInv /\ StepInv /\ SignalInv
           Where == phase = "step" => /\ Hit => rval # "none"
                                      /\ AtEbreak => debug_flag /\ rval # "none"
<1>2. SUFFICES Rest' /\ Where'
  BY <1>1, <1>2 DEF Inv, StopsWhereAsked
<1> USE <1>1 DEF Inv, TypeOK, StopsWhereAsked, AskInv, Asking, PendingInv, StepInv, SignalInv
<1>3. CASE ExitAtEbreak
  BY <1>3 DEF ExitAtEbreak, Ends, Debug, Pending, Stops, Hit, AtEbreak, consoleVars, target, history
<1>4. CASE ExitAtLimit
  BY <1>4 DEF ExitAtLimit, Passes, Ends, Debug, Pending, Stops, Hit, AtEbreak, consoleVars, target, history
<1>5. CASE OpenPrompt
  BY <1>5 DEF OpenPrompt, Passes, Hit, AtEbreak, consoleVars, target, history
<1>6. CASE GoOn
  BY <1>6 DEF GoOn, Passes, Interrupted, Debug, Pending, Stops, Hit, AtEbreak, consoleVars, target, history
<1>7. CASE Tick
  BY <1>7 DEF Tick, Left, consoleVars, history
<1>8. CASE Resume
  BY <1>8 DEF Resume, Hit, AtEbreak, consoleVars, target, history
<1>9. CASE Destroy
  BY <1>9 DEF Destroy, Close, consoleVars, target, history
<1>10. CASE DoQuit
  BY <1>10 DEF DoQuit, Ends, target, history
<1>11. CASE EndOfInput
  BY <1>11 DEF EndOfInput, Ends, consoleVars, target, history
<1>12. CASE DoRun
  BY <1>12 DEF DoRun, AtEbreak, target, history
<1>13. CASE DoReset
  BY <1>13, AtomSimAssumption DEF DoReset, AtEbreak, history
<1>14. CASE DoQuery
  BY <1>14 DEF DoQuery, AtEbreak, loopVars, target, history
<1>15. ASSUME NEW n \in Counts, DoStep(n) PROVE Rest' /\ Where'
  BY <1>15, AtomSimAssumption DEF DoStep, AtEbreak, target
<1>16. ASSUME NEW a \in Pcs, DoBreak(a) PROVE Rest' /\ Where'
  BY <1>16 DEF DoBreak, AtEbreak, loopVars, target, history
<1>17. ASSUME NEW on \in BOOLEAN, DoTrace(on) PROVE Rest' /\ Where'
  BY <1>17 DEF DoTrace, AtEbreak, target, history
<1>18. CASE Interrupt
  <2>1. UNCHANGED <<in_debug_mode_, pending_steps, rval, breakpoints_, pc, ticks, asked, debug_flag>>
    BY <1>18 DEF Interrupt, consoleVars, target
  <2>2. CASE CTRL_C_PRESSED
    BY <1>18, <2>1, <2>2 DEF Interrupt
  <2>3. CASE ~CTRL_C_PRESSED
    <3>1. phase' = phase /\ signalled' = ticks
      BY <1>18, <2>3 DEF Interrupt
    <3>2. Rest'
      BY <2>1, <3>1 DEF AtEbreak
    <3>3. Where'
      BY <2>1, <3>1 DEF Hit, AtEbreak
    <3>4. QED
      BY <3>2, <3>3
  <2>4. QED
    BY <2>2, <2>3
<1>19. CASE UNCHANGED vars
  BY <1>19 DEF vars, loopVars, consoleVars, target, history, Hit, AtEbreak
<1>20. QED
  BY <1>3, <1>4, <1>5, <1>6, <1>7, <1>8, <1>9, <1>10, <1>11, <1>12, <1>13, <1>14, <1>15,
     <1>16, <1>17, <1>18, <1>19 DEF Next, Loop, User

LEMMA InvAlways == Spec => []Inv
BY InitInv, InvStep, PTL DEF Spec

(* The simulator never runs past a breakpoint or an EBREAK on its own      *)
(* (atomsim.cpp 61-111), however many steps were pending when it came      *)
(* there.                                                                  *)
THEOREM NeverRunsPast == Spec => []StopsWhereAsked
<1>1. Inv => StopsWhereAsked
  BY DEF Inv
<1>2. QED
  BY <1>1, InvAlways, PTL

(* Ctrl+C stops a running simulator within one tick (main.cpp 37-45,       *)
(* atomsim.cpp 123).                                                       *)
THEOREM CtrlCStops == Spec => []CtrlCReturns
<1>1. Inv => CtrlCReturns
  BY DEF Inv, SignalInv, CtrlCReturns
<1>2. QED
  BY <1>1, InvAlways, PTL

(* A step command of one step, or none, makes one tick (interactive.cpp    *)
(* 406-425, atomsim.cpp 151).                                              *)
THEOREM SingleStep == Spec => []StepsOnce
<1>1. Inv => StepsOnce
  BY DEF Inv, TypeOK, StepInv, StepsOnce, Overruns
<1>2. QED
  BY <1>1, InvAlways, PTL
=============================================================================
