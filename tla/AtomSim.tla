------------------------------- MODULE AtomSim -------------------------------
(***************************************************************************)
(* The simulator's main loop (sim/atomsim.cpp), its console                *)
(* (sim/interactive.cpp), the Ctrl+C handler (sim/main.cpp) and the trace  *)
(* file of the test bench (sim/testbench.hpp).  The simulated program is a *)
(* flow of program counters; any instruction may take any number of ticks. *)
(***************************************************************************)
EXTENDS Integers

CONSTANTS
  Pcs,          \* the program counters of the simulated program
  ResetPc,
  Flow,         \* Flow[pc]: where the program may go from pc
  Ebreaks,      \* where an EBREAK instruction is
  Slots,        \* 0 .. NUM_MAX_BREAKPOINTS - 1
  MAXITR,       \* sim_config_.maxitr
  Counts,       \* arguments of the step command
  MaxTicks      \* bound on the ticks of a behaviour

ASSUME AtomSimAssumption ==
  /\ Pcs \subseteq Nat /\ Ebreaks \subseteq Pcs
  /\ ResetPc \in Pcs \ Ebreaks       \* the instruction register holds a NOP then
  /\ Flow \in [Pcs -> SUBSET Pcs]
  /\ Slots \subseteq Nat
  /\ MAXITR \in Nat /\ Counts \subseteq Nat /\ MaxTicks \in Nat
  /\ MaxTicks > MAXITR + 1

VARIABLES
  phase,            \* where the loop is
  debug_flag,       \* --debug
  in_debug_mode_, pending_steps, rval, breakpoints_, exitcode,
  CTRL_C_PRESSED,
  trace_flag, m_trace,
  pc, ticks,        \* the target, and m_tickcount_total
  asked,            \* history: the last step command, and ticks at that time
  signalled         \* history: ticks when Ctrl+C was noticed

loopVars == <<phase, in_debug_mode_, pending_steps, rval, exitcode>>
consoleVars == <<breakpoints_, trace_flag>>
target == <<pc, ticks>>
history == <<asked, signalled>>
vars == <<loopVars, consoleVars, target, history, debug_flag, CTRL_C_PRESSED, m_trace>>

NoPc == -1      \* an inactive breakpoint

-----------------------------------------------------------------------------
(* The trace file: never opened, open, or closed with m_trace still        *)
(* pointing to it.  Touching it then is undefined: it may be fatal.        *)
Open(t)  == IF t = "null" THEN "open" ELSE t
Close(t) == IF t = "null" THEN "null" ELSE "dangling"
Survives == {TRUE} \union {FALSE : x \in {m_trace} \ {"null", "open"}}

-----------------------------------------------------------------------------
(* One turn of the loop: what stops it is looked at before the tick.       *)

Hit == \E s \in Slots : breakpoints_[s] = pc
AtEbreak == pc \in Ebreaks

(* Stopping here makes the simulator forget the steps it was to make. *)
Stops == Hit \/ (AtEbreak /\ debug_flag)
Debug == in_debug_mode_ \/ Stops

(* Mutant of Pending: a breakpoint does not end a sequence of steps. *)
PendingKept == pending_steps
Pending == IF Stops THEN 0 ELSE pending_steps

Ends(code) ==
  /\ phase' = "exited"
  /\ exitcode' = code

ExitAtEbreak ==
  /\ phase = "check"
  /\ AtEbreak /\ ~debug_flag
  /\ Ends("success")
  /\ in_debug_mode_' = Debug /\ pending_steps' = Pending /\ rval' = "none"
  /\ UNCHANGED <<consoleVars, target, history, debug_flag, CTRL_C_PRESSED, m_trace>>

Passes == phase = "check" /\ ~(AtEbreak /\ ~debug_flag)

(* Mutant of Exceeded: the limit holds in run mode only. *)
ExceededRunning == ticks > MAXITR /\ ~Debug
Exceeded == ticks > MAXITR

ExitAtLimit ==
  /\ Passes /\ Exceeded
  /\ Ends("failure")
  /\ in_debug_mode_' = Debug /\ pending_steps' = Pending /\ rval' = "none"
  /\ UNCHANGED <<consoleVars, target, history, debug_flag, CTRL_C_PRESSED, m_trace>>

(* Mutant of Interrupted: Ctrl+C is looked at in debug mode only. *)
InterruptedDebug == Pending = 0 /\ Debug
Interrupted == Pending = 0 /\ (Debug \/ CTRL_C_PRESSED)

OpenPrompt ==
  /\ Passes /\ ~Exceeded /\ Interrupted
  /\ phase' = "prompt"
  /\ in_debug_mode_' = TRUE /\ pending_steps' = 0 /\ rval' = "none"
  /\ UNCHANGED <<exitcode, consoleVars, target, history, debug_flag, CTRL_C_PRESSED, m_trace>>

GoOn ==
  /\ Passes /\ ~Exceeded /\ ~Interrupted
  /\ phase' = "step"
  /\ in_debug_mode_' = Debug /\ pending_steps' = Pending /\ rval' = "none"
  /\ UNCHANGED <<exitcode, consoleVars, target, history, debug_flag, CTRL_C_PRESSED, m_trace>>

(* Mutant of Left: the count is not taken down. *)
LeftAll == pending_steps
Left == IF rval = "step" /\ pending_steps > 0 THEN pending_steps - 1 ELSE pending_steps

(* step(), and the count of the steps to make.                             *)
Tick ==
  /\ phase = "step" /\ ticks < MaxTicks
  /\ \E alive \in Survives :
       /\ phase' = IF alive THEN "check" ELSE "crashed"
       /\ pc' \in {pc} \union Flow[pc]
       /\ ticks' = ticks + 1
       /\ pending_steps' = Left
  /\ UNCHANGED <<in_debug_mode_, rval, exitcode, consoleVars, history, debug_flag,
                 CTRL_C_PRESSED, m_trace>>

(* A run command has been given: Ctrl+C is forgotten, also one that came   *)
(* since.                                                                  *)
Resume ==
  /\ phase = "resume"
  /\ phase' = "step"
  /\ in_debug_mode_' = FALSE
  /\ CTRL_C_PRESSED' = FALSE
  /\ UNCHANGED <<pending_steps, rval, exitcode, consoleVars, target, history, debug_flag, m_trace>>

(* ~Testbench closes the trace. *)
Destroy ==
  /\ phase = "exited"
  /\ \E alive \in Survives : phase' = IF alive THEN "gone" ELSE "crashed"
  /\ m_trace' = Close(m_trace)
  /\ UNCHANGED <<in_debug_mode_, pending_steps, rval, exitcode, consoleVars, target, history,
                 debug_flag, CTRL_C_PRESSED>>

-----------------------------------------------------------------------------
(* The console.  An empty line repeats the last command, which is no other *)
(* step than typing it again.                                              *)
DoQuit ==
  /\ phase = "prompt"
  /\ Ends("success") /\ rval' = "exit"
  /\ UNCHANGED <<in_debug_mode_, pending_steps, breakpoints_, trace_flag, target, history,
                 debug_flag, CTRL_C_PRESSED, m_trace>>

(* Ctrl+D. *)
EndOfInput ==
  /\ phase = "prompt"
  /\ Ends("success") /\ rval' = "exit"
  /\ UNCHANGED <<in_debug_mode_, pending_steps, consoleVars, target, history, debug_flag,
                 CTRL_C_PRESSED, m_trace>>

DoRun ==
  /\ phase = "prompt"
  /\ phase' = "resume" /\ rval' = "run"
  /\ UNCHANGED <<in_debug_mode_, pending_steps, exitcode, breakpoints_, trace_flag, target,
                 history, debug_flag, CTRL_C_PRESSED, m_trace>>

DoStep(n) ==
  /\ phase = "prompt"
  /\ phase' = "step" /\ rval' = "step" /\ pending_steps' = n
  /\ asked' = [steps |-> n, from |-> ticks]
  /\ UNCHANGED <<in_debug_mode_, exitcode, breakpoints_, trace_flag, target, signalled,
                 debug_flag, CTRL_C_PRESSED, m_trace>>

DoReset ==
  /\ phase = "prompt" /\ ticks + 1 < MaxTicks
  /\ \E alive \in Survives : phase' = IF alive THEN "prompt" ELSE "crashed"
  /\ pc' = ResetPc /\ ticks' = ticks + 1
  /\ UNCHANGED <<in_debug_mode_, pending_steps, rval, exitcode, breakpoints_, trace_flag,
                 history, debug_flag, CTRL_C_PRESSED, m_trace>>

(* The first free slot; with none the command only says that it was set.   *)
DoBreak(a) ==
  /\ phase = "prompt"
  /\ LET free == {s \in Slots : breakpoints_[s] = NoPc}
         first == CHOOSE s \in free : \A t \in free : s <= t
     IN  breakpoints_' = IF free = {} THEN breakpoints_ ELSE [breakpoints_ EXCEPT ![first] = a]
  /\ UNCHANGED <<loopVars, trace_flag, target, history, debug_flag, CTRL_C_PRESSED, m_trace>>

DoTrace(on) ==
  /\ phase = "prompt"
  /\ trace_flag' = on
  /\ IF on = trace_flag
     THEN UNCHANGED <<phase, m_trace>>
     ELSE \E alive \in IF on THEN {TRUE} ELSE Survives :
            /\ phase' = IF alive THEN "prompt" ELSE "crashed"
            /\ m_trace' = IF on THEN Open(m_trace) ELSE Close(m_trace)
  /\ UNCHANGED <<in_debug_mode_, pending_steps, rval, exitcode, breakpoints_, target, history,
                 debug_flag, CTRL_C_PRESSED>>

DoQuery ==
  /\ phase = "prompt"
  /\ UNCHANGED <<loopVars, breakpoints_, trace_flag, target, history, debug_flag,
                 CTRL_C_PRESSED, m_trace>>

User ==
  \/ DoQuit \/ EndOfInput \/ DoRun \/ DoReset \/ DoQuery
  \/ \E n \in Counts : DoStep(n)
  \/ \E a \in Pcs : DoBreak(a)
  \/ \E on \in BOOLEAN : DoTrace(on)

(* Ctrl+C, at any moment; a second one before the first is forgotten ends  *)
(* the simulator.                                                          *)
Interrupt ==
  /\ phase \notin {"exited", "gone", "crashed"}
  /\ CTRL_C_PRESSED' = TRUE
  /\ IF CTRL_C_PRESSED
     THEN phase' = "gone" /\ exitcode' = "killed" /\ UNCHANGED signalled
     ELSE UNCHANGED <<phase, exitcode>> /\ signalled' = ticks
  /\ UNCHANGED <<in_debug_mode_, pending_steps, rval, consoleVars, target, asked, debug_flag,
                 m_trace>>

-----------------------------------------------------------------------------
Init ==
  /\ phase = "check" /\ debug_flag \in BOOLEAN /\ in_debug_mode_ = debug_flag
  /\ pending_steps = 0 /\ rval = "none" /\ exitcode = "success"
  /\ breakpoints_ = [s \in Slots |-> NoPc]
  /\ CTRL_C_PRESSED = FALSE
  /\ trace_flag \in BOOLEAN /\ m_trace = IF trace_flag THEN "open" ELSE "null"
  /\ pc = ResetPc /\ ticks = 0
  /\ asked = [steps |-> 0, from |-> 0] /\ signalled = 0

Loop == ExitAtEbreak \/ ExitAtLimit \/ OpenPrompt \/ GoOn \/ Tick \/ Resume \/ Destroy

Next == Loop \/ User \/ Interrupt

(* The simulator runs; the user need not do anything. *)
Spec == Init /\ [][Next]_vars /\ WF_vars(Loop)

-----------------------------------------------------------------------------
TypeOK ==
  /\ phase \in {"check", "prompt", "resume", "step", "exited", "gone", "crashed"}
  /\ {debug_flag, in_debug_mode_, CTRL_C_PRESSED, trace_flag} \subseteq BOOLEAN
  /\ pending_steps \in Nat
  /\ rval \in {"none", "step", "run", "exit"}
  /\ breakpoints_ \in [Slots -> Pcs \union {NoPc}]
  /\ m_trace \in {"null", "open", "dangling"}
  /\ pc \in Pcs /\ ticks \in 0 .. MaxTicks
  /\ asked \in [steps : Nat, from : 0 .. MaxTicks]
  /\ signalled \in 0 .. MaxTicks

(* The clock never passes a breakpoint unless the user has just answered   *)
(* the prompt there, whatever steps were pending; nor an EBREAK, which     *)
(* only a simulator started with --debug goes over (atomsim.cpp 65-108).   *)
StopsWhereAsked ==
  /\ TypeOK
  /\ phase = "step" =>
       /\ Hit => rval # "none"
       /\ AtEbreak => debug_flag /\ rval # "none"

(* "while running, press ctrl+c to stop & return to console immediately"   *)
(* (interactive.cpp 318): at most the tick that was under way is made, for *)
(* a simulator that is running and not stepping.                           *)
CtrlCReturns == CTRL_C_PRESSED /\ ~in_debug_mode_ => ticks <= signalled + 1

(* In debug mode the clock only does what the last step command asked for, *)
(* of which "step 0" is one tick too.                                      *)
Overruns ==
  /\ phase = "step" /\ in_debug_mode_ /\ rval # "run"
  /\ ticks - asked.from >= (IF asked.steps = 0 THEN 1 ELSE asked.steps)

(* A single step is a single tick (interactive.cpp 408-412).               *)
StepsOnce == asked.steps <= 1 => ~Overruns

(* "Step for specified cycles" (interactive.cpp 283).                      *)
StepsAsAsked == ~Overruns

(* The simulator always comes back to its console or ends, at the latest   *)
(* when maxitr is exceeded (atomsim.cpp 104-109), also when stepping.      *)
RunEnds == []<>(phase \in {"prompt", "exited", "gone", "crashed"})
=============================================================================
