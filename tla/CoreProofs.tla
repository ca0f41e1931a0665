------------------------------ MODULE CoreProofs ------------------------------
(***************************************************************************)
(* Proofs about the core and its memory (module CoreMem), for every        *)
(* program, every size of the address space and every latency.             *)
(***************************************************************************)
EXTENDS HydrogenSoC, TLAPS

USE CoreAssumption

-----------------------------------------------------------------------------
(* Addresses. *)
LEMMA PlusType ==
  ASSUME NEW a \in Addresses, NEW n \in {1, 2}
  PROVE  Plus(a, n) \in Addresses
BY DEF Addresses, Plus

(* The three addresses the aligner puts out, and that the second half of a *)
(* misaligned fetch follows its first.                                     *)
LEMMA Halves ==
  ASSUME NEW a \in Addresses
  PROVE  misaligned(a) => a - 1 \in Addresses /\ Plus(a - 1, 1) = a
BY DEF Addresses, Plus, misaligned

(* Instructions of the program are well formed wherever they are. *)
LEMMA RomFacts ==
  ASSUME rom \in Programs, NEW a \in Addresses
  PROVE  WellFormed(rom[a])
OBVIOUS

-----------------------------------------------------------------------------
(* Types. *)
RomTypeOK == rom \in Programs /\ TypeOK

LEMMA InitTypeOK == Init => RomTypeOK
<1>. SUFFICES ASSUME Init PROVE RomTypeOK
  OBVIOUS
<1>1. 0 \in Addresses
  BY DEF Addresses
<1>2. IR \in Seq(Addresses) /\ Len(IR) <= 2
  BY DEF Init, CoreInit, NOP
<1>. QED  BY <1>1, <1>2 DEF Init, CoreInit, CsrInit, RomTypeOK, TypeOK

LEMMA StepTypeOK == RomTypeOK /\ [Next]_vars => RomTypeOK'
<1>. SUFFICES ASSUME RomTypeOK, [Next]_vars PROVE RomTypeOK'
  OBVIOUS
<1>1. CASE UNCHANGED vars
  BY <1>1 DEF vars, coreVars, pipeVars, portVars, csrVars, RomTypeOK, TypeOK
<1>2. ASSUME NEW iack \in BOOLEAN, NEW dack \in BOOLEAN, NEW taken \in BOOLEAN,
             Cycle(iack, dack, taken)
      PROVE  RomTypeOK'
  <2>. USE <1>2
  <2>. DEFINE jump == jump_decision(timer, FALSE, taken)
              stall == stall_stage1(iack, dack)
  <2>1. /\ Fetch(iack, dack, timer, FALSE, taken)
        /\ IgnoreHandshake(iack, timer, FALSE, taken)
        /\ Halt(dack, timer, FALSE)
        /\ Align(iack)
        /\ IPort(iack)
        /\ DPort(dack)
        /\ CsrClock(csr_write, illegal, timer, FALSE, halted, PC_Old)
        /\ rom' = rom
        /\ TimerLine
    BY DEF Cycle, Tick
  <2>2. /\ rom \in Programs
        /\ {PC, PC_Old, link, i_adr, d_for, lower, mepc} \subseteq Addresses
        /\ IR \in Seq(Addresses) /\ Len(IR) <= 2
        /\ {ignore, halted, was, i_activ, d_activ, timer} \subseteq BOOLEAN
        /\ {mie, mtie, meie, timer_r, ext_r} \subseteq BOOLEAN
        /\ mip \subseteq {"mtip", "meip"}
        /\ mcause \in [intr : BOOLEAN, cause : Nat]
    BY DEF RomTypeOK, TypeOK
  <2>3. IR # NOP => WellFormed(OpOf(IR))
    <3>1. IR # NOP => IR[1] \in Addresses
      BY <2>2 DEF NOP
    <3>. QED  BY <2>2, <3>1, RomFacts DEF OpOf
  <2>4. Plus(i_adr, 1) \in Addresses /\ Plus(PC, 1) \in Addresses
    BY <2>2, PlusType
  <2>5. s_dat[1] \in Addresses /\ fetched_instr \in Seq(Addresses)
        /\ Len(fetched_instr) <= 2 /\ PC_next \in Addresses
    <3>1. s_dat \in Addresses \X Addresses
      BY <2>2, <2>4 DEF s_dat
    <3>2. s_dat[1] \in Addresses
      BY <3>1
    <3>3. WellFormed(rom[s_dat[1]])
      BY <2>2, <3>2, RomFacts
    <3>4. PC_next \in Addresses
      BY <2>2, <3>3, PlusType DEF PC_next, WellFormed
    <3>5. fetched_instr \in Seq(Addresses) /\ Len(fetched_instr) <= 2
      <4>1. CASE was
        BY <2>2, <2>4, <4>1 DEF fetched_instr, s_dat
      <4>2. CASE ~was
        BY <2>2, <2>4, <4>2 DEF fetched_instr, s_dat
      <4>. QED  BY <4>1, <4>2, <2>2
    <3>. QED  BY <3>2, <3>4, <3>5
  <2>6. jump => jump_target(timer, FALSE) \in Addresses
    BY <2>2, <2>3 DEF jump_decision, jump_target, IsKind, JumpKinds, WellFormed
  <2>7. {PC', PC_Old', link'} \subseteq Addresses
    BY <2>1, <2>2, <2>5, <2>6 DEF Fetch
  <2>8. IR' \in Seq(Addresses) /\ Len(IR') <= 2
    <3>1. IR' \in {NOP, fetched_instr, IR}
      BY <2>1 DEF Fetch
    <3>2. NOP \in Seq(Addresses) /\ Len(NOP) <= 2
      BY DEF NOP
    <3>. QED  BY <3>1, <3>2, <2>2, <2>5
  <2>9. {ignore', halted', was', i_activ', d_activ', timer'} \subseteq BOOLEAN
    <3>1. ignore' \in BOOLEAN
      BY <2>1, <2>2 DEF IgnoreHandshake, jump_decision, raw_imem_handshake
    <3>2. halted' \in BOOLEAN
      BY <2>1 DEF Halt
    <3>3. was' \in BOOLEAN
      BY <2>1 DEF Align
    <3>4. i_activ' \in BOOLEAN
      BY <2>1, <2>2 DEF IPort, instr_request_valid
    <3>5. d_activ' \in BOOLEAN
      BY <2>1, <2>2 DEF DPort, dport_valid, IsKind
    <3>6. timer' \in BOOLEAN
      BY <2>1, <2>2, TimerAssumption DEF TimerLine
    <3>. QED  BY <3>1, <3>2, <3>3, <3>4, <3>5, <3>6
  <2>10. {i_adr', d_for', lower'} \subseteq Addresses
    <3>1. m_adr \in Addresses
      BY <2>2, <2>4, Halves DEF m_adr
    <3>2. 0 \in Addresses
      BY DEF Addresses
    <3>. QED  BY <2>1, <2>2, <2>4, <3>1, <3>2 DEF IPort, DPort, Align
  <2>11. /\ csr_write.csr = "mepc" => csr_write.val \in Addresses
         /\ csr_write.csr = "mstatus" => csr_write.val \in BOOLEAN
         /\ csr_write.csr = "mip" => csr_write.val \subseteq {"mtip", "meip"}
    BY <2>3 DEF csr_write, IsKind, WellFormed, NoWrite
  <2>12. mepc' \in Addresses
    BY <2>1, <2>2, <2>11, PlusType DEF CsrClock
  <2>13. {mie', mtie', meie', timer_r', ext_r'} \subseteq BOOLEAN
    <3>1. mie' \in BOOLEAN
      BY <2>1, <2>2, <2>11 DEF CsrClock
    <3>2. {mtie', meie'} \subseteq BOOLEAN
      <4>1. ("mtie" \in csr_write.val) \in BOOLEAN
            /\ ("meie" \in csr_write.val) \in BOOLEAN
        OBVIOUS
      <4>2. /\ mtie' = mtie \/ mtie' = ("mtie" \in csr_write.val)
            /\ meie' = meie \/ meie' = ("meie" \in csr_write.val)
        BY <2>1 DEF CsrClock
      <4>. QED  BY <2>2, <4>1, <4>2
    <3>3. {timer_r', ext_r'} \subseteq BOOLEAN
      BY <2>1, <2>2 DEF CsrClock, timerAsync, extAsync
    <3>. QED  BY <3>1, <3>2, <3>3
  <2>14. mip' \subseteq {"mtip", "meip"}
    BY <2>1, <2>2, <2>11 DEF CsrClock
  <2>15. mcause' \in [intr : BOOLEAN, cause : Nat]
    <3>1. \/ mcause' = mcause
          \/ mcause' = [intr |-> FALSE, cause |-> IllegalInstr]
          \/ mcause' = [intr |-> TRUE, cause |-> MTimer]
          \/ mcause' = [intr |-> TRUE, cause |-> MExternal]
      <4>1. CASE exception(illegal)
        BY <2>1, <4>1 DEF CsrClock, TrapCause
      <4>2. CASE ~exception(illegal)
        BY <2>1, <4>2 DEF CsrClock, TrapCause
      <4>. QED  BY <4>1, <4>2
    <3>2. {IllegalInstr, MTimer, MExternal} \subseteq Nat
      BY DEF IllegalInstr, MTimer, MExternal
    <3>3. {TRUE, FALSE} \subseteq BOOLEAN
      OBVIOUS
    <3>4. \A b \in BOOLEAN, c \in Nat :
             [intr |-> b, cause |-> c] \in [intr : BOOLEAN, cause : Nat]
      OBVIOUS
    <3>. QED  BY <2>2, <3>1, <3>2, <3>3, <3>4
  <2>. QED
    BY <2>1, <2>2, <2>7, <2>8, <2>9, <2>10, <2>12, <2>13, <2>14, <2>15
    DEF RomTypeOK, TypeOK
<1>. QED  BY <1>1, <1>2 DEF Next

(* Every register keeps its type, whatever the program: in particular no   *)
(* jump, trap or return leads out of the address space.                    *)
THEOREM CoreTypeCorrect == Spec => []TypeOK
<1>1. RomTypeOK => TypeOK
  BY DEF RomTypeOK
<1>. QED  BY <1>1, InitTypeOK, StepTypeOK, PTL DEF Spec

-----------------------------------------------------------------------------
(* Fetching without asynchronous traps: no instruction of any program      *)
(* enables the timer interrupt.                                            *)
NoAsync ==
  \A p \in Programs, a \in Addresses :
    p[a].kind = "csr" /\ p[a].write.csr = "mie" => "mtie" \notin p[a].write.val

(* The inductive invariant.  The aligner holds a first half only while the *)
(* PC is misaligned, and it is the PC's own unless answers are being       *)
(* ignored; the fetch in flight is the one the aligner wants now; while an *)
(* instruction is in stage 2 that does not wait for memory, no fetch is in *)
(* flight and no half is held, which is why a jump, the only thing that    *)
(* moves the PC elsewhere, never tears a fetch.                            *)
HalfHeld == /\ was => misaligned(PC)
            /\ was /\ ~ignore => lower = PC

FetchWanted == i_activ /\ ~ignore => i_adr = m_adr

LeavesAtOnce ==
  /\ IR # NOP
  /\ OpOf(IR).kind \in MemKinds => illegal /\ mie

QuietBus == LeavesAtOnce => ~was /\ ~i_activ

Bubbles == /\ halted => IR = NOP /\ ~was
           /\ ignore => IR = NOP

FetchInv ==
  /\ RomTypeOK
  /\ ~mtie
  /\ HalfHeld
  /\ FetchWanted
  /\ QuietBus
  /\ Bubbles
  /\ FetchIntegrity
  /\ LinkIsNext

LEMMA InitFetchInv == Init => FetchInv
BY InitTypeOK DEF Init, CoreInit, CsrInit, FetchInv, HalfHeld, FetchWanted,
   QuietBus, LeavesAtOnce, Bubbles, FetchIntegrity, LinkIsNext

(* What a clock edge does to the pipeline, in the four ways it can go: a   *)
(* jump, an instruction accepted from stage 1, a bubble, a stall.          *)
Jumps ==
  /\ LeavesAtOnce /\ ~i_activ /\ ~was
  /\ IR' = NOP
  /\ ignore'

Accepts(iack) ==
  /\ iack /\ ~ignore /\ ~halted /\ was = misaligned(PC)
  /\ IR' = InstrAt(PC)
  /\ PC_Old' = PC
  /\ PC' = Plus(PC, rom[PC].len) /\ link' = PC'
  /\ ~ignore'

Waits(iack) ==
  /\ PC' = PC
  /\ ignore' <=> (ignore /\ ~raw_imem_handshake(iack))
  /\ \/ IR' = NOP
     \/ /\ ~halted /\ ~LeavesAtOnce
        /\ IR # NOP /\ OpOf(IR).kind \in MemKinds
        /\ IR' = IR /\ PC_Old' = PC_Old /\ link' = link

LEMMA PipelineStep ==
  ASSUME FetchInv,
         NEW iack \in BOOLEAN, NEW dack \in BOOLEAN, NEW taken \in BOOLEAN,
         Cycle(iack, dack, taken)
  PROVE  Jumps \/ Accepts(iack) \/ Waits(iack)
<1>. DEFINE jump == jump_decision(timer, FALSE, taken)
            stall == stall_stage1(iack, dack)
<1>1. /\ Fetch(iack, dack, timer, FALSE, taken)
      /\ IgnoreHandshake(iack, timer, FALSE, taken)
      /\ iack => i_activ
  BY DEF Cycle, Tick
<1>2. ~intrTimer(timer) /\ ~intrExt(FALSE)
  BY DEF FetchInv, intrTimer, timerAsync, intrExt, extAsync
<1>3. jump => LeavesAtOnce
  <2>1. trap_caught(timer, FALSE) => illegal /\ mie
    BY <1>2 DEF trap_caught, trapCaught, exception
  <2>2. illegal => IR # NOP
    BY DEF illegal, IsKind
  <2>3. IsKind(JumpKinds) \/ IsKind({"branch"}) =>
          IR # NOP /\ OpOf(IR).kind \notin MemKinds
    BY DEF IsKind, JumpKinds, MemKinds
  <2>. QED  BY <2>1, <2>2, <2>3 DEF jump_decision, LeavesAtOnce
<1>4. CASE jump
  <2>1. LeavesAtOnce /\ ~i_activ /\ ~was /\ ~ignore
    BY <1>3, <1>4 DEF FetchInv, QuietBus, Bubbles, LeavesAtOnce
  <2>2. IR' = NOP
    BY <1>1, <1>4 DEF Fetch, flush_pipeline
  <2>3. ignore'
    BY <1>1, <1>4, <2>1 DEF IgnoreHandshake
  <2>. QED  BY <2>1, <2>2, <2>3 DEF Jumps
<1>5. CASE ~jump /\ ~stall
  <2>1. /\ iack /\ ~ignore /\ ~halted /\ ~stall_stage2(dack)
        /\ misaligned(PC) => was
    BY <1>5 DEF stall_stage1, instr_request_valid, imem_handshake,
       raw_imem_handshake, s_ack
  <2>2. was = misaligned(PC) /\ i_adr = m_adr
    BY <1>1, <2>1 DEF FetchInv, HalfHeld, FetchWanted, RomTypeOK, TypeOK,
       misaligned
  <2>3. s_dat = <<PC, Plus(PC, 1)>>
    <3>1. CASE was
      BY <2>1, <2>2, <3>1 DEF s_dat, m_adr, FetchInv, HalfHeld
    <3>2. CASE ~was
      BY <2>1, <2>2, <3>2 DEF s_dat, m_adr
    <3>. QED  BY <3>1, <3>2
  <2>4. s_dat[1] = PC
    BY <2>3
  <2>5. fetched_instr = InstrAt(PC) /\ PC_next = Plus(PC, rom[PC].len)
    BY <2>3, <2>4 DEF fetched_instr, InstrAt, PC_next
  <2>6. ~flush_pipeline(iack, dack, jump)
    BY <1>5, <2>1 DEF flush_pipeline
  <2>7. /\ IR' = InstrAt(PC) /\ PC_Old' = PC
        /\ PC' = Plus(PC, rom[PC].len) /\ link' = PC'
    BY <1>1, <1>5, <2>5, <2>6 DEF Fetch
  <2>8. ~ignore'
    BY <1>1, <1>5, <2>1 DEF IgnoreHandshake
  <2>. QED  BY <2>1, <2>2, <2>7, <2>8 DEF Accepts
<1>6. CASE ~jump /\ stall
  <2>1. PC' = PC /\ PC_Old' = PC_Old /\ link' = link
    BY <1>1, <1>6 DEF Fetch
  <2>2. ignore' <=> (ignore /\ ~raw_imem_handshake(iack))
    <3>1. CASE ignore
      BY <1>1, <3>1 DEF IgnoreHandshake, FetchInv, RomTypeOK, TypeOK
    <3>2. CASE ~ignore
      BY <1>1, <1>6, <3>2 DEF IgnoreHandshake
    <3>. QED  BY <3>1, <3>2
  <2>3. CASE flush_pipeline(iack, dack, jump)
    <3>1. IR' = NOP
      BY <1>1, <2>3 DEF Fetch
    <3>. QED  BY <2>1, <2>2, <3>1 DEF Waits
  <2>4. CASE ~flush_pipeline(iack, dack, jump)
    <3>1. IR' = IR
      BY <1>1, <1>6, <2>4 DEF Fetch
    <3>2. ~halted /\ stall_stage2(dack)
      BY <1>6, <2>4 DEF flush_pipeline
    <3>3. IR # NOP /\ OpOf(IR).kind \in MemKinds
      BY <3>2 DEF stall_stage2, dport_valid, IsKind
    <3>4. ~LeavesAtOnce
      BY <1>6, <3>3 DEF LeavesAtOnce, jump_decision, trap_caught, trapCaught,
         exception
    <3>. QED  BY <2>1, <2>2, <3>1, <3>2, <3>3, <3>4 DEF Waits
  <2>. QED  BY <2>3, <2>4
<1>. QED  BY <1>4, <1>5, <1>6

LEMMA StepFetchInv ==
  ASSUME NoAsync, FetchInv, [Next]_vars
  PROVE  FetchInv'
<1>1. CASE UNCHANGED vars
  <2>1. /\ rom' = rom /\ PC' = PC /\ PC_Old' = PC_Old /\ link' = link /\ IR' = IR
        /\ ignore' = ignore /\ halted' = halted /\ was' = was /\ lower' = lower
        /\ i_activ' = i_activ /\ i_adr' = i_adr /\ mie' = mie /\ mtie' = mtie
    BY <1>1 DEF vars, coreVars, pipeVars, portVars, csrVars
  <2>2. illegal' = illegal /\ m_adr' = m_adr /\ OpOf(IR)' = OpOf(IR)
        /\ InstrAt(PC_Old)' = InstrAt(PC_Old)
    BY <2>1 DEF illegal, IsKind, OpOf, m_adr, InstrAt
  <2>3. RomTypeOK'
    BY StepTypeOK DEF FetchInv
  <2>. QED
    BY <2>1, <2>2, <2>3 DEF FetchInv, HalfHeld, FetchWanted, QuietBus,
       LeavesAtOnce, Bubbles, FetchIntegrity, LinkIsNext
<1>2. ASSUME NEW iack \in BOOLEAN, NEW dack \in BOOLEAN, NEW taken \in BOOLEAN,
             Cycle(iack, dack, taken)
      PROVE  FetchInv'
  <2>1. /\ Halt(dack, timer, FALSE)
        /\ Align(iack)
        /\ IPort(iack)
        /\ CsrClock(csr_write, illegal, timer, FALSE, halted, PC_Old)
        /\ rom' = rom
        /\ iack => i_activ
        /\ flush_pipeline(iack, dack, jump_decision(timer, FALSE, taken)) =>
             IR' = NOP
    BY <1>2 DEF Cycle, Tick, Fetch
  <2>2. Jumps \/ Accepts(iack) \/ Waits(iack)
    BY <1>2, PipelineStep
  <2>3. RomTypeOK'
    BY StepTypeOK DEF FetchInv
  <2>4. /\ rom \in Programs /\ PC \in Addresses
        /\ IR # NOP => IR[1] \in Addresses
        /\ {was, ignore, halted, i_activ} \subseteq BOOLEAN
    BY DEF FetchInv, RomTypeOK, TypeOK, NOP
  (* A wait leaves the aligner where the next request finds it. *)
  <2>5. Waits(iack) => m_adr' = IF misaligned(PC) /\ was' THEN Plus(PC, 1)
                                ELSE IF misaligned(PC) THEN PC - 1 ELSE PC
    BY DEF Waits, m_adr
  <2>6. ~mtie'
    <3>1. csr_write.csr = "mie" => "mtie" \notin csr_write.val
      BY <2>4 DEF csr_write, NoWrite, IsKind, OpOf, NoAsync
    <3>. QED  BY <2>1, <3>1 DEF CsrClock, FetchInv
  <2>7. HalfHeld'
    <3>1. CASE Jumps
      BY <2>1, <3>1 DEF Jumps, Align, HalfHeld
    <3>2. CASE Accepts(iack)
      BY <2>1, <3>2 DEF Accepts, Align, HalfHeld
    <3>3. CASE Waits(iack)
      <4>1. was' => misaligned(PC')
        BY <2>1, <3>3 DEF Waits, Align, FetchInv, HalfHeld
      <4>2. ASSUME was', ~ignore', iack, misaligned(PC), ~was
            PROVE  lower' = PC'
        <5>1. ~halted /\ ~ignore
          BY <2>1, <3>3, <4>2 DEF Align, Waits, raw_imem_handshake, s_ack
        <5>2. i_adr = PC - 1
          BY <2>1, <4>2, <5>1 DEF FetchInv, FetchWanted, m_adr
        <5>. QED
          BY <2>1, <2>4, <3>3, <4>2, <5>1, <5>2, Halves DEF Align, Waits
      <4>3. ASSUME was', ~ignore', ~(iack /\ misaligned(PC))
            PROVE  lower' = PC'
        <5>1. was /\ ~iack /\ ~halted
          BY <2>1, <4>3 DEF Align, FetchInv, HalfHeld
        <5>2. ~ignore
          BY <3>3, <4>3, <5>1 DEF Waits, raw_imem_handshake, s_ack
        <5>. QED
          BY <2>1, <3>3, <5>1, <5>2 DEF Align, Waits, FetchInv, HalfHeld
      <4>4. was' /\ iack /\ misaligned(PC) => ~was
        BY <2>1 DEF Align
      <4>. QED  BY <4>1, <4>2, <4>3, <4>4 DEF HalfHeld
    <3>. QED  BY <2>2, <3>1, <3>2, <3>3
  <2>8. FetchWanted'
    <3>1. CASE Jumps
      BY <3>1 DEF Jumps, FetchWanted
    <3>2. CASE Accepts(iack)
      BY <2>1, <3>2 DEF Accepts, IPort, FetchWanted
    <3>3. CASE Waits(iack)
      <4>1. ASSUME i_activ', ~ignore'
            PROVE  ~iack /\ was' = was /\ ~ignore
        <5>1. ~iack
          BY <2>1, <4>1 DEF IPort
        <5>2. ~ignore
          BY <3>3, <4>1, <5>1 DEF Waits, raw_imem_handshake, s_ack
        <5>3. was' = was
          BY <2>1, <2>4, <5>1 DEF Align, FetchInv, Bubbles
        <5>. QED  BY <5>1, <5>2, <5>3
      <4>2. ASSUME i_activ', ~ignore'
            PROVE  i_adr' = m_adr
        BY <2>1, <4>1, <4>2 DEF IPort, FetchInv, FetchWanted
      <4>3. ASSUME i_activ', ~ignore'
            PROVE  m_adr' = m_adr
        BY <2>5, <3>3, <4>1, <4>3 DEF m_adr, FetchInv, HalfHeld
      <4>. QED  BY <4>2, <4>3 DEF FetchWanted
    <3>. QED  BY <2>2, <3>1, <3>2, <3>3
  <2>9. QuietBus'
    <3>1. CASE IR' = NOP
      BY <3>1 DEF QuietBus, LeavesAtOnce
    <3>2. CASE Accepts(iack)
      BY <2>1, <3>2 DEF Accepts, Align, IPort, QuietBus
    <3>3. CASE Waits(iack) /\ IR' # NOP
      <4>1. /\ IR' = IR /\ IR # NOP
            /\ OpOf(IR).kind \in MemKinds /\ ~LeavesAtOnce
        BY <3>3 DEF Waits
      <4>2. mie' = mie
        BY <2>1, <4>1 DEF CsrClock, csr_write, IsKind, MemKinds, NoWrite
      <4>3. illegal' = illegal /\ OpOf(IR)' = OpOf(IR)
        BY <2>1, <4>1 DEF illegal, IsKind, OpOf
      <4>4. ~LeavesAtOnce'
        BY <4>1, <4>2, <4>3 DEF LeavesAtOnce
      <4>. QED  BY <4>4 DEF QuietBus
    <3>. QED  BY <2>2, <3>1, <3>2, <3>3 DEF Jumps
  <2>10. Bubbles'
    <3>1. ignore' => IR' = NOP
      BY <2>2 DEF Jumps, Accepts, Waits, FetchInv, Bubbles
    <3>2. CASE halted
      BY <2>1, <3>1, <3>2 DEF flush_pipeline, Align, Bubbles
    <3>3. CASE ~halted /\ halted'
      <4>1. IsKind({"wfi"}) /\ ~stall_stage2(dack)
        BY <2>1, <3>3 DEF Halt
      <4>2. LeavesAtOnce
        BY <4>1 DEF IsKind, LeavesAtOnce, MemKinds
      <4>3. ~was /\ ~i_activ
        BY <4>2 DEF FetchInv, QuietBus
      <4>4. stall_stage1(iack, dack)
        BY <2>1, <3>3, <4>3 DEF stall_stage1, instr_request_valid,
           imem_handshake, raw_imem_handshake, s_ack
      <4>5. IR' = NOP
        BY <2>1, <4>1, <4>4 DEF flush_pipeline
      <4>6. ~was'
        BY <2>1, <4>3 DEF Align
      <4>. QED  BY <3>1, <4>5, <4>6 DEF Bubbles
    <3>. QED  BY <3>1, <3>2, <3>3 DEF Bubbles
  <2>11. FetchIntegrity' /\ LinkIsNext'
    <3>1. CASE IR' = NOP
      BY <3>1 DEF FetchIntegrity, LinkIsNext
    <3>2. CASE Accepts(iack)
      BY <2>1, <3>2 DEF Accepts, FetchIntegrity, LinkIsNext, InstrAt
    <3>3. CASE Waits(iack) /\ IR' # NOP
      BY <2>1, <3>3 DEF Waits, FetchInv, FetchIntegrity, LinkIsNext, InstrAt
    <3>. QED  BY <2>2, <3>1, <3>2, <3>3 DEF Jumps
  <2>. QED
    BY <2>3, <2>6, <2>7, <2>8, <2>9, <2>10, <2>11 DEF FetchInv
<1>. QED  BY <1>1, <1>2 DEF Next

LEMMA FetchInvAlways == ASSUME NoAsync PROVE Spec => []FetchInv
<1>1. FetchInv /\ [Next]_vars => FetchInv'
  BY StepFetchInv
<1>. QED  BY <1>1, InitFetchInv, PTL DEF Spec

(* No fetch is ever torn: the instruction executed is the one at its own   *)
(* address, for every alignment, jump, exception and latency.              *)
THEOREM FetchesIntact == ASSUME NoAsync PROVE Spec => []FetchIntegrity
<1>1. FetchInv => FetchIntegrity
  BY DEF FetchInv
<1>. QED  BY <1>1, FetchInvAlways, PTL

(* Return addresses are those of the next instruction. *)
THEOREM LinksCorrect == ASSUME NoAsync PROVE Spec => []LinkIsNext
<1>1. FetchInv => LinkIsNext
  BY DEF FetchInv
<1>. QED  BY <1>1, FetchInvAlways, PTL

-----------------------------------------------------------------------------
(* Data accesses.  A load or store that traps while it waits abandons its  *)
(* access; the decoder lets that happen for unsupported widths only.       *)
NoBadAccess ==
  \A p \in Programs, a \in Addresses : p[a].kind # "badmem"

AccessInv == FetchInv /\ AccessAwaited

LEMMA StepAccessInv ==
  ASSUME NoAsync, NoBadAccess, AccessInv, [Next]_vars
  PROVE  AccessInv'
<1>1. FetchInv'
  BY StepFetchInv DEF AccessInv
<1>2. CASE UNCHANGED vars
  BY <1>1, <1>2 DEF AccessInv, AccessAwaited, dport_valid, IsKind, OpOf,
     vars, coreVars, pipeVars, portVars
<1>3. ASSUME NEW iack \in BOOLEAN, NEW dack \in BOOLEAN, NEW taken \in BOOLEAN,
             Cycle(iack, dack, taken), d_activ'
      PROVE  dport_valid' /\ d_for' = PC_Old'
  <2>1. /\ Fetch(iack, dack, timer, FALSE, taken)
        /\ DPort(dack)
        /\ dack => d_activ
        /\ rom' = rom
    BY <1>3 DEF Cycle, Tick
  <2>2. dport_valid /\ ~dack /\ d_for' = PC_Old
    BY <1>3, <2>1 DEF DPort, AccessInv, AccessAwaited
  <2>3. IR # NOP /\ OpOf(IR).kind = "mem"
    <3>1. IR # NOP /\ OpOf(IR).kind \in {"mem", "badmem"}
      BY <2>2 DEF dport_valid, IsKind, MemKinds
    <3>2. rom \in Programs /\ IR[1] \in Addresses
      BY <3>1 DEF AccessInv, FetchInv, RomTypeOK, TypeOK, NOP
    <3>. QED  BY <3>1, <3>2 DEF OpOf, NoBadAccess
  <2>4. ~jump_decision(timer, FALSE, taken)
    <3>1. ~intrTimer(timer) /\ ~intrExt(FALSE)
      BY DEF AccessInv, FetchInv, intrTimer, timerAsync, intrExt, extAsync
    <3>2. ~illegal
      BY <2>3 DEF illegal, IsKind, IllegalKinds
    <3>3. ~trap_caught(timer, FALSE)
      BY <3>1, <3>2 DEF trap_caught, trapCaught, exception
    <3>. QED  BY <2>3, <3>3 DEF jump_decision, IsKind, JumpKinds
  <2>5. stall_stage2(dack) /\ stall_stage1(iack, dack) /\ ~halted
    BY <2>2, <2>3 DEF stall_stage2, stall_stage1, AccessInv, FetchInv, Bubbles
  <2>6. PC_Old' = PC_Old /\ IR' = IR
    BY <2>1, <2>4, <2>5 DEF Fetch, flush_pipeline
  <2>. QED
    BY <2>1, <2>2, <2>6 DEF dport_valid, IsKind, OpOf
<1>. QED
  BY <1>1, <1>2, <1>3 DEF Next, AccessInv, AccessAwaited

(* Every access on the bus belongs to the instruction that waits for it.   *)
THEOREM AccessesAwaited ==
  ASSUME NoAsync, NoBadAccess PROVE Spec => []AccessAwaited
<1>1. Init => AccessInv
  BY InitFetchInv DEF Init, CoreInit, AccessInv, AccessAwaited
<1>2. AccessInv /\ [Next]_vars => AccessInv'
  BY StepAccessInv
<1>3. AccessInv => AccessAwaited
  BY DEF AccessInv
<1>. QED  BY <1>1, <1>2, <1>3, PTL DEF Spec
-----------------------------------------------------------------------------
(* The refinement of the sequential machine (module Isa).  A clock edge on *)
(* which the instruction of stage 2 leaves it is a step of that machine:   *)
(* the pipeline then goes on at the successor, whether it has been fetched *)
(* or not.  All other edges leave the machine's state alone, except that a *)
(* sleep may end.                                                          *)
LEMMA InitMachine == Init => Machine!Init
BY DEF Init, CoreInit, CsrInit, Machine!Init, NextToExecute

(* The instruction in stage 2 is the machine's next one. *)
LEMMA SameInstruction ==
  ASSUME FetchInv, IR # NOP
  PROVE  /\ NextToExecute = PC_Old /\ OpOf(IR) = rom[PC_Old]
         /\ Machine!op = OpOf(IR)
         /\ PC = Machine!next
         /\ ~halted
<1>1. IR = InstrAt(PC_Old) /\ PC = Plus(PC_Old, rom[PC_Old].len) /\ ~halted
  BY DEF FetchInv, FetchIntegrity, LinkIsNext, Bubbles
<1>2. IR[1] = PC_Old
  BY <1>1 DEF InstrAt
<1>3. NextToExecute = PC_Old
  BY DEF NextToExecute
<1>. QED  BY <1>1, <1>2, <1>3 DEF OpOf, Machine!op, Machine!next, Plus

(* Where the pipeline goes on after an edge without a jump: behind the     *)
(* instruction that was accepted, or where the next fetch is.              *)
LEMMA NextAfter ==
  ASSUME FetchInv, NEW iack,
         \/ Accepts(iack)
         \/ PC' = PC /\ IR' = NOP
  PROVE  NextToExecute' = PC
BY DEF Accepts, InstrAt, NOP, NextToExecute

LEMMA MachineStep ==
  ASSUME NoAsync, FetchInv, [Next]_vars
  PROVE  [Machine!Next]_(Machine!isaVars)
<1>1. CASE UNCHANGED vars
  BY <1>1 DEF vars, coreVars, pipeVars, csrVars, Machine!isaVars, NextToExecute
<1>2. ASSUME NEW iack \in BOOLEAN, NEW dack \in BOOLEAN, NEW taken \in BOOLEAN,
             Cycle(iack, dack, taken)
      PROVE  [Machine!Next]_(Machine!isaVars)
  <2>. DEFINE jump == jump_decision(timer, FALSE, taken)
              stall == stall_stage1(iack, dack)
  <2>1. /\ Fetch(iack, dack, timer, FALSE, taken)
        /\ Halt(dack, timer, FALSE)
        /\ CsrClock(csr_write, illegal, timer, FALSE, halted, PC_Old)
        /\ rom' = rom
    BY <1>2 DEF Cycle, Tick
  <2>2. ~intrTimer(timer) /\ ~intrExt(FALSE)
    BY DEF FetchInv, intrTimer, timerAsync, intrExt, extAsync
  <2>3. trap_caught(timer, FALSE) = (mie /\ illegal)
    BY <2>2 DEF trap_caught, trapCaught, exception
  <2>4. ~jump => Accepts(iack) \/ Waits(iack)
    <3>1. Jumps \/ Accepts(iack) \/ Waits(iack)
      BY <1>2, PipelineStep
    <3>2. ASSUME ~jump PROVE ~ignore' \/ ignore
      BY <1>2, <3>2 DEF Cycle, Tick, IgnoreHandshake
    <3>. QED  BY <3>1, <3>2 DEF Jumps, FetchInv, Bubbles, LeavesAtOnce
  <2>5. CASE IR = NOP
    <3>1. ~illegal /\ csr_write = NoWrite /\ ~IsKind({"wfi"}) /\ ~jump
      BY <2>3, <2>5 DEF illegal, IsKind, csr_write, jump_decision
    <3>2. mie' = mie /\ mtie' = mtie /\ mepc' = mepc
      BY <2>1, <2>3, <3>1 DEF CsrClock, NoWrite, trap_caught
    <3>3. NextToExecute = PC /\ NextToExecute' = PC
      <4>1. Waits(iack) => PC' = PC /\ IR' = NOP
        BY <2>5 DEF Waits
      <4>. QED  BY <2>4, <2>5, <3>1, <4>1, NextAfter DEF NextToExecute
    <3>4. halted' => halted
      BY <2>1, <3>1 DEF Halt
    <3>5. halted \in BOOLEAN /\ halted' \in BOOLEAN
      BY <2>1 DEF Halt, FetchInv, RomTypeOK, TypeOK
    <3>6. CASE halted' = halted
      BY <2>1, <3>2, <3>3, <3>6 DEF Machine!isaVars
    <3>7. CASE halted' # halted
      BY <2>1, <3>2, <3>3, <3>4, <3>5, <3>7 DEF Machine!Next, Machine!Wake
    <3>. QED  BY <3>6, <3>7
  <2>6. CASE IR # NOP
    <3>1. /\ NextToExecute = PC_Old
          /\ Machine!op = OpOf(IR)
          /\ PC = Machine!next
          /\ ~halted
      BY <2>6, SameInstruction
    <3>. DEFINE op == OpOf(IR)
    <3>2. Machine!Traps = trap_caught(timer, FALSE)
      BY <2>3, <2>6, <3>1 DEF Machine!Traps, illegal, IsKind, IllegalKinds
    <3>3. /\ IsKind(MemKinds) <=> op.kind \in MemKinds
          /\ IsKind(JumpKinds) <=> op.kind \in JumpKinds
          /\ IsKind({"branch"}) <=> op.kind = "branch"
          /\ IsKind({"mret"}) <=> op.kind = "mret"
          /\ IsKind({"wfi"}) <=> op.kind = "wfi"
          /\ illegal <=> op.kind \in IllegalKinds
          /\ csr_write = IF op.kind = "csr" THEN op.write ELSE NoWrite
      BY <2>6 DEF IsKind, illegal, csr_write
    (* An illegal instruction traps. *)
    <3>4. CASE trap_caught(timer, FALSE)
      <4>1. jump /\ op.kind \in IllegalKinds
        BY <2>3, <3>3, <3>4 DEF jump_decision
      <4>2. PC' = Mtvec /\ IR' = NOP
        BY <2>1, <3>4, <4>1 DEF Fetch, flush_pipeline, jump_target
      <4>3. NextToExecute' = Mtvec
        BY <4>2 DEF NextToExecute
      <4>4. csr_write = NoWrite
        BY <3>3, <4>1 DEF IllegalKinds
      <4>5. mie' = mie /\ mtie' = mtie /\ mepc' = PC_Old
        BY <2>1, <3>1, <3>4, <4>4 DEF CsrClock, NoWrite, trap_caught
      <4>6. halted' = FALSE
        BY <2>1, <3>1, <3>3, <4>1 DEF Halt, IllegalKinds
      <4>7. Machine!Trap
        BY <2>1, <3>1, <4>3, <4>5, <4>6 DEF Machine!Trap
      <4>8. Machine!Execute
        BY <3>1, <3>2, <3>4, <4>7 DEF Machine!Execute
      <4>. QED  BY <4>8 DEF Machine!Next
    (* A load or store waits. *)
    <3>5. CASE ~trap_caught(timer, FALSE) /\ stall_stage2(dack)
      <4>1. op.kind \in MemKinds
        BY <3>3, <3>5 DEF stall_stage2, dport_valid
      <4>2. ~jump /\ stall
        BY <3>3, <3>5, <4>1 DEF jump_decision, stall_stage1, JumpKinds, MemKinds
      <4>3. PC_Old' = PC_Old /\ IR' = IR
        BY <2>1, <3>1, <3>5, <4>2 DEF Fetch, flush_pipeline
      <4>4. csr_write = NoWrite
        BY <3>3, <4>1 DEF MemKinds
      <4>5. mie' = mie /\ mtie' = mtie /\ mepc' = mepc
        BY <2>1, <3>5, <4>4 DEF CsrClock, NoWrite, trap_caught
      <4>6. halted \in BOOLEAN /\ halted' = FALSE
        BY <2>1, <3>1, <3>5 DEF Halt, FetchInv, RomTypeOK, TypeOK
      <4>7. NextToExecute' = NextToExecute
        BY <2>6, <4>3 DEF NextToExecute
      <4>. QED  BY <2>1, <3>1, <4>5, <4>6, <4>7 DEF Machine!isaVars
    (* Any other instruction is executed, and leaves stage 2. *)
    <3>6. CASE ~trap_caught(timer, FALSE) /\ ~stall_stage2(dack)
      <4>1. NextToExecute' \in Machine!Successors
        <5>1. CASE jump
          <6>1. op.kind \in JumpKinds \/ op.kind = "branch"
            BY <3>3, <3>6, <5>1 DEF jump_decision
          <6>2. /\ NextToExecute' = PC'
                /\ PC' = IF op.kind = "mret" THEN mepc ELSE op.target
            BY <2>1, <3>3, <3>6, <5>1
               DEF Fetch, flush_pipeline, jump_target, NextToExecute
          <6>. QED  BY <3>1, <6>1, <6>2 DEF JumpKinds, Machine!Successors
        <5>2. CASE ~jump
          <6>1. op.kind \notin {"jump", "mret"}
            BY <3>3, <5>2 DEF jump_decision, JumpKinds
          <6>2. Waits(iack) => PC' = PC /\ IR' = NOP
            <7>1. CASE stall
              BY <2>1, <3>6, <5>2, <7>1 DEF Fetch, flush_pipeline
            <7>2. CASE ~stall
              <8>1. PC_Old' = PC
                BY <2>1, <5>2, <7>2 DEF Fetch
              <8>2. PC # PC_Old
                <9>1. PC = Plus(PC_Old, rom[PC_Old].len) /\ PC_Old \in Addresses
                      /\ rom[PC_Old].len \in {1, 2}
                  BY <2>6, RomFacts DEF FetchInv, LinkIsNext, RomTypeOK, TypeOK, WellFormed
                <9>. QED  BY <9>1 DEF Plus, Addresses
              <8>. QED  BY <8>1, <8>2 DEF Waits
            <7>. QED  BY <7>1, <7>2
          <6>3. NextToExecute' = PC
            BY <2>4, <5>2, <6>2, NextAfter
          <6>. QED  BY <3>1, <6>1, <6>3 DEF Machine!Successors
        <5>. QED  BY <5>1, <5>2
      <4>2. halted' \in IF op.kind = "wfi" THEN BOOLEAN ELSE {FALSE}
        BY <2>1, <3>1, <3>3 DEF Halt
      <4>3. /\ mie' = IF Machine!Writes("mstatus") THEN op.write.val ELSE mie
            /\ mtie' = IF Machine!Writes("mie") THEN "mtie" \in op.write.val
                       ELSE mtie
            /\ mepc' = IF Machine!Writes("mepc") THEN op.write.val ELSE mepc
        <5>1. CASE op.kind = "csr"
          BY <2>1, <3>1, <3>3, <3>6, <5>1 DEF CsrClock, Machine!Writes, trap_caught
        <5>2. CASE op.kind # "csr"
          BY <2>1, <3>1, <3>3, <3>6, <5>2
             DEF CsrClock, Machine!Writes, NoWrite, trap_caught
        <5>. QED  BY <5>1, <5>2
      <4>4. Machine!Execute
        BY <2>1, <3>1, <3>2, <3>6, <4>1, <4>2, <4>3 DEF Machine!Execute
      <4>. QED  BY <4>4 DEF Machine!Next
    <3>. QED  BY <3>4, <3>5, <3>6
  <2>. QED  BY <2>5, <2>6
<1>. QED  BY <1>1, <1>2 DEF Next

(* Without asynchronous traps the pipeline executes every program as the   *)
(* sequential machine does, whatever the memory's latencies: each          *)
(* instruction once, in order, with the traps of illegal ones at their own *)
(* address.                                                                *)
THEOREM PipelineIsSequential == ASSUME NoAsync PROVE Spec => ImplementsIsa
<1>1. FetchInv /\ [Next]_vars => [Machine!Next]_(Machine!isaVars)
  BY MachineStep
<1>. QED
  BY <1>1, InitMachine, FetchInvAlways, PTL DEF Spec, ImplementsIsa, Machine!Spec
-----------------------------------------------------------------------------
(* The bus of the SoC (module HydrogenSoC) is a memory as CoreMem assumes  *)
(* it, so that all of the above holds on it.  A slave acknowledges a       *)
(* strobe of the clock before, and the arbiter has held the grant since.   *)
BusInv ==
  /\ SocTypeOK
  /\ acks # {} => grant \cap request # {}

LEMMA RequestPorts ==
  /\ request \subseteq {0, 1}
  /\ I \in request <=> i_activ
  /\ D \in request <=> d_activ
BY DEF request, I, D

(* The arbiter has two ports, and the data port goes first. *)
LEMMA ArbiterGrants ==
  ASSUME NEW R \in SUBSET {0, 1}, R # {}
  PROVE  Arb!Winner(R) = IF 1 \in R THEN 1 ELSE 0
<1>1. R \in {{0}, {1}, {0, 1}}
  OBVIOUS
<1>2. Arb!First({0}) = 0 /\ Arb!First({1}) = 1
  BY DEF Arb!First, Arb!Before
<1>3. Arb!First({0, 1}) = 1
  BY DEF Arb!First, Arb!Before
<1>. QED  BY <1>1, <1>2, <1>3 DEF Arb!Winner, Arb!Encode

(* Only a port that drives the bus is acknowledged, and one at a time; the *)
(* timer is strobed only for the data port.                                *)
LEMMA OneAnswer ==
  ASSUME BusInv
  PROVE  /\ iport_ack => i_activ
         /\ dport_ack => d_activ
         /\ ~(iport_ack /\ dport_ack)
         /\ "timer" \in Strobed => d_activ
<1>1. grant \in {{}, {0}, {1}}
  BY DEF BusInv, SocTypeOK, I, D
<1>2. bus_ack => grant \cap request # {}
  BY DEF BusInv, bus_ack
<1>3. "timer" \in Strobed => grant \cap request # {} /\ 0 \notin grant
  BY DEF Strobed, strobe, Addressed, I
<1>. QED  BY <1>1, <1>2, <1>3, RequestPorts DEF iport_ack, dport_ack, I, D

LEMMA SocStepIsStep ==
  ASSUME BusInv, [SocNext]_socVars
  PROVE  [Next]_vars
<1>1. CASE UNCHANGED socVars
  BY <1>1 DEF socVars
<1>2. ASSUME NEW taken \in BOOLEAN, SocCycle(taken)
      PROVE  Next
  <2>1. Tick(iport_ack, dport_ack, timer, FALSE, taken) /\ SocTimerLine
    BY <1>2 DEF SocCycle
  <2>2. iport_ack \in BOOLEAN /\ dport_ack \in BOOLEAN
    BY DEF iport_ack, dport_ack, bus_ack
  <2>3. TimerLine
    BY <2>1, OneAnswer DEF SocTimerLine, TimerLine, BusInv, SocTypeOK
  <2>4. Cycle(iport_ack, dport_ack, taken)
    BY <2>1, <2>3, OneAnswer DEF Cycle
  <2>. QED  BY <2>2, <2>4 DEF Next
<1>. QED  BY <1>1, <1>2 DEF SocNext

LEMMA InitBus == SocInit => Init /\ BusInv
BY DEF SocInit, Init, BusInv, SocTypeOK, Arb!ArbInit

LEMMA StepBus ==
  ASSUME RomTypeOK, BusInv, [SocNext]_socVars
  PROVE  BusInv'
<1>1. CASE UNCHANGED socVars
  BY <1>1 DEF socVars, busVars, vars, coreVars, portVars, BusInv, SocTypeOK, request
<1>2. ASSUME NEW taken \in BOOLEAN, SocCycle(taken)
      PROVE  BusInv'
  <2>1. /\ Arb!ArbClock(request, {})
        /\ SlaveAcks
        /\ SocTimerLine
        /\ IPort(iport_ack) /\ DPort(dport_ack)
    BY <1>2 DEF SocCycle, Tick
  <2>2. grant \in {{}, {0}, {1}} /\ mask = {} /\ timer \in BOOLEAN
    BY DEF BusInv, SocTypeOK, I, D
  <2>3. grant' \in {{}, {0}, {1}} /\ mask' = {}
    <3>1. request # {} => Arb!Winner(request) \in {0, 1}
      BY RequestPorts, ArbiterGrants
    <3>. QED  BY <2>1, <2>2, <3>1 DEF Arb!ArbClock, Arb!arbVars
  <2>4. acks' \in {{}} \union {{s} : s \in Slaves}
    <3>1. Strobed \in {{}} \union {{s} : s \in Slaves}
      BY DEF Strobed
    <3>. QED  BY <2>1, <3>1 DEF SlaveAcks
  <2>5. timer' \in BOOLEAN
    BY <2>1, <2>2, TimerAssumption DEF SocTimerLine
  <2>6. ASSUME acks' # {} PROVE grant' \cap request' # {}
    (* The slave strobed has not acknowledged yet, so no port is answered  *)
    (* and the one that strobes goes on.                                   *)
    <3>1. /\ grant \cap request # {}
          /\ Addressed \in Slaves /\ Addressed \notin acks
      BY <2>1, <2>6 DEF SlaveAcks, Strobed, strobe
    <3>2. ~iport_ack /\ ~dport_ack
      BY <3>1 DEF iport_ack, dport_ack, bus_ack, AckFrom
    <3>3. grant' = grant
      BY <2>1, <3>1 DEF Arb!ArbClock, Arb!Holds, Arb!arbVars
    <3>4. (i_activ => i_activ') /\ (d_activ => d_activ')
      BY <2>1, <3>2 DEF IPort, DPort
    <3>5. request \subseteq request'
      BY <3>4 DEF request
    <3>. QED  BY <3>1, <3>3, <3>5
  <2>. QED
    BY <2>3, <2>4, <2>5, <2>6 DEF BusInv, SocTypeOK, I, D
<1>. QED  BY <1>1, <1>2 DEF SocNext

(* The registers of the interconnect: at most one port is granted, at most *)
(* one slave acknowledges.                                                 *)
THEOREM BusTypeCorrect == SocSpec => []SocTypeOK
<1>1. RomTypeOK /\ BusInv /\ [SocNext]_socVars => RomTypeOK' /\ BusInv'
  BY SocStepIsStep, StepTypeOK, StepBus
<1>2. SocInit => RomTypeOK /\ BusInv
  BY InitBus, InitTypeOK
<1>3. BusInv => SocTypeOK
  BY DEF BusInv
<1>. QED  BY <1>1, <1>2, <1>3, PTL DEF SocSpec

(* Arbiter, crossbar and slaves together are a memory as the core needs    *)
(* it: an acknowledge always answers the request on the bus.               *)
THEOREM BusIsMemory == SocSpec => Spec
<1>1. RomTypeOK /\ BusInv /\ [SocNext]_socVars => RomTypeOK' /\ BusInv'
  BY SocStepIsStep, StepTypeOK, StepBus
<1>2. SocInit => Init /\ RomTypeOK /\ BusInv
  BY InitBus, InitTypeOK
<1>3. BusInv /\ [SocNext]_socVars => [Next]_vars
  BY SocStepIsStep
<1>. QED  BY <1>1, <1>2, <1>3, PTL DEF SocSpec, Spec

(* On the SoC, too, a program without asynchronous traps runs as the       *)
(* sequential machine runs it, from intact fetches.                        *)
THEOREM SocIsSequential ==
  ASSUME NoAsync PROVE SocSpec => ImplementsIsa /\ []FetchIntegrity
BY BusIsMemory, PipelineIsSequential, FetchesIntact, PTL
=============================================================================
