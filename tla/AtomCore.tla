------------------------------ MODULE AtomCore ------------------------------
(***************************************************************************)
(* The Atom core with its Wishbone wrapper: the two-stage pipeline of      *)
(* rtl/core/AtomRV.v, the compressed-fetch aligner (RVC_Aligner.v), the    *)
(* trap logic (CSR_Unit.v, module CsrUnit) and the two port state machines *)
(* of AtomRV_wb.v.  Tick is one rising clock edge; what the memory and the *)
(* interrupt line do in the cycle before it are its inputs.                *)
(*                                                                         *)
(* Addresses count halfwords: PC + 1 is the next halfword, an even PC is   *)
(* word aligned.  Instruction bits are abstracted to where they came from: *)
(* a fetch of the word at (even) address a returns <<a, a + 1>>, and the   *)
(* instruction register holds the sequence of halfword addresses whose     *)
(* contents were put together, or NOP.  What an instruction does is looked *)
(* up in the program at its first halfword, where its opcode is.           *)
(***************************************************************************)
EXTENDS CsrUnit, Sequences

CONSTANTS
  Programs,     \* the programs: functions from halfword address to Instr
  ResetVector,  \* reset_vector_i
  Mtvec         \* csr_mtvec, as the startup code programs it (direct mode)

(* An instruction is one halfword long, compressed, or two.  Jumps and     *)
(* writes of mepc name an address; a CSR write names its new value.        *)
WellFormed(i) ==
  /\ i.len \in {1, 2}
  /\ i.kind \in {"jump", "branch"} => i.target \in Addresses
  /\ i.kind = "csr" =>
       /\ i.write.csr = "mepc" => i.write.val \in Addresses
       /\ i.write.csr = "mstatus" => i.write.val \in BOOLEAN
       /\ i.write.csr = "mip" => i.write.val \subseteq {"mtip", "meip"}

ASSUME CoreAssumption ==
  /\ SIZE \in Nat /\ SIZE > 2 /\ SIZE % 2 = 0
  /\ {ResetVector, Mtvec} \subseteq Addresses
  /\ \A p \in Programs :
       DOMAIN p = Addresses /\ \A a \in Addresses : WellFormed(p[a])

VARIABLES
  rom,          \* the program in memory, one of Programs; never changes
  PC,           \* ProgramCounter
  PC_Old,       \* ProgramCounter_Old: address of the instruction in stage 2
  link,         \* link_address: what that instruction stores as return address
  IR,           \* InstructionRegister
  ignore,       \* ignore_imem_handshake
  halted,       \* sleeping after WFI
  was,          \* aligner: was_misaligned, the first half has arrived
  lower,        \* aligner: lower_half_word
  i_activ, i_adr,   \* IPORT wrapper: state WBACTIV, latched address
  d_activ, d_for    \* DPORT wrapper: state WBACTIV, and the address of the
                    \*   instruction whose access was latched

pipeVars == <<rom, PC, PC_Old, link, IR, ignore, halted, was, lower>>
portVars == <<i_activ, i_adr, d_activ, d_for>>
coreVars == <<pipeVars, portVars, csrVars>>

(* What the decoder tells the pipeline control about an instruction.  A    *)
(* "badmem" is a load or store with an unsupported width: illegal, and     *)
(* still a memory request (Decode.v 256-287).                              *)
MemKinds     == {"mem", "badmem"}
IllegalKinds == {"illegal", "badmem"}
JumpKinds    == {"jump", "mret"}
NOP          == <<>>

Instr(kind, len) == [kind |-> kind, len |-> len]
Jump(kind, len, target) == [kind |-> kind, len |-> len, target |-> target]
CsrWrite(csr, val) ==
  [kind |-> "csr", len |-> 2, write |-> [csr |-> csr, val |-> val]]

-----------------------------------------------------------------------------
(* Combinational signals, functions of the state and of the inputs: iack   *)
(* and dack are the port acknowledges, tim and ext the interrupt lines,    *)
(* taken the outcome of the comparator.                                    *)
OpOf(ir) == rom[ir[1]]
IsKind(kinds) == IR # NOP /\ OpOf(IR).kind \in kinds

instr_request_valid == ~halted
dport_valid == IsKind(MemKinds)

misaligned(pc) == pc % 2 = 1
(* Mutant of m_adr: the first half of a misaligned fetch is off by a word. *)
MAdrTooLow == IF ~misaligned(PC) THEN PC ELSE IF was THEN Plus(PC, 1) ELSE PC - 3

m_adr == IF ~misaligned(PC) THEN PC ELSE IF was THEN Plus(PC, 1) ELSE PC - 1
s_ack(iack) == iack /\ ~(misaligned(PC) /\ ~was)

(* RVC_Aligner.s_dat_o, cut to the length its first halfword calls for.    *)
s_dat == IF was THEN <<lower, i_adr>> ELSE <<i_adr, Plus(i_adr, 1)>>
fetched_instr == IF rom[s_dat[1]].len = 1 THEN <<s_dat[1]>> ELSE s_dat
(* Mutant of PC_next: compressed instructions are forgotten. *)
PcNextWide == Plus(PC, 2)

PC_next == Plus(PC, rom[s_dat[1]].len)

raw_imem_handshake(iack) == instr_request_valid /\ s_ack(iack)
imem_handshake(iack)     == raw_imem_handshake(iack) /\ ~ignore
stall_stage2(dack)       == dport_valid /\ ~dack
stall_stage1(iack, dack) ==
  \/ instr_request_valid /\ ~imem_handshake(iack)
  \/ stall_stage2(dack)
  \/ halted

illegal == IsKind(IllegalKinds)
trap_caught(tim, ext) == trapCaught(illegal, tim, ext)
jump_decision(tim, ext, taken) ==
  \/ IsKind(JumpKinds)
  \/ IsKind({"branch"}) /\ taken
  \/ trap_caught(tim, ext)
flush_pipeline(iack, dack, jump) ==
  \/ jump
  \/ halted
  \/ ~stall_stage2(dack) /\ stall_stage1(iack, dack)

jump_target(tim, ext) ==
  IF trap_caught(tim, ext) THEN Mtvec
  ELSE IF IsKind({"mret"}) THEN mepc
  ELSE OpOf(IR).target

csr_write == IF IsKind({"csr"}) THEN OpOf(IR).write ELSE NoWrite

-----------------------------------------------------------------------------
CoreInit ==
  /\ rom \in Programs
  /\ PC = ResetVector
  /\ PC_Old = 0
  /\ link = 0
  /\ IR = NOP
  /\ ignore = FALSE
  /\ halted = FALSE
  /\ was = FALSE
  /\ lower = 0
  /\ i_activ = FALSE /\ i_adr = 0
  /\ d_activ = FALSE /\ d_for = 0
  /\ CsrInit

(* Stage 1: the program counter and the pipeline registers behind it. *)
Fetch(iack, dack, tim, ext, taken) ==
  LET jump  == jump_decision(tim, ext, taken)
      stall == stall_stage1(iack, dack)
  IN  /\ PC' = IF jump THEN jump_target(tim, ext)
               ELSE IF ~stall THEN PC_next
               ELSE PC
      /\ PC_Old' = IF ~stall THEN PC ELSE PC_Old
      /\ link' = IF ~stall THEN PC_next ELSE link
      /\ IR' = IF flush_pipeline(iack, dack, jump) THEN NOP
               ELSE IF ~stall THEN fetched_instr
               ELSE IR

(* Mutants of IgnoreHandshake: the first half of a misaligned fetch ends   *)
(* it; it never ends.                                                      *)
IgnoreOneAck(iack, tim, ext, taken) ==
  ignore' = IF ignore THEN ~(instr_request_valid /\ iack)
            ELSE jump_decision(tim, ext, taken)
(* After a jump the fetch in flight is for the old path: drop its answer. *)
IgnoreHandshake(iack, tim, ext, taken) ==
  ignore' = IF ignore THEN ~raw_imem_handshake(iack)
            ELSE jump_decision(tim, ext, taken)

(* Mutant of Halt: only an enabled interrupt wakes the core. *)
HaltUntilTrap(dack, tim, ext) ==
  halted' = /\ ~(timerAsync(tim) \/ extAsync(ext))
            /\ halted \/ (IsKind({"wfi"}) /\ ~stall_stage2(dack))

(* Sleep on WFI, wake on any interrupt line, whether or not it is enabled. *)
Halt(dack, tim, ext) ==
  halted' = /\ ~(tim \/ ext)
            /\ halted \/ (IsKind({"wfi"}) /\ ~stall_stage2(dack))

(* The aligner is held in reset while the core is halted. *)
Align(iack) ==
  /\ was' = /\ ~halted
            /\ IF iack /\ misaligned(PC) THEN ~was ELSE was
  /\ lower' = IF halted THEN 0
              ELSE IF iack THEN Plus(i_adr, 1)
              ELSE lower

(* AtomRV_wb.v: latch a request when idle, hold it until acknowledged. *)
IPort(iack) ==
  /\ i_activ' = IF i_activ THEN ~iack ELSE instr_request_valid
  /\ i_adr' = IF ~i_activ /\ instr_request_valid THEN m_adr ELSE i_adr

(* Mutant of DPort: the acknowledge does not end the cycle. *)
DPortSticky(dack) ==
  /\ d_activ' = (dport_valid \/ (d_activ /\ ~dack))
  /\ d_for' = IF ~d_activ /\ dport_valid THEN PC_Old ELSE d_for

DPort(dack) ==
  /\ d_activ' = IF d_activ THEN ~dack ELSE dport_valid
  /\ d_for' = IF ~d_activ /\ dport_valid THEN PC_Old ELSE d_for

Tick(iack, dack, tim, ext, taken) ==
  /\ Fetch(iack, dack, tim, ext, taken)
  /\ IgnoreHandshake(iack, tim, ext, taken)
  /\ Halt(dack, tim, ext)
  /\ Align(iack)
  /\ IPort(iack)
  /\ DPort(dack)
  /\ CsrClock(csr_write, illegal, tim, ext, halted, PC_Old)
  /\ UNCHANGED rom
=============================================================================
