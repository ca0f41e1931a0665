------------------------------ MODULE MCCoreMem ------------------------------
(***************************************************************************)
(* Programs for CoreMem: every combination of a few instructions at both   *)
(* lengths and both alignments, in front of a trap handler.                *)
(***************************************************************************)
EXTENDS CoreMem

Handler == 8

Access(kind, len, dev) == [kind |-> kind, len |-> len, dev |-> dev]

(* The layout behind the handler's first instruction, which stands at      *)
(* Handler: the code of a, b, c and d from address 0, everything else      *)
(* decodes as a harmless compressed instruction.                           *)
Assemble(a, b, c, d, handler) ==
  [h \in Addresses |->
     IF h = 0 THEN a
     ELSE IF h = a.len THEN b
     ELSE IF h = a.len + b.len THEN c
     ELSE IF h = a.len + b.len + c.len THEN d
     ELSE IF h = Handler THEN handler
     ELSE IF h = Handler + handler.len THEN Jump("mret", 2, 0)
     ELSE Instr("op", 1)]

Free ==
  {Instr("op", 1), Instr("op", 2), Access("mem", 1, "ram"),
   Access("mem", 2, "timer"), Jump("branch", 1, 3), Jump("branch", 2, 0),
   Instr("wfi", 2), Instr("illegal", 2)}

(* Interrupts stay disabled; exceptions may be enabled. *)
SyncPrograms ==
  {Assemble(a, b, c, Jump("jump", 1, t), CsrWrite("mepc", 0)) :
     a \in Free \union {CsrWrite("mstatus", TRUE)}, b \in Free, c \in Free,
     t \in {0, 1, 3}}

(* A handful of them, for the liveness runs. *)
FewPrograms ==
  {Assemble(a, b, Instr("wfi", 2), Jump("jump", 1, t), CsrWrite("mepc", 0)) :
     a \in {CsrWrite("mstatus", TRUE), Instr("op", 1)},
     b \in {Access("mem", 1, "ram"), Access("mem", 2, "timer"),
            Jump("branch", 1, 3), Instr("illegal", 2)},
     t \in {0, 3}}

(* Timer interrupts are enabled, then a loop runs under them; the handler  *)
(* rewrites mtimecmp and returns.                                          *)
AsyncPrograms ==
  {Assemble(CsrWrite("mie", {"mtie"}), CsrWrite("mstatus", TRUE), c,
            Jump("jump", len, 4), Access("mem", 1, "timer")) :
     c \in {Instr("op", 1), Instr("op", 2), Access("mem", 1, "ram"),
            Access("mem", 2, "timer")},
     len \in {1, 2}}

(* The loop holds an illegal instruction; the handler skips it, as         *)
(* trap_handler does, and rewrites no timer register.                      *)
TrapPrograms ==
  {Assemble(CsrWrite("mie", {"mtie"}), CsrWrite("mstatus", TRUE),
            Instr("illegal", 2), Jump("jump", 1, 4), CsrWrite("mepc", 6))}

SocPrograms == FewPrograms \union AsyncPrograms \union TrapPrograms
=============================================================================
