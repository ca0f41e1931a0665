------------------------------- MODULE Arbiter -------------------------------
(***************************************************************************)
(* The bus arbiter (rtl/uncore/wishbone/Arbiter.v) with its priority       *)
(* encoder (Priority_encoder.v).  Bit vectors over the ports are sets of   *)
(* ports; Clock is one rising edge with the given request and acknowledge  *)
(* inputs.                                                                 *)
(***************************************************************************)
EXTENDS Integers

CONSTANTS
  PORTS,        \* number of ports
  ROUND_ROBIN,  \* ARB_TYPE_ROUND_ROBIN
  BLOCK,        \* ARB_BLOCK
  BLOCK_ACK,    \* ARB_BLOCK_ACK
  LSB_HIGH      \* ARB_LSB_HIGH_PRIORITY

(* With more than four ports the encoder needs a third level, which reads  *)
(* stage_valid[1] and stage_enc[1]: wires nothing drives (lines 83-96).    *)
ASSUME ArbiterAssumption ==
  /\ PORTS \in 2 .. 4
  /\ {ROUND_ROBIN, BLOCK, BLOCK_ACK, LSB_HIGH} \subseteq BOOLEAN

VARIABLES
  grant,        \* grant_reg; grant_valid_reg is grant # {}
  mask          \* mask_reg: the ports that go first in round robin

arbVars == <<grant, mask>>

Ports == 0 .. PORTS - 1

(* p goes before q in the priority order. *)
Before(p, q) == IF LSB_HIGH THEN p < q ELSE p > q

First(s) == CHOOSE p \in s : \A q \in s : p = q \/ Before(p, q)

(* Mutant of Encode: off by one. *)
EncodeNext(s) == First(s) + 1

(* output_encoded for a nonempty input.  With two inputs there is a single *)
(* stage, and its encoded bit is inverted a second time on the way out     *)
(* when bit 0 has the priority (lines 76 and 99).                          *)
Encode(s) ==
  IF LSB_HIGH /\ PORTS = 2
  THEN IF 0 \in s THEN 1 ELSE 0
  ELSE First(s)

(* Mutants of After: the next port is left out; the mask is never set. *)
AfterButNext(p) ==
  {q \in Ports : \E r \in Ports : Before(p, r) /\ Before(r, q)}
AfterNone(p) == {}

(* mask_next: the ports behind p. *)
After(p) == {q \in Ports : Before(p, q)}

(* Mutant of Winner: the mask alone, without the requests. *)
WinnerUnmasked(request) ==
  IF ROUND_ROBIN /\ mask # {} THEN Encode(mask) ELSE Encode(request)

Winner(request) ==
  IF ROUND_ROBIN /\ request \cap mask # {}
  THEN Encode(request \cap mask)
  ELSE Encode(request)

(* Mutant of Holds: a grant is never given up. *)
HoldsForever(request, acknowledge) == BLOCK /\ grant # {}

Holds(request, acknowledge) ==
  /\ BLOCK
  /\ IF BLOCK_ACK THEN grant # {} /\ grant \cap acknowledge = {}
     ELSE grant \cap request # {}

ArbInit == grant = {} /\ mask = {}

ArbReset == grant' = {} /\ mask' = {}

ArbClock(request, acknowledge) ==
  \/ /\ Holds(request, acknowledge)
     /\ UNCHANGED arbVars
  \/ /\ ~Holds(request, acknowledge)
     /\ request # {}
     /\ grant' = {Winner(request)}
     /\ mask' = IF ROUND_ROBIN THEN After(Winner(request)) ELSE mask
  \/ /\ ~Holds(request, acknowledge)
     /\ request = {}
     /\ grant' = {}
     /\ UNCHANGED mask
=============================================================================
