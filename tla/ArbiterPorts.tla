----------------------------- MODULE ArbiterPorts -----------------------------
(***************************************************************************)
(* The arbiter (module Arbiter) between masters that keep a request up     *)
(* until it has been granted, which is how AtomRV_wb.v drives cyc and how  *)
(* Arbiter2_wb.v:84-85 connects it.  A granted master may drop its request *)
(* after any number of cycles.                                             *)
(***************************************************************************)
EXTENDS Arbiter

VARIABLES
  request,      \* the ports whose request line is up
  passed        \* history: how often q was granted since p began to wait

vars == <<arbVars, request, passed>>

Waiting == request \ grant

Init ==
  /\ ArbInit
  /\ request = {}
  /\ passed = [p \in Ports |-> [q \in Ports |-> 0]]

(* The request lines change right after the clock edge. *)
Drive(dropped) ==
  /\ dropped \subseteq request \cap grant
  /\ \E raised \in SUBSET (Ports \ request) :
       request' = (request \ dropped) \union raised

(* The history saturates: the properties tell 0, 1 and more apart. *)
Many == 2
OneMore(n) == IF n < Many THEN n + 1 ELSE Many

(* A new arbitration, whatever it decides. *)
Arbitrates(acknowledge) == ~Holds(request, acknowledge) /\ request # {}

Count(acknowledge) ==
  passed' = [p \in Ports |-> [q \in Ports |->
               IF p \notin Waiting \/ p \in grant' THEN 0
               ELSE IF Arbitrates(acknowledge) /\ q \in grant'
                    THEN OneMore(passed[p][q])
               ELSE passed[p][q]]]

Cycle(dropped, acknowledge) ==
  /\ ArbClock(request, acknowledge)
  /\ Drive(dropped)
  /\ Count(acknowledge)

Next ==
  \E dropped \in SUBSET grant, acknowledge \in SUBSET grant :
    Cycle(dropped, acknowledge)

Spec == Init /\ [][Next]_vars

(* A master that holds the bus gives it up eventually: it drops its        *)
(* request, and with ARB_BLOCK_ACK its slave acknowledges.                 *)
Release(p) ==
  \E dropped, acknowledge \in SUBSET grant :
    /\ p \in acknowledge \/ p \notin grant
    /\ p \in dropped \/ p \notin request \cap grant
    /\ Cycle(dropped, acknowledge)

FairSpec == Spec /\ WF_vars(Next) /\ \A p \in Ports : WF_vars(Release(p))

-----------------------------------------------------------------------------
TypeOK ==
  /\ grant \in {{}} \union {{p} : p \in Ports}
  /\ mask \subseteq Ports
  /\ request \subseteq Ports
  /\ passed \in [Ports -> [Ports -> 0 .. Many]]

(* The bus is handed to a port that asks for it, never to an idle one      *)
(* (Arbiter.v 95-138): a grant to an idle port would connect the slaves to *)
(* a master that never answers while the requester waits.                  *)
GrantsRequester == [][grant' # grant => grant' \subseteq request]_vars

(* Round robin: while a port waits, no other port is granted twice         *)
(* (Arbiter.v 112-131).                                                    *)
BoundedBypass == \A p, q \in Ports : passed[p][q] <= 1

(* Round robin: every request is granted. *)
RequestServed == \A p \in Ports : p \in request ~> p \in grant
=============================================================================
