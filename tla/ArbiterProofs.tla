---------------------------- MODULE ArbiterProofs ----------------------------
(***************************************************************************)
(* Proofs about the arbiter and its requesters (module ArbiterPorts), for  *)
(* every number of ports, priority order and way of blocking.              *)
(***************************************************************************)
EXTENDS ArbiterPorts, TLAPS

(* The one combination whose encoder is wrong (Priority_encoder.v 76, 99). *)
Sound == ~(LSB_HIGH /\ PORTS = 2)

USE ArbiterAssumption

(* The priority order has a first port in every nonempty set of ports. *)
LEMMA FirstIsFirst ==
  ASSUME NEW S \in SUBSET Ports, S # {}
  PROVE  /\ First(S) \in S
         /\ \A q \in S : First(S) = q \/ Before(First(S), q)
<1>1. \E p \in S : \A q \in S : p = q \/ Before(p, q)
  <2>1. S \subseteq {0, 1, 2, 3}
    BY DEF Ports
  <2>2. CASE LSB_HIGH
    <3>1. CASE 0 \in S
      BY <2>1, <2>2, <3>1 DEF Before
    <3>2. CASE 0 \notin S /\ 1 \in S
      BY <2>1, <2>2, <3>2 DEF Before
    <3>3. CASE 0 \notin S /\ 1 \notin S /\ 2 \in S
      BY <2>1, <2>2, <3>3 DEF Before
    <3>4. CASE 0 \notin S /\ 1 \notin S /\ 2 \notin S
      <4>1. S = {3}
        BY <2>1, <3>4
      <4>. QED  BY <4>1
    <3>. QED  BY <3>1, <3>2, <3>3, <3>4
  <2>3. CASE ~LSB_HIGH
    <3>1. CASE 3 \in S
      BY <2>1, <2>3, <3>1 DEF Before
    <3>2. CASE 3 \notin S /\ 2 \in S
      BY <2>1, <2>3, <3>2 DEF Before
    <3>3. CASE 3 \notin S /\ 2 \notin S /\ 1 \in S
      BY <2>1, <2>3, <3>3 DEF Before
    <3>4. CASE 3 \notin S /\ 2 \notin S /\ 1 \notin S
      <4>1. S = {0}
        BY <2>1, <3>4
      <4>. QED  BY <4>1
    <3>. QED  BY <3>1, <3>2, <3>3, <3>4
  <2>. QED  BY <2>2, <2>3
<1>. QED  BY <1>1 DEF First

(* A sound arbiter picks a requester, among the unmasked ones the first. *)
LEMMA WinnerRequests ==
  ASSUME Sound, NEW R \in SUBSET Ports, R # {}
  PROVE  /\ Winner(R) \in R
         /\ ROUND_ROBIN /\ R \cap mask # {} => Winner(R) = First(R \cap mask)
         /\ ROUND_ROBIN /\ R \cap mask = {} => Winner(R) = First(R)
<1>1. \A S \in SUBSET Ports : Encode(S) = First(S)
  BY DEF Encode, Sound
<1>2. R \cap mask \in SUBSET Ports
  OBVIOUS
<1>. QED  BY <1>1, <1>2, FirstIsFirst DEF Winner

(* In round robin: the first requester inside the mask if there is one,    *)
(* and the first of all requesters otherwise.                              *)
LEMMA RoundRobinPicks ==
  ASSUME Sound, ROUND_ROBIN, NEW R \in SUBSET Ports, R # {}
  PROVE  \/ /\ Winner(R) \in mask
            /\ \A q \in R \cap mask : Winner(R) = q \/ Before(Winner(R), q)
         \/ /\ R \cap mask = {}
            /\ \A q \in R : Winner(R) = q \/ Before(Winner(R), q)
<1>1. CASE R \cap mask # {}
  <2>1. R \cap mask \in SUBSET Ports
    OBVIOUS
  <2>2. Winner(R) = First(R \cap mask)
    BY <1>1, WinnerRequests
  <2>3. /\ First(R \cap mask) \in R \cap mask
        /\ \A q \in R \cap mask :
             First(R \cap mask) = q \/ Before(First(R \cap mask), q)
    BY <1>1, <2>1, FirstIsFirst
  <2>. QED  BY <2>2, <2>3
<1>2. CASE R \cap mask = {}
  <2>1. Winner(R) = First(R)
    BY <1>2, WinnerRequests
  <2>. QED  BY <1>2, <2>1, FirstIsFirst
<1>. QED  BY <1>1, <1>2

(* Two different ports are ordered one way. *)
LEMMA BeforeTotal ==
  ASSUME NEW p \in Ports, NEW q \in Ports
  PROVE  /\ Before(p, q) \/ Before(q, p) \/ p = q
         /\ ~(Before(p, q) /\ Before(q, p))
         /\ \A r \in Ports : Before(p, q) /\ Before(q, r) => Before(p, r)
BY DEF Before, Ports

-----------------------------------------------------------------------------
LEMMA InitTypeOK == Init => TypeOK
BY DEF Init, ArbInit, TypeOK, Ports, Many

LEMMA StepTypeOK ==
  ASSUME Sound, TypeOK, [Next]_vars
  PROVE  TypeOK'
<1>1. CASE UNCHANGED vars
  BY <1>1 DEF TypeOK, vars, arbVars
<1>2. ASSUME NEW dropped \in SUBSET grant, NEW acknowledge \in SUBSET grant,
             Cycle(dropped, acknowledge)
      PROVE  TypeOK'
  <2>1. (grant \in {{}} \union {{p} : p \in Ports} /\ mask \subseteq Ports)'
    <3>1. CASE request # {} /\ grant' = {Winner(request)}
      <4>1. Winner(request) \in Ports
        BY <3>1, WinnerRequests DEF TypeOK
      <4>. QED  BY <1>2, <3>1, <4>1 DEF Cycle, ArbClock, arbVars, TypeOK, After
    <3>2. CASE UNCHANGED arbVars
      BY <3>2 DEF arbVars, TypeOK
    <3>3. CASE grant' = {} /\ UNCHANGED mask
      BY <3>3 DEF TypeOK
    <3>. QED  BY <1>2, <3>1, <3>2, <3>3 DEF Cycle, ArbClock
  <2>2. (request \subseteq Ports)'
    BY <1>2 DEF Cycle, Drive, TypeOK
  <2>3. (passed \in [Ports -> [Ports -> 0 .. Many]])'
    <3>1. \A p, q \in Ports : passed[p][q] \in 0 .. Many
      BY DEF TypeOK
    <3>2. \A n \in 0 .. Many : OneMore(n) \in 0 .. Many
      BY DEF OneMore, Many
    <3>3. 0 \in 0 .. Many
      BY DEF Many
    <3>. QED  BY <1>2, <3>1, <3>2, <3>3 DEF Cycle, Count
  <2>. QED  BY <2>1, <2>2, <2>3 DEF TypeOK
<1>. QED  BY <1>1, <1>2 DEF Next

(* The registers keep their types: at most one port is ever granted. *)
THEOREM TypeCorrect == ASSUME Sound PROVE Spec => []TypeOK
<1>1. TypeOK /\ [Next]_vars => TypeOK'
  BY StepTypeOK
<1>. QED  BY <1>1, InitTypeOK, PTL DEF Spec

(* The bus only goes to a port that asks for it. *)
THEOREM GrantsOnlyRequesters == ASSUME Sound PROVE Spec => GrantsRequester
<1>1. TypeOK /\ [Next]_vars => [grant' # grant => grant' \subseteq request]_vars
  <2> SUFFICES ASSUME TypeOK, Next, grant' # grant
               PROVE  grant' \subseteq request
    OBVIOUS
  <2>1. PICK acknowledge : ArbClock(request, acknowledge)
    BY DEF Next, Cycle
  <2>2. CASE request # {} /\ grant' = {Winner(request)}
    BY <2>2, WinnerRequests DEF TypeOK
  <2>. QED  BY <2>1, <2>2 DEF ArbClock, arbVars
<1>. QED  BY <1>1, TypeCorrect, PTL DEF Spec, GrantsRequester

-----------------------------------------------------------------------------
(* Why round robin is fair.  The mask is what comes behind the last        *)
(* winner.  A waiting port inside it has not been passed by a port that    *)
(* could still be picked before it; a waiting port outside it has only     *)
(* been passed by ports behind it that are outside as well, and those come *)
(* last when the order starts again.                                       *)
MaskIsTail == \A q \in mask, r \in Ports : Before(q, r) => r \in mask

PassedOnce ==
  \A p, q \in Ports :
    \/ passed[p][q] = 0
    \/ /\ passed[p][q] = 1
       /\ p \in Waiting
       /\ IF p \in mask THEN ~(q \in mask /\ Before(q, p)) /\ q # p
          ELSE q \notin mask /\ Before(p, q)

FairInv == TypeOK /\ MaskIsTail /\ PassedOnce

LEMMA InitFair == Init => FairInv
BY InitTypeOK DEF FairInv, MaskIsTail, PassedOnce, Init, ArbInit

LEMMA StepFair ==
  ASSUME Sound, ROUND_ROBIN, FairInv, [Next]_vars
  PROVE  FairInv'
<1>1. TypeOK'
  BY StepTypeOK DEF FairInv
<1>2. CASE UNCHANGED vars
  BY <1>1, <1>2 DEF FairInv, MaskIsTail, PassedOnce, Waiting, vars, arbVars
<1>3. ASSUME NEW dropped \in SUBSET grant, NEW acknowledge \in SUBSET grant,
             Cycle(dropped, acknowledge)
      PROVE  FairInv'
  <2> DEFINE w == Winner(request)
  (* Whoever waits and is not granted keeps waiting. *)
  <2>1. \A p \in Waiting : p \notin grant' => p \in Waiting'
    BY <1>3 DEF Cycle, Drive, Waiting
  <2>2. CASE ~Arbitrates(acknowledge)
    <3>1. mask' = mask
      BY <1>3, <2>2 DEF Cycle, ArbClock, Arbitrates, arbVars
    <3>2. \A p, q \in Ports :
             \/ passed'[p][q] = 0
             \/ passed'[p][q] = passed[p][q] /\ p \in Waiting /\ p \notin grant'
      BY <1>3, <2>2 DEF Cycle, Count
    <3>. QED  BY <1>1, <2>1, <3>1, <3>2 DEF FairInv, MaskIsTail, PassedOnce
  <2>3. CASE Arbitrates(acknowledge)
    <3>1. grant' = {w} /\ mask' = After(w)
      BY <1>3, <2>3 DEF Cycle, ArbClock, Arbitrates
    <3>2. request \in SUBSET Ports /\ request # {} /\ mask \in SUBSET Ports
      BY <2>3 DEF FairInv, TypeOK, Arbitrates
    <3>3. w \in Ports
      BY <3>2, WinnerRequests
    <3>4. MaskIsTail'
      BY <3>1, <3>3, BeforeTotal DEF MaskIsTail, After
    <3>5. ASSUME NEW p \in Ports, NEW q \in Ports, passed'[p][q] # 0
          PROVE  /\ passed'[p][q] = 1
                 /\ p \in Waiting'
                 /\ IF p \in mask' THEN ~(q \in mask' /\ Before(q, p)) /\ q # p
                    ELSE q \notin mask' /\ Before(p, q)
      <4>1. /\ p \in Waiting /\ p # w
            /\ passed'[p][q] = IF q = w THEN OneMore(passed[p][q])
                               ELSE passed[p][q]
        BY <1>3, <2>3, <3>1, <3>5 DEF Cycle, Count
      <4>2. p \in Waiting'
        BY <2>1, <3>1, <4>1
      <4>3. p \in request
        BY <4>1 DEF Waiting
      <4>4. CASE p \in mask
        <5>1. w \in mask /\ Before(w, p)
          BY <3>2, <4>1, <4>3, <4>4, RoundRobinPicks
        <5>2. p \in mask' /\ mask' \subseteq mask
          BY <3>1, <3>3, <5>1 DEF After, FairInv, MaskIsTail
        <5>3. w \notin mask'
          BY <3>1, <3>3, BeforeTotal DEF After
        <5>4. CASE q = w
          <6>1. passed[p][q] = 0
            BY <3>3, <4>4, <5>1, <5>4 DEF FairInv, PassedOnce
          <6>. QED  BY <4>1, <4>2, <5>2, <5>3, <5>4, <6>1 DEF OneMore, Many
        <5>5. CASE q # w
          BY <3>5, <4>1, <4>2, <4>4, <5>2, <5>5 DEF FairInv, PassedOnce
        <5>. QED  BY <5>4, <5>5
      <4>5. CASE p \notin mask /\ w \in mask
        <5>1. Before(p, w)
          BY <3>3, <4>5, BeforeTotal DEF FairInv, MaskIsTail
        <5>2. p \notin mask' /\ mask' \subseteq mask
          BY <3>1, <3>3, <4>5, <5>1, BeforeTotal DEF After, FairInv, MaskIsTail
        <5>3. w \notin mask'
          BY <3>1, <3>3, BeforeTotal DEF After
        <5>4. CASE q = w
          <6>1. passed[p][q] = 0
            BY <3>3, <4>5, <5>4 DEF FairInv, PassedOnce
          <6>. QED  BY <4>1, <4>2, <5>1, <5>2, <5>3, <5>4, <6>1 DEF OneMore, Many
        <5>5. CASE q # w
          BY <3>5, <4>1, <4>2, <4>5, <5>2, <5>5 DEF FairInv, PassedOnce
        <5>. QED  BY <5>4, <5>5
      <4>6. CASE p \notin mask /\ w \notin mask
        <5>1. request \cap mask = {}
          BY <3>2, <4>6, RoundRobinPicks
        <5>2. Before(w, p)
          BY <3>2, <4>1, <4>3, <4>6, RoundRobinPicks
        <5>3. p \in mask' /\ w \notin mask'
          BY <3>1, <3>3, <5>2, BeforeTotal DEF After
        <5>4. passed[p][q] # 0 => passed[p][q] = 1 /\ Before(p, q)
          BY <4>6 DEF FairInv, PassedOnce
        <5>5. CASE q = w
          <6>1. passed[p][q] = 0
            BY <3>3, <5>2, <5>4, <5>5, BeforeTotal
          <6>. QED  BY <4>1, <4>2, <5>3, <5>5, <6>1 DEF OneMore, Many
        <5>6. CASE q # w
          <6>1. passed'[p][q] = 1 /\ Before(p, q)
            BY <3>5, <4>1, <5>4, <5>6
          <6>2. ~Before(q, p) /\ q # p
            BY <6>1, BeforeTotal DEF Before, Ports
          <6>. QED  BY <4>2, <5>3, <6>1, <6>2
        <5>. QED  BY <5>5, <5>6
      <4>. QED  BY <4>4, <4>5, <4>6
    <3>. QED  BY <1>1, <3>4, <3>5 DEF FairInv, PassedOnce
  <2>. QED  BY <2>2, <2>3
<1>. QED  BY <1>2, <1>3 DEF Next

(* Round robin never lets another port pass a waiting one twice. *)
THEOREM RoundRobinIsFair ==
  ASSUME Sound, ROUND_ROBIN PROVE Spec => []BoundedBypass
<1>1. FairInv /\ [Next]_vars => FairInv'
  BY StepFair
<1>2. FairInv => BoundedBypass
  BY DEF FairInv, PassedOnce, BoundedBypass
<1>. QED  BY <1>1, <1>2, InitFair, PTL DEF Spec
=============================================================================
