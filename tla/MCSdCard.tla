------------------------------ MODULE MCSdCard ------------------------------
(***************************************************************************)
(* Instances of SdCard.  The bytes of the blocks are the ones the driver   *)
(* looks for: no answer, the start token, busy and accepted.               *)
(***************************************************************************)
EXTENDS SdCard, TLC

Held == (0 :> <<255, 254>>) @@ (1 :> <<5, 0>>)
ToWrite == <<0, 254>>
=============================================================================
