---------------------------- MODULE MCHydrogenSoC ----------------------------
(* HydrogenSoC on the programs of MCCoreMem. *)
EXTENDS HydrogenSoC, MCCoreMem
=============================================================================
