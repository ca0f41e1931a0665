------------------------------- MODULE MCUart -------------------------------
(* Line settings for Uart and SimUart. *)
EXTENDS Uart

Enabled == {s \in Settings : s.rx_en /\ s.tx_en}

(* Every frame format, in loopback. *)
Loopbacks == {s \in Enabled : s.loopback}

Setting(rx_en, tx_en, dual, parity, loopback) ==
  [rx_en |-> rx_en, tx_en |-> tx_en, dual |-> dual, parity |-> parity,
   even |-> FALSE, loopback |-> loopback]

(* Everything on, and everything off. *)
Changing ==
  {Setting(TRUE, TRUE, TRUE, TRUE, FALSE),
   Setting(FALSE, FALSE, FALSE, FALSE, TRUE)}
=============================================================================
