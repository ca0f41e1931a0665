------------------------------ MODULE MCSimUart ------------------------------
(* Line settings for SimUart: what serial_init sets, and every format in    *)
(* loopback.                                                                *)
EXTENDS SimUart

Default == [rx_en |-> TRUE, tx_en |-> TRUE, dual |-> FALSE, parity |-> FALSE,
            even |-> FALSE, loopback |-> FALSE]
LineSettings == {Default} \union {s \in Settings : s.rx_en /\ s.tx_en /\ s.loopback}
=============================================================================
