------------------------------ MODULE MCXmodem ------------------------------
(***************************************************************************)
(* Instances of Xmodem.  One of the data bytes is the EOT character, so    *)
(* that data and control characters can be confused.                       *)
(***************************************************************************)
EXTENDS Xmodem

Data == {4, 100}
ShortFiles == UNION {[1 .. n -> Data] : n \in 1 .. 3}
Silent == {<<>>}
Stale == {<<>>, <<EOT>>, <<100>>}
Plain == {SOH, 2, 100}
=============================================================================
