------------------------------- MODULE MCBoot -------------------------------
(***************************************************************************)
(* Instances of Boot.  One of the data bytes is the EOT character, so that *)
(* data and control characters can be confused.  flashboot uses SPI mode 0 *)
(* with delays of 1; the other settings spi_init offers are tried as well. *)
(***************************************************************************)
EXTENDS Boot

DataBytes == {4, 100}
ShortFiles == UNION {[1 .. n -> DataBytes] : n \in 1 .. 3}
Silent == {<<>>}
Stale == {<<>>, <<EOT>>, <<100>>}
Plain == {SOH, 2, 100}

Image == [i \in 0 .. ROOM - 1 |-> IF i = 2 THEN 4 ELSE 50 + i]
AllSpi ==
  {[sckdiv |-> d, pol |-> p, pha |-> h, lsb |-> l, post |-> t, pre |-> t] :
     d \in 1 .. 2, p \in 0 .. 1, h \in BOOLEAN, l \in BOOLEAN, t \in 0 .. 1}

(* The faults of the instance are those the checks can tell.               *)
ASSUME BootLineAssumption == DamageShows
=============================================================================
