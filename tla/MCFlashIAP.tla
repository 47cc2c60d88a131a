---------------------------- MODULE MCFlashIAP ----------------------------
EXTENDS FlashIAP

(* Pages with one-page sectors; the other sectors have two. RX65N-CK has *)
(* its small blocks after the large ones, EK-RA6M3 before them.          *)
Single(d) == CASE d = "rx65n" -> 2 .. N - 1
               [] d \in {"ra6m3", "ra6m3_bd"} -> 0 .. 1
               [] d = "lpc" -> Pages
               [] OTHER -> {}

MCSectorStart == [d \in Ports |-> [p \in Pages |-> IF p \in Single(d) THEN p ELSE p - (p % 2)]]
MCSectorSize  == [d \in Ports |-> [p \in Pages |-> IF p \in Single(d) THEN 1 ELSE 2]]
=============================================================================
