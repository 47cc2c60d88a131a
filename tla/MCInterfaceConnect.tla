------------------------- MODULE MCInterfaceConnect -------------------------
(* The interface of the Mbed OS port on its own.                           *)
EXTENDS InterfaceConnect
=============================================================================
