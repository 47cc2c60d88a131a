------------------------------ MODULE MCPorts ------------------------------
(* A board runs Mbed OS, or one of the other ports from its power-on.      *)
EXTENDS InterfaceConnect, NetworkStart

VARIABLE mbed_os    \* the port, fixed

portVars == <<mbed_os, vars, startVars>>

PortInit == mbed_os \in BOOLEAN /\ Init /\ StartInit

PortNext ==
  /\ UNCHANGED mbed_os
  /\ \/ mbed_os /\ Next /\ UNCHANGED startVars
     \/ ~mbed_os /\ StartNext /\ UNCHANGED vars

(* The fairness of both, for the port in use.  That of Mbed OS is about    *)
(* steps which are not enabled before its first call.                      *)
PortSpec ==
  /\ PortInit /\ [][PortNext]_portVars
  /\ WF_vars(ConnectCall) /\ WF_vars(ConnectEnds) /\ WF_vars(DeliverEvent)
  /\ WF_startVars(~mbed_os /\ Receive)
  /\ SF_startVars(~mbed_os /\ (StartUp \/ Connect))
  /\ WF_startVars(~mbed_os /\ (InitNetworkBound \/ NetAddress))
=============================================================================
