---------------------------- MODULE MCPdmcClient ----------------------------
(* The application core with the thresholds the source ships.              *)
EXTENDS PdmcClient
=============================================================================
