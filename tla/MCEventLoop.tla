---------------------------- MODULE MCEventLoop ----------------------------
(* The callbacks and timers of the event loop that are no part of          *)
(* PdmcClient: the pattern player and the reads of the large resource.     *)
(* They run one at a time, in any order, and leave each other's state      *)
(* alone.                                                                  *)
EXTENDS Blinky, LargeResource

CONSTANTS t1, t2
MCTransfers == {t1, t2}

MCPatterns ==
  {<<>>, <<Junk>>, <<Negative, 300>>, <<500, 200, 500>>, <<500, Junk, 200>>,
   <<500, Negative, 0>>, <<0>>}

MCRestarts == BOOLEAN

loopVars == <<vars, largeVars>>

MCInit == Init /\ LargeInit

MCNext ==
  \/ Next /\ UNCHANGED largeVars
  \/ LargeNext /\ UNCHANGED vars

MCSpec == MCInit /\ [][MCNext]_loopVars /\ WF_vars(Fire)
=============================================================================
