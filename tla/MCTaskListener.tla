---------------------------- MODULE MCTaskListener ----------------------------
(***************************************************************************)
(* Two agents that one process can sign for, with one task each.           *)
(***************************************************************************)
EXTENDS TaskListener

CONSTANTS agentA, agentB, task1, task2

OneTaskEach == [t \in Tasks |-> IF t = task1 THEN agentA ELSE agentB]
=============================================================================
