---------------------------- MODULE MCTaskRegistry ----------------------------
(***************************************************************************)
(* The whole of the contracts on small instances.  No V1 registry is       *)
(* deployed; migration has a run of its own on MCAgentsRegistry.           *)
(***************************************************************************)
EXTENDS TaskRegistry

NoV1Agents ==
  [agent \in AgentKeys |->
     [metadata |-> NoMetadata, owner |-> ZeroAddress, reputation |-> 0]]
NoV1Proposals == [i \in {} |-> 0]
NoV1Services == [name \in Names |-> NoService]
=============================================================================
