--------------------------- MODULE MCAgentsRegistry ---------------------------
(***************************************************************************)
(* Small instances of the agents registry.  alice deploys and owns the     *)
(* registry; bob's address serves as the agent; ETH is address zero.       *)
(***************************************************************************)
EXTENDS AgentsRegistry

CONSTANTS alice, bob, svcA, svcB, meta, info

\* The V1 registry knew alice's and bob's own agents.  bob had two proposals
\* for svcA and a withdrawn one in between; alice had one for svcB, a service
\* the V1 service registry does not know (any more).
KnownV1Agents ==
  [agent \in AgentKeys |->
     IF agent \in {alice, bob}
     THEN [metadata |-> meta, owner |-> agent, reputation |-> 70]
     ELSE [metadata |-> NoMetadata, owner |-> ZeroAddress, reputation |-> 0]]

FourV1Proposals ==
  [i \in 0 .. 3 |->
     IF i = 3
     THEN [issuer |-> alice, serviceName |-> svcB, price |-> 1, isActive |-> TRUE]
     ELSE [issuer |-> bob, serviceName |-> svcA, price |-> 1, isActive |-> i # 1]]

V1KnowsSvcA ==
  [name \in Names |-> IF name = svcA THEN [name |-> name, details |-> info] ELSE NoService]

\* No earlier version was deployed: every V1 record reads as empty.
NoV1Agents ==
  [agent \in AgentKeys |->
     [metadata |-> NoMetadata, owner |-> ZeroAddress, reputation |-> 0]]
NoV1Proposals == [i \in {} |-> 0]
NoV1Services == [name \in Names |-> NoService]
=============================================================================
