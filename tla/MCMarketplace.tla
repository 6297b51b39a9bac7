---------------------------- MODULE MCMarketplace ----------------------------
(***************************************************************************)
(* One buyer, bob, and two agents: alice herself and carl, whose tasks are *)
(* not indexed and whom the V1 registry knew with one offer.               *)
(***************************************************************************)
EXTENDS Marketplace

CONSTANTS alice, carl, svcA, meta, doc

DocumentOf(metadata) == IF metadata = NoMetadata THEN NoContent ELSE doc

\* The search is for a word that is everywhere.
Everything(term, text) == TRUE

V1KnewCarl ==
  [agent \in AgentKeys |->
     IF agent = carl
     THEN [metadata |-> meta, owner |-> alice, reputation |-> 70]
     ELSE [metadata |-> NoMetadata, owner |-> ZeroAddress, reputation |-> 0]]
OneV1Proposal ==
  [i \in {0} |-> [issuer |-> carl, serviceName |-> svcA, price |-> 1, isActive |-> TRUE]]
V1KnewSvcA == [name \in Names |-> [name |-> name, details |-> NoDetails]]
=============================================================================
