---------------------------- MODULE RegistryIndex ----------------------------
(***************************************************************************)
(* The part of the subgraph that follows the ServiceRegistry and the       *)
(* AgentsRegistry: it handles their events, in the order of the chain but  *)
(* some time after it, and keeps entities that clients query instead of    *)
(* the contracts.  Only the events that subgraph.yaml lists are handled.   *)
(***************************************************************************)
EXTENDS AgentsRegistry

CONSTANTS
  IndexedServices, \* the ServiceRegistry instance that subgraph.yaml names
  Contents,        \* content paths of agent URIs
  NoContent,       \* the empty path, for a URI that is neither https nor ipfs
  ContentOf(_),    \* the content path of the URI, from the name and URI of an agent
  Available,       \* paths with a file that IPFS can find
  Documents,       \* those of which the file is a metadata document
  MaxLag           \* bound on the events emitted and not yet handled

ASSUME IndexConstants ==
  /\ IndexedServices \in Registries
  /\ NoContent \notin Contents
  /\ \A metadata \in Metadata \cup {NoMetadata} : ContentOf(metadata) \in Contents \cup {NoContent}
  /\ Available \subseteq Contents
  /\ Documents \subseteq Available
  /\ MaxLag \in Nat

VARIABLES
  pending,          \* events emitted and not yet handled, oldest first
  serviceEntities,  \* name -> Service entity
  agentEntities,    \* address -> Agent entity
  proposalEntities, \* id -> Proposal entity
  files,            \* paths an IpfsContent data source was created for
  ipfsMetadata      \* paths with an IpfsMetadata entity

entityVars == <<serviceEntities, agentEntities, proposalEntities, files, ipfsMetadata>>
indexVars == <<pending, entityVars>>

\* An entity that was never saved reads as one that is not known.
ServiceEntity == [known : BOOLEAN, category : Details \cup {NoDetails},
                  description : Details \cup {NoDetails}]
NoServiceEntity == [known |-> FALSE, category |-> NoDetails, description |-> NoDetails]

AgentEntity == [known : BOOLEAN, metadata : Metadata \cup {NoMetadata},
                owner : Accounts \cup {ZeroAddress}, reputation : Nat,
                content : Contents \cup {NoContent}]
NoAgentEntity == [known |-> FALSE, metadata |-> NoMetadata, owner |-> ZeroAddress,
                  reputation |-> 0, content |-> NoContent]

ProposalTerms == [issuer : AgentKeys, serviceName : AllNames, price : Prices \cup {0},
                  tokenAddress : TokenAddresses \cup {ZeroAddress}]
TermsShown(proposal) ==
  [issuer |-> proposal.issuer, serviceName |-> proposal.serviceName,
   price |-> proposal.price, tokenAddress |-> proposal.tokenAddress]

\* handleProposalRemoved is not listed in subgraph.yaml, so isRemoved, which
\* handleProposalAdded sets to false, never changes and is left out.
ProposalEntity == [known : BOOLEAN, terms : ProposalTerms]
NoProposalEntity == [known |-> FALSE, terms |-> TermsShown(NoProposal)]

RegistryEvent ==
  [type : {"ServiceRegistered", "ServiceUpdated"}, name : Names, details : Details \cup {NoDetails}]
    \cup [type : {"AgentRegistered"}, agent : AgentKeys, owner : Accounts \cup {ZeroAddress},
          metadata : Metadata \cup {NoMetadata}]
    \cup [type : {"AgentDataUpdated"}, agent : AgentKeys, metadata : Metadata]
    \cup [type : {"ReputationUpdated"}, agent : AgentKeys, reputation : Nat]
    \cup [type : {"ProposalAdded"}, id : ProposalIds, terms : ProposalTerms]

EntityTypeOK ==
  /\ serviceEntities \in [Names -> ServiceEntity]
  /\ agentEntities \in [AgentKeys -> AgentEntity]
  /\ proposalEntities \in [ProposalIds -> ProposalEntity]
  /\ files \subseteq Contents
  /\ ipfsMetadata \subseteq files

IndexInit ==
  /\ pending = <<>>
  /\ serviceEntities = [name \in Names |-> NoServiceEntity]
  /\ agentEntities = [agent \in AgentKeys |-> NoAgentEntity]
  /\ proposalEntities = [id \in ProposalIds |-> NoProposalEntity]
  /\ files = {}
  /\ ipfsMetadata = {}

-----------------------------------------------------------------------------
\* The registries' transactions with the events they emit, read off the state
\* they leave behind.
Emit(events) ==
  /\ Len(pending) + Len(events) <= MaxLag
  /\ pending' = pending \o events
  /\ UNCHANGED entityVars

ServiceEvent(type, name) ==
  [type |-> type, name |-> name, details |-> services'[IndexedServices][name].details]
AgentRegistered(agent) ==
  [type |-> "AgentRegistered", agent |-> agent, owner |-> agents'[agent].owner,
   metadata |-> agents'[agent].metadata]
AgentDataUpdated(agent) ==
  [type |-> "AgentDataUpdated", agent |-> agent, metadata |-> agents'[agent].metadata]
ReputationUpdated(agent) ==
  [type |-> "ReputationUpdated", agent |-> agent, reputation |-> agents'[agent].reputation]
ProposalAdded(id) ==
  [type |-> "ProposalAdded", id |-> id, terms |-> TermsShown(proposals'[id])]
ProposalsAdded ==
  [k \in 1 .. nextProposalId' - nextProposalId |-> ProposalAdded(nextProposalId + k - 1)]

\* The services a migration brings over, in any order; those of another
\* instance than the indexed one are not followed.
ServicesAdded ==
  LET new == {name \in Names : services'[IndexedServices][name] # services[IndexedServices][name]}
  IN {order \in [1 .. Cardinality(new) -> new] :
        \A name \in new : \E k \in DOMAIN order : order[k] = name}

\* The agent comes first.  The events of a service and of the proposal that
\* needs it touch different entities, so how they interleave does not matter.
EmitMigration(agent) ==
  \E order \in ServicesAdded :
    Emit(<<AgentRegistered(agent)>>
           \o [k \in DOMAIN order |-> ServiceEvent("ServiceRegistered", order[k])]
           \o ProposalsAdded)

-----------------------------------------------------------------------------
\* The handlers.  Each takes the oldest event; one whose entity is missing
\* drops it.
Handles(type) ==
  /\ pending # <<>>
  /\ Head(pending).type = type
  /\ pending' = Tail(pending)

HandleServiceRegistered ==
  /\ Handles("ServiceRegistered")
  /\ LET event == Head(pending)
     IN serviceEntities' = [serviceEntities EXCEPT ![event.name] =
          [known |-> TRUE, category |-> event.details, description |-> event.details]]
  /\ UNCHANGED <<agentEntities, proposalEntities, files, ipfsMetadata>>

\* The category keeps what it was registered with.
HandleServiceUpdated ==
  /\ Handles("ServiceUpdated")
  /\ LET event == Head(pending)
     IN serviceEntities' =
          IF serviceEntities[event.name].known
          THEN [serviceEntities EXCEPT ![event.name].description = event.details]
          ELSE serviceEntities
  /\ UNCHANGED <<agentEntities, proposalEntities, files, ipfsMetadata>>

\* A content path is linked to the entity and gets a file data source; a URI
\* without one leaves the link as it is.
Linked(content, metadata) ==
  IF ContentOf(metadata) = NoContent THEN content ELSE ContentOf(metadata)

Opened(metadata) == files \cup ({ContentOf(metadata)} \ {NoContent})

\* A new entity has reputation 0, whatever the contract recorded.  It is saved
\* over an older one, of which a link stays that the event does not set.
HandleAgentRegistered ==
  /\ Handles("AgentRegistered")
  /\ LET event == Head(pending)
     IN /\ agentEntities' = [agentEntities EXCEPT ![event.agent] =
             [known |-> TRUE, metadata |-> event.metadata, owner |-> event.owner,
              reputation |-> 0, content |-> Linked(@.content, event.metadata)]]
        /\ files' = Opened(event.metadata)
  /\ UNCHANGED <<serviceEntities, proposalEntities, ipfsMetadata>>

HandleUpdateReputation ==
  /\ Handles("ReputationUpdated")
  /\ LET event == Head(pending)
     IN agentEntities' =
          IF agentEntities[event.agent].known
          THEN [agentEntities EXCEPT ![event.agent].reputation = event.reputation]
          ELSE agentEntities
  /\ UNCHANGED <<serviceEntities, proposalEntities, files, ipfsMetadata>>

\* Faulty variant of HandleAgentDataUpdated: the metadata link stays.
HandleAgentDataUpdatedUnlinked ==
  /\ Handles("AgentDataUpdated")
  /\ LET event == Head(pending)
     IN IF agentEntities[event.agent].known
        THEN /\ agentEntities' = [agentEntities EXCEPT
                  ![event.agent].metadata = event.metadata]
             /\ files' = Opened(event.metadata)
        ELSE UNCHANGED <<agentEntities, files>>
  /\ UNCHANGED <<serviceEntities, proposalEntities, ipfsMetadata>>

\* Faulty variant of HandleAgentDataUpdated: no data source for the new path.
HandleAgentDataUpdatedUnopened ==
  /\ Handles("AgentDataUpdated")
  /\ LET event == Head(pending)
     IN IF agentEntities[event.agent].known
        THEN /\ agentEntities' = [agentEntities EXCEPT
                  ![event.agent].metadata = event.metadata,
                  ![event.agent].content = Linked(@, event.metadata)]
             /\ UNCHANGED files
        ELSE UNCHANGED <<agentEntities, files>>
  /\ UNCHANGED <<serviceEntities, proposalEntities, ipfsMetadata>>

HandleAgentDataUpdated ==
  /\ Handles("AgentDataUpdated")
  /\ LET event == Head(pending)
     IN IF agentEntities[event.agent].known
        THEN /\ agentEntities' = [agentEntities EXCEPT
                  ![event.agent].metadata = event.metadata,
                  ![event.agent].content = Linked(@, event.metadata)]
             /\ files' = Opened(event.metadata)
        ELSE UNCHANGED <<agentEntities, files>>
  /\ UNCHANGED <<serviceEntities, proposalEntities, ipfsMetadata>>

HandleProposalAdded ==
  /\ Handles("ProposalAdded")
  /\ LET event == Head(pending)
     IN proposalEntities' = [proposalEntities EXCEPT ![event.id] =
          [known |-> TRUE, terms |-> event.terms]]
  /\ UNCHANGED <<serviceEntities, agentEntities, files, ipfsMetadata>>

\* The handler of the file data source runs when the file is found, once per
\* path and in no order with the events.  The entity of a file that is empty, no
\* JSON object or without socials is left with defaults or without some of its
\* fields, and stays so; MetadataShown tells those files apart.
HandleAgentMetadata(content) ==
  /\ content \in (files \cap Available) \ ipfsMetadata
  /\ ipfsMetadata' = ipfsMetadata \cup {content}
  /\ UNCHANGED <<pending, serviceEntities, agentEntities, proposalEntities, files>>

HandleRegistryEvent ==
  \/ HandleServiceRegistered
  \/ HandleServiceUpdated
  \/ HandleAgentRegistered
  \/ HandleUpdateReputation
  \/ HandleAgentDataUpdated
  \/ HandleProposalAdded

\* agent.metadata of a query: the entity of the linked path, once it is there.
\* One left with defaults tells a client no more than one that is missing.
MetadataShown(agent) ==
  LET content == agentEntities[agent].content
  IN IF content \in ipfsMetadata \cap Documents THEN content ELSE NoContent

-----------------------------------------------------------------------------
\* Once no event is left to handle, queries see every registered agent with
\* its name, URI and owner as the contract has them and with the metadata link
\* of that very URI, through removals and registrations of the same address by
\* somebody else.  A URI without a content path keeps an older link.
AgentsAreIndexed ==
  pending = <<>> =>
    \A agent \in AgentKeys :
      IsAgent(agent) =>
        /\ agentEntities[agent].known
        /\ agentEntities[agent].metadata = agents[agent].metadata
        /\ agentEntities[agent].owner = agents[agent].owner
        /\ ContentOf(agents[agent].metadata) # NoContent =>
             agentEntities[agent].content = ContentOf(agents[agent].metadata)
=============================================================================
