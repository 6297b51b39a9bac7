---------------------------- MODULE AgentsRegistry ----------------------------
(***************************************************************************)
(* The AgentsRegistryUpgradeable contract: agents, their owners and their  *)
(* reputation, and the service proposals that tasks are created from.  It  *)
(* reads and writes a ServiceRegistry, is written by a TaskRegistry        *)
(* (addRating), and copies agents out of an earlier version of itself.     *)
(***************************************************************************)
EXTENDS ServiceRegistry, Sequences, Reputation

CONSTANTS
  AgentAddresses,  \* addresses registered as agents; may include ZeroAddress
  Metadata,        \* name and URI of an agent, taken together
  NoMetadata,      \* the empty name and URI
  Prices,          \* proposal prices
  TokenAddresses,  \* tokenAddress of a proposal; ZeroAddress stands for ETH
  Ratings,         \* ratings submitted, those above MaxRating included
  TaskRegistries,  \* addresses the owner may set as taskRegistry
  MaxProposals,    \* bound on the proposals ever created
  MaxRatings,      \* bound on the ratings counted for one agent
  V1Agents,        \* external: agent -> its record in the V1 registry
  V1Proposals,     \* external: id -> proposal of the V1 registry
  V1NextProposalId,\* external: V1 ids are 0 .. V1NextProposalId - 1
  V1Services       \* external: name -> service of the V1 service registry

AgentKeys == AgentAddresses \cup {ZeroAddress}
ProposalIds == 1 .. MaxProposals
AllNames == Names \cup {EmptyName}

V1Agent == [metadata : Metadata \cup {NoMetadata},
            owner : Accounts \cup {ZeroAddress}, reputation : 0 .. MaxRating]
V1Proposal == [issuer : AgentKeys, serviceName : Names, price : Prices, isActive : BOOLEAN]

ASSUME AgentConstants ==
  /\ Prices \subseteq Nat
  /\ Ratings \subseteq Nat
  /\ ZeroAddress \notin TaskRegistries
  /\ NoMetadata \notin Metadata
  /\ MaxProposals \in Nat
  /\ MaxRatings \in Nat
  /\ V1NextProposalId \in Nat
  /\ V1Agents \in [AgentKeys -> V1Agent]
  /\ V1Proposals \in [0 .. V1NextProposalId - 1 -> V1Proposal]
  /\ V1Services \in [Names -> Service]
  /\ \A name \in Names : V1Services[name].name \in {name, EmptyName}

VARIABLES
  agents,          \* address -> AgentData
  proposals,       \* id -> ServiceProposal
  nextProposalId,
  serviceRegistry, \* the instance in use
  taskRegistry,    \* the only address addRating accepts
  registryOwner    \* the Ownable owner

agentVars == <<agents, proposals, nextProposalId, serviceRegistry, taskRegistry, registryOwner>>
registryVars == <<serviceVars, agentVars>>

AgentData == [metadata : Metadata \cup {NoMetadata}, owner : Accounts \cup {ZeroAddress},
              agent : AgentKeys, reputation : Nat, totalRatings : Nat]
NoAgent == [metadata |-> NoMetadata, owner |-> ZeroAddress, agent |-> ZeroAddress,
            reputation |-> 0, totalRatings |-> 0]

ServiceProposal == [issuer : AgentKeys, serviceName : AllNames, price : Prices \cup {0},
                    tokenAddress : TokenAddresses \cup {ZeroAddress},
                    proposalId : ProposalIds \cup {0}, isActive : BOOLEAN]
NoProposal == [issuer |-> ZeroAddress, serviceName |-> EmptyName, price |-> 0,
               tokenAddress |-> ZeroAddress, proposalId |-> 0, isActive |-> FALSE]

AgentTypeOK ==
  /\ ServiceTypeOK
  /\ agents \in [AgentKeys -> AgentData]
  /\ proposals \in [ProposalIds -> ServiceProposal]
  /\ nextProposalId \in 1 .. MaxProposals + 1
  /\ serviceRegistry \in Registries
  /\ taskRegistry \in TaskRegistries \cup {ZeroAddress}
  /\ registryOwner \in Accounts \cup {ZeroAddress}

\* initialize, with the service registry of the deployment
AgentInit ==
  /\ ServiceInit
  /\ agents = [agent \in AgentKeys |-> NoAgent]
  /\ proposals = [id \in ProposalIds |-> NoProposal]
  /\ nextProposalId = 1
  /\ serviceRegistry \in Registries
  /\ taskRegistry = ZeroAddress
  /\ registryOwner = Deployer

-----------------------------------------------------------------------------
\* The require that guards every registration.  It looks at the stored agent
\* address, so ZeroAddress itself never counts as registered.
IsAgent(agent) == agents[agent].agent # ZeroAddress

OwnsAgent(sender, agent) == agents[agent].owner = sender

\* _createAgent: writes every field but totalRatings.
CreateAgent(agent, metadata, owner, reputation) ==
  agents' = [agents EXCEPT ![agent] =
    [metadata |-> metadata, owner |-> owner, agent |-> agent,
     reputation |-> reputation, totalRatings |-> @.totalRatings]]

\* Faulty variant of CreateProposals: the id is stored after the increment.
CreateProposalsNumberedAfter(agent, listings) ==
  /\ nextProposalId + Len(listings) <= MaxProposals + 1
  /\ proposals' = [id \in ProposalIds |->
       IF id \in nextProposalId .. nextProposalId + Len(listings) - 1
       THEN LET listing == listings[id - nextProposalId + 1]
            IN [issuer |-> agent, serviceName |-> listing.serviceName,
                price |-> listing.price, tokenAddress |-> listing.tokenAddress,
                proposalId |-> id + 1, isActive |-> TRUE]
       ELSE proposals[id]]
  /\ nextProposalId' = nextProposalId + Len(listings)

\* _createProposal, once per listing and in their order.
CreateProposals(agent, listings) ==
  /\ nextProposalId + Len(listings) <= MaxProposals + 1
  /\ proposals' = [id \in ProposalIds |->
       IF id \in nextProposalId .. nextProposalId + Len(listings) - 1
       THEN LET listing == listings[id - nextProposalId + 1]
            IN [issuer |-> agent, serviceName |-> listing.serviceName,
                price |-> listing.price, tokenAddress |-> listing.tokenAddress,
                proposalId |-> id, isActive |-> TRUE]
       ELSE proposals[id]]
  /\ nextProposalId' = nextProposalId + Len(listings)

Listing(name, price, token) ==
  [serviceName |-> name, price |-> price, tokenAddress |-> token]

\* Faulty variant of RegisterAgent: a registered agent is not refused.
RegisterAgentAgain(sender, agent, metadata) ==
  /\ CreateAgent(agent, metadata, sender, 0)
  /\ UNCHANGED <<serviceVars, proposals, nextProposalId,
                 serviceRegistry, taskRegistry, registryOwner>>

RegisterAgent(sender, agent, metadata) ==
  /\ ~IsAgent(agent)
  /\ CreateAgent(agent, metadata, sender, 0)
  /\ UNCHANGED <<serviceVars, proposals, nextProposalId,
                 serviceRegistry, taskRegistry, registryOwner>>

\* The service is looked up in the registry in use at this moment.
ServiceListed(name) == ValidName(name) /\ IsRegistered(serviceRegistry, name)

RegisterAgentWithService(sender, agent, metadata, name, price, token) ==
  /\ ~IsAgent(agent)
  /\ ServiceListed(name)
  /\ CreateAgent(agent, metadata, sender, 0)
  /\ CreateProposals(agent, <<Listing(name, price, token)>>)
  /\ UNCHANGED <<serviceVars, serviceRegistry, taskRegistry, registryOwner>>

\* Faulty variant of AddProposal: the service is not looked up.
AddProposalForAnyService(sender, agent, name, price, token) ==
  /\ OwnsAgent(sender, agent)
  /\ CreateProposals(agent, <<Listing(name, price, token)>>)
  /\ UNCHANGED <<serviceVars, agents, serviceRegistry, taskRegistry, registryOwner>>

AddProposal(sender, agent, name, price, token) ==
  /\ OwnsAgent(sender, agent)
  /\ ServiceListed(name)
  /\ CreateProposals(agent, <<Listing(name, price, token)>>)
  /\ UNCHANGED <<serviceVars, agents, serviceRegistry, taskRegistry, registryOwner>>

\* Faulty variant of RemoveProposal: the id is given back to the counter.
RemoveProposalFreeingId(sender, agent, id) ==
  /\ OwnsAgent(sender, agent)
  /\ proposals[id].issuer = agent
  /\ proposals' = [proposals EXCEPT ![id] = NoProposal]
  /\ nextProposalId' = nextProposalId - 1
  /\ UNCHANGED <<serviceVars, agents, serviceRegistry, taskRegistry, registryOwner>>

RemoveProposal(sender, agent, id) ==
  /\ OwnsAgent(sender, agent)
  /\ proposals[id].issuer = agent
  /\ proposals' = [proposals EXCEPT ![id] = NoProposal]
  /\ UNCHANGED <<serviceVars, agents, nextProposalId,
                 serviceRegistry, taskRegistry, registryOwner>>
-----------------------------------------------------------------------------
\* The ids _migrateAgentProposals keeps: active V1 proposals of the agent.
V1Live(agent) == {i \in 0 .. V1NextProposalId - 1 :
                    V1Proposals[i].issuer = agent /\ V1Proposals[i].isActive}

\* The one enumeration of a finite set of integers in increasing order.
Ascending(S) == {order \in [1 .. Cardinality(S) -> S] :
                   \A i, j \in DOMAIN order : i < j => order[i] < order[j]}

\* _ensureServiceRegistered is called for each: these are the names it has to
\* bring over.  A name that the V1 service registry does not know comes back
\* empty, and registering the empty name reverts the whole migration.
V1Missing(agent) == {V1Proposals[i].serviceName : i \in V1Live(agent)}
                      \ Registered(serviceRegistry)

\* Faulty variant of EnsureServices: missing services are not brought over.
EnsureNoServices(agent) ==
  UNCHANGED serviceVars

EnsureServices(agent) ==
  /\ \A name \in V1Missing(agent) : V1Services[name].name # EmptyName
  /\ StoreServices(serviceRegistry, V1Missing(agent),
                   [name \in V1Missing(agent) |-> V1Services[name].details])
  /\ UNCHANGED serviceOwner

\* A migrated proposal is always priced in ETH.
MigrateAgent(sender, agent) ==
  /\ ~IsAgent(agent)
  /\ sender \in {V1Agents[agent].owner, registryOwner}
  /\ CreateAgent(agent, V1Agents[agent].metadata, V1Agents[agent].owner,
                 V1Agents[agent].reputation)
  /\ EnsureServices(agent)
  /\ \E order \in Ascending(V1Live(agent)) :
       CreateProposals(agent,
         [k \in 1 .. Cardinality(V1Live(agent)) |->
            Listing(V1Proposals[order[k]].serviceName, V1Proposals[order[k]].price, ZeroAddress)])
  /\ UNCHANGED <<serviceRegistry, taskRegistry, registryOwner>>

\* The effect of addRating on the agents, for whoever calls it.  It does not
\* ask whether the agent is registered.
RatingAdded(sender, agent, rating) ==
  /\ sender = taskRegistry
  /\ rating <= MaxRating
  /\ agents[agent].totalRatings < MaxRatings
  /\ LET counted == [agents[agent] EXCEPT !.totalRatings = @ + 1]
     IN agents' = [agents EXCEPT ![agent] =
          [counted EXCEPT !.reputation = Averaged(@, counted.totalRatings - 1, rating)]]

AddRating(sender, agent, rating) ==
  /\ RatingAdded(sender, agent, rating)
  /\ UNCHANGED <<serviceVars, proposals, nextProposalId,
                 serviceRegistry, taskRegistry, registryOwner>>

SetAgentData(sender, agent, metadata) ==
  /\ OwnsAgent(sender, agent)
  /\ IsAgent(agent)
  /\ agents' = [agents EXCEPT ![agent].metadata = metadata]
  /\ UNCHANGED <<serviceVars, proposals, nextProposalId,
                 serviceRegistry, taskRegistry, registryOwner>>

\* Faulty variant of ProposalsOf: the scan starts one id too late.
ProposalsOfFromSecond(agent) ==
  {id \in 2 .. nextProposalId - 1 : proposals[id].issuer = agent /\ proposals[id].isActive}

\* What _removeAllAgentProposals deletes.
ProposalsOf(agent) ==
  {id \in 1 .. nextProposalId - 1 : proposals[id].issuer = agent /\ proposals[id].isActive}

\* Faulty variant of RemoveAgent: only the owner is cleared.
RemoveAgentKeepingRatings(sender, agent) ==
  /\ OwnsAgent(sender, agent)
  /\ IsAgent(agent)
  /\ proposals' = [id \in ProposalIds |->
                     IF id \in ProposalsOf(agent) THEN NoProposal ELSE proposals[id]]
  /\ agents' = [agents EXCEPT ![agent].owner = ZeroAddress, ![agent].agent = ZeroAddress]
  /\ UNCHANGED <<serviceVars, nextProposalId, serviceRegistry, taskRegistry, registryOwner>>

RemoveAgent(sender, agent) ==
  /\ OwnsAgent(sender, agent)
  /\ IsAgent(agent)
  /\ proposals' = [id \in ProposalIds |->
                     IF id \in ProposalsOf(agent) THEN NoProposal ELSE proposals[id]]
  /\ agents' = [agents EXCEPT ![agent] = NoAgent]
  /\ UNCHANGED <<serviceVars, nextProposalId, serviceRegistry, taskRegistry, registryOwner>>

SetTaskRegistry(sender, address) ==
  /\ sender = registryOwner
  /\ address # ZeroAddress
  /\ taskRegistry' = address
  /\ UNCHANGED <<serviceVars, agents, proposals, nextProposalId,
                 serviceRegistry, registryOwner>>

SetServiceRegistry(sender, r) ==
  /\ sender = registryOwner
  /\ serviceRegistry' = r
  /\ UNCHANGED <<serviceVars, agents, proposals, nextProposalId,
                 taskRegistry, registryOwner>>

\* OwnableUpgradeable.transferOwnership and renounceOwnership (external).
PassRegistryOwnership(sender, heir) ==
  /\ sender = registryOwner
  /\ registryOwner' = heir
  /\ UNCHANGED <<serviceVars, agents, proposals, nextProposalId,
                 serviceRegistry, taskRegistry>>

AgentStep(sender, agent) ==
  \/ \E metadata \in Metadata : RegisterAgent(sender, agent, metadata)
  \/ \E metadata \in Metadata, name \in AllNames, price \in Prices, token \in TokenAddresses :
       RegisterAgentWithService(sender, agent, metadata, name, price, token)
  \/ \E name \in AllNames, price \in Prices, token \in TokenAddresses :
       AddProposal(sender, agent, name, price, token)
  \/ \E id \in ProposalIds : RemoveProposal(sender, agent, id)
  \/ MigrateAgent(sender, agent)
  \/ \E metadata \in Metadata : SetAgentData(sender, agent, metadata)
  \/ RemoveAgent(sender, agent)

OwnerStep(sender) ==
  \/ \E address \in TaskRegistries \cup {ZeroAddress} : SetTaskRegistry(sender, address)
  \/ \E r \in Registries : SetServiceRegistry(sender, r)
  \/ \E heir \in Heirs \cup {ZeroAddress} : PassRegistryOwnership(sender, heir)

\* A taskRegistry that is an ordinary account rates directly.
DirectRating(sender) ==
  \E agent \in AgentKeys, rating \in Ratings : AddRating(sender, agent, rating)

RegistryNext ==
  \/ \E sender \in Accounts :
       \/ \E agent \in AgentAddresses : AgentStep(sender, agent)
       \/ OwnerStep(sender)
       \/ DirectRating(sender)
  \/ ServiceNext /\ UNCHANGED agentVars

RegistrySpec == AgentInit /\ [][RegistryNext]_registryVars

-----------------------------------------------------------------------------
\* Refinement mapping into ProposalBook.
Terms == [issuer : AgentKeys, serviceName : AllNames, price : Prices \cup {0},
          tokenAddress : TokenAddresses \cup {ZeroAddress}]
TermsOf(proposal) ==
  [issuer |-> proposal.issuer, serviceName |-> proposal.serviceName,
   price |-> proposal.price, tokenAddress |-> proposal.tokenAddress]

BookEntry(id) ==
  [state |-> IF id >= nextProposalId THEN "unused"
             ELSE IF proposals[id].isActive THEN "listed" ELSE "withdrawn",
   terms |-> TermsOf(proposals[id])]

Book == INSTANCE ProposalBook WITH
  Ids <- ProposalIds, Terms <- Terms, NoTerms <- TermsOf(NoProposal),
  book <- [id \in ProposalIds |-> BookEntry(id)], next <- nextProposalId

\* The registry keeps the promise of ProposalBook: a reader of getProposal
\* sees either the terms the id was created with or the empty record, never
\* another proposal's terms, through every mixture of additions, migrations,
\* removals of proposals and removals of agents.
KeepsTheBook == Book!Spec

\* An active proposal belongs to an agent that is still registered: removal of
\* an agent (removeAgent and its scan over all ids) leaves none behind, and no
\* proposal can be added for an agent that is gone.  Address zero, which never
\* counts as registered, is excepted.
ProposalsHaveAgents ==
  \A id \in ProposalIds :
    proposals[id].isActive /\ proposals[id].issuer # ZeroAddress
      => IsAgent(proposals[id].issuer)

\* The service of an active proposal is registered in some service registry,
\* also for migrated proposals and after the owner switched registries.
ProposalsHaveServices ==
  \A id \in ProposalIds :
    proposals[id].isActive =>
      \E r \in Registries : proposals[id].serviceName \in Registered(r)

\* The running average never leaves 0 .. 100, whatever sequence of ratings,
\* removals, re-registrations and migrations produced it.
ReputationBounded ==
  \A agent \in AgentKeys : agents[agent].reputation <= MaxRating

\* A registered agent changes hands only by being removed first: no
\* registration or migration overwrites its owner.
AgentsAreNotTakenOver ==
  [][\A agent \in AgentKeys :
       IsAgent(agent) => agents'[agent].owner \in {agents[agent].owner, ZeroAddress}]_registryVars
=============================================================================
