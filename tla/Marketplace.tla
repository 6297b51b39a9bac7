------------------------------ MODULE Marketplace ------------------------------
(***************************************************************************)
(* Clients on the market: programs that find an agent through the matcher  *)
(* of the MCP server or the queries of the SDK's AgentService, all of them *)
(* answered by the subgraph, then read the price of one of its proposals   *)
(* from the contract and create a task with it; and the owners, agents and *)
(* issuers who act on proposals and tasks through the SDK meanwhile.       *)
(***************************************************************************)
EXTENDS Subgraph

CONSTANTS
  Clients,      \* instances of Ensemble, each with one purchase at a time
  Buyers,       \* accounts that clients may be created with (a bound)
  SearchTerms,
  Found(_, _),  \* external: a search term is contained in a name or a document
  MinReputations,
  Limit         \* how many agents a user of the matcher asks for

\* Clients send the price they read, whatever it is.
ASSUME MarketConstants ==
  /\ Prices \cup {0} \subseteq Values
  /\ MinReputations \subseteq Nat
  /\ Buyers \subseteq Accounts
  /\ Limit \in Nat \ {0}

VARIABLE clients  \* id -> Client

marketVars == <<vars, graphVars, clients>>

Phases == {"idle", "matching", "choosing", "chosen", "priced", "created"}

\* runner is the signer that Ensemble.create connected the contracts to; what
\* setSigner does not change.
Client == [pc : Phases, runner : Accounts,
           found : SUBSET AgentKeys, min : MinReputations \cup {0},
           term : SearchTerms \cup {EmptyName}, agent : AgentKeys,
           proposal : ProposalIds \cup {0}, shown : ProposalTerms,
           price : Prices \cup {0}, task : TaskIds \cup {0}]

\* Ensemble.create, with a signer.
Created(account) ==
  [pc |-> "idle", runner |-> account, found |-> {}, min |-> 0,
   term |-> EmptyName, agent |-> ZeroAddress, proposal |-> 0,
   shown |-> TermsShown(NoProposal), price |-> 0, task |-> 0]

MarketTypeOK ==
  /\ TaskTypeOK
  /\ GraphTypeOK
  /\ clients \in [Clients -> Client]

MarketInit ==
  /\ Init
  /\ GraphInit
  /\ clients \in [Clients -> {Created(account) : account \in Buyers}]
-----------------------------------------------------------------------------
\* Queries of the subgraph.
Known == {agent \in AgentKeys : agentEntities[agent].known}

\* GetProposals asks for services by name and not for isRemoved; a proposal
\* whose issuer has no entity is dropped.
IssuersMatching(term) ==
  {agent \in Known : \E id \in ProposalIds :
     /\ proposalEntities[id].known
     /\ proposalEntities[id].terms.issuer = agent
     /\ Found(term, proposalEntities[id].terms.serviceName)}

\* GetAgents looks into descriptions.  It declares no limit: the one that the
\* matcher passes has no effect.
AgentsMatching(term) ==
  {agent \in Known : MetadataShown(agent) # NoContent /\ Found(term, MetadataShown(agent))}

\* searchAgents: names and descriptions.
SearchAgents(term) ==
  {agent \in Known : Found(term, agentEntities[agent].metadata)} \cup AgentsMatching(term)

\* getAgentRecords with an owner, and with the least reputation.  The latter is
\* multiplied by 1e18, beyond any reputation that the contract knows.
Scaled(reputation) == IF reputation = 0 THEN 0 ELSE MaxRating + reputation
AgentsOwnedBy(owner) == {agent \in Known : agentEntities[agent].owner = owner}
AgentsRated(min) == {agent \in Known : agentEntities[agent].reputation >= Scaled(min)}
-----------------------------------------------------------------------------
OnChain == UNCHANGED <<vars, graphVars>>
Becomes(c, client) == clients' = [clients EXCEPT ![c] = client]

\* findMatchingAgents, up to the answer of its first query.
FindMatchingProposals(c, term, min) ==
  /\ clients[c].pc = "idle"
  /\ Becomes(c, [clients[c] EXCEPT !.pc = "matching", !.found = IssuersMatching(term),
                                   !.term = term, !.min = min])
  /\ OnChain

\* The rest of it: the second query only if the first found too few, and only
\* its agents are held against the least reputation.
FindAgentsByDescription(c) ==
  LET client == clients[c]
      more == {agent \in AgentsMatching(client.term) \ client.found :
                 agentEntities[agent].reputation >= client.min}
  IN /\ client.pc = "matching"
     /\ Becomes(c, [client EXCEPT !.pc = "choosing", !.term = EmptyName, !.min = 0,
          !.found = IF Cardinality(client.found) < Limit THEN client.found \cup more
                    ELSE client.found])
     /\ OnChain

\* The queries of AgentService.
Query(c, answer) ==
  /\ clients[c].pc = "idle"
  /\ Becomes(c, [clients[c] EXCEPT !.pc = "choosing", !.found = answer])
  /\ OnChain

\* The user takes a found agent and one of the proposals the subgraph lists
\* with it, removed or not.
Choose(c, agent, id) ==
  /\ clients[c].pc = "choosing"
  /\ agent \in clients[c].found
  /\ proposalEntities[id].known /\ proposalEntities[id].terms.issuer = agent
  /\ Becomes(c, [clients[c] EXCEPT !.pc = "chosen", !.found = {}, !.agent = agent,
                                   !.proposal = id, !.shown = proposalEntities[id].terms])
  /\ OnChain

\* createTask, up to the answer of getProposal.
ReadPrice(c) ==
  /\ clients[c].pc = "chosen"
  /\ Becomes(c, [clients[c] EXCEPT !.pc = "priced",
                                   !.price = GetProposal(clients[c].proposal).price])
  /\ OnChain

\* Faulty variant of MineTask: the id is read after the increment.
MineTaskNumberedAfter(c) ==
  /\ clients[c].pc = "priced"
  /\ Create(clients[c].runner, clients[c].proposal, clients[c].price)
  /\ Becomes(c, [clients[c] EXCEPT !.pc = "created", !.task = nextTaskId'])

\* The transaction is mined.  The price goes along as ETH, whatever asset the
\* proposal asks for.
MineTask(c) ==
  /\ clients[c].pc = "priced"
  /\ Create(clients[c].runner, clients[c].proposal, clients[c].price)
  /\ Becomes(c, [clients[c] EXCEPT !.pc = "created", !.task = nextTaskId])

\* The user gives up or the call fails, with a revert or anything else.
GiveUp(c) ==
  /\ clients[c].pc \notin {"idle", "created"}
  /\ Becomes(c, Created(clients[c].runner))
  /\ OnChain

BuyerStep(c) ==
  \/ \E term \in SearchTerms, min \in MinReputations : FindMatchingProposals(c, term, min)
  \/ FindAgentsByDescription(c)
  \/ \E term \in SearchTerms : Query(c, SearchAgents(term))
  \/ \E owner \in Accounts : Query(c, AgentsOwnedBy(owner))
  \/ \E min \in MinReputations : Query(c, AgentsRated(min))
  \/ \E agent \in AgentKeys, id \in ProposalIds : Choose(c, agent, id)
  \/ ReadPrice(c)
  \/ MineTask(c)
  \/ GiveUp(c)

\* Calls that send one transaction at once, by an account whose signer the
\* instance was created with: those of TaskService,
TaskCall(sender) ==
  \E t \in TaskIds :
    \/ Complete(sender, t)
    \/ \E rating \in Ratings : Rate(sender, t, rating)
    \/ Cancel(sender, t)

\* those of AgentService (plain registrations and updates are in AgentRecords),
OfferCall(sender) ==
  \E agent \in AgentAddresses :
    \/ \E metadata \in Metadata, name \in AllNames, price \in Prices, token \in TokenAddresses :
         RegisterWithOffer(sender, agent, metadata, name, price, token)
    \/ \E name \in AllNames, price \in Prices, token \in TokenAddresses :
         Offer(sender, agent, name, price, token)
    \/ \E id \in ProposalIds : Withdraw(sender, agent, id)

\* and those of ServiceRegistryService.
ServiceCall ==
  /\ \E name \in Names, details \in Details :
       /\ RegisterService(IndexedServices, name, details)
       /\ Emits(<<ServiceEvent("ServiceRegistered", name)>>)
  /\ UNCHANGED <<agentVars, taskVars>>

\* What the SDK has no call for.
ContractCall(sender) ==
  \/ \E agent \in AgentAddresses : Migrate(sender, agent) \/ Leave(sender, agent)
  \/ /\ \/ \E address \in TaskRegistries :
             SetTaskRegistry(sender, address) /\ Emits(<<>>)
        \/ /\ \E name \in Names, details \in Details :
                /\ UpdateService(IndexedServices, sender, name, details)
                /\ Emits(<<ServiceEvent("ServiceUpdated", name)>>)
           /\ UNCHANGED agentVars
     /\ UNCHANGED taskVars

Call(sender) == TaskCall(sender) \/ OfferCall(sender) \/ ServiceCall \/ ContractCall(sender)

MarketNext ==
  \/ \E c \in Clients : BuyerStep(c)
  \/ \E sender \in Accounts : Call(sender) /\ UNCHANGED clients
  \/ (HandleEvent \/ FindFile) /\ UNCHANGED <<vars, clients>>

\* The indexer goes on handling events.
MarketSpec ==
  /\ MarketInit
  /\ [][MarketNext]_marketVars
  /\ WF_marketVars(HandleEvent /\ UNCHANGED <<vars, clients>>)
-----------------------------------------------------------------------------
\* Who buys from what a subgraph of any age showed gets what it showed, or
\* nothing: the task is assigned to the agent that was found, under the terms
\* it was found with, for the price that was sent, in ETH unless it costs
\* nothing, and belongs to the account behind the client.
BuyersGetWhatTheyChose ==
  \A c \in Clients :
    LET client == clients[c]
        task == tasks[client.task]
        paid == deposit[client.task]
    IN client.pc = "created" =>
         /\ task.assignee = client.agent
         /\ task.issuer = client.runner
         /\ paid.amount = client.shown.price /\ client.price = client.shown.price
         /\ paid.asset = client.shown.tokenAddress
         /\ paid.amount > 0 => paid.asset = ZeroAddress
=============================================================================
