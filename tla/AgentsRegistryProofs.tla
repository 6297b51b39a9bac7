-------------------------- MODULE AgentsRegistryProofs --------------------------
(***************************************************************************)
(* Theorems about the AgentsRegistry, for every value of its constants,    *)
(* and lemmas about RegistryIndex, the part of the subgraph that follows   *)
(* it: the events of a transaction are well typed, and so are the entities *)
(* that the handlers make of them.  Other events may stand in the queue    *)
(* beside those of the registries, as long as no registry handler takes    *)
(* them.  The theorems do not mention the index.                           *)
(***************************************************************************)
EXTENDS RegistryIndex, FiniteSetTheorems, TLAPS

-----------------------------------------------------------------------------
(* The running average.                                                     *)

\* The new reputation is a natural number, and no rating within the scale can
\* push a reputation out of it: the division of addRating cannot overshoot.
LEMMA AveragedInScale ==
  ASSUME NEW reputation \in Nat, NEW count \in Nat, NEW rating \in Nat
  PROVE  /\ Averaged(reputation, count, rating) \in Nat
         /\ reputation <= MaxRating /\ rating <= MaxRating
              => Averaged(reputation, count, rating) <= MaxRating
<1> DEFINE sum == reputation * count + rating
           q == sum \div (count + 1)
<1>1. sum \in Nat
  BY SMT
<1>2. q \in Nat /\ (count + 1) * q <= sum
  BY <1>1, SMT
<1>3. ASSUME reputation <= MaxRating, rating <= MaxRating
      PROVE  q <= MaxRating
  <2>1. reputation * count <= 100 * count
    BY <1>3, SMT DEF MaxRating
  <2>2. sum <= 100 * (count + 1)
    BY <1>3, <2>1, SMT DEF MaxRating
  <2>3. QED
    BY <1>2, <2>2, SMT DEF MaxRating
<1>4. QED
  BY <1>2, <1>3 DEF Averaged

-----------------------------------------------------------------------------
(* Type correctness of the building blocks.                                 *)

\* Storing a set of new services keeps the types of the catalogue.
LEMMA StoreServicesType ==
  ASSUME ServiceTypeOK, NEW r \in Registries, NEW new \in SUBSET Names,
         NEW details \in [new -> Details \cup {NoDetails}],
         StoreServices(r, new, details)
  PROVE  /\ services' \in [Registries -> [Names -> Service]]
         /\ serviceCount' \in [Registries -> Nat]
<1>1. Cardinality(new) \in Nat
  BY ServiceConstants, FS_Subset, FS_CardinalityType
<1>2. [name \in Names |-> IF name \in new THEN [name |-> name, details |-> details[name]]
                          ELSE services[r][name]] \in [Names -> Service]
  BY DEF ServiceTypeOK, Service
<1>3. QED
  BY <1>1, <1>2 DEF StoreServices, ServiceTypeOK

\* Every transaction on a service registry keeps its type.
LEMMA ServiceStepType ==
  ServiceTypeOK /\ ServiceNext => ServiceTypeOK'
<1> SUFFICES ASSUME ServiceTypeOK, ServiceNext PROVE ServiceTypeOK'
  OBVIOUS
<1>1. ASSUME NEW r \in Registries, NEW name \in Names \cup {EmptyName},
             NEW details \in Details, RegisterService(r, name, details)
      PROVE  ServiceTypeOK'
  <2>1. name \in Names
    BY <1>1 DEF RegisterService, ValidName
  <2>2. [n \in {name} |-> details] \in [{name} -> Details \cup {NoDetails}]
    OBVIOUS
  <2>3. QED
    BY <1>1, <2>1, <2>2, StoreServicesType DEF RegisterService, ServiceTypeOK
<1>2. ASSUME NEW r \in Registries, NEW sender \in Accounts,
             NEW name \in Names \cup {EmptyName}, NEW details \in Details,
             UpdateService(r, sender, name, details)
      PROVE  ServiceTypeOK'
  BY <1>2 DEF UpdateService, ValidName, ServiceTypeOK, Service
<1>3. ASSUME NEW r \in Registries, NEW sender \in Accounts,
             NEW heir \in Heirs \cup {ZeroAddress}, PassServiceOwnership(r, sender, heir)
      PROVE  ServiceTypeOK'
  BY <1>3, ServiceConstants DEF PassServiceOwnership, ServiceTypeOK
<1>4. QED
  BY <1>1, <1>2, <1>3 DEF ServiceNext

ListingType == [serviceName : AllNames, price : Prices, tokenAddress : TokenAddresses \cup {ZeroAddress}]

\* Creating proposals keeps the types of the mapping and of the id counter.
LEMMA CreateProposalsType ==
  ASSUME AgentTypeOK, NEW agent \in AgentKeys, NEW listings \in Seq(ListingType),
         CreateProposals(agent, listings)
  PROVE  /\ proposals' \in [ProposalIds -> ServiceProposal]
         /\ nextProposalId' \in 1 .. MaxProposals + 1
<1>1. Len(listings) \in Nat /\ nextProposalId \in Nat /\ nextProposalId >= 1
  BY AgentConstants DEF AgentTypeOK
<1>2. nextProposalId' \in 1 .. MaxProposals + 1
  BY <1>1, AgentConstants DEF CreateProposals
<1>3. ASSUME NEW id \in ProposalIds
      PROVE  proposals'[id] \in ServiceProposal
  <2>1. CASE id \in nextProposalId .. nextProposalId + Len(listings) - 1
    <3>1. id - nextProposalId + 1 \in 1 .. Len(listings)
      BY <1>1, <2>1 DEF ProposalIds
    <3>2. listings[id - nextProposalId + 1] \in ListingType
      BY <3>1
    <3>3. QED
      BY <2>1, <3>2 DEF CreateProposals, ServiceProposal, ListingType, ProposalIds
  <2>2. CASE id \notin nextProposalId .. nextProposalId + Len(listings) - 1
    BY <2>2 DEF CreateProposals, AgentTypeOK
  <2>3. QED
    BY <2>1, <2>2
<1>4. QED
  BY <1>2, <1>3 DEF CreateProposals

\* One listing made of the arguments of a call is a listing sequence.
LEMMA OneListing ==
  ASSUME NEW name \in AllNames, NEW price \in Prices,
         NEW token \in TokenAddresses \cup {ZeroAddress}
  PROVE  <<Listing(name, price, token)>> \in Seq(ListingType)
BY DEF Listing, ListingType

\* _createAgent keeps the type of the agents.
LEMMA CreateAgentType ==
  ASSUME AgentTypeOK, NEW agent \in AgentKeys, NEW metadata \in Metadata \cup {NoMetadata},
         NEW owner \in Accounts \cup {ZeroAddress}, NEW reputation \in Nat,
         CreateAgent(agent, metadata, owner, reputation)
  PROVE  agents' \in [AgentKeys -> AgentData]
BY DEF CreateAgent, AgentTypeOK, AgentData

-----------------------------------------------------------------------------
(* Type correctness of the transactions.                                    *)

\* The finite set of the V1 proposals that move with an agent.
LEMMA V1LiveFinite ==
  ASSUME NEW agent
  PROVE  Cardinality(V1Live(agent)) \in Nat
<1>1. IsFiniteSet(0 .. V1NextProposalId - 1)
  BY AgentConstants, FS_Interval
<1>2. V1Live(agent) \subseteq 0 .. V1NextProposalId - 1
  BY DEF V1Live
<1>3. QED
  BY <1>1, <1>2, FS_Subset, FS_CardinalityType

\* A migration creates proposals from one sequence of well-typed listings.
LEMMA MigrationListings ==
  ASSUME NEW sender, NEW agent, MigrateAgent(sender, agent)
  PROVE  \E listings \in Seq(ListingType) : CreateProposals(agent, listings)
<1> DEFINE n == Cardinality(V1Live(agent))
<1>1. PICK order \in Ascending(V1Live(agent)) :
        CreateProposals(agent,
          [k \in 1 .. n |-> Listing(V1Proposals[order[k]].serviceName,
                                    V1Proposals[order[k]].price, ZeroAddress)])
  BY DEF MigrateAgent
<1>2. order \in [1 .. n -> V1Live(agent)]
  BY DEF Ascending
<1>3. ASSUME NEW k \in 1 .. n
      PROVE  Listing(V1Proposals[order[k]].serviceName, V1Proposals[order[k]].price, ZeroAddress)
               \in ListingType
  BY <1>2, AgentConstants DEF V1Live, V1Proposal, Listing, ListingType, AllNames
<1>4. [k \in 1 .. n |-> Listing(V1Proposals[order[k]].serviceName,
                                V1Proposals[order[k]].price, ZeroAddress)] \in Seq(ListingType)
  BY <1>3, V1LiveFinite
<1>5. QED
  BY <1>1, <1>4

\* A migration copies only well-typed data: its listings form a sequence, and
\* the services it brings over are missing ones that the V1 registry knows.
LEMMA MigrateAgentType ==
  ASSUME AgentTypeOK, NEW sender \in Accounts, NEW agent \in AgentAddresses,
         MigrateAgent(sender, agent)
  PROVE  AgentTypeOK'
<1>1. agent \in AgentKeys /\ V1Agents[agent] \in V1Agent
  BY AgentConstants DEF AgentKeys
<1>2. agents' \in [AgentKeys -> AgentData]
  <2>1. V1Agents[agent].reputation \in Nat
    BY <1>1 DEF V1Agent, MaxRating
  <2>2. QED
    BY <1>1, <2>1, CreateAgentType DEF MigrateAgent, V1Agent
<1>4. V1Missing(agent) \in SUBSET Names
  BY AgentConstants DEF V1Missing, V1Live, V1Proposal
<1>5. [name \in V1Missing(agent) |-> V1Services[name].details]
        \in [V1Missing(agent) -> Details \cup {NoDetails}]
  BY <1>4, AgentConstants DEF Service
<1>6. services' \in [Registries -> [Names -> Service]] /\ serviceCount' \in [Registries -> Nat]
  BY <1>4, <1>5, StoreServicesType DEF AgentTypeOK, MigrateAgent, EnsureServices
<1>7. /\ proposals' \in [ProposalIds -> ServiceProposal]
      /\ nextProposalId' \in 1 .. MaxProposals + 1
  BY <1>1, MigrationListings, CreateProposalsType
<1>8. QED
  BY <1>2, <1>6, <1>7 DEF MigrateAgent, EnsureServices, AgentTypeOK, ServiceTypeOK

\* A rating keeps the type of the agents.
LEMMA RatingAddedType ==
  ASSUME AgentTypeOK, NEW sender, NEW agent \in AgentKeys, NEW rating \in Nat,
         RatingAdded(sender, agent, rating)
  PROVE  agents' \in [AgentKeys -> AgentData]
<1>1. agents[agent].reputation \in Nat /\ agents[agent].totalRatings \in Nat
  BY DEF AgentTypeOK, AgentData
<1>2. Averaged(agents[agent].reputation, agents[agent].totalRatings, rating) \in Nat
  BY <1>1, AveragedInScale
<1> DEFINE counted == [agents[agent] EXCEPT !.totalRatings = @ + 1]
<1>3. counted \in AgentData
  BY <1>1 DEF AgentTypeOK, AgentData
<1>4. counted.reputation = agents[agent].reputation
      /\ counted.totalRatings = agents[agent].totalRatings + 1
  BY DEF AgentTypeOK, AgentData
<1>5. Averaged(counted.reputation, counted.totalRatings - 1, rating) \in Nat
  BY <1>1, <1>2, <1>4
<1>6. agents' = [agents EXCEPT ![agent] =
        [counted EXCEPT !.reputation = Averaged(@, counted.totalRatings - 1, rating)]]
  BY DEF RatingAdded
<1> HIDE DEF counted
<1>7. [counted EXCEPT !.reputation = Averaged(@, counted.totalRatings - 1, rating)] \in AgentData
  BY <1>3, <1>5 DEF AgentData
<1>8. QED
  BY <1>6, <1>7 DEF AgentTypeOK

\* Every call for one agent keeps the type of the registry.
LEMMA AgentStepType ==
  ASSUME AgentTypeOK, NEW sender \in Accounts, NEW agent \in AgentAddresses,
         AgentStep(sender, agent)
  PROVE  AgentTypeOK'
<1>0. agent \in AgentKeys
  BY DEF AgentKeys
<1>1. ASSUME NEW metadata \in Metadata, RegisterAgent(sender, agent, metadata)
      PROVE  AgentTypeOK'
  BY <1>0, <1>1, CreateAgentType DEF RegisterAgent, AgentTypeOK, ServiceTypeOK, serviceVars
<1>2. ASSUME NEW metadata \in Metadata, NEW name \in AllNames, NEW price \in Prices,
             NEW token \in TokenAddresses,
             RegisterAgentWithService(sender, agent, metadata, name, price, token)
      PROVE  AgentTypeOK'
  <2>1. agents' \in [AgentKeys -> AgentData]
    BY <1>0, <1>2, CreateAgentType DEF RegisterAgentWithService
  <2>2. proposals' \in [ProposalIds -> ServiceProposal] /\ nextProposalId' \in 1 .. MaxProposals + 1
    BY <1>0, <1>2, OneListing, CreateProposalsType DEF RegisterAgentWithService
  <2>3. QED
    BY <1>2, <2>1, <2>2 DEF RegisterAgentWithService, AgentTypeOK, ServiceTypeOK, serviceVars
<1>3. ASSUME NEW name \in AllNames, NEW price \in Prices, NEW token \in TokenAddresses,
             AddProposal(sender, agent, name, price, token)
      PROVE  AgentTypeOK'
  <2>1. proposals' \in [ProposalIds -> ServiceProposal] /\ nextProposalId' \in 1 .. MaxProposals + 1
    BY <1>0, <1>3, OneListing, CreateProposalsType DEF AddProposal
  <2>2. QED
    BY <1>3, <2>1 DEF AddProposal, AgentTypeOK, ServiceTypeOK, serviceVars
<1>4. ASSUME NEW id \in ProposalIds, RemoveProposal(sender, agent, id)
      PROVE  AgentTypeOK'
  <2>1. NoProposal \in ServiceProposal
    BY DEF NoProposal, ServiceProposal, AgentKeys, AllNames
  <2>2. QED
    BY <1>4, <2>1 DEF RemoveProposal, AgentTypeOK, ServiceTypeOK, serviceVars
<1>5. CASE MigrateAgent(sender, agent)
  BY <1>5, MigrateAgentType
<1>6. ASSUME NEW metadata \in Metadata, SetAgentData(sender, agent, metadata)
      PROVE  AgentTypeOK'
  BY <1>0, <1>6 DEF SetAgentData, AgentTypeOK, AgentData, ServiceTypeOK, serviceVars
<1>7. CASE RemoveAgent(sender, agent)
  <2>1. NoProposal \in ServiceProposal /\ NoAgent \in AgentData
    BY DEF NoProposal, ServiceProposal, NoAgent, AgentData, AgentKeys, AllNames
  <2>2. QED
    BY <1>7, <2>1 DEF RemoveAgent, AgentTypeOK, ServiceTypeOK, serviceVars
<1>8. QED
  BY <1>1, <1>2, <1>3, <1>4, <1>5, <1>6, <1>7 DEF AgentStep

\* Every transaction on the two registries keeps their types.
LEMMA RegistryStepType ==
  AgentTypeOK /\ RegistryNext => AgentTypeOK'
<1> SUFFICES ASSUME AgentTypeOK, RegistryNext PROVE AgentTypeOK'
  OBVIOUS
<1>1. ASSUME NEW sender \in Accounts, NEW agent \in AgentAddresses, AgentStep(sender, agent)
      PROVE  AgentTypeOK'
  BY <1>1, AgentStepType
<1>2. ASSUME NEW sender \in Accounts, OwnerStep(sender)
      PROVE  AgentTypeOK'
  BY <1>2, ServiceConstants DEF OwnerStep, SetTaskRegistry, SetServiceRegistry, PassRegistryOwnership,
       AgentTypeOK, ServiceTypeOK, serviceVars
<1>3. ASSUME NEW sender \in Accounts, DirectRating(sender)
      PROVE  AgentTypeOK'
  <2>1. PICK agent \in AgentKeys, rating \in Ratings : AddRating(sender, agent, rating)
    BY <1>3 DEF DirectRating
  <2>2. agents' \in [AgentKeys -> AgentData]
    BY <2>1, AgentConstants, RatingAddedType DEF AddRating
  <2>3. QED
    BY <2>1, <2>2 DEF AddRating, AgentTypeOK, ServiceTypeOK, serviceVars
<1>4. CASE ServiceNext /\ UNCHANGED agentVars
  BY <1>4, ServiceStepType DEF AgentTypeOK, agentVars
<1>5. QED
  BY <1>1, <1>2, <1>3, <1>4 DEF RegistryNext

\* A step that leaves the registries alone keeps their types.
LEMMA RegistryStutterType ==
  AgentTypeOK /\ UNCHANGED registryVars => AgentTypeOK'
BY DEF AgentTypeOK, ServiceTypeOK, registryVars, serviceVars, agentVars

\* The state that initialize leaves is well typed.
LEMMA AgentInitType == AgentInit => AgentTypeOK
<1>1. ServiceInit => ServiceTypeOK
  BY ServiceConstants DEF ServiceInit, ServiceTypeOK, Service, NoService
<1>2. NoAgent \in AgentData /\ NoProposal \in ServiceProposal
  BY DEF NoProposal, ServiceProposal, NoAgent, AgentData, AgentKeys, AllNames
<1>3. QED
  BY <1>1, <1>2, ServiceConstants, AgentConstants DEF AgentInit, AgentTypeOK

\* The registries stay well typed through every sequence of transactions.
THEOREM AgentTypeCorrect == RegistrySpec => []AgentTypeOK
<1>1. AgentTypeOK /\ [RegistryNext]_registryVars => AgentTypeOK'
  BY RegistryStepType, RegistryStutterType
<1>2. QED
  BY <1>1, AgentInitType, PTL DEF RegistrySpec

-----------------------------------------------------------------------------
(* What a transaction may do to the proposals.                              *)

Lists == \E agent \in AgentKeys : \E listings \in Seq(ListingType) : CreateProposals(agent, listings)

Withdraws ==
  /\ nextProposalId' = nextProposalId
  /\ \E gone \in SUBSET ProposalIds :
       proposals' = [id \in ProposalIds |-> IF id \in gone THEN NoProposal ELSE proposals[id]]

\* A call that does not touch the proposals withdraws the empty set of them.
LEMMA NothingWithdrawn ==
  ASSUME AgentTypeOK, UNCHANGED <<proposals, nextProposalId>>
  PROVE  Withdraws
<1>1. proposals' = [id \in ProposalIds |-> IF id \in {} THEN NoProposal ELSE proposals[id]]
  BY DEF AgentTypeOK
<1>2. \E gone \in SUBSET ProposalIds :
        proposals' = [id \in ProposalIds |-> IF id \in gone THEN NoProposal ELSE proposals[id]]
  <2> WITNESS {} \in SUBSET ProposalIds
  <2> QED
    BY <1>1
<1>3. QED
  BY <1>2 DEF Withdraws

\* Every transaction appends new proposals or withdraws existing ones.
LEMMA ProposalSteps ==
  ASSUME AgentTypeOK, RegistryNext
  PROVE  Lists \/ Withdraws
<1>1. ASSUME NEW sender \in Accounts, NEW agent \in AgentAddresses, AgentStep(sender, agent)
      PROVE  Lists \/ Withdraws
  <2>0. agent \in AgentKeys
    BY DEF AgentKeys
  <2>1. ASSUME NEW metadata \in Metadata, RegisterAgent(sender, agent, metadata)
        PROVE  Withdraws
    BY <2>1, NothingWithdrawn DEF RegisterAgent
  <2>2. ASSUME NEW metadata \in Metadata, NEW name \in AllNames, NEW price \in Prices,
               NEW token \in TokenAddresses,
               RegisterAgentWithService(sender, agent, metadata, name, price, token)
        PROVE  Lists
    BY <2>0, <2>2, OneListing DEF RegisterAgentWithService, Lists
  <2>3. ASSUME NEW name \in AllNames, NEW price \in Prices, NEW token \in TokenAddresses,
               AddProposal(sender, agent, name, price, token)
        PROVE  Lists
    BY <2>0, <2>3, OneListing DEF AddProposal, Lists
  <2>4. ASSUME NEW id \in ProposalIds, RemoveProposal(sender, agent, id)
        PROVE  Withdraws
    <3>1. proposals' = [proposals EXCEPT ![id] = NoProposal] /\ nextProposalId' = nextProposalId
      BY <2>4 DEF RemoveProposal
    <3>2. proposals' = [i \in ProposalIds |-> IF i \in {id} THEN NoProposal ELSE proposals[i]]
      BY <3>1 DEF AgentTypeOK
    <3>3. QED
      BY <3>1, <3>2 DEF Withdraws
  <2>5. CASE MigrateAgent(sender, agent)
    BY <2>0, <2>5, MigrationListings DEF Lists
  <2>6. ASSUME NEW metadata \in Metadata, SetAgentData(sender, agent, metadata)
        PROVE  Withdraws
    BY <2>6, NothingWithdrawn DEF SetAgentData
  <2>7. CASE RemoveAgent(sender, agent)
    <3>1. ProposalsOf(agent) \in SUBSET ProposalIds
      BY AgentConstants DEF ProposalsOf, ProposalIds, AgentTypeOK
    <3>2. QED
      BY <2>7, <3>1 DEF RemoveAgent, Withdraws
  <2>8. QED
    BY <1>1, <2>1, <2>2, <2>3, <2>4, <2>5, <2>6, <2>7 DEF AgentStep
<1>2. ASSUME NEW sender \in Accounts, OwnerStep(sender)
      PROVE  Withdraws
  BY <1>2, NothingWithdrawn DEF OwnerStep, SetTaskRegistry, SetServiceRegistry, PassRegistryOwnership
<1>3. ASSUME NEW sender \in Accounts, DirectRating(sender)
      PROVE  Withdraws
  BY <1>3, NothingWithdrawn DEF DirectRating, AddRating
<1>4. CASE ServiceNext /\ UNCHANGED agentVars
  BY <1>4, NothingWithdrawn DEF agentVars
<1>5. QED
  BY <1>1, <1>2, <1>3, <1>4 DEF RegistryNext

-----------------------------------------------------------------------------
(* The promise of ProposalBook.                                             *)

\* Ids not handed out yet read as empty, and so does every inactive entry: the
\* two ways an id can be without terms look the same to a reader.
InactiveIsEmpty ==
  \A id \in ProposalIds :
    /\ id >= nextProposalId => ~proposals[id].isActive
    /\ ~proposals[id].isActive => proposals[id] = NoProposal

\* The entries that one transaction creates lie in the range it adds.
LEMMA ListedRange ==
  ASSUME AgentTypeOK, Lists
  PROVE  /\ nextProposalId' \in Nat /\ nextProposalId' >= nextProposalId
         /\ \A id \in ProposalIds :
              IF nextProposalId <= id /\ id < nextProposalId'
              THEN proposals'[id].isActive
              ELSE proposals'[id] = proposals[id]
         /\ nextProposalId' = nextProposalId => proposals' = proposals
<1>1. PICK agent \in AgentKeys : \E listings \in Seq(ListingType) : CreateProposals(agent, listings)
  BY DEF Lists
<1>2. PICK listings \in Seq(ListingType) : CreateProposals(agent, listings)
  BY <1>1
<1>3. Len(listings) \in Nat /\ nextProposalId \in Nat
  BY AgentConstants DEF AgentTypeOK
<1>4. nextProposalId' = nextProposalId + Len(listings)
  BY <1>2 DEF CreateProposals
<1>5. \A id \in ProposalIds :
        IF nextProposalId <= id /\ id < nextProposalId'
        THEN proposals'[id].isActive
        ELSE proposals'[id] = proposals[id]
  BY <1>2, <1>3, <1>4 DEF CreateProposals, ProposalIds
<1>6. proposals' \in [ProposalIds -> ServiceProposal]
  BY <1>1, <1>2, CreateProposalsType
<1>7. ASSUME nextProposalId' = nextProposalId PROVE proposals' = proposals
  <2>1. \A id \in ProposalIds : proposals'[id] = proposals[id]
    BY <1>3, <1>5, <1>7 DEF ProposalIds
  <2>2. QED
    BY <1>6, <2>1 DEF AgentTypeOK
<1>8. QED
  BY <1>3, <1>4, <1>5, <1>7

\* Every transaction leaves unused and withdrawn ids with the empty record.
LEMMA InactiveIsEmptyStep ==
  ASSUME AgentTypeOK, InactiveIsEmpty, RegistryNext
  PROVE  InactiveIsEmpty'
<1>1. CASE Lists
  BY <1>1, ListedRange, AgentConstants DEF InactiveIsEmpty, ProposalIds, AgentTypeOK
<1>2. CASE Withdraws
  BY <1>2 DEF Withdraws, InactiveIsEmpty, NoProposal
<1>3. QED
  BY <1>1, <1>2, ProposalSteps

\* No id has a listing after initialize.
LEMMA InactiveIsEmptyInit == AgentInit => InactiveIsEmpty
BY DEF AgentInit, InactiveIsEmpty, NoProposal

\* A transaction on the registry is a step of ProposalBook or changes nothing
\* that ProposalBook speaks of.
LEMMA RegistryStepIsBookStep ==
  ASSUME AgentTypeOK, InactiveIsEmpty, RegistryNext
  PROVE  [Book!Next]_Book!bookVars
<1> DEFINE entries == [id \in ProposalIds |-> BookEntry(id)]
<1>1. AgentTypeOK' /\ InactiveIsEmpty'
  BY RegistryStepType, InactiveIsEmptyStep
<1>2. nextProposalId \in Nat /\ nextProposalId' \in Nat /\ ProposalIds \subseteq Nat
  BY <1>1, AgentConstants DEF AgentTypeOK, ProposalIds
<1>3. entries' \in [ProposalIds -> Book!Entry]
  BY <1>1 DEF AgentTypeOK, BookEntry, Book!Entry, TermsOf, Terms, ServiceProposal
<1>4. CASE Lists
  <2>1. CASE nextProposalId' = nextProposalId
    <3>1. proposals' = proposals
      BY <1>4, <2>1, ListedRange
    <3>2. QED
      BY <2>1, <3>1 DEF Book!bookVars, BookEntry
  <2>2. CASE nextProposalId' # nextProposalId
    <3>1. nextProposalId' > nextProposalId
      BY <1>2, <1>4, <2>2, ListedRange
    <3>2. ASSUME NEW id \in ProposalIds, nextProposalId <= id, id < nextProposalId'
          PROVE  entries[id].state = "unused" /\ entries'[id].state = "listed"
      BY <1>2, <1>4, <3>2, ListedRange DEF BookEntry
    <3>3. ASSUME NEW id \in ProposalIds, ~(nextProposalId <= id /\ id < nextProposalId')
          PROVE  entries'[id] = entries[id]
      <4>1. proposals'[id] = proposals[id]
        BY <1>4, <3>3, ListedRange
      <4>2. id >= nextProposalId' <=> id >= nextProposalId
        BY <1>2, <3>1, <3>3
      <4>3. QED
        BY <4>1, <4>2 DEF BookEntry
    <3>4. Book!List
      BY <1>3, <3>1, <3>2, <3>3 DEF Book!List
    <3>5. QED
      BY <3>4 DEF Book!Next
  <2>3. QED
    BY <2>1, <2>2
<1>5. CASE Withdraws
  <2>1. PICK gone \in SUBSET ProposalIds :
          proposals' = [id \in ProposalIds |-> IF id \in gone THEN NoProposal ELSE proposals[id]]
    BY <1>5 DEF Withdraws
  <2>2. nextProposalId' = nextProposalId
    BY <1>5 DEF Withdraws
  <2>3. ASSUME NEW id \in ProposalIds, entries'[id] # entries[id]
        PROVE  /\ entries[id].state = "listed"
               /\ entries'[id] = [state |-> "withdrawn", terms |-> TermsOf(NoProposal)]
    <3>1. proposals'[id] # proposals[id]
      BY <2>2, <2>3 DEF BookEntry
    <3>2. proposals'[id] = NoProposal /\ proposals[id] # NoProposal
      BY <2>1, <3>1
    <3>3. proposals[id].isActive /\ ~(id >= nextProposalId)
      BY <3>2 DEF InactiveIsEmpty
    <3>4. QED
      BY <2>2, <3>2, <3>3 DEF BookEntry, NoProposal
  <2>4. Book!Withdraw
    BY <1>3, <2>2, <2>3 DEF Book!Withdraw
  <2>5. QED
    BY <2>4 DEF Book!Next
<1>6. QED
  BY <1>4, <1>5, ProposalSteps

\* The book changes only when the registry does.
LEMMA RegistryStutterIsBookStutter ==
  UNCHANGED registryVars => UNCHANGED Book!bookVars
BY DEF registryVars, agentVars, Book!bookVars, BookEntry

\* initialize leaves an empty book.
LEMMA AgentInitIsBookInit == AgentInit => Book!Init
BY DEF AgentInit, Book!Init, BookEntry, NoProposal, ProposalIds, TermsOf

\* The registry implements ProposalBook: whoever keeps a proposal id reads
\* either the terms it was created with or nothing, for any number of
\* proposals, agents and accounts.
THEOREM RegistryKeepsTheBook == RegistrySpec => KeepsTheBook
<1>1. AgentInit => AgentTypeOK /\ InactiveIsEmpty
  BY AgentInitType, InactiveIsEmptyInit
<1>2. AgentTypeOK /\ InactiveIsEmpty /\ [RegistryNext]_registryVars
        => AgentTypeOK' /\ InactiveIsEmpty'
  <2>1. ASSUME InactiveIsEmpty, UNCHANGED registryVars PROVE InactiveIsEmpty'
    BY <2>1 DEF InactiveIsEmpty, registryVars, agentVars
  <2>2. QED
    BY <2>1, RegistryStepType, RegistryStutterType, InactiveIsEmptyStep
<1>3. AgentTypeOK /\ InactiveIsEmpty /\ [RegistryNext]_registryVars => [Book!Next]_Book!bookVars
  BY RegistryStepIsBookStep, RegistryStutterIsBookStutter
<1>4. QED
  BY <1>1, <1>2, <1>3, AgentInitIsBookInit, PTL DEF RegistrySpec, KeepsTheBook, Book!Spec

-----------------------------------------------------------------------------
(* Proposals belong to registered agents.                                   *)

\* Whoever has an owner is registered under its own address.
OwnedAgentsAreRegistered ==
  \A agent \in AgentKeys : agents[agent].owner # ZeroAddress => agents[agent].agent = agent

\* A registered agent stays registered, with its owner; nothing else counts.
KeepsAgents ==
  \A agent \in AgentKeys :
    agents'[agent].agent = agents[agent].agent /\ agents'[agent].owner = agents[agent].owner

\* A rating is no registration and no removal.
LEMMA RatingKeepsAgents ==
  ASSUME AgentTypeOK, NEW sender, NEW agent \in AgentKeys, NEW rating,
         RatingAdded(sender, agent, rating)
  PROVE  KeepsAgents
BY DEF RatingAdded, KeepsAgents, AgentTypeOK, AgentData

\* The proposals a transaction lists are those of the one agent it is about.
LEMMA CreatedProposals ==
  ASSUME AgentTypeOK, NEW agent \in AgentKeys, NEW listings, CreateProposals(agent, listings),
         NEW id \in ProposalIds, proposals'[id] # proposals[id]
  PROVE  proposals'[id].issuer = agent
BY DEF CreateProposals

HaveAgentsInv == AgentTypeOK /\ InactiveIsEmpty /\ OwnedAgentsAreRegistered /\ ProposalsHaveAgents

\* With the agents unchanged, removing proposals cannot orphan one.
LEMMA WithdrawKeepsAgents ==
  ASSUME HaveAgentsInv, KeepsAgents, Withdraws
  PROVE  OwnedAgentsAreRegistered' /\ ProposalsHaveAgents'
BY DEF HaveAgentsInv, KeepsAgents, Withdraws, OwnedAgentsAreRegistered, ProposalsHaveAgents,
       IsAgent, NoProposal, AgentTypeOK, ServiceProposal

\* Creating the agent together with its proposals leaves none without agent.
LEMMA CreateAgentKeepsAgents ==
  ASSUME HaveAgentsInv, NEW agent \in AgentKeys, NEW metadata, NEW owner, NEW reputation,
         CreateAgent(agent, metadata, owner, reputation),
         \A id \in ProposalIds : proposals'[id] # proposals[id] => proposals'[id].issuer = agent
  PROVE  OwnedAgentsAreRegistered' /\ ProposalsHaveAgents'
<1>1. agents'[agent].agent = agent
  BY DEF CreateAgent, HaveAgentsInv, AgentTypeOK
<1>2. \A other \in AgentKeys : other # agent => agents'[other] = agents[other]
  BY DEF CreateAgent, HaveAgentsInv, AgentTypeOK
<1>3. OwnedAgentsAreRegistered'
  BY <1>1, <1>2 DEF HaveAgentsInv, OwnedAgentsAreRegistered
<1>4. ASSUME NEW id \in ProposalIds, proposals'[id].isActive, proposals'[id].issuer # ZeroAddress
      PROVE  agents'[proposals'[id].issuer].agent # ZeroAddress
  <2>1. CASE proposals'[id].issuer = agent
    BY <1>1, <1>4, <2>1
  <2>2. CASE proposals'[id].issuer # agent
    <3>1. proposals'[id] = proposals[id]
      BY <2>2
    <3>2. proposals[id].issuer \in AgentKeys
      BY DEF HaveAgentsInv, AgentTypeOK, ServiceProposal
    <3>3. QED
      BY <1>2, <1>4, <2>2, <3>1, <3>2 DEF HaveAgentsInv, ProposalsHaveAgents, IsAgent
  <2>3. QED
    BY <2>1, <2>2
<1>5. QED
  BY <1>3, <1>4 DEF ProposalsHaveAgents, IsAgent

\* Each call for one agent keeps every active proposal with its agent.
LEMMA AgentStepKeepsAgents ==
  ASSUME HaveAgentsInv, NEW sender \in Accounts, NEW agent \in AgentAddresses,
         AgentStep(sender, agent)
  PROVE  OwnedAgentsAreRegistered' /\ ProposalsHaveAgents'
<1>0. agent \in AgentKeys /\ AgentTypeOK
  BY DEF AgentKeys, HaveAgentsInv
<1>1. ASSUME NEW metadata \in Metadata, RegisterAgent(sender, agent, metadata)
      PROVE  OwnedAgentsAreRegistered' /\ ProposalsHaveAgents'
  <2>1. CreateAgent(agent, metadata, sender, 0) /\ proposals' = proposals
    BY <1>1 DEF RegisterAgent
  <2>2. QED
    BY <1>0, <2>1, CreateAgentKeepsAgents
<1>2. ASSUME NEW metadata \in Metadata, NEW name \in AllNames, NEW price \in Prices,
             NEW token \in TokenAddresses,
             RegisterAgentWithService(sender, agent, metadata, name, price, token)
      PROVE  OwnedAgentsAreRegistered' /\ ProposalsHaveAgents'
  <2>1. /\ CreateAgent(agent, metadata, sender, 0)
        /\ CreateProposals(agent, <<Listing(name, price, token)>>)
    BY <1>2 DEF RegisterAgentWithService
  <2>2. QED
    BY <1>0, <2>1, CreatedProposals, CreateAgentKeepsAgents
<1>3. ASSUME NEW name \in AllNames, NEW price \in Prices, NEW token \in TokenAddresses,
             AddProposal(sender, agent, name, price, token)
      PROVE  OwnedAgentsAreRegistered' /\ ProposalsHaveAgents'
  <2>1. agents[agent].owner = sender /\ agents' = agents
    BY <1>3 DEF AddProposal, OwnsAgent
  <2>2. agents[agent].agent = agent
    BY <1>0, <2>1, ServiceConstants DEF HaveAgentsInv, OwnedAgentsAreRegistered
  <2>3. ASSUME NEW id \in ProposalIds, proposals'[id] # proposals[id]
        PROVE  proposals'[id].issuer = agent
    BY <1>0, <1>3, <2>3, CreatedProposals DEF AddProposal
  <2>4. QED
    BY <2>1, <2>2, <2>3 DEF HaveAgentsInv, OwnedAgentsAreRegistered, ProposalsHaveAgents, IsAgent
<1>4. ASSUME NEW id \in ProposalIds, RemoveProposal(sender, agent, id)
      PROVE  OwnedAgentsAreRegistered' /\ ProposalsHaveAgents'
  BY <1>0, <1>4 DEF RemoveProposal, HaveAgentsInv, OwnedAgentsAreRegistered, ProposalsHaveAgents,
     IsAgent, NoProposal, AgentTypeOK
<1>5. CASE MigrateAgent(sender, agent)
  <2>1. PICK listings \in Seq(ListingType) : CreateProposals(agent, listings)
    BY <1>5, MigrationListings
  <2>2. CreateAgent(agent, V1Agents[agent].metadata, V1Agents[agent].owner,
                    V1Agents[agent].reputation)
    BY <1>5 DEF MigrateAgent
  <2>3. QED
    BY <1>0, <2>1, <2>2, CreatedProposals, CreateAgentKeepsAgents
<1>6. ASSUME NEW metadata \in Metadata, SetAgentData(sender, agent, metadata)
      PROVE  OwnedAgentsAreRegistered' /\ ProposalsHaveAgents'
  <2>1. KeepsAgents
    BY <1>0, <1>6 DEF SetAgentData, KeepsAgents, AgentTypeOK, AgentData
  <2>2. Withdraws
    BY <1>0, <1>6, NothingWithdrawn DEF SetAgentData
  <2>3. QED
    BY <2>1, <2>2, WithdrawKeepsAgents
<1>7. CASE RemoveAgent(sender, agent)
  <2>1. /\ proposals' = [id \in ProposalIds |->
                           IF id \in ProposalsOf(agent) THEN NoProposal ELSE proposals[id]]
        /\ agents' = [agents EXCEPT ![agent] = NoAgent]
    BY <1>7 DEF RemoveAgent
  <2>2. OwnedAgentsAreRegistered'
    BY <1>0, <2>1 DEF HaveAgentsInv, OwnedAgentsAreRegistered, NoAgent, AgentTypeOK
  <2>3. ASSUME NEW id \in ProposalIds, proposals'[id].isActive, proposals'[id].issuer # ZeroAddress
        PROVE  agents'[proposals'[id].issuer].agent # ZeroAddress
    <3>1. id \notin ProposalsOf(agent) /\ proposals'[id] = proposals[id]
      BY <2>1, <2>3 DEF NoProposal
    <3>2. id \in 1 .. nextProposalId - 1
      BY <1>0, <2>3, <3>1, AgentConstants
         DEF HaveAgentsInv, InactiveIsEmpty, ProposalIds, AgentTypeOK
    <3>3. proposals[id].issuer # agent /\ proposals[id].issuer \in AgentKeys
      BY <1>0, <2>3, <3>1, <3>2 DEF ProposalsOf, AgentTypeOK, ServiceProposal
    <3>4. QED
      BY <1>0, <2>1, <2>3, <3>1, <3>3
         DEF HaveAgentsInv, ProposalsHaveAgents, IsAgent, AgentTypeOK
  <2>4. QED
    BY <2>2, <2>3 DEF ProposalsHaveAgents, IsAgent
<1>8. QED
  BY <1>1, <1>2, <1>3, <1>4, <1>5, <1>6, <1>7 DEF AgentStep

\* The invariant that makes ProposalsHaveAgents inductive survives every
\* transaction on the two registries.
LEMMA HaveAgentsStep == HaveAgentsInv /\ [RegistryNext]_registryVars => HaveAgentsInv'
<1>1. ASSUME HaveAgentsInv, RegistryNext
      PROVE  OwnedAgentsAreRegistered' /\ ProposalsHaveAgents'
  <2>0. AgentTypeOK
    BY <1>1 DEF HaveAgentsInv
  <2>1. ASSUME NEW sender \in Accounts, NEW agent \in AgentAddresses, AgentStep(sender, agent)
        PROVE  OwnedAgentsAreRegistered' /\ ProposalsHaveAgents'
    BY <1>1, <2>1, AgentStepKeepsAgents
  <2>2. ASSUME NEW sender \in Accounts, OwnerStep(sender) \/ DirectRating(sender)
        PROVE  KeepsAgents /\ UNCHANGED <<proposals, nextProposalId>>
    <3>1. CASE OwnerStep(sender)
      BY <3>1 DEF OwnerStep, SetTaskRegistry, SetServiceRegistry, PassRegistryOwnership, KeepsAgents
    <3>2. CASE DirectRating(sender)
      BY <2>0, <3>2, RatingKeepsAgents DEF DirectRating, AddRating
    <3>3. QED
      BY <2>2, <3>1, <3>2
  <2>3. ASSUME ServiceNext, UNCHANGED agentVars
        PROVE  KeepsAgents /\ UNCHANGED <<proposals, nextProposalId>>
    BY <2>3 DEF agentVars, KeepsAgents
  <2>4. QED
    BY <1>1, <2>0, <2>1, <2>2, <2>3, NothingWithdrawn, WithdrawKeepsAgents DEF RegistryNext
<1>2. ASSUME HaveAgentsInv, RegistryNext
      PROVE  AgentTypeOK' /\ InactiveIsEmpty'
  BY <1>2, RegistryStepType, InactiveIsEmptyStep DEF HaveAgentsInv
<1>3. ASSUME HaveAgentsInv, UNCHANGED registryVars
      PROVE  HaveAgentsInv'
  BY <1>3, RegistryStutterType DEF HaveAgentsInv, InactiveIsEmpty, OwnedAgentsAreRegistered,
     ProposalsHaveAgents, IsAgent, registryVars, agentVars
<1>4. QED
  BY <1>1, <1>2, <1>3 DEF HaveAgentsInv

\* No active proposal is ever without its agent.
THEOREM EveryProposalHasAnAgent == RegistrySpec => []ProposalsHaveAgents
<1>1. AgentInit => HaveAgentsInv
  BY AgentInitType, InactiveIsEmptyInit DEF AgentInit, HaveAgentsInv, OwnedAgentsAreRegistered,
     ProposalsHaveAgents, NoAgent, NoProposal
<1>2. HaveAgentsInv => ProposalsHaveAgents
  BY DEF HaveAgentsInv
<1>3. QED
  BY <1>1, <1>2, HaveAgentsStep, PTL DEF RegistrySpec

-----------------------------------------------------------------------------
(* Reputations stay on the scale.                                           *)

\* One rating keeps every reputation within the scale.
LEMMA RatingBounded ==
  ASSUME AgentTypeOK, ReputationBounded, NEW sender, NEW agent \in AgentKeys,
         NEW rating \in Nat, RatingAdded(sender, agent, rating)
  PROVE  ReputationBounded'
<1> DEFINE old == agents[agent]
<1>1. old.reputation \in Nat /\ old.totalRatings \in Nat
  BY DEF AgentTypeOK, AgentData
<1>2. rating <= MaxRating /\ old.reputation <= MaxRating
  BY DEF RatingAdded, ReputationBounded
<1>3. Averaged(old.reputation, old.totalRatings, rating) <= MaxRating
  BY <1>1, <1>2, AveragedInScale
<1>4. agents'[agent].reputation = Averaged(old.reputation, old.totalRatings + 1 - 1, rating)
  BY DEF RatingAdded, AgentTypeOK, AgentData
<1>5. old.totalRatings + 1 - 1 = old.totalRatings
  BY <1>1
<1>6. \A other \in AgentKeys : other # agent => agents'[other] = agents[other]
  BY DEF RatingAdded, AgentTypeOK
<1>7. QED
  BY <1>3, <1>4, <1>5, <1>6 DEF ReputationBounded

\* Every transaction does: registration starts at 0, migration copies a
\* reputation of the V1 registry, and only addRating computes one.
LEMMA ReputationBoundedStep ==
  ASSUME AgentTypeOK, ReputationBounded, RegistryNext
  PROVE  ReputationBounded'
<1> USE DEF ReputationBounded
<1>1. ASSUME NEW sender \in Accounts, NEW agent \in AgentAddresses, AgentStep(sender, agent)
      PROVE  ReputationBounded'
  <2>0. agent \in AgentKeys
    BY DEF AgentKeys
  <2>1. ASSUME NEW metadata, NEW owner, NEW reputation \in 0 .. MaxRating,
               CreateAgent(agent, metadata, owner, reputation)
        PROVE  ReputationBounded'
    BY <2>0, <2>1 DEF CreateAgent, AgentTypeOK, MaxRating
  <2>2. 0 \in 0 .. MaxRating
    BY DEF MaxRating
  <2>3. ASSUME NEW metadata \in Metadata, RegisterAgent(sender, agent, metadata)
        PROVE  ReputationBounded'
    BY <2>1, <2>2, <2>3 DEF RegisterAgent
  <2>4. ASSUME NEW metadata \in Metadata, NEW name \in AllNames, NEW price \in Prices,
               NEW token \in TokenAddresses,
               RegisterAgentWithService(sender, agent, metadata, name, price, token)
        PROVE  ReputationBounded'
    BY <2>1, <2>2, <2>4 DEF RegisterAgentWithService
  <2>5. ASSUME NEW name \in AllNames, NEW price \in Prices, NEW token \in TokenAddresses,
               AddProposal(sender, agent, name, price, token)
        PROVE  ReputationBounded'
    BY <2>5 DEF AddProposal
  <2>6. ASSUME NEW id \in ProposalIds, RemoveProposal(sender, agent, id)
        PROVE  ReputationBounded'
    BY <2>6 DEF RemoveProposal
  <2>7. CASE MigrateAgent(sender, agent)
    <3>1. V1Agents[agent].reputation \in 0 .. MaxRating
      BY <2>0, AgentConstants DEF V1Agent
    <3>2. QED
      BY <2>1, <2>7, <3>1 DEF MigrateAgent
  <2>8. ASSUME NEW metadata \in Metadata, SetAgentData(sender, agent, metadata)
        PROVE  ReputationBounded'
    BY <2>0, <2>8 DEF SetAgentData, AgentTypeOK, AgentData
  <2>9. CASE RemoveAgent(sender, agent)
    BY <2>0, <2>9 DEF RemoveAgent, NoAgent, AgentTypeOK, MaxRating
  <2>10. QED
    BY <1>1, <2>3, <2>4, <2>5, <2>6, <2>7, <2>8, <2>9 DEF AgentStep
<1>2. ASSUME NEW sender \in Accounts, OwnerStep(sender)
      PROVE  ReputationBounded'
  BY <1>2 DEF OwnerStep, SetTaskRegistry, SetServiceRegistry, PassRegistryOwnership
<1>3. ASSUME NEW sender \in Accounts, DirectRating(sender)
      PROVE  ReputationBounded'
  BY <1>3, RatingBounded, AgentConstants DEF DirectRating, AddRating
<1>4. CASE ServiceNext /\ UNCHANGED agentVars
  BY <1>4 DEF agentVars
<1>5. QED
  BY <1>1, <1>2, <1>3, <1>4 DEF RegistryNext

\* No reputation leaves 0 .. 100, for any number and order of ratings.
THEOREM ReputationStaysBounded == RegistrySpec => []ReputationBounded
<1>1. AgentInit => ReputationBounded
  BY DEF AgentInit, ReputationBounded, NoAgent, MaxRating
<1>2. AgentTypeOK /\ ReputationBounded /\ [RegistryNext]_registryVars => ReputationBounded'
  BY ReputationBoundedStep DEF ReputationBounded, registryVars, agentVars
<1>3. QED
  BY <1>1, <1>2, AgentTypeCorrect, PTL DEF RegistrySpec
-----------------------------------------------------------------------------
(* The owners of agents.                                                    *)

\* Every call for one agent leaves a registered agent with its owner, or
\* removes it: the three calls that write an owner refuse registered agents.
LEMMA AgentStepKeepsOwners ==
  ASSUME AgentTypeOK, NEW sender \in Accounts, NEW agent \in AgentAddresses,
         AgentStep(sender, agent), NEW other \in AgentKeys, IsAgent(other)
  PROVE  agents'[other].owner \in {agents[other].owner, ZeroAddress}
<1>0. agent \in AgentKeys
  BY DEF AgentKeys
<1>1. ASSUME NEW metadata, NEW owner, NEW reputation, ~IsAgent(agent),
             CreateAgent(agent, metadata, owner, reputation)
      PROVE  agents'[other].owner = agents[other].owner
  BY <1>1 DEF CreateAgent, AgentTypeOK
<1>2. ASSUME NEW metadata \in Metadata, RegisterAgent(sender, agent, metadata)
      PROVE  agents'[other].owner = agents[other].owner
  BY <1>1, <1>2 DEF RegisterAgent
<1>3. ASSUME NEW metadata \in Metadata, NEW name \in AllNames, NEW price \in Prices,
             NEW token \in TokenAddresses,
             RegisterAgentWithService(sender, agent, metadata, name, price, token)
      PROVE  agents'[other].owner = agents[other].owner
  BY <1>1, <1>3 DEF RegisterAgentWithService
<1>4. ASSUME NEW name \in AllNames, NEW price \in Prices, NEW token \in TokenAddresses,
             AddProposal(sender, agent, name, price, token)
      PROVE  agents'[other].owner = agents[other].owner
  BY <1>4 DEF AddProposal
<1>5. ASSUME NEW id \in ProposalIds, RemoveProposal(sender, agent, id)
      PROVE  agents'[other].owner = agents[other].owner
  BY <1>5 DEF RemoveProposal
<1>6. CASE MigrateAgent(sender, agent)
  BY <1>1, <1>6 DEF MigrateAgent
<1>7. ASSUME NEW metadata \in Metadata, SetAgentData(sender, agent, metadata)
      PROVE  agents'[other].owner = agents[other].owner
  BY <1>0, <1>7 DEF SetAgentData, AgentTypeOK, AgentData
<1>8. CASE RemoveAgent(sender, agent)
  BY <1>0, <1>8 DEF RemoveAgent, NoAgent, AgentTypeOK
<1>9. QED
  BY <1>2, <1>3, <1>4, <1>5, <1>6, <1>7, <1>8 DEF AgentStep

\* A registered agent keeps its owner until it is removed.
THEOREM AgentsStayWithTheirOwners == RegistrySpec => AgentsAreNotTakenOver
<1>1. ASSUME AgentTypeOK, RegistryNext, NEW agent \in AgentKeys, IsAgent(agent)
      PROVE  agents'[agent].owner \in {agents[agent].owner, ZeroAddress}
  <2>1. ASSUME NEW sender \in Accounts, OwnerStep(sender)
        PROVE  agents' = agents
    BY <2>1 DEF OwnerStep, SetTaskRegistry, SetServiceRegistry, PassRegistryOwnership
  <2>2. ASSUME NEW sender \in Accounts, DirectRating(sender)
        PROVE  agents'[agent].owner = agents[agent].owner
    BY <1>1, <2>2, RatingKeepsAgents DEF DirectRating, AddRating, KeepsAgents
  <2>3. CASE ServiceNext /\ UNCHANGED agentVars
    BY <2>3 DEF agentVars
  <2>4. QED
    BY <1>1, <2>1, <2>2, <2>3, AgentStepKeepsOwners DEF RegistryNext
<1>2. AgentTypeOK /\ [RegistryNext]_registryVars
        => [\A agent \in AgentKeys :
              IsAgent(agent) =>
                agents'[agent].owner \in {agents[agent].owner, ZeroAddress}]_registryVars
  BY <1>1
<1>3. QED
  BY <1>2, AgentTypeCorrect, PTL DEF RegistrySpec, AgentsAreNotTakenOver

-----------------------------------------------------------------------------
(* The catalogue.                                                           *)

\* A service is stored under its own name.
WellNamed ==
  \A r \in Registries : \A name \in Names : services[r][name].name \in {EmptyName, name}

\* What a transaction may do to the catalogues: add services that are missing
\* in one of them, change the details of one service by its owner, or nothing.
AddsServices ==
  /\ \E r \in Registries : \E new \in SUBSET Names : \E details :
       /\ new \cap Registered(r) = {}
       /\ StoreServices(r, new, details)
  /\ UNCHANGED serviceOwner
ChangesService ==
  \E r \in Registries : \E name \in Names : \E details :
    /\ serviceOwner[r] # ZeroAddress
    /\ IsRegistered(r, name)
    /\ services' = [services EXCEPT ![r][name] = [name |-> name, details |-> details]]
    /\ UNCHANGED serviceCount

\* The services a migration brings over are missing ones, with names.
LEMMA MigrationAddsServices ==
  ASSUME NEW agent \in AgentAddresses, AgentTypeOK, EnsureServices(agent)
  PROVE  AddsServices
<1>1. V1Missing(agent) \in SUBSET Names
  BY AgentConstants DEF V1Missing, V1Live, V1Proposal, AgentKeys
<1>2. V1Missing(agent) \cap Registered(serviceRegistry) = {}
  BY DEF V1Missing
<1>3. QED
  BY <1>1, <1>2 DEF EnsureServices, AddsServices, AgentTypeOK

\* Every transaction does one of these.
LEMMA CatalogueSteps ==
  ASSUME AgentTypeOK, RegistryNext
  PROVE  AddsServices \/ ChangesService \/ UNCHANGED <<services, serviceCount>>
<1>1. ASSUME NEW sender \in Accounts, NEW agent \in AgentAddresses, AgentStep(sender, agent)
      PROVE  AddsServices \/ UNCHANGED <<services, serviceCount>>
  <2>1. CASE MigrateAgent(sender, agent)
    BY <2>1, MigrationAddsServices DEF MigrateAgent
  <2>2. CASE ~MigrateAgent(sender, agent)
    BY <1>1, <2>2 DEF AgentStep, RegisterAgent, RegisterAgentWithService, AddProposal,
       RemoveProposal, SetAgentData, RemoveAgent, serviceVars
  <2>3. QED
    BY <2>1, <2>2
<1>2. ASSUME NEW sender \in Accounts, OwnerStep(sender) \/ DirectRating(sender)
      PROVE  UNCHANGED <<services, serviceCount>>
  BY <1>2 DEF OwnerStep, DirectRating, SetTaskRegistry, SetServiceRegistry,
     PassRegistryOwnership, AddRating, serviceVars
<1>3. ASSUME NEW r \in Registries, NEW name \in Names \cup {EmptyName}, NEW details \in Details,
             RegisterService(r, name, details)
      PROVE  AddsServices
  <2>1. {name} \in SUBSET Names /\ {name} \cap Registered(r) = {}
    BY <1>3 DEF RegisterService, ValidName, Registered
  <2>2. QED
    BY <1>3, <2>1 DEF RegisterService, AddsServices
<1>4. ASSUME NEW r \in Registries, NEW sender \in Accounts,
             NEW name \in Names \cup {EmptyName}, NEW details \in Details,
             UpdateService(r, sender, name, details)
      PROVE  ChangesService
  BY <1>4, ServiceConstants DEF UpdateService, ValidName, ChangesService
<1>5. ASSUME NEW r \in Registries, NEW sender \in Accounts,
             NEW heir \in Heirs \cup {ZeroAddress}, PassServiceOwnership(r, sender, heir)
      PROVE  UNCHANGED <<services, serviceCount>>
  BY <1>5 DEF PassServiceOwnership
<1>6. QED
  BY <1>1, <1>2, <1>3, <1>4, <1>5 DEF RegistryNext, ServiceNext

\* What was registered stays so.
LEMMA RegisteredStays ==
  ASSUME AgentTypeOK, RegistryNext, NEW r \in Registries, NEW name \in Registered(r)
  PROVE  name \in Registered(r)'
<1>0. name \in Names /\ services[r][name].name # EmptyName /\ EmptyName \notin Names
  BY ServiceConstants DEF Registered, IsRegistered
<1>1. CASE AddsServices
  BY <1>0, <1>1 DEF AddsServices, StoreServices, Registered, IsRegistered, AgentTypeOK,
     ServiceTypeOK
<1>2. CASE ChangesService
  BY <1>0, <1>2 DEF ChangesService, Registered, IsRegistered, AgentTypeOK, ServiceTypeOK
<1>3. CASE UNCHANGED <<services, serviceCount>>
  BY <1>0, <1>3 DEF Registered, IsRegistered
<1>4. QED
  BY <1>1, <1>2, <1>3, CatalogueSteps

\* Services stay under their own names.
LEMMA WellNamedStep ==
  ASSUME AgentTypeOK, WellNamed, RegistryNext
  PROVE  WellNamed'
<1>1. CASE AddsServices
  BY <1>1 DEF AddsServices, StoreServices, WellNamed, AgentTypeOK, ServiceTypeOK
<1>2. CASE ChangesService
  BY <1>2 DEF ChangesService, WellNamed, AgentTypeOK, ServiceTypeOK
<1>3. CASE UNCHANGED <<services, serviceCount>>
  BY <1>3 DEF WellNamed
<1>4. QED
  BY <1>1, <1>2, <1>3, CatalogueSteps

\* A registered name stays registered, in every registry at once, and nothing
\* changes it any more once its registry has no owner.
THEOREM ServicesStay == RegistrySpec => ServicesPersist
<1>1. ASSUME AgentTypeOK, WellNamed, RegistryNext,
             NEW r \in Registries, NEW name \in Registered(r)
      PROVE  /\ services'[r][name].name = name
             /\ serviceOwner[r] = ZeroAddress => services'[r][name] = services[r][name]
  <2>0. name \in Names /\ services[r][name].name = name
    BY <1>1 DEF Registered, IsRegistered, WellNamed
  <2>1. CASE AddsServices
    BY <1>1, <2>0, <2>1 DEF AddsServices, StoreServices, AgentTypeOK, ServiceTypeOK
  <2>2. CASE ChangesService
    BY <1>1, <2>0, <2>2 DEF ChangesService, AgentTypeOK, ServiceTypeOK
  <2>3. CASE UNCHANGED <<services, serviceCount>>
    BY <2>0, <2>3
  <2>4. QED
    BY <1>1, <2>1, <2>2, <2>3, CatalogueSteps
<1>2. AgentInit => WellNamed
  BY DEF AgentInit, ServiceInit, WellNamed, NoService
<1>3. AgentTypeOK /\ WellNamed /\ [RegistryNext]_registryVars => WellNamed'
  BY WellNamedStep DEF WellNamed, registryVars, serviceVars
<1>4. AgentTypeOK /\ WellNamed /\ [RegistryNext]_registryVars
        => [\A r \in Registries : \A name \in Registered(r) :
              /\ services'[r][name].name = name
              /\ serviceOwner[r] = ZeroAddress =>
                   services'[r][name] = services[r][name]]_serviceVars
  BY <1>1 DEF registryVars
<1>5. QED
  BY <1>2, <1>3, <1>4, AgentTypeCorrect, PTL DEF RegistrySpec, ServicesPersist

\* Adding missing services moves the counter by as many.
LEMMA CountMatchesStep ==
  ASSUME AgentTypeOK, CountMatchesServices, RegistryNext
  PROVE  CountMatchesServices'
<1>0. SUFFICES ASSUME NEW r \in Registries
               PROVE  serviceCount'[r] = Cardinality(Registered(r)')
  BY DEF CountMatchesServices
<1>1. CASE AddsServices
  <2>1. PICK s \in Registries, new \in SUBSET Names : \E details :
          new \cap Registered(s) = {} /\ StoreServices(s, new, details)
    BY <1>1 DEF AddsServices
  <2>2. PICK details : StoreServices(s, new, details)
    BY <2>1
  <2>3. CASE r = s
    <3>1. Registered(r)' = Registered(r) \cup new
      BY <2>2, <2>3, ServiceConstants DEF StoreServices, Registered, IsRegistered, AgentTypeOK,
         ServiceTypeOK
    <3>2. IsFiniteSet(Registered(r)) /\ IsFiniteSet(new)
      BY ServiceConstants, FS_Subset DEF Registered
    <3>3. Cardinality(Registered(r) \cup new) = Cardinality(Registered(r)) + Cardinality(new)
      <4>1. Cardinality(Registered(r) \cap new) = 0
        BY <2>1, <2>3, FS_EmptySet
      <4>2. Cardinality(Registered(r)) \in Nat /\ Cardinality(new) \in Nat
        BY <3>2, FS_CardinalityType
      <4>3. Cardinality(Registered(r) \cup new)
              = Cardinality(Registered(r)) + Cardinality(new) - Cardinality(Registered(r) \cap new)
        BY <3>2, FS_Union
      <4>4. \A a, b \in Nat : a + b - 0 = a + b
        OBVIOUS
      <4>5. QED
        BY <4>1, <4>2, <4>3, <4>4
    <3>4. serviceCount'[r] = serviceCount[r] + Cardinality(new)
      BY <2>2, <2>3 DEF StoreServices, AgentTypeOK, ServiceTypeOK
    <3>5. QED
      BY <3>1, <3>3, <3>4 DEF CountMatchesServices
  <2>4. CASE r # s
    <3>1. services'[r] = services[r] /\ serviceCount'[r] = serviceCount[r]
      BY <2>2, <2>4 DEF StoreServices, AgentTypeOK, ServiceTypeOK
    <3>2. QED
      BY <3>1 DEF CountMatchesServices, Registered, IsRegistered
  <2>5. QED
    BY <2>3, <2>4
<1>2. CASE ChangesService
  <2>1. Registered(r)' = Registered(r)
    BY <1>2, ServiceConstants DEF ChangesService, Registered, IsRegistered, AgentTypeOK,
       ServiceTypeOK
  <2>2. QED
    BY <1>2, <2>1 DEF ChangesService, CountMatchesServices
<1>3. CASE UNCHANGED <<services, serviceCount>>
  BY <1>3 DEF CountMatchesServices, Registered, IsRegistered
<1>4. QED
  BY <1>1, <1>2, <1>3, CatalogueSteps

\* The counter is the number of registered names, migrations included.
THEOREM CountIsExact == RegistrySpec => []CountMatchesServices
<1>1. AgentInit => CountMatchesServices
  <2>1. ASSUME AgentInit, NEW r \in Registries
        PROVE  Registered(r) = {} /\ serviceCount[r] = 0
    BY <2>1 DEF AgentInit, ServiceInit, Registered, IsRegistered, NoService
  <2>2. QED
    BY <2>1, FS_EmptySet DEF CountMatchesServices
<1>2. AgentTypeOK /\ CountMatchesServices /\ [RegistryNext]_registryVars
        => CountMatchesServices'
  BY CountMatchesStep DEF CountMatchesServices, Registered, IsRegistered, registryVars, serviceVars
<1>3. QED
  BY <1>1, <1>2, AgentTypeCorrect, PTL DEF RegistrySpec

\* Whoever lists a proposal names a service that is registered by then.
LEMMA ListedServices ==
  ASSUME AgentTypeOK, RegistryNext, NEW id \in ProposalIds,
         proposals'[id].isActive, proposals'[id] # proposals[id]
  PROVE  \E r \in Registries : proposals'[id].serviceName \in Registered(r)'
<1> DEFINE Named(listings) ==
      \A k \in 1 .. Len(listings) :
        \E r \in Registries : listings[k].serviceName \in Registered(r)'
<1>1. ASSUME NEW agent \in AgentKeys, NEW listings \in Seq(ListingType),
             CreateProposals(agent, listings), Named(listings)
      PROVE  \E r \in Registries : proposals'[id].serviceName \in Registered(r)'
  <2>1. Len(listings) \in Nat /\ nextProposalId \in Nat /\ id \in Nat
    BY AgentConstants DEF AgentTypeOK, ProposalIds
  <2>2. id \in nextProposalId .. nextProposalId + Len(listings) - 1
    BY <1>1 DEF CreateProposals
  <2>3. id - nextProposalId + 1 \in 1 .. Len(listings)
    BY <2>1, <2>2
  <2>4. proposals'[id].serviceName = listings[id - nextProposalId + 1].serviceName
    BY <1>1, <2>2 DEF CreateProposals
  <2>5. QED
    BY <1>1, <2>3, <2>4
<1>2. ASSUME NEW agent \in AgentAddresses, NEW name \in AllNames, NEW price \in Prices,
             NEW token \in TokenAddresses, ServiceListed(name),
             CreateProposals(agent, <<Listing(name, price, token)>>)
      PROVE  \E r \in Registries : proposals'[id].serviceName \in Registered(r)'
  <2>1. agent \in AgentKeys /\ <<Listing(name, price, token)>> \in Seq(ListingType)
    BY OneListing DEF AgentKeys
  <2>2. PICK s \in Registries : name \in Registered(s)
    BY <1>2 DEF ServiceListed, ValidName, Registered, AllNames, AgentTypeOK
  <2>3. name \in Registered(s)'
    BY <2>2, RegisteredStays
  <2>4. Named(<<Listing(name, price, token)>>)
    <3>1. /\ Len(<<Listing(name, price, token)>>) = 1
          /\ <<Listing(name, price, token)>>[1].serviceName = name
      BY DEF Listing
    <3>2. QED
      BY <2>3, <3>1
  <2>5. QED
    BY <1>1, <1>2, <2>1, <2>4
<1>3. ASSUME NEW sender \in Accounts, NEW agent \in AgentAddresses, MigrateAgent(sender, agent)
      PROVE  \E r \in Registries : proposals'[id].serviceName \in Registered(r)'
  <2> DEFINE live == V1Live(agent)
             n == Cardinality(live)
             ListingsBy(order) ==
               [k \in 1 .. n |-> Listing(V1Proposals[order[k]].serviceName,
                                         V1Proposals[order[k]].price, ZeroAddress)]
  <2>1. PICK order \in Ascending(live) : CreateProposals(agent, ListingsBy(order))
    BY <1>3 DEF MigrateAgent
  <2>2. order \in [1 .. n -> live] /\ n \in Nat
    BY V1LiveFinite DEF Ascending
  <2>3. \A i \in live : V1Proposals[i] \in V1Proposal
    BY AgentConstants DEF V1Live
  <2>4. ListingsBy(order) \in Seq(ListingType)
    <3>1. \A k \in 1 .. n : ListingsBy(order)[k] \in ListingType
      BY <2>2, <2>3 DEF V1Proposal, Listing, ListingType, AllNames
    <3>2. QED
      BY <2>2, <3>1
  <2>5. ASSUME NEW i \in live
        PROVE  \E r \in Registries : V1Proposals[i].serviceName \in Registered(r)'
    <3> DEFINE name == V1Proposals[i].serviceName
    <3>1. PICK s \in Registries : s = serviceRegistry
      BY DEF AgentTypeOK
    <3>2. CASE name \in Registered(s)
      BY <3>1, <3>2, RegisteredStays
    <3>3. CASE name \notin Registered(s)
      <4>1. name \in Names /\ name \in V1Missing(agent)
        BY <2>3, <3>1, <3>3 DEF V1Missing, V1Proposal
      <4>2. services'[s][name].name = name
        BY <1>3, <3>1, <4>1 DEF MigrateAgent, EnsureServices, StoreServices, AgentTypeOK,
           ServiceTypeOK
      <4>3. QED
        BY <3>1, <4>1, <4>2, ServiceConstants DEF Registered, IsRegistered
    <3>4. QED
      BY <3>2, <3>3
  <2>6. Named(ListingsBy(order))
    <3>1. \A k \in 1 .. n : ListingsBy(order)[k].serviceName = V1Proposals[order[k]].serviceName
      BY DEF Listing
    <3>2. Len(ListingsBy(order)) = n
      BY <2>2
    <3>3. ASSUME NEW k \in 1 .. n
          PROVE  \E r \in Registries : V1Proposals[order[k]].serviceName \in Registered(r)'
      <4>1. PICK i \in live : i = order[k]
        BY <2>2
      <4>2. QED
        BY <2>5, <4>1
    <3>4. QED
      BY <3>1, <3>2, <3>3
  <2>7. agent \in AgentKeys
    BY DEF AgentKeys
  <2>8. QED
    BY <1>1, <2>1, <2>4, <2>6, <2>7
<1>4. ASSUME NEW sender \in Accounts, NEW agent \in AgentAddresses, AgentStep(sender, agent)
      PROVE  \E r \in Registries : proposals'[id].serviceName \in Registered(r)'
  <2>1. CASE \E old \in ProposalIds : RemoveProposal(sender, agent, old)
    BY <2>1 DEF RemoveProposal, NoProposal, AgentTypeOK
  <2>2. CASE RemoveAgent(sender, agent)
    BY <2>2 DEF RemoveAgent, NoProposal, AgentTypeOK
  <2>3. QED
    BY <1>2, <1>3, <1>4, <2>1, <2>2 DEF AgentStep, RegisterAgent, RegisterAgentWithService,
       AddProposal, SetAgentData
<1>5. ~\E sender \in Accounts : OwnerStep(sender) \/ DirectRating(sender)
  BY DEF OwnerStep, DirectRating, SetTaskRegistry, SetServiceRegistry, PassRegistryOwnership,
     AddRating
<1>6. ~UNCHANGED agentVars
  BY DEF agentVars
<1>7. QED
  BY <1>4, <1>5, <1>6 DEF RegistryNext

\* The service of an active proposal is registered somewhere, whatever the
\* owner does with the registry in use.
THEOREM EveryProposalHasAService == RegistrySpec => []ProposalsHaveServices
<1>1. AgentInit => ProposalsHaveServices
  BY DEF AgentInit, ProposalsHaveServices, NoProposal
<1>2. ASSUME AgentTypeOK, ProposalsHaveServices, RegistryNext
      PROVE  ProposalsHaveServices'
  <2>1. SUFFICES ASSUME NEW id \in ProposalIds, proposals'[id].isActive
                 PROVE  \E r \in Registries : proposals'[id].serviceName \in Registered(r)'
    BY DEF ProposalsHaveServices
  <2>2. CASE proposals'[id] = proposals[id]
    BY <1>2, <2>1, <2>2, RegisteredStays DEF ProposalsHaveServices
  <2>3. CASE proposals'[id] # proposals[id]
    BY <1>2, <2>1, <2>3, ListedServices
  <2>4. QED
    BY <2>2, <2>3
<1>3. AgentTypeOK /\ ProposalsHaveServices /\ [RegistryNext]_registryVars
        => ProposalsHaveServices'
  BY <1>2 DEF ProposalsHaveServices, Registered, IsRegistered, registryVars, agentVars, serviceVars
<1>4. QED
  BY <1>1, <1>3, AgentTypeCorrect, PTL DEF RegistrySpec
-----------------------------------------------------------------------------
(* The index: types of events and entities.                                 *)

\* The events that registry handlers take.
RegistryTypes == {"ServiceRegistered", "ServiceUpdated", "AgentRegistered", "AgentDataUpdated",
                  "ReputationUpdated", "ProposalAdded"}

-----------------------------------------------------------------------------
(* The queue.                                                               *)

\* Emitted events join the queue.
LEMMA EmitType ==
  ASSUME NEW E, pending \in Seq(E), NEW events \in Seq(E), Emit(events)
  PROVE  pending' \in Seq(E)
BY DEF Emit

\* A handler takes the oldest event and leaves the others.
LEMMA HandlesType ==
  ASSUME NEW E, pending \in Seq(E), NEW type, Handles(type)
  PROVE  /\ Head(pending) \in E /\ Head(pending).type = type
         /\ pending' \in Seq(E)
BY DEF Handles

-----------------------------------------------------------------------------
(* The events of transactions.                                              *)

\* The events of an agent say what the contract has of it.
LEMMA AgentEventType ==
  ASSUME AgentTypeOK', NEW agent \in AgentKeys
  PROVE  /\ AgentRegistered(agent) \in RegistryEvent
         /\ ReputationUpdated(agent) \in RegistryEvent
         /\ agents'[agent].metadata \in Metadata => AgentDataUpdated(agent) \in RegistryEvent
<1>1. agents'[agent] \in AgentData
  BY DEF AgentTypeOK
<1>2. QED
  BY <1>1 DEF AgentData, AgentRegistered, ReputationUpdated, AgentDataUpdated, RegistryEvent

\* The events of a service say what the contract has of it.
LEMMA ServiceEventType ==
  ASSUME AgentTypeOK', NEW name \in Names, NEW type \in {"ServiceRegistered", "ServiceUpdated"}
  PROVE  ServiceEvent(type, name) \in RegistryEvent
<1>1. services'[IndexedServices][name] \in Service
  BY IndexConstants DEF AgentTypeOK, ServiceTypeOK
<1>2. QED
  BY <1>1 DEF Service, ServiceEvent, RegistryEvent

\* What the subgraph copies of a proposal.
LEMMA TermsShownType ==
  ASSUME NEW proposal \in ServiceProposal
  PROVE  TermsShown(proposal) \in ProposalTerms
BY DEF ServiceProposal, TermsShown, ProposalTerms

\* The ids from a counter up to a later one.
LEMMA CountingUp ==
  ASSUME NEW first \in Nat, NEW next \in Nat, next >= first
  PROVE  next - first \in Nat
OBVIOUS

\* Each of them lies below the later counter.
LEMMA CountedId ==
  ASSUME NEW first \in Nat, NEW next \in Nat, first >= 1,
         NEW k \in Nat, 1 <= k, NEW n, n = next - first, k <= n
  PROVE  /\ first + k - 1 \in Nat
         /\ first <= first + k - 1 /\ first + k - 1 < next
OBVIOUS

\* The proposals that a transaction adds are announced in their order.
LEMMA ProposalsAddedType ==
  ASSUME AgentTypeOK, AgentTypeOK', nextProposalId' >= nextProposalId
  PROVE  /\ ProposalsAdded \in Seq(RegistryEvent)
         /\ Len(ProposalsAdded) = nextProposalId' - nextProposalId
         /\ \A k \in 1 .. Len(ProposalsAdded) :
              ProposalsAdded[k] = ProposalAdded(nextProposalId + k - 1)
<1> DEFINE n == nextProposalId' - nextProposalId
           added == [k \in 1 .. n |-> ProposalAdded(nextProposalId + k - 1)]
<1>1. /\ nextProposalId \in Nat /\ nextProposalId >= 1
      /\ nextProposalId' \in Nat /\ nextProposalId' <= MaxProposals + 1
      /\ MaxProposals \in Nat /\ n \in Nat
  <2>1. nextProposalId \in 1 .. MaxProposals + 1
    BY DEF AgentTypeOK
  <2>2. nextProposalId' \in 1 .. MaxProposals + 1
    BY DEF AgentTypeOK
  <2>3. MaxProposals \in Nat
    BY AgentConstants
  <2>4. nextProposalId \in Nat /\ nextProposalId >= 1
    BY <2>1
  <2>5. nextProposalId' \in Nat /\ nextProposalId' <= MaxProposals + 1
    BY <2>2, <2>3
  <2>6. n \in Nat
    BY <2>4, <2>5, CountingUp
  <2>7. QED
    BY <2>3, <2>4, <2>5, <2>6
<1>2. ASSUME NEW k \in Nat, 1 <= k, k <= n
      PROVE  ProposalAdded(nextProposalId + k - 1) \in RegistryEvent
  <2>1. nextProposalId + k - 1 \in ProposalIds
    <3>1. nextProposalId + k - 1 \in Nat /\ nextProposalId + k - 1 >= 1
          /\ nextProposalId + k - 1 < nextProposalId'
      <4>1. n = nextProposalId' - nextProposalId
        OBVIOUS
      <4> HIDE DEF n
      <4>2. /\ nextProposalId + k - 1 \in Nat
            /\ nextProposalId <= nextProposalId + k - 1
            /\ nextProposalId + k - 1 < nextProposalId'
        BY <1>1, <1>2, <4>1, CountedId
      <4>3. QED
        BY <1>1, <4>2
    <3>2. QED
      BY <1>1, <3>1 DEF ProposalIds
  <2>2. TermsShown(proposals'[nextProposalId + k - 1]) \in ProposalTerms
    BY <2>1, TermsShownType DEF AgentTypeOK
  <2>3. QED
    BY <2>1, <2>2 DEF ProposalAdded, RegistryEvent
<1>3. ProposalsAdded = added
  BY DEF ProposalsAdded
<1> HIDE DEF n
<1>4. added \in Seq(RegistryEvent) /\ Len(added) = n
  BY <1>1, <1>2
<1>5. QED
  BY <1>1, <1>3, <1>4 DEF n

-----------------------------------------------------------------------------
(* The entities.                                                            *)

\* No entity is known before the first event.
LEMMA IndexInitType == IndexInit => EntityTypeOK /\ pending = <<>>
<1>1. TermsShown(NoProposal) \in ProposalTerms
  BY DEF TermsShown, NoProposal, ProposalTerms, AgentKeys, AllNames
<1>2. QED
  BY <1>1 DEF IndexInit, EntityTypeOK, NoServiceEntity, ServiceEntity, NoAgentEntity, AgentEntity,
       NoProposalEntity, ProposalEntity

\* The path that an agent entity is linked to is a content path, or none.
LEMMA LinkType ==
  ASSUME NEW metadata \in Metadata \cup {NoMetadata}, NEW content \in Contents \cup {NoContent},
         files \subseteq Contents
  PROVE  /\ Linked(content, metadata) \in Contents \cup {NoContent}
         /\ files \subseteq Opened(metadata) /\ Opened(metadata) \subseteq Contents
BY IndexConstants DEF Linked, Opened

\* The handlers of the registries' events.
LEMMA RegistryHandlerType ==
  ASSUME EntityTypeOK, NEW Others, pending \in Seq(RegistryEvent \cup Others),
         \A event \in Others : event.type \notin RegistryTypes, HandleRegistryEvent
  PROVE  EntityTypeOK' /\ pending' \in Seq(RegistryEvent \cup Others)
<1> DEFINE event == Head(pending)
<1>0. ASSUME NEW type \in RegistryTypes, Handles(type)
      PROVE  event \in RegistryEvent /\ event.type = type
             /\ pending' \in Seq(RegistryEvent \cup Others)
  BY <1>0, HandlesType
<1>1. CASE HandleServiceRegistered
  <2>1. event.name \in Names /\ event.details \in Details \cup {NoDetails}
    BY <1>0, <1>1 DEF HandleServiceRegistered, RegistryEvent, RegistryTypes
  <2>2. QED
    BY <1>0, <1>1, <2>1 DEF HandleServiceRegistered, EntityTypeOK, ServiceEntity, RegistryTypes
<1>2. CASE HandleServiceUpdated
  <2>1. event.name \in Names /\ event.details \in Details \cup {NoDetails}
    BY <1>0, <1>2 DEF HandleServiceUpdated, RegistryEvent, RegistryTypes
  <2>2. QED
    BY <1>0, <1>2, <2>1 DEF HandleServiceUpdated, EntityTypeOK, ServiceEntity, RegistryTypes
<1>3. CASE HandleAgentRegistered
  <2>1. /\ event.agent \in AgentKeys /\ event.owner \in Accounts \cup {ZeroAddress}
        /\ event.metadata \in Metadata \cup {NoMetadata}
    BY <1>0, <1>3 DEF HandleAgentRegistered, RegistryEvent, RegistryTypes
  <2> DEFINE linked == Linked(agentEntities[event.agent].content, event.metadata)
  <2>2. /\ linked \in Contents \cup {NoContent}
        /\ files \subseteq Opened(event.metadata) /\ Opened(event.metadata) \subseteq Contents
    BY <2>1, LinkType DEF EntityTypeOK, AgentEntity
  <2> HIDE DEF linked
  <2>3. /\ agentEntities' = [agentEntities EXCEPT ![event.agent] =
             [known |-> TRUE, metadata |-> event.metadata, owner |-> event.owner,
              reputation |-> 0, content |-> linked]]
        /\ files' = Opened(event.metadata) /\ Handles("AgentRegistered")
        /\ UNCHANGED <<serviceEntities, proposalEntities, ipfsMetadata>>
    BY <1>3 DEF HandleAgentRegistered, linked
  <2>4. QED
    BY <1>0, <2>1, <2>2, <2>3 DEF EntityTypeOK, AgentEntity, RegistryTypes
<1>4. CASE HandleUpdateReputation
  <2>1. event.agent \in AgentKeys /\ event.reputation \in Nat
    BY <1>0, <1>4 DEF HandleUpdateReputation, RegistryEvent, RegistryTypes
  <2>2. QED
    BY <1>0, <1>4, <2>1 DEF HandleUpdateReputation, EntityTypeOK, AgentEntity, RegistryTypes
<1>5. CASE HandleAgentDataUpdated
  <2>1. event.agent \in AgentKeys /\ event.metadata \in Metadata
    BY <1>0, <1>5 DEF HandleAgentDataUpdated, RegistryEvent, RegistryTypes
  <2>2. CASE agentEntities[event.agent].known
    <3>1. /\ Linked(agentEntities[event.agent].content, event.metadata) \in Contents \cup {NoContent}
          /\ files \subseteq Opened(event.metadata) /\ Opened(event.metadata) \subseteq Contents
      BY <2>1, LinkType DEF EntityTypeOK, AgentEntity
    <3> DEFINE agent == event.agent
               updated == [agentEntities[agent] EXCEPT
                             !.metadata = event.metadata,
                             !.content = Linked(@, event.metadata)]
    <3>2. /\ agentEntities' = [agentEntities EXCEPT ![agent] = updated]
          /\ files' = Opened(event.metadata)
      BY <1>5, <2>2 DEF HandleAgentDataUpdated
    <3>3. updated \in AgentEntity
      BY <2>1, <3>1 DEF EntityTypeOK, AgentEntity
    <3> HIDE DEF updated
    <3>4. agentEntities' \in [AgentKeys -> AgentEntity]
      BY <3>2, <3>3 DEF EntityTypeOK
    <3>5. UNCHANGED <<serviceEntities, proposalEntities, ipfsMetadata>>
          /\ Handles("AgentDataUpdated")
      BY <1>5 DEF HandleAgentDataUpdated
    <3>6. QED
      BY <1>0, <3>1, <3>2, <3>4, <3>5 DEF EntityTypeOK, RegistryTypes
  <2>3. CASE ~agentEntities[event.agent].known
    BY <1>0, <1>5, <2>3 DEF HandleAgentDataUpdated, EntityTypeOK, RegistryTypes
  <2>4. QED
    BY <2>2, <2>3
<1>6. CASE HandleProposalAdded
  <2>1. event.id \in ProposalIds /\ event.terms \in ProposalTerms
    BY <1>0, <1>6 DEF HandleProposalAdded, RegistryEvent, RegistryTypes
  <2>2. QED
    BY <1>0, <1>6, <2>1 DEF HandleProposalAdded, EntityTypeOK, ProposalEntity, RegistryTypes
<1>7. QED
  BY <1>1, <1>2, <1>3, <1>4, <1>5, <1>6 DEF HandleRegistryEvent

\* The handler of a file that was found.
LEMMA FileFoundType ==
  ASSUME EntityTypeOK, NEW content, HandleAgentMetadata(content)
  PROVE  EntityTypeOK' /\ UNCHANGED pending
BY DEF HandleAgentMetadata, EntityTypeOK
-----------------------------------------------------------------------------
(* What a queue of events says last.  Something that the contract has is     *)
(* followed when the last event about it says what is so, or when no event   *)
(* is about it any more and the entity shows it already.                     *)

Quiet(events, about) == \A k \in 1 .. Len(events) : events[k] \notin about

ToldLast(events, about, right) ==
  \E k \in 1 .. Len(events) :
    /\ events[k] \in right
    /\ \A j \in k + 1 .. Len(events) : events[j] \notin about

Followed(events, about, right, shown) ==
  ToldLast(events, about, right) \/ (Quiet(events, about) /\ shown)

\* The events of a queue and of what joins it.
LEMMA Joined ==
  ASSUME NEW E, NEW events \in Seq(E), NEW more \in Seq(E)
  PROVE  /\ Len(events) \in Nat /\ Len(more) \in Nat
         /\ Len(events \o more) = Len(events) + Len(more)
         /\ \A k \in 1 .. Len(events) : (events \o more)[k] = events[k]
         /\ \A k \in 1 .. Len(more) : (events \o more)[Len(events) + k] = more[k]
         /\ \A k \in 1 .. Len(events \o more) :
              k \in 1 .. Len(events) \/ k - Len(events) \in 1 .. Len(more)
OBVIOUS

\* Nothing said now leaves what was said before.
LEMMA JoinQuiet ==
  ASSUME NEW E, NEW events \in Seq(E), NEW more \in Seq(E), NEW about, NEW right, NEW shown,
         Quiet(more, about), Followed(events, about, right, shown)
  PROVE  Followed(events \o more, about, right, shown)
<1> DEFINE all == events \o more
<1>1. /\ Len(events) \in Nat /\ Len(more) \in Nat /\ Len(all) = Len(events) + Len(more)
      /\ \A k \in 1 .. Len(events) : all[k] = events[k]
      /\ \A k \in 1 .. Len(more) : all[Len(events) + k] = more[k]
      /\ \A k \in 1 .. Len(all) : k \in 1 .. Len(events) \/ k - Len(events) \in 1 .. Len(more)
  BY Joined
<1> HIDE DEF all
<1>2. ASSUME NEW k \in 1 .. Len(all), k \notin 1 .. Len(events)
      PROVE  all[k] \notin about
  <2>1. k - Len(events) \in 1 .. Len(more)
    BY <1>1, <1>2
  <2>2. k = Len(events) + (k - Len(events))
    BY <1>1
  <2>3. all[k] = more[k - Len(events)]
    BY <1>1, <2>1, <2>2
  <2>4. QED
    BY <2>1, <2>3 DEF Quiet
<1>3. CASE ToldLast(events, about, right)
  <2>1. PICK k \in 1 .. Len(events) :
          /\ events[k] \in right
          /\ \A j \in k + 1 .. Len(events) : events[j] \notin about
    BY <1>3 DEF ToldLast
  <2>2. k \in 1 .. Len(all) /\ all[k] \in right
    BY <1>1, <2>1
  <2>3. ASSUME NEW j \in k + 1 .. Len(all) PROVE all[j] \notin about
    <3>1. CASE j \in 1 .. Len(events)
      BY <1>1, <2>1, <3>1
    <3>2. CASE j \notin 1 .. Len(events)
      BY <1>1, <1>2, <3>2
    <3>3. QED
      BY <3>1, <3>2
  <2>4. QED
    BY <2>2, <2>3 DEF Followed, ToldLast, all
<1>4. CASE Quiet(events, about) /\ shown
  <2>1. Quiet(all, about)
    BY <1>1, <1>2, <1>4 DEF Quiet
  <2>2. QED
    BY <1>4, <2>1 DEF Followed, all
<1>5. QED
  BY <1>3, <1>4 DEF Followed

\* What is said now is what was said last.
LEMMA JoinTold ==
  ASSUME NEW E, NEW events \in Seq(E), NEW more \in Seq(E), NEW about, NEW right,
         ToldLast(more, about, right)
  PROVE  ToldLast(events \o more, about, right)
<1> DEFINE all == events \o more
<1>1. /\ Len(events) \in Nat /\ Len(more) \in Nat /\ Len(all) = Len(events) + Len(more)
      /\ \A k \in 1 .. Len(more) : all[Len(events) + k] = more[k]
  BY Joined
<1> HIDE DEF all
<1>2. PICK k \in 1 .. Len(more) :
        /\ more[k] \in right
        /\ \A j \in k + 1 .. Len(more) : more[j] \notin about
  BY DEF ToldLast
<1>3. Len(events) + k \in 1 .. Len(all) /\ all[Len(events) + k] \in right
  BY <1>1, <1>2
<1>4. ASSUME NEW j \in Len(events) + k + 1 .. Len(all) PROVE all[j] \notin about
  <2>1. j - Len(events) \in k + 1 .. Len(more) /\ j = Len(events) + (j - Len(events))
    BY <1>1
  <2>2. j - Len(events) \in 1 .. Len(more)
    BY <1>1, <2>1
  <2>3. all[j] = more[j - Len(events)]
    BY <1>1, <2>1, <2>2
  <2>4. QED
    BY <1>2, <2>1, <2>3
<1>5. QED
  BY <1>3, <1>4 DEF ToldLast, all

\* The entity follows what is told of it, and what is not told did not change.
LEMMA Joins ==
  ASSUME NEW E, NEW events \in Seq(E), NEW more \in Seq(E), NEW about, NEW right, NEW shown,
         NEW newRight, NEW newShown, NEW same,
         Followed(events, about, right, shown), Followed(more, about, newRight, same),
         same => newRight = right /\ (shown => newShown)
  PROVE  Followed(events \o more, about, newRight, newShown)
<1>1. CASE ToldLast(more, about, newRight)
  BY <1>1, JoinTold DEF Followed
<1>2. CASE Quiet(more, about) /\ same
  <2>1. Followed(events \o more, about, right, shown)
    BY <1>2, JoinQuiet
  <2>2. QED
    BY <1>2, <2>1 DEF Followed
<1>3. QED
  BY <1>1, <1>2 DEF Followed

\* Events that are not about it, one after the other.
LEMMA QuietJoined ==
  ASSUME NEW E, NEW events \in Seq(E), NEW more \in Seq(E), NEW about,
         Quiet(events, about), Quiet(more, about)
  PROVE  Quiet(events \o more, about)
<1>1. Followed(events, about, {}, TRUE)
  BY DEF Followed
<1>2. Followed(events \o more, about, {}, TRUE)
  BY <1>1, JoinQuiet
<1>3. QED
  BY <1>2 DEF Followed, ToldLast

\* When no later event is about it, the oldest one says what is so, or is about
\* something else and the entity shows what is so.
LEMMA NoneLeft ==
  ASSUME NEW E, NEW events \in Seq(E), events # <<>>,
         NEW about, NEW right, NEW shown, right \subseteq about,
         Followed(events, about, right, shown), Quiet(Tail(events), about)
  PROVE  Head(events) \in right \/ (Head(events) \notin about /\ shown)
<1>1. /\ Len(events) \in Nat /\ Len(events) >= 1 /\ Len(Tail(events)) = Len(events) - 1
      /\ Head(events) = events[1]
      /\ \A k \in 1 .. Len(Tail(events)) : Tail(events)[k] = events[k + 1]
  OBVIOUS
<1>2. CASE ToldLast(events, about, right)
  <2>1. PICK k \in 1 .. Len(events) : events[k] \in right
    BY <1>2 DEF ToldLast
  <2>2. k = 1
    <3>1. SUFFICES ASSUME k # 1 PROVE FALSE
      OBVIOUS
    <3>2. k - 1 \in 1 .. Len(Tail(events)) /\ k = k - 1 + 1
      BY <1>1, <3>1
    <3>3. Tail(events)[k - 1] = events[k]
      BY <1>1, <3>2
    <3>4. QED
      BY <2>1, <3>2, <3>3 DEF Quiet
  <2>3. QED
    BY <1>1, <2>1, <2>2
<1>3. CASE Quiet(events, about) /\ shown
  BY <1>1, <1>3 DEF Quiet
<1>4. QED
  BY <1>2, <1>3 DEF Followed

\* Taking the oldest event: an event about it brings the entity up to date if
\* it is the last one, and an event about something else leaves it so.
LEMMA TakeOne ==
  ASSUME NEW E, NEW events \in Seq(E), events # <<>>,
         NEW about, NEW right, NEW shown, NEW next,
         Followed(events, about, right, shown),
         shown /\ Head(events) \notin about => next,
         Head(events) \in right /\ Quiet(Tail(events), about) => next
  PROVE  Followed(Tail(events), about, right, next)
<1> DEFINE rest == Tail(events)
<1>1. /\ Len(events) \in Nat /\ Len(events) >= 1 /\ Len(rest) = Len(events) - 1
      /\ Head(events) = events[1]
      /\ \A k \in 1 .. Len(rest) : rest[k] = events[k + 1]
  OBVIOUS
<1> HIDE DEF rest
<1>2. CASE ToldLast(events, about, right)
  <2>1. PICK k \in 1 .. Len(events) :
          /\ events[k] \in right
          /\ \A j \in k + 1 .. Len(events) : events[j] \notin about
    BY <1>2 DEF ToldLast
  <2>2. CASE k = 1
    <3>1. \A j \in 1 .. Len(rest) : rest[j] \notin about
      BY <1>1, <2>1, <2>2
    <3>2. QED
      BY <1>1, <2>1, <2>2, <3>1 DEF Followed, Quiet, rest
  <2>3. CASE k # 1
    <3>1. k - 1 \in 1 .. Len(rest) /\ rest[k - 1] \in right
      BY <1>1, <2>1, <2>3
    <3>2. \A j \in k - 1 + 1 .. Len(rest) : rest[j] \notin about
      BY <1>1, <2>1, <2>3
    <3>3. QED
      BY <3>1, <3>2 DEF Followed, ToldLast, rest
  <2>4. QED
    BY <2>2, <2>3
<1>3. CASE Quiet(events, about) /\ shown
  <2>1. Head(events) \notin about
    BY <1>1, <1>3 DEF Quiet
  <2>2. \A j \in 1 .. Len(rest) : rest[j] \notin about
    BY <1>1, <1>3 DEF Quiet
  <2>3. QED
    BY <1>3, <2>1, <2>2 DEF Followed, Quiet, rest
<1>4. QED
  BY <1>2, <1>3 DEF Followed

\* With no event left, the entity shows what is so.
LEMMA NothingLeft ==
  ASSUME NEW about, NEW right, NEW shown, Followed(<<>>, about, right, shown)
  PROVE  shown
BY DEF Followed, ToldLast
-----------------------------------------------------------------------------
(* Agents are followed.                                                     *)

\* The events about an agent that say who owns it, and what its data are.
Registrations(agent) ==
  [type : {"AgentRegistered"}, agent : {agent}, owner : Accounts \cup {ZeroAddress},
   metadata : Metadata \cup {NoMetadata}]
DataUpdates(agent) == [type : {"AgentDataUpdated"}, agent : {agent}, metadata : Metadata]
DataEvents(agent) == Registrations(agent) \cup DataUpdates(agent)

RightOwner(agent) == {event \in Registrations(agent) : event.owner = agents[agent].owner}
RightData(agent) == {event \in DataEvents(agent) : event.metadata = agents[agent].metadata}

OwnerShown(agent) ==
  agentEntities[agent].known /\ agentEntities[agent].owner = agents[agent].owner
DataShown(agent) ==
  /\ agentEntities[agent].metadata = agents[agent].metadata
  /\ ContentOf(agents[agent].metadata) # NoContent =>
       agentEntities[agent].content = ContentOf(agents[agent].metadata)

AgentFollowed(agent) ==
  IsAgent(agent) =>
    /\ Followed(pending, Registrations(agent), RightOwner(agent), OwnerShown(agent))
    /\ Followed(pending, DataEvents(agent), RightData(agent), DataShown(agent))

\* What the events of a transaction say of an agent: nothing, because nothing
\* changed; that it is registered; or its new data.
AgentTold(agent, events) ==
  \/ /\ IsAgent(agent)' => /\ IsAgent(agent)
                           /\ agents'[agent].owner = agents[agent].owner
                           /\ agents'[agent].metadata = agents[agent].metadata
     /\ Quiet(events, DataEvents(agent))
  \/ /\ ToldLast(events, Registrations(agent), RightOwner(agent)')
     /\ ToldLast(events, DataEvents(agent), RightData(agent)')
  \/ /\ IsAgent(agent)' => IsAgent(agent) /\ agents'[agent].owner = agents[agent].owner
     /\ Quiet(events, Registrations(agent))
     /\ ToldLast(events, DataEvents(agent), RightData(agent)')

\* What the handler of the oldest event does to the entity of an agent.
AgentWritten(agent) ==
  LET event == Head(pending)
      old == agentEntities[agent]
      new == agentEntities'[agent]
  IN /\ event \in Registrations(agent) =>
          /\ new.known /\ new.owner = event.owner /\ new.metadata = event.metadata
          /\ new.content = Linked(old.content, event.metadata)
     /\ event \notin Registrations(agent) => new.known = old.known /\ new.owner = old.owner
     /\ event \in DataUpdates(agent) /\ old.known =>
          new.metadata = event.metadata /\ new.content = Linked(old.content, event.metadata)
     /\ event \notin DataEvents(agent) =>
          new.metadata = old.metadata /\ new.content = old.content

\* Events of other types say nothing of an agent's owner and data.
LEMMA QuietByType ==
  ASSUME NEW events,
         \A k \in 1 .. Len(events) : events[k].type \notin {"AgentRegistered", "AgentDataUpdated"},
         NEW agent
  PROVE  Quiet(events, Registrations(agent)) /\ Quiet(events, DataEvents(agent))
BY DEF Quiet, DataEvents, Registrations, DataUpdates

\* Which events are about an agent.
LEMMA AgentEventIs ==
  ASSUME NEW event \in RegistryEvent, NEW agent
  PROVE  /\ event \in Registrations(agent) <=>
              event.type = "AgentRegistered" /\ event.agent = agent
         /\ event \in DataUpdates(agent) <=>
              event.type = "AgentDataUpdated" /\ event.agent = agent
BY DEF RegistryEvent, Registrations, DataUpdates

\* A transaction that tells what it does to an agent leaves it followed.
LEMMA AgentJoins ==
  ASSUME NEW E, pending \in Seq(E), NEW events \in Seq(E), pending' = pending \o events,
         UNCHANGED agentEntities, NEW agent \in AgentKeys, AgentFollowed(agent),
         AgentTold(agent, events)
  PROVE  AgentFollowed(agent)'
<1> SUFFICES ASSUME IsAgent(agent)'
             PROVE  /\ Followed(pending', Registrations(agent), RightOwner(agent)',
                                OwnerShown(agent)')
                    /\ Followed(pending', DataEvents(agent), RightData(agent)', DataShown(agent)')
  BY DEF AgentFollowed, Registrations, DataEvents, DataUpdates
<1>1. ASSUME IsAgent(agent), agents'[agent].owner = agents[agent].owner,
             Quiet(events, Registrations(agent))
      PROVE  Followed(pending', Registrations(agent), RightOwner(agent)', OwnerShown(agent)')
  <2>1. RightOwner(agent)' = RightOwner(agent) /\ OwnerShown(agent)' = OwnerShown(agent)
    BY <1>1 DEF RightOwner, Registrations, OwnerShown
  <2>2. Followed(pending, Registrations(agent), RightOwner(agent), OwnerShown(agent))
    BY <1>1 DEF AgentFollowed
  <2>3. Followed(pending \o events, Registrations(agent), RightOwner(agent), OwnerShown(agent))
    BY <1>1, <2>2, JoinQuiet
  <2>4. QED
    BY <2>1, <2>3
<1>2. ASSUME IsAgent(agent), agents'[agent].metadata = agents[agent].metadata,
             Quiet(events, DataEvents(agent))
      PROVE  Followed(pending', DataEvents(agent), RightData(agent)', DataShown(agent)')
  <2>1. RightData(agent)' = RightData(agent) /\ DataShown(agent)' = DataShown(agent)
    BY <1>2 DEF RightData, DataEvents, Registrations, DataUpdates, DataShown
  <2>2. Followed(pending, DataEvents(agent), RightData(agent), DataShown(agent))
    BY <1>2 DEF AgentFollowed
  <2>3. Followed(pending \o events, DataEvents(agent), RightData(agent), DataShown(agent))
    BY <1>2, <2>2, JoinQuiet
  <2>4. QED
    BY <2>1, <2>3
<1>3. ASSUME ToldLast(events, Registrations(agent), RightOwner(agent)')
      PROVE  Followed(pending', Registrations(agent), RightOwner(agent)', OwnerShown(agent)')
  BY <1>3, JoinTold DEF Followed
<1>4. ASSUME ToldLast(events, DataEvents(agent), RightData(agent)')
      PROVE  Followed(pending', DataEvents(agent), RightData(agent)', DataShown(agent)')
  BY <1>4, JoinTold DEF Followed
<1>5. Quiet(events, DataEvents(agent)) => Quiet(events, Registrations(agent))
  BY DEF Quiet, DataEvents
<1>6. QED
  BY <1>1, <1>2, <1>3, <1>4, <1>5 DEF AgentTold

\* A handler that writes what the event says leaves an agent followed.  Its data
\* are written only if the entity is known: when no registration is left in the
\* queue, it is.
LEMMA AgentTaken ==
  ASSUME NEW E, pending \in Seq(E), pending # <<>>, pending' = Tail(pending),
         UNCHANGED agents, NEW agent \in AgentKeys, AgentFollowed(agent), AgentWritten(agent)
  PROVE  AgentFollowed(agent)'
<1> DEFINE event == Head(pending)
<1> SUFFICES ASSUME IsAgent(agent)
             PROVE  /\ Followed(pending', Registrations(agent), RightOwner(agent),
                                OwnerShown(agent)')
                    /\ Followed(pending', DataEvents(agent), RightData(agent), DataShown(agent)')
  <2>1. /\ IsAgent(agent)' = IsAgent(agent)
        /\ RightOwner(agent)' = RightOwner(agent) /\ RightData(agent)' = RightData(agent)
        /\ Registrations(agent)' = Registrations(agent) /\ DataEvents(agent)' = DataEvents(agent)
    BY DEF IsAgent, RightOwner, RightData, Registrations, DataEvents, DataUpdates
  <2>2. QED
    BY <2>1 DEF AgentFollowed
<1>1. /\ Followed(pending, Registrations(agent), RightOwner(agent), OwnerShown(agent))
      /\ Followed(pending, DataEvents(agent), RightData(agent), DataShown(agent))
  BY DEF AgentFollowed
<1>2. /\ event \in Registrations(agent) =>
           /\ agentEntities'[agent].known /\ agentEntities'[agent].owner = event.owner
           /\ agentEntities'[agent].metadata = event.metadata
           /\ agentEntities'[agent].content = Linked(agentEntities[agent].content, event.metadata)
      /\ event \notin Registrations(agent) =>
           /\ agentEntities'[agent].known = agentEntities[agent].known
           /\ agentEntities'[agent].owner = agentEntities[agent].owner
      /\ event \in DataUpdates(agent) /\ agentEntities[agent].known =>
           /\ agentEntities'[agent].metadata = event.metadata
           /\ agentEntities'[agent].content = Linked(agentEntities[agent].content, event.metadata)
      /\ event \notin DataEvents(agent) =>
           /\ agentEntities'[agent].metadata = agentEntities[agent].metadata
           /\ agentEntities'[agent].content = agentEntities[agent].content
  BY DEF AgentWritten
<1>3. Followed(pending', Registrations(agent), RightOwner(agent), OwnerShown(agent)')
  <2>1. event \in RightOwner(agent) => OwnerShown(agent)'
    BY <1>2 DEF RightOwner, OwnerShown
  <2>2. OwnerShown(agent) /\ event \notin Registrations(agent) => OwnerShown(agent)'
    BY <1>2 DEF OwnerShown
  <2>3. QED
    BY <1>1, <2>1, <2>2, TakeOne
<1>4. ASSUME event \in RightData(agent), Quiet(Tail(pending), DataEvents(agent))
      PROVE  DataShown(agent)'
  <2>1. event \in DataEvents(agent) /\ event.metadata = agents[agent].metadata
    BY <1>4 DEF RightData
  <2>2. event \in Registrations(agent) \/ agentEntities[agent].known
    <3>1. SUFFICES ASSUME event \notin Registrations(agent)
                   PROVE  agentEntities[agent].known
      OBVIOUS
    <3>2. Quiet(Tail(pending), Registrations(agent))
      BY <1>4 DEF Quiet, DataEvents
    <3>3. RightOwner(agent) \subseteq Registrations(agent)
      BY DEF RightOwner
    <3>4. event \in RightOwner(agent) \/ OwnerShown(agent)
      BY <1>1, <3>2, <3>3, NoneLeft
    <3>5. QED
      BY <3>1, <3>4 DEF RightOwner, OwnerShown
  <2>3. CASE event \in Registrations(agent)
    BY <1>2, <2>1, <2>3 DEF DataShown, Linked
  <2>4. CASE event \notin Registrations(agent)
    BY <1>2, <2>1, <2>2, <2>4 DEF DataShown, Linked, DataEvents
  <2>5. QED
    BY <2>3, <2>4
<1>5. DataShown(agent) /\ event \notin DataEvents(agent) => DataShown(agent)'
  BY <1>2 DEF DataShown
<1>6. Followed(pending', DataEvents(agent), RightData(agent), DataShown(agent)')
  BY <1>1, <1>4, <1>5, TakeOne
<1>7. QED
  BY <1>3, <1>6

\* A handler of the registries' events takes the oldest and writes what it says.
LEMMA HandlerWrites ==
  ASSUME EntityTypeOK, NEW Others, pending \in Seq(RegistryEvent \cup Others),
         \A event \in Others : event.type \notin RegistryTypes,
         HandleRegistryEvent, NEW agent \in AgentKeys
  PROVE  pending # <<>> /\ pending' = Tail(pending) /\ AgentWritten(agent)
<1> DEFINE event == Head(pending)
<1>0. ASSUME NEW type \in RegistryTypes, Handles(type)
      PROVE  /\ event \in RegistryEvent /\ event.type = type
             /\ pending # <<>> /\ pending' = Tail(pending)
             /\ event \in Registrations(agent) <=> type = "AgentRegistered" /\ event.agent = agent
             /\ event \in DataUpdates(agent) <=> type = "AgentDataUpdated" /\ event.agent = agent
  <2>1. event \in RegistryEvent /\ event.type = type
    BY <1>0, HandlesType
  <2>2. pending # <<>> /\ pending' = Tail(pending)
    BY <1>0 DEF Handles
  <2>3. QED
    BY <2>1, <2>2, AgentEventIs
<1>1. ASSUME NEW type \in RegistryTypes, Handles(type),
             type \notin {"AgentRegistered", "AgentDataUpdated"},
             \A field \in {"known", "owner", "metadata", "content"} :
               agentEntities'[agent][field] = agentEntities[agent][field]
      PROVE  pending # <<>> /\ pending' = Tail(pending) /\ AgentWritten(agent)
  <2>1. /\ agentEntities'[agent].known = agentEntities[agent].known
        /\ agentEntities'[agent].owner = agentEntities[agent].owner
        /\ agentEntities'[agent].metadata = agentEntities[agent].metadata
        /\ agentEntities'[agent].content = agentEntities[agent].content
    BY <1>1
  <2>2. QED
    BY <1>0, <1>1, <2>1 DEF AgentWritten
<1>2. CASE HandleServiceRegistered \/ HandleServiceUpdated \/ HandleProposalAdded
  BY <1>1, <1>2 DEF HandleServiceRegistered, HandleServiceUpdated, HandleProposalAdded, RegistryTypes
<1>3. CASE HandleUpdateReputation
  <2>1. Handles("ReputationUpdated") /\ event.agent \in AgentKeys
    BY <1>0, <1>3 DEF HandleUpdateReputation, RegistryTypes, RegistryEvent
  <2>2. \A field \in {"known", "owner", "metadata", "content"} :
          agentEntities'[agent][field] = agentEntities[agent][field]
    BY <1>3, <2>1 DEF HandleUpdateReputation, EntityTypeOK, AgentEntity
  <2>3. QED
    BY <1>1, <2>1, <2>2 DEF RegistryTypes
<1>4. CASE HandleAgentRegistered
  <2>1. Handles("AgentRegistered") /\ event.agent \in AgentKeys
    BY <1>0, <1>4 DEF HandleAgentRegistered, RegistryTypes, RegistryEvent
  <2>2. agentEntities' = [agentEntities EXCEPT ![event.agent] =
          [known |-> TRUE, metadata |-> event.metadata, owner |-> event.owner,
           reputation |-> 0, content |-> Linked(@.content, event.metadata)]]
    BY <1>4 DEF HandleAgentRegistered
  <2>3. event.agent # agent => agentEntities'[agent] = agentEntities[agent]
    BY <2>2 DEF EntityTypeOK
  <2>4. event.agent = agent => agentEntities'[agent] =
          [known |-> TRUE, metadata |-> event.metadata, owner |-> event.owner,
           reputation |-> 0,
           content |-> Linked(agentEntities[agent].content, event.metadata)]
    BY <2>1, <2>2 DEF EntityTypeOK
  <2>5. QED
    BY <1>0, <2>1, <2>3, <2>4 DEF AgentWritten, DataEvents, RegistryTypes
<1>5. CASE HandleAgentDataUpdated
  <2>1. Handles("AgentDataUpdated") /\ event.agent \in AgentKeys
    BY <1>0, <1>5 DEF HandleAgentDataUpdated, RegistryTypes, RegistryEvent
  <2>2. IF agentEntities[event.agent].known
        THEN agentEntities' = [agentEntities EXCEPT
               ![event.agent].metadata = event.metadata,
               ![event.agent].content = Linked(@, event.metadata)]
        ELSE UNCHANGED agentEntities
    BY <1>5 DEF HandleAgentDataUpdated
  <2>3. event.agent # agent => agentEntities'[agent] = agentEntities[agent]
    BY <2>2 DEF EntityTypeOK
  <2>4. event.agent = agent =>
          /\ agentEntities'[agent].known = agentEntities[agent].known
          /\ agentEntities'[agent].owner = agentEntities[agent].owner
          /\ agentEntities[agent].known =>
               /\ agentEntities'[agent].metadata = event.metadata
               /\ agentEntities'[agent].content = Linked(agentEntities[agent].content, event.metadata)
    BY <2>2 DEF EntityTypeOK, AgentEntity
  <2>5. QED
    BY <1>0, <2>1, <2>3, <2>4 DEF AgentWritten, DataEvents, RegistryTypes
<1>6. QED
  BY <1>2, <1>3, <1>4, <1>5 DEF HandleRegistryEvent

\* Whoever registers an agent tells who owns it and what its data are, first of
\* all, and nothing about other agents.
LEMMA RegistrationTells ==
  ASSUME AgentTypeOK, AgentTypeOK', NEW agent \in AgentKeys, NEW metadata, NEW owner,
         NEW reputation, CreateAgent(agent, metadata, owner, reputation),
         NEW E, NEW more \in Seq(E),
         \A k \in 1 .. Len(more) : more[k].type \notin {"AgentRegistered", "AgentDataUpdated"},
         NEW other \in AgentKeys
  PROVE  AgentTold(other, <<AgentRegistered(agent)>> \o more)
<1> DEFINE event == AgentRegistered(agent)
           all == <<event>> \o more
<1>1. /\ Len(more) \in Nat /\ Len(all) = 1 + Len(more) /\ all[1] = event
      /\ \A k \in 2 .. Len(all) : all[k] = more[k - 1] /\ k - 1 \in 1 .. Len(more)
  OBVIOUS
<1>2. agents'[agent] \in AgentData
  BY DEF AgentTypeOK
<1>3. /\ event \in Registrations(agent) /\ event.agent = agent
      /\ event.owner = agents'[agent].owner /\ event.metadata = agents'[agent].metadata
  BY <1>2 DEF AgentRegistered, Registrations, AgentData
<1> HIDE DEF event, all
<1>4. \A k \in 2 .. Len(all) : all[k] \notin DataEvents(other)
  BY <1>1 DEF DataEvents, Registrations, DataUpdates
<1>5. CASE other = agent
  <2>1. event \in RightOwner(other)' /\ event \in RightData(other)'
    BY <1>3, <1>5 DEF RightOwner, RightData, Registrations, DataEvents, DataUpdates
  <2>2. 1 \in 1 .. Len(all) /\ \A k \in 1 + 1 .. Len(all) : all[k] \notin DataEvents(other)
    BY <1>1, <1>4
  <2>3. \A k \in 1 + 1 .. Len(all) : all[k] \notin Registrations(other)
    BY <2>2 DEF DataEvents
  <2>4. /\ ToldLast(all, Registrations(other), RightOwner(other)')
        /\ ToldLast(all, DataEvents(other), RightData(other)')
    BY <1>1, <2>1, <2>2, <2>3 DEF ToldLast
  <2>5. QED
    BY <2>4 DEF AgentTold, all, event
<1>6. CASE other # agent
  <2>1. agents'[other] = agents[other]
    BY <1>6 DEF CreateAgent, AgentTypeOK
  <2>2. event \notin DataEvents(other)
    BY <1>3, <1>6 DEF Registrations, DataEvents, DataUpdates
  <2>3. Quiet(all, DataEvents(other))
    <3>1. ASSUME NEW k \in 1 .. Len(all) PROVE all[k] \notin DataEvents(other)
      <4>1. k = 1 \/ k \in 2 .. Len(all)
        BY <1>1
      <4>2. QED
        BY <1>1, <1>4, <2>2, <4>1
    <3>2. QED
      BY <3>1 DEF Quiet
  <2>4. QED
    BY <2>1, <2>3 DEF AgentTold, IsAgent, all, event
<1>7. QED
  BY <1>5, <1>6

\* Whoever changes an agent's data tells so.
LEMMA UpdateTells ==
  ASSUME AgentTypeOK, AgentTypeOK', NEW sender, NEW agent \in AgentKeys,
         NEW metadata \in Metadata, SetAgentData(sender, agent, metadata), NEW other \in AgentKeys
  PROVE  AgentTold(other, <<AgentDataUpdated(agent)>>)
<1> DEFINE event == AgentDataUpdated(agent)
<1>1. /\ agents' = [agents EXCEPT ![agent].metadata = metadata] /\ IsAgent(agent)
      /\ agents[agent] \in AgentData
  BY DEF SetAgentData, AgentTypeOK
<1>2. agents'[agent].metadata = metadata /\ agents'[agent].owner = agents[agent].owner
  BY <1>1 DEF AgentTypeOK, AgentData
<1>3. /\ event \in DataUpdates(agent) /\ event.agent = agent /\ event.type = "AgentDataUpdated"
      /\ event.metadata = agents'[agent].metadata
  BY <1>2 DEF AgentDataUpdated, DataUpdates
<1>4. Len(<<event>>) = 1 /\ <<event>>[1] = event
  OBVIOUS
<1> HIDE DEF event
<1>5. CASE other = agent
  <2>1. event \in RightData(other)' /\ event \notin Registrations(other)
    BY <1>3, <1>5 DEF RightData, Registrations, DataEvents, DataUpdates
  <2>2. ToldLast(<<event>>, DataEvents(other), RightData(other)')
    BY <1>4, <2>1 DEF ToldLast
  <2>3. Quiet(<<event>>, Registrations(other))
    BY <1>4, <2>1 DEF Quiet
  <2>4. QED
    BY <1>1, <1>2, <1>5, <2>2, <2>3 DEF AgentTold, event
<1>6. CASE other # agent
  <2>1. agents'[other] = agents[other]
    BY <1>1, <1>6 DEF AgentTypeOK
  <2>2. event \notin DataEvents(other)
    BY <1>3, <1>6 DEF Registrations, DataEvents, DataUpdates
  <2>3. Quiet(<<event>>, DataEvents(other))
    BY <1>4, <2>2 DEF Quiet
  <2>4. QED
    BY <2>1, <2>3 DEF AgentTold, IsAgent, event
<1>7. QED
  BY <1>5, <1>6

\* No event is needed when no agent's owner or data change, and none when an
\* agent is removed.
LEMMA NothingTold ==
  ASSUME NEW events, NEW agent \in AgentKeys,
         \A k \in 1 .. Len(events) : events[k].type \notin {"AgentRegistered", "AgentDataUpdated"},
         IsAgent(agent)' => /\ IsAgent(agent)
                            /\ agents'[agent].owner = agents[agent].owner
                            /\ agents'[agent].metadata = agents[agent].metadata
  PROVE  AgentTold(agent, events)
BY QuietByType DEF AgentTold

\* An agent is as followed as it was when nothing about it changed.
LEMMA AgentsStayFollowed ==
  ASSUME UNCHANGED <<agents, pending, agentEntities>>, NEW agent \in AgentKeys,
         AgentFollowed(agent)
  PROVE  AgentFollowed(agent)'
BY DEF AgentFollowed, IsAgent, Followed, ToldLast, Quiet, RightOwner, RightData, OwnerShown,
       DataShown, Registrations, DataUpdates, DataEvents

\* With no event left, an agent that is followed is shown as it is.
LEMMA FollowedIsIndexed ==
  ASSUME \A agent \in AgentKeys : AgentFollowed(agent)
  PROVE  AgentsAreIndexed
<1>1. SUFFICES ASSUME pending = <<>>, NEW agent \in AgentKeys, IsAgent(agent)
               PROVE  OwnerShown(agent) /\ DataShown(agent)
  BY DEF AgentsAreIndexed, OwnerShown, DataShown
<1>2. /\ Followed(<<>>, Registrations(agent), RightOwner(agent), OwnerShown(agent))
      /\ Followed(<<>>, DataEvents(agent), RightData(agent), DataShown(agent))
  BY <1>1 DEF AgentFollowed
<1>3. QED
  BY <1>2, NothingLeft
=============================================================================
