--------------------------- MODULE MarketplaceProofs ---------------------------
(***************************************************************************)
(* Theorems about Marketplace, for every number of clients, agents,        *)
(* proposals and tasks, and however far the subgraph is behind: the whole  *)
(* composition is well typed, the contracts keep their promises in it,     *)
(* what the subgraph says of a standing offer is true, a client gets what  *)
(* it chose there or nothing, and a subgraph that has caught up agrees     *)
(* with the contracts.                                                     *)
(***************************************************************************)
EXTENDS Marketplace, TaskRegistryProofs

MarketEvent == RegistryEvent \cup TaskEvent

-----------------------------------------------------------------------------
(* Transactions: calls of the contracts, and what they tell the subgraph.    *)

\* A proposal is announced under an id of its own, with the terms it has.
Announced(event) ==
  event.type = "ProposalAdded" =>
    /\ event.id \in ProposalIds /\ event.id < nextProposalId'
    /\ event.terms = TermsShown(proposals'[event.id])

\* What a transaction tells the subgraph is well typed and true.
TellsTruth ==
  \E events \in Seq(MarketEvent) :
    /\ Emits(events)
    /\ \A k \in 1 .. Len(events) : Announced(events[k])

\* One transaction of the contracts, with its events.
Transaction == Next /\ TellsTruth

\* Events of registries and tasks say of which kind they are.
LEMMA EventKinds ==
  /\ \A event \in TaskEvent : event.type \notin RegistryTypes
  /\ \A event \in RegistryEvent : event.type \in RegistryTypes
BY DEF TaskEvent, RegistryEvent, RegistryTypes

\* Events that announce no proposal are true.
LEMMA OtherEvents ==
  ASSUME NEW events \in Seq(MarketEvent), Emits(events),
         \A k \in 1 .. Len(events) : events[k].type # "ProposalAdded"
  PROVE  TellsTruth
BY DEF TellsTruth, Announced

\* One such event, or two.
LEMMA OneOrTwoEvents ==
  ASSUME NEW one \in MarketEvent, one.type # "ProposalAdded",
         NEW two \in MarketEvent, two.type # "ProposalAdded",
         Emits(<<one>>) \/ Emits(<<one, two>>)
  PROVE  TellsTruth
<1>1. /\ <<one>> \in Seq(MarketEvent) /\ Len(<<one>>) = 1 /\ <<one>>[1] = one
      /\ <<one, two>> \in Seq(MarketEvent) /\ Len(<<one, two>>) = 2
      /\ <<one, two>>[1] = one /\ <<one, two>>[2] = two
  OBVIOUS
<1>2. /\ \A k \in 1 .. Len(<<one>>) : <<one>>[k].type # "ProposalAdded"
      /\ \A k \in 1 .. Len(<<one, two>>) : <<one, two>>[k].type # "ProposalAdded"
  OBVIOUS
<1>3. QED
  BY <1>1, <1>2, OtherEvents

\* Announcements of the proposals that were added are true.
LEMMA ProposalsAreAnnounced ==
  ASSUME AgentTypeOK, AgentTypeOK', nextProposalId' >= nextProposalId
  PROVE  /\ ProposalsAdded \in Seq(RegistryEvent)
         /\ \A k \in 1 .. Len(ProposalsAdded) : Announced(ProposalsAdded[k])
<1> DEFINE n == Len(ProposalsAdded)
<1>1. /\ ProposalsAdded \in Seq(RegistryEvent)
      /\ n = nextProposalId' - nextProposalId
      /\ \A k \in 1 .. n : ProposalsAdded[k] = ProposalAdded(nextProposalId + k - 1)
  BY ProposalsAddedType
<1>2. /\ nextProposalId \in Nat /\ nextProposalId >= 1 /\ nextProposalId' \in Nat
      /\ nextProposalId' <= MaxProposals + 1 /\ MaxProposals \in Nat
  BY AgentConstants DEF AgentTypeOK
<1>3. n \in Nat
  BY <1>1
<1> HIDE DEF n
<1>4. ASSUME NEW k \in 1 .. n
      PROVE  Announced(ProposalsAdded[k])
  <2> DEFINE id == nextProposalId + k - 1
  <2>1. k \in Nat /\ 1 <= k /\ k <= n
    BY <1>3
  <2>2. id \in Nat /\ nextProposalId <= id /\ id < nextProposalId'
    BY <1>1, <1>2, <2>1, CountedId DEF n
  <2>3. id \in ProposalIds
    BY <1>2, <2>2 DEF ProposalIds
  <2>4. ProposalsAdded[k] = ProposalAdded(id)
    BY <1>1
  <2> HIDE DEF id
  <2>5. QED
    BY <2>2, <2>3, <2>4 DEF Announced, ProposalAdded
<1>5. QED
  BY <1>1, <1>4 DEF n

\* A transaction that announces an agent, perhaps, services, perhaps, and then
\* the proposals it added.
LEMMA AnnouncedTogether ==
  ASSUME NEW first \in Seq(RegistryEvent), NEW added \in Seq(RegistryEvent),
         \A k \in 1 .. Len(first) : first[k].type # "ProposalAdded",
         \A k \in 1 .. Len(added) : Announced(added[k]),
         Emits(first \o added)
  PROVE  TellsTruth
<1>1. first \o added \in Seq(MarketEvent)
  BY DEF MarketEvent
<1>2. ASSUME NEW k \in 1 .. Len(first \o added)
      PROVE  Announced((first \o added)[k])
  <2>1. CASE k <= Len(first)
    <3>1. (first \o added)[k] = first[k] /\ k \in 1 .. Len(first)
      BY <2>1
    <3>2. QED
      BY <3>1 DEF Announced
  <2>2. CASE ~ k <= Len(first)
    <3>1. (first \o added)[k] = added[k - Len(first)] /\ k - Len(first) \in 1 .. Len(added)
      BY <2>2
    <3>2. QED
      BY <3>1
  <2>3. QED
    BY <2>1, <2>2
<1>3. QED
  BY <1>1, <1>2 DEF TellsTruth

\* Every transaction of the market is one that TaskRegistry knows.
LEMMA CallIsNext ==
  ASSUME NEW sender \in Accounts, Call(sender)
  PROVE  Next
<1>1. CASE TaskCall(sender)
  BY <1>1 DEF TaskCall, Complete, Rate, Cancel, TaskStep, Next
<1>2. ASSUME NEW agent \in AgentAddresses, AgentStep(sender, agent), UNCHANGED taskVars
      PROVE  Next
  BY <1>2 DEF RegistryNext, Next
<1>3. ASSUME ServiceNext, UNCHANGED <<agentVars, taskVars>>
      PROVE  Next
  BY <1>3 DEF RegistryNext, Next
<1>4. CASE OfferCall(sender)
  <2>1. PICK agent \in AgentAddresses :
          \/ \E metadata \in Metadata, name \in AllNames, price \in Prices, token \in TokenAddresses :
               RegisterWithOffer(sender, agent, metadata, name, price, token)
          \/ \E name \in AllNames, price \in Prices, token \in TokenAddresses :
               Offer(sender, agent, name, price, token)
          \/ \E id \in ProposalIds : Withdraw(sender, agent, id)
    BY <1>4 DEF OfferCall
  <2>2. AgentStep(sender, agent) /\ UNCHANGED taskVars
    BY <2>1 DEF RegisterWithOffer, Offer, Withdraw, AgentStep
  <2>3. QED
    BY <1>2, <2>2
<1>5. CASE ServiceCall
  <2>1. ServiceNext
    BY <1>5, IndexConstants DEF ServiceCall, ServiceNext
  <2>2. QED
    BY <1>3, <1>5, <2>1 DEF ServiceCall
<1>6. CASE ContractCall(sender)
  <2>1. ASSUME NEW agent \in AgentAddresses, Migrate(sender, agent) \/ Leave(sender, agent)
        PROVE  Next
    BY <1>2, <2>1 DEF Migrate, Leave, AgentStep
  <2>2. ASSUME NEW address \in TaskRegistries, SetTaskRegistry(sender, address), UNCHANGED taskVars
        PROVE  Next
    BY <2>2 DEF OwnerStep, RegistryNext, Next
  <2>3. ASSUME NEW name \in Names, NEW details \in Details,
               UpdateService(IndexedServices, sender, name, details),
               UNCHANGED <<agentVars, taskVars>>
        PROVE  Next
    <3>1. ServiceNext
      BY <2>3, IndexConstants DEF ServiceNext
    <3>2. QED
      BY <1>3, <2>3, <3>1
  <2>4. QED
    BY <1>6, <2>1, <2>2, <2>3 DEF ContractCall
<1>7. QED
  BY <1>1, <1>4, <1>5, <1>6 DEF Call

\* createTask and its event.
LEMMA CreateIsTransaction ==
  ASSUME TaskInv, NEW sender \in Accounts, NEW id, NEW value \in Values, Create(sender, id, value)
  PROVE  Transaction
<1>1. CreateTask(sender, id, value) /\ Emits(<<TaskCreated(nextTaskId)>>)
  BY DEF Create
<1>2. id \in ProposalIds
  BY <1>1, ListedProposal DEF TaskInv, TaskTypeOK, CreateTask
<1>3. Next
  BY <1>1, <1>2 DEF TaskStep, Next
<1>4. TaskInv'
  BY <1>3, TaskInvStep
<1>5. nextTaskId \in TaskIds /\ tasks'[nextTaskId].issuer = sender
  BY <1>1, TaskConstants DEF TaskInv, TaskTypeOK, CreateTask, TaskIds
<1>6. TaskCreated(nextTaskId) \in TaskEvent
  BY <1>4, <1>5 DEF TaskInv, TaskTypeOK, TaskData, TaskCreated, TaskEvent
<1>7. TaskCreated(nextTaskId) \in MarketEvent /\ TaskCreated(nextTaskId).type = "TaskCreated"
  BY <1>6 DEF MarketEvent, TaskCreated
<1>8. QED
  BY <1>1, <1>3, <1>7, OneOrTwoEvents DEF Transaction

\* completeTask, rateTask and cancelTask and their events.
LEMMA TaskCallTells ==
  ASSUME TaskInv, NEW sender \in Accounts, TaskCall(sender)
  PROVE  TellsTruth
<1>1. TaskInv' /\ AgentTypeOK' /\ AgentTypeOK
  BY CallIsNext, TaskInvStep DEF Call, TaskInv, TaskTypeOK
<1>2. \A t \in TaskIds : tasks'[t] \in TaskData
  BY <1>1 DEF TaskInv, TaskTypeOK
<1>3. \A t \in TaskIds :
        /\ TaskStatusChanged(t) \in MarketEvent /\ TaskStatusChanged(t).type # "ProposalAdded"
        /\ TaskCompleted(t) \in MarketEvent /\ TaskCompleted(t).type # "ProposalAdded"
        /\ TaskRated(t) \in MarketEvent /\ TaskRated(t).type # "ProposalAdded"
  BY <1>2 DEF TaskData, TaskStatusChanged, TaskCompleted, TaskRated, TaskEvent, MarketEvent
<1>4. ASSUME NEW t \in TaskIds, Complete(sender, t)
      PROVE  TellsTruth
  <2>1. Emits(<<TaskStatusChanged(t), TaskCompleted(t)>>)
    BY <1>4 DEF Complete
  <2>2. QED
    BY <1>3, <2>1, OneOrTwoEvents
<1>5. ASSUME NEW t \in TaskIds, NEW rating \in Ratings, Rate(sender, t, rating)
      PROVE  TellsTruth
  <2> DEFINE agent == GetProposal(tasks[t].proposalId).issuer
  <2>1. agent \in AgentKeys
    BY <1>1, GetProposalType DEF ServiceProposal
  <2> HIDE DEF agent
  <2>2. ReputationUpdated(agent) \in MarketEvent
    BY <1>1, <2>1, AgentEventType DEF MarketEvent
  <2>3. ReputationUpdated(agent).type # "ProposalAdded"
    BY DEF ReputationUpdated
  <2>4. Emits(<<ReputationUpdated(agent), TaskRated(t)>>)
    BY <1>5 DEF Rate, agent
  <2>5. QED
    BY <1>3, <2>2, <2>3, <2>4, OneOrTwoEvents
<1>6. ASSUME NEW t \in TaskIds, Cancel(sender, t)
      PROVE  TellsTruth
  <2>1. Emits(<<TaskStatusChanged(t)>>)
    BY <1>6 DEF Cancel
  <2>2. QED
    BY <1>3, <2>1, OneOrTwoEvents
<1>7. QED
  BY <1>4, <1>5, <1>6 DEF TaskCall

\* Transactions of the registries and their events.
LEMMA OtherCallTells ==
  ASSUME TaskInv, NEW sender \in Accounts, Call(sender), ~TaskCall(sender)
  PROVE  TellsTruth
<1>1. AgentTypeOK /\ AgentTypeOK' /\ nextProposalId' >= nextProposalId
  BY CallIsNext, TaskInvStep, ProposalsOnlyVanish DEF TaskInv, TaskTypeOK
<1>2. /\ ProposalsAdded \in Seq(RegistryEvent)
      /\ \A k \in 1 .. Len(ProposalsAdded) : Announced(ProposalsAdded[k])
  BY <1>1, ProposalsAreAnnounced
<1>3. ASSUME Emits(<<>>)
      PROVE  TellsTruth
  <2>1. <<>> \in Seq(MarketEvent) /\ \A k \in 1 .. Len(<<>>) : <<>>[k].type # "ProposalAdded"
    OBVIOUS
  <2>2. QED
    BY <1>3, <2>1, OtherEvents
<1>4. ASSUME NEW type \in {"ServiceRegistered", "ServiceUpdated"}, NEW name \in Names,
             Emits(<<ServiceEvent(type, name)>>)
      PROVE  TellsTruth
  <2>1. ServiceEvent(type, name) \in MarketEvent
    BY <1>1, ServiceEventType DEF MarketEvent
  <2>2. ServiceEvent(type, name).type # "ProposalAdded"
    BY DEF ServiceEvent
  <2>3. QED
    BY <1>4, <2>1, <2>2, OneOrTwoEvents
<1>5. ASSUME NEW agent \in AgentAddresses
      PROVE  /\ <<AgentRegistered(agent)>> \in Seq(RegistryEvent)
             /\ \A k \in 1 .. Len(<<AgentRegistered(agent)>>) :
                  <<AgentRegistered(agent)>>[k].type # "ProposalAdded"
  <2>1. AgentRegistered(agent) \in RegistryEvent
    BY <1>1, AgentEventType DEF AgentKeys
  <2>2. QED
    BY <2>1 DEF AgentRegistered
<1>6. ASSUME NEW agent \in AgentAddresses, Emits(<<AgentRegistered(agent)>> \o ProposalsAdded)
      PROVE  TellsTruth
  BY <1>2, <1>5, <1>6, AnnouncedTogether
<1>7. CASE Emits(ProposalsAdded)
  <2>1. ProposalsAdded \in Seq(MarketEvent)
    BY <1>2 DEF MarketEvent
  <2>2. QED
    BY <1>2, <1>7, <2>1 DEF TellsTruth
<1>8. ASSUME NEW agent \in AgentAddresses, EmitMigration(agent), UNCHANGED taskEntities
      PROVE  TellsTruth
  <2> DEFINE new == {name \in Names :
                       services'[IndexedServices][name] # services[IndexedServices][name]}
  <2>1. PICK order \in [1 .. Cardinality(new) -> new] :
          Emit(<<AgentRegistered(agent)>>
                 \o [k \in DOMAIN order |-> ServiceEvent("ServiceRegistered", order[k])]
                 \o ProposalsAdded)
    BY <1>8 DEF EmitMigration, ServicesAdded
  <2> DEFINE arrived == [k \in DOMAIN order |-> ServiceEvent("ServiceRegistered", order[k])]
             first == <<AgentRegistered(agent)>> \o arrived
  <2>2. Cardinality(new) \in Nat /\ new \subseteq Names
    BY ServiceConstants, FS_Subset, FS_CardinalityType
  <2> HIDE DEF new
  <2>3. \A name \in Names : ServiceEvent("ServiceRegistered", name) \in RegistryEvent
    BY <1>1, ServiceEventType
  <2>4. /\ arrived \in Seq(RegistryEvent)
        /\ \A k \in 1 .. Len(arrived) : arrived[k].type # "ProposalAdded"
    BY <2>2, <2>3 DEF ServiceEvent
  <2> HIDE DEF arrived
  <2>5. /\ first \in Seq(RegistryEvent)
        /\ \A k \in 1 .. Len(first) : first[k].type # "ProposalAdded"
    BY <1>5, <2>4
  <2>6. Emits(first \o ProposalsAdded)
    BY <1>8, <2>1 DEF Emits, arrived
  <2> HIDE DEF first
  <2>7. QED
    BY <1>2, <2>5, <2>6, AnnouncedTogether
<1>9. CASE OfferCall(sender)
  BY <1>3, <1>6, <1>7, <1>9 DEF OfferCall, RegisterWithOffer, Offer, Withdraw
<1>10. CASE ServiceCall
  BY <1>4, <1>10 DEF ServiceCall
<1>11. CASE ContractCall(sender)
  BY <1>3, <1>4, <1>8, <1>11 DEF ContractCall, Migrate, Leave
<1>12. QED
  BY <1>9, <1>10, <1>11 DEF Call

\* All calls of the market are transactions.
LEMMA CallIsTransaction ==
  ASSUME TaskInv, NEW sender \in Accounts, Call(sender)
  PROVE  Transaction
BY CallIsNext, TaskCallTells, OtherCallTells DEF Transaction

-----------------------------------------------------------------------------
(* The subgraph: what it says of a proposal was true once, so it is true as *)
(* long as the proposal stands.                                             *)

SaysTruth(id, terms) ==
  /\ id < nextProposalId
  /\ proposals[id].isActive => terms = TermsShown(proposals[id])

PendingIsTrue ==
  \A k \in 1 .. Len(pending) :
    pending[k].type = "ProposalAdded" => SaysTruth(pending[k].id, pending[k].terms)
EntitiesAreTrue ==
  \A id \in ProposalIds : proposalEntities[id].known => SaysTruth(id, proposalEntities[id].terms)

GraphInv == GraphTypeOK /\ PendingIsTrue /\ EntitiesAreTrue

\* What was true of a proposal stays so: its id is not given to another.
LEMMA TruthLasts ==
  ASSUME AgentTypeOK, [Next]_vars, NEW id \in ProposalIds, NEW terms, SaysTruth(id, terms)
  PROVE  SaysTruth(id, terms)'
<1>1. /\ nextProposalId' \in Nat /\ nextProposalId' >= nextProposalId
      /\ proposals'[id] \in {proposals[id], NoProposal}
  BY ProposalsOnlyVanish DEF SaysTruth
<1>2. id < nextProposalId'
  <2>1. nextProposalId \in Nat /\ id \in Nat
    BY AgentConstants DEF AgentTypeOK, ProposalIds
  <2>2. \A a, b \in Nat : id < a /\ b >= a => id < b
    BY <2>1
  <2>3. QED
    BY <1>1, <2>1, <2>2 DEF SaysTruth
<1>3. proposals'[id].isActive => terms = TermsShown(proposals'[id])
  BY <1>1 DEF SaysTruth, NoProposal
<1>4. QED
  BY <1>2, <1>3 DEF SaysTruth, TermsShown

\* The proposal an announcement is about.
LEMMA AnnouncementType ==
  ASSUME NEW event \in MarketEvent, event.type = "ProposalAdded"
  PROVE  event.id \in ProposalIds /\ event.terms \in ProposalTerms
BY DEF MarketEvent, RegistryEvent, TaskEvent

\* Transactions leave the entities alone and queue up what is true.
LEMMA TransactionKeepsGraph ==
  ASSUME TaskInv, GraphInv, Transaction
  PROVE  GraphInv'
<1>1. PICK events \in Seq(MarketEvent) :
        Emits(events) /\ \A k \in 1 .. Len(events) : Announced(events[k])
  BY DEF Transaction, TellsTruth
<1>2. pending' = pending \o events /\ UNCHANGED <<entityVars, taskEntities>>
  BY <1>1 DEF Emits, Emit
<1>3. pending \in Seq(MarketEvent) /\ pending' \in Seq(MarketEvent)
  BY <1>1, <1>2 DEF GraphInv, GraphTypeOK, MarketEvent
<1>4. GraphTypeOK'
  BY <1>2, <1>3 DEF GraphInv, GraphTypeOK, EntityTypeOK, entityVars, MarketEvent
<1>5. \A id \in ProposalIds : \A terms : SaysTruth(id, terms) => SaysTruth(id, terms)'
  BY TruthLasts DEF TaskInv, TaskTypeOK, Transaction
<1>6. ASSUME NEW k \in 1 .. Len(pending'), pending'[k].type = "ProposalAdded"
      PROVE  SaysTruth(pending[k].id, pending[k].terms)'
  <2> DEFINE event == pending'[k]
  <2>0. event \in MarketEvent
    BY <1>3
  <2>1. event.id \in ProposalIds
    BY <1>6, <2>0, AnnouncementType
  <2>2. CASE k \in 1 .. Len(pending) /\ event = pending[k]
    <3>1. SaysTruth(pending[k].id, pending[k].terms)
      BY <1>6, <2>2 DEF GraphInv, PendingIsTrue
    <3>2. SaysTruth(event.id, event.terms)
      BY <2>2, <3>1
    <3>3. /\ event.id < nextProposalId'
          /\ proposals'[event.id].isActive => event.terms = TermsShown(proposals'[event.id])
      <4> HIDE DEF event
      <4>1. PICK id \in ProposalIds : id = event.id
        BY <2>1
      <4>2. PICK terms : terms = event.terms
        OBVIOUS
      <4>3. SaysTruth(id, terms)'
        BY <1>5, <3>2, <4>1, <4>2
      <4>4. QED
        BY <4>1, <4>2, <4>3 DEF SaysTruth, TermsShown
    <3>4. QED
      BY <3>3 DEF SaysTruth, TermsShown
  <2>3. CASE \E j \in 1 .. Len(events) : event = events[j]
    BY <1>1, <1>6, <2>3 DEF SaysTruth, Announced, TermsShown
  <2>4. QED
    <3>1. \/ k \in 1 .. Len(pending) /\ (pending \o events)[k] = pending[k]
          \/ \E j \in 1 .. Len(events) : (pending \o events)[k] = events[j]
      <4>1. k \in 1 .. Len(pending) + Len(events)
        BY <1>1, <1>2, <1>3
      <4>2. CASE k <= Len(pending)
        BY <1>1, <1>3, <4>1, <4>2
      <4>3. CASE ~ k <= Len(pending)
        <5>1. /\ k - Len(pending) \in 1 .. Len(events)
              /\ (pending \o events)[k] = events[k - Len(pending)]
          BY <1>1, <1>3, <4>1, <4>3
        <5>2. QED
          BY <5>1
      <4>4. QED
        BY <4>2, <4>3
    <3>2. QED
      BY <1>2, <2>2, <2>3, <3>1
<1>7. EntitiesAreTrue'
  BY <1>2, <1>5 DEF GraphInv, EntitiesAreTrue, entityVars
<1>8. PendingIsTrue'
  BY <1>6 DEF PendingIsTrue
<1>9. QED
  BY <1>4, <1>7, <1>8 DEF GraphInv

\* Handlers keep the types.
LEMMA HandlersType ==
  ASSUME GraphTypeOK, HandleEvent \/ FindFile
  PROVE  GraphTypeOK'
<1>0. /\ EntityTypeOK /\ pending \in Seq(MarketEvent)
      /\ taskEntities \in [TaskIds -> TaskEntity]
  BY DEF GraphTypeOK, MarketEvent
<1>1. CASE HandleRegistryEvent /\ UNCHANGED taskEntities
  BY <1>1, RegistryHandlerType, EventKinds DEF GraphTypeOK
<1>2. CASE FindFile
  BY <1>2, FileFoundType DEF GraphTypeOK, FindFile
<1>3. ASSUME UNCHANGED entityVars, NEW type, Handles(type),
             taskEntities' \in [TaskIds -> TaskEntity]
      PROVE  GraphTypeOK'
  <2>1. pending' \in Seq(MarketEvent)
    BY <1>0, <1>3, HandlesType
  <2>2. QED
    BY <1>3, <2>1 DEF GraphTypeOK, EntityTypeOK, entityVars, MarketEvent
<1> DEFINE event == Head(pending)
<1>4. ASSUME NEW type \in {"TaskCreated", "TaskStatusChanged", "TaskCompleted", "TaskRated"},
             Handles(type)
      PROVE  event \in TaskEvent /\ event.type = type
  BY <1>0, <1>4, HandlesType, EventKinds DEF MarketEvent, RegistryTypes
<1>5. CASE HandleTaskCreated
  <2>1. event \in TaskEvent /\ event.type = "TaskCreated" /\ Handles("TaskCreated")
    BY <1>4, <1>5 DEF HandleTaskCreated
  <2>2. /\ event.task \in TaskIds /\ event.issuer \in Accounts
        /\ event.assignee \in AgentKeys /\ event.proposalId \in ProposalIds \cup {0}
    BY <2>1 DEF TaskEvent
  <2> DEFINE entity == [known |-> TRUE, issuer |-> event.issuer, assignee |-> event.assignee,
                        proposalId |-> event.proposalId, status |-> "ASSIGNED",
                        rating |-> 0, result |-> FALSE]
  <2>3. entity \in TaskEntity
    BY <2>2 DEF TaskEntity, Statuses, MaxRating
  <2>4. taskEntities' = taskEntities \/ taskEntities' = [taskEntities EXCEPT ![event.task] = entity]
    BY <1>5 DEF HandleTaskCreated
  <2> HIDE DEF entity
  <2>5. taskEntities' \in [TaskIds -> TaskEntity]
    BY <1>0, <2>2, <2>3, <2>4
  <2>6. QED
    BY <1>3, <1>5, <2>1, <2>5 DEF HandleTaskCreated
<1>6. CASE HandleTaskStatusChanged
  <2>1. event \in TaskEvent /\ event.type = "TaskStatusChanged" /\ Handles("TaskStatusChanged")
    BY <1>4, <1>6 DEF HandleTaskStatusChanged, HandleTask
  <2>2. event.task \in TaskIds /\ event.status \in Statuses
    BY <2>1 DEF TaskEvent
  <2>3. taskEntities' \in [TaskIds -> TaskEntity]
    <3> DEFINE entity == taskEntities[event.task]
    <3>1. taskEntities' = [taskEntities EXCEPT ![event.task] =
            IF entity.known THEN WithStatus(entity, event) ELSE entity]
      BY <1>6 DEF HandleTaskStatusChanged, HandleTask, EventTask
    <3>2. entity \in TaskEntity
      BY <1>0, <2>2
    <3> HIDE DEF entity
    <3>3. WithStatus(entity, event) \in TaskEntity
      BY <2>2, <3>2 DEF WithStatus, TaskEntity
    <3>4. QED
      BY <1>0, <2>2, <3>1, <3>2, <3>3
  <2>4. QED
    BY <1>3, <1>6, <2>1, <2>3 DEF HandleTaskStatusChanged, HandleTask
<1>7. CASE HandleTaskStatusCompleted
  <2>1. event \in TaskEvent /\ event.type = "TaskCompleted" /\ Handles("TaskCompleted")
    BY <1>4, <1>7 DEF HandleTaskStatusCompleted, HandleTask
  <2>2. event.task \in TaskIds
    BY <2>1 DEF TaskEvent
  <2>3. taskEntities' \in [TaskIds -> TaskEntity]
    <3> DEFINE entity == taskEntities[event.task]
    <3>1. taskEntities' = [taskEntities EXCEPT ![event.task] =
            IF entity.known THEN WithResult(entity, event) ELSE entity]
      BY <1>7 DEF HandleTaskStatusCompleted, HandleTask, EventTask
    <3>2. entity \in TaskEntity
      BY <1>0, <2>2
    <3> HIDE DEF entity
    <3>3. WithResult(entity, event) \in TaskEntity
      BY <2>2, <3>2 DEF WithResult, TaskEntity
    <3>4. QED
      BY <1>0, <2>2, <3>1, <3>2, <3>3
  <2>4. QED
    BY <1>3, <1>7, <2>1, <2>3 DEF HandleTaskStatusCompleted, HandleTask
<1>8. CASE HandleTaskRated
  <2>1. event \in TaskEvent /\ event.type = "TaskRated" /\ Handles("TaskRated")
    BY <1>4, <1>8 DEF HandleTaskRated, HandleTask
  <2>2. event.task \in TaskIds /\ event.rating \in 0 .. MaxRating
    BY <2>1 DEF TaskEvent
  <2>3. taskEntities' \in [TaskIds -> TaskEntity]
    <3> DEFINE entity == taskEntities[event.task]
    <3>1. taskEntities' = [taskEntities EXCEPT ![event.task] =
            IF entity.known THEN WithRating(entity, event) ELSE entity]
      BY <1>8 DEF HandleTaskRated, HandleTask, EventTask
    <3>2. entity \in TaskEntity
      BY <1>0, <2>2
    <3> HIDE DEF entity
    <3>3. WithRating(entity, event) \in TaskEntity
      BY <2>2, <3>2 DEF WithRating, TaskEntity
    <3>4. QED
      BY <1>0, <2>2, <3>1, <3>2, <3>3
  <2>4. QED
    BY <1>3, <1>8, <2>1, <2>3 DEF HandleTaskRated, HandleTask
<1>9. QED
  BY <1>1, <1>2, <1>5, <1>6, <1>7, <1>8 DEF HandleEvent

\* A handler writes a proposal's entity only from an announcement.
LEMMA ProposalEntityChanges ==
  ASSUME GraphTypeOK, HandleEvent \/ FindFile, NEW id \in ProposalIds,
         proposalEntities'[id] # proposalEntities[id]
  PROVE  /\ pending # <<>> /\ Head(pending).type = "ProposalAdded" /\ Head(pending).id = id
         /\ proposalEntities'[id].terms = Head(pending).terms
<1>1. HandleProposalAdded
  BY DEF HandleEvent, HandleRegistryEvent, HandleServiceRegistered, HandleServiceUpdated,
         HandleAgentRegistered, HandleUpdateReputation, HandleAgentDataUpdated,
         HandleTaskCreated, HandleTaskStatusChanged, HandleTaskStatusCompleted, HandleTaskRated,
         HandleTask, FindFile, HandleAgentMetadata, entityVars
<1>2. QED
  BY <1>1 DEF HandleProposalAdded, Handles, GraphTypeOK, EntityTypeOK

\* What is left of the queue was in it before.
LEMMA QueueShrinks ==
  ASSUME GraphTypeOK, HandleEvent \/ FindFile
  PROVE  pending' = pending \/ (pending # <<>> /\ pending' = Tail(pending))
BY DEF HandleEvent, HandleRegistryEvent, HandleServiceRegistered, HandleServiceUpdated,
       HandleAgentRegistered, HandleUpdateReputation, HandleAgentDataUpdated, HandleProposalAdded,
       HandleTaskCreated, HandleTaskStatusChanged, HandleTaskStatusCompleted, HandleTaskRated,
       HandleTask, FindFile, HandleAgentMetadata, Handles

\* The subgraph does not make up anything.
LEMMA HandlersKeepGraph ==
  ASSUME GraphInv, HandleEvent \/ FindFile, UNCHANGED vars
  PROVE  GraphInv'
<1>1. GraphTypeOK' /\ GraphTypeOK /\ pending \in Seq(MarketEvent)
  BY HandlersType DEF GraphInv, GraphTypeOK, MarketEvent
<1>2. \A id, terms : SaysTruth(id, terms) => SaysTruth(id, terms)'
  BY DEF SaysTruth, TermsShown, vars, registryVars, agentVars
<1>3. ASSUME NEW k \in 1 .. Len(pending'), pending'[k].type = "ProposalAdded"
      PROVE  SaysTruth(pending'[k].id, pending'[k].terms)
  <2>1. \E j \in 1 .. Len(pending) : pending'[k] = pending[j]
    <3>1. CASE pending' = pending
      BY <3>1
    <3>2. CASE pending # <<>> /\ pending' = Tail(pending)
      <4>1. k \in Nat /\ k + 1 \in 1 .. Len(pending) /\ pending'[k] = pending[k + 1]
        BY <1>1, <3>2
      <4>2. QED
        BY <4>1
    <3>3. QED
      BY <1>1, <3>1, <3>2, QueueShrinks
  <2>2. QED
    BY <1>3, <2>1 DEF GraphInv, PendingIsTrue
<1>4. PendingIsTrue'
  BY <1>3 DEF PendingIsTrue, SaysTruth, TermsShown, vars, registryVars, agentVars
<1>5. ASSUME NEW id \in ProposalIds, proposalEntities'[id].known
      PROVE  SaysTruth(id, proposalEntities'[id].terms)
  <2>1. CASE proposalEntities'[id] = proposalEntities[id]
    BY <1>5, <2>1 DEF GraphInv, EntitiesAreTrue
  <2>2. CASE proposalEntities'[id] # proposalEntities[id]
    <3>1. /\ pending # <<>> /\ Head(pending).type = "ProposalAdded" /\ Head(pending).id = id
          /\ proposalEntities'[id].terms = Head(pending).terms
      BY <1>1, <2>2, ProposalEntityChanges
    <3>2. 1 \in 1 .. Len(pending) /\ Head(pending) = pending[1]
      BY <1>1, <3>1
    <3>3. QED
      BY <3>1, <3>2 DEF GraphInv, PendingIsTrue
  <2>3. QED
    BY <2>1, <2>2
<1>6. EntitiesAreTrue'
  BY <1>5 DEF EntitiesAreTrue, SaysTruth, TermsShown, vars, registryVars, agentVars
<1>7. QED
  BY <1>1, <1>4, <1>6 DEF GraphInv

-----------------------------------------------------------------------------
(* The clients.                                                             *)

Bought(client) ==
  LET task == tasks[client.task]
      paid == deposit[client.task]
  IN /\ client.task \in TaskIds /\ task.status # "CREATED"
     /\ task.assignee = client.agent /\ task.issuer = client.runner
     /\ paid.amount = client.shown.price /\ client.price = client.shown.price
     /\ paid.asset = client.shown.tokenAddress
     /\ paid.amount > 0 => paid.asset = ZeroAddress

\* A client holds the terms of its proposal as they are, if it still stands.
ClientOK(client) ==
  /\ client \in Client
  /\ client.pc \in {"chosen", "priced"} =>
       /\ client.proposal \in ProposalIds
       /\ SaysTruth(client.proposal, client.shown)
       /\ client.shown.issuer = client.agent
  /\ client.pc = "priced" /\ proposals[client.proposal].isActive =>
       client.price = proposals[client.proposal].price
  /\ client.pc = "created" => Bought(client)

MarketInv ==
  /\ TaskInv
  /\ GraphInv
  /\ clients \in [Clients -> Client]
  /\ \A c \in Clients : ClientOK(clients[c])

\* Whose a task is, and its deposit, never changes.
LEMMA DealLasts ==
  ASSUME TaskInv, [Next]_vars, NEW t \in TaskIds, tasks[t].status # "CREATED"
  PROVE  /\ tasks'[t].status # "CREATED" /\ deposit'[t] = deposit[t]
         /\ tasks'[t].issuer = tasks[t].issuer /\ tasks'[t].assignee = tasks[t].assignee
<1>1. CASE UNCHANGED <<tasks, deposit>>
  BY <1>1
<1>2. CASE OnlyProgresses
  BY <1>2 DEF OnlyProgresses
<1>3. ASSUME NEW sender \in Accounts, NEW id \in ProposalIds, NEW value \in Values,
             CreateTask(sender, id, value)
      PROVE  tasks'[t] = tasks[t] /\ deposit'[t] = deposit[t]
  <2>1. tasks[nextTaskId].status = "CREATED" /\ nextTaskId \in TaskIds
    BY <1>3, TaskConstants
       DEF TaskInv, TaskTypeOK, TasksBelowCounter, NoTask, CreateTask, TaskIds
  <2>2. QED
    BY <1>3, <2>1 DEF TaskInv, TaskTypeOK, CreateTask
<1>4. UNCHANGED vars \/ UNCHANGED taskVars => UNCHANGED <<tasks, deposit>>
  BY DEF vars, taskVars
<1>5. QED
  BY <1>1, <1>2, <1>3, <1>4, TaskStepEffects DEF Next

\* What a client knows and has stays, whatever transactions there are.
LEMMA ClientLasts ==
  ASSUME TaskInv, [Next]_vars, NEW client, ClientOK(client)
  PROVE  ClientOK(client)'
<1>1. AgentTypeOK
  BY DEF TaskInv, TaskTypeOK
<1>2. ASSUME client.pc \in {"chosen", "priced"}
      PROVE  /\ client.proposal \in ProposalIds
             /\ SaysTruth(client.proposal, client.shown)'
             /\ client.shown.issuer = client.agent
             /\ proposals'[client.proposal] \in {proposals[client.proposal], NoProposal}
  <2>1. /\ client.proposal \in ProposalIds
        /\ SaysTruth(client.proposal, client.shown)
        /\ client.shown.issuer = client.agent
    BY <1>2 DEF ClientOK
  <2>2. QED
    BY <1>1, <2>1, TruthLasts, ProposalsOnlyVanish DEF SaysTruth
<1>3. ASSUME client.pc = "priced", proposals'[client.proposal].isActive
      PROVE  client.price = proposals'[client.proposal].price
  <2>1. proposals'[client.proposal] = proposals[client.proposal]
    BY <1>2, <1>3 DEF NoProposal
  <2>2. QED
    BY <1>3, <2>1 DEF ClientOK
<1>4. ASSUME client.pc = "created"
      PROVE  Bought(client)'
  <2>1. Bought(client)
    BY <1>4 DEF ClientOK
  <2>2. client.task \in TaskIds /\ tasks[client.task].status # "CREATED"
    BY <2>1 DEF Bought
  <2>3. QED
    BY <2>1, <2>2, DealLasts DEF Bought
<1>5. QED
  BY <1>2, <1>3, <1>4 DEF ClientOK

\* What clients find are agents.
LEMMA AnswersType ==
  ASSUME NEW term
  PROVE  /\ IssuersMatching(term) \subseteq AgentKeys
         /\ AgentsMatching(term) \subseteq AgentKeys
         /\ SearchAgents(term) \subseteq AgentKeys
         /\ AgentsOwnedBy(term) \subseteq AgentKeys
         /\ AgentsRated(term) \subseteq AgentKeys
BY DEF IssuersMatching, AgentsMatching, SearchAgents, AgentsOwnedBy, AgentsRated, Known

\* A client's own steps, before it sends a transaction.
LEMMA BuyerKnows ==
  ASSUME MarketInv, NEW c \in Clients, BuyerStep(c), ~MineTask(c)
  PROVE  /\ OnChain
         /\ \E next : ClientOK(next) /\ Becomes(c, next)
<1> DEFINE client == clients[c]
<1>0. OnChain
  BY DEF BuyerStep, FindMatchingProposals, FindAgentsByDescription, Query, Choose, ReadPrice, GiveUp
<1>1. ClientOK(client) /\ client \in Client
  BY DEF MarketInv, ClientOK
<1>2. ASSUME NEW term \in SearchTerms, NEW min \in MinReputations,
             FindMatchingProposals(c, term, min)
      PROVE  \E next : ClientOK(next) /\ Becomes(c, next)
  <2> DEFINE next == [client EXCEPT !.pc = "matching", !.found = IssuersMatching(term),
                                    !.term = term, !.min = min]
  <2>1. next \in Client /\ next.pc = "matching"
    BY <1>1, AnswersType DEF Client, Phases
  <2>2. ClientOK(next)
    BY <2>1 DEF ClientOK
  <2>3. QED
    BY <1>2, <2>2 DEF FindMatchingProposals
<1>3. CASE FindAgentsByDescription(c)
  <2> DEFINE more == {agent \in AgentsMatching(client.term) \ client.found :
                        agentEntities[agent].reputation >= client.min}
             all == IF Cardinality(client.found) < Limit THEN client.found \cup more
                    ELSE client.found
             next == [client EXCEPT !.pc = "choosing", !.term = EmptyName, !.min = 0,
                                    !.found = all]
  <2>1. all \subseteq AgentKeys
    <3>1. client.found \subseteq AgentKeys
      BY <1>1 DEF Client
    <3>2. QED
      BY <3>1, AnswersType
  <2> HIDE DEF all
  <2>2. next \in Client /\ next.pc = "choosing"
    BY <1>1, <2>1 DEF Client, Phases
  <2>3. ClientOK(next)
    BY <2>2 DEF ClientOK
  <2>4. Becomes(c, next)
    BY <1>3 DEF FindAgentsByDescription, all
  <2>5. QED
    BY <1>0, <2>3, <2>4
<1>4. ASSUME NEW answer \in SUBSET AgentKeys, Query(c, answer)
      PROVE  \E next : ClientOK(next) /\ Becomes(c, next)
  <2> DEFINE next == [client EXCEPT !.pc = "choosing", !.found = answer]
  <2>1. next \in Client /\ next.pc = "choosing"
    BY <1>1 DEF Client, Phases
  <2>2. ClientOK(next)
    BY <2>1 DEF ClientOK
  <2>3. QED
    BY <1>4, <2>2 DEF Query
<1>5. ASSUME NEW agent \in AgentKeys, NEW id \in ProposalIds, Choose(c, agent, id)
      PROVE  \E next : ClientOK(next) /\ Becomes(c, next)
  <2> DEFINE shown == proposalEntities[id].terms
             next == [client EXCEPT !.pc = "chosen", !.found = {}, !.agent = agent,
                                    !.proposal = id, !.shown = shown]
  <2>1. shown \in ProposalTerms /\ SaysTruth(id, shown) /\ shown.issuer = agent
    BY <1>5 DEF Choose, MarketInv, GraphInv, GraphTypeOK, EntityTypeOK, ProposalEntity,
                EntitiesAreTrue
  <2> HIDE DEF shown
  <2>2. /\ next \in Client /\ next.pc = "chosen" /\ next.proposal = id
        /\ next.shown = shown /\ next.agent = agent
    BY <1>1, <2>1 DEF Client, Phases
  <2>3. ClientOK(next)
    BY <2>1, <2>2 DEF ClientOK
  <2>4. Becomes(c, next)
    BY <1>5 DEF Choose, shown
  <2>5. QED
    BY <2>3, <2>4
<1>6. CASE ReadPrice(c)
  <2> DEFINE price == GetProposal(client.proposal).price
             next == [client EXCEPT !.pc = "priced", !.price = price]
  <2>1. /\ client.proposal \in ProposalIds /\ client.shown.issuer = client.agent
        /\ SaysTruth(client.proposal, client.shown)
    BY <1>1, <1>6 DEF ClientOK, ReadPrice
  <2>2. price \in Prices \cup {0} /\ price = proposals[client.proposal].price
    BY <2>1, GetProposalType DEF MarketInv, TaskInv, TaskTypeOK, GetProposal, ServiceProposal
  <2> HIDE DEF price
  <2>3. /\ next \in Client /\ next.pc = "priced" /\ next.price = price
        /\ next.proposal = client.proposal /\ next.shown = client.shown
        /\ next.agent = client.agent
    BY <1>1, <2>2 DEF Client, Phases
  <2>4. ClientOK(next)
    BY <2>1, <2>2, <2>3 DEF ClientOK
  <2>5. Becomes(c, next)
    BY <1>6 DEF ReadPrice, price
  <2>6. QED
    BY <1>0, <2>4, <2>5
<1>7. CASE GiveUp(c)
  <2> DEFINE next == Created(client.runner)
  <2>1. TermsShown(NoProposal) \in ProposalTerms
    BY DEF TermsShown, NoProposal, ProposalTerms, AgentKeys, AllNames
  <2>2. next \in Client /\ next.pc = "idle"
    BY <1>1, <2>1 DEF Created, Client, Phases, AgentKeys
  <2>3. ClientOK(next)
    BY <2>2 DEF ClientOK
  <2>4. QED
    BY <1>0, <1>7, <2>3 DEF GiveUp
<1>8. QED
  BY <1>0, <1>2, <1>3, <1>4, <1>5, <1>6, <1>7, AnswersType DEF BuyerStep

\* The transaction of a client makes the task it wanted.
LEMMA MiningBuys ==
  ASSUME MarketInv, NEW c \in Clients, MineTask(c)
  PROVE  /\ Transaction
         /\ \E next : ClientOK(next)' /\ Becomes(c, next)
<1> DEFINE client == clients[c]
           id == client.proposal
           proposal == proposals[id]
<1>1. /\ client \in Client /\ client.pc = "priced" /\ id \in ProposalIds
      /\ SaysTruth(id, client.shown) /\ client.shown.issuer = client.agent
      /\ proposal.isActive => client.price = proposal.price
  BY DEF MarketInv, ClientOK, MineTask
<1>2. client.runner \in Accounts /\ client.price \in Values
  BY <1>1, MarketConstants DEF Client
<1>3. CreateTask(client.runner, id, client.price) /\ Create(client.runner, id, client.price)
  BY DEF MineTask, Create
<1>4. Transaction
  BY <1>2, <1>3, CreateIsTransaction DEF MarketInv
<1>5. TaskInv /\ AgentTypeOK /\ GetProposal(id) = proposal
  BY <1>1 DEF MarketInv, TaskInv, TaskTypeOK, GetProposal
<1>6. proposal.isActive
  BY <1>3, <1>5, ListedProposal DEF TaskInv, CreateTask
<1>7. client.shown = TermsShown(proposal) /\ client.price = proposal.price
  BY <1>1, <1>6 DEF SaysTruth
<1>8. nextTaskId \in TaskIds
  BY <1>3, <1>5, TaskConstants DEF TaskInv, TaskTypeOK, CreateTask, TaskIds
<1>9. /\ tasks'[nextTaskId] = [issuer |-> client.runner, status |-> "ASSIGNED",
                               assignee |-> proposal.issuer, proposalId |-> id, rating |-> 0]
      /\ deposit'[nextTaskId] = [asset |-> proposal.tokenAddress, amount |-> proposal.price]
  BY <1>3, <1>5, <1>8 DEF TaskInv, TaskTypeOK, CreateTask
<1>10. proposal.price > 0 => proposal.tokenAddress = ZeroAddress
  <2>1. CASE proposal.tokenAddress # ZeroAddress
    <3>1. client.price = 0
      BY <1>3, <1>5, <2>1 DEF CreateTask, Collect
    <3>2. proposal.price = 0
      BY <1>7, <3>1
    <3>3. QED
      BY <3>2
  <2>2. QED
    BY <2>1
<1>11. PICK bought : /\ bought = [client EXCEPT !.pc = "created", !.task = nextTaskId]
                     /\ Becomes(c, bought)
  BY DEF MineTask
<1>12. /\ bought \in Client /\ bought.pc = "created" /\ bought.task = nextTaskId
       /\ bought.agent = client.agent /\ bought.runner = client.runner
       /\ bought.price = client.price /\ bought.shown = client.shown
  BY <1>1, <1>8, <1>11 DEF Client, Phases
<1>13. Bought(bought)'
  BY <1>1, <1>7, <1>8, <1>9, <1>10, <1>12 DEF Bought, TermsShown
<1>14. ClientOK(bought)'
  BY <1>12, <1>13 DEF ClientOK
<1>15. QED
  BY <1>4, <1>11, <1>14

-----------------------------------------------------------------------------
(* The market.                                                              *)

\* A step of the market is a transaction, with one client at most, a step of
\* the subgraph, or of a client by itself.
LEMMA MarketStepKinds ==
  ASSUME MarketInv, MarketNext
  PROVE  \/ Transaction /\ UNCHANGED clients
         \/ \E c \in Clients : \E next : Transaction /\ ClientOK(next)' /\ Becomes(c, next)
         \/ \E c \in Clients : \E next : OnChain /\ ClientOK(next) /\ Becomes(c, next)
         \/ (HandleEvent \/ FindFile) /\ UNCHANGED <<vars, clients>>
<1>1. ASSUME NEW sender \in Accounts, Call(sender)
      PROVE  Transaction
  BY <1>1, CallIsTransaction DEF MarketInv
<1>2. QED
  BY <1>1, BuyerKnows, MiningBuys DEF MarketNext

\* To the contracts, every step of the market is a step of theirs.
LEMMA MarketStepIsTaskStep ==
  ASSUME MarketInv, [MarketNext]_marketVars
  PROVE  [Next]_vars
BY MarketStepKinds DEF Transaction, OnChain, marketVars

\* Every step of the market keeps the invariant.
LEMMA MarketStepKeepsInv ==
  ASSUME MarketInv, [MarketNext]_marketVars
  PROVE  MarketInv'
<1>1. TaskInv' /\ [Next]_vars
  BY MarketStepIsTaskStep, TaskInvStep DEF MarketInv
<1>2. ASSUME NEW client, ClientOK(client)
      PROVE  ClientOK(client)'
  BY <1>1, <1>2, ClientLasts DEF MarketInv
<1>3. ASSUME NEW c \in Clients, NEW next, ClientOK(next)', Becomes(c, next)
      PROVE  /\ clients' \in [Clients -> Client]
             /\ \A d \in Clients : ClientOK(clients[d])'
  <2>1. clients' = [clients EXCEPT ![c] = next] /\ next \in Client
    BY <1>3 DEF Becomes, ClientOK
  <2>2. ASSUME NEW d \in Clients
        PROVE  ClientOK(clients[d])'
    <3>1. PICK client : client = IF d = c THEN next ELSE clients[d]
      OBVIOUS
    <3>2. ClientOK(client)'
      <4>1. CASE d = c
        BY <1>3, <3>1, <4>1
      <4>2. CASE d # c
        <5>1. ClientOK(client)
          BY <3>1, <4>2 DEF MarketInv
        <5>2. QED
          BY <1>2, <5>1
      <4>3. QED
        BY <4>1, <4>2
    <3>3. clients'[d] = client
      BY <2>1, <3>1 DEF MarketInv
    <3>4. QED
      BY <3>2, <3>3 DEF ClientOK, Bought, SaysTruth
  <2>3. QED
    BY <2>1, <2>2 DEF MarketInv
<1>4. ASSUME UNCHANGED clients
      PROVE  /\ clients' \in [Clients -> Client]
             /\ \A d \in Clients : ClientOK(clients[d])'
  <2>1. ASSUME NEW d \in Clients
        PROVE  ClientOK(clients[d])'
    <3>1. PICK client : client = clients[d]
      OBVIOUS
    <3>2. ClientOK(client)'
      BY <1>2, <3>1 DEF MarketInv
    <3>3. QED
      BY <1>4, <3>1, <3>2 DEF ClientOK, Bought, SaysTruth
  <2>2. QED
    BY <1>4, <2>1 DEF MarketInv
<1>5. ASSUME UNCHANGED <<vars, graphVars>>
      PROVE  GraphInv'
  BY <1>5 DEF MarketInv, GraphInv, GraphTypeOK, EntityTypeOK, PendingIsTrue, EntitiesAreTrue,
              SaysTruth, TermsShown, graphVars, indexVars, entityVars, vars, registryVars, agentVars
<1>6. GraphInv'
  BY <1>5, MarketStepKinds, TransactionKeepsGraph, HandlersKeepGraph
     DEF MarketInv, OnChain, marketVars
<1>7. /\ clients' \in [Clients -> Client]
      /\ \A d \in Clients : ClientOK(clients[d])'
  BY <1>2, <1>3, <1>4, MarketStepKinds DEF marketVars, OnChain
<1>8. QED
  BY <1>1, <1>6, <1>7 DEF MarketInv

\* Clients start without a purchase, the subgraph without an event.
LEMMA MarketInitInv == MarketInit => MarketInv
<1> SUFFICES ASSUME MarketInit
             PROVE  MarketInv
  OBVIOUS
<1>1. TaskInv
  BY TaskInvInit DEF MarketInit
<1>2. GraphInv
  <2>1. EntityTypeOK /\ pending = <<>>
    BY IndexInitType DEF MarketInit, GraphInit
  <2>2. NoTaskEntity \in TaskEntity
    BY DEF NoTaskEntity, TaskEntity, AgentKeys, Statuses, MaxRating
  <2>3. GraphTypeOK
    BY <2>1, <2>2 DEF MarketInit, GraphInit, GraphTypeOK
  <2>4. PendingIsTrue /\ EntitiesAreTrue
    BY <2>1 DEF MarketInit, GraphInit, IndexInit, NoProposalEntity, PendingIsTrue, EntitiesAreTrue
  <2>5. QED
    BY <2>3, <2>4 DEF GraphInv
<1>3. ASSUME NEW account \in Buyers
      PROVE  Created(account) \in Client /\ Created(account).pc = "idle"
  <2>1. TermsShown(NoProposal) \in ProposalTerms
    BY DEF TermsShown, NoProposal, ProposalTerms, AgentKeys, AllNames
  <2>2. QED
    BY <2>1, MarketConstants DEF Created, Client, Phases, AgentKeys
<1>4. \A c \in Clients : clients[c] \in Client /\ clients[c].pc = "idle"
  BY <1>3 DEF MarketInit
<1>5. clients \in [Clients -> Client]
  BY <1>4 DEF MarketInit
<1>6. QED
  BY <1>1, <1>2, <1>4, <1>5 DEF MarketInv, ClientOK

\* Contracts, queue, entities and clients stay well typed.
THEOREM MarketTypeCorrect == MarketSpec => []MarketTypeOK
<1>1. MarketInv => MarketTypeOK
  BY DEF MarketInv, MarketTypeOK, TaskInv, GraphInv
<1>2. QED
  BY <1>1, MarketInitInv, MarketStepKeepsInv, PTL DEF MarketSpec

\* The market is one of the uses of the contracts that TaskRegistry allows for,
\* so everything proved there holds here.
THEOREM MarketUsesTheContracts == MarketSpec => Spec
<1>1. MarketInit => Init
  BY DEF MarketInit
<1>2. QED
  BY <1>1, MarketInitInv, MarketStepKeepsInv, MarketStepIsTaskStep, PTL DEF MarketSpec, Spec

\* On the market the registry is an escrow, and the deposit of every task is
\* that of its proposal as long as the proposal stands.
THEOREM MarketKeepsPromises ==
  MarketSpec => IsAnEscrow /\ KeepsTheBook /\ []DepositsMatchProposals
BY MarketUsesTheContracts, TaskRegistryIsAnEscrow, RegistriesKeepPromises, DepositsStayMatched, PTL

\* However far it is behind, the subgraph has the terms of every proposal that
\* still stands right.
THEOREM ShownTermsStayTrue == MarketSpec => []ShownTermsAreTrue
<1>1. MarketInv => ShownTermsAreTrue
  BY DEF MarketInv, GraphInv, EntitiesAreTrue, SaysTruth, ShownTermsAreTrue
<1>2. QED
  BY <1>1, MarketInitInv, MarketStepKeepsInv, PTL DEF MarketSpec

\* Every task that a client bought is done by the agent it chose, belongs to
\* it, and cost what it was shown, in ETH if anything.
THEOREM BuyersGetTheirChoice == MarketSpec => []BuyersGetWhatTheyChose
<1>1. MarketInv => BuyersGetWhatTheyChose
  BY DEF MarketInv, ClientOK, Bought, BuyersGetWhatTheyChose
<1>2. QED
  BY <1>1, MarketInitInv, MarketStepKeepsInv, PTL DEF MarketSpec
-----------------------------------------------------------------------------
(* The market is followed.  An entity has several parts, each written by     *)
(* events of its own, and an event that is handled when there is no entity   *)
(* is dropped: so what the queue says last of a part counts only together    *)
(* with what it says last of whether there is an entity.                     *)

Rated(agent) == IsAgent(agent) /\ agents[agent].totalRatings > 0

\* The events about an agent's reputation; a registration sets it to 0.
RatingEvents(agent) ==
  Registrations(agent) \cup [type : {"ReputationUpdated"}, agent : {agent}, reputation : Nat]
RightRating(agent) ==
  {event \in RatingEvents(agent) :
     event.type = "ReputationUpdated" /\ event.reputation = agents[agent].reputation}
RatingShown(agent) == agentEntities[agent].reputation = agents[agent].reputation
RatingFollowed(agent) ==
  Rated(agent) => Followed(pending, RatingEvents(agent), RightRating(agent), RatingShown(agent))

\* A standing proposal is announced or known.
Announcements(id) == [type : {"ProposalAdded"}, id : {id}, terms : ProposalTerms]
OfferFollowed(id) ==
  proposals[id].isActive =>
    Followed(pending, Announcements(id), Announcements(id), proposalEntities[id].known)

\* The events about the deal of a task, its status, its result and its rating.
Creations(t) ==
  [type : {"TaskCreated"}, task : {t}, issuer : Accounts, assignee : AgentKeys,
   proposalId : ProposalIds \cup {0}]
StatusEvents(t) ==
  Creations(t) \cup [type : {"TaskStatusChanged"}, task : {t}, status : Statuses]
ResultEvents(t) == Creations(t) \cup [type : {"TaskCompleted"}, task : {t}]
GradeEvents(t) == Creations(t) \cup [type : {"TaskRated"}, task : {t}, rating : 0 .. MaxRating]

RightDeal(t) ==
  {event \in Creations(t) :
     /\ event.issuer = tasks[t].issuer /\ event.assignee = tasks[t].assignee
     /\ event.proposalId = tasks[t].proposalId}
RightStatus(t) ==
  {event \in StatusEvents(t) :
     tasks[t].status = IF event \in Creations(t) THEN "ASSIGNED" ELSE event.status}
RightResult(t) ==
  {event \in ResultEvents(t) : (tasks[t].status = "COMPLETED") <=> event \notin Creations(t)}
RightGrade(t) ==
  {event \in GradeEvents(t) :
     tasks[t].rating = IF event \in Creations(t) THEN 0 ELSE event.rating}

DealShown(t) ==
  LET entity == taskEntities[t]
  IN /\ entity.known
     /\ entity.issuer = tasks[t].issuer /\ entity.assignee = tasks[t].assignee
     /\ entity.proposalId = tasks[t].proposalId
StatusShown(t) == taskEntities[t].status = tasks[t].status
ResultShown(t) == taskEntities[t].result = (tasks[t].status = "COMPLETED")
GradeShown(t) == taskEntities[t].rating = tasks[t].rating

\* Tasks that the subgraph has no entity of.
Hidden(t) == tasks[t].status = "CREATED" \/ tasks[t].assignee \in Blacklisted

\* Every announcement of a task tells its deal.
CreationsTrue(t) ==
  \A k \in 1 .. Len(pending) :
    pending[k] \in Creations(t) => tasks[t].status # "CREATED" /\ pending[k] \in RightDeal(t)

TaskFollowed(t) ==
  /\ CreationsTrue(t)
  /\ IF Hidden(t) THEN ~taskEntities[t].known
     ELSE /\ Followed(pending, Creations(t), RightDeal(t), DealShown(t))
          /\ Followed(pending, StatusEvents(t), RightStatus(t), StatusShown(t))
          /\ Followed(pending, ResultEvents(t), RightResult(t), ResultShown(t))
          /\ Followed(pending, GradeEvents(t), RightGrade(t), GradeShown(t))

\* All of it; together with what makes a registration start with no ratings.
AllFollowed ==
  /\ \A agent \in AgentKeys : AgentFollowed(agent) /\ RatingFollowed(agent)
  /\ \A id \in ProposalIds : OfferFollowed(id)
  /\ \A t \in TaskIds : TaskFollowed(t)
MarketFollowed == UnregisteredAgentsAreBlank /\ AllFollowed

-----------------------------------------------------------------------------
(* Transactions tell what they do.                                          *)

\* What the events of a transaction say of a rating, a proposal and a task.
RatingTold(agent, events) ==
  Rated(agent)' =>
    Followed(events, RatingEvents(agent), RightRating(agent)',
             Rated(agent) /\ agents'[agent].reputation = agents[agent].reputation)
OfferTold(id, events) ==
  proposals'[id].isActive =>
    Followed(events, Announcements(id), Announcements(id), proposals[id].isActive)
TaskEvents(t) == StatusEvents(t) \cup ResultEvents(t) \cup GradeEvents(t)
SameOutcome(t) == (tasks'[t].status = "COMPLETED") <=> (tasks[t].status = "COMPLETED")
TaskMade(t, events) ==
  /\ tasks[t].status = "CREATED"
  /\ tasks'[t].status = "ASSIGNED" /\ tasks'[t].rating = 0
  /\ TaskCreated(t) \in Creations(t)
  /\ events = <<TaskCreated(t)>>
TaskMoved(t, events) ==
  /\ tasks[t].status # "CREATED" /\ tasks'[t].status # "CREATED"
  /\ tasks'[t].issuer = tasks[t].issuer /\ tasks'[t].assignee = tasks[t].assignee
  /\ tasks'[t].proposalId = tasks[t].proposalId
  /\ Quiet(events, Creations(t))
  /\ Followed(events, StatusEvents(t), RightStatus(t)', tasks'[t].status = tasks[t].status)
  /\ Followed(events, ResultEvents(t), RightResult(t)', SameOutcome(t))
  /\ Followed(events, GradeEvents(t), RightGrade(t)', tasks'[t].rating = tasks[t].rating)
TaskTold(t, events) ==
  \/ tasks'[t] = tasks[t] /\ Quiet(events, TaskEvents(t))
  \/ TaskMade(t, events)
  \/ TaskMoved(t, events)

\* A rating that is told.
LEMMA RatingJoins ==
  ASSUME NEW E, pending \in Seq(E), NEW events \in Seq(E), pending' = pending \o events,
         UNCHANGED agentEntities, NEW agent \in AgentKeys, RatingFollowed(agent),
         RatingTold(agent, events)
  PROVE  RatingFollowed(agent)'
<1> DEFINE same == Rated(agent) /\ agents'[agent].reputation = agents[agent].reputation
<1>0. SUFFICES ASSUME Rated(agent)'
               PROVE  Followed(pending', RatingEvents(agent), RightRating(agent)',
                               RatingShown(agent)')
  BY DEF RatingFollowed, RatingEvents, Registrations
<1>1. Followed(events, RatingEvents(agent), RightRating(agent)', same)
  BY <1>0 DEF RatingTold
<1>2. CASE ToldLast(events, RatingEvents(agent), RightRating(agent)')
  BY <1>2, JoinTold DEF Followed
<1>3. CASE Quiet(events, RatingEvents(agent)) /\ same
  <2>1. Followed(pending, RatingEvents(agent), RightRating(agent), RatingShown(agent))
    BY <1>3 DEF RatingFollowed
  <2>2. RightRating(agent)' = RightRating(agent) /\ RatingShown(agent)' = RatingShown(agent)
    BY <1>3 DEF RightRating, RatingEvents, Registrations, RatingShown
  <2>3. QED
    BY <1>3, <2>1, <2>2, JoinQuiet
<1>4. QED
  BY <1>1, <1>2, <1>3 DEF Followed

\* A proposal that is told.
LEMMA OfferJoins ==
  ASSUME NEW E, pending \in Seq(E), NEW events \in Seq(E), pending' = pending \o events,
         UNCHANGED proposalEntities, NEW id \in ProposalIds, OfferFollowed(id),
         OfferTold(id, events)
  PROVE  OfferFollowed(id)'
<1> DEFINE about == Announcements(id)
<1>0. SUFFICES ASSUME proposals'[id].isActive
               PROVE  Followed(pending', about, about, proposalEntities[id].known)
  BY DEF OfferFollowed, Announcements, ProposalTerms
<1>1. Followed(events, about, about, proposals[id].isActive)
  BY <1>0 DEF OfferTold
<1> HIDE DEF about
<1>2. CASE ToldLast(events, about, about)
  BY <1>2, JoinTold DEF Followed
<1>3. CASE Quiet(events, about) /\ proposals[id].isActive
  <2>1. Followed(pending, about, about, proposalEntities[id].known)
    BY <1>3 DEF OfferFollowed, about
  <2>2. QED
    BY <1>3, <2>1, JoinQuiet
<1>4. QED
  BY <1>1, <1>2, <1>3 DEF Followed

\* The right events about a task depend on nothing but the task.
LEMMA RightEventsStay ==
  ASSUME NEW t \in TaskIds
  PROVE  /\ Creations(t)' = Creations(t) /\ StatusEvents(t)' = StatusEvents(t)
         /\ ResultEvents(t)' = ResultEvents(t) /\ GradeEvents(t)' = GradeEvents(t)
         /\ /\ tasks'[t].issuer = tasks[t].issuer /\ tasks'[t].assignee = tasks[t].assignee
            /\ tasks'[t].proposalId = tasks[t].proposalId
            => RightDeal(t)' = RightDeal(t)
         /\ tasks'[t].status = tasks[t].status => RightStatus(t)' = RightStatus(t)
         /\ SameOutcome(t) => RightResult(t)' = RightResult(t)
         /\ tasks'[t].rating = tasks[t].rating => RightGrade(t)' = RightGrade(t)
<1>1. /\ Creations(t)' = Creations(t) /\ StatusEvents(t)' = StatusEvents(t)
      /\ ResultEvents(t)' = ResultEvents(t) /\ GradeEvents(t)' = GradeEvents(t)
  BY DEF Creations, StatusEvents, ResultEvents, GradeEvents
<1>2. QED
  BY <1>1 DEF RightDeal, RightStatus, RightResult, RightGrade, SameOutcome

\* A task that is made.
LEMMA MadeTaskJoins ==
  ASSUME NEW E, pending \in Seq(E), NEW events \in Seq(E), pending' = pending \o events,
         UNCHANGED taskEntities, NEW t \in TaskIds, TaskFollowed(t), TaskMade(t, events)
  PROVE  TaskFollowed(t)'
<1> DEFINE event == TaskCreated(t)
<1>1. /\ events = <<event>> /\ event \in Creations(t) /\ Len(events) = 1 /\ events[1] = event
      /\ tasks[t].status = "CREATED"
      /\ tasks'[t].status = "ASSIGNED" /\ tasks'[t].rating = 0
      /\ event.issuer = tasks'[t].issuer /\ event.assignee = tasks'[t].assignee
      /\ event.proposalId = tasks'[t].proposalId
  BY DEF TaskMade, TaskCreated
<1> HIDE DEF event
<1>2. /\ Creations(t)' = Creations(t) /\ StatusEvents(t)' = StatusEvents(t)
      /\ ResultEvents(t)' = ResultEvents(t) /\ GradeEvents(t)' = GradeEvents(t)
  BY RightEventsStay
<1>3. /\ event \in RightDeal(t)' /\ event \in RightStatus(t)'
      /\ event \in RightResult(t)' /\ event \in RightGrade(t)'
  BY <1>1, <1>2 DEF RightDeal, RightStatus, RightResult, RightGrade, StatusEvents, ResultEvents,
                    GradeEvents
<1>4. CreationsTrue(t)'
  <2>1. /\ Len(pending) \in Nat /\ Len(pending') = Len(pending) + 1
        /\ \A k \in 1 .. Len(pending) : pending'[k] = pending[k]
        /\ pending'[Len(pending) + 1] = event
    BY <1>1
  <2>2. ASSUME NEW k \in 1 .. Len(pending'), pending'[k] \in Creations(t)
        PROVE  pending'[k] \in RightDeal(t)'
    <3>1. k \in 1 .. Len(pending) \/ k = Len(pending) + 1
      BY <2>1
    <3>2. k \notin 1 .. Len(pending)
      BY <1>1, <2>1, <2>2 DEF TaskFollowed, CreationsTrue
    <3>3. QED
      BY <1>3, <2>1, <3>1, <3>2
  <2>3. QED
    BY <1>1, <1>2, <2>2 DEF CreationsTrue
<1>5. ~taskEntities'[t].known
  BY <1>1 DEF TaskFollowed, Hidden
<1>6. ASSUME NEW about, NEW right, event \in right
      PROVE  ToldLast(pending', about, right)
  <2>1. ToldLast(events, about, right)
    BY <1>1, <1>6 DEF ToldLast
  <2>2. QED
    BY <2>1, JoinTold
<1>7. /\ ToldLast(pending', Creations(t), RightDeal(t)')
      /\ ToldLast(pending', StatusEvents(t), RightStatus(t)')
      /\ ToldLast(pending', ResultEvents(t), RightResult(t)')
      /\ ToldLast(pending', GradeEvents(t), RightGrade(t)')
  BY <1>3, <1>6
<1>8. QED
  BY <1>2, <1>4, <1>5, <1>7 DEF TaskFollowed, Followed

\* A task that nothing happens to, or that is completed, cancelled or rated.
LEMMA MovedTaskJoins ==
  ASSUME NEW E, pending \in Seq(E), NEW events \in Seq(E), pending' = pending \o events,
         UNCHANGED taskEntities, NEW t \in TaskIds, TaskFollowed(t),
         TaskMoved(t, events) \/ (tasks'[t] = tasks[t] /\ Quiet(events, TaskEvents(t)))
  PROVE  TaskFollowed(t)'
<1> DEFINE sameStatus == tasks'[t].status = tasks[t].status
           sameGrade == tasks'[t].rating = tasks[t].rating
<1>1. /\ tasks'[t].issuer = tasks[t].issuer /\ tasks'[t].assignee = tasks[t].assignee
      /\ tasks'[t].proposalId = tasks[t].proposalId
      /\ tasks[t].status = "CREATED" <=> tasks'[t].status = "CREATED"
      /\ Quiet(events, Creations(t))
      /\ Followed(events, StatusEvents(t), RightStatus(t)', sameStatus)
      /\ Followed(events, ResultEvents(t), RightResult(t)', SameOutcome(t))
      /\ Followed(events, GradeEvents(t), RightGrade(t)', sameGrade)
  <2>1. CASE TaskMoved(t, events)
    BY <2>1 DEF TaskMoved
  <2>2. CASE tasks'[t] = tasks[t] /\ Quiet(events, TaskEvents(t))
    <3>1. /\ Quiet(events, Creations(t)) /\ Quiet(events, StatusEvents(t))
          /\ Quiet(events, ResultEvents(t)) /\ Quiet(events, GradeEvents(t))
      BY <2>2 DEF Quiet, TaskEvents, StatusEvents
    <3>2. QED
      BY <2>2, <3>1 DEF Followed, SameOutcome
  <2>3. QED
    BY <2>1, <2>2
<1>2. /\ Creations(t)' = Creations(t) /\ StatusEvents(t)' = StatusEvents(t)
      /\ ResultEvents(t)' = ResultEvents(t) /\ GradeEvents(t)' = GradeEvents(t)
      /\ RightDeal(t)' = RightDeal(t)
      /\ sameStatus => RightStatus(t)' = RightStatus(t)
      /\ SameOutcome(t) => RightResult(t)' = RightResult(t)
      /\ sameGrade => RightGrade(t)' = RightGrade(t)
  BY <1>1, RightEventsStay
<1>3. CreationsTrue(t)'
  <2>1. Quiet(pending, Creations(t) \ RightDeal(t))
    BY DEF TaskFollowed, CreationsTrue, Quiet
  <2>2. tasks[t].status = "CREATED" => Quiet(pending, Creations(t))
    BY DEF TaskFollowed, CreationsTrue, Quiet
  <2>3. Quiet(events, Creations(t) \ RightDeal(t))
    BY <1>1 DEF Quiet
  <2>4. Quiet(pending', Creations(t) \ RightDeal(t))
    BY <2>1, <2>3, QuietJoined
  <2>5. tasks[t].status = "CREATED" => Quiet(pending', Creations(t))
    BY <1>1, <2>2, QuietJoined
  <2>6. QED
    BY <1>1, <1>2, <2>4, <2>5 DEF CreationsTrue, Quiet
<1>4. Hidden(t)' <=> Hidden(t)
  BY <1>1 DEF Hidden
<1>5. CASE Hidden(t)
  BY <1>3, <1>4, <1>5 DEF TaskFollowed
<1>6. CASE ~Hidden(t)
  <2>1. /\ Followed(pending, Creations(t), RightDeal(t), DealShown(t))
        /\ Followed(pending, StatusEvents(t), RightStatus(t), StatusShown(t))
        /\ Followed(pending, ResultEvents(t), RightResult(t), ResultShown(t))
        /\ Followed(pending, GradeEvents(t), RightGrade(t), GradeShown(t))
    BY <1>6 DEF TaskFollowed
  <2>2. /\ DealShown(t) => DealShown(t)'
        /\ sameStatus /\ StatusShown(t) => StatusShown(t)'
        /\ SameOutcome(t) /\ ResultShown(t) => ResultShown(t)'
        /\ sameGrade /\ GradeShown(t) => GradeShown(t)'
    BY <1>1 DEF DealShown, StatusShown, ResultShown, GradeShown, SameOutcome
  <2>3. Followed(pending', Creations(t), RightDeal(t)', DealShown(t)')
    <3>1. Followed(pending', Creations(t), RightDeal(t), DealShown(t))
      BY <1>1, <2>1, JoinQuiet
    <3>2. QED
      BY <1>2, <2>2, <3>1 DEF Followed
  <2>4. Followed(pending', StatusEvents(t), RightStatus(t)', StatusShown(t)')
    BY <1>1, <1>2, <2>1, <2>2, Joins
  <2>5. Followed(pending', ResultEvents(t), RightResult(t)', ResultShown(t)')
    BY <1>1, <1>2, <2>1, <2>2, Joins
  <2>6. Followed(pending', GradeEvents(t), RightGrade(t)', GradeShown(t)')
    BY <1>1, <1>2, <2>1, <2>2, Joins
  <2>7. QED
    BY <1>2, <1>3, <1>4, <1>6, <2>3, <2>4, <2>5, <2>6 DEF TaskFollowed
<1>7. QED
  BY <1>5, <1>6

\* What the events of a transaction say of everything.
Tells(events) ==
  /\ \A agent \in AgentKeys : AgentTold(agent, events) /\ RatingTold(agent, events)
  /\ \A id \in ProposalIds : OfferTold(id, events)
  /\ \A t \in TaskIds : TaskTold(t, events)

\* A transaction that tells what it does to everything leaves it all followed.
LEMMA AllJoinTheQueue ==
  ASSUME GraphTypeOK, AllFollowed, NEW events \in Seq(MarketEvent), Emits(events), Tells(events)
  PROVE  AllFollowed'
<1>1. /\ pending \in Seq(MarketEvent) /\ pending' = pending \o events
      /\ UNCHANGED <<agentEntities, proposalEntities, taskEntities>>
  BY DEF GraphTypeOK, MarketEvent, Emits, Emit, entityVars
<1>2. ASSUME NEW agent \in AgentKeys
      PROVE  AgentFollowed(agent)' /\ RatingFollowed(agent)'
  BY <1>1, AgentJoins, RatingJoins DEF AllFollowed, Tells
<1>3. ASSUME NEW id \in ProposalIds
      PROVE  OfferFollowed(id)'
  BY <1>1, OfferJoins DEF AllFollowed, Tells
<1>4. ASSUME NEW t \in TaskIds
      PROVE  TaskFollowed(t)'
  BY <1>1, MadeTaskJoins, MovedTaskJoins DEF AllFollowed, Tells, TaskTold
<1>5. QED
  BY <1>2, <1>3, <1>4 DEF AllFollowed

\* What one event says.
LEMMA OneTold ==
  ASSUME NEW one, NEW about, NEW right
  PROVE  /\ one \in right => ToldLast(<<one>>, about, right)
         /\ one \notin about => Quiet(<<one>>, about)
<1>1. Len(<<one>>) = 1 /\ <<one>>[1] = one
  OBVIOUS
<1>2. QED
  BY <1>1 DEF ToldLast, Quiet

\* What two events say.
LEMMA TwoTold ==
  ASSUME NEW one, NEW two, NEW about, NEW right
  PROVE  /\ two \in right => ToldLast(<<one, two>>, about, right)
         /\ one \in right /\ two \notin about => ToldLast(<<one, two>>, about, right)
         /\ one \notin about /\ two \notin about => Quiet(<<one, two>>, about)
<1>1. Len(<<one, two>>) = 2 /\ <<one, two>>[1] = one /\ <<one, two>>[2] = two
  OBVIOUS
<1>2. QED
  BY <1>1 DEF ToldLast, Quiet

\* Events of the registries say nothing of tasks.
LEMMA RegistryTellsNoTask ==
  ASSUME UNCHANGED tasks, NEW events \in Seq(RegistryEvent), NEW t \in TaskIds
  PROVE  TaskTold(t, events)
<1>1. \A k \in 1 .. Len(events) : events[k].type \in RegistryTypes
  BY EventKinds
<1>2. Quiet(events, TaskEvents(t))
  BY <1>1 DEF Quiet, TaskEvents, StatusEvents, ResultEvents, GradeEvents, Creations, RegistryTypes
<1>3. QED
  BY <1>2 DEF TaskTold

\* Events that say nothing of agents, when an agent is removed or none is touched.
LEMMA NoAgentTold ==
  ASSUME NEW events,
         \A k \in 1 .. Len(events) :
           events[k].type \notin {"AgentRegistered", "AgentDataUpdated", "ReputationUpdated"},
         NEW agent \in AgentKeys, IsAgent(agent)' => agents'[agent] = agents[agent]
  PROVE  AgentTold(agent, events) /\ RatingTold(agent, events)
<1>1. IsAgent(agent)' => IsAgent(agent)
  BY DEF IsAgent
<1>2. AgentTold(agent, events)
  BY <1>1, NothingTold
<1>3. Quiet(events, RatingEvents(agent))
  BY DEF Quiet, RatingEvents, Registrations
<1>4. Rated(agent)' => Rated(agent) /\ agents'[agent].reputation = agents[agent].reputation
  BY <1>1 DEF Rated
<1>5. QED
  BY <1>2, <1>3, <1>4 DEF RatingTold, Followed

\* Events that say nothing of proposals.
LEMMA NoOfferTold ==
  ASSUME NEW events, \A k \in 1 .. Len(events) : events[k].type # "ProposalAdded",
         NEW id \in ProposalIds, proposals'[id].isActive => proposals[id].isActive
  PROVE  OfferTold(id, events)
BY DEF OfferTold, Followed, Quiet, Announcements

\* Who is registered anew has no ratings, so that none is missing.
LEMMA RegistrationRates ==
  ASSUME AgentTypeOK, UnregisteredAgentsAreBlank, NEW agent \in AgentKeys, ~IsAgent(agent),
         NEW metadata, NEW owner, NEW reputation, CreateAgent(agent, metadata, owner, reputation),
         NEW E, NEW more \in Seq(E),
         \A k \in 1 .. Len(more) : more[k].type \notin {"AgentRegistered", "ReputationUpdated"},
         NEW other \in AgentKeys
  PROVE  RatingTold(other, <<AgentRegistered(agent)>> \o more)
<1> DEFINE event == AgentRegistered(agent)
           all == <<event>> \o more
<1>1. event.type = "AgentRegistered" /\ event.agent = agent
  BY DEF AgentRegistered
<1>2. agents'[agent].agent = agent /\ agents'[agent].totalRatings = agents[agent].totalRatings
  BY DEF CreateAgent, AgentTypeOK
<1>3. CASE other = agent
  <2>1. agent # ZeroAddress => agents[agent].totalRatings = 0
    BY DEF UnregisteredAgentsAreBlank, NoAgent
  <2>2. ~Rated(agent)'
    BY <1>2, <2>1 DEF Rated, IsAgent
  <2>3. QED
    BY <1>3, <2>2 DEF RatingTold
<1>4. CASE other # agent
  <2>1. agents'[other] = agents[other]
    BY <1>4 DEF CreateAgent, AgentTypeOK
  <2>2. Quiet(all, RatingEvents(other))
    <3> HIDE DEF event
    <3>1. /\ Len(more) \in Nat /\ Len(all) = 1 + Len(more) /\ all[1] = event
          /\ \A k \in 2 .. Len(all) : all[k] = more[k - 1] /\ k - 1 \in 1 .. Len(more)
      OBVIOUS
    <3> HIDE DEF all
    <3>2. event \notin RatingEvents(other)
      BY <1>1, <1>4 DEF RatingEvents, Registrations
    <3>3. \A k \in 1 .. Len(more) : more[k] \notin RatingEvents(other)
      BY DEF RatingEvents, Registrations
    <3>4. ASSUME NEW k \in 1 .. Len(all) PROVE all[k] \notin RatingEvents(other)
      <4>1. k = 1 \/ k \in 2 .. Len(all)
        BY <3>1
      <4>2. QED
        BY <3>1, <3>2, <3>3, <4>1
    <3>5. QED
      BY <3>4 DEF Quiet
  <2>3. Rated(other)' => Rated(other) /\ agents'[other].reputation = agents[other].reputation
    BY <2>1 DEF Rated, IsAgent
  <2> HIDE DEF all
  <2>4. RatingTold(other, all)
    BY <2>2, <2>3 DEF RatingTold, Followed
  <2>5. QED
    BY <2>4 DEF all
<1>5. QED
  BY <1>3, <1>4

\* A standing proposal stood before or was added by the transaction.
LEMMA StandingProposal ==
  ASSUME TaskInv, [Next]_vars, NEW id \in ProposalIds, proposals'[id].isActive
  PROVE  /\ id < nextProposalId'
         /\ id < nextProposalId => proposals[id].isActive
<1>1. AgentTypeOK /\ TaskInv'
  BY TaskInvStep DEF TaskInv, TaskTypeOK
<1>2. id \in Nat /\ nextProposalId' \in Nat
  BY <1>1, ProposalsOnlyVanish, AgentConstants DEF ProposalIds
<1>3. id < nextProposalId'
  BY <1>1, <1>2 DEF TaskInv, InactiveIsEmpty
<1>4. id < nextProposalId => proposals[id].isActive
  BY <1>1, ProposalsOnlyVanish DEF NoProposal
<1>5. QED
  BY <1>3, <1>4

\* A transaction that adds no proposal.
LEMMA OffersKept ==
  ASSUME TaskInv, [Next]_vars, nextProposalId' = nextProposalId, NEW events,
         \A k \in 1 .. Len(events) : events[k].type # "ProposalAdded", NEW id \in ProposalIds
  PROVE  OfferTold(id, events)
BY StandingProposal, NoOfferTold

\* A transaction that announces what it adds, after other events.
LEMMA OffersAdded ==
  ASSUME TaskInv, [Next]_vars, NEW first \in Seq(RegistryEvent),
         \A k \in 1 .. Len(first) : first[k].type # "ProposalAdded", NEW id \in ProposalIds
  PROVE  OfferTold(id, first \o ProposalsAdded)
<1> DEFINE about == Announcements(id)
           n == Len(ProposalsAdded)
<1>0. SUFFICES ASSUME proposals'[id].isActive
               PROVE  Followed(first \o ProposalsAdded, about, about, proposals[id].isActive)
  BY DEF OfferTold
<1>1. AgentTypeOK /\ AgentTypeOK' /\ nextProposalId' >= nextProposalId
  BY TaskInvStep, ProposalsOnlyVanish DEF TaskInv, TaskTypeOK
<1>2. /\ ProposalsAdded \in Seq(RegistryEvent) /\ n = nextProposalId' - nextProposalId
      /\ \A k \in 1 .. n : ProposalsAdded[k] = ProposalAdded(nextProposalId + k - 1)
  BY <1>1, ProposalsAddedType
<1>3. /\ id < nextProposalId'
      /\ id < nextProposalId => proposals[id].isActive
      /\ TermsShown(proposals'[id]) \in ProposalTerms
  BY <1>0, <1>1, StandingProposal, TermsShownType DEF AgentTypeOK
<1>4. id \in Nat /\ nextProposalId \in Nat /\ nextProposalId' \in Nat /\ n \in Nat
  <2>1. id \in Nat /\ nextProposalId \in Nat /\ nextProposalId' \in Nat
    BY <1>1, AgentConstants DEF AgentTypeOK, ProposalIds
  <2>2. QED
    BY <1>1, <1>2, <2>1, CountingUp
<1>5. ASSUME NEW k \in 1 .. n
      PROVE  ProposalsAdded[k] \in about <=> nextProposalId + k - 1 = id
  <2>1. ProposalsAdded[k] = ProposalAdded(nextProposalId + k - 1)
    BY <1>2
  <2> DEFINE added == nextProposalId + k - 1
  <2>2. ProposalsAdded[k] = [type |-> "ProposalAdded", id |-> added,
                             terms |-> TermsShown(proposals'[added])]
    BY <2>1 DEF ProposalAdded
  <2> HIDE DEF added
  <2>3. ProposalsAdded[k] \in about <=> added = id
    BY <1>3, <2>2 DEF Announcements
  <2>4. QED
    BY <2>3 DEF added
<1> HIDE DEF n
<1>6. CASE id < nextProposalId
  <2>1. Quiet(ProposalsAdded, about)
    <3>1. ASSUME NEW k \in 1 .. n PROVE ProposalsAdded[k] \notin about
      <4>1. nextProposalId + k - 1 # id
        BY <1>4, <1>6
      <4>2. QED
        BY <1>5, <4>1
    <3>2. QED
      BY <3>1 DEF Quiet, n
  <2>2. Quiet(first, about)
    BY DEF Quiet, Announcements
  <2> HIDE DEF about
  <2>3. Quiet(first \o ProposalsAdded, about)
    BY <1>2, <2>1, <2>2, QuietJoined
  <2>4. QED
    BY <1>3, <1>6, <2>3 DEF Followed
<1>7. CASE ~ id < nextProposalId
  <2> DEFINE k == id - nextProposalId + 1
  <2>1. k \in 1 .. n /\ nextProposalId + k - 1 = id
    <3>1. \A next, later, i \in Nat :
            ~ i < next /\ i < later => /\ i - next + 1 \in 1 .. later - next
                                       /\ next + (i - next + 1) - 1 = i
      OBVIOUS
    <3>2. n = nextProposalId' - nextProposalId /\ id < nextProposalId'
      BY <1>2, <1>3
    <3>3. QED
      BY <1>4, <1>7, <3>1, <3>2
  <2>2. \A j \in k + 1 .. n : j \in 1 .. n /\ nextProposalId + j - 1 # id
    BY <1>4, <2>1
  <2> HIDE DEF k
  <2>3. ProposalsAdded[k] \in about /\ \A j \in k + 1 .. n : ProposalsAdded[j] \notin about
    BY <1>5, <2>1, <2>2
  <2> HIDE DEF about
  <2>4. ToldLast(ProposalsAdded, about, about)
    BY <2>1, <2>3 DEF ToldLast, n
  <2>5. ToldLast(first \o ProposalsAdded, about, about)
    BY <1>2, <2>4, JoinTold
  <2>6. QED
    BY <2>5 DEF Followed
<1>8. QED
  BY <1>6, <1>7

\* A transaction on tasks alone tells what it does to the tasks.
LEMMA TasksTell ==
  ASSUME UNCHANGED <<agents, proposals>>, NEW events \in Seq(TaskEvent),
         \A t \in TaskIds : TaskTold(t, events)
  PROVE  Tells(events)
<1>1. \A k \in 1 .. Len(events) : events[k].type \notin RegistryTypes
  BY EventKinds
<1>2. ASSUME NEW agent \in AgentKeys
      PROVE  AgentTold(agent, events) /\ RatingTold(agent, events)
  BY <1>1, NoAgentTold DEF RegistryTypes
<1>3. ASSUME NEW id \in ProposalIds
      PROVE  OfferTold(id, events)
  BY <1>1, NoOfferTold DEF RegistryTypes
<1>4. QED
  BY <1>2, <1>3 DEF Tells

\* Events of other tasks.
LEMMA OtherTask ==
  ASSUME NEW event, NEW t, event.type \in RegistryTypes \/ event.task # t
  PROVE  event \notin TaskEvents(t)
BY DEF TaskEvents, StatusEvents, ResultEvents, GradeEvents, Creations, RegistryTypes

\* createTask tells of the new task.
LEMMA CreateTells ==
  ASSUME TaskInv, NEW sender \in Accounts, NEW id, NEW value \in Values, Create(sender, id, value)
  PROVE  \E events \in Seq(MarketEvent) : Emits(events) /\ Tells(events)
<1> DEFINE new == nextTaskId
           event == TaskCreated(new)
<1>1. CreateTask(sender, id, value) /\ Emits(<<event>>)
  BY DEF Create
<1>2. id \in ProposalIds /\ AgentTypeOK
  BY <1>1, ListedProposal DEF TaskInv, TaskTypeOK, CreateTask
<1>3. TaskInv'
  BY <1>1, <1>2, TaskInvStep DEF TaskStep, Next
<1>4. new \in TaskIds /\ tasks[new].status = "CREATED"
  BY <1>1, TaskConstants DEF TaskInv, TaskTypeOK, TasksBelowCounter, NoTask, CreateTask, TaskIds
<1>5. /\ tasks'[new].issuer = sender /\ tasks'[new].status = "ASSIGNED" /\ tasks'[new].rating = 0
      /\ \A t \in TaskIds : t # new => tasks'[t] = tasks[t]
  BY <1>1, <1>4 DEF TaskInv, TaskTypeOK, CreateTask
<1>6. event \in Creations(new) /\ event.task = new
  BY <1>3, <1>4, <1>5 DEF TaskInv, TaskTypeOK, TaskData, TaskCreated, Creations
<1>7. event \in TaskEvent
  BY <1>4, <1>6 DEF Creations, TaskEvent
<1>8. ASSUME NEW t \in TaskIds PROVE TaskTold(t, <<event>>)
  <2>1. CASE t = new
    BY <1>4, <1>5, <1>6, <2>1 DEF TaskTold, TaskMade
  <2>2. CASE t # new
    <3>1. event \notin TaskEvents(t)
      BY <1>6, <2>2, OtherTask
    <3> HIDE DEF event
    <3>2. Quiet(<<event>>, TaskEvents(t))
      BY <3>1, OneTold
    <3>3. QED
      BY <1>5, <2>2, <3>2 DEF TaskTold
  <2>3. QED
    BY <2>1, <2>2
<1>9. UNCHANGED <<agents, proposals>>
  BY <1>1 DEF CreateTask, registryVars, agentVars
<1> HIDE DEF event
<1>10. <<event>> \in Seq(TaskEvent) /\ <<event>> \in Seq(MarketEvent)
  BY <1>7 DEF MarketEvent
<1>11. QED
  BY <1>1, <1>8, <1>9, <1>10, TasksTell

\* completeTask tells of the new status and of the result.
LEMMA CompleteTells ==
  ASSUME TaskInv, NEW sender \in Accounts, NEW t \in TaskIds, Complete(sender, t)
  PROVE  \E events \in Seq(MarketEvent) : Emits(events) /\ Tells(events)
<1> DEFINE one == TaskStatusChanged(t)
           two == TaskCompleted(t)
<1>1. CompleteTask(sender, t) /\ Emits(<<one, two>>) /\ tasks \in [TaskIds -> TaskData]
  BY DEF Complete, TaskInv, TaskTypeOK
<1>2. /\ tasks[t].status = "ASSIGNED" /\ tasks'[t].status = "COMPLETED"
      /\ tasks'[t].issuer = tasks[t].issuer /\ tasks'[t].assignee = tasks[t].assignee
      /\ tasks'[t].proposalId = tasks[t].proposalId /\ tasks'[t].rating = tasks[t].rating
      /\ \A other \in TaskIds : other # t => tasks'[other] = tasks[other]
  BY <1>1 DEF CompleteTask, TaskData
<1>3. /\ one = [type |-> "TaskStatusChanged", task |-> t, status |-> tasks'[t].status]
      /\ two = [type |-> "TaskCompleted", task |-> t]
  BY DEF TaskStatusChanged, TaskCompleted
<1> HIDE DEF one, two
<1>4. /\ one \notin Creations(t) /\ one \notin ResultEvents(t) /\ one \notin GradeEvents(t)
      /\ one \in StatusEvents(t) /\ one.status = tasks'[t].status
      /\ two \notin Creations(t) /\ two \notin StatusEvents(t) /\ two \notin GradeEvents(t)
      /\ two \in ResultEvents(t)
  BY <1>2, <1>3 DEF Creations, StatusEvents, ResultEvents, GradeEvents, Statuses
<1>5. one \in RightStatus(t)' /\ two \in RightResult(t)'
  BY <1>2, <1>4, RightEventsStay DEF RightStatus, RightResult
<1>6. /\ Quiet(<<one, two>>, Creations(t)) /\ Quiet(<<one, two>>, GradeEvents(t))
      /\ ToldLast(<<one, two>>, StatusEvents(t), RightStatus(t)')
      /\ ToldLast(<<one, two>>, ResultEvents(t), RightResult(t)')
  BY <1>4, <1>5, TwoTold
<1>7. TaskTold(t, <<one, two>>)
  BY <1>2, <1>6 DEF TaskTold, TaskMoved, Followed
<1>8. ASSUME NEW other \in TaskIds PROVE TaskTold(other, <<one, two>>)
  <2>1. CASE other # t
    <3>1. one \notin TaskEvents(other) /\ two \notin TaskEvents(other)
      BY <1>3, <2>1, OtherTask
    <3>2. QED
      BY <1>2, <2>1, <3>1, TwoTold DEF TaskTold
  <2>2. QED
    BY <1>7, <2>1
<1>9. UNCHANGED <<agents, proposals>>
  BY <1>1 DEF CompleteTask, registryVars, agentVars
<1>10. one \in TaskEvent /\ two \in TaskEvent
  BY <1>2, <1>3 DEF TaskEvent, Statuses
<1>11. <<one, two>> \in Seq(TaskEvent) /\ <<one, two>> \in Seq(MarketEvent)
  BY <1>10 DEF MarketEvent
<1>12. QED
  BY <1>1, <1>8, <1>9, <1>11, TasksTell

\* cancelTask tells of the new status; there is no result, before and after.
LEMMA CancelTells ==
  ASSUME TaskInv, NEW sender \in Accounts, NEW t \in TaskIds, Cancel(sender, t)
  PROVE  \E events \in Seq(MarketEvent) : Emits(events) /\ Tells(events)
<1> DEFINE event == TaskStatusChanged(t)
<1>1. CancelTask(sender, t) /\ Emits(<<event>>) /\ tasks \in [TaskIds -> TaskData]
  BY DEF Cancel, TaskInv, TaskTypeOK
<1>2. /\ tasks[t].status \notin {"COMPLETED", "CANCELED"} /\ tasks'[t].status = "CANCELED"
      /\ tasks'[t].issuer = tasks[t].issuer /\ tasks'[t].assignee = tasks[t].assignee
      /\ tasks'[t].proposalId = tasks[t].proposalId /\ tasks'[t].rating = tasks[t].rating
      /\ \A other \in TaskIds : other # t => tasks'[other] = tasks[other]
  BY <1>1 DEF CancelTask, TaskData
<1>3. tasks[t].status # "CREATED"
  BY <1>1, TouchedTasksExist DEF CancelTask, TaskInv, TasksBelowCounter
<1>4. event = [type |-> "TaskStatusChanged", task |-> t, status |-> tasks'[t].status]
  BY DEF TaskStatusChanged
<1> HIDE DEF event
<1>5. /\ event \notin Creations(t) /\ event \notin ResultEvents(t) /\ event \notin GradeEvents(t)
      /\ event \in StatusEvents(t) /\ event.status = tasks'[t].status
  BY <1>2, <1>4 DEF Creations, StatusEvents, ResultEvents, GradeEvents, Statuses
<1>6. event \in RightStatus(t)'
  BY <1>5, RightEventsStay DEF RightStatus
<1>7. /\ Quiet(<<event>>, Creations(t)) /\ Quiet(<<event>>, GradeEvents(t))
      /\ Quiet(<<event>>, ResultEvents(t))
      /\ ToldLast(<<event>>, StatusEvents(t), RightStatus(t)')
  BY <1>5, <1>6, OneTold
<1>8. SameOutcome(t)
  BY <1>2 DEF SameOutcome
<1>9. TaskTold(t, <<event>>)
  BY <1>2, <1>3, <1>7, <1>8 DEF TaskTold, TaskMoved, Followed
<1>10. ASSUME NEW other \in TaskIds PROVE TaskTold(other, <<event>>)
  <2>1. CASE other # t
    <3>1. event \notin TaskEvents(other)
      BY <1>4, <2>1, OtherTask
    <3>2. QED
      BY <1>2, <2>1, <3>1, OneTold DEF TaskTold
  <2>2. QED
    BY <1>9, <2>1
<1>11. UNCHANGED <<agents, proposals>>
  BY <1>1 DEF CancelTask, registryVars, agentVars
<1>12. event \in TaskEvent
  BY <1>2, <1>4 DEF TaskEvent, Statuses
<1>13. <<event>> \in Seq(TaskEvent) /\ <<event>> \in Seq(MarketEvent)
  BY <1>12 DEF MarketEvent
<1>14. QED
  BY <1>1, <1>10, <1>11, <1>13, TasksTell

\* rateTask tells of the agent's new reputation and of the rating.
LEMMA RateTells ==
  ASSUME TaskInv, NEW sender \in Accounts, NEW t \in TaskIds, NEW rating \in Ratings,
         Rate(sender, t, rating)
  PROVE  \E events \in Seq(MarketEvent) : Emits(events) /\ Tells(events)
<1> DEFINE agent == GetProposal(tasks[t].proposalId).issuer
           one == ReputationUpdated(agent)
           two == TaskRated(t)
<1>1. RateTask(sender, t, rating) /\ Emits(<<one, two>>) /\ tasks \in [TaskIds -> TaskData]
  BY DEF Rate, TaskInv, TaskTypeOK
<1>2. AgentTypeOK /\ TaskInv' /\ AgentTypeOK'
  BY <1>1, TaskInvStep DEF TaskStep, Next, TaskInv, TaskTypeOK
<1>3. agent \in AgentKeys /\ RatingAdded(TaskRegistryAddress, agent, rating)
  BY <1>1, <1>2, GetProposalType DEF ServiceProposal, RateTask, AddRating
<1>4. /\ tasks[t].status = "COMPLETED" /\ tasks'[t].status = "COMPLETED"
      /\ tasks'[t].issuer = tasks[t].issuer /\ tasks'[t].assignee = tasks[t].assignee
      /\ tasks'[t].proposalId = tasks[t].proposalId /\ tasks'[t] \in TaskData
      /\ \A other \in TaskIds : other # t => tasks'[other] = tasks[other]
  BY <1>1, <1>2 DEF RateTask, TaskData, TaskInv, TaskTypeOK
<1>5. UNCHANGED proposals
  BY <1>1 DEF RateTask, AddRating
<1> HIDE DEF agent
<1>6. /\ agents'[agent].agent = agents[agent].agent
      /\ agents'[agent].owner = agents[agent].owner
      /\ agents'[agent].metadata = agents[agent].metadata
      /\ \A other \in AgentKeys : other # agent => agents'[other] = agents[other]
  BY <1>2, <1>3 DEF RatingAdded, AgentTypeOK, AgentData
<1>7. agents'[agent].reputation \in Nat
  BY <1>2, <1>3 DEF AgentTypeOK, AgentData
<1>8. /\ one = [type |-> "ReputationUpdated", agent |-> agent,
                reputation |-> agents'[agent].reputation]
      /\ two = [type |-> "TaskRated", task |-> t, rating |-> tasks'[t].rating]
  BY DEF ReputationUpdated, TaskRated
<1> HIDE DEF one, two
<1>9. one \in RegistryEvent /\ two \in TaskEvent
  BY <1>3, <1>4, <1>7, <1>8 DEF RegistryEvent, TaskEvent, TaskData
<1>10. /\ Len(<<one, two>>) = 2 /\ <<one, two>>[1] = one /\ <<one, two>>[2] = two
       /\ <<one, two>> \in Seq(MarketEvent)
  BY <1>9 DEF MarketEvent
<1>11. ASSUME NEW other \in AgentKeys
       PROVE  AgentTold(other, <<one, two>>) /\ RatingTold(other, <<one, two>>)
  <2>1. /\ IsAgent(other)' = IsAgent(other)
        /\ agents'[other].owner = agents[other].owner
        /\ agents'[other].metadata = agents[other].metadata
    BY <1>6 DEF IsAgent
  <2>2. \A k \in 1 .. Len(<<one, two>>) :
          <<one, two>>[k].type \notin {"AgentRegistered", "AgentDataUpdated"}
    BY <1>8, <1>10
  <2>3. AgentTold(other, <<one, two>>)
    BY <2>1, <2>2, NothingTold
  <2>4. two \notin RatingEvents(other)
    BY <1>8 DEF RatingEvents, Registrations
  <2>5. CASE other = agent
    <3>1. one \in RightRating(other)'
      BY <1>7, <1>8, <2>5 DEF RightRating, RatingEvents
    <3>2. ToldLast(<<one, two>>, RatingEvents(other), RightRating(other)')
      BY <2>4, <3>1, TwoTold
    <3>3. QED
      BY <2>3, <3>2 DEF RatingTold, Followed
  <2>6. CASE other # agent
    <3>1. one \notin RatingEvents(other)
      BY <1>8, <2>6 DEF RatingEvents, Registrations
    <3>2. Quiet(<<one, two>>, RatingEvents(other))
      BY <2>4, <3>1, TwoTold
    <3>3. Rated(other)' => Rated(other) /\ agents'[other].reputation = agents[other].reputation
      BY <1>6, <2>6 DEF Rated, IsAgent
    <3>4. QED
      BY <2>3, <3>2, <3>3 DEF RatingTold, Followed
  <2>7. QED
    BY <2>5, <2>6
<1>12. ASSUME NEW id \in ProposalIds
       PROVE  OfferTold(id, <<one, two>>)
  <2>1. \A k \in 1 .. Len(<<one, two>>) : <<one, two>>[k].type # "ProposalAdded"
    BY <1>8, <1>10
  <2>2. QED
    BY <1>5, <2>1, NoOfferTold
<1>13. /\ one \notin TaskEvents(t) /\ two \notin Creations(t) /\ two \notin StatusEvents(t)
       /\ two \notin ResultEvents(t) /\ two \in GradeEvents(t) /\ two.rating = tasks'[t].rating
  <2>1. one \notin TaskEvents(t)
    BY <1>8, OtherTask DEF RegistryTypes
  <2>2. QED
    BY <1>4, <1>8, <2>1 DEF Creations, StatusEvents, ResultEvents, GradeEvents, TaskData
<1>14. /\ one \notin Creations(t) /\ one \notin StatusEvents(t) /\ one \notin ResultEvents(t)
  BY <1>13 DEF TaskEvents, StatusEvents
<1>15. two \in RightGrade(t)'
  BY <1>13, RightEventsStay DEF RightGrade
<1>16. /\ Quiet(<<one, two>>, Creations(t)) /\ Quiet(<<one, two>>, StatusEvents(t))
       /\ Quiet(<<one, two>>, ResultEvents(t))
       /\ ToldLast(<<one, two>>, GradeEvents(t), RightGrade(t)')
  BY <1>13, <1>14, <1>15, TwoTold
<1>17. TaskTold(t, <<one, two>>)
  BY <1>4, <1>16 DEF TaskTold, TaskMoved, Followed, SameOutcome
<1>18. ASSUME NEW other \in TaskIds PROVE TaskTold(other, <<one, two>>)
  <2>1. CASE other # t
    <3>1. one \notin TaskEvents(other) /\ two \notin TaskEvents(other)
      BY <1>8, <2>1, OtherTask DEF RegistryTypes
    <3>2. QED
      BY <1>4, <2>1, <3>1, TwoTold DEF TaskTold
  <2>2. QED
    BY <1>17, <2>1
<1>19. QED
  BY <1>1, <1>10, <1>11, <1>12, <1>18 DEF Tells

\* Three parts of a queue, however they are put together.
LEMMA ThreeParts ==
  ASSUME NEW E, NEW one \in Seq(E), NEW two \in Seq(E), NEW three \in Seq(E)
  PROVE  (one \o two) \o three = one \o (two \o three)
OBVIOUS

\* What the events of both parts of a queue have for a type.
LEMMA TypesJoined ==
  ASSUME NEW E, NEW events \in Seq(E), NEW more \in Seq(E), NEW Types,
         \A k \in 1 .. Len(events) : events[k].type \in Types,
         \A k \in 1 .. Len(more) : more[k].type \in Types
  PROVE  \A k \in 1 .. Len(events \o more) : (events \o more)[k].type \in Types
<1> DEFINE all == events \o more
<1>1. /\ Len(events) \in Nat
      /\ \A k \in 1 .. Len(events) : all[k] = events[k]
      /\ \A k \in 1 .. Len(more) : all[Len(events) + k] = more[k]
      /\ \A k \in 1 .. Len(all) :
           k \in 1 .. Len(events) \/ k - Len(events) \in 1 .. Len(more)
  BY Joined
<1> HIDE DEF all
<1>2. ASSUME NEW k \in 1 .. Len(all), k - Len(events) \in 1 .. Len(more)
      PROVE  all[k].type \in Types
  <2>1. Len(events) + (k - Len(events)) = k
    BY <1>1
  <2>2. QED
    BY <1>1, <1>2, <2>1
<1>3. QED
  BY <1>1, <1>2 DEF all

\* What a transaction adds is announced as proposals.
LEMMA AddedAreProposals ==
  ASSUME AgentTypeOK, AgentTypeOK', nextProposalId' >= nextProposalId
  PROVE  /\ ProposalsAdded \in Seq(RegistryEvent)
         /\ \A k \in 1 .. Len(ProposalsAdded) : ProposalsAdded[k].type = "ProposalAdded"
<1>1. /\ ProposalsAdded \in Seq(RegistryEvent)
      /\ \A k \in 1 .. Len(ProposalsAdded) :
           ProposalsAdded[k] = ProposalAdded(nextProposalId + k - 1)
  BY ProposalsAddedType
<1>2. \A id : ProposalAdded(id).type = "ProposalAdded"
  BY DEF ProposalAdded
<1>3. QED
  BY <1>1, <1>2

\* A transaction that registers an agent, and perhaps services and proposals.
LEMMA NewAgentTells ==
  ASSUME TaskInv, UnregisteredAgentsAreBlank, [Next]_vars, UNCHANGED tasks,
         NEW agent \in AgentAddresses, ~IsAgent(agent),
         NEW metadata, NEW owner, NEW reputation, CreateAgent(agent, metadata, owner, reputation),
         NEW arrived \in Seq(RegistryEvent),
         \A k \in 1 .. Len(arrived) : arrived[k].type = "ServiceRegistered"
  PROVE  /\ (<<AgentRegistered(agent)>> \o arrived) \o ProposalsAdded \in Seq(MarketEvent)
         /\ Tells((<<AgentRegistered(agent)>> \o arrived) \o ProposalsAdded)
<1> DEFINE event == AgentRegistered(agent)
           first == <<event>> \o arrived
           more == arrived \o ProposalsAdded
           all == first \o ProposalsAdded
<1>1. AgentTypeOK /\ AgentTypeOK' /\ nextProposalId' >= nextProposalId /\ agent \in AgentKeys
  BY TaskInvStep, ProposalsOnlyVanish DEF TaskInv, TaskTypeOK, AgentKeys
<1>2. /\ ProposalsAdded \in Seq(RegistryEvent)
      /\ \A k \in 1 .. Len(ProposalsAdded) : ProposalsAdded[k].type = "ProposalAdded"
  BY <1>1, AddedAreProposals
<1>3. event \in RegistryEvent /\ event.type = "AgentRegistered"
  BY <1>1, AgentEventType DEF AgentRegistered
<1>4. /\ more \in Seq(RegistryEvent)
      /\ \A k \in 1 .. Len(more) :
           more[k].type \notin {"AgentRegistered", "AgentDataUpdated", "ReputationUpdated"}
  <2>1. more \in Seq(RegistryEvent)
    BY <1>2
  <2> DEFINE types == {"ServiceRegistered", "ProposalAdded"}
  <2>2. /\ \A k \in 1 .. Len(arrived) : arrived[k].type \in types
        /\ \A k \in 1 .. Len(ProposalsAdded) : ProposalsAdded[k].type \in types
    BY <1>2
  <2> HIDE DEF types
  <2>3. \A k \in 1 .. Len(more) : more[k].type \in types
    BY <1>2, <2>2, TypesJoined
  <2>4. QED
    BY <2>1, <2>3 DEF types
<1>5. /\ first \in Seq(RegistryEvent)
      /\ \A k \in 1 .. Len(first) : first[k].type # "ProposalAdded"
  <2>1. first \in Seq(RegistryEvent)
    BY <1>3
  <2>2. ASSUME NEW k \in 1 .. Len(first) PROVE first[k].type # "ProposalAdded"
    <3> HIDE DEF event
    <3>1. first[1] = event /\ (k = 1 \/ (first[k] = arrived[k - 1] /\ k - 1 \in 1 .. Len(arrived)))
      OBVIOUS
    <3>2. QED
      BY <1>3, <3>1
  <2>3. QED
    BY <2>1, <2>2
<1>6. all = <<event>> \o more
  <2>1. <<event>> \in Seq(RegistryEvent)
    BY <1>3
  <2> HIDE DEF event
  <2>2. QED
    BY <1>2, <2>1, ThreeParts
<1>7. all \in Seq(RegistryEvent) /\ all \in Seq(MarketEvent)
  <2> HIDE DEF first
  <2>1. QED
    BY <1>2, <1>5 DEF MarketEvent
<1>8. ASSUME NEW other \in AgentKeys
      PROVE  AgentTold(other, all) /\ RatingTold(other, all)
  <2> HIDE DEF more
  <2>1. AgentTold(other, <<event>> \o more) /\ RatingTold(other, <<event>> \o more)
    BY <1>1, <1>4, RegistrationTells, RegistrationRates
  <2>2. QED
    BY <1>6, <2>1
<1>9. ASSUME NEW id \in ProposalIds
      PROVE  OfferTold(id, all)
  <2> HIDE DEF first
  <2>1. QED
    BY <1>5, OffersAdded
<1>10. ASSUME NEW t \in TaskIds
       PROVE  TaskTold(t, all)
  <2> HIDE DEF all
  <2>1. QED
    BY <1>7, RegistryTellsNoTask
<1>11. QED
  BY <1>7, <1>8, <1>9, <1>10 DEF Tells

\* A transaction of the registries that registers no agent and rates none.
LEMMA OldAgentsTell ==
  ASSUME TaskInv, [Next]_vars, UNCHANGED tasks,
         \A agent \in AgentKeys : IsAgent(agent)' => agents'[agent] = agents[agent],
         NEW first \in Seq(RegistryEvent),
         \A k \in 1 .. Len(first) : first[k].type \in {"ServiceRegistered", "ServiceUpdated"},
         NEW events \in Seq(RegistryEvent),
         \/ events = first /\ UNCHANGED nextProposalId
         \/ events = first \o ProposalsAdded
  PROVE  events \in Seq(MarketEvent) /\ Tells(events)
<1>1. AgentTypeOK /\ AgentTypeOK' /\ nextProposalId' >= nextProposalId
  BY TaskInvStep, ProposalsOnlyVanish DEF TaskInv, TaskTypeOK
<1>2. /\ ProposalsAdded \in Seq(RegistryEvent)
      /\ \A k \in 1 .. Len(ProposalsAdded) : ProposalsAdded[k].type = "ProposalAdded"
  BY <1>1, AddedAreProposals
<1>3. \A k \in 1 .. Len(events) :
        events[k].type \notin {"AgentRegistered", "AgentDataUpdated", "ReputationUpdated"}
  <2>1. CASE events = first
    BY <2>1
  <2>2. CASE events = first \o ProposalsAdded
    <3> DEFINE types == {"ServiceRegistered", "ServiceUpdated", "ProposalAdded"}
    <3>1. /\ \A k \in 1 .. Len(first) : first[k].type \in types
          /\ \A k \in 1 .. Len(ProposalsAdded) : ProposalsAdded[k].type \in types
      BY <1>2
    <3> HIDE DEF types
    <3>2. \A k \in 1 .. Len(events) : events[k].type \in types
      BY <1>2, <2>2, <3>1, TypesJoined
    <3>3. QED
      BY <3>2 DEF types
  <2>3. QED
    BY <2>1, <2>2
<1>4. \A id \in ProposalIds : OfferTold(id, events)
  <2>1. CASE events = first /\ UNCHANGED nextProposalId
    BY <2>1, OffersKept
  <2>2. CASE events = first \o ProposalsAdded
    BY <2>2, OffersAdded
  <2>3. QED
    BY <2>1, <2>2
<1>5. \A agent \in AgentKeys : AgentTold(agent, events) /\ RatingTold(agent, events)
  BY <1>3, NoAgentTold
<1>6. \A t \in TaskIds : TaskTold(t, events)
  BY RegistryTellsNoTask
<1>7. QED
  BY <1>4, <1>5, <1>6 DEF Tells, MarketEvent

\* Every transaction of the registries tells what it does.
LEMMA RegistryCallTells ==
  ASSUME TaskInv, UnregisteredAgentsAreBlank, NEW sender \in Accounts,
         OfferCall(sender) \/ ServiceCall \/ ContractCall(sender)
  PROVE  \E events \in Seq(MarketEvent) : Emits(events) /\ Tells(events)
<1>1. [Next]_vars /\ AgentTypeOK /\ AgentTypeOK' /\ nextProposalId' >= nextProposalId
  BY CallIsNext, TaskInvStep, ProposalsOnlyVanish DEF Call, TaskInv, TaskTypeOK
<1>2. ProposalsAdded \in Seq(RegistryEvent)
  BY <1>1, AddedAreProposals
<1>3. /\ <<>> \in Seq(RegistryEvent)
      /\ \A k \in 1 .. Len(<<>>) : <<>>[k].type \in {"ServiceRegistered", "ServiceUpdated"}
      /\ \A k \in 1 .. Len(<<>>) : <<>>[k].type = "ServiceRegistered"
  <2>1. <<>> \in Seq(RegistryEvent) /\ \A k \in 1 .. Len(<<>>) : FALSE
    OBVIOUS
  <2>2. QED
    BY <2>1
<1>4. ASSUME Emits(<<>>), UNCHANGED <<tasks, nextProposalId>>,
             \A agent \in AgentKeys : IsAgent(agent)' => agents'[agent] = agents[agent]
      PROVE  \E events \in Seq(MarketEvent) : Emits(events) /\ Tells(events)
  <2>1. <<>> \in Seq(MarketEvent) /\ Tells(<<>>)
    BY <1>1, <1>3, <1>4, OldAgentsTell
  <2>2. QED
    BY <1>4, <2>1
<1>5. ASSUME NEW agent \in AgentAddresses, ~IsAgent(agent), NEW metadata, NEW owner,
             NEW reputation, CreateAgent(agent, metadata, owner, reputation), UNCHANGED tasks,
             NEW arrived \in Seq(RegistryEvent),
             \A k \in 1 .. Len(arrived) : arrived[k].type = "ServiceRegistered",
             Emits((<<AgentRegistered(agent)>> \o arrived) \o ProposalsAdded)
      PROVE  \E events \in Seq(MarketEvent) : Emits(events) /\ Tells(events)
  BY <1>1, <1>5, NewAgentTells
<1>6. ASSUME NEW agent \in AgentAddresses, NEW metadata, NEW name, NEW price, NEW token,
             RegisterWithOffer(sender, agent, metadata, name, price, token)
      PROVE  \E events \in Seq(MarketEvent) : Emits(events) /\ Tells(events)
  <2>1. /\ ~IsAgent(agent) /\ CreateAgent(agent, metadata, sender, 0) /\ UNCHANGED tasks
        /\ Emits(<<AgentRegistered(agent)>> \o ProposalsAdded)
    BY <1>6 DEF RegisterWithOffer, RegisterAgentWithService, taskVars
  <2>2. <<AgentRegistered(agent)>> \o <<>> = <<AgentRegistered(agent)>>
    OBVIOUS
  <2>3. Emits((<<AgentRegistered(agent)>> \o <<>>) \o ProposalsAdded)
    BY <2>1, <2>2
  <2>4. QED
    BY <1>3, <1>5, <2>1, <2>3
<1>7. ASSUME NEW agent, NEW name, NEW price, NEW token, Offer(sender, agent, name, price, token)
      PROVE  \E events \in Seq(MarketEvent) : Emits(events) /\ Tells(events)
  <2>1. UNCHANGED <<agents, tasks>> /\ Emits(ProposalsAdded)
    BY <1>7 DEF Offer, AddProposal, taskVars
  <2>2. ProposalsAdded = <<>> \o ProposalsAdded
    BY <1>2
  <2>3. ProposalsAdded \in Seq(MarketEvent) /\ Tells(ProposalsAdded)
    BY <1>1, <1>2, <1>3, <2>1, <2>2, OldAgentsTell
  <2>4. QED
    BY <2>1, <2>3
<1>8. ASSUME NEW agent, NEW id, Withdraw(sender, agent, id)
      PROVE  \E events \in Seq(MarketEvent) : Emits(events) /\ Tells(events)
  BY <1>4, <1>8 DEF Withdraw, RemoveProposal, taskVars
<1>9. ASSUME NEW agent \in AgentAddresses, Migrate(sender, agent)
      PROVE  \E events \in Seq(MarketEvent) : Emits(events) /\ Tells(events)
  <2> DEFINE new == {name \in Names :
                       services'[IndexedServices][name] # services[IndexedServices][name]}
  <2>1. PICK order \in [1 .. Cardinality(new) -> new] :
          Emit(<<AgentRegistered(agent)>>
                 \o [k \in DOMAIN order |-> ServiceEvent("ServiceRegistered", order[k])]
                 \o ProposalsAdded)
    BY <1>9 DEF Migrate, EmitMigration, ServicesAdded
  <2> DEFINE arrived == [k \in DOMAIN order |-> ServiceEvent("ServiceRegistered", order[k])]
  <2>2. Cardinality(new) \in Nat /\ new \subseteq Names
    BY ServiceConstants, FS_Subset, FS_CardinalityType
  <2> HIDE DEF new
  <2>3. \A name \in Names : ServiceEvent("ServiceRegistered", name) \in RegistryEvent
    BY <1>1, ServiceEventType
  <2>4. /\ arrived \in Seq(RegistryEvent)
        /\ \A k \in 1 .. Len(arrived) : arrived[k].type = "ServiceRegistered"
    BY <2>2, <2>3 DEF ServiceEvent
  <2>5. Emits((<<AgentRegistered(agent)>> \o arrived) \o ProposalsAdded)
    BY <1>9, <2>1 DEF Emits, Migrate
  <2> HIDE DEF arrived
  <2>6. /\ ~IsAgent(agent) /\ UNCHANGED tasks
        /\ CreateAgent(agent, V1Agents[agent].metadata, V1Agents[agent].owner,
                       V1Agents[agent].reputation)
    BY <1>9 DEF Migrate, MigrateAgent, taskVars
  <2>7. QED
    BY <1>5, <2>4, <2>5, <2>6
<1>10. ASSUME NEW agent \in AgentAddresses, Leave(sender, agent)
       PROVE  \E events \in Seq(MarketEvent) : Emits(events) /\ Tells(events)
  <2>1. agents' = [agents EXCEPT ![agent] = NoAgent] /\ UNCHANGED <<tasks, nextProposalId>>
    BY <1>10 DEF Leave, RemoveAgent, taskVars
  <2>2. ASSUME NEW other \in AgentKeys, IsAgent(other)' PROVE agents'[other] = agents[other]
    BY <1>1, <2>1, <2>2 DEF AgentTypeOK, IsAgent, NoAgent
  <2>3. QED
    BY <1>4, <1>10, <2>1, <2>2 DEF Leave
<1>11. ASSUME NEW type \in {"ServiceRegistered", "ServiceUpdated"}, NEW name \in Names,
              Emits(<<ServiceEvent(type, name)>>), UNCHANGED <<agents, tasks, nextProposalId>>
       PROVE  \E events \in Seq(MarketEvent) : Emits(events) /\ Tells(events)
  <2> DEFINE event == ServiceEvent(type, name)
  <2>1. event \in RegistryEvent /\ event.type = type
    BY <1>1, ServiceEventType DEF ServiceEvent
  <2> HIDE DEF event
  <2>2. <<event>> \in Seq(RegistryEvent) /\ \A k \in 1 .. Len(<<event>>) : <<event>>[k].type = type
    BY <2>1
  <2>3. <<event>> \in Seq(MarketEvent) /\ Tells(<<event>>)
    BY <1>1, <1>11, <2>2, OldAgentsTell
  <2>4. QED
    BY <1>11, <2>3 DEF event
<1>12. CASE OfferCall(sender)
  BY <1>6, <1>7, <1>8, <1>12 DEF OfferCall
<1>13. CASE ServiceCall
  BY <1>11, <1>13 DEF ServiceCall, agentVars, taskVars
<1>14. CASE ContractCall(sender)
  <2>1. ASSUME NEW address, SetTaskRegistry(sender, address), Emits(<<>>), UNCHANGED taskVars
        PROVE  \E events \in Seq(MarketEvent) : Emits(events) /\ Tells(events)
    BY <1>4, <2>1 DEF SetTaskRegistry, taskVars
  <2>2. QED
    BY <1>9, <1>10, <1>11, <1>14, <2>1 DEF ContractCall, agentVars, taskVars
<1>15. QED
  BY <1>12, <1>13, <1>14

\* Every transaction of the market tells what it does.
LEMMA CallTells ==
  ASSUME TaskInv, UnregisteredAgentsAreBlank, NEW sender \in Accounts, Call(sender)
  PROVE  \E events \in Seq(MarketEvent) : Emits(events) /\ Tells(events)
BY RegistryCallTells, CompleteTells, RateTells, CancelTells DEF Call, TaskCall

\* Agents that are not registered stay blank on the market, where only the task
\* registry rates.
LEMMA CallKeepsBlank ==
  ASSUME TaskInv, ProposalsHaveAgents, UnregisteredAgentsAreBlank,
         NEW sender \in Accounts, Call(sender)
  PROVE  UnregisteredAgentsAreBlank'
<1>0. AgentTypeOK
  BY DEF TaskInv, TaskTypeOK
<1>1. CASE UNCHANGED agents
  BY <1>1 DEF UnregisteredAgentsAreBlank, IsAgent
<1>2. ASSUME NEW agent \in AgentAddresses, AgentStep(sender, agent)
      PROVE  UnregisteredAgentsAreBlank'
  BY <1>0, <1>2, AgentStepKeepsBlank
<1>3. CASE TaskCall(sender)
  BY <1>1, <1>3, RateTaskKeepsBlank
     DEF TaskCall, Complete, Rate, Cancel, CompleteTask, CancelTask, registryVars, agentVars
<1>4. CASE OfferCall(sender)
  BY <1>2, <1>4 DEF OfferCall, RegisterWithOffer, Offer, Withdraw, AgentStep
<1>5. CASE ServiceCall
  BY <1>1, <1>5 DEF ServiceCall, agentVars
<1>6. CASE ContractCall(sender)
  <2>1. ASSUME NEW agent \in AgentAddresses, Migrate(sender, agent) \/ Leave(sender, agent)
        PROVE  UnregisteredAgentsAreBlank'
    BY <1>2, <2>1 DEF Migrate, Leave, AgentStep
  <2>2. QED
    BY <1>1, <1>6, <2>1 DEF ContractCall, SetTaskRegistry, agentVars
<1>7. QED
  BY <1>3, <1>4, <1>5, <1>6 DEF Call

\* Transactions leave the market followed.
LEMMA TransactionsAreFollowed ==
  ASSUME MarketInv, ProposalsHaveAgents, MarketFollowed,
         \/ \E sender \in Accounts : Call(sender)
         \/ \E c \in Clients : MineTask(c)
  PROVE  MarketFollowed'
<1>1. TaskInv /\ GraphTypeOK /\ UnregisteredAgentsAreBlank /\ AllFollowed
  BY DEF MarketInv, GraphInv, MarketFollowed
<1>2. ASSUME NEW sender \in Accounts, Call(sender)
      PROVE  MarketFollowed'
  BY <1>1, <1>2, CallTells, CallKeepsBlank, AllJoinTheQueue DEF MarketFollowed
<1>3. ASSUME NEW c \in Clients, MineTask(c)
      PROVE  MarketFollowed'
  <2>1. clients[c].runner \in Accounts /\ clients[c].price \in Values
    BY MarketConstants DEF MarketInv, Client
  <2>2. Create(clients[c].runner, clients[c].proposal, clients[c].price)
    BY <1>3 DEF MineTask
  <2>3. UNCHANGED agents
    BY <2>2 DEF Create, CreateTask, registryVars, agentVars
  <2>4. UnregisteredAgentsAreBlank'
    BY <1>1, <2>3 DEF UnregisteredAgentsAreBlank, IsAgent
  <2>5. QED
    BY <1>1, <2>1, <2>2, <2>4, CreateTells, AllJoinTheQueue DEF MarketFollowed
<1>4. QED
  BY <1>2, <1>3

-----------------------------------------------------------------------------
(* Handlers take what is told.                                              *)

\* What the handler of the oldest event does to the entities.
RatingWritten(agent) ==
  LET event == Head(pending)
      old == agentEntities[agent]
      new == agentEntities'[agent]
  IN /\ event \notin RatingEvents(agent) => new.reputation = old.reputation
     /\ event \in RatingEvents(agent) \ Registrations(agent) /\ old.known =>
          new.reputation = event.reputation
OfferWritten(id) ==
  proposalEntities[id].known \/ Head(pending) \in Announcements(id) => proposalEntities'[id].known
TaskWritten(t) ==
  LET event == Head(pending)
      old == taskEntities[t]
      new == taskEntities'[t]
      made == event \in Creations(t)
  IN /\ made => new = IF event.assignee \in Blacklisted THEN old
                      ELSE [known |-> TRUE, issuer |-> event.issuer, assignee |-> event.assignee,
                            proposalId |-> event.proposalId, status |-> "ASSIGNED",
                            rating |-> 0, result |-> FALSE]
     /\ ~made => /\ new.known = old.known /\ new.issuer = old.issuer
                 /\ new.assignee = old.assignee /\ new.proposalId = old.proposalId
     /\ event \notin StatusEvents(t) => new.status = old.status
     /\ event \notin ResultEvents(t) => new.result = old.result
     /\ event \notin GradeEvents(t) => new.rating = old.rating
     /\ ~made /\ old.known =>
          /\ event \in StatusEvents(t) => new.status = event.status
          /\ event \in ResultEvents(t) => new.result = TRUE
          /\ event \in GradeEvents(t) => new.rating = event.rating

\* A reputation is written only if the agent is known: when no registration is
\* left in the queue, it is.
LEMMA RatingTaken ==
  ASSUME NEW E, pending \in Seq(E), pending # <<>>, pending' = Tail(pending), UNCHANGED agents,
         NEW agent \in AgentKeys, AgentFollowed(agent), RatingFollowed(agent),
         RatingWritten(agent)
  PROVE  RatingFollowed(agent)'
<1> DEFINE event == Head(pending)
           about == RatingEvents(agent)
<1>0. SUFFICES ASSUME Rated(agent)
               PROVE  Followed(pending', about, RightRating(agent), RatingShown(agent)')
  <2>1. /\ Rated(agent)' = Rated(agent) /\ RatingEvents(agent)' = RatingEvents(agent)
        /\ RightRating(agent)' = RightRating(agent)
    BY DEF Rated, IsAgent, RightRating, RatingEvents, Registrations
  <2>2. QED
    BY <2>1 DEF RatingFollowed
<1>1. /\ Followed(pending, about, RightRating(agent), RatingShown(agent))
      /\ Followed(pending, Registrations(agent), RightOwner(agent), OwnerShown(agent))
  BY <1>0 DEF RatingFollowed, AgentFollowed, Rated
<1>2. event \notin about => agentEntities'[agent].reputation = agentEntities[agent].reputation
  BY DEF RatingWritten
<1>3. RatingShown(agent) /\ event \notin about => RatingShown(agent)'
  BY <1>2 DEF RatingShown
<1>4. ASSUME event \in RightRating(agent), Quiet(Tail(pending), about)
      PROVE  RatingShown(agent)'
  <2>1. /\ event \in about /\ event \notin Registrations(agent)
        /\ event.reputation = agents[agent].reputation
    BY <1>4 DEF RightRating, Registrations
  <2>2. Quiet(Tail(pending), Registrations(agent))
    BY <1>4 DEF Quiet, RatingEvents
  <2>3. RightOwner(agent) \subseteq Registrations(agent)
    BY DEF RightOwner
  <2>4. agentEntities[agent].known
    BY <1>1, <2>1, <2>2, <2>3, NoneLeft DEF OwnerShown
  <2>5. agentEntities'[agent].reputation = event.reputation
    BY <2>1, <2>4 DEF RatingWritten
  <2>6. QED
    BY <2>1, <2>5 DEF RatingShown
<1> HIDE DEF about
<1>5. QED
  BY <1>1, <1>3, <1>4, TakeOne

\* An announced proposal becomes known.
LEMMA OfferTaken ==
  ASSUME NEW E, pending \in Seq(E), pending # <<>>, pending' = Tail(pending),
         UNCHANGED proposals, NEW id \in ProposalIds, OfferFollowed(id), OfferWritten(id)
  PROVE  OfferFollowed(id)'
<1> DEFINE about == Announcements(id)
<1>0. SUFFICES ASSUME proposals[id].isActive
               PROVE  Followed(pending', about, about, proposalEntities'[id].known)
  BY DEF OfferFollowed, Announcements, ProposalTerms
<1>1. Followed(pending, about, about, proposalEntities[id].known)
  BY <1>0 DEF OfferFollowed
<1>2. /\ proposalEntities[id].known => proposalEntities'[id].known
      /\ Head(pending) \in about => proposalEntities'[id].known
  BY DEF OfferWritten
<1> HIDE DEF about
<1>3. QED
  BY <1>1, <1>2, TakeOne

\* The entity of a task is made from its announcement; what comes after that
\* finds it.  A blacklisted agent's tasks have no entity.
LEMMA TaskTaken ==
  ASSUME NEW E, pending \in Seq(E), pending # <<>>, pending' = Tail(pending), UNCHANGED tasks,
         NEW t \in TaskIds, TaskFollowed(t), TaskWritten(t)
  PROVE  TaskFollowed(t)'
<1> DEFINE event == Head(pending)
           old == taskEntities[t]
           new == taskEntities'[t]
           made == event \in Creations(t)
<1>1. /\ Creations(t)' = Creations(t) /\ StatusEvents(t)' = StatusEvents(t)
      /\ ResultEvents(t)' = ResultEvents(t) /\ GradeEvents(t)' = GradeEvents(t)
      /\ RightDeal(t)' = RightDeal(t) /\ RightStatus(t)' = RightStatus(t)
      /\ RightResult(t)' = RightResult(t) /\ RightGrade(t)' = RightGrade(t)
      /\ Hidden(t)' = Hidden(t)
  BY RightEventsStay DEF SameOutcome, Hidden
<1>2. /\ Len(pending) \in Nat /\ 1 \in 1 .. Len(pending) /\ event = pending[1]
      /\ \A k \in 1 .. Len(pending') : k + 1 \in 1 .. Len(pending) /\ pending'[k] = pending[k + 1]
  OBVIOUS
<1>3. CreationsTrue(t)'
  BY <1>1, <1>2 DEF TaskFollowed, CreationsTrue
<1>4. made => /\ tasks[t].status # "CREATED" /\ event.issuer = tasks[t].issuer
              /\ event.assignee = tasks[t].assignee /\ event.proposalId = tasks[t].proposalId
  BY <1>2 DEF TaskFollowed, CreationsTrue, RightDeal
<1> HIDE DEF made, event, old, new
<1>5. CASE Hidden(t)
  <2>1. ~old.known
    BY <1>5 DEF TaskFollowed, old
  <2>2. made => new = old
    BY <1>4, <1>5 DEF Hidden, TaskWritten, made, event, old, new
  <2>3. ~made => new.known = old.known
    BY DEF TaskWritten, made, event, old, new
  <2>4. ~new.known
    BY <2>1, <2>2, <2>3
  <2>5. QED
    BY <1>1, <1>3, <1>5, <2>4 DEF TaskFollowed, new
<1>6. CASE ~Hidden(t)
  <2>1. /\ Followed(pending, Creations(t), RightDeal(t), DealShown(t))
        /\ Followed(pending, StatusEvents(t), RightStatus(t), StatusShown(t))
        /\ Followed(pending, ResultEvents(t), RightResult(t), ResultShown(t))
        /\ Followed(pending, GradeEvents(t), RightGrade(t), GradeShown(t))
    BY <1>6 DEF TaskFollowed
  <2>2. made => new = [known |-> TRUE, issuer |-> event.issuer, assignee |-> event.assignee,
                       proposalId |-> event.proposalId, status |-> "ASSIGNED",
                       rating |-> 0, result |-> FALSE]
    BY <1>4, <1>6 DEF Hidden, TaskWritten, made, event, old, new
  <2>3. ~made => /\ new.known = old.known /\ new.issuer = old.issuer
                 /\ new.assignee = old.assignee /\ new.proposalId = old.proposalId
    BY DEF TaskWritten, made, event, old, new
  <2>4. /\ event \notin StatusEvents(t) => new.status = old.status
        /\ event \notin ResultEvents(t) => new.result = old.result
        /\ event \notin GradeEvents(t) => new.rating = old.rating
    BY DEF TaskWritten, made, event, old, new
  <2>5. ~made /\ old.known =>
          /\ event \in StatusEvents(t) => new.status = event.status
          /\ event \in ResultEvents(t) => new.result = TRUE
          /\ event \in GradeEvents(t) => new.rating = event.rating
    BY DEF TaskWritten, made, event, old, new
  <2>6. ASSUME ~made, Quiet(Tail(pending), Creations(t))
        PROVE  old.known
    <3>1. RightDeal(t) \subseteq Creations(t)
      BY DEF RightDeal
    <3>2. event \in RightDeal(t) \/ DealShown(t)
      BY <2>1, <2>6, <3>1, NoneLeft DEF event
    <3>3. QED
      BY <2>6, <3>1, <3>2 DEF made, DealShown, old
  <2>7. Followed(pending', Creations(t), RightDeal(t), DealShown(t)')
    <3>1. event \in RightDeal(t) => DealShown(t)'
      BY <1>4, <2>2 DEF made, RightDeal, DealShown, new
    <3>2. DealShown(t) /\ event \notin Creations(t) => DealShown(t)'
      BY <2>3 DEF made, DealShown, old, new
    <3>3. QED
      BY <2>1, <3>1, <3>2, TakeOne DEF event
  <2>8. Followed(pending', StatusEvents(t), RightStatus(t), StatusShown(t)')
    <3>1. ASSUME event \in RightStatus(t), Quiet(Tail(pending), StatusEvents(t))
          PROVE  StatusShown(t)'
      <4>1. Quiet(Tail(pending), Creations(t))
        BY <3>1 DEF Quiet, StatusEvents
      <4>2. event \in StatusEvents(t) /\ tasks[t].status = IF made THEN "ASSIGNED" ELSE event.status
        BY <3>1 DEF RightStatus, made
      <4>3. QED
        BY <2>2, <2>5, <2>6, <4>1, <4>2 DEF StatusShown, new
    <3>2. StatusShown(t) /\ event \notin StatusEvents(t) => StatusShown(t)'
      BY <2>4 DEF StatusShown, old, new
    <3>3. QED
      BY <2>1, <3>1, <3>2, TakeOne DEF event
  <2>9. Followed(pending', ResultEvents(t), RightResult(t), ResultShown(t)')
    <3>1. ASSUME event \in RightResult(t), Quiet(Tail(pending), ResultEvents(t))
          PROVE  ResultShown(t)'
      <4>1. Quiet(Tail(pending), Creations(t))
        BY <3>1 DEF Quiet, ResultEvents
      <4>2. event \in ResultEvents(t) /\ ((tasks[t].status = "COMPLETED") <=> ~made)
        BY <3>1 DEF RightResult, made
      <4>3. CASE made
        <5>1. new.result = FALSE /\ (tasks[t].status = "COMPLETED") = FALSE
          BY <2>2, <4>2, <4>3
        <5>2. QED
          BY <5>1 DEF ResultShown, new
      <4>4. CASE ~made
        <5>1. new.result = TRUE
          BY <2>5, <2>6, <4>1, <4>2, <4>4
        <5>2. (tasks[t].status = "COMPLETED") = TRUE
          BY <4>2, <4>4
        <5>3. QED
          BY <5>1, <5>2 DEF ResultShown, new
      <4>5. QED
        BY <4>3, <4>4
    <3>2. ResultShown(t) /\ event \notin ResultEvents(t) => ResultShown(t)'
      BY <2>4 DEF ResultShown, old, new
    <3>3. QED
      BY <2>1, <3>1, <3>2, TakeOne DEF event
  <2>10. Followed(pending', GradeEvents(t), RightGrade(t), GradeShown(t)')
    <3>1. ASSUME event \in RightGrade(t), Quiet(Tail(pending), GradeEvents(t))
          PROVE  GradeShown(t)'
      <4>1. Quiet(Tail(pending), Creations(t))
        BY <3>1 DEF Quiet, GradeEvents
      <4>2. event \in GradeEvents(t) /\ tasks[t].rating = IF made THEN 0 ELSE event.rating
        BY <3>1 DEF RightGrade, made
      <4>3. QED
        BY <2>2, <2>5, <2>6, <4>1, <4>2 DEF GradeShown, new
    <3>2. GradeShown(t) /\ event \notin GradeEvents(t) => GradeShown(t)'
      BY <2>4 DEF GradeShown, old, new
    <3>3. QED
      BY <2>1, <3>1, <3>2, TakeOne DEF event
  <2>11. QED
    BY <1>1, <1>3, <1>6, <2>7, <2>8, <2>9, <2>10 DEF TaskFollowed
<1>7. QED
  BY <1>5, <1>6

\* What an event is not about is left alone.
LEMMA Untouched ==
  /\ \A agent \in AgentKeys :
       /\ Head(pending).type \notin {"AgentRegistered", "AgentDataUpdated", "ReputationUpdated"}
       /\ agentEntities'[agent] = agentEntities[agent]
       => AgentWritten(agent) /\ RatingWritten(agent)
  /\ \A id \in ProposalIds :
       /\ Head(pending).type # "ProposalAdded"
       /\ proposalEntities'[id] = proposalEntities[id]
       => OfferWritten(id)
  /\ \A t \in TaskIds :
       Head(pending) \notin TaskEvents(t) /\ taskEntities'[t] = taskEntities[t] => TaskWritten(t)
BY DEF AgentWritten, RatingWritten, RatingEvents, Registrations, DataUpdates, DataEvents,
       OfferWritten, Announcements, TaskWritten, TaskEvents, StatusEvents, ResultEvents, GradeEvents

\* What handlers take is the oldest event, one of the registries or of tasks.
LEMMA OldestEvent ==
  ASSUME GraphTypeOK, NEW type, Handles(type)
  PROVE  /\ pending # <<>> /\ pending' = Tail(pending)
         /\ Head(pending) \in MarketEvent /\ Head(pending).type = type
         /\ type \in RegistryTypes => Head(pending) \in RegistryEvent
         /\ type \notin RegistryTypes => Head(pending) \in TaskEvent
<1>1. pending \in Seq(MarketEvent)
  BY DEF GraphTypeOK, MarketEvent
<1>2. Head(pending) \in MarketEvent /\ Head(pending).type = type
  BY <1>1, HandlesType
<1>3. QED
  BY <1>2, EventKinds DEF Handles, MarketEvent

\* The handlers of the registries' events.
LEMMA RegistryHandlerTakes ==
  ASSUME GraphTypeOK, HandleRegistryEvent, UNCHANGED taskEntities
  PROVE  /\ pending # <<>> /\ pending' = Tail(pending)
         /\ \A agent \in AgentKeys : AgentWritten(agent) /\ RatingWritten(agent)
         /\ \A id \in ProposalIds : OfferWritten(id)
         /\ \A t \in TaskIds : TaskWritten(t)
<1> DEFINE event == Head(pending)
<1>1. PICK type \in RegistryTypes : Handles(type)
  BY DEF HandleRegistryEvent, HandleServiceRegistered, HandleServiceUpdated,
         HandleAgentRegistered, HandleUpdateReputation, HandleAgentDataUpdated,
         HandleProposalAdded, RegistryTypes
<1>2. /\ pending # <<>> /\ pending' = Tail(pending) /\ event \in RegistryEvent
      /\ event.type = type
  BY <1>1, OldestEvent
<1>3. ASSUME NEW agent \in AgentKeys PROVE AgentWritten(agent)
  <2> DEFINE Others == TaskEvent
  <2>1. pending \in Seq(RegistryEvent \cup Others) /\ EntityTypeOK
    BY DEF GraphTypeOK
  <2>2. \A other \in Others : other.type \notin RegistryTypes
    BY EventKinds
  <2> HIDE DEF Others
  <2>3. QED
    BY <2>1, <2>2, HandlerWrites
<1>4. ASSUME NEW agent \in AgentKeys PROVE RatingWritten(agent)
  <2>1. CASE HandleServiceRegistered \/ HandleServiceUpdated \/ HandleProposalAdded
    <3>1. event.type \in {"ServiceRegistered", "ServiceUpdated", "ProposalAdded"}
      BY <2>1 DEF HandleServiceRegistered, HandleServiceUpdated, HandleProposalAdded, Handles
    <3>2. UNCHANGED agentEntities
      BY <2>1 DEF HandleServiceRegistered, HandleServiceUpdated, HandleProposalAdded
    <3>3. QED
      BY <3>1, <3>2, Untouched
  <2>2. CASE HandleAgentRegistered
    <3>1. event.type = "AgentRegistered" /\ event.agent \in AgentKeys
      BY <1>2, <2>2 DEF HandleAgentRegistered, Handles, RegistryEvent
    <3>2. event.agent # agent => agentEntities'[agent] = agentEntities[agent]
      BY <2>2 DEF HandleAgentRegistered, GraphTypeOK, EntityTypeOK
    <3>3. event \in RatingEvents(agent) => event \in Registrations(agent)
      BY <3>1 DEF RatingEvents
    <3>4. event.agent = agent => event \in Registrations(agent)
      BY <1>2, <3>1, AgentEventIs
    <3>5. QED
      BY <3>2, <3>3, <3>4 DEF RatingWritten, RatingEvents
  <2>3. CASE HandleUpdateReputation
    <3>1. /\ event.type = "ReputationUpdated" /\ event.agent \in AgentKeys
          /\ event \in RatingEvents(agent) <=> event.agent = agent
      BY <1>2, <2>3 DEF HandleUpdateReputation, Handles, RegistryEvent, RatingEvents, Registrations
    <3>2. event.agent # agent => agentEntities'[agent] = agentEntities[agent]
      BY <2>3 DEF HandleUpdateReputation, GraphTypeOK, EntityTypeOK
    <3>3. event.agent = agent /\ agentEntities[agent].known =>
            agentEntities'[agent].reputation = event.reputation
      BY <2>3 DEF HandleUpdateReputation, GraphTypeOK, EntityTypeOK, AgentEntity
    <3>4. QED
      BY <3>1, <3>2, <3>3 DEF RatingWritten
  <2>4. CASE HandleAgentDataUpdated
    <3>1. event.type = "AgentDataUpdated" /\ event.agent \in AgentKeys
      BY <1>2, <2>4 DEF HandleAgentDataUpdated, Handles, RegistryEvent
    <3>2. event \notin RatingEvents(agent)
      BY <3>1 DEF RatingEvents, Registrations
    <3>3. \/ agentEntities' = [agentEntities EXCEPT
               ![event.agent].metadata = event.metadata,
               ![event.agent].content = Linked(@, event.metadata)]
          \/ UNCHANGED agentEntities
      BY <2>4 DEF HandleAgentDataUpdated
    <3>4. agentEntities'[agent].reputation = agentEntities[agent].reputation
      <4>1. agentEntities \in [AgentKeys -> AgentEntity]
        BY DEF GraphTypeOK, EntityTypeOK
      <4> HIDE DEF event
      <4>2. QED
        BY <3>1, <3>3, <4>1 DEF AgentEntity
    <3>5. QED
      BY <3>2, <3>4 DEF RatingWritten
  <2>5. QED
    BY <2>1, <2>2, <2>3, <2>4 DEF HandleRegistryEvent
<1>5. ASSUME NEW id \in ProposalIds PROVE OfferWritten(id)
  <2>1. CASE HandleProposalAdded
    <3>1. event.type = "ProposalAdded" /\ event.id \in ProposalIds
      BY <1>2, <2>1 DEF HandleProposalAdded, Handles, RegistryEvent
    <3>2. /\ event.id # id => proposalEntities'[id] = proposalEntities[id]
          /\ event.id = id => proposalEntities'[id].known
      BY <2>1 DEF HandleProposalAdded, GraphTypeOK, EntityTypeOK
    <3>3. event \in Announcements(id) => event.id = id
      BY DEF Announcements
    <3>4. QED
      BY <3>2, <3>3 DEF OfferWritten
  <2>2. CASE ~HandleProposalAdded
    <3>1. event.type # "ProposalAdded" /\ UNCHANGED proposalEntities
      BY <2>2 DEF HandleRegistryEvent, HandleServiceRegistered, HandleServiceUpdated,
                  HandleAgentRegistered, HandleUpdateReputation, HandleAgentDataUpdated, Handles
    <3>2. QED
      BY <3>1, Untouched
  <2>3. QED
    BY <2>1, <2>2
<1>6. ASSUME NEW t \in TaskIds PROVE TaskWritten(t)
  BY <1>2, OtherTask, Untouched
<1>7. QED
  BY <1>2, <1>3, <1>4, <1>5, <1>6

\* The handlers of the events of tasks.
LEMMA TaskHandlerTakes ==
  ASSUME GraphTypeOK,
         \/ HandleTaskCreated \/ HandleTaskStatusChanged
         \/ HandleTaskStatusCompleted \/ HandleTaskRated
  PROVE  /\ pending # <<>> /\ pending' = Tail(pending)
         /\ \A agent \in AgentKeys : AgentWritten(agent) /\ RatingWritten(agent)
         /\ \A id \in ProposalIds : OfferWritten(id)
         /\ \A t \in TaskIds : TaskWritten(t)
<1> DEFINE event == Head(pending)
           types == {"TaskCreated", "TaskStatusChanged", "TaskCompleted", "TaskRated"}
<1>1. PICK type \in types : Handles(type)
  BY DEF HandleTaskCreated, HandleTaskStatusChanged, HandleTaskStatusCompleted, HandleTaskRated,
         HandleTask
<1>2. /\ pending # <<>> /\ pending' = Tail(pending) /\ event \in TaskEvent
      /\ event.type = type
  BY <1>1, OldestEvent DEF RegistryTypes
<1>3. UNCHANGED entityVars /\ taskEntities \in [TaskIds -> TaskEntity]
  BY DEF HandleTaskCreated, HandleTaskStatusChanged, HandleTaskStatusCompleted, HandleTaskRated,
         HandleTask, GraphTypeOK
<1>4. ASSUME NEW agent \in AgentKeys PROVE AgentWritten(agent) /\ RatingWritten(agent)
  BY <1>2, <1>3, Untouched DEF entityVars
<1>5. ASSUME NEW id \in ProposalIds PROVE OfferWritten(id)
  BY <1>2, <1>3, Untouched DEF entityVars
<1>6. event.task \in TaskIds
  BY <1>2 DEF TaskEvent
<1>7. ASSUME NEW t \in TaskIds PROVE TaskWritten(t)
  <2>1. CASE event.task # t
    <3>1. taskEntities'[t] = taskEntities[t]
      BY <1>3, <2>1 DEF HandleTaskCreated, HandleTaskStatusChanged, HandleTaskStatusCompleted,
                        HandleTaskRated, HandleTask
    <3>2. event \notin TaskEvents(t)
      BY <2>1, OtherTask
    <3>3. QED
      BY <3>1, <3>2, Untouched
  <2>2. CASE event.task = t /\ HandleTaskCreated
    <3>1. event.type = "TaskCreated"
      BY <2>2 DEF HandleTaskCreated, Handles
    <3>2. event \in Creations(t)
      BY <1>2, <2>2, <3>1 DEF TaskEvent, Creations
    <3>3. taskEntities'[t] =
            IF event.assignee \in Blacklisted THEN taskEntities[t]
            ELSE [known |-> TRUE, issuer |-> event.issuer, assignee |-> event.assignee,
                  proposalId |-> event.proposalId, status |-> "ASSIGNED",
                  rating |-> 0, result |-> FALSE]
      BY <1>3, <2>2 DEF HandleTaskCreated
    <3>4. event \in StatusEvents(t) /\ event \in ResultEvents(t) /\ event \in GradeEvents(t)
      BY <3>2 DEF StatusEvents, ResultEvents, GradeEvents
    <3>5. QED
      BY <3>2, <3>3, <3>4 DEF TaskWritten
  <2>3. CASE event.task = t /\ HandleTaskStatusChanged
    <3>1. event.type = "TaskStatusChanged"
      BY <2>3 DEF HandleTaskStatusChanged, HandleTask, Handles
    <3>2. /\ event \notin Creations(t) /\ event \notin ResultEvents(t)
          /\ event \notin GradeEvents(t) /\ event \in StatusEvents(t)
      BY <1>2, <2>3, <3>1 DEF TaskEvent, Creations, StatusEvents, ResultEvents, GradeEvents
    <3>3. taskEntities'[t] = IF taskEntities[t].known
                             THEN [taskEntities[t] EXCEPT !.status = event.status]
                             ELSE taskEntities[t]
      BY <1>3, <2>3 DEF HandleTaskStatusChanged, HandleTask, EventTask, WithStatus
    <3>4. taskEntities[t] \in TaskEntity
      BY <1>3
    <3>5. QED
      BY <3>2, <3>3, <3>4 DEF TaskWritten, TaskEntity
  <2>4. CASE event.task = t /\ HandleTaskStatusCompleted
    <3>1. event.type = "TaskCompleted"
      BY <2>4 DEF HandleTaskStatusCompleted, HandleTask, Handles
    <3>2. /\ event \notin Creations(t) /\ event \notin StatusEvents(t)
          /\ event \notin GradeEvents(t)
      BY <3>1 DEF Creations, StatusEvents, GradeEvents
    <3>3. taskEntities'[t] = IF taskEntities[t].known
                             THEN [taskEntities[t] EXCEPT !.result = TRUE]
                             ELSE taskEntities[t]
      BY <1>3, <2>4 DEF HandleTaskStatusCompleted, HandleTask, EventTask, WithResult
    <3>4. taskEntities[t] \in TaskEntity /\ event \in ResultEvents(t)
      BY <1>2, <1>3, <2>4, <3>1 DEF TaskEvent, ResultEvents
    <3>5. QED
      BY <3>2, <3>3, <3>4 DEF TaskWritten, TaskEntity
  <2>5. CASE event.task = t /\ HandleTaskRated
    <3>1. event.type = "TaskRated"
      BY <2>5 DEF HandleTaskRated, HandleTask, Handles
    <3>2. /\ event \notin Creations(t) /\ event \notin StatusEvents(t)
          /\ event \notin ResultEvents(t)
      BY <3>1 DEF Creations, StatusEvents, ResultEvents
    <3>3. taskEntities'[t] = IF taskEntities[t].known
                             THEN [taskEntities[t] EXCEPT !.rating = event.rating]
                             ELSE taskEntities[t]
      BY <1>3, <2>5 DEF HandleTaskRated, HandleTask, EventTask, WithRating
    <3>4. taskEntities[t] \in TaskEntity /\ event \in GradeEvents(t)
      BY <1>2, <1>3, <2>5, <3>1 DEF TaskEvent, GradeEvents
    <3>5. QED
      BY <3>2, <3>3, <3>4 DEF TaskWritten, TaskEntity
  <2>6. QED
    BY <2>1, <2>2, <2>3, <2>4, <2>5
<1>8. QED
  BY <1>2, <1>4, <1>5, <1>7

\* Where nothing happens, everything is as followed as it was.
LEMMA NothingHappens ==
  ASSUME UNCHANGED <<agents, proposals, tasks, pending, agentEntities, proposalEntities,
                     taskEntities>>,
         AllFollowed
  PROVE  AllFollowed'
<1>1. ASSUME NEW agent \in AgentKeys PROVE AgentFollowed(agent)' /\ RatingFollowed(agent)'
  <2>1. AgentFollowed(agent) /\ RatingFollowed(agent)
    BY DEF AllFollowed
  <2>2. AgentFollowed(agent)'
    BY <2>1, AgentsStayFollowed
  <2>3. RatingFollowed(agent)'
    BY <2>1 DEF RatingFollowed, Rated, IsAgent, Followed, ToldLast, Quiet, RatingEvents,
                Registrations, RightRating, RatingShown
  <2>4. QED
    BY <2>2, <2>3
<1>2. ASSUME NEW id \in ProposalIds PROVE OfferFollowed(id)'
  BY <1>2 DEF AllFollowed, OfferFollowed, Followed, ToldLast, Quiet, Announcements, ProposalTerms
<1>3. ASSUME NEW t \in TaskIds PROVE TaskFollowed(t)'
  <2>1. /\ Creations(t)' = Creations(t) /\ StatusEvents(t)' = StatusEvents(t)
        /\ ResultEvents(t)' = ResultEvents(t) /\ GradeEvents(t)' = GradeEvents(t)
        /\ RightDeal(t)' = RightDeal(t) /\ RightStatus(t)' = RightStatus(t)
        /\ RightResult(t)' = RightResult(t) /\ RightGrade(t)' = RightGrade(t)
    BY RightEventsStay DEF SameOutcome
  <2>2. TaskFollowed(t)
    BY DEF AllFollowed
  <2>3. CreationsTrue(t)'
    BY <2>1, <2>2 DEF TaskFollowed, CreationsTrue
  <2>4. /\ Hidden(t)' = Hidden(t) /\ DealShown(t)' = DealShown(t)
        /\ StatusShown(t)' = StatusShown(t) /\ ResultShown(t)' = ResultShown(t)
        /\ GradeShown(t)' = GradeShown(t)
    BY DEF Hidden, DealShown, StatusShown, ResultShown, GradeShown
  <2>5. QED
    BY <2>1, <2>2, <2>3, <2>4 DEF TaskFollowed
<1>4. QED
  BY <1>1, <1>2, <1>3 DEF AllFollowed

\* A step of the subgraph leaves the market followed.
LEMMA HandlersFollow ==
  ASSUME GraphTypeOK, MarketFollowed, HandleEvent \/ FindFile, UNCHANGED vars
  PROVE  MarketFollowed'
<1>1. UNCHANGED <<agents, proposals, tasks>>
  BY DEF vars, registryVars, agentVars, taskVars
<1>2. UnregisteredAgentsAreBlank'
  BY <1>1 DEF MarketFollowed, UnregisteredAgentsAreBlank, IsAgent
<1>3. CASE HandleEvent
  <2>1. /\ pending # <<>> /\ pending' = Tail(pending)
        /\ \A agent \in AgentKeys : AgentWritten(agent) /\ RatingWritten(agent)
        /\ \A id \in ProposalIds : OfferWritten(id)
        /\ \A t \in TaskIds : TaskWritten(t)
    BY <1>3, RegistryHandlerTakes, TaskHandlerTakes DEF HandleEvent
  <2>2. pending \in Seq(MarketEvent)
    BY DEF GraphTypeOK, MarketEvent
  <2>3. \A agent \in AgentKeys : AgentFollowed(agent)' /\ RatingFollowed(agent)'
    BY <1>1, <2>1, <2>2, AgentTaken, RatingTaken DEF MarketFollowed, AllFollowed
  <2>4. \A id \in ProposalIds : OfferFollowed(id)'
    BY <1>1, <2>1, <2>2, OfferTaken DEF MarketFollowed, AllFollowed
  <2>5. \A t \in TaskIds : TaskFollowed(t)'
    BY <1>1, <2>1, <2>2, TaskTaken DEF MarketFollowed, AllFollowed
  <2>6. QED
    BY <1>2, <2>3, <2>4, <2>5 DEF MarketFollowed, AllFollowed
<1>4. CASE FindFile
  <2>1. UNCHANGED <<pending, agentEntities, proposalEntities, taskEntities>>
    BY <1>4 DEF FindFile, HandleAgentMetadata
  <2>2. AllFollowed'
    BY <1>1, <2>1, NothingHappens DEF MarketFollowed
  <2>3. QED
    BY <1>2, <2>2 DEF MarketFollowed
<1>5. QED
  BY <1>3, <1>4

\* Every step of the market leaves it followed.
LEMMA MarketStepFollows ==
  ASSUME MarketInv, ProposalsHaveAgents, MarketFollowed, [MarketNext]_marketVars
  PROVE  MarketFollowed'
<1>1. ASSUME OnChain
      PROVE  MarketFollowed'
  <2>1. UNCHANGED <<agents, proposals, tasks, pending, agentEntities, proposalEntities,
                    taskEntities>>
    BY <1>1 DEF OnChain, vars, registryVars, agentVars, taskVars, graphVars, indexVars, entityVars
  <2>2. QED
    BY <2>1, NothingHappens DEF MarketFollowed, UnregisteredAgentsAreBlank, IsAgent
<1>2. ASSUME NEW c \in Clients, BuyerStep(c)
      PROVE  MarketFollowed'
  BY <1>1, <1>2, BuyerKnows, TransactionsAreFollowed
<1>3. ASSUME HandleEvent \/ FindFile, UNCHANGED vars
      PROVE  MarketFollowed'
  BY <1>3, HandlersFollow DEF MarketInv, GraphInv
<1>4. CASE UNCHANGED marketVars
  BY <1>1, <1>4 DEF marketVars, OnChain
<1>5. QED
  BY <1>2, <1>3, <1>4, TransactionsAreFollowed DEF MarketNext

\* At the start there is nothing to follow.
LEMMA MarketInitFollowed == MarketInit => MarketFollowed
<1> SUFFICES ASSUME MarketInit
             PROVE  MarketFollowed
  OBVIOUS
<1>1. /\ \A agent \in AgentKeys : agents[agent] = NoAgent
      /\ \A id \in ProposalIds : proposals[id] = NoProposal
      /\ \A t \in TaskIds : tasks[t] = NoTask /\ taskEntities[t] = NoTaskEntity
      /\ pending = <<>>
  BY DEF MarketInit, Init, AgentInit, GraphInit, IndexInit
<1>2. \A agent \in AgentKeys : ~IsAgent(agent)
  BY <1>1 DEF IsAgent, NoAgent
<1>3. \A agent \in AgentKeys : AgentFollowed(agent) /\ RatingFollowed(agent)
  BY <1>2 DEF AgentFollowed, RatingFollowed, Rated
<1>4. \A id \in ProposalIds : OfferFollowed(id)
  BY <1>1 DEF OfferFollowed, NoProposal
<1>5. ASSUME NEW t \in TaskIds PROVE TaskFollowed(t)
  <2>1. tasks[t].status = "CREATED" /\ ~taskEntities[t].known
    BY <1>1 DEF NoTask, NoTaskEntity
  <2>2. CreationsTrue(t)
    <3>1. Len(pending) = 0
      BY <1>1
    <3>2. QED
      BY <3>1 DEF CreationsTrue
  <2>3. QED
    BY <2>1, <2>2 DEF TaskFollowed, Hidden
<1>6. UnregisteredAgentsAreBlank
  BY <1>1, <1>2 DEF UnregisteredAgentsAreBlank, AgentKeys
<1>7. QED
  BY <1>3, <1>4, <1>5, <1>6 DEF MarketFollowed, AllFollowed

\* With no event left, a market that is followed is shown as it is.
LEMMA FollowedMarketIsIndexed ==
  ASSUME GraphTypeOK, MarketFollowed
  PROVE  MarketIsIndexed
<1>1. SUFFICES ASSUME pending = <<>>
               PROVE  MarketIsIndexed
  BY DEF MarketIsIndexed
<1>2. AllFollowed
  BY DEF MarketFollowed
<1>3. AgentsAreIndexed
  BY <1>2, FollowedIsIndexed DEF AllFollowed
<1>4. ASSUME NEW t \in TaskIds, ~Hidden(t)
      PROVE  taskEntities[t] =
               [known |-> TRUE, issuer |-> tasks[t].issuer, assignee |-> tasks[t].assignee,
                proposalId |-> tasks[t].proposalId, status |-> tasks[t].status,
                rating |-> tasks[t].rating, result |-> tasks[t].status = "COMPLETED"]
  <2>1. /\ Followed(<<>>, Creations(t), RightDeal(t), DealShown(t))
        /\ Followed(<<>>, StatusEvents(t), RightStatus(t), StatusShown(t))
        /\ Followed(<<>>, ResultEvents(t), RightResult(t), ResultShown(t))
        /\ Followed(<<>>, GradeEvents(t), RightGrade(t), GradeShown(t))
    BY <1>1, <1>2, <1>4 DEF AllFollowed, TaskFollowed
  <2>2. DealShown(t) /\ StatusShown(t) /\ ResultShown(t) /\ GradeShown(t)
    BY <2>1, NothingLeft
  <2>3. taskEntities[t] \in TaskEntity
    BY DEF GraphTypeOK
  <2>4. taskEntities[t].known = TRUE
    BY <2>2, <2>3 DEF DealShown, TaskEntity
  <2> DEFINE entity == taskEntities[t]
             outcome == tasks[t].status = "COMPLETED"
  <2>5. /\ entity.issuer = tasks[t].issuer /\ entity.assignee = tasks[t].assignee
        /\ entity.proposalId = tasks[t].proposalId /\ entity.status = tasks[t].status
        /\ entity.rating = tasks[t].rating /\ entity.result = outcome
    BY <2>2 DEF DealShown, StatusShown, ResultShown, GradeShown
  <2>6. entity = [known |-> entity.known, issuer |-> entity.issuer,
                  assignee |-> entity.assignee, proposalId |-> entity.proposalId,
                  status |-> entity.status, rating |-> entity.rating,
                  result |-> entity.result]
    BY <2>3 DEF TaskEntity
  <2> HIDE DEF outcome
  <2>7. entity = [known |-> TRUE, issuer |-> tasks[t].issuer, assignee |-> tasks[t].assignee,
                  proposalId |-> tasks[t].proposalId, status |-> tasks[t].status,
                  rating |-> tasks[t].rating, result |-> outcome]
    BY <2>4, <2>5, <2>6
  <2>8. QED
    BY <2>7 DEF outcome
<1>5. \A t \in TaskIds : Hidden(t) => ~taskEntities[t].known
  BY <1>2 DEF AllFollowed, TaskFollowed
<1>6. ASSUME NEW id \in ProposalIds, proposals[id].isActive
      PROVE  proposalEntities[id].known
  <2>1. Followed(<<>>, Announcements(id), Announcements(id), proposalEntities[id].known)
    BY <1>1, <1>2, <1>6 DEF AllFollowed, OfferFollowed
  <2>2. QED
    BY <2>1, NothingLeft
<1>7. ASSUME NEW agent \in AgentKeys, IsAgent(agent), agents[agent].totalRatings > 0
      PROVE  agentEntities[agent].reputation = agents[agent].reputation
  <2>1. Followed(<<>>, RatingEvents(agent), RightRating(agent), RatingShown(agent))
    BY <1>1, <1>2, <1>7 DEF AllFollowed, RatingFollowed, Rated
  <2>2. QED
    BY <2>1, NothingLeft DEF RatingShown
<1>8. QED
  BY <1>3, <1>4, <1>5, <1>6, <1>7 DEF MarketIsIndexed, Hidden

\* Once the subgraph has handled every event, it agrees with the contracts on
\* every agent and its reputation, every standing proposal and every task,
\* whatever was registered, removed, bought, settled and rated in between.
THEOREM MarketStaysIndexed == MarketSpec => []MarketIsIndexed
<1>1. MarketInv /\ MarketFollowed => MarketIsIndexed
  BY FollowedMarketIsIndexed DEF MarketInv, GraphInv
<1>2. MarketInv /\ ProposalsHaveAgents /\ MarketFollowed /\ [MarketNext]_marketVars
        => MarketFollowed'
  BY MarketStepFollows
<1>3. QED
  BY <1>1, <1>2, MarketInitInv, MarketInitFollowed, MarketStepKeepsInv, MarketUsesTheContracts,
     RegistriesKeepPromises, PTL DEF MarketSpec
=============================================================================
