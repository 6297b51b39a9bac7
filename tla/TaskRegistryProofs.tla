--------------------------- MODULE TaskRegistryProofs ---------------------------
(***************************************************************************)
(* Theorems about the TaskRegistry composed with the AgentsRegistry, for   *)
(* every value of the constants.  The invariants of the registries carry   *)
(* over from AgentsRegistryProofs: a task transaction either leaves the    *)
(* registries alone or adds one rating.                                    *)
(***************************************************************************)
EXTENDS TaskRegistry, AgentsRegistryProofs, Sums

\* What a task transaction may do to the registries.
RatesAnAgent ==
  \E agent \in AgentKeys, rating \in Nat : AddRating(TaskRegistryAddress, agent, rating)

\* Rating inputs are naturals, so a rating that passed the check is on the scale.
LEMMA TaskStepKinds ==
  ASSUME AgentTypeOK, Next
  PROVE  RegistryNext \/ UNCHANGED registryVars \/ RatesAnAgent
<1>1. ASSUME NEW sender \in Accounts, TaskStep(sender)
      PROVE  UNCHANGED registryVars \/ RatesAnAgent
  <2>1. ASSUME NEW id \in ProposalIds, NEW value \in Values, CreateTask(sender, id, value)
        PROVE  UNCHANGED registryVars
    BY <2>1 DEF CreateTask
  <2>2. ASSUME NEW t \in TaskIds, CompleteTask(sender, t) \/ CancelTask(sender, t)
        PROVE  UNCHANGED registryVars
    BY <2>2 DEF CompleteTask, CancelTask
  <2>3. ASSUME NEW t \in TaskIds, NEW rating \in Ratings, RateTask(sender, t, rating)
        PROVE  RatesAnAgent
    <3>1. GetProposal(tasks[t].proposalId).issuer \in AgentKeys
      BY DEF GetProposal, AgentTypeOK, ServiceProposal, NoProposal, AgentKeys
    <3>2. QED
      BY <2>3, <3>1, AgentConstants DEF RateTask, RatesAnAgent
  <2>4. QED
    BY <1>1, <2>1, <2>2, <2>3 DEF TaskStep
<1>2. QED
  BY <1>1 DEF Next

\* The registries stay well typed under task transactions too.
LEMMA AgentTypeStep ==
  ASSUME AgentTypeOK, [Next]_vars
  PROVE  AgentTypeOK'
<1>1. CASE RatesAnAgent
  <2>1. agents' \in [AgentKeys -> AgentData]
    BY <1>1, RatingAddedType DEF RatesAnAgent, AddRating
  <2>2. QED
    BY <1>1, <2>1 DEF RatesAnAgent, AddRating, AgentTypeOK, ServiceTypeOK, serviceVars
<1>2. CASE UNCHANGED registryVars
  BY <1>2, RegistryStutterType
<1>3. QED
  BY <1>1, <1>2, TaskStepKinds, RegistryStepType DEF vars

\* A payment moves naturals between holders and never makes one negative.
LEMMA TransferType ==
  ASSUME balance \in [Assets -> [Holders -> Nat]], NEW asset, NEW from \in Holders,
         NEW to \in Holders, from # to, NEW amount \in Nat, Transfer(asset, from, to, amount)
  PROVE  /\ balance' \in [Assets -> [Holders -> Nat]]
         /\ asset \in Assets =>
              /\ balance'[asset][from] = balance[asset][from] - amount
              /\ balance'[asset][to] = balance[asset][to] + amount
<1>1. CASE asset \in Assets
  <2>1. balance[asset] \in [Holders -> Nat] /\ balance[asset][from] >= amount
    BY <1>1 DEF Transfer, Move
  <2>2. /\ balance[asset][from] - amount \in Nat
        /\ balance[asset][to] + amount \in Nat
    BY <2>1
  <2> DEFINE paid == [balance[asset] EXCEPT ![from] = @ - amount]
             moved == [paid EXCEPT ![to] = @ + amount]
  <2>3. paid \in [Holders -> Nat] /\ paid[to] = balance[asset][to]
        /\ paid[from] = balance[asset][from] - amount
    BY <2>1, <2>2
  <2>4. moved \in [Holders -> Nat] /\ moved[to] = balance[asset][to] + amount
        /\ moved[from] = balance[asset][from] - amount
    BY <2>2, <2>3
  <2>5. balance' = [balance EXCEPT ![asset] = moved]
    BY <1>1, <2>1 DEF Transfer, Move
  <2> HIDE DEF moved
  <2>6. QED
    BY <1>1, <2>4, <2>5
<1>2. CASE asset \notin Assets
  BY <1>2 DEF Transfer
<1>3. QED
  BY <1>1, <1>2

-----------------------------------------------------------------------------
(* The inductive invariant.                                                 *)

\* Ids below the counter are tasks with an issuer and with the id of a proposal
\* that was handed out before; ids above it were never written.
TasksBelowCounter ==
  \A t \in TaskIds :
    IF t < nextTaskId
    THEN /\ tasks[t].status # "CREATED"
         /\ tasks[t].issuer \in Accounts
         /\ tasks[t].proposalId \in ProposalIds
         /\ tasks[t].proposalId < nextProposalId
    ELSE tasks[t] = NoTask /\ deposit[t] = NoDeposit

TaskInv == TaskTypeOK /\ InactiveIsEmpty /\ TasksBelowCounter /\ DepositsMatchProposals

\* What getProposal returns is a proposal, whatever the id.
LEMMA GetProposalType ==
  ASSUME AgentTypeOK, NEW id
  PROVE  GetProposal(id) \in ServiceProposal /\ GetProposal(id).price \in Nat
<1>1. GetProposal(id) \in ServiceProposal
  BY DEF GetProposal, AgentTypeOK, ServiceProposal, NoProposal, AgentKeys, AllNames
<1>2. Prices \cup {0} \subseteq Nat
  BY AgentConstants
<1>3. QED
  BY <1>1, <1>2 DEF ServiceProposal

\* Only a proposal that was handed out and not withdrawn has an issuer other
\* than address zero; createTask refuses all others.
LEMMA ListedProposal ==
  ASSUME AgentTypeOK, InactiveIsEmpty, NEW id, GetProposal(id).issuer # ZeroAddress
  PROVE  id \in ProposalIds /\ id < nextProposalId /\ proposals[id].isActive
<1>1. id \in ProposalIds /\ proposals[id] # NoProposal
  BY DEF GetProposal, NoProposal
<1>2. id \in Nat /\ nextProposalId \in Nat
  BY <1>1, AgentConstants DEF AgentTypeOK, ProposalIds
<1>3. QED
  BY <1>1, <1>2 DEF InactiveIsEmpty

\* createTask keeps the types.
LEMMA CreateTaskType ==
  ASSUME TaskInv, NEW sender \in Accounts, NEW id \in ProposalIds, NEW value \in Values,
         CreateTask(sender, id, value)
  PROVE  TaskTypeOK'
<1> DEFINE proposal == GetProposal(id)
<1>1. proposal \in ServiceProposal /\ proposal.price \in Nat
  BY GetProposalType DEF TaskInv, TaskTypeOK
<1>2. nextTaskId \in TaskIds /\ nextTaskId' \in 1 .. MaxTasks + 1
  BY TaskConstants DEF TaskInv, TaskTypeOK, CreateTask, TaskIds
<1>3. tasks' \in [TaskIds -> TaskData]
  <2>1. [issuer |-> sender, status |-> "ASSIGNED", assignee |-> proposal.issuer,
         proposalId |-> id, rating |-> 0] \in TaskData
    BY <1>1 DEF TaskData, Statuses, ServiceProposal, MaxRating
  <2>2. QED
    BY <1>2, <2>1 DEF TaskInv, TaskTypeOK, CreateTask
<1>4. issuerTasks' \in [Accounts -> Seq(TaskIds)]
  <2>1. Append(issuerTasks[sender], nextTaskId) \in Seq(TaskIds)
    BY <1>2 DEF TaskInv, TaskTypeOK
  <2>2. QED
    BY <2>1 DEF TaskInv, TaskTypeOK, CreateTask
<1>5. deposit' \in [TaskIds -> Deposit]
  <2>1. [asset |-> proposal.tokenAddress, amount |-> proposal.price] \in Deposit
    BY <1>1 DEF ServiceProposal, Deposit
  <2>2. QED
    BY <1>2, <2>1 DEF TaskInv, TaskTypeOK, CreateTask
<1>6. balance' \in [Assets -> [Holders -> Nat]]
  <2>1. Collect(sender, proposal, value)
    BY DEF CreateTask
  <2>2. \E asset : Transfer(asset, sender, TaskRegistryAddress, proposal.price)
    BY <2>1 DEF Collect
  <2>3. QED
    BY <1>1, <2>2, TransferType, TaskConstants DEF TaskInv, TaskTypeOK, Holders
<1>7. AgentTypeOK'
  BY RegistryStutterType DEF TaskInv, TaskTypeOK, CreateTask
<1>8. QED
  BY <1>2, <1>3, <1>4, <1>5, <1>6, <1>7 DEF TaskTypeOK

\* Paying the issuer of a task back keeps the types.
LEMMA PayIssuerType ==
  ASSUME TaskTypeOK, NEW t \in TaskIds, tasks[t].issuer \in Accounts, PayIssuer(t)
  PROVE  balance' \in [Assets -> [Holders -> Nat]]
<1> DEFINE proposal == GetProposal(tasks[t].proposalId)
<1>1. proposal.price \in Nat
  BY GetProposalType DEF TaskTypeOK
<1>2. Transfer(proposal.tokenAddress, TaskRegistryAddress, tasks[t].issuer, proposal.price)
  BY DEF PayIssuer
<1>3. QED
  BY <1>1, <1>2, TransferType, TaskConstants DEF TaskTypeOK, Holders

\* completeTask and cancelTask keep the types.
LEMMA SettleType ==
  ASSUME TaskInv, NEW sender \in Accounts, NEW t \in TaskIds,
         CompleteTask(sender, t) \/ CancelTask(sender, t)
  PROVE  TaskTypeOK'
<1>1. tasks[t].issuer \in Accounts
  <2>1. CASE t < nextTaskId
    BY <2>1 DEF TaskInv, TasksBelowCounter
  <2>2. CASE ~(t < nextTaskId)
    BY <2>2 DEF TaskInv, TasksBelowCounter, NoTask, CompleteTask, CancelTask
  <2>3. QED
    BY <2>1, <2>2
<1>2. balance' \in [Assets -> [Holders -> Nat]]
  BY <1>1, PayIssuerType DEF TaskInv, CompleteTask, CancelTask
<1>3. tasks' \in [TaskIds -> TaskData]
  <2>1. \E status \in Statuses : tasks' = [tasks EXCEPT ![t].status = status]
    BY DEF CompleteTask, CancelTask, Statuses
  <2>2. QED
    BY <2>1 DEF TaskInv, TaskTypeOK, TaskData
<1>4. AgentTypeOK'
  BY RegistryStutterType DEF TaskInv, TaskTypeOK, CompleteTask, CancelTask
<1>5. QED
  BY <1>2, <1>3, <1>4 DEF TaskInv, TaskTypeOK, CompleteTask, CancelTask

\* rateTask keeps the types.
LEMMA RateTaskType ==
  ASSUME TaskInv, AgentTypeOK', NEW sender, NEW t \in TaskIds, NEW rating \in Ratings,
         RateTask(sender, t, rating)
  PROVE  TaskTypeOK'
<1>1. rating \in 0 .. MaxRating
  <2>1. rating \in Nat
    BY AgentConstants
  <2>2. rating <= MaxRating
    BY DEF RateTask
  <2>3. QED
    BY <2>1, <2>2 DEF MaxRating
<1>2. tasks' \in [TaskIds -> TaskData]
  BY <1>1 DEF TaskInv, TaskTypeOK, RateTask, TaskData
<1>3. QED
  BY <1>2 DEF TaskInv, TaskTypeOK, RateTask

\* Every transaction on the contracts keeps the types.
LEMMA TaskTypeStep ==
  ASSUME TaskInv, [Next]_vars
  PROVE  TaskTypeOK'
<1>1. AgentTypeOK'
  BY AgentTypeStep DEF TaskInv, TaskTypeOK
<1>2. CASE UNCHANGED taskVars
  BY <1>1, <1>2 DEF TaskInv, TaskTypeOK, taskVars
<1>3. ASSUME NEW sender \in Accounts, TaskStep(sender)
      PROVE  TaskTypeOK'
  BY <1>1, <1>3, CreateTaskType, SettleType, RateTaskType DEF TaskStep
<1>4. QED
  BY <1>2, <1>3 DEF Next, vars

\* Between two transactions an id that was handed out keeps its proposal or
\* loses it; it never gets another one.
LEMMA ProposalsOnlyVanish ==
  ASSUME AgentTypeOK, [Next]_vars
  PROVE  /\ nextProposalId' \in Nat /\ nextProposalId' >= nextProposalId
         /\ \A id \in ProposalIds :
              id < nextProposalId => proposals'[id] \in {proposals[id], NoProposal}
<1>0. nextProposalId \in Nat /\ ProposalIds \subseteq Nat
  BY AgentConstants DEF AgentTypeOK, ProposalIds
<1>1. CASE UNCHANGED <<proposals, nextProposalId>>
  BY <1>0, <1>1
<1>2. CASE Lists
  BY <1>0, <1>2, ListedRange
<1>3. CASE Withdraws
  BY <1>0, <1>3 DEF Withdraws
<1>4. RatesAnAgent \/ UNCHANGED registryVars => UNCHANGED <<proposals, nextProposalId>>
  BY DEF RatesAnAgent, AddRating, registryVars, agentVars
<1>5. QED
  BY <1>1, <1>2, <1>3, <1>4, ProposalSteps, TaskStepKinds DEF vars

\* Ratings and task transactions leave the proposals alone.
LEMMA InactiveIsEmptyTaskStep ==
  ASSUME AgentTypeOK, InactiveIsEmpty, [Next]_vars
  PROVE  InactiveIsEmpty'
<1>1. CASE UNCHANGED <<proposals, nextProposalId>>
  BY <1>1 DEF InactiveIsEmpty
<1>2. RatesAnAgent \/ UNCHANGED registryVars => UNCHANGED <<proposals, nextProposalId>>
  BY DEF RatesAnAgent, AddRating, registryVars, agentVars
<1>3. QED
  BY <1>1, <1>2, InactiveIsEmptyStep, TaskStepKinds DEF vars

\* What completeTask, cancelTask and rateTask do to the tasks: the terms of a
\* task and its deposit stay, and only a task that was created is touched.
OnlyProgresses ==
  /\ UNCHANGED <<nextTaskId, deposit>>
  /\ \A t \in TaskIds :
       /\ tasks'[t] = tasks[t] \/ t < nextTaskId
       /\ tasks'[t].issuer = tasks[t].issuer
       /\ tasks'[t].assignee = tasks[t].assignee
       /\ tasks'[t].proposalId = tasks[t].proposalId
       /\ tasks[t].status # "CREATED" => tasks'[t].status # "CREATED"
       /\ tasks[t].status \in Settled => tasks'[t].status = tasks[t].status

\* A task someone can complete, cancel or rate was created before.
LEMMA TouchedTasksExist ==
  ASSUME TaskInv, NEW t \in TaskIds, tasks[t].status # "CREATED" \/ tasks[t].issuer \in Accounts
  PROVE  t < nextTaskId
BY TaskConstants, ServiceConstants DEF TaskInv, TasksBelowCounter, NoTask

\* A call on the task registry leaves the proposals alone, and all but
\* createTask only move existing tasks forward.
LEMMA TaskStepEffects ==
  ASSUME TaskInv, NEW sender \in Accounts, TaskStep(sender)
  PROVE  /\ UNCHANGED <<proposals, nextProposalId>>
         /\ \/ \E id \in ProposalIds, value \in Values : CreateTask(sender, id, value)
            \/ OnlyProgresses
<1>0. tasks \in [TaskIds -> TaskData]
  BY DEF TaskInv, TaskTypeOK
<1>1. ASSUME NEW id \in ProposalIds, NEW value \in Values, CreateTask(sender, id, value)
      PROVE  UNCHANGED <<proposals, nextProposalId>>
  BY <1>1 DEF CreateTask, registryVars, agentVars
<1>2. ASSUME NEW t \in TaskIds, CompleteTask(sender, t)
      PROVE  UNCHANGED <<proposals, nextProposalId>> /\ OnlyProgresses
  <2>1. t < nextTaskId
    BY <1>2, TouchedTasksExist DEF CompleteTask
  <2>2. QED
    BY <1>0, <1>2, <2>1 DEF CompleteTask, registryVars, agentVars, OnlyProgresses, Settled, TaskData
<1>3. ASSUME NEW t \in TaskIds, CancelTask(sender, t)
      PROVE  UNCHANGED <<proposals, nextProposalId>> /\ OnlyProgresses
  <2>1. t < nextTaskId
    BY <1>3, TouchedTasksExist DEF CancelTask
  <2>2. QED
    BY <1>0, <1>3, <2>1 DEF CancelTask, registryVars, agentVars, OnlyProgresses, Settled, TaskData
<1>4. ASSUME NEW t \in TaskIds, NEW rating \in Ratings, RateTask(sender, t, rating)
      PROVE  UNCHANGED <<proposals, nextProposalId>> /\ OnlyProgresses
  <2>1. t < nextTaskId
    BY <1>4, TouchedTasksExist DEF RateTask
  <2>2. tasks' = [tasks EXCEPT ![t].rating = rating] /\ UNCHANGED <<nextTaskId, deposit>>
    BY <1>4 DEF RateTask
  <2>3. OnlyProgresses
    BY <1>0, <2>1, <2>2 DEF OnlyProgresses, TaskData
  <2>4. QED
    BY <1>4, <2>3 DEF RateTask, AddRating
<1>5. QED
  BY <1>1, <1>2, <1>3, <1>4 DEF TaskStep

\* A created task starts below the counter, with the terms its proposal has now.
LEMMA CreateTaskKeepsInv ==
  ASSUME TaskInv, NEW sender \in Accounts, NEW id \in ProposalIds, NEW value \in Values,
         CreateTask(sender, id, value)
  PROVE  TasksBelowCounter' /\ DepositsMatchProposals'
<1> DEFINE proposal == GetProposal(id)
<1>1. /\ id < nextProposalId
      /\ UNCHANGED <<proposals, nextProposalId>>
  BY ListedProposal DEF TaskInv, TaskTypeOK, CreateTask, registryVars, agentVars
<1>2. /\ nextTaskId \in TaskIds /\ nextTaskId' = nextTaskId + 1 /\ TaskIds \subseteq Nat
      /\ nextTaskId \in Nat
  BY TaskConstants DEF TaskInv, TaskTypeOK, CreateTask, TaskIds
<1>3. tasks \in [TaskIds -> TaskData] /\ deposit \in [TaskIds -> Deposit]
  BY DEF TaskInv, TaskTypeOK
<1>4. /\ tasks' = [tasks EXCEPT ![nextTaskId] =
           [issuer |-> sender, status |-> "ASSIGNED", assignee |-> proposal.issuer,
            proposalId |-> id, rating |-> 0]]
      /\ deposit' = [deposit EXCEPT ![nextTaskId] =
           [asset |-> proposal.tokenAddress, amount |-> proposal.price]]
  BY DEF CreateTask
<1>5. TasksBelowCounter'
  BY <1>1, <1>2, <1>3, <1>4 DEF TaskInv, TasksBelowCounter
<1>6. DepositsMatchProposals'
  <2>1. \A i : GetProposal(i)' = GetProposal(i)
    BY <1>1 DEF GetProposal
  <2>2. QED
    BY <1>2, <1>3, <1>4, <2>1 DEF TaskInv, DepositsMatchProposals
<1>7. QED
  BY <1>5, <1>6

\* No transaction disturbs the invariant.
LEMMA TaskInvStep ==
  TaskInv /\ [Next]_vars => TaskInv'
<1> SUFFICES ASSUME TaskInv, [Next]_vars PROVE TaskInv'
  OBVIOUS
<1>0. AgentTypeOK /\ tasks \in [TaskIds -> TaskData]
  BY DEF TaskInv, TaskTypeOK
<1>1. TaskTypeOK' /\ InactiveIsEmpty'
  BY <1>0, TaskTypeStep, InactiveIsEmptyTaskStep DEF TaskInv
<1>2. /\ nextProposalId \in Nat /\ nextProposalId' \in Nat /\ nextProposalId' >= nextProposalId
      /\ \A id \in ProposalIds : id < nextProposalId => proposals'[id] \in {proposals[id], NoProposal}
      /\ ProposalIds \subseteq Nat
  BY <1>0, ProposalsOnlyVanish, AgentConstants DEF AgentTypeOK, ProposalIds
<1>3. CASE UNCHANGED taskVars \/ OnlyProgresses
  <2>1. /\ UNCHANGED <<nextTaskId, deposit>>
        /\ \A t \in TaskIds :
             /\ tasks'[t] = tasks[t] \/ t < nextTaskId
             /\ tasks'[t].issuer = tasks[t].issuer
             /\ tasks'[t].assignee = tasks[t].assignee
             /\ tasks'[t].proposalId = tasks[t].proposalId
             /\ tasks[t].status # "CREATED" => tasks'[t].status # "CREATED"
    BY <1>3, Zenon DEF taskVars, OnlyProgresses
  <2>2. TasksBelowCounter'
    BY <1>2, <2>1 DEF TaskInv, TasksBelowCounter, ProposalIds
  <2>3. ASSUME NEW t \in TaskIds, tasks'[t].status # "CREATED",
               GetProposal(tasks[t].proposalId)'.isActive
        PROVE  /\ GetProposal(tasks[t].proposalId)' = GetProposal(tasks[t].proposalId)
               /\ tasks[t].status # "CREATED"
    <3>1. t < nextTaskId
      BY <2>1, <2>3 DEF TaskInv, TasksBelowCounter, NoTask
    <3>2. /\ tasks[t].status # "CREATED"
          /\ tasks[t].proposalId \in ProposalIds
          /\ tasks[t].proposalId < nextProposalId
      BY <3>1 DEF TaskInv, TasksBelowCounter
    <3>3. /\ tasks'[t].proposalId = tasks[t].proposalId
          /\ proposals'[tasks[t].proposalId].isActive
      <4>1. tasks'[t].proposalId = tasks[t].proposalId
        BY <2>1
      <4>2. QED
        BY <2>3, <3>2, <4>1 DEF GetProposal
    <3>4. proposals'[tasks[t].proposalId] = proposals[tasks[t].proposalId]
      <4>1. proposals'[tasks[t].proposalId] # NoProposal
        BY <3>3 DEF NoProposal
      <4>2. QED
        BY <1>2, <3>2, <4>1
    <3>5. QED
      BY <3>2, <3>3, <3>4 DEF GetProposal
  <2>4. DepositsMatchProposals'
    BY <2>1, <2>3 DEF TaskInv, DepositsMatchProposals
  <2>5. QED
    BY <1>1, <2>2, <2>4 DEF TaskInv
<1>4. ASSUME NEW sender \in Accounts, TaskStep(sender)
      PROVE  TaskInv'
  BY <1>1, <1>3, <1>4, TaskStepEffects, CreateTaskKeepsInv DEF TaskInv
<1>5. QED
  BY <1>3, <1>4 DEF Next, vars

\* The invariant holds after deployment.
LEMMA TaskInvInit == Init => TaskInv
<1> SUFFICES ASSUME Init PROVE TaskInv
  OBVIOUS
<1>1. AgentTypeOK /\ InactiveIsEmpty
  BY AgentInitType, InactiveIsEmptyInit DEF Init
<1>2. NoTask \in TaskData /\ NoDeposit \in Deposit
  BY DEF NoTask, TaskData, NoDeposit, Deposit, Statuses, AgentKeys, MaxRating
<1>3. TaskTypeOK
  BY <1>1, <1>2, TaskConstants DEF Init, TaskTypeOK
<1>4. TasksBelowCounter /\ DepositsMatchProposals
  BY TaskConstants DEF Init, TasksBelowCounter, DepositsMatchProposals, TaskIds, NoTask
<1>5. QED
  BY <1>1, <1>3, <1>4 DEF TaskInv

\* Type correctness of the contracts, money and tasks included.
THEOREM TaskTypeCorrect == Spec => []TaskTypeOK
<1>1. TaskInv => TaskTypeOK
  BY DEF TaskInv
<1>2. QED
  BY <1>1, TaskInvInit, TaskInvStep, PTL DEF Spec

\* completeTask, cancelTask and rateTask read back from the proposal exactly
\* what createTask read from it, or find it gone: for any number of agents,
\* proposals, tasks, removals and re-registrations.
THEOREM DepositsStayMatched == Spec => []DepositsMatchProposals
<1>1. TaskInv => DepositsMatchProposals
  BY DEF TaskInv
<1>2. QED
  BY <1>1, TaskInvInit, TaskInvStep, PTL DEF Spec

\* A completed task is never cancelled, a cancelled one never completed, and
\* the terms of a task are those of its creation.
THEOREM TasksProgress == Spec => TasksOnlyProgress
<1> DEFINE Progress ==
      \A t \in TaskIds :
        /\ tasks[t].status \in Settled => tasks'[t].status = tasks[t].status
        /\ tasks[t].status # "CREATED" =>
             /\ tasks'[t].issuer = tasks[t].issuer
             /\ tasks'[t].assignee = tasks[t].assignee
             /\ tasks'[t].proposalId = tasks[t].proposalId
<1>1. ASSUME TaskInv, [Next]_vars PROVE Progress
  <2>1. CASE UNCHANGED tasks \/ OnlyProgresses
    BY <2>1, Zenon DEF OnlyProgresses
  <2>2. ASSUME NEW sender \in Accounts, NEW id \in ProposalIds, NEW value \in Values,
               CreateTask(sender, id, value)
        PROVE  Progress
    <3>1. tasks[nextTaskId].status = "CREATED" /\ nextTaskId \in TaskIds
      BY <1>1, <2>2, TaskConstants
         DEF TaskInv, TaskTypeOK, TasksBelowCounter, NoTask, CreateTask, TaskIds
    <3>2. \A t \in TaskIds : t # nextTaskId => tasks'[t] = tasks[t]
      BY <1>1, <2>2 DEF TaskInv, TaskTypeOK, CreateTask
    <3>3. QED
      BY <3>1, <3>2 DEF Settled
  <2>3. UNCHANGED vars \/ UNCHANGED taskVars => UNCHANGED tasks
    BY DEF vars, taskVars
  <2>4. QED
    BY <1>1, <2>1, <2>2, <2>3, TaskStepEffects DEF Next
<1>2. QED
  BY <1>1, TaskInvInit, TaskInvStep, PTL DEF Spec, TasksOnlyProgress

-----------------------------------------------------------------------------
(* The escrow.                                                              *)

\* createTask opens a deal.
LEMMA CreateTaskOpens ==
  ASSUME TaskInv, NEW sender \in Accounts, NEW id \in ProposalIds, NEW value \in Values,
         CreateTask(sender, id, value)
  PROVE  Money!Open(nextTaskId) /\ nextTaskId \in TaskIds
<1> DEFINE proposal == GetProposal(id)
           deals == [t \in TaskIds |-> Deal(t)]
           d == nextTaskId
<1>1. /\ d \in TaskIds
      /\ tasks[d].status = "CREATED"
  BY TaskConstants DEF TaskInv, TaskTypeOK, TasksBelowCounter, NoTask, CreateTask, TaskIds
<1>2. tasks \in [TaskIds -> TaskData] /\ deposit \in [TaskIds -> Deposit]
  BY DEF TaskInv, TaskTypeOK
<1>3. /\ tasks' = [tasks EXCEPT ![d] =
           [issuer |-> sender, status |-> "ASSIGNED", assignee |-> proposal.issuer,
            proposalId |-> id, rating |-> 0]]
      /\ deposit' = [deposit EXCEPT ![d] =
           [asset |-> proposal.tokenAddress, amount |-> proposal.price]]
      /\ Collect(sender, proposal, value)
  BY DEF CreateTask
<1>4. deals[d].phase = "none"
  BY <1>1 DEF Deal
<1>5. /\ deals'[d].phase = "held" /\ deals'[d].owner = sender
      /\ deals'[d].asset = proposal.tokenAddress /\ deals'[d].amount = proposal.price
  BY <1>1, <1>2, <1>3 DEF Deal
<1>6. deals' = [deals EXCEPT ![d] = deals'[d]]
  <2>1. \A t \in TaskIds : t # d => tasks'[t] = tasks[t] /\ deposit'[t] = deposit[t]
    BY <1>2, <1>3
  <2>2. \A t \in TaskIds : t # d => deals'[t] = deals[t]
    BY <2>1 DEF Deal
  <2>3. QED
    BY <1>1, <2>2
<1>7. Money!Pay(proposal.tokenAddress, sender, TaskRegistryAddress, proposal.price)
  BY <1>3 DEF Collect, Transfer, Move, Money!Pay, Assets
<1> HIDE DEF deals
<1>8. QED
  BY <1>1, <1>4, <1>5, <1>6, <1>7 DEF Money!Open, deals

\* What PayIssuer pays is the deposit or nothing.
LEMMA PayIssuerPaysDeposit ==
  ASSUME TaskInv, NEW t \in TaskIds, t < nextTaskId, PayIssuer(t)
  PROVE  \/ Money!Pay(deposit[t].asset, TaskRegistryAddress, tasks[t].issuer, deposit[t].amount)
         \/ UNCHANGED balance
<1> DEFINE proposal == GetProposal(tasks[t].proposalId)
<1>1. /\ tasks[t].status # "CREATED"
      /\ tasks[t].issuer \in Holders
      /\ tasks[t].proposalId \in ProposalIds
  BY DEF TaskInv, TasksBelowCounter, Holders
<1>2. Transfer(proposal.tokenAddress, TaskRegistryAddress, tasks[t].issuer, proposal.price)
  BY DEF PayIssuer
<1>3. CASE proposal.isActive
  <2>1. proposal.tokenAddress = deposit[t].asset /\ proposal.price = deposit[t].amount
    BY <1>1, <1>3 DEF TaskInv, DepositsMatchProposals
  <2>2. QED
    BY <1>2, <2>1 DEF Transfer, Move, Money!Pay, Assets
<1>4. CASE ~proposal.isActive
  <2>1. proposal.price = 0
    BY <1>1, <1>4 DEF TaskInv, InactiveIsEmpty, GetProposal, NoProposal
  <2>2. CASE proposal.tokenAddress \in Assets
    <3> DEFINE asset == proposal.tokenAddress
               account == balance[asset]
               to == tasks[t].issuer
    <3>1. account \in [Holders -> Nat] /\ balance \in [Assets -> [Holders -> Nat]]
      BY <2>2 DEF TaskInv, TaskTypeOK
    <3>2. balance' = [balance EXCEPT ![asset] =
                        [account EXCEPT ![TaskRegistryAddress] = @ - 0, ![to] = @ + 0]]
      BY <1>2, <2>1, <2>2 DEF Transfer, Move
    <3>3. [account EXCEPT ![TaskRegistryAddress] = @ - 0, ![to] = @ + 0] = account
      BY <1>1, <3>1 DEF Holders
    <3>4. QED
      BY <3>1, <3>2, <3>3
  <2>3. QED
    BY <1>2, <2>2 DEF Transfer
<1>5. QED
  BY <1>3, <1>4

\* completeTask and cancelTask settle a deal.
LEMMA SettlesADeal ==
  ASSUME TaskInv, NEW sender \in Accounts, NEW t \in TaskIds,
         CompleteTask(sender, t) \/ CancelTask(sender, t)
  PROVE  Money!Settle(t)
<1> DEFINE deals == [u \in TaskIds |-> Deal(u)]
<1>1. t < nextTaskId
  BY TouchedTasksExist DEF CompleteTask, CancelTask
<1>2. tasks[t].status = "ASSIGNED"
  <2>1. tasks[t].status \in Statuses /\ tasks[t].status # "CREATED"
    BY <1>1 DEF TaskInv, TaskTypeOK, TaskData, TasksBelowCounter
  <2>2. QED
    BY <2>1 DEF CompleteTask, CancelTask, Statuses
<1>3. \E status \in Settled : tasks' = [tasks EXCEPT ![t].status = status]
  BY DEF CompleteTask, CancelTask, Settled
<1>4. tasks \in [TaskIds -> TaskData] /\ deposit' = deposit
  BY DEF TaskInv, TaskTypeOK, CompleteTask, CancelTask
<1>5. /\ deals[t].phase = "held" /\ deals[t].owner = tasks[t].issuer
      /\ deals[t].asset = deposit[t].asset /\ deals[t].amount = deposit[t].amount
  BY <1>2 DEF Deal
<1>6. deals' = [deals EXCEPT ![t].phase = "settled"]
  <2>1. /\ tasks'[t].status \in Settled /\ tasks'[t].issuer = tasks[t].issuer
        /\ \A u \in TaskIds : u # t => tasks'[u] = tasks[u]
    BY <1>3, <1>4 DEF TaskData
  <2>2. \A u \in TaskIds : u # t => deals'[u] = deals[u]
    BY <1>4, <2>1 DEF Deal
  <2>3. deals'[t] = [deals[t] EXCEPT !.phase = "settled"]
    BY <1>4, <2>1 DEF Deal, Settled
  <2>4. QED
    BY <2>2, <2>3
<1>7. PayIssuer(t)
  BY DEF CompleteTask, CancelTask
<1> HIDE DEF deals
<1>8. QED
  BY <1>1, <1>5, <1>6, <1>7, PayIssuerPaysDeposit DEF Money!Settle, deals

\* Every transaction opens a deal, settles one, or does not concern the escrow.
LEMMA StepIsEscrowStep ==
  ASSUME TaskInv, [Next]_vars
  PROVE  [Money!Next]_Money!escrowVars
<1>1. CASE UNCHANGED taskVars
  BY <1>1 DEF taskVars, Money!escrowVars, Deal
<1>2. ASSUME NEW sender \in Accounts, NEW id \in ProposalIds, NEW value \in Values,
             CreateTask(sender, id, value)
      PROVE  Money!Next
  BY <1>2, CreateTaskOpens DEF Money!Next
<1>3. ASSUME NEW sender \in Accounts, NEW t \in TaskIds,
             CompleteTask(sender, t) \/ CancelTask(sender, t)
      PROVE  Money!Next
  BY <1>3, SettlesADeal DEF Money!Next
<1>4. ASSUME NEW sender, NEW t \in TaskIds, NEW rating \in Ratings, RateTask(sender, t, rating)
      PROVE  UNCHANGED Money!escrowVars
  <2>1. tasks' = [tasks EXCEPT ![t].rating = rating] /\ UNCHANGED <<balance, deposit>>
    BY <1>4 DEF RateTask
  <2>2. \A u \in TaskIds : /\ tasks'[u].status = tasks[u].status
                         /\ tasks'[u].issuer = tasks[u].issuer
    BY <2>1 DEF TaskInv, TaskTypeOK, TaskData
  <2>3. QED
    BY <2>1, <2>2 DEF Money!escrowVars, Deal
<1>5. QED
  BY <1>1, <1>2, <1>3, <1>4 DEF Next, TaskStep, vars

\* The task registry implements Escrow: although it stores no amount, every
\* payout is the deposit of that very task, or nothing, and is made once.
THEOREM TaskRegistryIsAnEscrow == Spec => IsAnEscrow
<1>1. Init => Money!Init
  BY TaskConstants DEF Init, Money!Init, Money!NoDeal, Deal, NoTask, NoDeposit, Assets, Holders
<1>2. QED
  BY <1>1, TaskInvInit, TaskInvStep, StepIsEscrowStep, PTL DEF Spec, IsAnEscrow, Money!Spec

-----------------------------------------------------------------------------
(* Solvency.                                                                *)

\* What is owed for a task is what the escrow holds for its deal.
OwedByDeal ==
  \A asset : \A t \in TaskIds :
    /\ Owed(asset)[t] \in Nat
    /\ Owed(asset)[t] = IF Deal(t).phase = "held" /\ Deal(t).asset = asset
                        THEN Deal(t).amount ELSE 0

\* It follows from the types.
LEMMA OwedByDealHolds == TaskTypeOK => OwedByDeal
<1> SUFFICES ASSUME TaskTypeOK, NEW asset, NEW t \in TaskIds
             PROVE  /\ Owed(asset)[t] \in Nat
                    /\ Owed(asset)[t] = IF Deal(t).phase = "held" /\ Deal(t).asset = asset
                                        THEN Deal(t).amount ELSE 0
  BY DEF OwedByDeal
<1>1. deposit[t].amount \in Nat
  <2>1. deposit[t] \in Deposit /\ Prices \cup {0} \subseteq Nat
    BY AgentConstants DEF TaskTypeOK
  <2>2. QED
    BY <2>1 DEF Deposit
<1>2. Deal(t).phase = "held" <=> tasks[t].status = "ASSIGNED"
  BY DEF Deal
<1>3. Deal(t).asset = deposit[t].asset /\ Deal(t).amount = deposit[t].amount
  BY DEF Deal
<1>4. QED
  BY <1>1, <1>2, <1>3 DEF Owed

\* The same of the next state.
LEMMA OwedByDealNext == TaskTypeOK' => OwedByDeal'
BY OwedByDealHolds, PTL

\* A payment that goes through moves the amount, in that asset alone.
LEMMA PaidByKeeper ==
  ASSUME balance \in [Assets -> [Holders -> Nat]], NEW party \in Accounts,
         NEW asset, NEW amount \in Nat, NEW other \in Assets
  PROVE  /\ Money!Pay(asset, party, TaskRegistryAddress, amount) =>
              balance'[other][TaskRegistryAddress] = balance[other][TaskRegistryAddress]
                                                  + (IF other = asset THEN amount ELSE 0)
         /\ Money!Pay(asset, TaskRegistryAddress, party, amount) =>
              balance'[other][TaskRegistryAddress] = balance[other][TaskRegistryAddress]
                                                  - (IF other = asset THEN amount ELSE 0)
<1>1. /\ TaskRegistryAddress \in Holders /\ party \in Holders /\ party # TaskRegistryAddress
      /\ balance[other] \in [Holders -> Nat]
  BY TaskConstants DEF Holders
<1>2. CASE asset \notin Assets
  BY <1>1, <1>2 DEF Money!Pay
<1>3. CASE asset \in Assets
  BY <1>1, <1>3 DEF Money!Pay
<1>4. QED
  BY <1>2, <1>3

\* A step of the escrow changes what it keeps of an asset by at least as much
\* as what it owes of it.
LEMMA EscrowStaysSolvent ==
  ASSUME TaskInv, TaskTypeOK', Solvent, Money!Next
  PROVE  Solvent'
<1>0. TaskTypeOK
  BY DEF TaskInv
<1> DEFINE deals == [t \in TaskIds |-> Deal(t)]
<1>1. PICK d \in TaskIds : Money!Open(d) \/ Money!Settle(d)
  BY DEF Money!Next
<1>2. SUFFICES ASSUME NEW asset \in Assets
               PROVE  SumFunction(Owed(asset)') <= balance'[asset][TaskRegistryAddress]
  BY DEF Solvent
<1> DEFINE owed == Owed(asset)
           owes == Owed(asset)'
           kept == balance[asset][TaskRegistryAddress]
           keeps == balance'[asset][TaskRegistryAddress]
<1>3. IsFiniteSet(TaskIds)
  BY TaskConstants, FS_Interval DEF TaskIds
<1>4. /\ DOMAIN owed = TaskIds /\ DOMAIN owes = TaskIds
      /\ \A t \in TaskIds : owed[t] \in Nat /\ owes[t] \in Nat
  <2>1. OwedByDeal /\ OwedByDeal'
    BY <1>0, OwedByDealHolds, OwedByDealNext
  <2>2. \A t \in TaskIds : owed[t] \in Nat /\ owes[t] \in Nat
    BY <2>1 DEF OwedByDeal
  <2>3. QED
    BY <2>1, <2>2 DEF Owed
<1>5. ASSUME NEW t \in TaskIds \ {d}
      PROVE  owes[t] = owed[t]
  <2>1. deals'[t] = deals[t]
    BY <1>1 DEF Money!Open, Money!Settle
  <2>2. QED
    BY <1>0, <2>1, OwedByDealHolds, OwedByDealNext DEF OwedByDeal
<1>6. SumFunctionOnSet(owes, TaskIds) = SumFunctionOnSet(owed, TaskIds) - owed[d] + owes[d]
  <2> HIDE DEF owed, owes
  <2>1. QED
    BY <1>3, <1>4, <1>5, SumAfterChange
<1>7. SumFunctionOnSet(owed, TaskIds) \in Int /\ SumFunctionOnSet(owed, TaskIds) <= kept
  <2>1. SumFunctionOnSet(owed, TaskIds) <= kept
    BY <1>4 DEF Solvent, SumFunction
  <2> HIDE DEF owed
  <2>2. QED
    BY <1>3, <1>4, <2>1, SumType
<1>8. kept \in Nat /\ keeps \in Nat
  BY <1>0 DEF TaskTypeOK, Holders
<1>9. owes[d] - owed[d] <= keeps - kept
  <2>1. /\ owed[d] = IF deals[d].phase = "held" /\ deals[d].asset = asset
                     THEN deals[d].amount ELSE 0
        /\ owes[d] = IF deals'[d].phase = "held" /\ deals'[d].asset = asset
                     THEN deals'[d].amount ELSE 0
    BY <1>0, OwedByDealHolds, OwedByDealNext DEF OwedByDeal
  <2>2. deals[d].amount \in Nat /\ deals'[d].amount \in Nat
    <3>1. Prices \cup {0} \subseteq Nat
      BY AgentConstants
    <3>2. deposit[d] \in Deposit /\ deposit'[d] \in Deposit
      BY <1>0 DEF TaskTypeOK
    <3>3. QED
      BY <3>1, <3>2 DEF Deal, Deposit
  <2>3. CASE Money!Open(d)
    <3>1. /\ deals[d].phase = "none" /\ deals'[d].phase = "held" /\ deals'[d].owner \in Accounts
          /\ Money!Pay(deals'[d].asset, deals'[d].owner, TaskRegistryAddress, deals'[d].amount)
      BY <2>3 DEF Money!Open
    <3>2. keeps = kept + (IF asset = deals'[d].asset THEN deals'[d].amount ELSE 0)
      <4>1. balance \in [Assets -> [Holders -> Nat]]
        BY <1>0 DEF TaskTypeOK
      <4> HIDE DEF deals
      <4>2. QED
        BY <2>2, <3>1, <4>1, PaidByKeeper
    <3> HIDE DEF deals, owed, owes, kept, keeps
    <3>3. QED
      BY <1>8, <2>1, <2>2, <3>1, <3>2
  <2>4. CASE Money!Settle(d)
    <3>1. /\ deals[d].phase = "held" /\ deals'[d].phase = "settled"
          /\ \/ Money!Pay(deals[d].asset, TaskRegistryAddress, deals[d].owner, deals[d].amount)
             \/ UNCHANGED balance
      <4>1. /\ deals[d].phase = "held" /\ deals' = [deals EXCEPT ![d].phase = "settled"]
            /\ \/ Money!Pay(deals[d].asset, TaskRegistryAddress, deals[d].owner, deals[d].amount)
               \/ UNCHANGED balance
        BY <2>4 DEF Money!Settle
      <4>2. [deals[d] EXCEPT !.phase = "settled"].phase = "settled"
        BY DEF Deal
      <4>3. d \in DOMAIN deals
        OBVIOUS
      <4> HIDE DEF deals
      <4>4. QED
        BY <4>1, <4>2, <4>3
    <3>2. deals[d].owner \in Accounts
      <4>1. tasks[d].status # "CREATED" /\ deals[d].owner = tasks[d].issuer
        BY <3>1 DEF Deal
      <4>2. tasks[d].issuer \in Accounts \cup {ZeroAddress}
        BY <1>0 DEF TaskTypeOK, TaskData
      <4>3. QED
        BY <4>1, <4>2 DEF TaskInv, TasksBelowCounter, NoTask
    <3>3. \/ keeps = kept - (IF asset = deals[d].asset THEN deals[d].amount ELSE 0)
          \/ keeps = kept
      <4>1. balance \in [Assets -> [Holders -> Nat]]
        BY <1>0 DEF TaskTypeOK
      <4> HIDE DEF deals
      <4>2. QED
        BY <2>2, <3>1, <3>2, <4>1, PaidByKeeper
    <3> HIDE DEF deals, owed, owes, kept, keeps
    <3>4. QED
      BY <1>8, <2>1, <2>2, <3>1, <3>3
  <2>5. QED
    BY <1>1, <2>3, <2>4
<1>10. QED
  <2>1. SumFunction(owes) = SumFunctionOnSet(owes, TaskIds)
    BY <1>4 DEF SumFunction
  <2> HIDE DEF owed, owes, kept, keeps
  <2>2. SumFunctionOnSet(owes, TaskIds) <= keeps
    BY <1>4, <1>6, <1>7, <1>8, <1>9
  <2>3. QED
    BY <2>1, <2>2 DEF owes, keeps

\* The contract always holds what it owes: with DepositsMatchProposals no
\* settlement takes more than its own deposit, whatever happens to proposals.
THEOREM StaysSolvent == Spec => []Solvent
<1>1. Init => Solvent
  <2> SUFFICES ASSUME Init, NEW asset \in Assets
               PROVE  SumFunction(Owed(asset)) <= balance[asset][TaskRegistryAddress]
    BY DEF Solvent
  <2> DEFINE owed == Owed(asset)
  <2>1. DOMAIN owed = TaskIds /\ \A t \in TaskIds : owed[t] = 0
    BY DEF Init, Owed, NoTask
  <2>2. IsFiniteSet(TaskIds)
    BY TaskConstants, FS_Interval DEF TaskIds
  <2>3. balance[asset][TaskRegistryAddress] = 0
    BY DEF Init, Holders
  <2> HIDE DEF owed
  <2>4. SumFunctionOnSet(owed, TaskIds) = 0
    BY <2>1, <2>2, SumNat
  <2>5. SumFunction(owed) = 0
    BY <2>1, <2>4 DEF SumFunction
  <2>6. QED
    BY <2>3, <2>5 DEF owed
<1>2. ASSUME TaskInv, TaskInv', Solvent, [Next]_vars
      PROVE  Solvent'
  <2>1. CASE Money!Next
    BY <1>2, <2>1, EscrowStaysSolvent DEF TaskInv
  <2>2. CASE UNCHANGED Money!escrowVars
    <3>1. \A t \in TaskIds : Deal(t)' = Deal(t)
      BY <2>2 DEF Money!escrowVars
    <3>2. ASSUME NEW asset \in Assets
          PROVE  Owed(asset)' = Owed(asset)
      <4>1. \A t \in TaskIds : Owed(asset)'[t] = Owed(asset)[t]
        BY <1>2, <3>1, OwedByDealHolds, OwedByDealNext DEF OwedByDeal, TaskInv
      <4>2. QED
        BY <4>1 DEF Owed
    <3>3. balance' = balance
      BY <2>2 DEF Money!escrowVars
    <3>4. QED
      BY <1>2, <3>2, <3>3 DEF Solvent, SumFunction
  <2>3. QED
    BY <1>2, <2>1, <2>2, StepIsEscrowStep
<1>3. QED
  BY <1>1, <1>2, TaskInvInit, TaskInvStep, PTL DEF Spec

-----------------------------------------------------------------------------
(* The promises of the registries survive the task registry.                *)

\* A rating changes nothing of the book and leaves every agent registered.
LEMMA RatesOnly ==
  ASSUME AgentTypeOK, RatesAnAgent
  PROVE  /\ UNCHANGED Book!bookVars
         /\ UNCHANGED <<proposals, nextProposalId>>
         /\ KeepsAgents
         /\ ReputationBounded => ReputationBounded'
<1>1. PICK agent \in AgentKeys, rating \in Nat : AddRating(TaskRegistryAddress, agent, rating)
  BY DEF RatesAnAgent
<1>2. RatingAdded(TaskRegistryAddress, agent, rating) /\ UNCHANGED <<proposals, nextProposalId>>
  BY <1>1 DEF AddRating
<1>3. UNCHANGED Book!bookVars
  BY <1>2 DEF Book!bookVars, BookEntry
<1>4. QED
  BY <1>2, <1>3, RatingKeepsAgents, RatingBounded

\* Composed with the task registry, whose issuers rate agents through it, the
\* agents registry still keeps every promise made for it alone: proposals read
\* as they were listed or not at all, belong to registered agents, and
\* reputations stay on the scale.
THEOREM RegistriesKeepPromises ==
  Spec => KeepsTheBook /\ []ProposalsHaveAgents /\ []ReputationBounded
<1> DEFINE Inv == HaveAgentsInv /\ ReputationBounded
<1>1. Init => Inv /\ Book!Init
  BY AgentInitType, InactiveIsEmptyInit, AgentInitIsBookInit
     DEF Init, AgentInit, HaveAgentsInv, OwnedAgentsAreRegistered, ProposalsHaveAgents,
         NoAgent, NoProposal, ReputationBounded, MaxRating
<1>2. ASSUME Inv, [Next]_vars PROVE Inv' /\ [Book!Next]_Book!bookVars
  <2>0. AgentTypeOK /\ InactiveIsEmpty /\ ReputationBounded
    BY <1>2 DEF HaveAgentsInv
  <2>1. CASE RegistryNext
    BY <1>2, <2>0, <2>1, HaveAgentsStep, ReputationBoundedStep, RegistryStepIsBookStep
  <2>2. CASE UNCHANGED registryVars
    <3>1. ReputationBounded'
      BY <2>0, <2>2 DEF ReputationBounded, registryVars, agentVars
    <3>2. QED
      BY <1>2, <2>2, <3>1, HaveAgentsStep, RegistryStutterIsBookStutter
  <2>3. CASE RatesAnAgent
    <3>1. UNCHANGED Book!bookVars /\ KeepsAgents /\ UNCHANGED <<proposals, nextProposalId>>
          /\ ReputationBounded'
      BY <2>0, <2>3, RatesOnly
    <3>2. AgentTypeOK'
      BY <1>2, <2>0, AgentTypeStep
    <3>3. InactiveIsEmpty' /\ Withdraws
      BY <2>0, <3>1, NothingWithdrawn DEF InactiveIsEmpty
    <3>4. OwnedAgentsAreRegistered' /\ ProposalsHaveAgents'
      BY <1>2, <3>1, <3>3, WithdrawKeepsAgents
    <3>5. QED
      BY <3>1, <3>2, <3>3, <3>4 DEF HaveAgentsInv
  <2>4. QED
    BY <1>2, <2>0, <2>1, <2>2, <2>3, TaskStepKinds DEF vars
<1>3. Inv => ProposalsHaveAgents /\ ReputationBounded
  BY DEF HaveAgentsInv
<1> HIDE DEF Inv
<1>4. QED
  BY <1>1, <1>2, <1>3, PTL DEF Spec, KeepsTheBook, Book!Spec
-----------------------------------------------------------------------------
(* Refunds.                                                                 *)

\* What settles a task is its completion or its cancellation.
LEMMA WhatSettles ==
  ASSUME TaskInv, [Next]_vars, NEW t \in TaskIds,
         tasks[t].status = "ASSIGNED", tasks'[t].status \in Settled
  PROVE  PayIssuer(t) /\ t < nextTaskId
<1>0. tasks \in [TaskIds -> TaskData] /\ tasks[t].status \notin Settled
  BY DEF TaskInv, TaskTypeOK, Settled
<1>1. ASSUME NEW sender, NEW id, NEW value, CreateTask(sender, id, value)
      PROVE  FALSE
  BY <1>0, <1>1 DEF CreateTask, Settled
<1>2. ASSUME NEW sender, NEW u \in TaskIds, CompleteTask(sender, u) \/ CancelTask(sender, u)
      PROVE  u = t
  BY <1>0, <1>2 DEF CompleteTask, CancelTask
<1>3. ASSUME NEW sender, NEW u \in TaskIds, NEW rating, RateTask(sender, u, rating)
      PROVE  FALSE
  BY <1>0, <1>3 DEF RateTask, TaskData
<1>4. ~UNCHANGED taskVars
  BY <1>0 DEF taskVars
<1>5. PayIssuer(t)
  BY <1>1, <1>2, <1>3, <1>4 DEF Next, TaskStep, vars, CompleteTask, CancelTask
<1>6. QED
  BY <1>5, TouchedTasksExist

\* Whoever completes or cancels a task while its proposal is listed gives the
\* issuer the whole deposit back.
THEOREM ListedTasksAreRefunded == Spec => ListedTasksPayBack
<1>1. ASSUME TaskInv, [Next]_vars, NEW t \in TaskIds,
             tasks[t].status = "ASSIGNED", tasks'[t].status \in Settled,
             GetProposal(tasks[t].proposalId).isActive, deposit[t].asset \in Assets
      PROVE  balance'[deposit[t].asset][tasks[t].issuer] =
               balance[deposit[t].asset][tasks[t].issuer] + deposit[t].amount
  <2> DEFINE proposal == GetProposal(tasks[t].proposalId)
  <2>1. PayIssuer(t) /\ tasks[t].issuer \in Accounts
    BY <1>1, WhatSettles DEF TaskInv, TasksBelowCounter
  <2>2. /\ proposal.price = deposit[t].amount /\ proposal.tokenAddress = deposit[t].asset
        /\ proposal.price \in Nat
    BY <1>1, GetProposalType DEF TaskInv, TaskTypeOK, DepositsMatchProposals
  <2>3. Transfer(deposit[t].asset, TaskRegistryAddress, tasks[t].issuer, deposit[t].amount)
    BY <2>1, <2>2 DEF PayIssuer
  <2>4. /\ tasks[t].issuer \in Holders /\ TaskRegistryAddress \in Holders
        /\ TaskRegistryAddress # tasks[t].issuer
    BY <2>1, TaskConstants DEF Holders
  <2>5. QED
    BY <1>1, <2>2, <2>3, <2>4, TransferType DEF TaskInv, TaskTypeOK
<1> DEFINE PaysBack ==
      \A t \in TaskIds :
        /\ tasks[t].status = "ASSIGNED" /\ tasks'[t].status \in Settled
        /\ GetProposal(tasks[t].proposalId).isActive
        /\ deposit[t].asset \in Assets
        => balance'[deposit[t].asset][tasks[t].issuer] =
             balance[deposit[t].asset][tasks[t].issuer] + deposit[t].amount
<1>2. TaskInv /\ [Next]_vars => PaysBack
  BY <1>1
<1>3. QED
  BY <1>2, TaskInvInit, TaskInvStep, PTL DEF Spec, ListedTasksPayBack

-----------------------------------------------------------------------------
(* The tasks of an issuer.                                                  *)

\* The index lists the tasks of an issuer and all of them, in ascending order,
\* hence each once.
IndexInv ==
  \A a \in Accounts :
    /\ \A i \in DOMAIN issuerTasks[a] :
         issuerTasks[a][i] < nextTaskId /\ tasks[issuerTasks[a][i]].issuer = a
    /\ \A t \in TaskIds : tasks[t].issuer = a => \E i \in DOMAIN issuerTasks[a] : issuerTasks[a][i] = t
    /\ \A i, j \in DOMAIN issuerTasks[a] : i < j => issuerTasks[a][i] < issuerTasks[a][j]

\* createTask appends the largest id so far to the list of its caller.
LEMMA CreateTaskIndexes ==
  ASSUME TaskInv, IndexInv, NEW sender \in Accounts, NEW id \in ProposalIds, NEW value \in Values,
         CreateTask(sender, id, value)
  PROVE  IndexInv'
<1>1. /\ nextTaskId \in TaskIds /\ nextTaskId \in Nat /\ TaskIds \subseteq Nat
      /\ nextTaskId' = nextTaskId + 1
  BY TaskConstants DEF TaskInv, TaskTypeOK, CreateTask, TaskIds
<1>2. /\ tasks'[nextTaskId].issuer = sender
      /\ \A t \in TaskIds : t # nextTaskId => tasks'[t] = tasks[t]
      /\ tasks[nextTaskId].issuer \notin Accounts
  BY <1>1, ServiceConstants DEF TaskInv, TaskTypeOK, TasksBelowCounter, NoTask, CreateTask
<1>3. ASSUME NEW a \in Accounts
      PROVE  /\ issuerTasks[a] \in Seq(TaskIds)
             /\ issuerTasks'[a] = IF a = sender THEN Append(issuerTasks[a], nextTaskId)
                                  ELSE issuerTasks[a]
  BY <1>3 DEF TaskInv, TaskTypeOK, CreateTask
<1>4. ASSUME NEW a \in Accounts
      PROVE  /\ \A i \in DOMAIN issuerTasks'[a] :
                  issuerTasks'[a][i] < nextTaskId' /\ tasks'[issuerTasks'[a][i]].issuer = a
             /\ \A t \in TaskIds :
                  tasks'[t].issuer = a => \E i \in DOMAIN issuerTasks'[a] : issuerTasks'[a][i] = t
             /\ \A i, j \in DOMAIN issuerTasks'[a] :
                  i < j => issuerTasks'[a][i] < issuerTasks'[a][j]
  <2> DEFINE old == issuerTasks[a]
             new == issuerTasks'[a]
  <2>1. /\ old \in Seq(TaskIds)
        /\ \A i \in 1 .. Len(old) :
             old[i] \in TaskIds /\ old[i] < nextTaskId /\ tasks'[old[i]].issuer = a
        /\ \A t \in TaskIds : t # nextTaskId /\ tasks'[t].issuer = a =>
             \E i \in 1 .. Len(old) : old[i] = t
        /\ \A i, j \in 1 .. Len(old) : i < j => old[i] < old[j]
    <3>1. old \in Seq(TaskIds) /\ DOMAIN old = 1 .. Len(old)
      BY <1>3
    <3>2. \A i \in 1 .. Len(old) : old[i] \in TaskIds
      BY <3>1
    <3>3. \A i \in 1 .. Len(old) : old[i] < nextTaskId /\ tasks[old[i]].issuer = a
      BY <3>1 DEF IndexInv
    <3>4. \A i \in 1 .. Len(old) : tasks'[old[i]].issuer = a
      BY <1>1, <1>2, <3>2, <3>3
    <3>5. QED
      BY <1>2, <3>1, <3>2, <3>3, <3>4 DEF IndexInv
  <2>2. CASE a # sender
    <3>1. new = old /\ DOMAIN new = 1 .. Len(old)
      BY <1>3, <2>1, <2>2
    <3>2. tasks'[nextTaskId].issuer # a
      BY <1>2, <2>2
    <3>3. \A i \in 1 .. Len(old) : old[i] < nextTaskId'
      BY <1>1, <2>1
    <3>4. QED
      BY <2>1, <3>1, <3>2, <3>3
  <2>3. CASE a = sender
    <3> DEFINE n == Len(old)
    <3>1. /\ n \in Nat /\ DOMAIN new = 1 .. n + 1 /\ new[n + 1] = nextTaskId
          /\ \A i \in 1 .. n : new[i] = old[i]
      <4>1. old \in Seq(TaskIds) /\ nextTaskId \in TaskIds /\ n \in Nat
        BY <1>1, <2>1
      <4>2. new = Append(old, nextTaskId)
        BY <1>3, <2>3
      <4> HIDE DEF old, new
      <4>3. QED
        BY <4>1, <4>2
    <3>2. ASSUME NEW i \in DOMAIN new
          PROVE  new[i] < nextTaskId' /\ tasks'[new[i]].issuer = a
      <4>1. i \in 1 .. n \/ i = n + 1
        BY <3>1
      <4>2. CASE i \in 1 .. n
        <5>1. new[i] = old[i]
          BY <3>1, <4>2
        <5>2. old[i] \in Nat /\ old[i] < nextTaskId /\ tasks'[old[i]].issuer = a
          BY <1>1, <2>1, <4>2
        <5> HIDE DEF old, new
        <5>3. QED
          BY <1>1, <5>1, <5>2
      <4>3. CASE i = n + 1
        BY <1>1, <1>2, <2>3, <3>1, <4>3
      <4>4. QED
        BY <4>1, <4>2, <4>3
    <3>3. ASSUME NEW t \in TaskIds, tasks'[t].issuer = a
          PROVE  \E i \in DOMAIN new : new[i] = t
      <4>1. CASE t = nextTaskId
        BY <3>1, <4>1
      <4>2. CASE t # nextTaskId
        <5>1. PICK i \in 1 .. n : old[i] = t
          BY <2>1, <3>3, <4>2
        <5>2. i \in DOMAIN new /\ new[i] = t
          BY <3>1, <5>1
        <5>3. QED
          BY <5>2
      <4>3. QED
        BY <4>1, <4>2
    <3>4. ASSUME NEW i \in DOMAIN new, NEW j \in DOMAIN new, i < j
          PROVE  new[i] < new[j]
      <4>1. i \in 1 .. n /\ (j \in 1 .. n \/ j = n + 1)
        BY <3>1, <3>4
      <4>2. QED
        BY <2>1, <3>1, <3>4, <4>1
    <3>5. QED
      BY <3>2, <3>3, <3>4
  <2>4. QED
    BY <2>2, <2>3
<1>5. QED
  BY <1>4 DEF IndexInv

\* getTasksByIssuer is right for any number of tasks and issuers.
THEOREM IssuerIndexStaysExact == Spec => []IssuerIndexIsExact
<1>1. Init => IndexInv
  BY ServiceConstants DEF Init, IndexInv, NoTask
<1>2. ASSUME TaskInv, IndexInv, [Next]_vars PROVE IndexInv'
  <2>1. CASE UNCHANGED <<tasks, issuerTasks, nextTaskId>>
    BY <1>2, <2>1 DEF IndexInv
  <2>2. ASSUME OnlyProgresses, UNCHANGED issuerTasks
        PROVE  IndexInv'
    <3>1. ASSUME NEW a \in Accounts, NEW i \in DOMAIN issuerTasks[a]
          PROVE  issuerTasks[a][i] \in TaskIds
      BY <1>2, <3>1 DEF TaskInv, TaskTypeOK
    <3>2. QED
      BY <1>2, <2>2, <3>1 DEF IndexInv, OnlyProgresses
  <2>3. ASSUME NEW sender \in Accounts, TaskStep(sender)
        PROVE  \/ \E id \in ProposalIds, value \in Values : CreateTask(sender, id, value)
               \/ OnlyProgresses /\ UNCHANGED issuerTasks
    BY <1>2, <2>3, TaskStepEffects DEF TaskStep, CompleteTask, CancelTask, RateTask
  <2>4. QED
    BY <1>2, <2>1, <2>2, <2>3, CreateTaskIndexes DEF Next, vars, taskVars
<1>3. ASSUME TaskInv, IndexInv PROVE IssuerIndexIsExact
  <2>1. ASSUME NEW a \in Accounts
        PROVE  ToSet(issuerTasks[a]) = {t \in TaskIds : tasks[t].issuer = a}
    <3>1. issuerTasks[a] \in Seq(TaskIds)
      BY <1>3 DEF TaskInv, TaskTypeOK
    <3>2. ToSet(issuerTasks[a]) = {issuerTasks[a][i] : i \in DOMAIN issuerTasks[a]}
      BY DEF ToSet
    <3>3. \A i \in DOMAIN issuerTasks[a] : issuerTasks[a][i] \in TaskIds
      BY <3>1
    <3>4. QED
      BY <1>3, <3>2, <3>3 DEF IndexInv
  <2>2. QED
    BY <1>3, <2>1 DEF IssuerIndexIsExact, IndexInv
<1>4. QED
  BY <1>1, <1>2, <1>3, TaskInvInit, TaskInvStep, PTL DEF Spec

-----------------------------------------------------------------------------
(* Agents that are gone.                                                    *)

\* Calls for an agent register it, remove it without a trace, or need it to be
\* registered.
LEMMA AgentStepKeepsBlank ==
  ASSUME AgentTypeOK, UnregisteredAgentsAreBlank, NEW sender \in Accounts,
         NEW agent \in AgentAddresses, AgentStep(sender, agent)
  PROVE  UnregisteredAgentsAreBlank'
<1>0. agent \in AgentKeys /\ agents \in [AgentKeys -> AgentData]
  BY DEF AgentKeys, AgentTypeOK
<1>1. ASSUME NEW metadata, NEW owner, NEW reputation,
             CreateAgent(agent, metadata, owner, reputation)
      PROVE  UnregisteredAgentsAreBlank'
  <2>1. agents'[agent].agent = agent
    BY <1>0, <1>1 DEF CreateAgent
  <2>2. \A other \in AgentKeys : other # agent => agents'[other] = agents[other]
    BY <1>0, <1>1 DEF CreateAgent
  <2>3. QED
    BY <2>1, <2>2 DEF UnregisteredAgentsAreBlank, IsAgent
<1>2. ASSUME NEW metadata \in Metadata, SetAgentData(sender, agent, metadata)
      PROVE  UnregisteredAgentsAreBlank'
  <2>1. \A other \in AgentKeys : /\ agents'[other].agent = agents[other].agent
                                 /\ other # agent => agents'[other] = agents[other]
    BY <1>0, <1>2 DEF SetAgentData, AgentData
  <2>2. IsAgent(agent)
    BY <1>2 DEF SetAgentData
  <2>3. QED
    BY <2>1, <2>2 DEF UnregisteredAgentsAreBlank, IsAgent
<1>3. CASE RemoveAgent(sender, agent)
  BY <1>0, <1>3 DEF RemoveAgent, UnregisteredAgentsAreBlank, IsAgent
<1>4. CASE UNCHANGED agents
  BY <1>4 DEF UnregisteredAgentsAreBlank, IsAgent
<1>5. QED
  BY <1>1, <1>2, <1>3, <1>4 DEF AgentStep, RegisterAgent, RegisterAgentWithService, AddProposal,
     RemoveProposal, MigrateAgent

\* The agent that a task rates has an active proposal, or is address zero.
LEMMA RateTaskKeepsBlank ==
  ASSUME TaskInv, ProposalsHaveAgents, UnregisteredAgentsAreBlank,
         NEW sender, NEW t \in TaskIds, NEW rating, RateTask(sender, t, rating)
  PROVE  UnregisteredAgentsAreBlank'
<1> DEFINE agent == GetProposal(tasks[t].proposalId).issuer
<1>0. AgentTypeOK /\ agents \in [AgentKeys -> AgentData]
  BY DEF TaskInv, TaskTypeOK, AgentTypeOK
<1>1. agent \in AgentKeys
  BY <1>0, GetProposalType DEF ServiceProposal
<1>2. RatingAdded(TaskRegistryAddress, agent, rating)
  BY DEF RateTask, AddRating
<1>3. agent = ZeroAddress \/ IsAgent(agent)
  <2>1. SUFFICES ASSUME agent # ZeroAddress PROVE IsAgent(agent)
    OBVIOUS
  <2>2. /\ tasks[t].proposalId \in ProposalIds
        /\ proposals[tasks[t].proposalId].isActive
    BY <1>0, <2>1, ListedProposal DEF TaskInv
  <2>3. proposals[tasks[t].proposalId].issuer = agent
    BY <2>2 DEF GetProposal
  <2>4. QED
    BY <2>1, <2>2, <2>3 DEF ProposalsHaveAgents
<1> HIDE DEF agent
<1>4. KeepsAgents
  BY <1>0, <1>1, <1>2, RatingKeepsAgents
<1>5. \A other \in AgentKeys : other # agent => agents'[other] = agents[other]
  BY <1>0, <1>1, <1>2 DEF RatingAdded
<1>6. QED
  BY <1>3, <1>4, <1>5 DEF UnregisteredAgentsAreBlank, IsAgent, KeepsAgents

\* An agent that is not registered has no record at all, ratings included, as
\* long as only the task registry rates.
THEOREM UnregisteredAgentsStayBlank ==
  ASSUME TaskRegistries \cap Accounts = {}
  PROVE  Spec => []UnregisteredAgentsAreBlank
<1>1. Init => UnregisteredAgentsAreBlank
  BY DEF Init, AgentInit, UnregisteredAgentsAreBlank
<1>2. ASSUME TaskInv, ProposalsHaveAgents, UnregisteredAgentsAreBlank, [Next]_vars
      PROVE  UnregisteredAgentsAreBlank'
  <2>0. AgentTypeOK
    BY <1>2 DEF TaskInv, TaskTypeOK
  <2>1. CASE UNCHANGED agents
    BY <1>2, <2>1 DEF UnregisteredAgentsAreBlank, IsAgent
  <2>2. ASSUME NEW sender \in Accounts, TaskStep(sender)
        PROVE  UnregisteredAgentsAreBlank'
    BY <1>2, <2>1, <2>2, RateTaskKeepsBlank DEF TaskStep, CreateTask, CompleteTask, CancelTask,
       registryVars, agentVars
  <2>3. ASSUME NEW sender \in Accounts, OwnerStep(sender)
        PROVE  UNCHANGED agents
    BY <2>3 DEF OwnerStep, SetTaskRegistry, SetServiceRegistry, PassRegistryOwnership
  <2>4. \A sender \in Accounts : ~DirectRating(sender)
    BY <2>0, ServiceConstants DEF DirectRating, AddRating, RatingAdded, AgentTypeOK
  <2>5. CASE RegistryNext
    BY <1>2, <2>0, <2>1, <2>3, <2>4, <2>5, AgentStepKeepsBlank DEF RegistryNext, agentVars
  <2>6. QED
    BY <1>2, <2>1, <2>2, <2>5 DEF Next, vars, registryVars, agentVars
<1>3. QED
  BY <1>1, <1>2, TaskInvInit, TaskInvStep, RegistriesKeepPromises, PTL DEF Spec
-----------------------------------------------------------------------------
(* Earned reputations.                                                      *)

\* An average is no larger than what went into it.
LEMMA AveragedAtMost ==
  ASSUME NEW reputation \in Nat, NEW count \in Nat, NEW rating \in Nat, NEW most \in Nat,
         reputation <= most, rating <= most
  PROVE  Averaged(reputation, count, rating) <= most
<1> DEFINE sum == reputation * count + rating
           q == sum \div (count + 1)
<1>1. sum \in Nat
  BY SMT
<1>2. q \in Nat /\ (count + 1) * q <= sum
  BY <1>1, SMT
<1>3. sum <= (count + 1) * most
  <2>1. reputation * count <= most * count
    BY SMT
  <2>2. sum <= most * count + most
    BY <2>1, SMT
  <2>3. most * count + most = (count + 1) * most
    BY SMT
  <2>4. QED
    BY <2>2, <2>3, SMT
<1>4. q <= most
  <2>1. ASSUME q > most PROVE FALSE
    <3>1. q >= most + 1
      BY <1>2, <2>1
    <3>2. (count + 1) * q >= (count + 1) * (most + 1)
      BY <1>2, <3>1, SMT
    <3>3. (count + 1) * (most + 1) > (count + 1) * most
      BY SMT
    <3>4. (count + 1) * q \in Nat /\ (count + 1) * (most + 1) \in Nat /\ (count + 1) * most \in Nat
      BY <1>2, SMT
    <3> HIDE DEF q, sum
    <3>5. QED
      BY <1>1, <1>2, <1>3, <3>2, <3>3, <3>4
  <2>2. QED
    BY <1>2, <2>1
<1>5. QED
  BY <1>4 DEF Averaged

\* Without reputations from V1, calls for an agent leave every reputation as
\* it was or start one at 0.
LEMMA AgentStepStartsAtZero ==
  ASSUME AgentTypeOK, NEW sender \in Accounts, NEW agent \in AgentAddresses,
         V1Agents[agent].reputation = 0, AgentStep(sender, agent), NEW other \in AgentKeys
  PROVE  agents'[other].reputation \in {agents[other].reputation, 0}
<1>0. agent \in AgentKeys /\ agents \in [AgentKeys -> AgentData]
  BY DEF AgentKeys, AgentTypeOK
<1>1. ASSUME NEW metadata, NEW owner, CreateAgent(agent, metadata, owner, 0)
      PROVE  agents'[other].reputation \in {agents[other].reputation, 0}
  BY <1>0, <1>1 DEF CreateAgent
<1>2. ASSUME NEW metadata \in Metadata, SetAgentData(sender, agent, metadata)
      PROVE  agents'[other].reputation = agents[other].reputation
  BY <1>0, <1>2 DEF SetAgentData, AgentData
<1>3. CASE RemoveAgent(sender, agent)
  BY <1>0, <1>3 DEF RemoveAgent, NoAgent
<1>4. CASE UNCHANGED agents
  BY <1>4
<1>5. QED
  BY <1>1, <1>2, <1>3, <1>4 DEF AgentStep, RegisterAgent, RegisterAgentWithService, AddProposal,
     RemoveProposal, MigrateAgent

\* What a completed task was rated is kept, unless it counts as unrated.
LEMMA RatingsLast ==
  ASSUME TaskInv, [Next]_vars, NEW t \in TaskIds, tasks[t].status = "COMPLETED",
         tasks[t].rating > 0
  PROVE  /\ tasks'[t].status = "COMPLETED" /\ tasks'[t].assignee = tasks[t].assignee
         /\ tasks'[t].rating = tasks[t].rating
<1>0. tasks \in [TaskIds -> TaskData]
  BY DEF TaskInv, TaskTypeOK
<1>1. ASSUME NEW sender, NEW id, NEW value, CreateTask(sender, id, value)
      PROVE  tasks'[t] = tasks[t]
  <2>1. t # nextTaskId
    BY <1>1, TouchedTasksExist, TaskConstants DEF TaskInv, TaskTypeOK, TaskIds
  <2>2. QED
    BY <1>0, <1>1, <2>1 DEF CreateTask
<1>2. ASSUME NEW sender, NEW u \in TaskIds, CompleteTask(sender, u) \/ CancelTask(sender, u)
      PROVE  tasks'[t] = tasks[t]
  BY <1>0, <1>2 DEF CompleteTask, CancelTask
<1>3. ASSUME NEW sender, NEW u \in TaskIds, NEW rating, RateTask(sender, u, rating)
      PROVE  tasks'[t] = tasks[t]
  BY <1>0, <1>3 DEF RateTask
<1>4. UNCHANGED taskVars => tasks'[t] = tasks[t]
  BY DEF taskVars
<1>5. QED
  BY <1>1, <1>2, <1>3, <1>4 DEF Next, TaskStep, vars

\* Who rates a completed task raises the reputation of its assignee no further
\* than by what the task is rated with.
LEMMA RateTaskKeepsEarned ==
  ASSUME TaskInv, ReputationIsEarned, [Next]_vars,
         NEW sender, NEW t \in TaskIds, NEW rating \in Ratings, RateTask(sender, t, rating)
  PROVE  ReputationIsEarned'
<1> DEFINE agent == GetProposal(tasks[t].proposalId).issuer
           old == agents[agent]
           Earns(other, u, amount) ==
             /\ tasks[u].status = "COMPLETED" /\ tasks[u].assignee = other
             /\ tasks[u].rating >= amount
<1>0. /\ AgentTypeOK /\ agents \in [AgentKeys -> AgentData] /\ tasks \in [TaskIds -> TaskData]
      /\ rating \in Nat
  BY AgentConstants DEF TaskInv, TaskTypeOK, AgentTypeOK
<1>1. agent \in AgentKeys
  BY <1>0, GetProposalType DEF ServiceProposal
<1>2. RatingAdded(TaskRegistryAddress, agent, rating)
  BY DEF RateTask, AddRating
<1>3. /\ tasks'[t].status = "COMPLETED" /\ tasks'[t].assignee = tasks[t].assignee
      /\ tasks'[t].rating = rating
  BY <1>0 DEF RateTask, TaskData
<1>4. agent # ZeroAddress => agent = tasks[t].assignee
  <2>1. ASSUME agent # ZeroAddress
        PROVE  GetProposal(tasks[t].proposalId).isActive /\ tasks[t].status # "CREATED"
    BY <1>0, <2>1, ListedProposal DEF TaskInv, GetProposal, RateTask
  <2>2. QED
    BY <2>1 DEF TaskInv, DepositsMatchProposals
<1>5. ASSUME NEW other \in AgentKeys, NEW u \in TaskIds, NEW amount \in Nat, amount > 0,
             Earns(other, u, amount)
      PROVE  Earns(other, u, amount)'
  <2>1. tasks[u].rating \in Nat /\ tasks[u].rating > 0
    BY <1>0, <1>5 DEF TaskData, MaxRating
  <2>2. QED
    BY <1>5, <2>1, RatingsLast
<1>6. ASSUME NEW other \in AgentKeys \ {ZeroAddress}, other # agent, agents'[other].reputation > 0
      PROVE  \E u \in TaskIds : Earns(other, u, agents[other].reputation)'
  <2>1. agents'[other] = agents[other] /\ agents[other].reputation \in Nat
    BY <1>0, <1>2, <1>6 DEF RatingAdded, AgentData
  <2>2. PICK u \in TaskIds : Earns(other, u, agents[other].reputation)
    BY <1>6, <2>1 DEF ReputationIsEarned
  <2>3. PICK amount \in Nat : amount = agents[other].reputation
    BY <2>1
  <2>4. Earns(other, u, amount)'
    BY <1>5, <1>6, <2>1, <2>2, <2>3
  <2>5. QED
    BY <2>1, <2>3, <2>4
<1>7. ASSUME agent # ZeroAddress, agents'[agent].reputation > 0
      PROVE  \E u \in TaskIds : /\ tasks'[u].status = "COMPLETED" /\ tasks'[u].assignee = agent
                                /\ tasks'[u].rating >= agents'[agent].reputation
  <2>1. old.reputation \in Nat /\ old.totalRatings \in Nat
    BY <1>0, <1>1 DEF AgentData
  <2>2. agents'[agent].reputation = Averaged(old.reputation, old.totalRatings, rating)
    <3>1. agents'[agent].reputation = Averaged(old.reputation, old.totalRatings + 1 - 1, rating)
      BY <1>0, <1>1, <1>2 DEF RatingAdded, AgentData
    <3>2. old.totalRatings + 1 - 1 = old.totalRatings
      BY <2>1
    <3>3. QED
      BY <3>1, <3>2
  <2>3. PICK before \in Nat, now \in Nat, score \in Nat :
          before = old.reputation /\ now = agents'[agent].reputation /\ score = rating
    BY <1>0, <2>1, <2>2, AveragedInScale
  <2>4. CASE before <= score
    <3>1. now <= score
      BY <2>1, <2>2, <2>3, <2>4, AveragedAtMost
    <3>2. QED
      BY <1>3, <1>4, <1>7, <2>3, <3>1
  <2>5. CASE score < before
    <3>1. now <= before /\ before > 0
      BY <2>1, <2>2, <2>3, <2>5, AveragedAtMost
    <3>2. PICK u \in TaskIds : Earns(agent, u, before)
      BY <1>1, <1>7, <2>3, <3>1 DEF ReputationIsEarned
    <3>3. /\ tasks'[u].status = "COMPLETED" /\ tasks'[u].assignee = agent
          /\ tasks'[u].rating = tasks[u].rating
          /\ tasks[u].rating \in Nat /\ tasks[u].rating >= before
      <4>1. tasks[u].rating \in Nat /\ tasks[u].rating > 0
        BY <1>0, <3>1, <3>2 DEF TaskData, MaxRating
      <4>2. QED
        BY <3>2, <4>1, RatingsLast
    <3>4. tasks'[u].rating >= now
      BY <3>1, <3>3
    <3>5. QED
      BY <2>3, <3>3, <3>4
  <2>6. QED
    BY <2>4, <2>5
<1>8. QED
  BY <1>6, <1>7 DEF ReputationIsEarned

\* No agent's reputation exceeds the best rating of a task that it completed,
\* if only the task registry rates and V1 brings no reputations along.
THEOREM ReputationsAreEarned ==
  ASSUME TaskRegistries \cap Accounts = {},
         \A agent \in AgentKeys : V1Agents[agent].reputation = 0
  PROVE  Spec => []ReputationIsEarned
<1>1. Init => ReputationIsEarned
  BY DEF Init, AgentInit, ReputationIsEarned, NoAgent
<1>2. ASSUME TaskInv, ReputationIsEarned, [Next]_vars
      PROVE  ReputationIsEarned'
  <2>0. AgentTypeOK
    BY <1>2 DEF TaskInv, TaskTypeOK
  <2>1. ASSUME \A other \in AgentKeys : agents'[other].reputation \in {agents[other].reputation, 0}
        PROVE  ReputationIsEarned'
    <3>1. SUFFICES ASSUME NEW other \in AgentKeys \ {ZeroAddress}, agents'[other].reputation > 0
                   PROVE  \E u \in TaskIds : /\ tasks'[u].status = "COMPLETED"
                                             /\ tasks'[u].assignee = other
                                             /\ tasks'[u].rating >= agents'[other].reputation
      BY DEF ReputationIsEarned
    <3>2. agents'[other].reputation = agents[other].reputation /\ agents[other].reputation \in Nat
      BY <2>0, <2>1, <3>1 DEF AgentTypeOK, AgentData
    <3>3. PICK u \in TaskIds : /\ tasks[u].status = "COMPLETED" /\ tasks[u].assignee = other
                               /\ tasks[u].rating >= agents[other].reputation
      BY <1>2, <3>1, <3>2 DEF ReputationIsEarned
    <3>4. tasks[u].rating > 0
      <4>1. tasks[u].rating \in Nat
        <5>1. tasks[u] \in TaskData
          BY <1>2 DEF TaskInv, TaskTypeOK
        <5>2. QED
          BY <5>1 DEF TaskData, MaxRating
      <4>2. agents[other].reputation > 0
        BY <3>1, <3>2
      <4>3. QED
        BY <3>2, <3>3, <4>1, <4>2
    <3>5. QED
      BY <1>2, <3>2, <3>3, <3>4, RatingsLast
  <2>2. CASE UNCHANGED agents
    BY <2>1, <2>2
  <2>3. ASSUME NEW sender \in Accounts, TaskStep(sender)
        PROVE  ReputationIsEarned'
    BY <1>2, <2>2, <2>3, RateTaskKeepsEarned DEF TaskStep, CreateTask, CompleteTask, CancelTask,
       registryVars, agentVars
  <2>4. ASSUME NEW sender \in Accounts, OwnerStep(sender)
        PROVE  UNCHANGED agents
    BY <2>4 DEF OwnerStep, SetTaskRegistry, SetServiceRegistry, PassRegistryOwnership
  <2>5. \A sender \in Accounts : ~DirectRating(sender)
    BY <2>0, ServiceConstants DEF DirectRating, AddRating, RatingAdded, AgentTypeOK
  <2>6. ASSUME NEW sender \in Accounts, NEW agent \in AgentAddresses, AgentStep(sender, agent)
        PROVE  ReputationIsEarned'
    <3>1. V1Agents[agent].reputation = 0
      BY DEF AgentKeys
    <3>2. QED
      BY <2>0, <2>1, <2>6, <3>1, AgentStepStartsAtZero
  <2>7. CASE RegistryNext
    BY <2>2, <2>4, <2>5, <2>6, <2>7 DEF RegistryNext, agentVars
  <2>8. QED
    BY <1>2, <2>2, <2>3, <2>7 DEF Next, vars, registryVars, agentVars
<1>3. QED
  BY <1>1, <1>2, TaskInvInit, TaskInvStep, PTL DEF Spec
=============================================================================
