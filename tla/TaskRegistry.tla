----------------------------- MODULE TaskRegistry -----------------------------
(***************************************************************************)
(* The TaskRegistryUpgradeable contract, composed with the AgentsRegistry  *)
(* it reads proposals from and sends ratings to.  It takes the price of a  *)
(* proposal in when a task is created and pays it out when the task is     *)
(* completed or cancelled, looking the price up again at that moment.      *)
(*                                                                         *)
(* In completeTask, cancelTask and rateTask everything the contract writes *)
(* is written before it calls another address, and nothing but events      *)
(* follows that call; so a call made from inside the payee's code has the  *)
(* effect of a call made right after, and one atomic action per            *)
(* transaction covers it.                                                  *)
(***************************************************************************)
EXTENDS AgentsRegistry, FiniteSetsExt, SequencesExt

CONSTANTS
  TaskRegistryAddress,  \* the contract's own address
  ERC20s,               \* tokenAddresses with an ERC20 contract behind them
  Values,               \* msg.value of a createTask
  Funds,                \* what each account owns of each asset at the start
  MaxTasks              \* bound on the tasks ever created

Assets == ERC20s \cup {ZeroAddress}
Holders == Accounts \cup {TaskRegistryAddress}
TaskIds == 1 .. MaxTasks

ASSUME TaskConstants ==
  /\ TaskRegistryAddress \notin Accounts \cup {ZeroAddress}
  /\ ZeroAddress \notin ERC20s
  /\ Values \subseteq Nat
  /\ Funds \in Nat
  /\ MaxTasks \in Nat

VARIABLES
  tasks,        \* id -> TaskData
  issuerTasks,  \* issuer -> ids of its tasks, in the order of creation
  nextTaskId,
  balance,      \* external: asset -> holder -> amount
  deposit       \* history: task id -> what createTask asked for it

taskVars == <<tasks, issuerTasks, nextTaskId, balance, deposit>>
vars == <<registryVars, taskVars>>

Statuses == {"CREATED", "ASSIGNED", "COMPLETED", "CANCELED"}
TaskData == [issuer : Accounts \cup {ZeroAddress}, status : Statuses,
             assignee : AgentKeys, proposalId : ProposalIds \cup {0}, rating : 0 .. MaxRating]
NoTask == [issuer |-> ZeroAddress, status |-> "CREATED", assignee |-> ZeroAddress,
           proposalId |-> 0, rating |-> 0]

Deposit == [asset : TokenAddresses \cup {ZeroAddress}, amount : Prices \cup {0}]
NoDeposit == [asset |-> ZeroAddress, amount |-> 0]

TaskTypeOK ==
  /\ AgentTypeOK
  /\ tasks \in [TaskIds -> TaskData]
  /\ issuerTasks \in [Accounts -> Seq(TaskIds)]
  /\ nextTaskId \in 1 .. MaxTasks + 1
  /\ balance \in [Assets -> [Holders -> Nat]]
  /\ deposit \in [TaskIds -> Deposit]

\* The deployment scripts initialize the task counter with 1.
Init ==
  /\ AgentInit
  /\ tasks = [t \in TaskIds |-> NoTask]
  /\ issuerTasks = [a \in Accounts |-> <<>>]
  /\ nextTaskId = 1
  /\ balance = [asset \in Assets |->
                 [h \in Holders |-> IF h = TaskRegistryAddress THEN 0 ELSE Funds]]
  /\ deposit = [t \in TaskIds |-> NoDeposit]

-----------------------------------------------------------------------------
\* One transfer of an asset; a transfer the holder cannot afford fails.
Move(asset, from, to, amount) ==
  LET account == balance[asset] IN
  /\ account[from] >= amount
  /\ balance' = [balance EXCEPT ![asset] =
                   [account EXCEPT ![from] = @ - amount, ![to] = @ + amount]]

\* TransferHelper's transfers: a failed call reverts the transaction, but a
\* call to an address without code succeeds with no data and moves nothing.
Transfer(asset, from, to, amount) ==
  IF asset \in Assets THEN Move(asset, from, to, amount) ELSE UNCHANGED balance

\* getProposal: an id that was never used reads as the empty record.
GetProposal(id) == IF id \in ProposalIds THEN proposals[id] ELSE NoProposal

\* Faulty variant of Collect: the amount sent along is not compared.
CollectAnyValue(sender, proposal, value) ==
  IF proposal.tokenAddress = ZeroAddress
  THEN Transfer(ZeroAddress, sender, TaskRegistryAddress, value)
  ELSE value = 0 /\ Transfer(proposal.tokenAddress, sender, TaskRegistryAddress, proposal.price)

Collect(sender, proposal, value) ==
  IF proposal.tokenAddress = ZeroAddress
  THEN value = proposal.price /\ Transfer(ZeroAddress, sender, TaskRegistryAddress, value)
  ELSE value = 0 /\ Transfer(proposal.tokenAddress, sender, TaskRegistryAddress, proposal.price)

\* Faulty variant of CreateTask: the index is written after the increment.
CreateTaskIndexedAfter(sender, id, value) ==
  LET proposal == GetProposal(id) IN
  /\ proposal.issuer # ZeroAddress
  /\ nextTaskId <= MaxTasks
  /\ Collect(sender, proposal, value)
  /\ tasks' = [tasks EXCEPT ![nextTaskId] =
       [issuer |-> sender, status |-> "ASSIGNED", assignee |-> proposal.issuer,
        proposalId |-> id, rating |-> 0]]
  /\ issuerTasks' = [issuerTasks EXCEPT ![sender] = Append(@, nextTaskId + 1)]
  /\ deposit' = [deposit EXCEPT ![nextTaskId] =
       [asset |-> proposal.tokenAddress, amount |-> proposal.price]]
  /\ nextTaskId' = nextTaskId + 1
  /\ UNCHANGED registryVars

\* Faulty variant of CreateTask: the proposal need not exist.
CreateTaskOfAnyProposal(sender, id, value) ==
  LET proposal == GetProposal(id) IN
  /\ nextTaskId <= MaxTasks
  /\ Collect(sender, proposal, value)
  /\ tasks' = [tasks EXCEPT ![nextTaskId] =
       [issuer |-> sender, status |-> "ASSIGNED", assignee |-> proposal.issuer,
        proposalId |-> id, rating |-> 0]]
  /\ issuerTasks' = [issuerTasks EXCEPT ![sender] = Append(@, nextTaskId)]
  /\ deposit' = [deposit EXCEPT ![nextTaskId] =
       [asset |-> proposal.tokenAddress, amount |-> proposal.price]]
  /\ nextTaskId' = nextTaskId + 1
  /\ UNCHANGED registryVars

CreateTask(sender, id, value) ==
  LET proposal == GetProposal(id) IN
  /\ proposal.issuer # ZeroAddress
  /\ nextTaskId <= MaxTasks
  /\ Collect(sender, proposal, value)
  /\ tasks' = [tasks EXCEPT ![nextTaskId] =
       [issuer |-> sender, status |-> "ASSIGNED", assignee |-> proposal.issuer,
        proposalId |-> id, rating |-> 0]]
  /\ issuerTasks' = [issuerTasks EXCEPT ![sender] = Append(@, nextTaskId)]
  /\ deposit' = [deposit EXCEPT ![nextTaskId] =
       [asset |-> proposal.tokenAddress, amount |-> proposal.price]]
  /\ nextTaskId' = nextTaskId + 1
  /\ UNCHANGED registryVars

\* Faulty variant of PayIssuer: the assignee is paid.
PayAssignee(t) ==
  LET proposal == GetProposal(tasks[t].proposalId) IN
  Transfer(proposal.tokenAddress, TaskRegistryAddress, tasks[t].assignee, proposal.price)

\* Pays the issuer of the task what its proposal asks now: nothing at all if
\* the proposal is gone.  completeTask and cancelTask share it.
PayIssuer(t) ==
  LET proposal == GetProposal(tasks[t].proposalId) IN
  Transfer(proposal.tokenAddress, TaskRegistryAddress, tasks[t].issuer, proposal.price)

CompleteTask(sender, t) ==
  /\ sender = tasks[t].assignee
  /\ tasks[t].status = "ASSIGNED"
  /\ tasks' = [tasks EXCEPT ![t].status = "COMPLETED"]
  /\ PayIssuer(t)
  /\ UNCHANGED <<registryVars, issuerTasks, nextTaskId, deposit>>

\* Faulty variant of RateTask: whatever the status.
RateTaskEarly(sender, t, rating) ==
  /\ sender = tasks[t].issuer
  /\ tasks[t].rating = 0
  /\ rating <= MaxRating
  /\ tasks' = [tasks EXCEPT ![t].rating = rating]
  /\ AddRating(TaskRegistryAddress, GetProposal(tasks[t].proposalId).issuer, rating)
  /\ UNCHANGED <<issuerTasks, nextTaskId, balance, deposit>>

\* The agent to rate is looked up through the proposal, not the assignee.
RateTask(sender, t, rating) ==
  /\ sender = tasks[t].issuer
  /\ tasks[t].status = "COMPLETED"
  /\ tasks[t].rating = 0
  /\ rating <= MaxRating
  /\ tasks' = [tasks EXCEPT ![t].rating = rating]
  /\ AddRating(TaskRegistryAddress, GetProposal(tasks[t].proposalId).issuer, rating)
  /\ UNCHANGED <<issuerTasks, nextTaskId, balance, deposit>>

\* Faulty variant of CancelTask: only a second cancellation is refused.
CancelCompletedTask(sender, t) ==
  /\ sender = tasks[t].issuer
  /\ tasks[t].status # "CANCELED"
  /\ tasks' = [tasks EXCEPT ![t].status = "CANCELED"]
  /\ PayIssuer(t)
  /\ UNCHANGED <<registryVars, issuerTasks, nextTaskId, deposit>>

CancelTask(sender, t) ==
  /\ sender = tasks[t].issuer
  /\ tasks[t].status \notin {"COMPLETED", "CANCELED"}
  /\ tasks' = [tasks EXCEPT ![t].status = "CANCELED"]
  /\ PayIssuer(t)
  /\ UNCHANGED <<registryVars, issuerTasks, nextTaskId, deposit>>

TaskStep(sender) ==
  \/ \E id \in ProposalIds, value \in Values : CreateTask(sender, id, value)
  \/ \E t \in TaskIds :
       \/ CompleteTask(sender, t)
       \/ \E rating \in Ratings : RateTask(sender, t, rating)
       \/ CancelTask(sender, t)

Next ==
  \/ \E sender \in Accounts : TaskStep(sender)
  \/ RegistryNext /\ UNCHANGED taskVars

Spec == Init /\ [][Next]_vars
-----------------------------------------------------------------------------
\* Refinement mapping into Escrow.
Settled == {"COMPLETED", "CANCELED"}

Deal(t) ==
  [phase |-> CASE tasks[t].status = "CREATED" -> "none"
               [] tasks[t].status = "ASSIGNED" -> "held"
               [] OTHER -> "settled",
   owner |-> tasks[t].issuer, asset |-> deposit[t].asset, amount |-> deposit[t].amount]

Money == INSTANCE Escrow WITH
  Deals <- TaskIds, Parties <- Accounts, Keeper <- TaskRegistryAddress,
  NoParty <- ZeroAddress, deals <- [t \in TaskIds |-> Deal(t)], funds <- balance

\* The registry is an escrow although it stores no amount: every payout equals
\* what was paid in for that very task, or is nothing, and happens once.
IsAnEscrow == Money!Spec

\* The proposal behind a task still says what it said when the task was made,
\* or is gone: the price, the asset and the agent that completeTask, cancelTask
\* and rateTask read back are those of the deposit and the assignment.
DepositsMatchProposals ==
  \A t \in TaskIds :
    LET proposal == GetProposal(tasks[t].proposalId) IN
    tasks[t].status # "CREATED" /\ proposal.isActive =>
      /\ proposal.price = deposit[t].amount
      /\ proposal.tokenAddress = deposit[t].asset
      /\ proposal.issuer = tasks[t].assignee

\* What the contract owes of an asset for each open task.
Owed(asset) ==
  [t \in TaskIds |->
     IF tasks[t].status = "ASSIGNED" /\ deposit[t].asset = asset THEN deposit[t].amount ELSE 0]

\* The contract can always pay back every open task at once: no settlement
\* ever fails for lack of funds.
Solvent ==
  \A asset \in Assets : SumFunction(Owed(asset)) <= balance[asset][TaskRegistryAddress]

\* While its proposal is listed, a task that is settled gives its issuer the
\* whole deposit back.
ListedTasksPayBack ==
  [][\A t \in TaskIds :
       /\ tasks[t].status = "ASSIGNED" /\ tasks'[t].status \in Settled
       /\ GetProposal(tasks[t].proposalId).isActive
       /\ deposit[t].asset \in Assets
       => balance'[deposit[t].asset][tasks[t].issuer] =
            balance[deposit[t].asset][tasks[t].issuer] + deposit[t].amount]_vars

\* Completion and cancellation exclude each other for good, and who issued a
\* task, who does it and under which proposal is settled at its creation.
TasksOnlyProgress ==
  [][\A t \in TaskIds :
       /\ tasks[t].status \in Settled => tasks'[t].status = tasks[t].status
       /\ tasks[t].status # "CREATED" =>
            /\ tasks'[t].issuer = tasks[t].issuer
            /\ tasks'[t].assignee = tasks[t].assignee
            /\ tasks'[t].proposalId = tasks[t].proposalId]_vars

\* getTasksByIssuer lists every task of an issuer once, in order of creation.
IssuerIndexIsExact ==
  \A a \in Accounts :
    /\ ToSet(issuerTasks[a]) = {t \in TaskIds : tasks[t].issuer = a}
    /\ \A i, j \in DOMAIN issuerTasks[a] : i < j => issuerTasks[a][i] < issuerTasks[a][j]

\* An agent's reputation was earned: no agent stands above the best rating a
\* completed task of its own was given.  It holds across removals and
\* re-registrations, when no V1 registry contributes reputations.
ReputationIsEarned ==
  \A agent \in AgentKeys \ {ZeroAddress} :
    agents[agent].reputation > 0 =>
      \E t \in TaskIds :
        /\ tasks[t].status = "COMPLETED"
        /\ tasks[t].assignee = agent
        /\ tasks[t].rating >= agents[agent].reputation

\* A removed agent leaves no ratings behind, and late ratings of its tasks do
\* not reach the address: a new registration starts from nothing.
UnregisteredAgentsAreBlank ==
  \A agent \in AgentKeys \ {ZeroAddress} : ~IsAgent(agent) => agents[agent] = NoAgent

\* README.md:86 says that the agent calls completeTask and receives payment.
AgentIsPaidOnCompletion ==
  [][\A t \in TaskIds :
       /\ tasks[t].status = "ASSIGNED" /\ tasks'[t].status = "COMPLETED"
       /\ deposit[t].asset \in Assets /\ tasks[t].assignee \in Accounts \ {tasks[t].issuer}
       => balance'[deposit[t].asset][tasks[t].assignee] =
            balance[deposit[t].asset][tasks[t].assignee] + deposit[t].amount]_vars

\* rateTask's require (TaskRegistryUpgradeable.sol:137) and the test "should
\* only rate task ones" (TaskRegistry.test.js:362) say that a task is rated at
\* most once: an agent then has no more ratings than completed tasks.
TasksAreRatedOnce ==
  \A agent \in AgentKeys \ {ZeroAddress} :
    agents[agent].totalRatings <=
      Cardinality({t \in TaskIds : tasks[t].status = "COMPLETED" /\ tasks[t].assignee = agent})

=============================================================================
