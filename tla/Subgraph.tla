------------------------------- MODULE Subgraph -------------------------------
(***************************************************************************)
(* The contracts and the whole of the subgraph that follows them: what     *)
(* RegistryIndex has of it, and the entities of tasks.  All transactions   *)
(* go through here, each with the events it emits.                         *)
(***************************************************************************)
EXTENDS TaskRegistry, RegistryIndex

CONSTANT Blacklisted  \* assignees whose tasks are not indexed

ASSUME SubgraphConstants == Blacklisted \subseteq AgentKeys

VARIABLE taskEntities  \* id -> Task entity

graphVars == <<indexVars, taskEntities>>

TaskEntity == [known : BOOLEAN, issuer : Accounts \cup {ZeroAddress}, assignee : AgentKeys,
               proposalId : ProposalIds \cup {0}, status : Statuses,
               rating : 0 .. MaxRating, result : BOOLEAN]
NoTaskEntity == [known |-> FALSE, issuer |-> ZeroAddress, assignee |-> ZeroAddress,
                 proposalId |-> 0, status |-> "CREATED", rating |-> 0, result |-> FALSE]

TaskEvent ==
  [type : {"TaskCreated"}, task : TaskIds, issuer : Accounts, assignee : AgentKeys,
   proposalId : ProposalIds \cup {0}]
    \cup [type : {"TaskStatusChanged"}, task : TaskIds, status : Statuses]
    \cup [type : {"TaskCompleted"}, task : TaskIds]
    \cup [type : {"TaskRated"}, task : TaskIds, rating : 0 .. MaxRating]

GraphTypeOK ==
  /\ EntityTypeOK
  /\ pending \in Seq(RegistryEvent \cup TaskEvent)
  /\ taskEntities \in [TaskIds -> TaskEntity]

GraphInit ==
  /\ IndexInit
  /\ taskEntities = [t \in TaskIds |-> NoTaskEntity]
-----------------------------------------------------------------------------
\* Transactions and their events.
Emits(events) == Emit(events) /\ UNCHANGED taskEntities

TaskCreated(t) ==
  [type |-> "TaskCreated", task |-> t, issuer |-> tasks'[t].issuer,
   assignee |-> tasks'[t].assignee, proposalId |-> tasks'[t].proposalId]
TaskStatusChanged(t) ==
  [type |-> "TaskStatusChanged", task |-> t, status |-> tasks'[t].status]
TaskCompleted(t) == [type |-> "TaskCompleted", task |-> t]
TaskRated(t) == [type |-> "TaskRated", task |-> t, rating |-> tasks'[t].rating]

\* The rating of an agent is averaged, and announced, inside addRating.
Create(sender, id, value) == CreateTask(sender, id, value) /\ Emits(<<TaskCreated(nextTaskId)>>)
Complete(sender, t) ==
  CompleteTask(sender, t) /\ Emits(<<TaskStatusChanged(t), TaskCompleted(t)>>)
Rate(sender, t, rating) ==
  /\ RateTask(sender, t, rating)
  /\ Emits(<<ReputationUpdated(GetProposal(tasks[t].proposalId).issuer), TaskRated(t)>>)
\* Faulty variant of Cancel: only TaskCanceled is emitted, which nobody handles.
CancelSilently(sender, t) == CancelTask(sender, t) /\ Emits(<<>>)

Cancel(sender, t) == CancelTask(sender, t) /\ Emits(<<TaskStatusChanged(t)>>)

\* ProposalRemoved and AgentRemoved are emitted too, but nobody handles them.
Offer(sender, agent, name, price, token) ==
  AddProposal(sender, agent, name, price, token) /\ UNCHANGED taskVars /\ Emits(ProposalsAdded)
Withdraw(sender, agent, id) ==
  RemoveProposal(sender, agent, id) /\ UNCHANGED taskVars /\ Emits(<<>>)
RegisterWithOffer(sender, agent, metadata, name, price, token) ==
  /\ RegisterAgentWithService(sender, agent, metadata, name, price, token)
  /\ UNCHANGED taskVars
  /\ Emits(<<AgentRegistered(agent)>> \o ProposalsAdded)
Migrate(sender, agent) ==
  /\ MigrateAgent(sender, agent)
  /\ UNCHANGED <<taskVars, taskEntities>>
  /\ EmitMigration(agent)
Leave(sender, agent) ==
  RemoveAgent(sender, agent) /\ UNCHANGED taskVars /\ Emits(<<>>)
-----------------------------------------------------------------------------
\* The handlers of the TaskRegistry's events.
HandleTaskCreated ==
  /\ Handles("TaskCreated")
  /\ LET event == Head(pending)
     IN taskEntities' =
          IF event.assignee \in Blacklisted THEN taskEntities
          ELSE [taskEntities EXCEPT ![event.task] =
            [known |-> TRUE, issuer |-> event.issuer, assignee |-> event.assignee,
             proposalId |-> event.proposalId, status |-> "ASSIGNED",
             rating |-> 0, result |-> FALSE]]
  /\ UNCHANGED entityVars

\* The entity of the event's task, if there is one, becomes the changed one.
EventTask == taskEntities[Head(pending).task]
HandleTask(type, changed) ==
  /\ Handles(type)
  /\ taskEntities' = [taskEntities EXCEPT ![Head(pending).task] =
                        IF EventTask.known THEN changed ELSE EventTask]
  /\ UNCHANGED entityVars

\* Faulty variant of WithStatus: it expects the result to come first.
WithStatusAfterResult(entity, event) ==
  IF entity.result THEN [entity EXCEPT !.status = event.status] ELSE entity

WithStatus(entity, event) == [entity EXCEPT !.status = event.status]
WithResult(entity, event) == [entity EXCEPT !.result = TRUE]
WithRating(entity, event) == [entity EXCEPT !.rating = event.rating]

HandleTaskStatusChanged == HandleTask("TaskStatusChanged", WithStatus(EventTask, Head(pending)))
HandleTaskStatusCompleted == HandleTask("TaskCompleted", WithResult(EventTask, Head(pending)))
HandleTaskRated == HandleTask("TaskRated", WithRating(EventTask, Head(pending)))

HandleEvent ==
  \/ HandleRegistryEvent /\ UNCHANGED taskEntities
  \/ HandleTaskCreated
  \/ HandleTaskStatusChanged
  \/ HandleTaskStatusCompleted
  \/ HandleTaskRated

FindFile == (\E content \in files : HandleAgentMetadata(content)) /\ UNCHANGED taskEntities

-----------------------------------------------------------------------------
\* What the subgraph says of an offer is what the contract says of it as long
\* as the offer stands, however far the subgraph is behind; a proposal that was
\* removed stays in the subgraph, with the terms it had.
ShownTermsAreTrue ==
  \A id \in ProposalIds :
    proposalEntities[id].known /\ proposals[id].isActive =>
      proposalEntities[id].terms = TermsShown(proposals[id])

\* Once no event is left to handle, the subgraph agrees with the contracts on
\* every task (those of blacklisted agents are missing), every active proposal,
\* every registered agent and, if it was rated, its reputation.
MarketIsIndexed ==
  pending = <<>> =>
    /\ AgentsAreIndexed
    /\ \A t \in TaskIds :
         IF tasks[t].status = "CREATED" \/ tasks[t].assignee \in Blacklisted
         THEN ~taskEntities[t].known
         ELSE taskEntities[t] =
                [known |-> TRUE, issuer |-> tasks[t].issuer, assignee |-> tasks[t].assignee,
                 proposalId |-> tasks[t].proposalId, status |-> tasks[t].status,
                 rating |-> tasks[t].rating, result |-> tasks[t].status = "COMPLETED"]
    /\ \A id \in ProposalIds : proposals[id].isActive => proposalEntities[id].known
    /\ \A agent \in AgentKeys :
         IsAgent(agent) /\ agents[agent].totalRatings > 0 =>
           agentEntities[agent].reputation = agents[agent].reputation

\* A settled task is shown as settled in the end.
SettledTasksAreShown ==
  \A t \in TaskIds :
    tasks[t].status \in Settled /\ tasks[t].assignee \notin Blacklisted
      ~> taskEntities[t].status = tasks[t].status
=============================================================================
