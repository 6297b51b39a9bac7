----------------------------- MODULE TaskListener -----------------------------
(***************************************************************************)
(* The agent's side of the SDK: TaskService.subscribe and what Ensemble    *)
(* adds to it.  One process keeps listeners on TaskCreated events; each    *)
(* delivery of an event starts a handler, which looks the proposal up (an  *)
(* await, during which other deliveries run) and then calls the callback   *)
(* of the application.  processedTasks remembers, in memory only, which    *)
(* tasks are done.                                                         *)
(***************************************************************************)
EXTENDS Naturals

CONSTANTS
  Agents,        \* addresses the signer may have
  Tasks,         \* tasks that get created
  Assignee,      \* task -> the agent that its TaskCreated event names
  MaxListeners,  \* bound on the subscribe calls of one process per agent
  MaxDeliveries, \* external: how often the node reports one event
  MaxRestarts    \* bound on the restarts of the process

ASSUME ListenerConstants ==
  /\ Assignee \in [Tasks -> Agents]
  /\ MaxListeners \in Nat
  /\ MaxDeliveries \in Nat
  /\ MaxRestarts \in Nat

VARIABLES
  signer,         \* the agent the process signs for
  subscribing,    \* agent -> subscribe calls waiting for getAgentAddress
  listeners,      \* agent -> listeners registered with its filter
  handlers,       \* task -> handlers waiting for getProposal
  processedTasks,
  onNewTask,      \* "noop", the default, or "app", the application's callback
  delivered,      \* external: task -> deliveries of its event so far
  restarts,       \* restarts so far
  \* History of the present process:
  started,        \* agents that were the signer when start was called
  early,          \* start was called before the application gave its callback
  given,          \* task -> calls of the application's callback that returned
  dropped,        \* task -> calls of the default callback that returned
  overlapped      \* tasks that had several handlers in flight together

processVars == <<signer, subscribing, listeners, onNewTask, restarts, started, early>>
vars == <<processVars, handlers, processedTasks, delivered, given, dropped, overlapped>>

MaxHandlers == MaxListeners * MaxDeliveries

TypeOK ==
  /\ signer \in Agents
  /\ subscribing \in [Agents -> 0 .. MaxListeners]
  /\ listeners \in [Agents -> 0 .. MaxListeners]
  /\ handlers \in [Tasks -> 0 .. MaxHandlers]
  /\ processedTasks \subseteq Tasks
  /\ onNewTask \in {"noop", "app"}
  /\ delivered \in [Tasks -> 0 .. MaxDeliveries]
  /\ restarts \in 0 .. MaxRestarts
  /\ started \subseteq Agents
  /\ early \in BOOLEAN
  /\ given \in [Tasks -> 0 .. MaxHandlers]
  /\ dropped \in [Tasks -> 0 .. MaxHandlers]
  /\ overlapped \subseteq Tasks

Init ==
  /\ signer \in Agents
  /\ subscribing = [a \in Agents |-> 0]
  /\ listeners = [a \in Agents |-> 0]
  /\ handlers = [t \in Tasks |-> 0]
  /\ processedTasks = {}
  /\ onNewTask = "noop"
  /\ started = {}
  /\ early = FALSE
  /\ given = [t \in Tasks |-> 0]
  /\ dropped = [t \in Tasks |-> 0]
  /\ overlapped = {}
  /\ delivered = [t \in Tasks |-> 0]
  /\ restarts = 0

-----------------------------------------------------------------------------
taskVars == <<handlers, processedTasks, delivered, given, dropped, overlapped>>

\* Ensemble.start: subscribe asks for the address of the present signer first.
Start ==
  /\ subscribing[signer] + listeners[signer] < MaxListeners
  /\ subscribing' = [subscribing EXCEPT ![signer] = @ + 1]
  /\ started' = started \cup {signer}
  /\ early' = (early \/ onNewTask = "noop")
  /\ UNCHANGED <<signer, listeners, onNewTask, restarts, taskVars>>

\* Faulty variant of Subscribed: the listener is registered under two filters.
SubscribedTwice(agent) ==
  /\ subscribing[agent] > 0
  /\ subscribing' = [subscribing EXCEPT ![agent] = @ - 1]
  /\ listeners' = [listeners EXCEPT ![agent] = @ + 2]
  /\ UNCHANGED <<signer, onNewTask, restarts, started, early, taskVars>>

\* Faulty variant of Subscribed: the filter has whoever is the signer by now.
SubscribedAsPresentSigner(agent) ==
  /\ subscribing[agent] > 0
  /\ subscribing' = [subscribing EXCEPT ![agent] = @ - 1]
  /\ listeners' = [listeners EXCEPT ![signer] = @ + 1]
  /\ UNCHANGED <<signer, onNewTask, restarts, started, early, taskVars>>

\* The address has arrived: one more listener for that agent's events.
Subscribed(agent) ==
  /\ subscribing[agent] > 0
  /\ subscribing' = [subscribing EXCEPT ![agent] = @ - 1]
  /\ listeners' = [listeners EXCEPT ![agent] = @ + 1]
  /\ UNCHANGED <<signer, onNewTask, restarts, started, early, taskVars>>

\* Ensemble.stop: unsubscribe builds another filter than subscribe used and
\* names the callback instead of the listener, so nothing is removed.
Stop == UNCHANGED vars

SetOnNewTaskListener ==
  /\ onNewTask' = "app"
  /\ UNCHANGED <<signer, subscribing, listeners, restarts, started, early, taskVars>>

\* Ensemble.setSigner: what is registered already keeps the old address.
SetSigner(agent) ==
  /\ signer' = agent
  /\ UNCHANGED <<subscribing, listeners, onNewTask, restarts, started, early, taskVars>>

\* Faulty variant of Deliver: the task is marked when its event arrives.
DeliverMarking(t) ==
  /\ delivered[t] < MaxDeliveries
  /\ delivered' = [delivered EXCEPT ![t] = @ + 1]
  /\ IF t \in processedTasks \/ listeners[Assignee[t]] = 0
     THEN UNCHANGED <<handlers, processedTasks>>
     ELSE /\ handlers' = [handlers EXCEPT ![t] = @ + 1]
          /\ processedTasks' = processedTasks \cup {t}
  /\ UNCHANGED <<processVars, given, dropped, overlapped>>

\* The node reports the event of a task.  Every listener of the assignee runs
\* up to its await, unless the task is processed; the event is gone if there is
\* none.
Deliver(t) ==
  /\ delivered[t] < MaxDeliveries
  /\ delivered' = [delivered EXCEPT ![t] = @ + 1]
  /\ IF t \in processedTasks
     THEN UNCHANGED <<handlers, overlapped>>
     ELSE /\ handlers' = [handlers EXCEPT ![t] = @ + listeners[Assignee[t]]]
          /\ overlapped' = overlapped \cup {u \in {t} : handlers'[u] > 1}
  /\ UNCHANGED <<processVars, processedTasks, given, dropped>>

HandlerEnds(t) ==
  /\ handlers[t] > 0
  /\ handlers' = [handlers EXCEPT ![t] = @ - 1]

\* The callback returns: what it is a function of is whichever is set by now.
\* An application that fails later than this is not waited for.
Called(t) ==
  IF onNewTask = "app"
  THEN given' = [given EXCEPT ![t] = @ + 1] /\ UNCHANGED dropped
  ELSE dropped' = [dropped EXCEPT ![t] = @ + 1] /\ UNCHANGED given

\* Faulty variant of HandOver: the task is not marked.
HandOverUnmarked(t) ==
  /\ HandlerEnds(t)
  /\ Called(t)
  /\ UNCHANGED <<processVars, processedTasks, delivered, overlapped>>

\* getProposal has answered: the callback gets the task, and processedTasks is
\* not looked at again before it is written.
HandOver(t) ==
  /\ HandlerEnds(t)
  /\ Called(t)
  /\ processedTasks' = processedTasks \cup {t}
  /\ UNCHANGED <<processVars, delivered, overlapped>>

\* getProposal was rejected, or the application's callback threw: the handler
\* ends where it is.  (Where a rejection nobody handles ends the process, a
\* Restart follows.)
HandlerFails(t) ==
  /\ HandlerEnds(t)
  /\ UNCHANGED <<processVars, processedTasks, delivered, given, dropped, overlapped>>

\* A new process starts from nothing; what the node has reported is gone.
Restart ==
  /\ restarts < MaxRestarts
  /\ restarts' = restarts + 1
  /\ subscribing' = [a \in Agents |-> 0]
  /\ listeners' = [a \in Agents |-> 0]
  /\ handlers' = [t \in Tasks |-> 0]
  /\ processedTasks' = {}
  /\ onNewTask' = "noop"
  /\ started' = {}
  /\ early' = FALSE
  /\ given' = [t \in Tasks |-> 0]
  /\ dropped' = [t \in Tasks |-> 0]
  /\ overlapped' = {}
  /\ UNCHANGED <<signer, delivered>>

Next ==
  \/ Start
  \/ Stop
  \/ SetOnNewTaskListener
  \/ \E agent \in Agents : Subscribed(agent) \/ SetSigner(agent)
  \/ \E t \in Tasks : Deliver(t) \/ HandOver(t) \/ HandlerFails(t)
  \/ Restart

Spec == Init /\ [][Next]_vars

-----------------------------------------------------------------------------
\* A task that the process writes off as processed was given to the application,
\* by a call that returned.  Only a process that started before it had the
\* application's callback may have dropped it instead, whenever the callback
\* came, however many listeners there are and whatever failed before.
ProcessedWasGiven ==
  \A t \in processedTasks : given[t] > 0 \/ (early /\ dropped[t] > 0)

\* Nothing but an overlap makes one process handle a task twice: if its handlers
\* never were in flight together, repeated events, further listeners, changes of
\* the signer and handlers that failed call the callback once at most.
GivenOnceUnlessOverlapping ==
  \A t \in Tasks : given[t] + dropped[t] > 1 => t \in overlapped

\* A process takes only tasks of agents that it was started for, and not of one
\* that became the signer while an address was awaited or after it.
OnlyAgentsThatStarted ==
  \A t \in Tasks :
    handlers[t] > 0 \/ t \in processedTasks => Assignee[t] \in started
=============================================================================
