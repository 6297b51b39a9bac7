--------------------------- MODULE TaskListenerProofs ---------------------------
(***************************************************************************)
(* Theorems about TaskListener, for any number of agents, tasks,           *)
(* listeners, deliveries and restarts.  The safety properties follow from  *)
(* one invariant, which relates what is in flight to what has returned and *)
(* to what the process was told to do.                                     *)
(***************************************************************************)
EXTENDS TaskListener, TLAPS

\* Waiting subscriptions and listeners share one bound.
ListenersBounded ==
  \A a \in Agents : subscribing[a] + listeners[a] <= MaxListeners

\* A task has at most one handler per delivery and listener, running or returned.
HandlersBounded ==
  \A t \in Tasks : handlers[t] + given[t] + dropped[t] <= MaxListeners * delivered[t]

\* Before the application's callback is there, only an early start listens.
NothingIsEarly ==
  /\ ~early /\ onNewTask = "noop" =>
       /\ \A a \in Agents : subscribing[a] = 0 /\ listeners[a] = 0
       /\ \A t \in Tasks : handlers[t] = 0
  /\ \A t \in Tasks : dropped[t] > 0 => early

\* Processed are the tasks for which some callback returned.
MarkedWhenCalled ==
  \A t \in Tasks : t \in processedTasks <=> given[t] + dropped[t] > 0

\* A task without an overlap has one handler in all, running or returned.
OneHandler ==
  \A t \in Tasks : t \notin overlapped => handlers[t] + given[t] + dropped[t] <= 1

\* Listeners belong to agents that the process was started for.
ListensForStarted ==
  \A a \in Agents : subscribing[a] + listeners[a] > 0 => a \in started

Inv ==
  /\ TypeOK
  /\ ListenersBounded
  /\ HandlersBounded
  /\ NothingIsEarly
  /\ MarkedWhenCalled
  /\ OneHandler
  /\ ListensForStarted
  /\ OnlyAgentsThatStarted

\* The types without their bounds, as the arithmetic needs them.
Counters ==
  /\ subscribing \in [Agents -> Nat] /\ listeners \in [Agents -> Nat]
  /\ handlers \in [Tasks -> Nat] /\ delivered \in [Tasks -> Nat]
  /\ given \in [Tasks -> Nat] /\ dropped \in [Tasks -> Nat]

\* Every bound of the type is a natural number.
LEMMA Bounds ==
  /\ MaxListeners \in Nat /\ MaxDeliveries \in Nat /\ MaxRestarts \in Nat
  /\ MaxHandlers \in Nat
  /\ \A t \in Tasks : Assignee[t] \in Agents
BY ListenerConstants DEF MaxHandlers

\* Counters within their bounds are natural numbers.
LEMMA TypeIsNat == TypeOK => Counters
BY Bounds DEF TypeOK, Counters

\* The bounds of the invariant are the bounds of the type, after any step.
LEMMA InvType ==
  ASSUME Counters', ListenersBounded', HandlersBounded',
         delivered' \in [Tasks -> 0 .. MaxDeliveries],
         signer' \in Agents, processedTasks' \subseteq Tasks, onNewTask' \in {"noop", "app"},
         restarts' \in 0 .. MaxRestarts, started' \subseteq Agents, early' \in BOOLEAN,
         overlapped' \subseteq Tasks
  PROVE  TypeOK'
<1>1. ASSUME NEW a \in Agents
      PROVE  subscribing'[a] \in 0 .. MaxListeners /\ listeners'[a] \in 0 .. MaxListeners
  BY Bounds DEF Counters, ListenersBounded
<1>2. ASSUME NEW t \in Tasks
      PROVE  /\ handlers'[t] \in 0 .. MaxHandlers
             /\ given'[t] \in 0 .. MaxHandlers /\ dropped'[t] \in 0 .. MaxHandlers
  <2>1. delivered'[t] \in Nat /\ delivered'[t] <= MaxDeliveries
    BY Bounds
  <2>2. MaxListeners * delivered'[t] <= MaxListeners * MaxDeliveries
    BY <2>1, Bounds
  <2>3. MaxListeners * delivered'[t] \in Nat /\ MaxListeners * MaxDeliveries \in Nat
    BY <2>1, Bounds
  <2>4. handlers'[t] + given'[t] + dropped'[t] <= MaxListeners * delivered'[t]
    BY DEF HandlersBounded
  <2>5. handlers'[t] \in Nat /\ given'[t] \in Nat /\ dropped'[t] \in Nat
    BY DEF Counters
  <2>6. QED
    BY <2>2, <2>3, <2>4, <2>5 DEF MaxHandlers
<1>3. /\ subscribing' \in [Agents -> 0 .. MaxListeners]
      /\ listeners' \in [Agents -> 0 .. MaxListeners]
      /\ handlers' \in [Tasks -> 0 .. MaxHandlers]
      /\ given' \in [Tasks -> 0 .. MaxHandlers] /\ dropped' \in [Tasks -> 0 .. MaxHandlers]
  BY <1>1, <1>2 DEF Counters
<1>4. QED
  BY <1>3 DEF TypeOK

\* Nothing lies within every bound, whatever the node has reported before.
LEMMA Zeros ==
  /\ 0 \in 0 .. MaxHandlers /\ 0 \in 0 .. MaxListeners
  /\ 0 \in 0 .. MaxDeliveries /\ 0 \in 0 .. MaxRestarts
  /\ \A n \in 0 .. MaxDeliveries : 0 + 0 + 0 <= MaxListeners * n
<1>1. ASSUME NEW n \in 0 .. MaxDeliveries
      PROVE  0 + 0 + 0 <= MaxListeners * n
  <2>1. n \in Nat
    BY Bounds
  <2>2. MaxListeners * n >= 0
    BY <2>1, Bounds
  <2>3. QED
    BY <2>2
<1>2. QED
  BY <1>1, Bounds

\* An event that is delivered starts a handler per listener, of which there are
\* none if nobody started early, and of nobody who did not start.
LEMMA DeliverStep ==
  ASSUME Inv, NEW t \in Tasks, Deliver(t)
  PROVE  Inv'
<1> DEFINE n == listeners[Assignee[t]]
<1>0. /\ TypeOK /\ Counters /\ Assignee[t] \in Agents /\ n \in Nat /\ n <= MaxListeners
      /\ MaxListeners \in Nat
  BY TypeIsNat, Bounds DEF Inv, TypeOK, Counters
<1>1. /\ delivered' = [delivered EXCEPT ![t] = @ + 1]
      /\ delivered' \in [Tasks -> 0 .. MaxDeliveries]
  BY <1>0, Bounds DEF Deliver, TypeOK
<1>2. UNCHANGED <<signer, subscribing, listeners, onNewTask, restarts, started, early,
                  processedTasks, given, dropped>>
  BY DEF Deliver, processVars
<1>3. CASE t \in processedTasks
  <2>1. UNCHANGED <<handlers, overlapped>>
    BY <1>3 DEF Deliver
  <2>2. HandlersBounded'
    <3> SUFFICES ASSUME NEW u \in Tasks
                 PROVE  handlers[u] + given[u] + dropped[u] <= MaxListeners * delivered'[u]
      BY <1>2, <2>1 DEF HandlersBounded
    <3>1. /\ delivered[u] \in Nat /\ delivered'[u] \in Nat /\ delivered[u] <= delivered'[u]
          /\ handlers[u] \in Nat /\ given[u] \in Nat /\ dropped[u] \in Nat
      BY <1>0, <1>1 DEF Counters
    <3>2. MaxListeners * delivered[u] <= MaxListeners * delivered'[u]
      BY <1>0, <3>1
    <3>3. MaxListeners * delivered[u] \in Nat /\ MaxListeners * delivered'[u] \in Nat
      BY <1>0, <3>1
    <3>4. handlers[u] + given[u] + dropped[u] <= MaxListeners * delivered[u]
      BY DEF Inv, HandlersBounded
    <3>5. QED
      BY <3>1, <3>2, <3>3, <3>4
  <2>3. Counters'
    BY <1>0, <1>1, <1>2, <2>1 DEF Counters
  <2>4. ListenersBounded'
    BY <1>2 DEF Inv, ListenersBounded
  <2>5. TypeOK'
    BY <1>0, <1>1, <1>2, <2>1, <2>2, <2>3, <2>4, InvType DEF TypeOK
  <2>6. QED
    BY <1>2, <2>1, <2>2, <2>4, <2>5
       DEF Inv, NothingIsEarly, MarkedWhenCalled, OneHandler, ListensForStarted,
           OnlyAgentsThatStarted
<1>4. CASE t \notin processedTasks
  <2>1. /\ handlers' = [handlers EXCEPT ![t] = @ + n]
        /\ overlapped' = overlapped \cup {u \in {t} : handlers'[u] > 1}
    BY <1>4 DEF Deliver
  <2>2. Counters'
    BY <1>0, <1>1, <1>2, <2>1 DEF Counters
  <2>3. HandlersBounded'
    <3> SUFFICES ASSUME NEW u \in Tasks
                 PROVE  handlers'[u] + given[u] + dropped[u] <= MaxListeners * delivered'[u]
      BY <1>2 DEF HandlersBounded
    <3>1. /\ handlers[u] + given[u] + dropped[u] <= MaxListeners * delivered[u]
          /\ handlers[u] \in Nat /\ given[u] \in Nat /\ dropped[u] \in Nat /\ delivered[u] \in Nat
      BY <1>0 DEF Inv, HandlersBounded, Counters
    <3>2. CASE u = t
      <4>1. delivered'[u] = delivered[u] + 1 /\ handlers'[u] = handlers[u] + n
        BY <1>0, <1>1, <2>1, <3>2 DEF Counters
      <4>2. MaxListeners * (delivered[u] + 1) = MaxListeners * delivered[u] + MaxListeners
        BY <1>0, <3>1
      <4>3. MaxListeners * delivered[u] \in Nat
        BY <1>0, <3>1
      <4>4. QED
        BY <1>0, <3>1, <4>1, <4>2, <4>3
    <3>3. CASE u # t
      <4>1. delivered'[u] = delivered[u] /\ handlers'[u] = handlers[u]
        BY <1>0, <1>1, <2>1, <3>3 DEF Counters
      <4>2. QED
        BY <3>1, <4>1
    <3>4. QED
      BY <3>2, <3>3
  <2>4. ListenersBounded'
    BY <1>2 DEF Inv, ListenersBounded
  <2>5. overlapped' \subseteq Tasks
    BY <1>0, <2>1 DEF TypeOK
  <2>6. TypeOK'
    BY <1>0, <1>1, <1>2, <2>2, <2>3, <2>4, <2>5, InvType DEF TypeOK
  <2>7. NothingIsEarly'
    BY <1>0, <1>2, <2>1 DEF Inv, NothingIsEarly, Counters
  <2>8. OneHandler'
    <3> SUFFICES ASSUME NEW u \in Tasks, u \notin overlapped'
                 PROVE  handlers'[u] + given[u] + dropped[u] <= 1
      BY <1>2 DEF OneHandler
    <3>1. CASE u # t
      BY <1>0, <2>1, <3>1 DEF Inv, OneHandler, Counters
    <3>2. CASE u = t
      <4>1. ~(given[t] + dropped[t] > 0) /\ given[t] \in Nat /\ dropped[t] \in Nat
        BY <1>0, <1>4 DEF Inv, MarkedWhenCalled, Counters
      <4>2. handlers'[t] \in Nat /\ ~(handlers'[t] > 1)
        BY <2>1, <2>2, <3>2 DEF Counters
      <4>3. QED
        BY <3>2, <4>1, <4>2
    <3>3. QED
      BY <3>1, <3>2
  <2>9. OnlyAgentsThatStarted'
    <3> SUFFICES ASSUME NEW u \in Tasks, handlers'[u] > 0 \/ u \in processedTasks
                 PROVE  Assignee[u] \in started
      BY <1>2 DEF OnlyAgentsThatStarted
    <3>1. CASE u = t /\ n > 0
      <4>1. subscribing[Assignee[t]] + listeners[Assignee[t]] > 0
        BY <1>0, <3>1 DEF Counters
      <4>2. QED
        BY <1>0, <3>1, <4>1 DEF Inv, ListensForStarted
    <3>2. CASE ~(u = t /\ n > 0)
      <4>1. handlers'[u] = handlers[u]
        BY <1>0, <2>1, <3>2 DEF Counters
      <4>2. QED
        BY <4>1 DEF Inv, OnlyAgentsThatStarted
    <3>3. QED
      BY <3>1, <3>2
  <2>10. MarkedWhenCalled' /\ ListensForStarted'
    BY <1>2 DEF Inv, MarkedWhenCalled, ListensForStarted
  <2>11. QED
    BY <2>3, <2>4, <2>6, <2>7, <2>8, <2>9, <2>10 DEF Inv
<1>5. QED
  BY <1>3, <1>4

\* A handler that hands its task over is a call that returned, and one that fails
\* is gone.
LEMMA SettleStep ==
  ASSUME Inv, NEW t \in Tasks, HandOver(t) \/ HandlerFails(t)
  PROVE  Inv'
<1> DEFINE all(u) == handlers[u] + given[u] + dropped[u]
           all2(u) == handlers'[u] + given'[u] + dropped'[u]
<1>0. TypeOK /\ Counters /\ handlers[t] > 0 /\ handlers' = [handlers EXCEPT ![t] = @ - 1]
  BY TypeIsNat DEF Inv, HandOver, HandlerFails, HandlerEnds
<1>1. UNCHANGED <<signer, subscribing, listeners, onNewTask, restarts, started, early,
                  delivered, overlapped>>
  BY DEF HandOver, HandlerFails, processVars
<1>2. \/ /\ given' = [given EXCEPT ![t] = @ + 1] /\ dropped' = dropped
         /\ processedTasks' = processedTasks \cup {t}
      \/ /\ dropped' = [dropped EXCEPT ![t] = @ + 1] /\ given' = given
         /\ processedTasks' = processedTasks \cup {t} /\ onNewTask # "app"
      \/ UNCHANGED <<given, dropped, processedTasks>>
  BY DEF HandOver, HandlerFails, Called
<1>3. Counters'
  BY <1>0, <1>1, <1>2 DEF Counters
<1>4. ASSUME NEW u \in Tasks
      PROVE  /\ all2(u) <= all(u) /\ all2(u) \in Nat /\ all(u) \in Nat
             /\ handlers'[u] <= handlers[u]
  BY <1>0, <1>2, <1>3 DEF Counters
<1>5. HandlersBounded'
  <2> SUFFICES ASSUME NEW u \in Tasks
               PROVE  all2(u) <= MaxListeners * delivered[u]
    BY <1>1 DEF HandlersBounded
  <2>1. all(u) <= MaxListeners * delivered[u] /\ MaxListeners * delivered[u] \in Nat
    BY <1>0, Bounds DEF Inv, HandlersBounded, Counters
  <2>2. all2(u) <= all(u) /\ all2(u) \in Nat /\ all(u) \in Nat
    BY <1>4
  <2> HIDE DEF all, all2
  <2>3. QED
    BY <2>1, <2>2
<1>6. ListenersBounded' /\ ListensForStarted'
  BY <1>1 DEF Inv, ListenersBounded, ListensForStarted
<1>7. processedTasks' \subseteq Tasks
  BY <1>0, <1>2 DEF TypeOK
<1>8. TypeOK'
  BY <1>0, <1>1, <1>3, <1>5, <1>6, <1>7, InvType DEF TypeOK
<1>9. OneHandler'
  <2> SUFFICES ASSUME NEW u \in Tasks, u \notin overlapped
               PROVE  all2(u) <= 1
    BY <1>1 DEF OneHandler
  <2>1. all(u) <= 1
    BY DEF Inv, OneHandler
  <2>2. all2(u) <= all(u) /\ all2(u) \in Nat /\ all(u) \in Nat
    BY <1>4
  <2> HIDE DEF all, all2
  <2>3. QED
    BY <2>1, <2>2
<1>10. MarkedWhenCalled'
  <2> SUFFICES ASSUME NEW u \in Tasks
               PROVE  u \in processedTasks' <=> given'[u] + dropped'[u] > 0
    BY DEF MarkedWhenCalled
  <2>1. /\ u \in processedTasks <=> given[u] + dropped[u] > 0
        /\ given[u] \in Nat /\ dropped[u] \in Nat
    BY <1>0 DEF Inv, MarkedWhenCalled, Counters
  <2>2. CASE u = t
    BY <1>0, <1>2, <2>1, <2>2 DEF Counters
  <2>3. CASE u # t
    BY <1>0, <1>2, <2>1, <2>3 DEF Counters
  <2>4. QED
    BY <2>2, <2>3
<1>11. NothingIsEarly'
  <2>1. ~early /\ onNewTask = "noop" =>
          /\ \A a \in Agents : subscribing[a] = 0 /\ listeners[a] = 0
          /\ \A u \in Tasks : handlers'[u] = 0
    BY <1>0 DEF Inv, NothingIsEarly, Counters
  <2>2. ASSUME NEW u \in Tasks, dropped'[u] > 0
        PROVE  early
    <3>1. CASE dropped'[u] = dropped[u]
      BY <2>2, <3>1 DEF Inv, NothingIsEarly
    <3>2. CASE dropped'[u] # dropped[u]
      <4>1. onNewTask = "noop"
        BY <1>0, <1>2, <3>2 DEF TypeOK
      <4>2. QED
        BY <1>0, <4>1 DEF Inv, NothingIsEarly
    <3>3. QED
      BY <3>1, <3>2
  <2>3. QED
    BY <1>1, <2>1, <2>2 DEF NothingIsEarly
<1>12. OnlyAgentsThatStarted'
  <2> SUFFICES ASSUME NEW u \in Tasks, handlers'[u] > 0 \/ u \in processedTasks'
               PROVE  Assignee[u] \in started
    BY <1>1 DEF OnlyAgentsThatStarted
  <2>1. handlers[u] > 0 \/ u \in processedTasks
    BY <1>0, <1>2 DEF Counters
  <2>2. QED
    BY <2>1 DEF Inv, OnlyAgentsThatStarted
<1>13. QED
  BY <1>5, <1>6, <1>8, <1>9, <1>10, <1>11, <1>12 DEF Inv

\* Calls of the application leave the tasks alone.
LEMMA ApplicationStep ==
  ASSUME Inv,
         \/ Start \/ Stop \/ SetOnNewTaskListener
         \/ \E agent \in Agents : Subscribed(agent) \/ SetSigner(agent)
  PROVE  Inv'
<1>0. TypeOK /\ Counters /\ MaxListeners \in Nat
  BY TypeIsNat, Bounds DEF Inv
<1>1. UNCHANGED taskVars /\ restarts' = restarts
  BY DEF Start, Stop, SetOnNewTaskListener, Subscribed, SetSigner, vars, processVars, taskVars
<1>2. HandlersBounded' /\ MarkedWhenCalled' /\ OneHandler'
  BY <1>1 DEF taskVars, Inv, HandlersBounded, MarkedWhenCalled, OneHandler
<1>3. CASE Start
  <2>1. /\ signer \in Agents /\ started' = started \cup {signer} /\ listeners' = listeners
        /\ subscribing' = [subscribing EXCEPT ![signer] = @ + 1]
        /\ subscribing[signer] + listeners[signer] < MaxListeners
    BY <1>0, <1>3 DEF Start, TypeOK
  <2>2. Counters'
    BY <1>0, <1>1, <2>1 DEF taskVars, Counters
  <2>3. ListenersBounded' /\ ListensForStarted'
    BY <1>0, <2>1 DEF Counters, Inv, ListenersBounded, ListensForStarted
  <2>4. OnlyAgentsThatStarted'
    BY <1>1, <2>1 DEF taskVars, Inv, OnlyAgentsThatStarted
  <2>5. NothingIsEarly'
    BY <1>1, <1>3 DEF Start, taskVars, Inv, NothingIsEarly
  <2>6. TypeOK'
    BY <1>0, <1>1, <1>2, <1>3, <2>2, <2>3, InvType DEF Start, taskVars, TypeOK
  <2>7. QED
    BY <1>2, <2>3, <2>4, <2>5, <2>6 DEF Inv
<1>4. ASSUME NEW agent \in Agents, Subscribed(agent)
      PROVE  Inv'
  <2>1. Counters' /\ ListenersBounded' /\ ListensForStarted'
    BY <1>0, <1>1, <1>4
       DEF Subscribed, taskVars, Counters, Inv, ListenersBounded, ListensForStarted
  <2>2. OnlyAgentsThatStarted'
    BY <1>1, <1>4 DEF Subscribed, taskVars, Inv, OnlyAgentsThatStarted
  <2>3. NothingIsEarly'
    BY <1>0, <1>1, <1>4 DEF Subscribed, taskVars, Counters, Inv, NothingIsEarly
  <2>4. TypeOK'
    BY <1>0, <1>1, <1>2, <1>4, <2>1, InvType DEF Subscribed, taskVars, TypeOK
  <2>5. QED
    BY <1>2, <2>1, <2>2, <2>3, <2>4 DEF Inv
<1>5. CASE Stop \/ SetOnNewTaskListener \/ \E agent \in Agents : SetSigner(agent)
  BY <1>0, <1>1, <1>2, <1>5
     DEF Stop, SetOnNewTaskListener, SetSigner, vars, processVars, taskVars, Inv, TypeOK,
         ListenersBounded, ListensForStarted, NothingIsEarly, OnlyAgentsThatStarted
<1>6. QED
  BY <1>3, <1>4, <1>5

\* A new process has done nothing, and starts with the invariant again.
LEMMA RestartStep ==
  ASSUME Inv, Restart
  PROVE  Inv'
<1>1. /\ signer' \in Agents /\ delivered' \in [Tasks -> 0 .. MaxDeliveries]
      /\ restarts' \in 0 .. MaxRestarts
  BY Bounds DEF Restart, Inv, TypeOK
<1>2. TypeOK'
  BY <1>1, Zeros, Zenon DEF Restart, TypeOK
<1>3. HandlersBounded'
  BY <1>1, Zeros DEF Restart, HandlersBounded
<1>4. ListenersBounded' /\ NothingIsEarly' /\ MarkedWhenCalled' /\ OneHandler'
  BY Bounds DEF Restart, ListenersBounded, NothingIsEarly, MarkedWhenCalled, OneHandler
<1>5. ListensForStarted' /\ OnlyAgentsThatStarted'
  BY DEF Restart, ListensForStarted, OnlyAgentsThatStarted
<1>6. QED
  BY <1>2, <1>3, <1>4, <1>5 DEF Inv

\* The first process has done nothing.
LEMMA InvInit == Init => Inv
<1> SUFFICES ASSUME Init PROVE Inv
  OBVIOUS
<1>1. TypeOK
  BY Zeros, Zenon DEF Init, TypeOK
<1>2. HandlersBounded
  BY <1>1, Zeros DEF Init, HandlersBounded
<1>3. ListenersBounded /\ NothingIsEarly /\ MarkedWhenCalled /\ OneHandler
  BY Bounds DEF Init, ListenersBounded, NothingIsEarly, MarkedWhenCalled, OneHandler
<1>4. ListensForStarted /\ OnlyAgentsThatStarted
  BY DEF Init, ListensForStarted, OnlyAgentsThatStarted
<1>5. QED
  BY <1>1, <1>2, <1>3, <1>4 DEF Inv

\* Every step keeps the invariant.
LEMMA InvStep == Inv /\ [Next]_vars => Inv'
<1>1. ASSUME Inv, UNCHANGED vars PROVE Inv'
  BY <1>1, ApplicationStep DEF Stop
<1>2. QED
  BY <1>1, DeliverStep, SettleStep, ApplicationStep, RestartStep DEF Next

-----------------------------------------------------------------------------
(* The theorems.                                                            *)

\* The listener never has more handlers, running or returned, than deliveries
\* and listeners account for.
THEOREM ListenerTypeCorrect == Spec => []TypeOK
<1>1. Inv => TypeOK
  BY DEF Inv
<1>2. QED
  BY <1>1, InvInit, InvStep, PTL DEF Spec

\* What is processed was given to the application, unless the process started
\* before it had the application's callback.
THEOREM ProcessedTasksWereGiven == Spec => []ProcessedWasGiven
<1>1. Inv => ProcessedWasGiven
  <2> SUFFICES ASSUME Inv, NEW t \in processedTasks
               PROVE  given[t] > 0 \/ (early /\ dropped[t] > 0)
    BY DEF ProcessedWasGiven
  <2>1. t \in Tasks /\ Counters
    BY TypeIsNat DEF Inv, TypeOK
  <2>2. given[t] + dropped[t] > 0
    BY <2>1 DEF Inv, MarkedWhenCalled
  <2>3. given[t] > 0 \/ dropped[t] > 0
    BY <2>1, <2>2 DEF Counters
  <2>4. QED
    BY <2>1, <2>3 DEF Inv, NothingIsEarly
<1>2. QED
  BY <1>1, InvInit, InvStep, PTL DEF Spec

\* Only handlers that were in flight together make a process handle a task twice.
THEOREM OverlapsAloneRepeat == Spec => []GivenOnceUnlessOverlapping
<1>1. Inv => GivenOnceUnlessOverlapping
  <2> SUFFICES ASSUME Inv, NEW t \in Tasks, given[t] + dropped[t] > 1, t \notin overlapped
               PROVE  FALSE
    BY DEF GivenOnceUnlessOverlapping
  <2>1. handlers[t] \in Nat /\ given[t] \in Nat /\ dropped[t] \in Nat
    BY TypeIsNat DEF Inv, Counters
  <2>2. handlers[t] + given[t] + dropped[t] <= 1
    BY DEF Inv, OneHandler
  <2>3. QED
    BY <2>1, <2>2
<1>2. QED
  BY <1>1, InvInit, InvStep, PTL DEF Spec

\* A process takes tasks only of agents it was started for, whoever the signer is
\* meanwhile.
THEOREM TasksAreOfStartedAgents == Spec => []OnlyAgentsThatStarted
<1>1. Inv => OnlyAgentsThatStarted
  BY DEF Inv
<1>2. QED
  BY <1>1, InvInit, InvStep, PTL DEF Spec
=============================================================================
