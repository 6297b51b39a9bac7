# Ensemble framework: formal model

TLA+ specifications of the Ensemble framework, TLC configurations that check
them on small instances, and TLAPS proofs of their main results for every value
of the constants. Paths are relative to the repository; `contracts/` stands for
`packages/contracts/contracts/`, `sdk/` for `packages/sdk/src/`, `cli/` for
`packages/cli/src/`, `subgraph/` for `packages/subgraph/src/`, `mcp/` for
`packages/mcp-server/src/`.

## 1. The system

Agents register on chain, offer services at a price (*proposals*), and do
*tasks* that somebody creates from a proposal and pays in advance. A subgraph
follows the events of the contracts; clients find agents in it and send
transactions through the SDK.

| Component | State | Operations | Hard because |
|---|---|---|---|
| ServiceRegistry (`contracts/ServiceRegistryUpgradeable.sol`) | name -> service, a counter, an owner | register (anyone), update (owner) | counter kept apart; catalogue shared by registries and replaced under them |
| AgentsRegistry (`contracts/AgentsRegistryUpgradeable.sol`) | agents, proposals, id counter, addresses of the other contracts and of V1 | register, add/remove proposal, migrate, rate, set data, remove, onlyOwner setters | ids outlive what they name; loops over all ids; truncating average; several calls that create the same thing |
| TaskRegistry (`contracts/TaskRegistryUpgradeable.sol`) | tasks, tasks per issuer, id counter, a balance | create, complete, rate, cancel | pays by looking the price up again in another contract; one balance for all tasks |
| EnsembleCredits (`contracts/EnsembleCredits.sol`) | balances, supply, roles | mint, burn, burnFrom, minters; inherited role calls | what is inherited stays public; a role that is its own admin |
| SDK events and tasks (`sdk/services/TaskService.ts`, `sdk/ensemble.ts`) | registered listeners, callback, processed tasks (memory); the signer | start, stop, setSigner, set callback, event handlers; create, complete, rate, cancel a task | an await between the check and the mark; repeated and lost events; restarts; a price read before it is paid |
| SDK AgentService (`sdk/services/AgentService.ts`) | none of its own: the record of an agent is on chain, on IPFS and, late, in the subgraph | register, proposals, update of a record or a property of it, queries | read, merge, upload, write back without a lock; a gateway that fails half way |
| CLI wallets and configuration (`cli/services/WalletService.ts`, `cli/config/manager.ts`) | a file per wallet; config.json with the settings and the active wallet | wallets create, import, use, current, unset, delete; config set-*, reset | two files that must agree; no locks; files truncated before they are written; commands killed anywhere |
| CLI agent commands (`cli/commands/agents/`) | none | register, update, update property, list, get | a prompt between read and write; merges on top of the SDK's merge; several sources of the signing key |
| Subgraph (`subgraph/`) | entities mirrored from events, file data sources | one handler per event in subgraph.yaml, one for a document found on IPFS | late; events nobody handles; documents found in any order |
| MCP server (`mcp/agent-matcher.ts`) | none | find agents by service, then by description | everything it says may be outdated |
| Python SDK | none | legacy client | - |

Interaction: TaskRegistry calls `getProposal` and `addRating` of AgentsRegistry;
AgentsRegistry calls `isServiceRegistered` and, in a migration,
`registerService` of ServiceRegistry, and reads V1. TaskRegistry moves ETH and
ERC20 through `TransferHelper`. The SDK sends transactions and listens to
`TaskCreated`; the CLI uses the SDK. The subgraph listens to events of all
contracts; SDK and MCP server query it. A transaction is atomic and a
failed `require` undoes it; off chain every `await` is a point where others run.

What makes each part correct: a proposal id never changes its meaning; a listed
proposal has an agent and a service; nobody takes a registered agent over;
reputation is earned and in range; a task is settled once, with the money paid
in for it; the supply of credits is the sum of the balances and minting is the
minters' alone; a task is marked as processed only once a call of the callback
returned for it, and a second call needs handlers that overlapped; an update of
a record changes what was asked, and is seen in the end; the subgraph agrees
with the contracts once it has caught up, and who buys from an outdated one gets
what it showed or nothing.

## 2. Modules

| Module | Models | Notes |
|---|---|---|
| `ServiceRegistry` | ServiceRegistryUpgradeable, several instances | category and description are one value |
| `Reputation` | the average in `addRating` | pure |
| `AgentsRegistry` | AgentsRegistryUpgradeable, on top of `ServiceRegistry` | EXTENDS it: the migration writes both |
| `ProposalBook` | *abstract*: what a proposal id promises | `AgentsRegistry!Book` is the mapping |
| `TaskRegistry` | TaskRegistryUpgradeable and TransferHelper, on top of `AgentsRegistry` | `deposit` is a history variable |
| `Escrow` | *abstract*: what a task does with money | `TaskRegistry!Money` is the mapping |
| `EnsembleCredits` | the credits token with AccessControl | stands alone |
| `TaskListener` | TaskService.subscribe and Ensemble around it | `started`, `early`, `given`, `dropped`, `overlapped` are history variables of the process |
| `RegistryIndex` | the subgraph's handlers for both registries, and the documents it finds | EXTENDS `AgentsRegistry`; `pending` is the chain's events not yet handled |
| `AgentRecords` | registering and updating agents: the CLI's commands, AgentService, the contract, IPFS and the subgraph together | EXTENDS `RegistryIndex`; `alone` and `fresh` are history, as is `asked` once the SDK was told |
| `Subgraph` | the rest of the subgraph, and every transaction with the events it emits | EXTENDS `TaskRegistry`, `RegistryIndex` |
| `Marketplace` | clients: matcher and queries, choice, price, purchase; the other calls of the SDK | EXTENDS `Subgraph`: contracts, subgraph and clients composed |
| `WalletStore` | the CLI's wallet and config commands on the files under ~/.ensemble | `overlapped`, `clean`, `wanted` are history variables |
| `MC*` | values of constants and symmetry for TLC | |
| `*Proofs`, `Sums` | theorems, and the lemmas on sums they need | see section 5 |

Correspondence. Each Solidity function is one action with the same name: every
`require` is a conjunct, every assignment a primed variable, and a call of
another contract is part of the action (`CreateTask` reads `GetProposal`,
`RateTask` performs `AddRating`, `MigrateAgent` performs `EnsureServices`). An
unset mapping entry is the default record (`NoAgent`, `NoProposal`, `NoService`,
`NoTask`), as in Solidity. In completeTask, cancelTask and rateTask all writes
come before the external call, so code of the payee that calls back acts as if
it called right afterwards: one atomic action is enough, and no property tests
that order. createTask calls the token between its checks and its writes; tokens
whose code calls back are outside the model. Return values are left out. Events
are left out of the contracts' own modules; `RegistryIndex` and `Subgraph` pair
each call with those of its events that subgraph.yaml lists, in the order of the
code. Definitions named "Faulty variant" are not part of the model: each is a
plausible bug in the definition that follows, kept to show that the properties
notice it.

`TaskListener` has one action per piece of code between two awaits: `Start`
(up to `await getAgentAddress`), `Subscribed` (the rest of `subscribe`),
`Deliver` (the listener up to `await getProposal`, for each listener whose
filter fits), `HandOver` or `HandlerFails` (the rest of it). `Stop` does what
unsubscribe does, nothing. The callback is not awaited: an application that
rejects later has returned. `Restart` is a new process: everything in memory is
gone, the chain is not.

`RegistryIndex` has one action per handler, which takes the oldest event of
`pending`; graph-node, which calls them, is external: it handles events in the
order of the chain and a document some time after its data source was created
(`HandleAgentMetadata`). An entity that was never saved has `known = FALSE`. A
file that is found but is no document gives an entity without any content
(fds.ts:14-29), so only `Documents` are shown; an entity saved over an older one
keeps a link that is not set anew (`Linked`). A document without socials, for
which fds.ts:41-44 leaves the lists out, is none that the SDK writes: the merge
always has the object, and the type of what a program passes has it too.

`AgentRecords` has one action per piece of a command between two answers:
`UpdateCommand` or `UpdateProperty` (the query and the merge of the options, up
to the prompt), `SignWithKey` or `SignWithWallet` (what follows it),
`CheckExists`, `ReadChain`, `Fetch` (the gateway's answer, or none, the merge
and the upload), `MineUpdate`. A document is a function from fields to values
and its own URI, as IPFS addresses by content. Fields come in four kinds, since
the code merges each kind in a way of its own: texts (an empty one counts as
not given), lists, keys of `socials`, keys of `communicationParams`. Two more
things can be asked for. `StatusField` is accepted by every way of updating and
has no place in a document, so `Merged` drops it. `ParamsForm` says whether the
parameters are a JSON text or, as the schema allows too, an object: the subgraph
reads an object as no text at all (`Readable`), and so as no parameters. Agents
may be registered with a URI of any sort: a document, a file that is none, a
URI without a content path. `End` is every way in which a command stops without a
transaction.

`Marketplace` has the awaits of a purchase: `FindMatchingProposals`,
`FindAgentsByDescription` (the two queries of the matcher) or `Query` (one of
AgentService's), `Choose` (the user), `ReadPrice` and `MineTask` (createTask).
`Call` is every other transaction, at once, by anybody.

`WalletStore` has one process per shell, which runs one command after the
other; an action is the code between two file accesses of a command. `GetConfig`
is getConfig, `OpenConfig` and `WriteConfig` are the two halves of the writeFile
in saveConfig (also when getConfig calls it because there is no file), and
likewise for a wallet file. A wallet is the password that opens it, the settings
are the set of those that were set; commands that only read are `Show`. A kill
leaves what was written so far, a truncated file is `Torn`, and reads as the
defaults (config.json) or as an error (a wallet), as the code has it.

## 3. Runs

| Run | Question | Instance |
|---|---|---|
| `AgentsRegistry` | Does the registry keep `ProposalBook`, its agents and its averages in order, with the owner switching catalogues and ratings above 100 tried? | 2 accounts, agent bob and address zero, 2 catalogues, 1 service, 2 proposals, 2 ratings per agent |
| `Migration` | Same for what a migration brings along, and is the counter of services right? | V1 with 2 agents, 4 proposals (one withdrawn, one for a service V1 lost), 2 services, up to 3 proposals |
| `Tasks` | Is the task registry an escrow, and solvent? Is reputation earned through completed tasks, across removal and re-registration? | 2 accounts, price 1, ETH, one ERC20 and a token address without code, 2 proposals, 2 tasks, ratings 0, 60 and 101 |
| `EnsembleCredits` | Does the ledger add up, and do minters decide alone? | 3 accounts, amounts 0 to 2, largest integer 4 |
| `TaskListener` | Which tasks does a process give to the application, how often, and for whom, with handlers interleaved, events repeated, the signer changed and the callback set late? | 2 agents, 2 tasks, 2 listeners per agent, 3 deliveries per event, 1 restart |
| `WalletStore` | What do wallet and configuration commands leave in the files, interleaved and killed anywhere? | 2 shells, 2 wallet names, 2 passwords, 2 settings, 1 kill; symmetric in all four sets |
| `AgentRecords` | Do updates of a record change what was asked, interleaved with each other, a late subgraph and a failing gateway, and are they seen in the end? | 1 agent, 2 accounts, 8 fields of all four kinds (one of them `ParamsForm`) and the status, 3 commands, 2 events not yet handled |
| `Marketplace` | Does a buyer who searches a late subgraph get what it showed, and does the subgraph agree with the contracts once it caught up? | 1 buyer, 2 agents (one blacklisted and known to V1), 2 proposals, 1 task, 2 events not yet handled |

Bounds. Two proposals let one be withdrawn while the other is listed and an id
be created after another was withdrawn, which is what every property about ids
needs; three are needed for a migration beside an own proposal. Two tasks are
the least with which one could be settled with the other's money; with funds of
2 one account pays both, and with three assets under one price each settlement
that takes the wrong asset is seen. Two ratings make the second one an average.
Ratings include 51 and 100 (an average that truncates) and 101 (refused).
`MaxUint` is 4 so that the checked addition does overflow. Two listeners are the
least with two handlers of one delivery in flight; three deliveries let one
fail, the next be given and a third repeat it. Two shells interleave any two
commands, and another one after them sees what they left; two names tell the
active wallet from another, two passwords a wrong one from the right one, two
settings what a command sets from what it must keep; one kill leaves every file
the commands can leave torn. Three commands are a registration and two updates
that interleave; two fields of a kind tell the one that was asked from one that
must stay. Agents are registered with a document that has no name and an object
for parameters, with a file that is no document, and with a URI without a
content path; an https URI (`WebUri`), behind which nothing is ever found, is to
a command what a file is before it is found, and is left to the theorems. One
request asks for one of two socials, the other for a text, a cleared list, one
of two parameters and the status. `MaxLag` 2 lets the events of a completion or
of a rating wait together, and an event wait while the next one is emitted; a
migration may have more events than that and is then sent when the indexer has
caught up. One purchase is enough for one client: clients meet only through
proposals and tasks, and the other actors do to those what another client would.
`Heirs` (accounts that ownership passes to) is empty where passing it to someone
would only rename the owner; renouncing ownership is always possible. The
contracts may always stop (a transaction need not be sent, and bounds use up
ids), so deadlock is not checked for them.

Fairness. The contracts have none: nothing forces anyone to send a transaction.
`AgentRecords` and `Marketplace` assume weak fairness of the indexer alone:
graph-node goes on with the next event, and with the documents it was told to
look for (`IndexStep`, `HandleEvent`). They do not assume that a client does
anything. `TaskListener` and `WalletStore` are about safety only: that a handler
ends would be no more than the assumption that requests time out.

### Disagreements shown by a run

| Run | The repository says | The code does |
|---|---|---|
| `AgentIsPaidOnCompletion` | README.md:86: the agent calls completeTask "And receives payment" | the price goes back to the issuer (TaskRegistryUpgradeable.sol:119, 121) |
| `TasksAreRatedOnce` | TaskRegistryUpgradeable.sol:137 "Task got rating already"; TaskRegistry.test.js:362 "should only rate task ones" | a task rated 0 can be rated again |
| `OtherFieldsSurvive` | AgentService.ts:905 "Merge current metadata with updates"; update.ts:120 "Merge with existing socials instead of replacing" | without an answer of the gateway the update goes on and wipes the other fields (AgentService.ts:901); socials and parameters are merged with what the subgraph showed, however old |
| `SignsWithTheGivenKey` | register.ts:18: `--private-key` is the "Private key for signing" | the key only gives the address; the SDK instance signs with the key of the configuration (register.ts:100) |

Four more were met while modelling and are in the model without a run of their own:
cancelTask refunds nothing once the proposal was removed, although
TaskRegistryUpgradeable.sol:149 says that it "refunds the payment"
(`ListedTasksPayBack` says when it does); registerService is open to everyone,
although README.md:96 says "only the owner can add or remove services";
unsubscribe (TaskService.ts:179) removes nothing, as it passes another filter
and another listener than subscribe; `status` is validated as a property to
update (agent.schemas.ts:185, update.ts:103, AgentService.ts:977) and then
dropped by the merge (AgentService.ts:906-920), while the transaction is sent
and success reported (`UpdatesAreExact` has it as what an update does).

## 4. Properties

- `KeepsTheBook`, `DepositsMatchProposals`, `IsAnEscrow`: a task stores a
  proposal id and reads the price back later. That is right only because an id,
  through all mixtures of additions, removals and migrations, either says what
  it said or nothing. `ProposalBook` states it, `Escrow` states what follows for
  the money: each deal is given back exactly or not at all, once.
- `Solvent`: the one balance covers all open deposits. `ListedTasksPayBack`:
  a task is refunded in full while its proposal is listed.
- `TasksOnlyProgress`: completion and cancellation exclude each other.
- `ProposalsHaveAgents`, `ProposalsHaveServices`, `AgentsAreNotTakenOver`,
  `UnregisteredAgentsAreBlank`: relations between agents, proposals and services
  across removal, migration and a change of catalogue. Address zero is excepted,
  because `registerAgent` never sees it as registered.
- `ReputationBounded`, `ReputationIsEarned`: the average stays in range, and no
  agent stands above the best rating of a task it completed.
- `CountMatchesServices`, `ServicesPersist`, `IssuerIndexIsExact`: redundant
  state agrees with what it summarises.
- `SupplyIsTheSum`, `CreditsDoNotMove`, `NoMinterNoMoreCredits`: the token.
- `ProcessedWasGiven`: the listener marks late. A task that is marked was given to
  the application by a call that returned; only a process that was started before
  the application set its callback can have marked one that went to the empty
  default. `GivenOnceUnlessOverlapping`: the check and the mark have an await
  between them, and handlers in flight together do call back twice; nothing else
  does, be it repeated events, several listeners, failures before or a signer
  that changes. `OnlyAgentsThatStarted`: the filter has the address that was asked
  for when start was called, whatever the signer is when the answer comes. All
  three speak of one process: the next one remembers nothing.
- `UpdatesAreExact`: an update makes of each field of the document what was asked,
  or leaves it as it was, if it was `alone` (nobody else's transaction for the
  agent was mined after it read the contract, and the gateway answered). What the
  options carry along from the subgraph, the other socials and the other
  parameters, has to be right as well only if it was `fresh` too: the subgraph had
  caught up when the command read it (`CaughtUp`: no event pending, the file
  found, its parameters a text) and the agent was not written since. A status
  changes nothing. `OtherFieldsSurvive` is the run that shows why none of these
  conditions can be left out.
- `UpdatesAreShown`: what a command wrote is in the end what queries see,
  document and all, unless the agent was written again or removed.
- `AgentsAreIndexed`, `MarketIsIndexed`: the handlers together lose nothing that
  matters: once no event is left, entities agree with the contracts. This needs
  the order of events within a transaction, and that a removed agent's entity is
  replaced when somebody registers the address again.
- `ShownTermsAreTrue`: however late the subgraph is, the terms it shows for a
  proposal that is still active are the contract's; it shows removed ones too.
- `BuyersGetWhatTheyChose`: a purchase reads the subgraph, then the price, then
  sends a transaction, with anything in between; the task that comes out of it
  is the agent's that was chosen, under the terms shown. That createTask
  sends the price as ETH whatever the proposal's token means that proposals in
  a token cannot be bought this way unless they are free.
- `SettledTasksAreShown`: a completed or cancelled task is shown as such in the
  end.
- `WalletsSurvive`: createWallet looks whether the file exists, derives a key and
  writes; deleteWallet decrypts, then unlinks. A written wallet is lost only to
  its own password or to commands that ran side by side, whatever is killed.
- `ActiveWalletExists`, `SettingsAreKept`: the two files agree and saving the
  whole configuration loses nothing, as long as commands ran one at a time and
  to their end. After a kill or an overlap both can be wrong; from the next
  `wallets current` that runs alone on, what is in the files counts again.

## 5. Proofs

All theorems hold for every value of the constants that satisfies the
assumptions `ServiceConstants`, `AgentConstants`, `TaskConstants`,
`CreditsConstants`, `ListenerConstants`, `WalletConstants`, `IndexConstants`,
`RecordConstants`, `RecordBounds`, `SubgraphConstants` and `MarketConstants`.
These say that amounts are natural numbers, that sentinels are not ordinary
values, of what type V1's contents are, that a document is its own URI, that a
client can send any price it can read, and that there are finitely many accounts
(an address has 20 bytes; without it the sum of all balances would mean
nothing).

| Module | Theorems |
|---|---|
| `AgentsRegistryProofs` | `AgentTypeCorrect`, `RegistryKeepsTheBook`, `EveryProposalHasAnAgent`, `ReputationStaysBounded`, `AgentsStayWithTheirOwners`, `ServicesStay`, `CountIsExact`, `EveryProposalHasAService` |
| `TaskRegistryProofs` | `TaskTypeCorrect`, `DepositsStayMatched`, `TasksProgress`, `TaskRegistryIsAnEscrow`, `RegistriesKeepPromises`, `ListedTasksAreRefunded`, `StaysSolvent`, `IssuerIndexStaysExact`, `UnregisteredAgentsStayBlank`, `ReputationsAreEarned` |
| `EnsembleCreditsProofs` | `CreditsTypeCorrect`, `SupplyStaysTheSum`, `CreditsStayWhereTheyAre`, `MintingEndsForGood` |
| `TaskListenerProofs` | `ListenerTypeCorrect`, `ProcessedTasksWereGiven`, `OverlapsAloneRepeat`, `TasksAreOfStartedAgents` |
| `WalletStoreProofs` | `WalletStoreTypeOK`, `WalletsSurviveHolds`, `SettingsAreKeptHolds`, `ActiveWalletStaysThere` |
| `AgentRecordsProofs` | `RecordsTypeCorrect`, `UpdatesNotOvertakenAreExact`, `RecordsAreIndexed` |
| `MarketplaceProofs` | `MarketTypeCorrect`, `MarketUsesTheContracts`, `MarketKeepsPromises`, `ShownTermsStayTrue`, `BuyersGetTheirChoice`, `MarketStaysIndexed` |
| `Sums` | lemmas only: what a sum over a finite set is, and how it changes with one value |

*Agents registry.* Each of the nine kinds of call either lists new proposals
(ids from `nextProposalId` on, all of one agent) or withdraws some and changes
none (lemma `ProposalSteps`). With `InactiveIsEmpty`, an inactive id has the
empty record, that is a step of `ProposalBook`. `ProposalsHaveAgents` is not
inductive alone: an id the removal scan does not reach could be active, so the
invariant also says that ids from `nextProposalId` on are unused. To the
catalogue a call adds missing services, or changes one for its owner, or does
nothing (`CatalogueSteps`); names stay the keys they are stored under
(`WellNamed`), so that the count is exact and a service that a proposal once
named stays registered. Only migration writes an owner other than the caller,
for agents that have none (`AgentStepKeepsOwners`).

*Task registry.* The invariant is `TaskInv`: types, `InactiveIsEmpty`,
`TasksBelowCounter` (a task not yet created is blank, a created one has an
issuer) and `DepositsMatchProposals`. The last one needs the second: when the
proposal is gone its price reads as 0, so that a payout is either the deposit or
nothing, which is `Escrow!Settle`. Registry steps preserve it by
`ProposalSteps`; that a rating by the task registry is one of the registry's own
steps gives `RegistriesKeepPromises`. Refunds are an action property that
`TaskInv` yields call by call (`WhatSettles`); the issuers' index has its own
invariant, `IndexInv`. `UnregisteredAgentsStayBlank` assumes that no task
registry is also an account that sends calls (a contract cannot), since only
such a registry may rate; `ReputationsAreEarned` also that V1's agents have no
reputation, since a migrated one is replaced at the first rating
(`AgentsRegistryUpgradeable.sol:258`). It rests on two facts: an average is at
most the largest of what is averaged (`AveragedAtMost`), and a task once rated
stays so (`RatingsLast`).

*Solvency.* `Solvent` compares a balance with a sum over all tasks. The community
modules define such a sum by recursion, in the order in which CHOOSE takes
elements out, so the first thing to prove is that the order does not matter.
`Sums` does it by induction on the size of the set, from the fact
that < is well founded on the naturals: a set of numbers with 0 and with n + 1 for
each n is all of Nat (`InductiveSet`), taken for the set of the sizes for which
the claim holds. It ends in `SumAfterChange`: a function that changes at one place
changes its sum by that difference. `StaysSolvent` then needs no case per call. By
`StepIsEscrowStep` a step is one of `Escrow` or leaves the money alone, and an escrow
step changes what is kept of each asset by at least as much as what is owed of it
(`EscrowStaysSolvent`).

*Credits.* Every call mints, burns or changes who holds a role (`CallKinds`). The
type of `balances` is not inductive alone: only the addition to the supply is
checked, a balance grows unchecked (as in OpenZeppelin's ERC20). `CreditsInv` adds
`SupplyIsTheSum`: a balance is a summand of the supply (`BalanceWithinSupply`), so
it overflows only if the supply does.

*Listener.* One invariant carries all four theorems. It counts the handlers of a
task together, running and returned (`HandlersBounded`, `OneHandler`): a task is
processed just when some callback returned (`MarkedWhenCalled`), so an event of an
unprocessed task finds no returned ones, and without an overlap at most one starts.
Until the application's callback is there, only an early start listens at all
(`NothingIsEarly`), so a call of the default callback needs one; listeners, and
subscriptions whose address is awaited, are of agents that were the signer at a
start (`ListensForStarted`).

*Wallets.* `ActiveHeld` says that the two files agree when nothing runs and nothing
went wrong, and what a command that runs alone keeps on its way
(`ActiveOnTheWay`): the files agree but for the name that `delete` still has to clear,
the configuration about to be written agrees with the wallet files, and `use` has
seen the wallet it is about to name.

*Records.* `RecordsInv` adds to the types what a command that is not overtaken knows
(`ExactOK`): what was asked is part of what the SDK is told (`Told`); while it is
`fresh`, what it carries along is what the contract has now; while it is `alone`,
what it has read of the contract is, and what it is about to send is for each
field what was asked of the document as it is now. The heart is that the reads
and merges fit together: the options are completed with what the subgraph shows
and with nothing else (`FromOptionsCarries`), and a subgraph that has caught up
shows, of every field but the name, what the gateway would answer
(`CaughtUpShows`). That rests on `AgentsAreIndexed`, so the commands' invariant and the
subgraph's (`AgentsFollowed`) are kept together (`RecordsStepKeepsBoth`). A
transaction of another command for the agent overtakes this one, one for another
agent leaves what was read as it was (`OthersKeepTrust`).

*Market.* Every step of `Marketplace` is one of `TaskRegistry` or leaves the
contracts alone (`MarketStepIsTaskStep`): that is `MarketUsesTheContracts`, and the
theorems about the contracts, refinements included, hold here too
(`MarketKeepsPromises`). The rest is one argument: a statement about an id
is made when the id is listed, in an event, then in an entity, then in what a
client was shown; ids only ever vanish (`ProposalsOnlyVanish`), so that what was
true once about an id is true, or the id is gone (`TruthLasts`). `MarketInv` says
this of the queue (`PendingIsTrue`), of the entities (`EntitiesAreTrue`) and of
each client (`ClientOK`); `MiningBuys` is the step in which createTask finds the
proposal listed, and hence as it was shown. `DealLasts` keeps the task as
it was bought.

*Index.* `AgentsAreIndexed` and `MarketIsIndexed` speak of an empty queue, and
say nothing of a queue that is not. The invariants behind them are about what
the queue says *last*: something the contracts have is followed (`Followed`) if
the last event about it says what is so now, or if no pending event is about it
and the entity shows it already. An entity has several parts that different
events write (of an agent its owner, its data and its reputation; of a task its
deal, status, result and rating), and each part is followed on its own. Most
handlers drop their event when there is no entity, hence for each part the
events that create the entity count as well. A transaction tells last what it
changed (`AgentsStayFollowed`, `TransactionsAreFollowed`), and the handler of
the oldest event writes what it says or the queue says it again later
(`HandlersFollow`). `MarketFollowed` also needs that an agent that is not
registered has no record (`UnregisteredAgentsAreBlank`): handleAgentRegistered
starts the entity with a reputation of 0, which is right only if the contract
has none left from an earlier registration. The market has it for nothing, as
only the task registry rates there.

Every invariant and every action property that a passing run checks is stated by a
theorem. Only model-checked are the two liveness properties
`UpdatesAreShown` and `SettledTasksAreShown`: liveness
under fairness needs ENABLED, which is beyond the prover. The faulty variants, too,
are only told apart by runs, and so are the four disagreements of section 3.

## 6. Not modelled, and the plan

Not modelled:

- upgrades of the proxies (they replace the code), deployment scripts;
- gas, return values of the contracts, events that nobody handles
  (`ProposalRemoved`, `AgentRemoved`, `TaskCanceled`), texts of any kind, the
  widths of uint256 where values only come from one caller (prices, counters;
  the token's supply has its width);
- prompts, validation of single files and output formats of the CLI, `init`,
  and the help and query commands beyond the queries they send;
- of the SDK: `getAgentCount`, the texts of errors, `ContractService`, which
  nobody uses, and `setSigner` beyond what it does to listeners: it does not
  connect the contracts again, so the model keeps the account of an instance;
- of the MCP server: `findMatchingServices`, which is never called, and
  `getAgentDetails`, one query by address; the limit that the matcher passes to
  GetAgents, which the query does not declare;
- what is inside an object for communicationParams: a program may store one
  (agent.schemas.ts:184), and the model has that it is one and its keys, and that the
  subgraph does not read it, but no other shapes that a text or an object may have;
- entities with fields that graph-node would refuse to save, and files that are
  no JSON beyond the fact that they show nothing of a document;
- the legacy Python SDK.

What is left is small: the two liveness properties stay with the model checker,
and the theorems cover the rest of what the runs check. The safety part of the
liveness arguments could be stated as theorems of its own: that an event in the queue
always has a handler that can take it.
