--------------------------- MODULE ServiceRegistry ---------------------------
(***************************************************************************)
(* The ServiceRegistryUpgradeable contract: a permissionless catalogue of  *)
(* services keyed by name.  An AgentsRegistry points at one deployed       *)
(* instance and can be pointed at another, so the state is indexed by the  *)
(* instance.  A transaction that reverts changes nothing, so each require  *)
(* is a conjunct of the action's guard.                                    *)
(***************************************************************************)
EXTENDS Naturals, FiniteSets

CONSTANTS
  Registries,    \* deployed ServiceRegistry instances
  Names,         \* non-empty service names
  EmptyName,     \* the empty string
  Details,       \* category and description of a service, taken together
  NoDetails,     \* the empty category and description
  Accounts,      \* addresses that send transactions
  ZeroAddress,   \* address(0)
  Deployer,      \* the account that calls initialize
  Heirs          \* accounts that ownership may be transferred to (a bound)

ASSUME ServiceConstants ==
  /\ Registries # {}
  /\ IsFiniteSet(Names)
  /\ EmptyName \notin Names
  /\ ZeroAddress \notin Accounts
  /\ Deployer \in Accounts
  /\ Heirs \subseteq Accounts

VARIABLES
  services,      \* per instance, name -> Service
  serviceCount,  \* per instance, the counter kept beside the mapping
  serviceOwner   \* per instance, the Ownable owner

serviceVars == <<services, serviceCount, serviceOwner>>

Service == [name : Names \cup {EmptyName}, details : Details \cup {NoDetails}]

\* What the Solidity mapping returns for a key that was never written.
NoService == [name |-> EmptyName, details |-> NoDetails]

\* isServiceRegistered reverts on the empty name, then tests the stored name;
\* IsRegistered is the test, and ValidName the condition under which it is
\* answered at all.
ValidName(name) == name # EmptyName
IsRegistered(r, name) == services[r][name].name # EmptyName

Registered(r) == {name \in Names : IsRegistered(r, name)}

ServiceTypeOK ==
  /\ services \in [Registries -> [Names -> Service]]
  /\ serviceCount \in [Registries -> Nat]
  /\ serviceOwner \in [Registries -> Accounts \cup {ZeroAddress}]

ServiceInit ==
  /\ services = [r \in Registries |-> [name \in Names |-> NoService]]
  /\ serviceCount = [r \in Registries |-> 0]
  /\ serviceOwner = [r \in Registries |-> Deployer]

\* The services of a set of new names are stored, each under its own name,
\* and the counter moves by as many.
StoreServices(r, new, details) ==
  /\ services' = [services EXCEPT ![r] =
       [name \in Names |-> IF name \in new
                           THEN [name |-> name, details |-> details[name]]
                           ELSE services[r][name]]]
  /\ serviceCount' = [serviceCount EXCEPT ![r] = @ + Cardinality(new)]

\* Faulty variant of RegisterService: the duplicate check is missing.
RegisterServiceUnchecked(r, name, details) ==
  /\ ValidName(name)
  /\ StoreServices(r, {name}, [n \in {name} |-> details])
  /\ UNCHANGED serviceOwner

\* registerService: anyone may call it, and the sender is not even read.
RegisterService(r, name, details) ==
  /\ ValidName(name)
  /\ ~IsRegistered(r, name)
  /\ StoreServices(r, {name}, [n \in {name} |-> details])
  /\ UNCHANGED serviceOwner

UpdateService(r, sender, name, details) ==
  /\ sender = serviceOwner[r]
  /\ ValidName(name)
  /\ IsRegistered(r, name)
  /\ services' = [services EXCEPT ![r][name] = [name |-> name, details |-> details]]
  /\ UNCHANGED <<serviceCount, serviceOwner>>

\* OwnableUpgradeable.transferOwnership and renounceOwnership (external).
PassServiceOwnership(r, sender, heir) ==
  /\ sender = serviceOwner[r]
  /\ serviceOwner' = [serviceOwner EXCEPT ![r] = heir]
  /\ UNCHANGED <<services, serviceCount>>

ServiceNext ==
  \E r \in Registries :
    \/ \E name \in Names \cup {EmptyName}, details \in Details :
         RegisterService(r, name, details)
    \/ \E sender \in Accounts, name \in Names \cup {EmptyName}, details \in Details :
         UpdateService(r, sender, name, details)
    \/ \E sender \in Accounts, heir \in Heirs \cup {ZeroAddress} :
         PassServiceOwnership(r, sender, heir)

ServiceSpec == ServiceInit /\ [][ServiceNext]_serviceVars

-----------------------------------------------------------------------------
\* serviceCount, a counter maintained apart from the mapping, always equals
\* the number of names that isServiceRegistered answers true for.
CountMatchesServices ==
  \A r \in Registries : serviceCount[r] = Cardinality(Registered(r))

\* A registered name stays registered under that name for good, and once
\* ownership is renounced its category and description are frozen:
\* registerService must not be a way to overwrite a service.
ServicesPersist ==
  [][\A r \in Registries : \A name \in Registered(r) :
       /\ services'[r][name].name = name
       /\ serviceOwner[r] = ZeroAddress => services'[r][name] = services[r][name]]_serviceVars
=============================================================================
