--------------------------- MODULE EnsembleCredits ---------------------------
(***************************************************************************)
(* The EnsembleCredits token: an ERC20 nobody can transfer or approve,     *)
(* minted and burned by the holders of MINTER_ROLE, who also decide who    *)
(* holds it.  transfer, transferFrom, approve, allowance and the allowance *)
(* changes always revert and are no actions.  What the contract inherits   *)
(* from AccessControl is public too: grantRole, revokeRole, renounceRole.  *)
(***************************************************************************)
EXTENDS Naturals, FiniteSets, Functions

CONSTANTS
  Accounts,
  ZeroAddress,
  InitialAdmin,
  InitialSupply,
  Amounts,       \* amounts minted and burned
  MaxUint        \* the largest uint256

MinterRole == "MINTER_ROLE"
DefaultAdminRole == "DEFAULT_ADMIN_ROLE"
Roles == {MinterRole, DefaultAdminRole}
Addresses == Accounts \cup {ZeroAddress}

ASSUME CreditsConstants ==
  /\ IsFiniteSet(Accounts)
  /\ ZeroAddress \notin Accounts
  /\ InitialAdmin \in Accounts
  /\ MaxUint \in Nat
  /\ InitialSupply \in 0 .. MaxUint
  /\ Amounts \subseteq 0 .. MaxUint

VARIABLES
  balances,     \* account -> amount
  totalSupply,
  holders       \* role -> addresses that hold it

vars == <<balances, totalSupply, holders>>

TypeOK ==
  /\ balances \in [Accounts -> 0 .. MaxUint]
  /\ totalSupply \in 0 .. MaxUint
  /\ holders \in [Roles -> SUBSET Addresses]

HasRole(role, account) == account \in holders[role]

\* Each role administers itself: the constructor says so for MINTER_ROLE.
RoleAdmin(role) == role

Init ==
  /\ balances = [a \in Accounts |-> IF a = InitialAdmin THEN InitialSupply ELSE 0]
  /\ totalSupply = InitialSupply
  /\ holders = [role \in Roles |-> {InitialAdmin}]

\* Faulty variant of Minted: the addition is not checked.
MintedUnchecked(to, amount) ==
  /\ totalSupply' = totalSupply + amount
  /\ balances' = [balances EXCEPT ![to] = @ + amount]

\* ERC20._update for a mint: the addition to the supply is checked.
Minted(to, amount) ==
  /\ totalSupply + amount <= MaxUint
  /\ totalSupply' = totalSupply + amount
  /\ balances' = [balances EXCEPT ![to] = @ + amount]

\* Faulty variant of Burned: the balance is not compared.
BurnedUpToBalance(from, amount) ==
  /\ balances' = [balances EXCEPT ![from] = IF amount <= @ THEN @ - amount ELSE 0]
  /\ totalSupply' = IF amount <= totalSupply THEN totalSupply - amount ELSE 0

\* ERC20._update for a burn: the balance must suffice.
Burned(from, amount) ==
  /\ balances[from] >= amount
  /\ balances' = [balances EXCEPT ![from] = @ - amount]
  /\ totalSupply' = totalSupply - amount

\* Faulty variant of Mint: the admin role is accepted as well.
MintByAdmin(sender, to, amount) ==
  /\ to # ZeroAddress
  /\ HasRole(MinterRole, sender) \/ HasRole(DefaultAdminRole, sender)
  /\ Minted(to, amount)
  /\ UNCHANGED holders

Mint(sender, to, amount) ==
  /\ HasRole(MinterRole, sender)
  /\ to # ZeroAddress
  /\ Minted(to, amount)
  /\ UNCHANGED holders

Burn(sender, amount) ==
  /\ Burned(sender, amount)
  /\ UNCHANGED holders

\* Faulty variant of BurnFrom: what is burned goes to the sender.
BurnFromIntoSender(sender, from, amount) ==
  /\ HasRole(MinterRole, sender)
  /\ from \notin {sender, ZeroAddress} /\ balances[from] >= amount
  /\ balances' = [balances EXCEPT ![from] = @ - amount, ![sender] = @ + amount]
  /\ UNCHANGED <<totalSupply, holders>>

\* No allowance is needed: the role suffices.
BurnFrom(sender, from, amount) ==
  /\ HasRole(MinterRole, sender)
  /\ from # ZeroAddress
  /\ Burned(from, amount)
  /\ UNCHANGED holders

SetHolders(role, accounts) ==
  /\ holders' = [holders EXCEPT ![role] = accounts]
  /\ UNCHANGED <<balances, totalSupply>>

AddMinter(sender, minter) ==
  /\ HasRole(MinterRole, sender)
  /\ minter # ZeroAddress
  /\ SetHolders(MinterRole, holders[MinterRole] \cup {minter})

\* A minter may remove any minter, itself and the last one included.
RemoveMinter(sender, minter) ==
  /\ HasRole(MinterRole, sender)
  /\ minter # ZeroAddress
  /\ HasRole(MinterRole, minter)
  /\ SetHolders(MinterRole, holders[MinterRole] \ {minter})

\* AccessControl.grantRole, revokeRole and renounceRole (external): no address
\* is refused here, and revoking a role nobody has does nothing.
GrantRole(sender, role, account) ==
  /\ HasRole(RoleAdmin(role), sender)
  /\ SetHolders(role, holders[role] \cup {account})

RevokeRole(sender, role, account) ==
  /\ HasRole(RoleAdmin(role), sender)
  /\ SetHolders(role, holders[role] \ {account})

RenounceRole(sender, role) == SetHolders(role, holders[role] \ {sender})

Next ==
  \E sender \in Accounts :
    \/ \E to \in Addresses, amount \in Amounts : Mint(sender, to, amount)
    \/ \E amount \in Amounts : Burn(sender, amount)
    \/ \E from \in Addresses, amount \in Amounts : BurnFrom(sender, from, amount)
    \/ \E minter \in Addresses : AddMinter(sender, minter) \/ RemoveMinter(sender, minter)
    \/ \E role \in Roles, account \in Addresses :
         GrantRole(sender, role, account) \/ RevokeRole(sender, role, account)
    \/ \E role \in Roles : RenounceRole(sender, role)

Spec == Init /\ [][Next]_vars

-----------------------------------------------------------------------------
\* totalSupply is the sum of the balances at all times, so an unchecked
\* addition to a balance cannot overflow as long as the supply does not.
SupplyIsTheSum == totalSupply = SumFunction(balances)

\* Credits do not move: when one balance grows, no other one shrinks, whichever
\* of mint, burn and burnFrom is called by whom.
CreditsDoNotMove ==
  [][\A a, b \in Accounts : balances'[a] > balances[a] => balances'[b] >= balances[b]]_vars

\* When the last account with MINTER_ROLE is gone, so is minting, for good:
\* neither the admin role nor the inherited grantRole can bring it back.
NoMinterNoMoreCredits ==
  [][holders[MinterRole] \cap Accounts = {} =>
       /\ holders'[MinterRole] \cap Accounts = {}
       /\ \A a \in Accounts : balances'[a] <= balances[a]]_vars
=============================================================================
