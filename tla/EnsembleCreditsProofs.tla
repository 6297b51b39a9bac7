------------------------- MODULE EnsembleCreditsProofs -------------------------
(***************************************************************************)
(* Theorems about EnsembleCredits, for every finite set of accounts and    *)
(* every amount.                                                           *)
(***************************************************************************)
EXTENDS EnsembleCredits, Sums

\* The part of the types the action properties rest on.
LedgerOK ==
  /\ balances \in [Accounts -> Nat]
  /\ holders \in [Roles -> SUBSET Addresses]

\* The ways a call can change the state.
Mints == /\ \E a \in Accounts : HasRole(MinterRole, a)
         /\ \E to \in Accounts, amount \in Nat : Minted(to, amount)
         /\ UNCHANGED holders
Burns == /\ \E from \in Accounts, amount \in Nat : Burned(from, amount)
         /\ UNCHANGED holders
ChangesHolders ==
  /\ UNCHANGED <<balances, totalSupply>>
  /\ \E role \in Roles, account \in Addresses :
       \/ /\ \E a \in Accounts : HasRole(role, a)
          /\ holders' = [holders EXCEPT ![role] = holders[role] \cup {account}]
       \/ holders' = [holders EXCEPT ![role] = holders[role] \ {account}]

\* Every call mints, burns, or changes who holds a role.
LEMMA CallKinds == Next => Mints \/ Burns \/ ChangesHolders
<1> SUFFICES ASSUME Next PROVE Mints \/ Burns \/ ChangesHolders
  OBVIOUS
<1>1. PICK sender \in Accounts :
        \/ \E to \in Addresses, amount \in Amounts : Mint(sender, to, amount)
        \/ \E amount \in Amounts : Burn(sender, amount)
        \/ \E from \in Addresses, amount \in Amounts : BurnFrom(sender, from, amount)
        \/ \E minter \in Addresses : AddMinter(sender, minter) \/ RemoveMinter(sender, minter)
        \/ \E role \in Roles, account \in Addresses :
             GrantRole(sender, role, account) \/ RevokeRole(sender, role, account)
        \/ \E role \in Roles : RenounceRole(sender, role)
  BY DEF Next
<1>2. Amounts \subseteq Nat
  BY CreditsConstants
<1>3. ASSUME NEW to \in Addresses, NEW amount \in Amounts, Mint(sender, to, amount)
      PROVE  Mints
  BY <1>2, <1>3 DEF Mint, Mints, Addresses
<1>4. ASSUME NEW from \in Addresses, NEW amount \in Amounts,
             (from = sender /\ Burn(sender, amount)) \/ BurnFrom(sender, from, amount)
      PROVE  Burns
  BY <1>2, <1>4 DEF Burn, BurnFrom, Burns, Addresses
<1>5. ASSUME NEW minter \in Addresses, AddMinter(sender, minter) \/ RemoveMinter(sender, minter)
      PROVE  ChangesHolders
  BY <1>5 DEF AddMinter, RemoveMinter, SetHolders, ChangesHolders, Roles
<1>6. ASSUME NEW role \in Roles, NEW account \in Addresses,
             GrantRole(sender, role, account) \/ RevokeRole(sender, role, account)
      PROVE  ChangesHolders
  BY <1>6 DEF GrantRole, RevokeRole, RoleAdmin, SetHolders, ChangesHolders
<1>7. ASSUME NEW role \in Roles, RenounceRole(sender, role)
      PROVE  ChangesHolders
  BY <1>7 DEF RenounceRole, SetHolders, ChangesHolders, Addresses
<1>8. QED
  BY <1>1, <1>3, <1>4, <1>5, <1>6, <1>7 DEF Addresses

\* The ledger is well typed after the constructor.
LEMMA LedgerInit == Init => LedgerOK
BY CreditsConstants DEF Init, LedgerOK, Addresses

\* Every call keeps the ledger well typed.
LEMMA LedgerStep == LedgerOK /\ [Next]_vars => LedgerOK'
<1> SUFFICES ASSUME LedgerOK, [Next]_vars PROVE LedgerOK'
  OBVIOUS
<1>1. CASE Mints
  BY <1>1 DEF Mints, Minted, LedgerOK
<1>2. CASE Burns
  <2>1. PICK from \in Accounts, amount \in Nat : Burned(from, amount)
    BY <1>2 DEF Burns
  <2>2. balances[from] - amount \in Nat
    BY <2>1 DEF Burned, LedgerOK
  <2>3. QED
    BY <1>2, <2>1, <2>2 DEF Burns, Burned, LedgerOK
<1>3. CASE ChangesHolders
  BY <1>3 DEF ChangesHolders, LedgerOK
<1>4. CASE UNCHANGED vars
  BY <1>4 DEF vars, LedgerOK
<1>5. QED
  BY <1>1, <1>2, <1>3, <1>4, CallKinds

\* No call takes credits from one account and gives another more.
THEOREM CreditsStayWhereTheyAre == Spec => CreditsDoNotMove
<1> DEFINE Stay == \A a, b \in Accounts : balances'[a] > balances[a] => balances'[b] >= balances[b]
<1>1. ASSUME LedgerOK, Next PROVE Stay
  <2>1. CASE Mints
    BY <1>1, <2>1 DEF Mints, Minted, LedgerOK
  <2>2. CASE Burns
    BY <1>1, <2>2 DEF Burns, Burned, LedgerOK
  <2>3. CASE ChangesHolders
    BY <1>1, <2>3 DEF ChangesHolders, LedgerOK
  <2>4. QED
    BY <1>1, <2>1, <2>2, <2>3, CallKinds
<1>2. ASSUME LedgerOK, UNCHANGED vars PROVE Stay
  BY <1>2 DEF vars, LedgerOK
<1>3. QED
  BY <1>1, <1>2, LedgerInit, LedgerStep, PTL DEF Spec, CreditsDoNotMove

\* Without an account that is a minter there will never be one again, and no
\* balance ever grows.
THEOREM MintingEndsForGood == Spec => NoMinterNoMoreCredits
<1> DEFINE Ended == holders[MinterRole] \cap Accounts = {} =>
                      /\ holders'[MinterRole] \cap Accounts = {}
                      /\ \A a \in Accounts : balances'[a] <= balances[a]
<1>1. ASSUME LedgerOK, Next PROVE Ended
  <2>1. CASE Mints
    BY <2>1 DEF Mints, HasRole
  <2>2. CASE Burns
    BY <1>1, <2>2 DEF Burns, Burned, LedgerOK
  <2>3. CASE ChangesHolders
    <3>1. \A a \in Accounts : balances'[a] <= balances[a]
      BY <1>1, <2>3 DEF ChangesHolders, LedgerOK
    <3>2. PICK role \in Roles, account \in Addresses :
            \/ /\ \E a \in Accounts : HasRole(role, a)
               /\ holders' = [holders EXCEPT ![role] = holders[role] \cup {account}]
            \/ holders' = [holders EXCEPT ![role] = holders[role] \ {account}]
      BY <2>3 DEF ChangesHolders
    <3>3. ASSUME holders[MinterRole] \cap Accounts = {}
          PROVE  holders'[MinterRole] \subseteq holders[MinterRole]
      BY <1>1, <3>2, <3>3 DEF LedgerOK, HasRole, Roles
    <3>4. QED
      BY <3>1, <3>3
  <2>4. QED
    BY <1>1, <2>1, <2>2, <2>3, CallKinds
<1>2. ASSUME LedgerOK, UNCHANGED vars PROVE Ended
  BY <1>2 DEF vars, LedgerOK
<1>3. QED
  BY <1>1, <1>2, LedgerInit, LedgerStep, PTL DEF Spec, NoMinterNoMoreCredits

-----------------------------------------------------------------------------
(* The supply.                                                              *)

\* The invariant: a balance stays within uint256 because it is part of the
\* supply, whose addition is the only one that is checked.
CreditsInv == TypeOK /\ SupplyIsTheSum

\* The sum runs over the accounts.
LEMMA SupplySums ==
  ASSUME TypeOK
  PROVE  /\ SumFunction(balances) = SumFunctionOnSet(balances, Accounts)
         /\ \A a \in Accounts : balances[a] \in Nat
         /\ totalSupply \in Nat
BY CreditsConstants DEF TypeOK, SumFunction

\* No account holds more than there is.
LEMMA BalanceWithinSupply ==
  ASSUME CreditsInv, NEW a \in Accounts
  PROVE  balances[a] <= totalSupply
BY SupplySums, SummandAtMost, CreditsConstants DEF CreditsInv, SupplyIsTheSum

\* Changing one balance and the supply by the same amount keeps them matched.
LEMMA SupplyFollows ==
  ASSUME CreditsInv, NEW a \in Accounts, NEW balance \in 0 .. MaxUint,
         balances' = [balances EXCEPT ![a] = balance],
         totalSupply' = totalSupply - balances[a] + balance,
         totalSupply' <= MaxUint, UNCHANGED holders
  PROVE  CreditsInv'
<1>1. /\ \A b \in Accounts : balances[b] \in Int /\ balances'[b] \in Int
      /\ balances' \in [Accounts -> 0 .. MaxUint]
  BY CreditsConstants DEF CreditsInv, TypeOK
<1>2. balances'[a] = balance /\ \A b \in Accounts \ {a} : balances'[b] = balances[b]
  BY DEF CreditsInv, TypeOK
<1>3. SumFunctionOnSet(balances', Accounts)
        = SumFunctionOnSet(balances, Accounts) - balances[a] + balances'[a]
  <2> DEFINE next == balances'
  <2>1. /\ \A b \in Accounts : balances[b] \in Int
        /\ next[a] \in Int /\ \A b \in Accounts \ {a} : next[b] = balances[b]
    BY <1>1, <1>2
  <2> HIDE DEF next
  <2>2. IsFiniteSet(Accounts)
    BY CreditsConstants
  <2>3. SumFunctionOnSet(next, Accounts)
          = SumFunctionOnSet(balances, Accounts) - balances[a] + next[a]
    BY <2>1, <2>2, SumAfterChange
  <2>4. QED
    BY <2>3 DEF next
<1>4. totalSupply = SumFunctionOnSet(balances, Accounts)
  BY SupplySums DEF CreditsInv, SupplyIsTheSum
<1>5. totalSupply' = SumFunctionOnSet(balances', Accounts)
  BY <1>2, <1>3, <1>4
<1>6. SumFunction(balances') = SumFunctionOnSet(balances', Accounts)
  BY <1>1 DEF SumFunction
<1>7. totalSupply' \in 0 .. MaxUint
  <2>1. balances[a] <= totalSupply
    BY BalanceWithinSupply
  <2>2. totalSupply \in Nat /\ balances[a] \in Nat /\ balance \in Nat /\ MaxUint \in Nat
    BY SupplySums, CreditsConstants DEF CreditsInv
  <2>3. QED
    BY <2>1, <2>2
<1>8. TypeOK'
  BY <1>1, <1>7 DEF CreditsInv, TypeOK
<1>9. QED
  BY <1>5, <1>6, <1>8 DEF CreditsInv, SupplyIsTheSum

\* The deployer gets the initial supply, everybody else nothing.
LEMMA CreditsInit == Init => CreditsInv
<1> SUFFICES ASSUME Init PROVE CreditsInv
  OBVIOUS
<1>1. TypeOK
  BY CreditsConstants DEF Init, TypeOK, Addresses
<1> DEFINE others == Accounts \ {InitialAdmin}
<1>2. IsFiniteSet(others) /\ InitialAdmin \in Accounts /\ IsFiniteSet(Accounts)
  BY CreditsConstants, FS_Subset
<1>3. balances[InitialAdmin] = totalSupply /\ \A a \in others : balances[a] = 0
  BY <1>2 DEF Init
<1>4. SumFunctionOnSet(balances, others) = 0
  BY <1>2, <1>3, SumNat
<1>5. SumFunctionOnSet(balances, Accounts)
        = balances[InitialAdmin] + SumFunctionOnSet(balances, others)
  BY <1>1, <1>2, SupplySums, SumWith
<1>6. totalSupply \in Nat
  BY <1>1, SupplySums
<1>7. QED
  BY <1>1, <1>3, <1>4, <1>5, <1>6, SupplySums DEF CreditsInv, SupplyIsTheSum

\* Every call keeps the invariant.
LEMMA CreditsStep == CreditsInv /\ [Next]_vars => CreditsInv'
<1> SUFFICES ASSUME CreditsInv, [Next]_vars PROVE CreditsInv'
  OBVIOUS
<1>1. CASE Mints
  <2>1. PICK to \in Accounts, amount \in Nat : Minted(to, amount)
    BY <1>1 DEF Mints
  <2>2. /\ balances[to] \in Nat /\ totalSupply \in Nat /\ MaxUint \in Nat
        /\ balances[to] <= totalSupply
    BY SupplySums, BalanceWithinSupply, CreditsConstants DEF CreditsInv
  <2>3. /\ totalSupply + amount <= MaxUint /\ totalSupply' = totalSupply + amount
        /\ balances' = [balances EXCEPT ![to] = balances[to] + amount]
    BY <2>1 DEF Minted
  <2>4. /\ balances[to] + amount \in 0 .. MaxUint /\ totalSupply' <= MaxUint
        /\ totalSupply' = totalSupply - balances[to] + (balances[to] + amount)
    BY <2>2, <2>3
  <2>5. QED
    BY <1>1, <2>3, <2>4, SupplyFollows DEF Mints
<1>2. CASE Burns
  <2>1. PICK from \in Accounts, amount \in Nat : Burned(from, amount)
    BY <1>2 DEF Burns
  <2>2. /\ balances[from] \in 0 .. MaxUint /\ totalSupply \in 0 .. MaxUint /\ MaxUint \in Nat
    BY CreditsConstants DEF CreditsInv, TypeOK
  <2>3. /\ balances[from] >= amount /\ totalSupply' = totalSupply - amount
        /\ balances' = [balances EXCEPT ![from] = balances[from] - amount]
    BY <2>1 DEF Burned
  <2>4. /\ balances[from] - amount \in 0 .. MaxUint /\ totalSupply' <= MaxUint
        /\ totalSupply' = totalSupply - balances[from] + (balances[from] - amount)
    BY <2>2, <2>3
  <2>5. QED
    BY <1>2, <2>3, <2>4, SupplyFollows DEF Burns
<1>3. CASE ChangesHolders
  <2>1. TypeOK'
    BY <1>3 DEF ChangesHolders, CreditsInv, TypeOK
  <2>2. QED
    BY <1>3, <2>1 DEF ChangesHolders, CreditsInv, SupplyIsTheSum
<1>4. CASE UNCHANGED vars
  BY <1>4 DEF vars, CreditsInv, TypeOK, SupplyIsTheSum
<1>5. QED
  BY <1>1, <1>2, <1>3, <1>4, CallKinds

\* Balances and the supply are uint256 values at all times: no addition to a
\* balance overflows, although none is checked.
THEOREM CreditsTypeCorrect == Spec => []TypeOK
<1>1. CreditsInv => TypeOK
  BY DEF CreditsInv
<1>2. QED
  BY <1>1, CreditsInit, CreditsStep, PTL DEF Spec

\* The supply is the sum of the balances.
THEOREM SupplyStaysTheSum == Spec => []SupplyIsTheSum
<1>1. CreditsInv => SupplyIsTheSum
  BY DEF CreditsInv
<1>2. QED
  BY <1>1, CreditsInit, CreditsStep, PTL DEF Spec
=============================================================================
