-------------------------------- MODULE Escrow --------------------------------
(***************************************************************************)
(* What the TaskRegistry does with money, seen without proposals, agents   *)
(* or ratings: a deal takes an amount of one asset from its owner, and is  *)
(* settled once, when the owner gets exactly that amount back or nothing.  *)
(* No deal is ever settled with another deal's money or in another asset.  *)
(***************************************************************************)
EXTENDS Naturals

CONSTANTS
  Deals,   \* deal ids: an initial segment of the positive naturals
  Parties, \* who may own a deal
  Keeper,  \* who keeps the money of open deals
  Assets,  \* what deals are paid in; asset names outside it carry no money
  NoParty

VARIABLES
  deals,   \* id -> the deal
  funds    \* asset -> party or keeper -> amount

escrowVars == <<deals, funds>>

NoDeal == [phase |-> "none", owner |-> NoParty, asset |-> NoParty, amount |-> 0]

Init ==
  /\ deals = [d \in Deals |-> NoDeal]
  /\ \A asset \in Assets : funds[asset][Keeper] = 0

Pay(asset, from, to, amount) ==
  IF asset \in Assets
  THEN LET account == funds[asset]
       IN /\ account[from] >= amount
          /\ funds' = [funds EXCEPT ![asset] =
                         [account EXCEPT ![from] = @ - amount, ![to] = @ + amount]]
  ELSE UNCHANGED funds

Open(d) ==
  /\ deals[d].phase = "none"
  /\ deals'[d].phase = "held"
  /\ deals'[d].owner \in Parties
  /\ deals' = [deals EXCEPT ![d] = deals'[d]]
  /\ Pay(deals'[d].asset, deals'[d].owner, Keeper, deals'[d].amount)

Settle(d) ==
  /\ deals[d].phase = "held"
  /\ deals' = [deals EXCEPT ![d].phase = "settled"]
  /\ \/ Pay(deals[d].asset, Keeper, deals[d].owner, deals[d].amount)
     \/ UNCHANGED funds

Next == \E d \in Deals : Open(d) \/ Settle(d)

Spec == Init /\ [][Next]_escrowVars
=============================================================================
