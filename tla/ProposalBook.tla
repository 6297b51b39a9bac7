----------------------------- MODULE ProposalBook -----------------------------
(***************************************************************************)
(* What the AgentsRegistry promises to everyone who holds a proposal id:   *)
(* ids are handed out in order, the terms behind an id never change while  *)
(* it is listed, and a withdrawn id never lists anything again.  A task    *)
(* keeps only the id and reads the terms back when it is settled, so the   *)
(* escrow of the TaskRegistry rests on this promise.                       *)
(***************************************************************************)
EXTENDS Naturals

CONSTANTS
  Ids,    \* the ids there are: an initial segment of the positive naturals
  Terms,  \* what a listing may say
  NoTerms \* what a reader finds behind an id without a listing

VARIABLES
  book,   \* id -> its entry
  next    \* the id of the next listing

bookVars == <<book, next>>

Entry == [state : {"unused", "listed", "withdrawn"}, terms : Terms \cup {NoTerms}]

Init ==
  /\ book = [id \in Ids |-> [state |-> "unused", terms |-> NoTerms]]
  /\ next = 1

\* One transaction lists one proposal, or all those an agent brings along.
List ==
  /\ next' > next
  /\ book' \in [Ids -> Entry]
  /\ \A id \in Ids :
       IF next <= id /\ id < next'
       THEN book[id].state = "unused" /\ book'[id].state = "listed"
       ELSE book'[id] = book[id]

\* One transaction withdraws one proposal, or all those of an agent.
Withdraw ==
  /\ book' \in [Ids -> Entry]
  /\ \A id \in Ids :
       book'[id] # book[id] =>
         /\ book[id].state = "listed"
         /\ book'[id] = [state |-> "withdrawn", terms |-> NoTerms]
  /\ next' = next

Next == List \/ Withdraw

Spec == Init /\ [][Next]_bookVars
=============================================================================
