----------------------------- MODULE MCAccounts -----------------------------
(* An instance of Accounts for TLC. *)
EXTENDS Accounts, TLC

CONSTANTS e1, n1, p1, p2

\* Bodies with everything, with a name only, and with one column to change.
SomeDtos ==
  {[email |-> e1, name |-> n1, password |-> p1],
   [email |-> None, name |-> n1, password |-> None],
   [email |-> None, name |-> None, password |-> p2],
   [email |-> e1, name |-> None, password |-> None]}

\* Requests are interchangeable.  Only for runs of safety properties.
InterchangeableRequests == Permutations(Request)
=============================================================================
