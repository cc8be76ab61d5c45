----------------------------- MODULE MCPromoCodes -----------------------------
(***************************************************************************)
(* A finite instance of PromoCodes.                                        *)
(***************************************************************************)
EXTENDS PromoCodes, TLC

\* One fixed discount for one order, above the price of the first basket; one
\* that expires and is rounded above the price of that basket; one by half,
\* which falls between cents; one without a limit that is switched off and on.
MCTerms ==
  {[type |-> "fixed", amount |-> 80, maxUses |-> 1, expiresAt |-> Null, active |-> TRUE],
   [type |-> "percent", amount |-> 10000, maxUses |-> 2, expiresAt |-> 0, active |-> TRUE],
   [type |-> "percent", amount |-> 5000, maxUses |-> 2, expiresAt |-> Null, active |-> TRUE]}
  \cup {[type |-> "free_delivery", amount |-> 0, maxUses |-> 0, expiresAt |-> Null,
         active |-> active] : active \in BOOLEAN}

\* 6.6 cents, stored as 7, and 8.3, stored as 8.
MCBaskets == {[items |-> 26, distance |-> 0], [items |-> 3, distance |-> 9]}

Symmetry == Permutations(Sessions)
==============================================================================
