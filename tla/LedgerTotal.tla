----------------------------- MODULE LedgerTotal -----------------------------
(***************************************************************************)
(* The sum of the values of a ledger, a function from a finite set to Nat: *)
(* the number of token units in it, a unit being a pair of its owner and   *)
(* its position in the owner's balance.  Counting a finite set, instead of *)
(* folding over the domain, keeps the sum within reach of the proofs.      *)
(***************************************************************************)
EXTENDS Integers, FiniteSets

Units(ledger) == UNION {{owner} \X (1 .. ledger[owner]) : owner \in DOMAIN ledger}

Total(ledger) == Cardinality(Units(ledger))

=============================================================================
