----------------------------- MODULE VoteRegister -----------------------------
(***************************************************************************)
(* What the delegation of governance power promises to those who count     *)
(* votes, without snapshots, hooks and searches.  Voters own tokens and    *)
(* may appoint a representative for each type of power.  The register says *)
(* how much power everybody had at the end of every block: a token counts  *)
(* once, for the representative its owner had then.  Only the entries of   *)
(* the block that has not ended can change.                                *)
(***************************************************************************)
EXTENDS LedgerTotal

CONSTANTS Voters, Types, Nobody     \* Nobody: no representative was appointed

VARIABLES block, tokens, representative, register

registerVars == <<block, tokens, representative, register>>

SpeaksFor(t, d, v) ==
    d = IF representative[t][v] = Nobody THEN v ELSE representative[t][v]

\* The tokens for which d speaks.
Count(t, d) == Total([v \in Voters |-> IF SpeaksFor(t, d, v) THEN tokens[v] ELSE 0])

RegisterInit ==
    /\ block \in Nat
    /\ tokens = [v \in Voters |-> 0]
    /\ representative = [t \in Types |-> [v \in Voters |-> Nobody]]
    /\ register = [t \in Types |-> [d \in Voters |-> [b \in 0 .. block |-> 0]]]

Recount ==
    /\ register' = [t \in Types |-> [d \in Voters |->
                        [register[t][d] EXCEPT ![block] = Count(t, d)']]]
    /\ UNCHANGED block

\* Tokens are made, destroyed and moved by rules of their own.
Move ==
    /\ tokens' \in [Voters -> Nat]
    /\ UNCHANGED representative
    /\ Recount

Appoint(v, d, types) ==
    /\ representative' = [t \in Types |->
            IF t \in types THEN [representative[t] EXCEPT ![v] = d]
                           ELSE representative[t]]
    /\ UNCHANGED tokens
    /\ Recount

\* The block ends; the next one begins with the powers it leaves.
NewBlock ==
    /\ block' = block + 1
    /\ register' = [t \in Types |-> [d \in Voters |->
            [b \in 0 .. block + 1 |->
                register[t][d][IF b = block + 1 THEN block ELSE b]]]]
    /\ UNCHANGED <<tokens, representative>>

RegisterNext ==
    \/ Move
    \/ \E v, d \in Voters, types \in SUBSET Types : Appoint(v, d, types)
    \/ NewBlock

RegisterSpec == RegisterInit /\ [][RegisterNext]_registerVars

=============================================================================
