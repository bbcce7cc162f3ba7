---------------------------- MODULE MCStakedToken ----------------------------
(***************************************************************************)
(* The staked token and the history of its cooldowns on a small instance.  *)
(***************************************************************************)
EXTENDS CooldownHistory, TLC

\* The users differ only in name.
UserSymmetry == Permutations(Users)

=============================================================================
