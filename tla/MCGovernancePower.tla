-------------------------- MODULE MCGovernancePower --------------------------
(* The delegation of governance power on a small instance. *)
EXTENDS GovernancePowerProperties, TLC

AccountSymmetry == Permutations(Accounts)

=============================================================================
