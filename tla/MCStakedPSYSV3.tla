---------------------------- MODULE MCStakedPSYSV3 ----------------------------
(* The whole token, deployed as revision 1 and upgraded, on a small instance. *)
EXTENDS StakedPSYSV3, TLC

UserSymmetry == Permutations(Users)

=============================================================================
