-------------------------- MODULE MCSignedOperations --------------------------
(* The signed operations on a small instance: what ann has signed, with      *)
(* nonces taken twice, out of order, for another chain and to expire.        *)
EXTENDS SignedHistory

SignedForPSYS(spender, nonce, deadline, value) ==
    getSignatureFromTypedData("ann",
        PermitParams(DOMAIN_SEPARATOR("PSYS"), "ann", spender, nonce, deadline, value))

MCSignatures ==
    {SignedForPSYS("helper", 0, MaxDeadline, 1),
     SignedForPSYS("stkPSYS", 0, 0, 2),
     SignedForPSYS("stkPSYS", 1, MaxDeadline, 1)}
    \cup
    {getSignatureFromTypedData("ann", data) : data \in
        {buildPermitParams(1, "stkPSYS", "ann", "bob", 0, MaxDeadline, 1),
         buildPermitParams(2, "stkPSYS", "ann", "bob", 1, MaxDeadline, 2),
         buildDelegateByTypeParams(1, "stkPSYS", "bob", "VOTING_POWER", 1, MaxDeadline),
         buildDelegateParams(1, "stkPSYS", "bob", 0, 0)}}

MCApprovals == {<<"PSYS", "ann", "stkPSYS">>, <<"stkPSYS", "ann", "bob">>}

=============================================================================
