---------------------------- MODULE SignedHistory ----------------------------
(***************************************************************************)
(* The signed operations together with what an observer counts:            *)
(*   used                   the signatures that took effect, in order      *)
(*   granted[t][o][s]       all that o ever let s spend of token t         *)
(*   spent[t][o][s]         what s has spent of it                         *)
(*   signed[u]              the PSYS that the helper staked with a permit  *)
(*                          u signed                                       *)
(*   moved[t][u]            what all other operations gave u of token t,   *)
(*                          or took from him                               *)
(*   standing               the permits to the staked token that somebody  *)
(*                          submitted on their own, whose owner has not    *)
(*                          changed or used the allowance since            *)
(***************************************************************************)
EXTENDS SignedOperations, Sequences

CONSTANT MaxGranted     \* bound on what an owner grants a spender

VARIABLES used, granted, spent, signed, moved, standing

historyVars == <<now, nonces, allowances, balances, delegates,
                 used, granted, spent, signed, moved, standing>>

HistoryInit ==
    /\ SignedInit
    /\ used = <<>>
    /\ granted = [t \in Tokens |-> [o \in Users |-> [s \in Accounts |-> 0]]]
    /\ spent = granted
    /\ signed = [u \in Users |-> 0]
    /\ moved = [t \in Tokens |-> [u \in Users |-> 0]]
    /\ standing = {}

TokenOf(signature) == signature.typedData.domain.verifyingContract
Nonce(signature)   == signature.typedData.message.nonce

Use(signature) == used' = Append(used, signature)

Grant(t, o, s, n) ==
    /\ granted[t][o][s] + n <= MaxGranted
    /\ granted' = [granted EXCEPT ![t][o][s] = @ + n]

Spend(t, o, s, n) == spent' = [spent EXCEPT ![t][o][s] = @ + n]

\* One user gives n of token t1, one is given n of token t2.
Move(t1, from, t2, to, n) ==
    LET given == [moved EXCEPT ![t1][from] = @ - n]
    IN  moved' = [given EXCEPT ![t2][to] = @ + n]

\* The permits that stand when the allowance of owner changes.
StandingWithout(owner) == {signature \in standing : signature.signer # owner}

ToStakedToken(signature) ==
    /\ signature.typedData.primaryType = "Permit"
    /\ TokenOf(signature) = "PSYS"
    /\ signature.typedData.message.spender = "stkPSYS"

Deadlines == {0, MaxDeadline}

-----------------------------------------------------------------------------
\* Whoever submits a signature passes on what the message says.
PermitStep(signature) ==
    /\ signature.typedData.primaryType = "Permit"
    /\ LET m == signature.typedData.message IN
       \E t \in Tokens :
            /\ permit(t, m.owner, m.spender, m.value, m.deadline, signature)
            /\ Grant(t, m.owner, m.spender, m.value)
    /\ standing' = IF ToStakedToken(signature)
                   THEN StandingWithout(signature.signer) \cup {signature}
                   ELSE standing
    /\ Use(signature) /\ UNCHANGED <<spent, signed, moved>>

DelegateByTypeStep(signature) ==
    /\ signature.typedData.primaryType = "DelegateByType"
    /\ LET m == signature.typedData.message IN
       delegateByTypeBySig(m.delegatee, m.type, m.nonce, m.expiry, signature)
    /\ Use(signature) /\ UNCHANGED <<granted, spent, signed, moved, standing>>

DelegateStep(signature) ==
    /\ signature.typedData.primaryType = "Delegate"
    /\ LET m == signature.typedData.message IN
       delegateBySig(m.delegatee, m.nonce, m.expiry, signature)
    /\ Use(signature) /\ UNCHANGED <<granted, spent, signed, moved, standing>>

ApproveStep(t, o, s) ==
    /\ \/ \E n \in Amounts \cup {0} : approve(t, o, s, n) /\ Grant(t, o, s, n)
       \/ \E n \in Amounts : increaseAllowance(t, o, s, n) /\ Grant(t, o, s, n)
       \/ \E n \in Amounts : decreaseAllowance(t, o, s, n) /\ UNCHANGED granted
    /\ standing' = IF t = "PSYS" /\ s = "stkPSYS" THEN StandingWithout(o) ELSE standing
    /\ UNCHANGED <<used, spent, signed, moved>>

\* Users spend their allowances; the recipients are users, too.
TransferFromStep(t, o, s) ==
    /\ \E recipient \in Users, n \in Amounts :
            /\ transferFrom(t, s, o, recipient, n)
            /\ Spend(t, o, s, n)
            /\ Move(t, o, t, recipient, n)
    /\ UNCHANGED <<used, granted, signed, standing>>

HelperStakeStep(user, signature) ==
    /\ \E n \in Amounts :
            /\ HelperStake(user, n, signature)
            /\ Grant("PSYS", user, "helper", n)
            /\ Spend("PSYS", user, "helper", n)
    /\ signed' = [signed EXCEPT ![signature.signer] =
                    @ + signature.typedData.message.value]
    /\ Use(signature) /\ UNCHANGED <<moved, standing>>

StakeWithPermitStep(user, signature) ==
    /\ \E n \in Amounts, deadline \in Deadlines :
            /\ stakeWithPermit(user, n, deadline, signature)
            /\ Spend("PSYS", user, "stkPSYS", n)
            /\ Move("PSYS", user, "stkPSYS", user, n)
            /\ IF MayPermit("PSYS", user, "stkPSYS", n, deadline, signature)
               THEN Use(signature) /\ Grant("PSYS", user, "stkPSYS", n)
               ELSE UNCHANGED <<used, granted>>
    /\ standing' = StandingWithout(user)
    /\ UNCHANGED signed

StakeStep(payer) ==
    /\ \E onBehalfOf \in Users, n \in Amounts :
            /\ stake(payer, onBehalfOf, n)
            /\ Spend("PSYS", payer, "stkPSYS", n)
            /\ Move("PSYS", payer, "stkPSYS", onBehalfOf, n)
    /\ standing' = StandingWithout(payer)
    /\ UNCHANGED <<used, granted, signed>>

HistoryNext ==
    \/ \E signature \in Signatures :
            \/ PermitStep(signature)
            \/ DelegateByTypeStep(signature)
            \/ DelegateStep(signature)
            \/ \E user \in Users : \/ HelperStakeStep(user, signature)
                                   \/ StakeWithPermitStep(user, signature)
    \/ \E approval \in Approvals :
            ApproveStep(approval[1], approval[2], approval[3])
    \/ \E t \in Tokens, o, s \in Users : TransferFromStep(t, o, s)
    \/ \E payer \in Users : StakeStep(payer)
    \/ Tick /\ UNCHANGED <<used, granted, spent, signed, moved, standing>>

HistorySpec == HistoryInit /\ [][HistoryNext]_historyVars

-----------------------------------------------------------------------------
(***************************************************************************)
(* A signature takes effect at most once, and those of one signer for one  *)
(* token in the order of their nonces, whoever submits them, through       *)
(* whichever function, and also when a transaction around one reverts or   *)
(* ignores its failure: permits and delegations share the nonces.          *)
(* (_nonces in permit, delegateByTypeBySig, delegateBySig)                 *)
(***************************************************************************)
SignaturesOnceInOrder ==
    \A i, j \in DOMAIN used :
        /\ i < j
        /\ used[i].signer = used[j].signer
        /\ TokenOf(used[i]) = TokenOf(used[j])
        => Nonce(used[i]) < Nonce(used[j])

(***************************************************************************)
(* No spender ever takes more from an owner than the owner granted him in  *)
(* all, by approvals and by signed permits; a stake whose permit failed    *)
(* takes only from what was granted before.  (transferFrom,                *)
(* PegasysStakingHelper.stake, stakeWithPermit)                            *)
(***************************************************************************)
SpentWithinGrants ==
    \A t \in Tokens, o \in Users, s \in Accounts : spent[t][o][s] <= granted[t][o][s]

\* The helper keeps neither PSYS nor staked tokens, and every staked token has
\* its PSYS.
HelperKeepsNothing ==
    /\ \A t \in Tokens : balances[t]["helper"] = 0
    /\ Total(balances["stkPSYS"]) = balances["PSYS"]["stkPSYS"]

(***************************************************************************)
(* The PSYS that passes through the staking helper comes from the user     *)
(* whose signature was submitted and is staked for him, whoever sends the  *)
(* transaction: apart from what the other operations moved, each user has  *)
(* lost the PSYS his permits to the helper were used for and owns as many  *)
(* staked tokens, and the helper keeps nothing.                            *)
(* (PegasysStakingHelper.stake, _stake)                                    *)
(***************************************************************************)
HelperStakesForSigner ==
    /\ HelperKeepsNothing
    /\ \A u \in Users :
        /\ balances["PSYS"][u] = Endowment + moved["PSYS"][u] - signed[u]
        /\ balances["stkPSYS"][u] = moved["stkPSYS"][u] + signed[u]

(***************************************************************************)
(* A permit that somebody else has submitted before its owner costs him    *)
(* nothing: as long as he has neither changed nor used the allowance, and  *)
(* owns the PSYS, stakeWithPermit with that permit does not revert, also   *)
(* after its deadline, stakes what he signed for, leaves no allowance and  *)
(* takes no further nonce.  (try and catch in stakeWithPermit)             *)
(***************************************************************************)
SubmittedPermitStillStakes ==
    \A signature \in standing :
        LET m         == signature.typedData.message
            permitted == MayPermit("PSYS", m.owner, "stkPSYS", m.value, m.deadline,
                                   signature)
            after     == StakedWithPermit(permitted, m.owner, m.value)
        IN  m.value # 0 /\ m.value <= balances["PSYS"][m.owner]
            => /\ CanStakeWithPermit(permitted, m.owner, m.value)
               /\ after.nonces = nonces
               /\ after.allowances["PSYS"][m.owner]["stkPSYS"] = 0
               /\ after.balances["PSYS"][m.owner] = balances["PSYS"][m.owner] - m.value
               /\ after.balances["stkPSYS"][m.owner]
                    = balances["stkPSYS"][m.owner] + m.value

=============================================================================
