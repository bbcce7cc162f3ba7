--------------------------- MODULE SignedOperations ---------------------------
(***************************************************************************)
(* What a holder lets others do: allowances, and the operations that he    *)
(* signs and anybody submits, any number of times, in any order, late or   *)
(* never.  permit, delegateBySig and delegateByTypeBySig of StakedPSYSV3   *)
(* share one nonce per holder.  PegasysStakingHelper and, in revision 3,   *)
(* stakeWithPermit put a permit on PSYS and the stake in one transaction.  *)
(*                                                                         *)
(* The module keeps of the two tokens what these operations touch; the     *)
(* cooldowns and rewards of a stake are in StakedToken.tla, the power that *)
(* a delegation moves is in GovernancePowerDelegation.tla.                 *)
(*                                                                         *)
(* External: PSYS, an ERC20 with a permit that keeps nonces of its own.    *)
(***************************************************************************)
EXTENDS Integers, LedgerTotal

CONSTANTS
    Users,              \* the holders, and those who spend or submit
    Chain,              \* chainid()
    Signatures,         \* what has been signed, see getSignatureFromTypedData
    Approvals,          \* <<token, owner, spender>> that owners approve directly
    Amounts,
    Endowment,          \* PSYS of each user at the start
    MaxTime             \* bound on block.timestamp

Tokens == {"PSYS", "stkPSYS"}

\* The addresses: the contracts among them hold tokens and spend allowances.
Accounts == Users \cup {"stkPSYS", "helper"}

DelegationTypes == {"VOTING_POWER", "PROPOSITION_POWER"}

\* type(uint256).max, a deadline that never comes
MaxDeadline == MaxTime + 1

ASSUME SignedAssumption ==
    /\ IsFiniteSet(Users) /\ {"stkPSYS", "helper", "nobody"} \cap Users = {}
    /\ Approvals \subseteq Tokens \X Users \X Accounts
    /\ Amounts \subseteq Nat /\ Endowment \in Nat /\ MaxTime \in Nat

\* Users sign messages of the three kinds, of whatever content.
ASSUME SignatureAssumption ==
    \A signature \in Signatures :
        /\ signature.signer \in Users
        /\ LET data == signature.typedData IN
           \/ /\ data.primaryType = "Permit"
              /\ data.message \in [owner : Users, spender : Accounts, value : Nat,
                                   nonce : Nat, deadline : Nat]
           \/ /\ data.primaryType = "DelegateByType"
              /\ data.message \in [delegatee : Users, type : DelegationTypes,
                                   nonce : Nat, expiry : Nat]
           \/ /\ data.primaryType = "Delegate"
              /\ data.message \in [delegatee : Users, nonce : Nat, expiry : Nat]

VARIABLES
    now,                \* block.timestamp
    nonces,             \* nonces[token][owner]: _nonces
    allowances,         \* allowances[token][owner][spender]: _allowances
    balances,           \* balances[token][account]: _balances
    delegates           \* delegates[type][user]: whom user gave his power

signedVars == <<now, nonces, allowances, balances, delegates>>

SignedTypeOK ==
    /\ now \in 0 .. MaxTime
    /\ nonces \in [Tokens -> [Users -> Nat]]
    /\ allowances \in [Tokens -> [Users -> [Accounts -> Nat]]]
    /\ balances \in [Tokens -> [Accounts -> Nat]]
    /\ delegates \in [DelegationTypes -> [Users -> Users \cup {"nobody"}]]

SignedInit ==
    /\ now = 0
    /\ nonces = [t \in Tokens |-> [u \in Users |-> 0]]
    /\ allowances = [t \in Tokens |-> [o \in Users |-> [s \in Accounts |-> 0]]]
    /\ balances = [t \in Tokens |-> [a \in Accounts |->
                        IF t = "PSYS" /\ a \in Users THEN Endowment ELSE 0]]
    /\ delegates = [t \in DelegationTypes |-> [u \in Users |-> "nobody"]]

-----------------------------------------------------------------------------
(* What is signed. *)

Domain(name, chainId, token) ==
    [name |-> name, version |-> "1", chainId |-> chainId, verifyingContract |-> token]

\* DOMAIN_SEPARATOR, set by initialize() from the name revision 1 has stored.
DOMAIN_SEPARATOR(token) ==
    Domain(IF token = "PSYS" THEN "PSYS" ELSE "Staked PSYS", Chain, token)

PermitParams(domain, owner, spender, nonce, deadline, value) ==
    [primaryType |-> "Permit", domain |-> domain,
     message |-> [owner |-> owner, spender |-> spender, value |-> value,
                  nonce |-> nonce, deadline |-> deadline]]

DelegateByTypeParams(domain, delegatee, type, nonce, expiry) ==
    [primaryType |-> "DelegateByType", domain |-> domain,
     message |-> [delegatee |-> delegatee, type |-> type,
                  nonce |-> nonce, expiry |-> expiry]]

DelegateParams(domain, delegatee, nonce, expiry) ==
    [primaryType |-> "Delegate", domain |-> domain,
     message |-> [delegatee |-> delegatee, nonce |-> nonce, expiry |-> expiry]]

\* The typed data as a client builds it, for the staked token only.
buildPermitParams(chainId, psysToken, owner, spender, nonce, deadline, value) ==
    PermitParams(Domain("Staked PSYS", chainId, psysToken),
                 owner, spender, nonce, deadline, value)

buildDelegateByTypeParams(chainId, psysToken, delegatee, type, nonce, expiry) ==
    DelegateByTypeParams(Domain("Staked PSYS", chainId, psysToken),
                         delegatee, type, nonce, expiry)

buildDelegateParams(chainId, psysToken, delegatee, nonce, expiry) ==
    DelegateParams(Domain("Staked PSYS", chainId, psysToken), delegatee, nonce, expiry)

getSignatureFromTypedData(signer, typedData) ==
    [signer |-> signer, typedData |-> typedData]

\* For other data than the signed, address(0) or an address that owns nothing
\* comes out: "nobody".
ecrecover(typedData, signature) ==
    IF typedData = signature.typedData THEN signature.signer ELSE "nobody"

-----------------------------------------------------------------------------
(* permit *)

\* Mutant of MayPermit: the nonce is the signed one, not the owner's next.
MayPermitUnnumbered(token, owner, spender, value, deadline, signature) ==
    /\ owner # "nobody" /\ now <= deadline
    /\ \E nonce \in {signature.typedData.message.nonce} :
        ecrecover(PermitParams(DOMAIN_SEPARATOR(token), owner, spender,
                               nonce, deadline, value), signature) = owner

\* permit of token does not revert.
MayPermit(token, owner, spender, value, deadline, signature) ==
    /\ owner # "nobody" /\ now <= deadline
    /\ ecrecover(PermitParams(DOMAIN_SEPARATOR(token), owner, spender,
                              nonces[token][owner], deadline, value),
                 signature) = owner

NonceSpent(token, owner) == [nonces EXCEPT ![token][owner] = @ + 1]

permit(token, owner, spender, value, deadline, signature) ==
    /\ MayPermit(token, owner, spender, value, deadline, signature)
    /\ nonces' = NonceSpent(token, owner)
    /\ allowances' = [allowances EXCEPT ![token][owner][spender] = value]
    /\ UNCHANGED <<now, balances, delegates>>

-----------------------------------------------------------------------------
(* Delegation by signature. *)

\* What the two functions have in common; "types" are those they delegate.
DelegateSigned(signatory, nonce, expiry, delegatee, types) ==
    /\ signatory \in Users
    /\ nonce = nonces["stkPSYS"][signatory]
    /\ now <= expiry
    /\ nonces' = NonceSpent("stkPSYS", signatory)
    /\ delegates' = [t \in DelegationTypes |->
            IF t \in types THEN [delegates[t] EXCEPT ![signatory] = delegatee]
                           ELSE delegates[t]]
    /\ UNCHANGED <<now, allowances, balances>>

delegateByTypeBySig(delegatee, type, nonce, expiry, signature) ==
    LET data == DelegateByTypeParams(DOMAIN_SEPARATOR("stkPSYS"),
                                     delegatee, type, nonce, expiry)
    IN  DelegateSigned(ecrecover(data, signature), nonce, expiry, delegatee, {type})

delegateBySig(delegatee, nonce, expiry, signature) ==
    LET data == DelegateParams(DOMAIN_SEPARATOR("stkPSYS"), delegatee, nonce, expiry)
    IN  DelegateSigned(ecrecover(data, signature), nonce, expiry, delegatee,
                       DelegationTypes)

-----------------------------------------------------------------------------
(* Allowances. *)

SetAllowance(token, owner, spender, amount) ==
    /\ allowances' = [allowances EXCEPT ![token][owner][spender] = amount]
    /\ UNCHANGED <<now, nonces, balances, delegates>>

approve(token, owner, spender, amount) == SetAllowance(token, owner, spender, amount)

increaseAllowance(token, owner, spender, addedValue) ==
    SetAllowance(token, owner, spender, allowances[token][owner][spender] + addedValue)

decreaseAllowance(token, owner, spender, subtractedValue) ==
    /\ subtractedValue <= allowances[token][owner][spender]
    /\ SetAllowance(token, owner, spender,
                    allowances[token][owner][spender] - subtractedValue)

Sent(b, token, from, to, amount) ==
    LET debited == [b EXCEPT ![token][from] = @ - amount]
    IN  [debited EXCEPT ![token][to] = @ + amount]

transferFrom(token, spender, owner, recipient, amount) ==
    /\ amount <= balances[token][owner]
    /\ amount <= allowances[token][owner][spender]
    /\ balances' = Sent(balances, token, owner, recipient, amount)
    /\ allowances' = [allowances EXCEPT ![token][owner][spender] = @ - amount]
    /\ UNCHANGED <<now, nonces, delegates>>

-----------------------------------------------------------------------------
(* Stakes.  The transaction reverts as a whole when one of its calls does, *)
(* but for the permit of stakeWithPermit.                                  *)

\* _stake: payer's PSYS for staked tokens of onBehalfOf.
Staked(b, payer, onBehalfOf, amount) ==
    [Sent(b, "PSYS", payer, "stkPSYS", amount) EXCEPT
        !["stkPSYS"][onBehalfOf] = @ + amount]

\* Mutant of HelperStake: the sender names the account that is credited.
HelperStakeForAnyone(user, amount, signature) ==
    /\ MayPermit("PSYS", user, "helper", amount, MaxDeadline, signature)
    /\ amount # 0 /\ amount <= balances["PSYS"][user]
    /\ nonces' = NonceSpent("PSYS", user)
    /\ allowances' = [allowances EXCEPT !["PSYS"][user]["helper"] = 0]
    /\ \E onBehalfOf \in Users :
        balances' = Staked(Sent(balances, "PSYS", user, "helper", amount),
                           "helper", onBehalfOf, amount)
    /\ UNCHANGED <<now, delegates>>

\* PegasysStakingHelper.stake, sent by anyone; the helper has approved the
\* staked token once and for all.
HelperStake(user, amount, signature) ==
    /\ MayPermit("PSYS", user, "helper", amount, MaxDeadline, signature)
    /\ amount # 0 /\ amount <= balances["PSYS"][user]
    /\ nonces' = NonceSpent("PSYS", user)
    /\ allowances' = [allowances EXCEPT !["PSYS"][user]["helper"] = 0]
    /\ balances' = Staked(Sent(balances, "PSYS", user, "helper", amount),
                          "helper", user, amount)
    /\ UNCHANGED <<now, delegates>>

\* Mutant of AllowanceForStake: as if the permit never failed.
AllowanceAssumed(permitted, user, amount) == amount

\* The allowance that _stake finds after the permit of stakeWithPermit.
AllowanceForStake(permitted, user, amount) ==
    IF permitted THEN amount ELSE allowances["PSYS"][user]["stkPSYS"]

\* Mutant of CanStakeWithPermit: a permit that fails is not ignored.
CanStakeOnlyPermitted(permitted, user, amount) ==
    permitted /\ amount # 0 /\ amount <= balances["PSYS"][user]

CanStakeWithPermit(permitted, user, amount) ==
    /\ amount # 0 /\ amount <= balances["PSYS"][user]
    /\ amount <= AllowanceForStake(permitted, user, amount)

\* What stakeWithPermit leaves, when it does not revert.
StakedWithPermit(permitted, user, amount) ==
    [nonces     |-> IF permitted THEN NonceSpent("PSYS", user) ELSE nonces,
     allowances |-> [allowances EXCEPT !["PSYS"][user]["stkPSYS"] =
                        AllowanceForStake(permitted, user, amount) - amount],
     balances   |-> Staked(balances, user, user, amount)]

\* stakeWithPermit of revision 3.
stakeWithPermit(user, amount, deadline, signature) ==
    LET permitted == MayPermit("PSYS", user, "stkPSYS", amount, deadline, signature)
        after     == StakedWithPermit(permitted, user, amount)
    IN  /\ CanStakeWithPermit(permitted, user, amount)
        /\ nonces' = after.nonces
        /\ allowances' = after.allowances
        /\ balances' = after.balances
        /\ UNCHANGED <<now, delegates>>

\* stake
stake(payer, onBehalfOf, amount) ==
    /\ amount # 0 /\ amount <= balances["PSYS"][payer]
    /\ amount <= allowances["PSYS"][payer]["stkPSYS"]
    /\ allowances' = [allowances EXCEPT !["PSYS"][payer]["stkPSYS"] = @ - amount]
    /\ balances' = Staked(balances, payer, onBehalfOf, amount)
    /\ UNCHANGED <<now, nonces, delegates>>

Tick ==
    /\ now < MaxTime
    /\ now' = now + 1
    /\ UNCHANGED <<nonces, allowances, balances, delegates>>

=============================================================================
