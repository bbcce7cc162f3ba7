----------------------- MODULE SignedOperationsTheorems -----------------------
(***************************************************************************)
(* What holds of the signed operations for any users, signatures, amounts  *)
(* and bounds.  The inductive invariant adds to the two properties what    *)
(* makes them last: a signature that took effect has a nonce below the     *)
(* next one of its signer, and what a spender may still take is part of    *)
(* what was granted and not spent yet.                                     *)
(***************************************************************************)
EXTENDS SignedHistory, ArithmeticLemmas

HistoryTypeOK ==
    /\ SignedTypeOK
    /\ used \in Seq(Signatures)
    /\ granted \in [Tokens -> [Users -> [Accounts -> Nat]]]
    /\ spent \in [Tokens -> [Users -> [Accounts -> Nat]]]

\* No nonce of a signature that took effect comes up again.
NoncesAhead ==
    \A i \in DOMAIN used :
        /\ TokenOf(used[i]) \in Tokens
        /\ Nonce(used[i]) < nonces[TokenOf(used[i])][used[i].signer]

\* What was spent and what may still be spent are both granted.
AllowancesGranted ==
    \A t \in Tokens, o \in Users, s \in Accounts :
        spent[t][o][s] + allowances[t][o][s] <= granted[t][o][s]

HistoryInv ==
    /\ HistoryTypeOK
    /\ NoncesAhead
    /\ SignaturesOnceInOrder
    /\ AllowancesGranted

-----------------------------------------------------------------------------
\* A permit that does not revert carries the owner's signature, for this token
\* and with the owner's next nonce.
LEMMA PermitIsSigned ==
    ASSUME NEW t \in Tokens, NEW o, NEW s, NEW v, NEW d, NEW signature \in Signatures,
           MayPermit(t, o, s, v, d, signature)
    PROVE  /\ o \in Users
           /\ signature.signer = o
           /\ TokenOf(signature) = t
           /\ Nonce(signature) = nonces[t][o]
PROOF
<1> DEFINE data == PermitParams(DOMAIN_SEPARATOR(t), o, s, nonces[t][o], d, v)
<1>1. data = signature.typedData /\ signature.signer = o
  BY DEF MayPermit, ecrecover
<1>2. signature.signer \in Users
  BY SignatureAssumption
<1>3. data.domain.verifyingContract = t /\ data.message.nonce = nonces[t][o]
  BY DEF PermitParams, DOMAIN_SEPARATOR, Domain
<1> QED  BY <1>1, <1>2, <1>3 DEF TokenOf, Nonce

\* The same of a delegation by signature.
LEMMA DelegationIsSigned ==
    ASSUME NEW signature \in Signatures, NEW data, NEW expiry, NEW delegatee, NEW types,
           DelegateSigned(ecrecover(data, signature), data.message.nonce, expiry,
                          delegatee, types),
           data.domain.verifyingContract = "stkPSYS"
    PROVE  /\ signature.signer \in Users
           /\ TokenOf(signature) = "stkPSYS"
           /\ Nonce(signature) = nonces["stkPSYS"][signature.signer]
           /\ nonces' = NonceSpent("stkPSYS", signature.signer)
           /\ data = signature.typedData
PROOF
<1>1. ecrecover(data, signature) \in Users
  BY DEF DelegateSigned
<1>2. "nobody" \notin Users
  BY SignedAssumption
<1>3. data = signature.typedData /\ ecrecover(data, signature) = signature.signer
  BY <1>1, <1>2 DEF ecrecover
<1> QED  BY <1>1, <1>3 DEF DelegateSigned, TokenOf, Nonce

\* A step uses one signature, and with it its nonce, or none.
UsesOne ==
    \/ used' = used /\ nonces' = nonces
    \/ \E signature \in Signatures :
        /\ used' = Append(used, signature)
        /\ signature.signer \in Users
        /\ TokenOf(signature) \in Tokens
        /\ Nonce(signature) = nonces[TokenOf(signature)][signature.signer]
        /\ nonces' = NonceSpent(TokenOf(signature), signature.signer)

\* Used once and in order: from the steps that use signatures.
LEMMA UsingKeepsOrder ==
    ASSUME HistoryTypeOK, NoncesAhead, SignaturesOnceInOrder, UsesOne
    PROVE  NoncesAhead' /\ SignaturesOnceInOrder'
PROOF
<1>1. CASE used' = used /\ nonces' = nonces
  BY <1>1 DEF NoncesAhead, SignaturesOnceInOrder
<1>2. ASSUME NEW signature \in Signatures,
             used' = Append(used, signature),
             signature.signer \in Users,
             TokenOf(signature) \in Tokens,
             Nonce(signature) = nonces[TokenOf(signature)][signature.signer],
             nonces' = NonceSpent(TokenOf(signature), signature.signer)
      PROVE  NoncesAhead' /\ SignaturesOnceInOrder'
  <2> DEFINE n == Len(used) + 1
  <2>1. used \in Seq(Signatures) /\ nonces \in [Tokens -> [Users -> Nat]]
    BY DEF HistoryTypeOK, SignedTypeOK
  <2>2. /\ Len(used) \in Nat
        /\ DOMAIN used = 1 .. Len(used)
        /\ DOMAIN used' = 1 .. n
        /\ \A i \in DOMAIN used : used'[i] = used[i] /\ used[i] \in Signatures
        /\ used'[n] = signature
    BY <1>2, <2>1
  <2>3. \A t \in Tokens, u \in Users :
            /\ nonces[t][u] \in Nat
            /\ nonces[t][u] <= nonces'[t][u]
            /\ t = TokenOf(signature) /\ u = signature.signer
                    => nonces'[t][u] = nonces[t][u] + 1
    BY <1>2, <2>1 DEF NonceSpent
  <2>4. ASSUME NEW i \in DOMAIN used
        PROVE  /\ TokenOf(used[i]) \in Tokens
               /\ used[i].signer \in Users
               /\ Nonce(used[i]) \in Int
               /\ Nonce(used[i]) < nonces[TokenOf(used[i])][used[i].signer]
    <3>1. used[i] \in Signatures
      BY <2>2
    <3>2. Nonce(used[i]) \in Int
      BY <3>1, SignatureAssumption DEF Nonce
    <3> QED  BY <3>1, <3>2, SignatureAssumption DEF NoncesAhead
  <2>5. NoncesAhead'
    <3>1. ASSUME NEW i \in DOMAIN used'
          PROVE  /\ TokenOf(used'[i]) \in Tokens
                 /\ Nonce(used'[i]) < nonces'[TokenOf(used'[i])][used'[i].signer]
      <4>1. CASE i = n
        BY <4>1, <1>2, <2>2, <2>3
      <4>2. CASE i # n
        <5>1. i \in DOMAIN used /\ used'[i] = used[i]
          BY <4>2, <2>2
        <5> DEFINE t == TokenOf(used[i])
                   u == used[i].signer
        <5>2. t \in Tokens /\ u \in Users /\ Nonce(used[i]) \in Int
                    /\ Nonce(used[i]) < nonces[t][u]
          BY <5>1, <2>4
        <5>3. nonces[t][u] \in Nat /\ nonces'[t][u] \in Nat
                    /\ nonces[t][u] <= nonces'[t][u]
          BY <5>2, <1>2, <2>1, <2>3 DEF NonceSpent
        <5> HIDE DEF t, u
        <5>4. t \in Tokens /\ Nonce(used[i]) < nonces'[t][u]
          BY <5>2, <5>3
        <5> QED  BY <5>1, <5>4 DEF t, u
      <4> QED  BY <4>1, <4>2
    <3> QED  BY <3>1 DEF NoncesAhead, TokenOf, Nonce
  <2>6. SignaturesOnceInOrder'
    <3>1. ASSUME NEW i \in DOMAIN used', NEW j \in DOMAIN used', i < j,
                 used'[i].signer = used'[j].signer,
                 TokenOf(used'[i]) = TokenOf(used'[j])
          PROVE  Nonce(used'[i]) < Nonce(used'[j])
      <4>1. i \in DOMAIN used /\ used'[i] = used[i]
        BY <3>1, <2>2
      <4>2. CASE j = n
        BY <4>1, <4>2, <3>1, <1>2, <2>2, <2>4
      <4>3. CASE j # n
        BY <4>1, <4>3, <3>1, <2>2 DEF SignaturesOnceInOrder
      <4> QED  BY <4>2, <4>3
    <3> QED  BY <3>1 DEF SignaturesOnceInOrder, TokenOf, Nonce
  <2> QED  BY <2>5, <2>6
<1> QED  BY <1>1, <1>2 DEF UsesOne

-----------------------------------------------------------------------------
Ledgers == [Tokens -> [Accounts -> Nat]]

\* A transfer that is covered keeps the balances natural numbers.
LEMMA SentIsLedger ==
    ASSUME NEW b \in Ledgers, NEW t \in Tokens, NEW from \in Accounts,
           NEW to \in Accounts, NEW n \in Nat, n <= b[t][from]
    PROVE  /\ Sent(b, t, from, to, n) \in Ledgers
           /\ from # to => n <= Sent(b, t, from, to, n)[t][to]
PROOF
<1> DEFINE debited == [b EXCEPT ![t][from] = @ - n]
<1>1. debited \in Ledgers /\ (from # to => debited[t][to] = b[t][to])
  BY DEF Ledgers
<1>2. debited[t][to] \in Nat
  BY <1>1 DEF Ledgers
<1>3. Sent(b, t, from, to, n) = [debited EXCEPT ![t][to] = @ + n]
  BY DEF Sent
<1>4. b[t][to] \in Nat
  BY DEF Ledgers
<1> HIDE DEF debited
<1> QED  BY <1>1, <1>2, <1>3, <1>4 DEF Ledgers

\* So does a stake of what the payer has.
LEMMA StakedIsLedger ==
    ASSUME NEW b \in Ledgers, NEW payer \in Accounts, NEW user \in Accounts,
           NEW n \in Nat, n <= b["PSYS"][payer]
    PROVE  Staked(b, payer, user, n) \in Ledgers
PROOF
<1> DEFINE paid == Sent(b, "PSYS", payer, "stkPSYS", n)
<1>1. paid \in Ledgers
  BY SentIsLedger DEF Tokens, Accounts
<1>2. Staked(b, payer, user, n) = [paid EXCEPT !["stkPSYS"][user] = @ + n]
  BY DEF Staked
<1> HIDE DEF paid
<1> QED  BY <1>1, <1>2 DEF Ledgers, Tokens

Grants == [Tokens -> [Users -> [Accounts -> Nat]]]

\* f2 differs from f in what owner o grants spender s of token t: it is v.
Changed(f, f2, t, o, s, v) ==
    /\ f2 \in Grants
    /\ f2[t][o][s] = v
    /\ \A t2 \in Tokens, o2 \in Users, s2 \in Accounts :
            ~(t2 = t /\ o2 = o /\ s2 = s) => f2[t2][o2][s2] = f[t2][o2][s2]

LEMMA ExceptChanges ==
    ASSUME NEW f \in Grants, NEW t \in Tokens, NEW o \in Users, NEW s \in Accounts,
           NEW v \in Nat, NEW f2, f2 = [f EXCEPT ![t][o][s] = v]
    PROVE  Changed(f, f2, t, o, s, v)
PROOF
<1>1. f2 \in Grants
  BY DEF Grants
<1>2. f2[t][o][s] = v
  BY DEF Grants
<1>3. ASSUME NEW t2 \in Tokens, NEW o2 \in Users, NEW s2 \in Accounts,
             ~(t2 = t /\ o2 = o /\ s2 = s)
      PROVE  f2[t2][o2][s2] = f[t2][o2][s2]
  <2>1. CASE t2 # t
    BY <2>1 DEF Grants
  <2>2. CASE t2 = t /\ o2 # o
    BY <2>2 DEF Grants
  <2>3. CASE t2 = t /\ o2 = o /\ s2 # s
    BY <2>3 DEF Grants
  <2> QED  BY <1>3, <2>1, <2>2, <2>3
<1> QED  BY <1>1, <1>2, <1>3 DEF Changed

\* An allowance that loses what is spent, and gains no more than is granted,
\* stays within the grants.
LEMMA AllowanceWithinGrants ==
    ASSUME HistoryTypeOK, AllowancesGranted,
           NEW t \in Tokens, NEW o \in Users, NEW s \in Accounts,
           NEW a \in Nat, NEW g \in Nat, NEW n \in Nat,
           n + a <= allowances[t][o][s] + g,
           Changed(allowances, allowances', t, o, s, a),
           Changed(granted, granted', t, o, s, granted[t][o][s] + g),
           Changed(spent, spent', t, o, s, spent[t][o][s] + n)
    PROVE  AllowancesGranted'
PROOF
<1>1. allowances \in Grants /\ granted \in Grants /\ spent \in Grants
  BY DEF HistoryTypeOK, SignedTypeOK, Grants
<1>2. ASSUME NEW t2 \in Tokens, NEW o2 \in Users, NEW s2 \in Accounts
      PROVE  spent'[t2][o2][s2] + allowances'[t2][o2][s2] <= granted'[t2][o2][s2]
  <2>1. /\ spent[t2][o2][s2] \in Nat /\ granted[t2][o2][s2] \in Nat
        /\ allowances[t2][o2][s2] \in Nat
    BY <1>1 DEF Grants
  <2>2. spent[t2][o2][s2] + allowances[t2][o2][s2] <= granted[t2][o2][s2]
    BY DEF AllowancesGranted
  <2>3. CASE t2 = t /\ o2 = o /\ s2 = s
    BY <2>1, <2>2, <2>3 DEF Changed
  <2>4. CASE ~(t2 = t /\ o2 = o /\ s2 = s)
    BY <2>2, <2>4 DEF Changed
  <2> QED  BY <2>3, <2>4
<1> QED  BY <1>2 DEF AllowancesGranted

\* What a step leaves alone, grants or spends.
LEMMA KeptIsChanged ==
    ASSUME NEW f \in Grants, NEW t \in Tokens, NEW o \in Users, NEW s \in Accounts
    PROVE  Changed(f, f, t, o, s, f[t][o][s] + 0)
PROOF
<1>1. f[t][o][s] \in Nat
  BY DEF Grants
<1> QED  BY <1>1 DEF Changed

LEMMA GrantChanges ==
    ASSUME HistoryTypeOK, NEW t \in Tokens, NEW o \in Users, NEW s \in Accounts,
           NEW n \in Nat, Grant(t, o, s, n)
    PROVE  Changed(granted, granted', t, o, s, granted[t][o][s] + n)
PROOF
<1>1. granted \in Grants /\ granted[t][o][s] + n \in Nat
  BY DEF HistoryTypeOK, Grants
<1>2. granted' = [granted EXCEPT ![t][o][s] = granted[t][o][s] + n]
  BY DEF Grant
<1> QED  BY <1>1, <1>2, ExceptChanges

LEMMA SpendChanges ==
    ASSUME HistoryTypeOK, NEW t \in Tokens, NEW o \in Users, NEW s \in Accounts,
           NEW n \in Nat, Spend(t, o, s, n)
    PROVE  Changed(spent, spent', t, o, s, spent[t][o][s] + n)
PROOF
<1>1. spent \in Grants /\ spent[t][o][s] + n \in Nat
  BY DEF HistoryTypeOK, Grants
<1>2. spent' = [spent EXCEPT ![t][o][s] = spent[t][o][s] + n]
  BY DEF Spend
<1> QED  BY <1>1, <1>2, ExceptChanges

\* Spending the next nonce of a signer.
LEMMA NonceSpentTyped ==
    ASSUME HistoryTypeOK, NEW t \in Tokens, NEW o \in Users
    PROVE  NonceSpent(t, o) \in [Tokens -> [Users -> Nat]]
BY DEF HistoryTypeOK, SignedTypeOK, NonceSpent

\* A message that is a permit is typed as one.
LEMMA PermitTyped ==
    ASSUME NEW signature \in Signatures,
           signature.typedData.primaryType = "Permit"
    PROVE  LET m == signature.typedData.message IN
           m.owner \in Users /\ m.spender \in Accounts /\ m.value \in Nat
BY SignatureAssumption

-----------------------------------------------------------------------------
DelegatesTyped == delegates \in [DelegationTypes -> [Users -> Users \cup {"nobody"}]]

\* What every step preserves, but for the order of the signatures.
Preserved == HistoryTypeOK /\ AllowancesGranted

\* The nonces and the signatures used stay typed.
LEMMA UsingTyped ==
    ASSUME HistoryTypeOK, UsesOne
    PROVE  used' \in Seq(Signatures) /\ nonces' \in [Tokens -> [Users -> Nat]]
PROOF
<1>1. used \in Seq(Signatures) /\ nonces \in [Tokens -> [Users -> Nat]]
  BY DEF HistoryTypeOK, SignedTypeOK
<1>2. CASE used' = used /\ nonces' = nonces
  BY <1>1, <1>2
<1>3. ASSUME NEW signature \in Signatures, used' = Append(used, signature),
             signature.signer \in Users, TokenOf(signature) \in Tokens,
             nonces' = NonceSpent(TokenOf(signature), signature.signer)
      PROVE  used' \in Seq(Signatures) /\ nonces' \in [Tokens -> [Users -> Nat]]
  BY <1>1, <1>3, NonceSpentTyped
<1> QED  BY <1>2, <1>3 DEF UsesOne

\* A step on the allowance of one spender preserves what it must, ...
LEMMA AllowanceStep ==
    ASSUME Preserved, UsesOne, now' = now, balances' \in Ledgers, delegates' = delegates,
           NEW t \in Tokens, NEW o \in Users, NEW s \in Accounts,
           NEW a \in Nat, NEW g \in Nat, NEW n \in Nat,
           n + a <= allowances[t][o][s] + g,
           allowances' = [allowances EXCEPT ![t][o][s] = a],
           Changed(granted, granted', t, o, s, granted[t][o][s] + g),
           Changed(spent, spent', t, o, s, spent[t][o][s] + n)
    PROVE  Preserved'
PROOF
<1>1. allowances \in Grants
  BY DEF Preserved, HistoryTypeOK, SignedTypeOK, Grants
<1>2. Changed(allowances, allowances', t, o, s, a)
  BY <1>1, ExceptChanges
<1>3. AllowancesGranted'
  BY <1>2, AllowanceWithinGrants DEF Preserved
<1>4. allowances' \in Grants /\ granted' \in Grants /\ spent' \in Grants
  BY <1>2 DEF Changed
<1>5. used' \in Seq(Signatures) /\ nonces' \in [Tokens -> [Users -> Nat]]
  BY UsingTyped DEF Preserved
<1> QED  BY <1>3, <1>4, <1>5
         DEF Preserved, HistoryTypeOK, SignedTypeOK, Grants, Ledgers

\* ... and so does one that leaves the allowances alone.
LEMMA OtherStep ==
    ASSUME Preserved, UsesOne, now' \in 0 .. MaxTime, DelegatesTyped',
           UNCHANGED <<allowances, balances, granted, spent>>
    PROVE  Preserved'
PROOF
<1>1. used' \in Seq(Signatures) /\ nonces' \in [Tokens -> [Users -> Nat]]
  BY UsingTyped DEF Preserved
<1>2. AllowancesGranted'
  BY DEF Preserved, AllowancesGranted
<1> QED  BY <1>1, <1>2 DEF Preserved, HistoryTypeOK, SignedTypeOK, DelegatesTyped

-----------------------------------------------------------------------------
(* The steps. *)

LEMMA PermitPreserves ==
    ASSUME Preserved, NEW signature \in Signatures, PermitStep(signature)
    PROVE  Preserved' /\ UsesOne
PROOF
<1> DEFINE m == signature.typedData.message
<1>1. PICK t \in Tokens :
            /\ permit(t, m.owner, m.spender, m.value, m.deadline, signature)
            /\ Grant(t, m.owner, m.spender, m.value)
  BY DEF PermitStep
<1>2. m.owner \in Users /\ m.spender \in Accounts /\ m.value \in Nat
  BY PermitTyped DEF PermitStep
<1>3. UsesOne
  <2>1. MayPermit(t, m.owner, m.spender, m.value, m.deadline, signature)
    BY <1>1 DEF permit
  <2>2. /\ signature.signer = m.owner /\ TokenOf(signature) = t
        /\ Nonce(signature) = nonces[t][m.owner]
    BY <2>1, PermitIsSigned
  <2>3. nonces' = NonceSpent(t, m.owner) /\ used' = Append(used, signature)
    BY <1>1 DEF permit, PermitStep, Use
  <2> QED  BY <1>2, <2>2, <2>3 DEF UsesOne
<1>4. /\ Changed(granted, granted', t, m.owner, m.spender,
                  granted[t][m.owner][m.spender] + m.value)
      /\ Changed(spent, spent', t, m.owner, m.spender,
                  spent[t][m.owner][m.spender] + 0)
  <2>1. spent' = spent /\ spent \in Grants
    BY DEF PermitStep, Preserved, HistoryTypeOK, Grants
  <2>2. Changed(spent, spent, t, m.owner, m.spender,
                spent[t][m.owner][m.spender] + 0)
    BY <1>2, <2>1, KeptIsChanged
  <2>3. HistoryTypeOK
    BY DEF Preserved
  <2>4. Changed(granted, granted', t, m.owner, m.spender,
                granted[t][m.owner][m.spender] + m.value)
    BY <1>1, <1>2, <2>3, GrantChanges
  <2> QED  BY <2>1, <2>2, <2>4
<1>5. /\ now' = now /\ delegates' = delegates /\ balances' \in Ledgers
      /\ allowances' = [allowances EXCEPT ![t][m.owner][m.spender] = m.value]
  BY <1>1 DEF permit, Preserved, HistoryTypeOK, SignedTypeOK, Ledgers
<1>6. 0 + m.value <= allowances[t][m.owner][m.spender] + m.value
  <2>1. allowances \in [Tokens -> [Users -> [Accounts -> Nat]]]
    BY DEF Preserved, HistoryTypeOK, SignedTypeOK
  <2>2. allowances[t][m.owner][m.spender] \in Nat /\ m.value \in Nat
    BY <1>2, <2>1
  <2> QED  BY <2>2
<1> HIDE DEF m
<1> QED  BY <1>2, <1>3, <1>4, <1>5, <1>6, AllowanceStep

\* Both delegations by signature.
LEMMA DelegationPreserves ==
    ASSUME Preserved, NEW signature \in Signatures, NEW data, NEW expiry,
           NEW delegatee \in Users, NEW types,
           DelegateSigned(ecrecover(data, signature), data.message.nonce, expiry,
                          delegatee, types),
           data.domain.verifyingContract = "stkPSYS",
           Use(signature), UNCHANGED <<granted, spent>>
    PROVE  Preserved' /\ UsesOne
PROOF
<1>1. /\ signature.signer \in Users
      /\ TokenOf(signature) = "stkPSYS"
      /\ Nonce(signature) = nonces["stkPSYS"][signature.signer]
      /\ nonces' = NonceSpent("stkPSYS", signature.signer)
      /\ data = signature.typedData
  BY DelegationIsSigned
<1>2. UsesOne
  BY <1>1 DEF UsesOne, Use, Tokens
<1>3. now' \in 0 .. MaxTime /\ UNCHANGED <<allowances, balances>>
  BY DEF DelegateSigned, Preserved, HistoryTypeOK, SignedTypeOK
<1>4. DelegatesTyped'
  <2> DEFINE signatory == ecrecover(data, signature)
  <2>1. delegates' = [t \in DelegationTypes |->
            IF t \in types THEN [delegates[t] EXCEPT ![signatory] = delegatee]
                           ELSE delegates[t]]
    BY DEF DelegateSigned
  <2>2. delegates \in [DelegationTypes -> [Users -> Users \cup {"nobody"}]]
    BY DEF Preserved, HistoryTypeOK, SignedTypeOK
  <2> HIDE DEF signatory
  <2> QED  BY <2>1, <2>2 DEF DelegatesTyped
<1> QED  BY <1>2, <1>3, <1>4, OtherStep

LEMMA DelegateByTypePreserves ==
    ASSUME Preserved, NEW signature \in Signatures, DelegateByTypeStep(signature)
    PROVE  Preserved' /\ UsesOne
PROOF
<1> DEFINE m    == signature.typedData.message
           data == DelegateByTypeParams(DOMAIN_SEPARATOR("stkPSYS"), m.delegatee,
                                        m.type, m.nonce, m.expiry)
<1>1. m.delegatee \in Users
  BY SignatureAssumption DEF DelegateByTypeStep
<1>2. data.message.nonce = m.nonce /\ data.domain.verifyingContract = "stkPSYS"
  BY DEF DelegateByTypeParams, DOMAIN_SEPARATOR, Domain
<1>3. DelegateSigned(ecrecover(data, signature), m.nonce, m.expiry, m.delegatee, {m.type})
  BY DEF DelegateByTypeStep, delegateByTypeBySig
<1>4. Use(signature) /\ UNCHANGED <<granted, spent>>
  BY DEF DelegateByTypeStep
<1> HIDE DEF m, data
<1> QED  BY <1>1, <1>2, <1>3, <1>4, DelegationPreserves

LEMMA DelegatePreserves ==
    ASSUME Preserved, NEW signature \in Signatures, DelegateStep(signature)
    PROVE  Preserved' /\ UsesOne
PROOF
<1> DEFINE m    == signature.typedData.message
           data == DelegateParams(DOMAIN_SEPARATOR("stkPSYS"), m.delegatee, m.nonce,
                                  m.expiry)
<1>1. m.delegatee \in Users
  BY SignatureAssumption DEF DelegateStep
<1>2. data.message.nonce = m.nonce /\ data.domain.verifyingContract = "stkPSYS"
  BY DEF DelegateParams, DOMAIN_SEPARATOR, Domain
<1>3. DelegateSigned(ecrecover(data, signature), m.nonce, m.expiry, m.delegatee,
                     DelegationTypes)
  BY DEF DelegateStep, delegateBySig
<1>4. Use(signature) /\ UNCHANGED <<granted, spent>>
  BY DEF DelegateStep
<1> HIDE DEF m, data
<1> QED  BY <1>1, <1>2, <1>3, <1>4, DelegationPreserves

\* Approvals use no signature and move no balance.
LEMMA ApprovePreserves ==
    ASSUME Preserved, NEW t \in Tokens, NEW o \in Users, NEW s \in Accounts,
           ApproveStep(t, o, s)
    PROVE  Preserved' /\ UsesOne
PROOF
<1>1. /\ HistoryTypeOK /\ spent \in Grants /\ granted \in Grants
      /\ allowances[t][o][s] \in Nat
  BY DEF Preserved, HistoryTypeOK, SignedTypeOK, Grants
<1>2. UsesOne
  BY DEF UsesOne, ApproveStep, approve, increaseAllowance, decreaseAllowance,
         SetAllowance
<1>3. Changed(spent, spent', t, o, s, spent[t][o][s] + 0)
  BY <1>1, KeptIsChanged DEF ApproveStep
<1>4. ASSUME NEW a, SetAllowance(t, o, s, a)
      PROVE  /\ now' = now /\ delegates' = delegates /\ balances' \in Ledgers
             /\ allowances' = [allowances EXCEPT ![t][o][s] = a]
  BY <1>1, <1>4 DEF SetAllowance, HistoryTypeOK, SignedTypeOK, Ledgers
<1>5. CASE \E n \in Amounts \cup {0} : approve(t, o, s, n) /\ Grant(t, o, s, n)
  <2>1. PICK n \in Amounts \cup {0} : approve(t, o, s, n) /\ Grant(t, o, s, n)
    BY <1>5
  <2>2. n \in Nat
    BY SignedAssumption
  <2>3. Changed(granted, granted', t, o, s, granted[t][o][s] + n)
    BY <1>1, <2>1, <2>2, GrantChanges
  <2>4. 0 + n <= allowances[t][o][s] + n
    BY <1>1, <2>2
  <2> QED  BY <1>2, <1>3, <1>4, <2>1, <2>2, <2>3, <2>4, AllowanceStep DEF approve
<1>6. CASE \E n \in Amounts : increaseAllowance(t, o, s, n) /\ Grant(t, o, s, n)
  <2>1. PICK n \in Amounts : increaseAllowance(t, o, s, n) /\ Grant(t, o, s, n)
    BY <1>6
  <2> DEFINE a == allowances[t][o][s] + n
  <2>2. n \in Nat /\ a \in Nat /\ 0 + a <= allowances[t][o][s] + n
    BY <1>1, SignedAssumption
  <2>3. Changed(granted, granted', t, o, s, granted[t][o][s] + n)
    BY <1>1, <2>1, <2>2, GrantChanges
  <2>4. SetAllowance(t, o, s, a)
    BY <2>1 DEF increaseAllowance
  <2> HIDE DEF a
  <2> QED  BY <1>2, <1>3, <1>4, <2>2, <2>3, <2>4, AllowanceStep
<1>7. CASE \E n \in Amounts : decreaseAllowance(t, o, s, n) /\ UNCHANGED granted
  <2>1. PICK n \in Amounts : decreaseAllowance(t, o, s, n) /\ UNCHANGED granted
    BY <1>7
  <2> DEFINE a == allowances[t][o][s] - n
  <2>2. a \in Nat /\ 0 + a <= allowances[t][o][s] + 0
    BY <1>1, <2>1, SignedAssumption DEF decreaseAllowance
  <2>3. Changed(granted, granted', t, o, s, granted[t][o][s] + 0)
    BY <1>1, <2>1, KeptIsChanged
  <2>4. SetAllowance(t, o, s, a)
    BY <2>1 DEF decreaseAllowance
  <2> HIDE DEF a
  <2> QED  BY <1>2, <1>3, <1>4, <2>2, <2>3, <2>4, AllowanceStep
<1> QED  BY <1>5, <1>6, <1>7 DEF ApproveStep

LEMMA TransferFromPreserves ==
    ASSUME Preserved, NEW t \in Tokens, NEW o \in Users, NEW s \in Users,
           TransferFromStep(t, o, s)
    PROVE  Preserved' /\ UsesOne
PROOF
<1>1. PICK to \in Users, n \in Amounts :
            transferFrom(t, s, o, to, n) /\ Spend(t, o, s, n)
  BY DEF TransferFromStep
<1>2. /\ HistoryTypeOK /\ granted \in Grants /\ balances \in Ledgers
      /\ allowances[t][o][s] \in Nat /\ n \in Nat
      /\ o \in Accounts /\ s \in Accounts /\ to \in Accounts
  <2>1. o \in Accounts /\ s \in Accounts /\ to \in Accounts /\ n \in Nat
    BY SignedAssumption DEF Accounts
  <2>2. /\ HistoryTypeOK /\ granted \in Grants /\ balances \in Ledgers
        /\ allowances \in Grants
    BY DEF Preserved, HistoryTypeOK, SignedTypeOK, Grants, Ledgers
  <2> QED  BY <2>1, <2>2 DEF Grants
<1> DEFINE a == allowances[t][o][s] - n
<1>3. a \in Nat /\ n + a <= allowances[t][o][s] + 0
  BY <1>1, <1>2 DEF transferFrom
<1>4. allowances' = [allowances EXCEPT ![t][o][s] = a]
  BY <1>1 DEF transferFrom
<1>5. n <= balances[t][o] /\ balances' = Sent(balances, t, o, to, n)
  BY <1>1 DEF transferFrom
<1>6. balances' \in Ledgers
  BY <1>2, <1>5, SentIsLedger
<1>7. Changed(spent, spent', t, o, s, spent[t][o][s] + n)
  BY <1>1, <1>2, SpendChanges
<1>8. Changed(granted, granted', t, o, s, granted[t][o][s] + 0)
  BY <1>2, KeptIsChanged DEF TransferFromStep
<1>9. UsesOne /\ now' = now /\ delegates' = delegates
  BY <1>1 DEF UsesOne, TransferFromStep, transferFrom
<1> HIDE DEF a
<1> QED  BY <1>2, <1>3, <1>4, <1>6, <1>7, <1>8, <1>9, AllowanceStep

LEMMA HelperStakePreserves ==
    ASSUME Preserved, NEW user \in Users, NEW signature \in Signatures,
           HelperStakeStep(user, signature)
    PROVE  Preserved' /\ UsesOne
PROOF
<1>1. PICK n \in Amounts :
            /\ HelperStake(user, n, signature)
            /\ Grant("PSYS", user, "helper", n)
            /\ Spend("PSYS", user, "helper", n)
  BY DEF HelperStakeStep
<1>2. /\ HistoryTypeOK /\ balances \in Ledgers /\ n \in Nat
      /\ user \in Accounts /\ "helper" \in Accounts /\ user # "helper"
      /\ "PSYS" \in Tokens
  <2>1. HistoryTypeOK /\ balances \in Ledgers
    BY DEF Preserved, HistoryTypeOK, SignedTypeOK, Ledgers
  <2> QED  BY <2>1, SignedAssumption DEF Accounts, Tokens
<1>3. allowances["PSYS"][user]["helper"] \in Nat
  BY <1>2 DEF HistoryTypeOK, SignedTypeOK
<1>4. balances' \in Ledgers
  <2> DEFINE pulled == Sent(balances, "PSYS", user, "helper", n)
  <2>1. n <= balances["PSYS"][user] /\ balances' = Staked(pulled, "helper", user, n)
    BY <1>1 DEF HelperStake
  <2>2. pulled \in Ledgers /\ n <= pulled["PSYS"]["helper"]
    BY <1>2, <2>1, SentIsLedger
  <2> HIDE DEF pulled
  <2> QED  BY <1>2, <2>1, <2>2, StakedIsLedger
<1>5. UsesOne
  <2>1. MayPermit("PSYS", user, "helper", n, MaxDeadline, signature)
    BY <1>1 DEF HelperStake
  <2>2. /\ signature.signer = user /\ TokenOf(signature) = "PSYS"
        /\ Nonce(signature) = nonces["PSYS"][user]
    BY <1>2, <2>1, PermitIsSigned
  <2>3. nonces' = NonceSpent("PSYS", user) /\ used' = Append(used, signature)
    BY <1>1 DEF HelperStake, HelperStakeStep, Use
  <2> QED  BY <1>2, <2>2, <2>3 DEF UsesOne
<1>6. Changed(granted, granted', "PSYS", user, "helper",
              granted["PSYS"][user]["helper"] + n)
  BY <1>1, <1>2, GrantChanges
<1>7. Changed(spent, spent', "PSYS", user, "helper",
              spent["PSYS"][user]["helper"] + n)
  BY <1>1, <1>2, SpendChanges
<1>8. /\ now' = now /\ delegates' = delegates
      /\ allowances' = [allowances EXCEPT !["PSYS"][user]["helper"] = 0]
  BY <1>1 DEF HelperStake
<1>9. 0 \in Nat /\ n + 0 <= allowances["PSYS"][user]["helper"] + n
  BY <1>2, <1>3
<1> QED  BY <1>2, <1>4, <1>5, <1>6, <1>7, <1>8, <1>9, AllowanceStep

\* The allowance that is left is what the permit, or else an earlier grant,
\* gave beyond the stake.
LEMMA StakeWithPermitPreserves ==
    ASSUME Preserved, NEW user \in Users, NEW signature \in Signatures,
           StakeWithPermitStep(user, signature)
    PROVE  Preserved' /\ UsesOne
PROOF
<1>1. PICK n \in Amounts, deadline \in Deadlines :
            /\ stakeWithPermit(user, n, deadline, signature)
            /\ Spend("PSYS", user, "stkPSYS", n)
            /\ IF MayPermit("PSYS", user, "stkPSYS", n, deadline, signature)
               THEN Use(signature) /\ Grant("PSYS", user, "stkPSYS", n)
               ELSE UNCHANGED <<used, granted>>
  BY DEF StakeWithPermitStep
<1> DEFINE permitted == MayPermit("PSYS", user, "stkPSYS", n, deadline, signature)
           before    == allowances["PSYS"][user]["stkPSYS"]
<1>2. /\ HistoryTypeOK /\ balances \in Ledgers /\ n \in Nat /\ granted \in Grants
      /\ user \in Accounts /\ "stkPSYS" \in Accounts /\ "PSYS" \in Tokens
  <2>1. HistoryTypeOK /\ balances \in Ledgers /\ granted \in Grants
    BY DEF Preserved, HistoryTypeOK, SignedTypeOK, Ledgers, Grants
  <2> QED  BY <2>1, SignedAssumption DEF Accounts, Tokens
<1>3. before \in Nat
  BY <1>2 DEF HistoryTypeOK, SignedTypeOK
<1>4. /\ n <= balances["PSYS"][user]
      /\ balances' = Staked(balances, user, user, n)
      /\ now' = now /\ delegates' = delegates
  BY <1>1 DEF stakeWithPermit, StakedWithPermit, CanStakeWithPermit
<1>5. balances' \in Ledgers
  BY <1>2, <1>4, StakedIsLedger
<1>6. Changed(spent, spent', "PSYS", user, "stkPSYS",
              spent["PSYS"][user]["stkPSYS"] + n)
  BY <1>1, <1>2, SpendChanges
<1>7. CASE permitted
  <2>1. /\ nonces' = NonceSpent("PSYS", user) /\ used' = Append(used, signature)
        /\ Grant("PSYS", user, "stkPSYS", n)
        /\ allowances' = [allowances EXCEPT !["PSYS"][user]["stkPSYS"] = n - n]
    BY <1>1, <1>7 DEF stakeWithPermit, StakedWithPermit, Use, AllowanceForStake
  <2>2. /\ signature.signer = user /\ TokenOf(signature) = "PSYS"
        /\ Nonce(signature) = nonces["PSYS"][user]
    BY <1>2, <1>7, PermitIsSigned
  <2>3. UsesOne
    BY <1>2, <2>1, <2>2 DEF UsesOne
  <2>4. Changed(granted, granted', "PSYS", user, "stkPSYS",
                granted["PSYS"][user]["stkPSYS"] + n)
    BY <1>2, <2>1, GrantChanges
  <2>5. n - n \in Nat /\ n + (n - n) <= before + n
    BY <1>2, <1>3
  <2> QED  BY <1>2, <1>4, <1>5, <1>6, <2>1, <2>3, <2>4, <2>5, AllowanceStep
<1>8. CASE ~permitted
  <2>1. /\ nonces' = nonces /\ used' = used /\ granted' = granted
        /\ n <= before
        /\ allowances' = [allowances EXCEPT !["PSYS"][user]["stkPSYS"] = before - n]
    BY <1>1, <1>8 DEF stakeWithPermit, StakedWithPermit, CanStakeWithPermit,
                       AllowanceForStake
  <2>2. UsesOne
    BY <2>1 DEF UsesOne
  <2>3. Changed(granted, granted', "PSYS", user, "stkPSYS",
                granted["PSYS"][user]["stkPSYS"] + 0)
    BY <1>2, <2>1, KeptIsChanged
  <2>4. before - n \in Nat /\ n + (before - n) <= before + 0
    BY <1>2, <1>3, <2>1
  <2> QED  BY <1>2, <1>4, <1>5, <1>6, <2>1, <2>2, <2>3, <2>4, AllowanceStep
<1> QED  BY <1>7, <1>8

LEMMA StakePreserves ==
    ASSUME Preserved, NEW payer \in Users, StakeStep(payer)
    PROVE  Preserved' /\ UsesOne
PROOF
<1>1. PICK user \in Users, n \in Amounts :
            stake(payer, user, n) /\ Spend("PSYS", payer, "stkPSYS", n)
  BY DEF StakeStep
<1> DEFINE before == allowances["PSYS"][payer]["stkPSYS"]
<1>2. /\ HistoryTypeOK /\ balances \in Ledgers /\ n \in Nat /\ granted \in Grants
      /\ user \in Accounts /\ payer \in Accounts
      /\ "stkPSYS" \in Accounts /\ "PSYS" \in Tokens
  <2>1. HistoryTypeOK /\ balances \in Ledgers /\ granted \in Grants
    BY DEF Preserved, HistoryTypeOK, SignedTypeOK, Ledgers, Grants
  <2> QED  BY <2>1, SignedAssumption DEF Accounts, Tokens
<1>3. before \in Nat
  BY <1>2 DEF HistoryTypeOK, SignedTypeOK
<1>4. /\ n <= balances["PSYS"][payer] /\ n <= before
      /\ balances' = Staked(balances, payer, user, n)
      /\ now' = now /\ delegates' = delegates
      /\ allowances' = [allowances EXCEPT !["PSYS"][payer]["stkPSYS"] = before - n]
  BY <1>1 DEF stake
<1>5. balances' \in Ledgers
  BY <1>2, <1>4, StakedIsLedger
<1>6. Changed(spent, spent', "PSYS", payer, "stkPSYS",
              spent["PSYS"][payer]["stkPSYS"] + n)
  BY <1>1, <1>2, SpendChanges
<1>7. Changed(granted, granted', "PSYS", payer, "stkPSYS",
              granted["PSYS"][payer]["stkPSYS"] + 0)
  BY <1>2, KeptIsChanged DEF StakeStep
<1>8. UsesOne
  BY <1>1 DEF UsesOne, StakeStep, stake
<1>9. before - n \in Nat /\ n + (before - n) <= before + 0
  BY <1>2, <1>3, <1>4
<1> QED  BY <1>2, <1>4, <1>5, <1>6, <1>7, <1>8, <1>9, AllowanceStep

LEMMA TickPreserves ==
    ASSUME Preserved, Tick, UNCHANGED <<used, granted, spent>>
    PROVE  Preserved' /\ UsesOne
PROOF
<1>1. now' \in 0 .. MaxTime
  BY SignedAssumption DEF Tick, Preserved, HistoryTypeOK, SignedTypeOK
<1>2. DelegatesTyped' /\ UNCHANGED <<allowances, balances>>
  BY DEF DelegatesTyped, Tick, Preserved, HistoryTypeOK, SignedTypeOK
<1>3. UsesOne
  BY DEF UsesOne, Tick
<1> QED  BY <1>1, <1>2, <1>3, OtherStep

-----------------------------------------------------------------------------
LEMMA HistoryInitially ==
    ASSUME HistoryInit
    PROVE  HistoryInv
PROOF
<1>1. SignedTypeOK
  BY SignedAssumption DEF HistoryInit, SignedInit, SignedTypeOK
<1>2. used = <<>> /\ used \in Seq(Signatures)
  BY DEF HistoryInit
<1>3. granted \in Grants /\ spent \in Grants
  BY DEF HistoryInit, Grants
<1>4. AllowancesGranted
  BY DEF HistoryInit, SignedInit, AllowancesGranted
<1> QED  BY <1>1, <1>2, <1>3, <1>4
         DEF HistoryInv, HistoryTypeOK, NoncesAhead, SignaturesOnceInOrder, Grants

\* Every step preserves the types and the grants, and uses one signature or none.
LEMMA StepPreserves ==
    ASSUME Preserved, HistoryNext
    PROVE  Preserved' /\ UsesOne
PROOF
<1>1. ASSUME NEW signature \in Signatures, PermitStep(signature)
      PROVE  Preserved' /\ UsesOne
  BY <1>1, PermitPreserves
<1>2. ASSUME NEW signature \in Signatures, DelegateByTypeStep(signature)
      PROVE  Preserved' /\ UsesOne
  BY <1>2, DelegateByTypePreserves
<1>3. ASSUME NEW signature \in Signatures, DelegateStep(signature)
      PROVE  Preserved' /\ UsesOne
  BY <1>3, DelegatePreserves
<1>4. ASSUME NEW signature \in Signatures, NEW user \in Users,
             HelperStakeStep(user, signature)
      PROVE  Preserved' /\ UsesOne
  BY <1>4, HelperStakePreserves
<1>5. ASSUME NEW signature \in Signatures, NEW user \in Users,
             StakeWithPermitStep(user, signature)
      PROVE  Preserved' /\ UsesOne
  BY <1>5, StakeWithPermitPreserves
<1>6. ASSUME NEW approval \in Approvals,
             ApproveStep(approval[1], approval[2], approval[3])
      PROVE  Preserved' /\ UsesOne
  <2>1. approval[1] \in Tokens /\ approval[2] \in Users /\ approval[3] \in Accounts
    BY SignedAssumption
  <2> QED  BY <1>6, <2>1, ApprovePreserves
<1>7. ASSUME NEW t \in Tokens, NEW o \in Users, NEW s \in Users,
             TransferFromStep(t, o, s)
      PROVE  Preserved' /\ UsesOne
  BY <1>7, TransferFromPreserves
<1>8. ASSUME NEW payer \in Users, StakeStep(payer)
      PROVE  Preserved' /\ UsesOne
  BY <1>8, StakePreserves
<1>9. ASSUME Tick, UNCHANGED <<used, granted, spent, signed, moved, standing>>
      PROVE  Preserved' /\ UsesOne
  BY <1>9, TickPreserves
<1> QED
  BY Zenon, <1>1, <1>2, <1>3, <1>4, <1>5, <1>6, <1>7, <1>8, <1>9 DEF HistoryNext

LEMMA HistoryStep ==
    ASSUME HistoryInv, [HistoryNext]_historyVars
    PROVE  HistoryInv'
PROOF
<1>1. Preserved /\ HistoryTypeOK /\ NoncesAhead /\ SignaturesOnceInOrder
  BY DEF HistoryInv, Preserved
<1>2. CASE UNCHANGED historyVars
  BY <1>2 DEF historyVars, HistoryInv, HistoryTypeOK, SignedTypeOK, NoncesAhead,
              SignaturesOnceInOrder, AllowancesGranted
<1>3. CASE HistoryNext
  <2>1. Preserved' /\ UsesOne
    BY <1>1, <1>3, StepPreserves
  <2>2. NoncesAhead' /\ SignaturesOnceInOrder'
    BY <1>1, <2>1, UsingKeepsOrder
  <2>3. HistoryTypeOK' /\ AllowancesGranted'
    BY <2>1 DEF Preserved
  <2> QED  BY <2>2, <2>3 DEF HistoryInv
<1> QED  BY <1>2, <1>3

\* HistoryInv is an invariant.
THEOREM HistoryInvariant == HistorySpec => []HistoryInv
PROOF
<1>1. HistoryInit => HistoryInv
  BY HistoryInitially
<1>2. HistoryInv /\ [HistoryNext]_historyVars => HistoryInv'
  BY HistoryStep
<1> QED  BY <1>1, <1>2, PTL DEF HistorySpec

\* No signature takes effect twice, and those of one signer take effect in the
\* order of their nonces, whatever is signed and whoever submits it.
THEOREM SignaturesOnceInOrderAlways == HistorySpec => []SignaturesOnceInOrder
PROOF
<1>1. HistoryInv => SignaturesOnceInOrder
  BY DEF HistoryInv
<1> QED  BY <1>1, HistoryInvariant, PTL

\* No spender takes more than its owner granted, by approvals and by permits.
THEOREM SpentWithinGrantsAlways == HistorySpec => []SpentWithinGrants
PROOF
<1>1. HistoryInv => SpentWithinGrants
  <2> SUFFICES ASSUME HistoryInv, NEW t \in Tokens, NEW o \in Users, NEW s \in Accounts
               PROVE  spent[t][o][s] <= granted[t][o][s]
    BY DEF SpentWithinGrants
  <2>1. /\ spent[t][o][s] \in Nat /\ granted[t][o][s] \in Nat
        /\ allowances[t][o][s] \in Nat
    BY DEF HistoryInv, HistoryTypeOK, SignedTypeOK
  <2>2. spent[t][o][s] + allowances[t][o][s] <= granted[t][o][s]
    BY DEF HistoryInv, AllowancesGranted
  <2> QED  BY <2>1, <2>2
<1> QED  BY <1>1, HistoryInvariant, PTL

-----------------------------------------------------------------------------
(* What passes through the helper. *)

\* HelperKeepsNothing, of any ledger.
Backed(b) == Total(b["stkPSYS"]) = b["PSYS"]["stkPSYS"]
NothingKept(b) == \A t \in Tokens : b[t]["helper"] = 0

LEMMA AccountsFinite == IsFiniteSet(Accounts)
PROOF
<1>1. IsFiniteSet(Users \cup {"stkPSYS"})
  BY SignedAssumption, FS_AddElement
<1>2. IsFiniteSet((Users \cup {"stkPSYS"}) \cup {"helper"})
  BY <1>1, FS_AddElement
<1>3. Accounts = (Users \cup {"stkPSYS"}) \cup {"helper"}
  BY DEF Accounts
<1> QED  BY <1>2, <1>3

\* Entry by entry, what a transfer between two accounts does.
LEMMA SentEntries ==
    ASSUME NEW b \in Ledgers, NEW t \in Tokens, NEW from \in Accounts,
           NEW to \in Accounts, from # to, NEW n \in Nat, n <= b[t][from]
    PROVE  /\ Sent(b, t, from, to, n) \in Ledgers
           /\ \A t2 \in Tokens, a \in Accounts :
                Sent(b, t, from, to, n)[t2][a] =
                    IF t2 = t /\ a = from THEN b[t][from] - n
                    ELSE IF t2 = t /\ a = to THEN b[t][to] + n
                    ELSE b[t2][a]
PROOF
<1> DEFINE debited == [b EXCEPT ![t][from] = b[t][from] - n]
<1>1. debited \in Ledgers /\ debited[t][to] = b[t][to]
  BY DEF Ledgers
<1>2. \A t2 \in Tokens, a \in Accounts :
        debited[t2][a] = IF t2 = t /\ a = from THEN b[t][from] - n ELSE b[t2][a]
  BY DEF Ledgers
<1>3. Sent(b, t, from, to, n) = [debited EXCEPT ![t][to] = debited[t][to] + n]
  BY DEF Sent
<1> HIDE DEF debited
<1>4. \A t2 \in Tokens, a \in Accounts :
        Sent(b, t, from, to, n)[t2][a]
            = IF t2 = t /\ a = to THEN debited[t][to] + n ELSE debited[t2][a]
  BY <1>1, <1>3 DEF Ledgers
<1>5. Sent(b, t, from, to, n) \in Ledgers
  BY SentIsLedger
<1> QED  BY <1>1, <1>2, <1>4, <1>5

\* A transfer among the users, of either token, keeps both promises.
LEMMA SentKeeps ==
    ASSUME NEW b \in Ledgers, NEW t \in Tokens, NEW from \in Users,
           NEW to \in Users, NEW n \in Nat, n <= b[t][from],
           Backed(b), NothingKept(b)
    PROVE  Backed(Sent(b, t, from, to, n)) /\ NothingKept(Sent(b, t, from, to, n))
PROOF
<1> DEFINE c == Sent(b, t, from, to, n)
<1>1. /\ from \in Accounts /\ to \in Accounts
      /\ from \notin {"stkPSYS", "helper"} /\ to \notin {"stkPSYS", "helper"}
      /\ "stkPSYS" \in Accounts /\ "helper" \in Accounts
      /\ "PSYS" \in Tokens /\ "stkPSYS" \in Tokens
  BY SignedAssumption DEF Accounts, Tokens
<1>2. CASE from = to
  <2> DEFINE m       == b[t][from]
             debited == [b EXCEPT ![t][from] = m - n]
  <2>1. /\ m \in Nat /\ m - n \in Nat /\ m - n + n = m
        /\ b = [b EXCEPT ![t][from] = m]
    BY <1>1 DEF Ledgers
  <2>2. debited[t][from] = m - n /\ c = [debited EXCEPT ![t][from] = m - n + n]
    BY <1>1, <1>2, <2>1 DEF Sent, Ledgers
  <2>3. c = [b EXCEPT ![t][from] = m - n + n]
    <3> HIDE DEF m, c
    <3> QED  BY <1>1, <2>2 DEF Ledgers
  <2>4. c = b
    <3> HIDE DEF m, c
    <3> QED  BY <2>1, <2>3
  <2> QED  BY <2>4
<1>3. CASE from # to
  <2>1. /\ c \in Ledgers
        /\ \A t2 \in Tokens, a \in Accounts :
                c[t2][a] = IF t2 = t /\ a = from THEN b[t][from] - n
                           ELSE IF t2 = t /\ a = to THEN b[t][to] + n
                           ELSE b[t2][a]
    BY <1>1, <1>3, SentEntries
  <2> HIDE DEF c
  <2>2. NothingKept(c) /\ c["PSYS"]["stkPSYS"] = b["PSYS"]["stkPSYS"]
    BY <1>1, <2>1 DEF NothingKept
  <2>3. /\ b["stkPSYS"] \in [Accounts -> Nat] /\ c["stkPSYS"] \in [Accounts -> Nat]
        /\ Total(b["stkPSYS"]) \in Nat
    BY <1>1, <2>1, AccountsFinite, TotalBounds DEF Ledgers
  <2>4. Total(c["stkPSYS"]) = Total(b["stkPSYS"])
    <3>1. CASE t = "stkPSYS"
      <4>1. /\ c["stkPSYS"][from] = b["stkPSYS"][from] - n
            /\ c["stkPSYS"][to] = b["stkPSYS"][to] + n
            /\ \A a \in Accounts \ {from, to} : c["stkPSYS"][a] = b["stkPSYS"][a]
        BY <1>1, <1>3, <2>1, <3>1
      <4>2. Total(c["stkPSYS"])
                = Total(b["stkPSYS"]) - b["stkPSYS"][from] + c["stkPSYS"][from]
                                      - b["stkPSYS"][to] + c["stkPSYS"][to]
        BY <1>1, <1>3, <2>3, <4>1, AccountsFinite, TotalChange2
      <4>3. b["stkPSYS"][from] \in Nat /\ b["stkPSYS"][to] \in Nat
        BY <1>1, <2>3
      <4> QED  BY <2>3, <4>1, <4>2, <4>3
    <3>2. CASE t # "stkPSYS"
      <4>1. \A a \in Accounts : c["stkPSYS"][a] = b["stkPSYS"][a]
        BY <1>1, <2>1, <3>2
      <4>2. c["stkPSYS"] = b["stkPSYS"]
        BY <2>3, <4>1
      <4> QED  BY <4>2
    <3> QED  BY <3>1, <3>2
  <2>5. Backed(c)
    BY <2>2, <2>4 DEF Backed
  <2> QED  BY <2>2, <2>5 DEF c
<1> QED  BY <1>2, <1>3

\* A stake keeps every staked token backed, and takes from the helper what it
\* pays.
LEMMA StakedKeeps ==
    ASSUME NEW b \in Ledgers, NEW payer \in Accounts, payer # "stkPSYS",
           NEW user \in Users, NEW n \in Nat, n <= b["PSYS"][payer], Backed(b)
    PROVE  /\ Backed(Staked(b, payer, user, n))
           /\ Staked(b, payer, user, n)["stkPSYS"]["helper"] = b["stkPSYS"]["helper"]
           /\ Staked(b, payer, user, n)["PSYS"]["helper"] =
                IF payer = "helper" THEN b["PSYS"]["helper"] - n
                                    ELSE b["PSYS"]["helper"]
PROOF
<1> DEFINE paid == Sent(b, "PSYS", payer, "stkPSYS", n)
           c    == Staked(b, payer, user, n)
<1>1. /\ user \in Accounts /\ user # "helper"
      /\ "stkPSYS" \in Accounts /\ "helper" \in Accounts /\ "helper" # "stkPSYS"
      /\ "PSYS" \in Tokens /\ "stkPSYS" \in Tokens
  BY SignedAssumption DEF Accounts, Tokens
<1>2. /\ paid \in Ledgers
      /\ \A t2 \in Tokens, a \in Accounts :
            paid[t2][a] = IF t2 = "PSYS" /\ a = payer THEN b["PSYS"][payer] - n
                          ELSE IF t2 = "PSYS" /\ a = "stkPSYS"
                          THEN b["PSYS"]["stkPSYS"] + n ELSE b[t2][a]
  BY <1>1, SentEntries
<1>3. c = [paid EXCEPT !["stkPSYS"][user] = paid["stkPSYS"][user] + n]
  BY DEF Staked
<1> HIDE DEF paid
<1>4. /\ c["PSYS"] = paid["PSYS"]
      /\ c["stkPSYS"] = [paid["stkPSYS"] EXCEPT ![user] = paid["stkPSYS"][user] + n]
      /\ paid["stkPSYS"] \in [Accounts -> Nat] /\ b["stkPSYS"] \in [Accounts -> Nat]
  BY <1>1, <1>2, <1>3 DEF Ledgers
<1>5. paid["stkPSYS"] = b["stkPSYS"]
  <2>1. \A a \in Accounts : paid["stkPSYS"][a] = b["stkPSYS"][a]
    BY <1>1, <1>2
  <2> QED  BY <1>4, <2>1
<1>6. /\ c["PSYS"]["stkPSYS"] = b["PSYS"]["stkPSYS"] + n
      /\ c["PSYS"]["helper"] = IF payer = "helper" THEN b["PSYS"]["helper"] - n
                                                   ELSE b["PSYS"]["helper"]
      /\ c["stkPSYS"]["helper"] = b["stkPSYS"]["helper"]
  BY <1>1, <1>2, <1>4, <1>5
<1>7. Total(c["stkPSYS"]) = Total(b["stkPSYS"]) + n
  <2>1. b["stkPSYS"][user] \in Nat
    BY <1>1, <1>4
  <2>2. b["stkPSYS"][user] + n \in Nat /\ Total(b["stkPSYS"]) \in Nat
    BY <1>4, <2>1, AccountsFinite, TotalBounds
  <2>3. Total(c["stkPSYS"])
            = Total(b["stkPSYS"]) - b["stkPSYS"][user] + (b["stkPSYS"][user] + n)
    BY <1>1, <1>4, <1>5, <2>2, AccountsFinite, TotalUpdate
  <2> QED  BY <2>1, <2>2, <2>3
<1> QED  BY <1>6, <1>7 DEF Backed, c

\* Every step keeps HelperKeepsNothing.
LEMMA HelperStep ==
    ASSUME HistoryInv, HelperKeepsNothing, [HistoryNext]_historyVars
    PROVE  HelperKeepsNothing'
PROOF
<1>1. /\ balances \in Ledgers /\ Backed(balances) /\ NothingKept(balances)
      /\ "PSYS" \in Tokens /\ "stkPSYS" \in Tokens
  BY DEF HistoryInv, HistoryTypeOK, SignedTypeOK, Ledgers, HelperKeepsNothing,
         Backed, NothingKept, Tokens
<1>2. ASSUME Backed(balances'), NothingKept(balances')
      PROVE  HelperKeepsNothing'
  BY <1>2 DEF HelperKeepsNothing, Backed, NothingKept
<1>3. ASSUME balances' = balances
      PROVE  HelperKeepsNothing'
  BY <1>1, <1>2, <1>3
\* A stake paid by a user.
<1>4. ASSUME NEW payer \in Users, NEW user \in Users, NEW n \in Amounts,
             n <= balances["PSYS"][payer],
             balances' = Staked(balances, payer, user, n)
      PROVE  HelperKeepsNothing'
  <2>1. payer \in Accounts /\ payer \notin {"stkPSYS", "helper"} /\ n \in Nat
    BY SignedAssumption DEF Accounts
  <2>2. Backed(balances') /\ NothingKept(balances')
    BY <1>1, <1>4, <2>1, StakedKeeps DEF NothingKept, Tokens
  <2> QED  BY <1>2, <2>2
<1>5. ASSUME NEW signature \in Signatures, PermitStep(signature)
      PROVE  HelperKeepsNothing'
  BY <1>3, <1>5 DEF PermitStep, permit
<1>6. ASSUME NEW signature \in Signatures, DelegateByTypeStep(signature)
      PROVE  HelperKeepsNothing'
  BY <1>3, <1>6 DEF DelegateByTypeStep, delegateByTypeBySig, DelegateSigned
<1>7. ASSUME NEW signature \in Signatures, DelegateStep(signature)
      PROVE  HelperKeepsNothing'
  BY <1>3, <1>7 DEF DelegateStep, delegateBySig, DelegateSigned
<1>8. ASSUME NEW signature \in Signatures, NEW user \in Users,
             HelperStakeStep(user, signature)
      PROVE  HelperKeepsNothing'
  <2>1. PICK n \in Amounts : HelperStake(user, n, signature)
    BY <1>8 DEF HelperStakeStep
  <2> DEFINE pulled == Sent(balances, "PSYS", user, "helper", n)
  <2>2. /\ user \in Accounts /\ user \notin {"stkPSYS", "helper"} /\ n \in Nat
        /\ "helper" \in Accounts /\ "stkPSYS" \in Accounts
    BY SignedAssumption DEF Accounts
  <2>3. /\ n <= balances["PSYS"][user]
        /\ balances' = Staked(pulled, "helper", user, n)
    BY <2>1 DEF HelperStake
  <2>4. /\ pulled \in Ledgers
        /\ \A t2 \in Tokens, a \in Accounts :
                pulled[t2][a] = IF t2 = "PSYS" /\ a = user
                                THEN balances["PSYS"][user] - n
                                ELSE IF t2 = "PSYS" /\ a = "helper"
                                THEN balances["PSYS"]["helper"] + n
                                ELSE balances[t2][a]
    BY <1>1, <2>2, <2>3, SentEntries
  <2> HIDE DEF pulled
  <2>5. /\ pulled["PSYS"]["helper"] = n /\ pulled["stkPSYS"]["helper"] = 0
        /\ pulled["PSYS"]["stkPSYS"] = balances["PSYS"]["stkPSYS"]
    BY <1>1, <2>2, <2>4 DEF NothingKept
  <2>6. pulled["stkPSYS"] = balances["stkPSYS"]
    <3>1. /\ pulled["stkPSYS"] \in [Accounts -> Nat]
          /\ balances["stkPSYS"] \in [Accounts -> Nat]
      BY <1>1, <2>4 DEF Ledgers
    <3>2. \A a \in Accounts : pulled["stkPSYS"][a] = balances["stkPSYS"][a]
      BY <1>1, <2>4
    <3> QED  BY <3>1, <3>2
  <2>7. Backed(pulled)
    BY <1>1, <2>5, <2>6 DEF Backed
  <2>8. /\ Backed(balances')
        /\ balances'["stkPSYS"]["helper"] = 0
        /\ balances'["PSYS"]["helper"] = n - n
    BY <2>2, <2>3, <2>4, <2>5, <2>7, StakedKeeps
  <2> QED  BY <1>2, <2>2, <2>8 DEF NothingKept, Tokens
<1>9. ASSUME NEW signature \in Signatures, NEW user \in Users,
             StakeWithPermitStep(user, signature)
      PROVE  HelperKeepsNothing'
  BY <1>4, <1>9 DEF StakeWithPermitStep, stakeWithPermit, StakedWithPermit,
                        CanStakeWithPermit
<1>10. ASSUME NEW t \in Tokens, NEW o \in Users, NEW s \in Accounts,
              ApproveStep(t, o, s)
       PROVE  HelperKeepsNothing'
  BY <1>3, <1>10 DEF ApproveStep, approve, increaseAllowance, decreaseAllowance,
                     SetAllowance
<1>11. ASSUME NEW t \in Tokens, NEW o \in Users, NEW s \in Users,
              TransferFromStep(t, o, s)
       PROVE  HelperKeepsNothing'
  <2>1. PICK to \in Users, n \in Amounts : transferFrom(t, s, o, to, n)
    BY <1>11 DEF TransferFromStep
  <2>2. n \in Nat /\ n <= balances[t][o] /\ balances' = Sent(balances, t, o, to, n)
    BY <2>1, SignedAssumption DEF transferFrom
  <2> QED  BY <1>1, <1>2, <2>2, SentKeeps
<1>12. ASSUME NEW payer \in Users, StakeStep(payer)
       PROVE  HelperKeepsNothing'
  BY <1>4, <1>12 DEF StakeStep, stake
<1>13. ASSUME Tick
       PROVE  HelperKeepsNothing'
  BY <1>3, <1>13 DEF Tick
<1>14. ASSUME NEW approval \in Approvals,
              ApproveStep(approval[1], approval[2], approval[3])
       PROVE  HelperKeepsNothing'
  <2>1. approval[1] \in Tokens /\ approval[2] \in Users /\ approval[3] \in Accounts
    BY SignedAssumption
  <2> QED  BY <1>10, <1>14, <2>1
<1>15. CASE UNCHANGED historyVars
  BY <1>3, <1>15 DEF historyVars
<1> QED
  BY Zenon, <1>5, <1>6, <1>7, <1>8, <1>9, <1>11, <1>12, <1>13, <1>14, <1>15
     DEF HistoryNext

-----------------------------------------------------------------------------
(* Whose PSYS the helper stakes, and for whom. *)

\* n, if c.
Part(c, n) == IF c THEN n ELSE 0

\* What a transfer takes from and gives to each account, the same or not.
LEMMA SentDeltas ==
    ASSUME NEW b \in Ledgers, NEW t \in Tokens, NEW from \in Accounts,
           NEW to \in Accounts, NEW n \in Nat, n <= b[t][from]
    PROVE  \A t2 \in Tokens, a \in Accounts :
                Sent(b, t, from, to, n)[t2][a] =
                    b[t2][a] - Part(t2 = t /\ a = from, n) + Part(t2 = t /\ a = to, n)
PROOF
<1> DEFINE debited == [b EXCEPT ![t][from] = b[t][from] - n]
<1>1. debited \in Ledgers
  BY DEF Ledgers
<1>2. \A t2 \in Tokens, a \in Accounts :
        debited[t2][a] = b[t2][a] - Part(t2 = t /\ a = from, n)
  BY DEF Ledgers, Part
<1>3. Sent(b, t, from, to, n) = [debited EXCEPT ![t][to] = debited[t][to] + n]
  BY DEF Sent
<1> HIDE DEF debited
<1>4. \A t2 \in Tokens, a \in Accounts :
        Sent(b, t, from, to, n)[t2][a] = debited[t2][a] + Part(t2 = t /\ a = to, n)
  BY <1>1, <1>3 DEF Ledgers, Part
<1> QED  BY <1>2, <1>4

\* What a stake takes from and gives to each user.
LEMMA StakedDeltas ==
    ASSUME NEW b \in Ledgers, NEW payer \in Accounts, NEW user \in Users,
           NEW n \in Nat, n <= b["PSYS"][payer]
    PROVE  \A u \in Users :
                /\ Staked(b, payer, user, n)["PSYS"][u]
                        = b["PSYS"][u] - Part(u = payer, n)
                /\ Staked(b, payer, user, n)["stkPSYS"][u]
                        = b["stkPSYS"][u] + Part(u = user, n)
PROOF
<1> DEFINE paid == Sent(b, "PSYS", payer, "stkPSYS", n)
           c    == Staked(b, payer, user, n)
<1>1. /\ "PSYS" \in Tokens /\ "stkPSYS" \in Tokens /\ "stkPSYS" \in Accounts
      /\ \A u \in Users : u \in Accounts /\ u # "stkPSYS"
  BY SignedAssumption DEF Tokens, Accounts
<1>2. paid \in Ledgers
  BY <1>1, SentIsLedger
<1>3. \A u \in Users : /\ paid["PSYS"][u] = b["PSYS"][u] - Part(u = payer, n)
                       /\ paid["stkPSYS"][u] = b["stkPSYS"][u]
  <2>1. ASSUME NEW u \in Users
        PROVE  /\ paid["PSYS"][u] = b["PSYS"][u] - Part(u = payer, n) + 0
               /\ paid["stkPSYS"][u] = b["stkPSYS"][u] - 0 + 0
    BY <1>1, SentDeltas DEF Part
  <2>2. \A u \in Users : b["PSYS"][u] \in Nat /\ b["stkPSYS"][u] \in Nat
    BY <1>1 DEF Ledgers
  <2> QED  BY <2>1, <2>2 DEF Part
<1>4. c = [paid EXCEPT !["stkPSYS"][user] = paid["stkPSYS"][user] + n]
  BY DEF Staked
<1> HIDE DEF paid, c
<1>5. c["PSYS"] = paid["PSYS"]
  BY <1>2, <1>4 DEF Ledgers, Tokens
<1>6. \A u \in Users : c["stkPSYS"][u] = paid["stkPSYS"][u] + Part(u = user, n)
  BY <1>1, <1>2, <1>4 DEF Ledgers, Part
<1> QED  BY <1>3, <1>5, <1>6 DEF c

\* The operations but the helper's account for the balances, and with them the
\* signatures do.
Accounted ==
    /\ signed \in [Users -> Nat]
    /\ moved \in [Tokens -> [Users -> Int]]
    /\ \A u \in Users :
        /\ balances["PSYS"][u] = Endowment + moved["PSYS"][u] - signed[u]
        /\ balances["stkPSYS"][u] = moved["stkPSYS"][u] + signed[u]

LEMMA MoveDeltas ==
    ASSUME moved \in [Tokens -> [Users -> Int]],
           NEW t1 \in Tokens, NEW from \in Users, NEW t2 \in Tokens, NEW to \in Users,
           NEW n \in Nat, Move(t1, from, t2, to, n)
    PROVE  /\ moved' \in [Tokens -> [Users -> Int]]
           /\ \A t \in Tokens, u \in Users :
                moved'[t][u] = moved[t][u] - Part(t = t1 /\ u = from, n)
                                           + Part(t = t2 /\ u = to, n)
PROOF
<1> DEFINE given == [moved EXCEPT ![t1][from] = moved[t1][from] - n]
<1>1. given \in [Tokens -> [Users -> Int]]
  OBVIOUS
<1>2. \A t \in Tokens, u \in Users :
        given[t][u] = moved[t][u] - Part(t = t1 /\ u = from, n)
  BY DEF Part
<1>3. moved' = [given EXCEPT ![t2][to] = given[t2][to] + n]
  BY DEF Move
<1> HIDE DEF given
<1>4. /\ moved' \in [Tokens -> [Users -> Int]]
      /\ \A t \in Tokens, u \in Users :
            moved'[t][u] = given[t][u] + Part(t = t2 /\ u = to, n)
  BY <1>1, <1>3 DEF Part
<1> QED  BY <1>2, <1>4

\* A stake that a user pays himself is accounted as moved.
LEMMA PaidStakeAccounted ==
    ASSUME HistoryInv, Accounted, NEW payer \in Users, NEW user \in Users,
           NEW n \in Amounts, n <= balances["PSYS"][payer],
           balances' = Staked(balances, payer, user, n),
           Move("PSYS", payer, "stkPSYS", user, n), signed' = signed
    PROVE  Accounted'
PROOF
<1>1. /\ balances \in Ledgers /\ n \in Nat /\ payer \in Accounts
      /\ "PSYS" \in Tokens /\ "stkPSYS" \in Tokens
  BY SignedAssumption DEF HistoryInv, HistoryTypeOK, SignedTypeOK, Ledgers, Tokens,
                          Accounts
<1>2. \A u \in Users :
        /\ balances'["PSYS"][u] = balances["PSYS"][u] - Part(u = payer, n)
        /\ balances'["stkPSYS"][u] = balances["stkPSYS"][u] + Part(u = user, n)
  BY <1>1, StakedDeltas
<1>3. /\ moved' \in [Tokens -> [Users -> Int]]
      /\ \A t \in Tokens, u \in Users :
            moved'[t][u] = moved[t][u] - Part(t = "PSYS" /\ u = payer, n)
                                       + Part(t = "stkPSYS" /\ u = user, n)
  BY <1>1, MoveDeltas DEF Accounted
<1>4. ASSUME NEW u \in Users
      PROVE  /\ balances'["PSYS"][u] = Endowment + moved'["PSYS"][u] - signed'[u]
             /\ balances'["stkPSYS"][u] = moved'["stkPSYS"][u] + signed'[u]
  <2>1. /\ moved["PSYS"][u] \in Int /\ moved["stkPSYS"][u] \in Int
        /\ signed[u] \in Nat /\ signed'[u] = signed[u] /\ Endowment \in Nat
        /\ balances["PSYS"][u] = Endowment + moved["PSYS"][u] - signed[u]
        /\ balances["stkPSYS"][u] = moved["stkPSYS"][u] + signed[u]
    BY <1>1, SignedAssumption DEF Accounted
  <2>2. /\ moved'["PSYS"][u] = moved["PSYS"][u] - Part(u = payer, n)
        /\ moved'["stkPSYS"][u] = moved["stkPSYS"][u] + Part(u = user, n)
    BY <1>1, <1>3, <2>1 DEF Part
  <2>3. Part(u = payer, n) \in Nat /\ Part(u = user, n) \in Nat
    BY <1>1 DEF Part
  <2> QED  BY <1>2, <2>1, <2>2, <2>3
<1> QED  BY <1>3, <1>4 DEF Accounted

\* So is a transfer from one user to another.
LEMMA TransferAccounted ==
    ASSUME HistoryInv, Accounted, NEW t \in Tokens, NEW from \in Users,
           NEW to \in Users, NEW n \in Amounts, n <= balances[t][from],
           balances' = Sent(balances, t, from, to, n),
           Move(t, from, t, to, n), signed' = signed
    PROVE  Accounted'
PROOF
<1>1. /\ balances \in Ledgers /\ n \in Nat /\ from \in Accounts /\ to \in Accounts
      /\ "PSYS" \in Tokens /\ "stkPSYS" \in Tokens
      /\ \A u \in Users : u \in Accounts
  BY SignedAssumption DEF HistoryInv, HistoryTypeOK, SignedTypeOK, Ledgers, Tokens,
                          Accounts
<1>2. \A t2 \in Tokens, u \in Users :
        balances'[t2][u] = balances[t2][u] - Part(t2 = t /\ u = from, n)
                                           + Part(t2 = t /\ u = to, n)
  BY <1>1, SentDeltas
<1>3. /\ moved' \in [Tokens -> [Users -> Int]]
      /\ \A t2 \in Tokens, u \in Users :
            moved'[t2][u] = moved[t2][u] - Part(t2 = t /\ u = from, n)
                                         + Part(t2 = t /\ u = to, n)
  BY <1>1, MoveDeltas DEF Accounted
<1>4. ASSUME NEW u \in Users
      PROVE  /\ balances'["PSYS"][u] = Endowment + moved'["PSYS"][u] - signed'[u]
             /\ balances'["stkPSYS"][u] = moved'["stkPSYS"][u] + signed'[u]
  <2>1. /\ moved["PSYS"][u] \in Int /\ moved["stkPSYS"][u] \in Int
        /\ signed[u] \in Nat /\ signed'[u] = signed[u] /\ Endowment \in Nat
        /\ balances["PSYS"][u] = Endowment + moved["PSYS"][u] - signed[u]
        /\ balances["stkPSYS"][u] = moved["stkPSYS"][u] + signed[u]
    BY <1>1, SignedAssumption DEF Accounted
  <2>2. \A c \in BOOLEAN : Part(c, n) \in Nat
    BY <1>1 DEF Part
  <2>3. PICK out \in [Tokens -> Nat] : \A t2 \in Tokens :
            out[t2] = Part(t2 = t /\ u = from, n)
    <3>1. [t2 \in Tokens |-> Part(t2 = t /\ u = from, n)] \in [Tokens -> Nat]
      BY <2>2
    <3> QED  BY <3>1
  <2>4. PICK in \in [Tokens -> Nat] : \A t2 \in Tokens :
            in[t2] = Part(t2 = t /\ u = to, n)
    <3>1. [t2 \in Tokens |-> Part(t2 = t /\ u = to, n)] \in [Tokens -> Nat]
      BY <2>2
    <3> QED  BY <3>1
  <2>5. \A t2 \in Tokens : /\ balances'[t2][u] = balances[t2][u] - out[t2] + in[t2]
                            /\ moved'[t2][u] = moved[t2][u] - out[t2] + in[t2]
    BY <1>2, <1>3, <2>3, <2>4
  <2>6. /\ out["PSYS"] \in Nat /\ in["PSYS"] \in Nat
        /\ out["stkPSYS"] \in Nat /\ in["stkPSYS"] \in Nat
    BY <1>1
  <2> QED  BY <1>1, <2>1, <2>5, <2>6
<1> QED  BY <1>3, <1>4 DEF Accounted

\* The permit that the helper passes on is the user's, for the amount it takes.
LEMMA HelperStakeAccounted ==
    ASSUME HistoryInv, HelperKeepsNothing, Accounted, NEW user \in Users,
           NEW signature \in Signatures, HelperStakeStep(user, signature)
    PROVE  Accounted'
PROOF
<1>1. PICK n \in Amounts : HelperStake(user, n, signature)
  BY DEF HelperStakeStep
<1>2. signature.signer = user /\ signature.typedData.message.value = n
  <2>1. MayPermit("PSYS", user, "helper", n, MaxDeadline, signature)
    BY <1>1 DEF HelperStake
  <2> DEFINE data == PermitParams(DOMAIN_SEPARATOR("PSYS"), user, "helper",
                                  nonces["PSYS"][user], MaxDeadline, n)
  <2>2. data = signature.typedData /\ signature.signer = user
    BY <2>1 DEF MayPermit, ecrecover
  <2>3. data.message.value = n
    BY DEF PermitParams
  <2> QED  BY <2>2, <2>3
<1> DEFINE pulled == Sent(balances, "PSYS", user, "helper", n)
<1>3. /\ balances \in Ledgers /\ n \in Nat /\ user \in Accounts
      /\ "helper" \in Accounts /\ "PSYS" \in Tokens /\ "stkPSYS" \in Tokens
      /\ \A u \in Users : u \in Accounts /\ u # "helper"
  BY SignedAssumption DEF HistoryInv, HistoryTypeOK, SignedTypeOK, Ledgers, Tokens,
                          Accounts
<1>4. n <= balances["PSYS"][user] /\ balances' = Staked(pulled, "helper", user, n)
  BY <1>1 DEF HelperStake
<1>5. pulled \in Ledgers /\ n <= pulled["PSYS"]["helper"]
  BY <1>3, <1>4, SentIsLedger
<1>6. \A t2 \in Tokens, u \in Users :
        pulled[t2][u] = balances[t2][u] - Part(t2 = "PSYS" /\ u = user, n)
                                        + Part(t2 = "PSYS" /\ u = "helper", n)
  BY <1>3, <1>4, SentDeltas
<1> HIDE DEF pulled
<1>7. \A u \in Users :
        /\ balances'["PSYS"][u] = pulled["PSYS"][u] - Part(u = "helper", n)
        /\ balances'["stkPSYS"][u] = pulled["stkPSYS"][u] + Part(u = user, n)
  BY <1>3, <1>4, <1>5, StakedDeltas
<1>8. moved' = moved /\ signed' = [signed EXCEPT ![user] = signed[user] + n]
  BY <1>2 DEF HelperStakeStep
<1>9. /\ signed' \in [Users -> Nat]
      /\ \A u \in Users : signed'[u] = signed[u] + Part(u = user, n)
  BY <1>3, <1>8 DEF Accounted, Part
<1>10. ASSUME NEW u \in Users
       PROVE  /\ balances'["PSYS"][u] = Endowment + moved'["PSYS"][u] - signed'[u]
              /\ balances'["stkPSYS"][u] = moved'["stkPSYS"][u] + signed'[u]
  <2>1. /\ moved["PSYS"][u] \in Int /\ moved["stkPSYS"][u] \in Int
        /\ signed[u] \in Nat /\ Endowment \in Nat
        /\ balances["PSYS"][u] = Endowment + moved["PSYS"][u] - signed[u]
        /\ balances["stkPSYS"][u] = moved["stkPSYS"][u] + signed[u]
    BY <1>3, SignedAssumption DEF Accounted
  <2>2. u # "helper" /\ Part(u = user, n) \in Nat
    BY <1>3 DEF Part
  <2>3. /\ pulled["PSYS"][u] = balances["PSYS"][u] - Part(u = user, n) + 0
        /\ pulled["stkPSYS"][u] = balances["stkPSYS"][u] - 0 + 0
    BY <1>3, <1>6, <2>2 DEF Part
  <2>4. /\ balances'["PSYS"][u] = pulled["PSYS"][u] - 0
        /\ balances'["stkPSYS"][u] = pulled["stkPSYS"][u] + Part(u = user, n)
    BY <1>7, <2>2 DEF Part
  <2> QED  BY <1>8, <1>9, <2>1, <2>2, <2>3, <2>4
<1> QED  BY <1>8, <1>9, <1>10 DEF Accounted

\* Every step is accounted.
LEMMA AccountedStep ==
    ASSUME HistoryInv, HelperKeepsNothing, Accounted, [HistoryNext]_historyVars
    PROVE  Accounted'
PROOF
<1>1. ASSUME UNCHANGED <<balances, signed, moved>>
      PROVE  Accounted'
  BY <1>1 DEF Accounted
<1>2. ASSUME NEW signature \in Signatures, PermitStep(signature)
      PROVE  Accounted'
  BY <1>1, <1>2 DEF PermitStep, permit
<1>3. ASSUME NEW signature \in Signatures, DelegateByTypeStep(signature)
      PROVE  Accounted'
  BY <1>1, <1>3 DEF DelegateByTypeStep, delegateByTypeBySig, DelegateSigned
<1>4. ASSUME NEW signature \in Signatures, DelegateStep(signature)
      PROVE  Accounted'
  BY <1>1, <1>4 DEF DelegateStep, delegateBySig, DelegateSigned
<1>5. ASSUME NEW signature \in Signatures, NEW user \in Users,
             HelperStakeStep(user, signature)
      PROVE  Accounted'
  BY <1>5, HelperStakeAccounted
<1>6. ASSUME NEW signature \in Signatures, NEW user \in Users,
             StakeWithPermitStep(user, signature)
      PROVE  Accounted'
  <2>1. PICK n \in Amounts, deadline \in Deadlines :
            /\ stakeWithPermit(user, n, deadline, signature)
            /\ Move("PSYS", user, "stkPSYS", user, n)
    BY <1>6 DEF StakeWithPermitStep
  <2>2. /\ n <= balances["PSYS"][user]
        /\ balances' = Staked(balances, user, user, n)
    BY <2>1 DEF stakeWithPermit, StakedWithPermit, CanStakeWithPermit
  <2>3. signed' = signed
    BY <1>6 DEF StakeWithPermitStep
  <2> QED  BY <2>1, <2>2, <2>3, PaidStakeAccounted
<1>7. ASSUME NEW approval \in Approvals,
             ApproveStep(approval[1], approval[2], approval[3])
      PROVE  Accounted'
  BY <1>1, <1>7 DEF ApproveStep, approve, increaseAllowance, decreaseAllowance,
                    SetAllowance
<1>8. ASSUME NEW t \in Tokens, NEW o \in Users, NEW s \in Users,
             TransferFromStep(t, o, s)
      PROVE  Accounted'
  <2>1. PICK to \in Users, n \in Amounts :
            transferFrom(t, s, o, to, n) /\ Move(t, o, t, to, n)
    BY <1>8 DEF TransferFromStep
  <2>2. n <= balances[t][o] /\ balances' = Sent(balances, t, o, to, n)
    BY <2>1 DEF transferFrom
  <2>3. signed' = signed
    BY <1>8 DEF TransferFromStep
  <2> QED  BY <2>1, <2>2, <2>3, TransferAccounted
<1>9. ASSUME NEW payer \in Users, StakeStep(payer)
      PROVE  Accounted'
  <2>1. PICK user \in Users, n \in Amounts :
            stake(payer, user, n) /\ Move("PSYS", payer, "stkPSYS", user, n)
    BY <1>9 DEF StakeStep
  <2>2. /\ n <= balances["PSYS"][payer]
        /\ balances' = Staked(balances, payer, user, n)
    BY <2>1 DEF stake
  <2>3. signed' = signed
    BY <1>9 DEF StakeStep
  <2> QED  BY <2>1, <2>2, <2>3, PaidStakeAccounted
<1>10. ASSUME Tick, UNCHANGED <<used, granted, spent, signed, moved, standing>>
       PROVE  Accounted'
  BY <1>1, <1>10 DEF Tick
<1>11. CASE UNCHANGED historyVars
  BY <1>1, <1>11 DEF historyVars
<1> QED
  BY Zenon, <1>2, <1>3, <1>4, <1>5, <1>6, <1>7, <1>8, <1>9, <1>10, <1>11
     DEF HistoryNext

(***************************************************************************)
(* What passes through the helper is the PSYS of the user who signed and   *)
(* becomes his staked tokens, whatever is signed, submitted, approved and  *)
(* sent by anybody; the helper keeps nothing, and every staked token has   *)
(* its PSYS.  (PegasysStakingHelper.stake, _stake)                         *)
(***************************************************************************)
THEOREM HelperAlwaysStakesForSigner == HistorySpec => []HelperStakesForSigner
PROOF
<1>1. HistoryInit => HelperKeepsNothing
  <2> SUFFICES ASSUME HistoryInit PROVE HelperKeepsNothing
    OBVIOUS
  <2>1. /\ \A t \in Tokens : balances[t]["helper"] = 0
        /\ balances["PSYS"]["stkPSYS"] = 0
    BY SignedAssumption DEF HistoryInit, SignedInit, Tokens, Accounts
  <2>2. balances["stkPSYS"] = [a \in Accounts |-> 0]
    BY DEF HistoryInit, SignedInit, Tokens
  <2>3. Total(balances["stkPSYS"]) = 0
    BY <2>2, TotalZero
  <2> QED  BY <2>1, <2>3 DEF HelperKeepsNothing
<1>2. HistoryInit => Accounted
  <2> SUFFICES ASSUME HistoryInit PROVE Accounted
    OBVIOUS
  <2>1. /\ signed = [u \in Users |-> 0] /\ Endowment \in Nat
        /\ moved = [t \in Tokens |-> [u \in Users |-> 0]]
        /\ \A u \in Users : balances["PSYS"][u] = Endowment /\ balances["stkPSYS"][u] = 0
    BY SignedAssumption DEF HistoryInit, SignedInit, Tokens, Accounts
  <2>2. \A u \in Users : moved["PSYS"][u] = 0 /\ moved["stkPSYS"][u] = 0
    BY <2>1 DEF Tokens
  <2> QED  BY <2>1, <2>2 DEF Accounted
<1>3. HistoryInv /\ HelperKeepsNothing /\ [HistoryNext]_historyVars
        => HelperKeepsNothing'
  BY HelperStep
<1>4. HistoryInv /\ HelperKeepsNothing /\ Accounted /\ [HistoryNext]_historyVars
        => Accounted'
  BY AccountedStep
<1>5. HelperKeepsNothing /\ Accounted => HelperStakesForSigner
  BY DEF HelperStakesForSigner, Accounted
<1> QED  BY <1>1, <1>2, <1>3, <1>4, <1>5, HistoryInvariant, PTL DEF HistorySpec

-----------------------------------------------------------------------------
(* Permits that were submitted on their own. *)

\* The allowance of a permit that stands is the one it gave, and its nonce is
\* behind.
Stands(signature) ==
    /\ signature \in Signatures /\ ToStakedToken(signature)
    /\ signature.signer = signature.typedData.message.owner
    /\ allowances["PSYS"][signature.signer]["stkPSYS"]
            = signature.typedData.message.value
    /\ Nonce(signature) < nonces["PSYS"][signature.signer]

StandingInv == \A signature \in standing : Stands(signature)

NoncesGrow ==
    \A u \in Users : /\ nonces["PSYS"][u] \in Nat /\ nonces'["PSYS"][u] \in Nat
                     /\ nonces["PSYS"][u] <= nonces'["PSYS"][u]

\* No step takes a nonce back.
LEMMA UsingGrows ==
    ASSUME HistoryTypeOK, UsesOne
    PROVE  NoncesGrow
PROOF
<1>1. nonces \in [Tokens -> [Users -> Nat]] /\ "PSYS" \in Tokens
  BY DEF HistoryTypeOK, SignedTypeOK, Tokens
<1>2. CASE nonces' = nonces
  BY <1>1, <1>2 DEF NoncesGrow
<1>3. ASSUME NEW t \in Tokens, NEW o \in Users, nonces' = NonceSpent(t, o)
      PROVE  NoncesGrow
  BY <1>1, <1>3 DEF NonceSpent, NoncesGrow
<1> QED  BY <1>2, <1>3 DEF UsesOne

\* A permit stands while the allowance of its owner for the staked token does, ...
LEMMA StandsKept ==
    ASSUME NoncesGrow, NEW signature, Stands(signature),
           allowances'["PSYS"][signature.signer]["stkPSYS"]
                = allowances["PSYS"][signature.signer]["stkPSYS"]
    PROVE  Stands(signature)'
PROOF
<1>1. signature.signer \in Users /\ Nonce(signature) \in Nat
  BY SignatureAssumption DEF Stands, Nonce
<1>2. Nonce(signature) < nonces'["PSYS"][signature.signer]
  BY <1>1 DEF Stands, NoncesGrow
<1> QED  BY <1>2 DEF Stands, ToStakedToken, TokenOf, Nonce

\* ... also when that of another owner or spender, or of another token changes.
LEMMA StandsWhileOthersChange ==
    ASSUME HistoryTypeOK, NoncesGrow, NEW signature, Stands(signature),
           NEW t \in Tokens, NEW o \in Users, NEW s \in Accounts, NEW v,
           allowances' = [allowances EXCEPT ![t][o][s] = v],
           ~(t = "PSYS" /\ s = "stkPSYS" /\ o = signature.signer)
    PROVE  Stands(signature)'
PROOF
<1>1. /\ allowances \in [Tokens -> [Users -> [Accounts -> Nat]]] /\ "PSYS" \in Tokens
      /\ "stkPSYS" \in Accounts /\ signature.signer \in Users
  BY SignatureAssumption DEF HistoryTypeOK, SignedTypeOK, Tokens, Accounts, Stands
<1>2. allowances'["PSYS"][signature.signer]["stkPSYS"]
        = allowances["PSYS"][signature.signer]["stkPSYS"]
  <2>1. CASE t # "PSYS"
    BY <1>1, <2>1
  <2>2. CASE t = "PSYS" /\ o # signature.signer
    BY <1>1, <2>2
  <2>3. CASE t = "PSYS" /\ o = signature.signer /\ s # "stkPSYS"
    BY <1>1, <2>3
  <2> QED  BY <2>1, <2>2, <2>3
<1> QED  BY <1>2, StandsKept

LEMMA PermitStands ==
    ASSUME HistoryTypeOK, NoncesGrow, StandingInv, NEW signature \in Signatures,
           PermitStep(signature)
    PROVE  StandingInv'
PROOF
<1> DEFINE m == signature.typedData.message
<1>1. PICK t \in Tokens :
            permit(t, m.owner, m.spender, m.value, m.deadline, signature)
  BY DEF PermitStep
<1>2. m.owner \in Users /\ m.spender \in Accounts /\ m.value \in Nat
  BY PermitTyped DEF PermitStep
<1>3. /\ signature.signer = m.owner /\ TokenOf(signature) = t
      /\ Nonce(signature) = nonces[t][m.owner]
  <2>1. MayPermit(t, m.owner, m.spender, m.value, m.deadline, signature)
    BY <1>1 DEF permit
  <2> QED  BY <2>1, PermitIsSigned
<1>4. /\ allowances' = [allowances EXCEPT ![t][m.owner][m.spender] = m.value]
      /\ nonces' = NonceSpent(t, m.owner)
  BY <1>1 DEF permit
<1>5. signature.typedData.primaryType = "Permit"
  BY DEF PermitStep
<1>6. CASE ToStakedToken(signature)
  <2>1. t = "PSYS" /\ m.spender = "stkPSYS"
    BY <1>3, <1>6 DEF ToStakedToken
  <2>2. Stands(signature)'
    <3>1. /\ allowances \in [Tokens -> [Users -> [Accounts -> Nat]]]
          /\ nonces \in [Tokens -> [Users -> Nat]]
      BY DEF HistoryTypeOK, SignedTypeOK
    <3> HIDE DEF m
    <3>2. allowances'["PSYS"][m.owner]["stkPSYS"] = m.value
      BY <1>2, <1>4, <2>1, <3>1
    <3>3. /\ nonces["PSYS"][m.owner] \in Nat
          /\ nonces'["PSYS"][m.owner] = nonces["PSYS"][m.owner] + 1
      BY <1>2, <1>4, <2>1, <3>1 DEF NonceSpent
    <3>4. Nonce(signature) < nonces'["PSYS"][m.owner]
      BY <1>3, <2>1, <3>3
    <3> QED  BY <1>3, <1>6, <3>2, <3>4 DEF Stands, ToStakedToken, TokenOf, Nonce, m
  <2>3. ASSUME NEW x \in standing, x.signer # m.owner
        PROVE  Stands(x)'
    <3>1. Stands(x)
      BY DEF StandingInv
    <3> HIDE DEF m
    <3> QED  BY <1>2, <1>4, <2>3, <3>1, StandsWhileOthersChange
  <2>4. standing' = StandingWithout(signature.signer) \cup {signature}
    BY <1>6 DEF PermitStep
  <2> QED  BY <1>3, <2>2, <2>3, <2>4 DEF StandingInv, StandingWithout
<1>7. CASE ~ToStakedToken(signature)
  <2>1. ~(t = "PSYS" /\ m.spender = "stkPSYS")
    BY <1>3, <1>5, <1>7 DEF ToStakedToken
  <2>2. ASSUME NEW x \in standing
        PROVE  Stands(x)'
    <3>1. Stands(x)
      BY DEF StandingInv
    <3> HIDE DEF m
    <3> QED  BY <1>2, <1>4, <2>1, <3>1, StandsWhileOthersChange
  <2>3. standing' = standing
    BY <1>7 DEF PermitStep
  <2> QED  BY <2>2, <2>3 DEF StandingInv
<1> QED  BY <1>6, <1>7

\* Every step keeps what stands as it is, or lets it stand no longer.
LEMMA StandingStep ==
    ASSUME HistoryInv, StandingInv, [HistoryNext]_historyVars
    PROVE  StandingInv'
PROOF
<1>1. HistoryTypeOK /\ Preserved
  BY DEF HistoryInv, Preserved
<1>2. CASE UNCHANGED historyVars
  BY <1>2 DEF historyVars, StandingInv, Stands
<1>3. CASE HistoryNext
  <2>1. NoncesGrow
    BY <1>1, <1>3, StepPreserves, UsingGrows
  <2>2. ASSUME UNCHANGED <<allowances, standing>>
        PROVE  StandingInv'
    <3>1. ASSUME NEW x \in standing PROVE Stands(x)'
      BY <2>1, <2>2, <3>1, StandsKept DEF StandingInv
    <3> QED  BY <2>2, <3>1 DEF StandingInv
  \* The allowance of one spender: what it was a permit for stands no longer.
  <2>3. ASSUME NEW t \in Tokens, NEW o \in Users, NEW s \in Accounts, NEW v,
               allowances' = [allowances EXCEPT ![t][o][s] = v],
               \A x \in standing' : /\ x \in standing
                                    /\ ~(t = "PSYS" /\ s = "stkPSYS" /\ o = x.signer)
        PROVE  StandingInv'
    <3>1. ASSUME NEW x \in standing' PROVE Stands(x)'
      <4>1. /\ Stands(x) /\ ~(t = "PSYS" /\ s = "stkPSYS" /\ o = x.signer)
        BY <2>3, <3>1 DEF StandingInv
      <4> QED  BY <1>1, <2>1, <2>3, <4>1, StandsWhileOthersChange
    <3> QED  BY <3>1 DEF StandingInv
  <2>4. /\ "PSYS" \in Tokens /\ "stkPSYS" \in Accounts /\ "helper" \in Accounts
        /\ \A u \in Users : u \in Accounts /\ u # "stkPSYS"
    BY SignedAssumption DEF Tokens, Accounts
  <2>5. ASSUME NEW signature \in Signatures, PermitStep(signature)
        PROVE  StandingInv'
    BY <1>1, <2>1, <2>5, PermitStands
  <2>6. ASSUME NEW signature \in Signatures, DelegateByTypeStep(signature)
        PROVE  StandingInv'
    BY <2>2, <2>6 DEF DelegateByTypeStep, delegateByTypeBySig, DelegateSigned
  <2>7. ASSUME NEW signature \in Signatures, DelegateStep(signature)
        PROVE  StandingInv'
    BY <2>2, <2>7 DEF DelegateStep, delegateBySig, DelegateSigned
  <2>8. ASSUME NEW signature \in Signatures, NEW user \in Users,
               HelperStakeStep(user, signature)
        PROVE  StandingInv'
    <3>1. standing' = standing
      BY <2>8 DEF HelperStakeStep
    <3>2. allowances' = [allowances EXCEPT !["PSYS"][user]["helper"] = 0]
      BY <2>8 DEF HelperStakeStep, HelperStake
    <3> QED  BY <2>3, <2>4, <3>1, <3>2
  <2>9. ASSUME NEW signature \in Signatures, NEW user \in Users,
               StakeWithPermitStep(user, signature)
        PROVE  StandingInv'
    <3>1. standing' = StandingWithout(user)
      BY <2>9 DEF StakeWithPermitStep
    <3>2. PICK n \in Amounts, deadline \in Deadlines :
                stakeWithPermit(user, n, deadline, signature)
      BY <2>9 DEF StakeWithPermitStep
    <3>3. PICK v : allowances' = [allowances EXCEPT !["PSYS"][user]["stkPSYS"] = v]
      BY <3>2 DEF stakeWithPermit, StakedWithPermit
    <3> QED  BY <2>3, <2>4, <3>1, <3>3 DEF StandingWithout
  <2>10. ASSUME NEW t \in Tokens, NEW o \in Users, NEW s \in Accounts,
                ApproveStep(t, o, s)
         PROVE  StandingInv'
    <3>1. standing' = IF t = "PSYS" /\ s = "stkPSYS" THEN StandingWithout(o) ELSE standing
      BY <2>10 DEF ApproveStep
    <3>2. PICK v : allowances' = [allowances EXCEPT ![t][o][s] = v]
      BY <2>10 DEF ApproveStep, approve, increaseAllowance, decreaseAllowance,
                   SetAllowance
    <3> QED  BY <2>3, <3>1, <3>2 DEF StandingWithout
  <2>11. ASSUME NEW approval \in Approvals,
                ApproveStep(approval[1], approval[2], approval[3])
         PROVE  StandingInv'
    <3>1. approval[1] \in Tokens /\ approval[2] \in Users /\ approval[3] \in Accounts
      BY SignedAssumption
    <3> QED  BY <2>10, <2>11, <3>1
  <2>12. ASSUME NEW t \in Tokens, NEW o \in Users, NEW s \in Users,
                TransferFromStep(t, o, s)
         PROVE  StandingInv'
    <3>1. standing' = standing
      BY <2>12 DEF TransferFromStep
    <3>2. PICK v : allowances' = [allowances EXCEPT ![t][o][s] = v]
      BY <2>12 DEF TransferFromStep, transferFrom
    <3> QED  BY <2>3, <2>4, <3>1, <3>2
  <2>13. ASSUME NEW payer \in Users, StakeStep(payer)
         PROVE  StandingInv'
    <3>1. standing' = StandingWithout(payer)
      BY <2>13 DEF StakeStep
    <3>2. PICK v : allowances' = [allowances EXCEPT !["PSYS"][payer]["stkPSYS"] = v]
      BY <2>13 DEF StakeStep, stake
    <3> QED  BY <2>3, <2>4, <3>1, <3>2 DEF StandingWithout
  <2>14. ASSUME Tick, UNCHANGED <<used, granted, spent, signed, moved, standing>>
         PROVE  StandingInv'
    BY <2>2, <2>14 DEF Tick
  <2> QED
    BY Zenon, <1>3, <2>5, <2>6, <2>7, <2>8, <2>9, <2>11, <2>12, <2>13, <2>14
       DEF HistoryNext
<1> QED  BY <1>2, <1>3

(***************************************************************************)
(* A permit that was submitted before its owner never costs him the stake: *)
(* while its allowance stands, the permit is refused, its nonce being      *)
(* behind, and the allowance it gave covers the stake to the unit.         *)
(* (try and catch in stakeWithPermit)                                      *)
(***************************************************************************)
THEOREM SubmittedPermitAlwaysStakes == HistorySpec => []SubmittedPermitStillStakes
PROOF
<1>1. HistoryInv /\ StandingInv => SubmittedPermitStillStakes
  <2> SUFFICES ASSUME HistoryInv, StandingInv, NEW signature \in standing,
                      NEW m, m = signature.typedData.message,
                      NEW permitted,
                      permitted = MayPermit("PSYS", m.owner, "stkPSYS", m.value,
                                            m.deadline, signature),
                      NEW after, after = StakedWithPermit(permitted, m.owner, m.value),
                      m.value # 0, m.value <= balances["PSYS"][m.owner]
               PROVE  /\ CanStakeWithPermit(permitted, m.owner, m.value)
                      /\ after.nonces = nonces
                      /\ after.allowances["PSYS"][m.owner]["stkPSYS"] = 0
                      /\ after.balances["PSYS"][m.owner]
                            = balances["PSYS"][m.owner] - m.value
                      /\ after.balances["stkPSYS"][m.owner]
                            = balances["stkPSYS"][m.owner] + m.value
    BY DEF SubmittedPermitStillStakes
  <2>1. /\ signature \in Signatures /\ signature.typedData.primaryType = "Permit"
        /\ signature.signer = m.owner
        /\ allowances["PSYS"][m.owner]["stkPSYS"] = m.value
        /\ Nonce(signature) < nonces["PSYS"][m.owner]
    BY DEF StandingInv, Stands, ToStakedToken
  <2>2. m.owner \in Users /\ m.value \in Nat /\ Nonce(signature) \in Nat
    BY <2>1, SignatureAssumption DEF Nonce
  <2>3. /\ balances \in Ledgers /\ allowances \in Grants
        /\ "PSYS" \in Tokens /\ m.owner \in Accounts /\ "stkPSYS" \in Accounts
        /\ nonces["PSYS"][m.owner] \in Nat
    BY <2>2 DEF HistoryInv, HistoryTypeOK, SignedTypeOK, Ledgers, Grants, Tokens,
                Accounts
  <2>4. ~permitted
    <3>1. permitted => Nonce(signature) = nonces["PSYS"][m.owner]
      BY <2>1, <2>3, PermitIsSigned
    <3> QED  BY <2>1, <2>2, <2>3, <3>1
  <2>5. AllowanceForStake(permitted, m.owner, m.value) = m.value
    BY <2>1, <2>4 DEF AllowanceForStake
  <2>6. CanStakeWithPermit(permitted, m.owner, m.value)
    BY <2>2, <2>5 DEF CanStakeWithPermit
  <2>7. /\ after.nonces = nonces
        /\ after.allowances
                = [allowances EXCEPT !["PSYS"][m.owner]["stkPSYS"] = m.value - m.value]
        /\ after.balances = Staked(balances, m.owner, m.owner, m.value)
    BY <2>4, <2>5 DEF StakedWithPermit
  <2> DEFINE o == m.owner
             v == m.value
  <2>8. /\ o \in Users /\ o \in Accounts /\ v \in Nat /\ v <= balances["PSYS"][o]
        /\ after.allowances = [allowances EXCEPT !["PSYS"][o]["stkPSYS"] = v - v]
        /\ after.balances = Staked(balances, o, o, v)
    BY <2>2, <2>3, <2>7
  <2> HIDE DEF o, v
  <2>9. after.allowances["PSYS"][o]["stkPSYS"] = 0
    <3>1. [allowances EXCEPT !["PSYS"][o]["stkPSYS"] = v - v]["PSYS"][o]["stkPSYS"]
            = v - v
      BY <2>3, <2>8 DEF Grants
    <3>2. v - v = 0
      BY <2>8
    <3> QED  BY <2>8, <3>1, <3>2
  <2>10. /\ after.balances["PSYS"][o] = balances["PSYS"][o] - v
         /\ after.balances["stkPSYS"][o] = balances["stkPSYS"][o] + v
    <3>1. /\ Staked(balances, o, o, v)["PSYS"][o] = balances["PSYS"][o] - Part(o = o, v)
          /\ Staked(balances, o, o, v)["stkPSYS"][o]
                = balances["stkPSYS"][o] + Part(o = o, v)
      BY <2>3, <2>8, StakedDeltas
    <3>2. Part(o = o, v) = v
      BY DEF Part
    <3> QED  BY <2>8, <3>1, <3>2
  <2> QED  BY <2>6, <2>7, <2>9, <2>10 DEF o, v
<1>2. HistoryInit => StandingInv
  BY DEF HistoryInit, StandingInv
<1>3. HistoryInv /\ StandingInv /\ [HistoryNext]_historyVars => StandingInv'
  BY StandingStep
<1> QED  BY <1>1, <1>2, <1>3, HistoryInvariant, PTL DEF HistorySpec

=============================================================================
