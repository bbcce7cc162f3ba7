------------------------ MODULE StakedTokenProperties ------------------------
(***************************************************************************)
(* What the staked token must satisfy, on its own state.                   *)
(***************************************************************************)
EXTENDS StakedToken, LedgerTotal

(***************************************************************************)
(* Every stkPSYS is a claim on one PSYS the contract holds: the supply is  *)
(* what the accounts own together, and the contract holds at least that    *)
(* much.  It holds more once somebody redeems, or claims rewards, to the   *)
(* contract's own address.  (stake, redeem, claimRewards, _transfer)       *)
(***************************************************************************)
SupplyBacked ==
    /\ totalSupply = Total(balances)
    /\ totalSupply <= psys[StakeContract]

(***************************************************************************)
(* An account without stkPSYS has no cooldown running, so that tokens it   *)
(* receives later start from nothing; the weighted average of              *)
(* getNextCooldownTimestamp therefore never divides by zero.               *)
(* (redeem and _transfer clear the stamp of an emptied account)            *)
(***************************************************************************)
NoStaleCooldown ==
    \A a \in Accounts : balances[a] = 0 => stakersCooldowns[a] = 0

(***************************************************************************)
(* The accounting never subtracts past zero: the distribution was never    *)
(* settled in the future, and no user's index is ahead of the              *)
(* distribution's.  (_updateAssetStateInternal, _updateUserAssetInternal)  *)
(***************************************************************************)
IndexesOrdered ==
    /\ asset.lastUpdateTimestamp <= now
    /\ \A a \in Accounts : asset.users[a] <= asset.index

\* A cooldown was started in the past.
StampsPast == \A a \in Accounts : stakersCooldowns[a] <= now

(***************************************************************************)
(* The inductive invariant of the staked token: what every handler needs   *)
(* to find in order to leave it in place.  Types need IndexesOrdered (no   *)
(* negative reward) and NoStaleCooldown (no division by zero), and the     *)
(* average of two stamps is past only if both are.                         *)
(***************************************************************************)
IndInv ==
    /\ TypeOK
    /\ StartTime <= now
    /\ IndexesOrdered
    /\ NoStaleCooldown
    /\ StampsPast

(***************************************************************************)
(* A stake can always be taken out: whoever has stkPSYS and is in the      *)
(* unstake window can redeem all of it, whatever the others did and        *)
(* however little is left in the rewards vault; no subtraction of the      *)
(* reward accounting and no transfer of PSYS stands in the way.  (redeem)  *)
(***************************************************************************)
HolderCanExit ==
    \A u \in Users :
        balances[u] # 0 /\ InUnstakeWindow(u) => ENABLED Redeem(u, u, MAX_UINT256)

\* The seconds of cooldown a share of a has behind it; none if it has expired.
Waited(a) ==
    IF stakersCooldowns[a] = 0 \/ minimalValidCooldownTimestamp > stakersCooldowns[a]
    THEN 0 ELSE now - stakersCooldowns[a]

\* What the shares a receives in a step have behind them: new ones nothing.
WaitedByGivers(a) ==
    LET givers == {g \in Accounts : balances'[g] < balances[g]}
    IN  IF givers = {} THEN 0 ELSE Waited(CHOOSE g \in givers : TRUE)

(***************************************************************************)
(* Waiting is never created: after a receipt, the shares of the receiver   *)
(* have together waited less than one second per share (the rounding of    *)
(* the average) more than the same shares had waited before, each with its *)
(* owner.  A stake or a transfer into an account about to leave does not   *)
(* lend that account's waiting to the new shares.                          *)
(* (getNextCooldownTimestamp)                                              *)
(***************************************************************************)
WaitingNotCreated ==
    [][\A a \in Accounts :
            balances'[a] > balances[a] /\ now' = now =>
                balances'[a] * Waited(a)'
                  <= balances[a] * Waited(a)
                     + (balances'[a] - balances[a]) * WaitedByGivers(a)
                     + balances'[a] - 1]_vars

(***************************************************************************)
(* Waiting is not lost either: a receipt postpones the exit of a waiting   *)
(* account by dilution only.  Its own shares keep all they had waited, and *)
(* the new ones count as what they had waited, up to the waiting of the    *)
(* receiver; the rounding is in the receiver's favour.  Nobody who stakes  *)
(* for another, or transfers to it, restarts its cooldown.                 *)
(* (getNextCooldownTimestamp)                                              *)
(***************************************************************************)
WaitingNotLost ==
    [][\A a \in Accounts :
            balances'[a] > balances[a] /\ now' = now =>
                LET waited  == Waited(a)
                    counted == IF WaitedByGivers(a) < waited
                               THEN WaitedByGivers(a) ELSE waited
                IN  balances[a] * waited + (balances'[a] - balances[a]) * counted
                      <= balances'[a] * Waited(a)']_vars

(***************************************************************************)
(* The staked token implements the exit gate: every change of a balance or *)
(* of a cooldown stamp, by any sequence of stakes, transfers, redeems and  *)
(* cooldowns, is one the gate allows.  README.md: "movement of funds       *)
(* should only affect negatively the cooldown period".                     *)
(***************************************************************************)
Gate == INSTANCE ExitGate WITH
            Holders <- Accounts, DELAY <- COOLDOWN_SECONDS,
            WINDOW <- UNSTAKE_WINDOW, clock <- now, shares <- balances,
            stamp <- stakersCooldowns

ImplementsExitGate == Gate!GateSpec

=============================================================================
