--------------------------- MODULE CooldownHistory ---------------------------
(***************************************************************************)
(* The staked token together with what an observer remembers of the        *)
(* cooldowns: activatedAt[u], the timestamp of u's latest call of          *)
(* cooldown(), 0 before the first.  The auxiliary variable restricts no    *)
(* step of the token.                                                      *)
(***************************************************************************)
EXTENDS StakedTokenProperties

VARIABLE activatedAt

historyVars == <<now, asset, balances, totalSupply, stakerRewardsToClaim,
                 stakersCooldowns, psys, activatedAt>>

HistoryInit == Init /\ activatedAt = [a \in Accounts |-> 0]

\* A call of cooldown() is remembered; nothing else touches the memory.
CooldownActivated ==
    \E u \in Users : /\ Cooldown(u)
                      /\ activatedAt' = [activatedAt EXCEPT ![u] = now]

HistoryNext ==
    \/ CooldownActivated
    \/ StakeStep /\ UNCHANGED activatedAt
    \/ RedeemStep /\ UNCHANGED activatedAt
    \/ ClaimStep /\ UNCHANGED activatedAt
    \/ TransferStep /\ UNCHANGED activatedAt
    \/ ConfigureStep /\ UNCHANGED activatedAt
    \/ Tick /\ UNCHANGED activatedAt

HistorySpec == HistoryInit /\ [][HistoryNext]_historyVars

(***************************************************************************)
(* A running cooldown was started by its owner and never runs ahead of the *)
(* owner's latest activation: stakes and transfers, whoever sent them,     *)
(* moved it later or cleared it.  (cooldown, getNextCooldownTimestamp)     *)
(***************************************************************************)
CooldownRespected ==
    \A a \in Accounts :
        stakersCooldowns[a] # 0 =>
            /\ activatedAt[a] # 0
            /\ stakersCooldowns[a] \in activatedAt[a] .. now

(***************************************************************************)
(* Nobody withdraws without having waited: when stkPSYS leave an account   *)
(* and are burnt, the account's owner called cooldown(), and its latest    *)
(* call is more than COOLDOWN_SECONDS ago.  README.md: "if an user staking *)
(* withdraws, he already respected a cooldown period".                     *)
(***************************************************************************)
WithdrawalAfterCooldown ==
    [][\A a \in Accounts :
            totalSupply' < totalSupply /\ balances'[a] < balances[a] =>
                /\ activatedAt[a] # 0
                /\ now > activatedAt[a] + COOLDOWN_SECONDS]_historyVars

=============================================================================
