------------------------------ MODULE Deployment ------------------------------
(***************************************************************************)
(* An operator runs the tasks of DeploymentTasks, one after the other, in  *)
(* a hardhat process that can die at every await.  What survives it: the   *)
(* chain, the transactions on their way to it, deployed-contracts.json     *)
(* (the registry), and what the block explorer has verified.  Governance   *)
(* executes the proposals that the tasks create, on the two staked-token   *)
(* proxies that are live on the main network.                              *)
(*                                                                         *)
(* External: the chain, which mines a transaction or lets it fail; the     *)
(* hardhat network, a chain that mines at once and ends with the process;  *)
(* the explorer; governance, which executes all calls of a proposal or     *)
(* none.                                                                   *)
(***************************************************************************)
EXTENDS DeploymentTasks, FiniteSets, SequencesExt

CONSTANTS
    Networks,           \* the networks the operator may work on
    Requests,           \* the names of the tasks and accessors it runs
    MaxTasks,           \* bound: how many of them it starts
    MaxContracts,       \* bound: how many contracts there are
    EarlierContracts    \* implementations deployed on "main" before, by
                        \* an operator with a registry of his own

ASSUME DeploymentAssumption ==
    /\ Networks \subseteq {"main", "hardhat"}
    /\ Requests \subseteq TaskNames \cup DOMAIN Accessors(FALSE)
    /\ {MaxTasks, MaxContracts} \subseteq Nat
    /\ EarlierContracts \in
            Seq([kind : {"StakedTokenV3Rev3", "StakedTokenBptRev2"},
                 status : {"pending", "mined", "failed"}])

VARIABLES
    environment,        \* the network and whether ETHERSCAN_KEY is set
    dre,                \* is DRE set in the process?
    task,               \* the task the process runs, or ran last
    contracts,          \* sequence of contracts sent to the chain: an address
                        \* is a position in it, 0 an address that is not one
    registry,           \* deployed-contracts.json: from keys to addresses
    verified,           \* addresses whose source the explorer has accepted
    proxies,            \* storage of the live proxies
    approvals,          \* proxies the rewards vault lets pull PSYS
    proposals           \* sequence of governance proposals

vars == <<environment, dre, task, contracts, registry, verified, proxies,
          approvals, proposals>>

SUPPORTED_ETHERSCAN_NETWORKS == {"main", "ropsten", "kovan", "goerli"}

LiveProxies == {"PSYS_STAKE", "STK_BPT_STAKE"}

\* REVISION of the implementations the proposals install.
Revision(kind) == IF kind = "StakedTokenV3Rev3" THEN 3 ELSE 2

Idle == [request |-> [name |-> "none"], steps |-> <<>>, instance |-> 0,
         stkPSYSImpl |-> 0, stkBptImpl |-> 0, times |-> 0, waiting |-> FALSE,
         deployed |-> {}, status |-> "ended", why |-> "none", started |-> 0]

Init ==
    /\ environment \in [network : Networks, etherscanKey : BOOLEAN]
    /\ dre = FALSE
    /\ task = Idle
    /\ contracts = IF environment.network = "main" THEN EarlierContracts ELSE <<>>
    /\ registry = [k \in {} |-> 0]
    /\ verified = {} /\ approvals = {} /\ proposals = <<>>
    /\ proxies = [p \in LiveProxies |->
                    [implementation |-> 0,      \* the one from before
                     lastInitializedRevision |-> IF p = "PSYS_STAKE" THEN 2 ELSE 1]]

-----------------------------------------------------------------------------
(* The process. *)

At(what)    == /\ task.status = "running" /\ task.steps # <<>>
               /\ Head(task.steps).do = what
Argument    == Head(task.steps).arg
Continued   == [task EXCEPT !.steps = Tail(@)]
Ended(why)  == [task EXCEPT !.status = "ended", !.why = why, !.steps = <<>>,
                            !.instance = 0, !.stkPSYSImpl = 0, !.stkBptImpl = 0,
                            !.times = 0, !.waiting = FALSE]
Mined(a)    == contracts[a].status = "mined"

\* The addresses of a kind that an operator can have seen.
Known(kind) == {0} \cup {a \in DOMAIN contracts : contracts[a].kind = kind}

VerifyFlag == {"deploy-StakedPSYSV3", "common-deployment",
    "deploy-PegasysStakingHelper", "deploy-StakeUIHelper",
    "deploy-StakedTokenDataProvider"}

\* The command lines: the addresses passed are of the right contracts.  The
\* scripts call the accessors without verification.
CommandLines ==
    {r \in [name : Requests, verify : BOOLEAN, valid : BOOLEAN,
            stkPSYSImpl : Known("StakedTokenV3Rev3"),
            stkBptImpl : Known("StakedTokenBptRev2")] :
        /\ r.verify => r.name \in VerifyFlag
        /\ r.name = "deploy-StakedTokenDataProvider" \/ r.valid
        /\ r.name \in {"propose-extension", "proposal-stk-extensions"}
                \/ (r.stkPSYSImpl = 0 /\ r.stkBptImpl = 0)}

\* A fresh process, or a further task in the one that is alive.
StartTask(r, fresh) ==
    /\ task.status # "running" /\ task.started < MaxTasks
    /\ task.status = "dead" => fresh
    /\ dre' = (dre /\ ~fresh)
    /\ task' = [Idle EXCEPT !.request = r, !.steps = Steps(r),
                            !.stkPSYSImpl = r.stkPSYSImpl,
                            !.stkBptImpl = r.stkBptImpl,
                            !.status = "running", !.started = task.started + 1]
    /\ contracts' = IF fresh /\ environment.network = "hardhat" THEN <<>>
                                                                ELSE contracts
    /\ UNCHANGED <<environment, registry, verified, proxies, approvals, proposals>>

Crash ==
    /\ task.status = "running"
    /\ task' = [Ended("crash") EXCEPT !.status = "dead"]
    /\ dre' = FALSE
    /\ UNCHANGED <<environment, contracts, registry, verified, proxies,
                   approvals, proposals>>

\* set-dre: it returns nothing when DRE is set, and a caller that uses the
\* result throws.
SetDreStep ==
    /\ At("setDre")
    /\ task' = IF Argument /\ dre THEN Ended("stale DRE") ELSE Continued
    /\ dre' = TRUE
    /\ UNCHANGED <<environment, contracts, registry, verified, proxies,
                   approvals, proposals>>

\* checkVerification: exit(3) without a key, exit(5) on another network.
CheckVerificationStep ==
    /\ At("checkVerification")
    /\ LET why == IF ~environment.etherscanKey THEN "no key"
                  ELSE IF environment.network \notin SUPPORTED_ETHERSCAN_NETWORKS
                  THEN "unsupported" ELSE "none"
       IN  /\ task' = IF why = "none" THEN Continued
                      ELSE [Ended(why) EXCEPT !.status = "dead"]
           /\ dre' = (dre /\ why = "none")
    /\ UNCHANGED <<environment, contracts, registry, verified, proxies,
                   approvals, proposals>>

ThrowStep ==
    /\ At("throw")
    /\ task' = Ended(Argument)
    /\ UNCHANGED <<environment, dre, contracts, registry, verified, proxies,
                   approvals, proposals>>

\* The node, or the signer, refuses what the task asks for.
Rejected ==
    /\ \E what \in {"send", "wait", "getSigner", "propose"} : At(what)
    /\ task' = Ended("rejected")
    /\ UNCHANGED <<environment, dre, contracts, registry, verified, proxies,
                   approvals, proposals>>

GetSignerStep ==
    /\ At("getSigner")
    /\ task' = Continued
    /\ UNCHANGED <<environment, dre, contracts, registry, verified, proxies,
                   approvals, proposals>>

\* factory.deploy: the transaction is sent, not mined.
Send ==
    /\ At("send") /\ Len(contracts) < MaxContracts
    /\ contracts' = Append(contracts,
            [kind |-> Argument,
             status |-> IF environment.network = "hardhat" THEN "mined"
                                                           ELSE "pending"])
    /\ task' = [Continued EXCEPT !.instance = Len(contracts'),
                                 !.deployed = @ \cup {Len(contracts')}]
    /\ UNCHANGED <<environment, dre, registry, verified, proxies, approvals,
                   proposals>>

\* registerContractInJsonDb: the key is overwritten.
RegisterStep ==
    /\ At("register")
    /\ registry' = [k \in DOMAIN registry \cup {Argument} |->
                        IF k = Argument THEN task.instance ELSE registry[k]]
    /\ task' = Continued
    /\ UNCHANGED <<environment, dre, contracts, verified, proxies, approvals,
                   proposals>>

\* getStakedPSYSImpl, getStakedPSYSProxy: a key that is missing throws.
LookupStep ==
    /\ At("lookup")
    /\ task' = IF Argument \in DOMAIN registry THEN Continued
                                               ELSE Ended("not registered")
    /\ UNCHANGED <<environment, dre, contracts, registry, verified, proxies,
                   approvals, proposals>>

\* deployTransaction.wait(): throws when the transaction failed.
WaitStep ==
    /\ At("wait") /\ contracts[task.instance].status # "pending"
    /\ task' = IF Mined(task.instance) THEN Continued ELSE Ended("failed")
    /\ UNCHANGED <<environment, dre, contracts, registry, verified, proxies,
                   approvals, proposals>>

\* The result of a task that another one runs.
KeepStep ==
    /\ At("keep")
    /\ task' = [Continued EXCEPT !.stkPSYSImpl = task.instance]
    /\ UNCHANGED <<environment, dre, contracts, registry, verified, proxies,
                   approvals, proposals>>

Finish ==
    /\ task.status = "running" /\ task.steps = <<>>
    /\ task' = Ended("completed")
    /\ UNCHANGED <<environment, dre, contracts, registry, verified, proxies,
                   approvals, proposals>>

-----------------------------------------------------------------------------
(* verifyContract and runTaskWithRetry: task.times attempts are left; each *)
(* one begins with a delay ("waiting").                                    *)

VERIFY_TIMES == 4

VerifyStep ==
    /\ At("verify") /\ ~task.waiting /\ task.times = 0
    /\ \/ /\ ~environment.etherscanKey
          /\ task' = Ended("no key")
       \/ /\ environment.etherscanKey         \* on another network, or when
          /\ task' = Continued                \* the temporary file fails
       \/ /\ environment.etherscanKey
          /\ environment.network \in SUPPORTED_ETHERSCAN_NETWORKS
          /\ task' = [task EXCEPT !.times = VERIFY_TIMES, !.waiting = TRUE]
    /\ UNCHANGED <<environment, dre, contracts, registry, verified, proxies,
                   approvals, proposals>>

Delay ==
    /\ task.status = "running" /\ task.waiting /\ task.times > 0
    /\ task' = [task EXCEPT !.waiting = FALSE]
    /\ UNCHANGED <<environment, dre, contracts, registry, verified, proxies,
                   approvals, proposals>>

\* The explorer accepts the source, has it already, or answers with an error
\* that is not worth a retry (a missing bytecode is one).
VerificationEnds ==
    /\ At("verify") /\ ~task.waiting /\ task.times > 0
    /\ \/ Mined(task.instance) /\ verified' = verified \cup {task.instance}
       \/ UNCHANGED verified
    /\ task' = [Continued EXCEPT !.times = 0]
    /\ UNCHANGED <<environment, dre, contracts, registry, proxies, approvals,
                   proposals>>

\* Mutant of TimesLeft: the recursion passes on its own argument.
TimesLeftSame(times) == times

TimesLeft(times) == times - 1

\* Any other error, also an answer that got lost after the explorer had
\* accepted the source.
VerificationRetries ==
    /\ At("verify") /\ ~task.waiting /\ task.times > 0
    /\ \/ Mined(task.instance) /\ verified' = verified \cup {task.instance}
       \/ UNCHANGED verified
    /\ task' = [task EXCEPT !.times = TimesLeft(@), !.waiting = TRUE]
    /\ UNCHANGED <<environment, dre, contracts, registry, proxies, approvals,
                   proposals>>

\* No attempt is left: an error is logged, the deployment goes on.
VerificationGivesUp ==
    /\ At("verify") /\ task.waiting /\ task.times = 0
    /\ task' = [Continued EXCEPT !.waiting = FALSE]
    /\ UNCHANGED <<environment, dre, contracts, registry, verified, proxies,
                   approvals, proposals>>

-----------------------------------------------------------------------------
(* Proposals. *)

\* upgradeToAndCall of each proxy, with the initializer of its implementation.
ExtensionCalls(stkPSYSImpl, stkBptImpl) ==
    [PSYS_STAKE |-> stkPSYSImpl, STK_BPT_STAKE |-> stkBptImpl]

\* approve, through the controller of the rewards vault, for each proxy.
ApprovalTargets == LiveProxies

\* gov.create; on a chain without governance the call has no effect.
Propose ==
    /\ At("propose")
    /\ proposals' =
         IF environment.network # "main" THEN proposals
         ELSE Append(proposals,
                [executed |-> FALSE,
                 upgrades |-> IF Argument = "extension"
                              THEN ExtensionCalls(task.stkPSYSImpl, task.stkBptImpl)
                              ELSE [p \in {} |-> 0],
                 approves |-> IF Argument = "approval" THEN ApprovalTargets ELSE {}])
    /\ task' = Continued
    /\ UNCHANGED <<environment, dre, contracts, registry, verified, proxies,
                   approvals>>

\* Mutants of the two checks.
NoCodeCheck(a) == TRUE
MayRepeat(proxy, kind) == Revision(kind) >= proxy.lastInitializedRevision

\* Address.isContract
IsContract(a) == Mined(a)

\* VersionedInitializable.initializer
MayInitialize(proxy, kind) == Revision(kind) > proxy.lastInitializedRevision

\* upgradeToAndCall: the implementation must have code, and its initializer
\* must not revert.
CanUpgrade(p, a) ==
    /\ IsContract(a)
    /\ MayInitialize(proxies[p], contracts[a].kind)

ExecuteProposal(k) ==
    /\ ~proposals[k].executed
    /\ \A p \in DOMAIN proposals[k].upgrades : CanUpgrade(p, proposals[k].upgrades[p])
    /\ proxies' = [p \in LiveProxies |->
            IF p \notin DOMAIN proposals[k].upgrades THEN proxies[p]
            ELSE LET a == proposals[k].upgrades[p] IN
                 [implementation |-> a,
                  lastInitializedRevision |-> Revision(contracts[a].kind)]]
    /\ approvals' = approvals \cup proposals[k].approves
    /\ proposals' = [proposals EXCEPT ![k].executed = TRUE]
    /\ UNCHANGED <<environment, dre, task, contracts, registry, verified>>

-----------------------------------------------------------------------------
\* A transaction is mined, or it fails.
Mine(a) ==
    /\ contracts[a].status = "pending"
    /\ \E status \in {"mined", "failed"} :
            contracts' = [contracts EXCEPT ![a].status = status]
    /\ UNCHANGED <<environment, dre, task, registry, verified, proxies,
                   approvals, proposals>>

ProcessStep ==
    \/ SetDreStep \/ CheckVerificationStep \/ ThrowStep \/ Rejected
    \/ GetSignerStep \/ Send \/ RegisterStep \/ LookupStep \/ WaitStep
    \/ KeepStep \/ Finish \/ VerifyStep \/ Delay \/ VerificationEnds
    \/ VerificationRetries \/ VerificationGivesUp \/ Propose

MineStep    == \E a \in DOMAIN contracts : Mine(a)
StartStep   == \E r \in CommandLines, fresh \in BOOLEAN : StartTask(r, fresh)
ExecuteStep == \E k \in DOMAIN proposals : ExecuteProposal(k)

Next == ProcessStep \/ MineStep \/ StartStep \/ ExecuteStep \/ Crash

(***************************************************************************)
(* Fairness.  An await on the node, the signer or the explorer returns or  *)
(* throws, so a process that lives goes on; only the wait for a            *)
(* transaction need not throw and lasts until it is mined or fails, which  *)
(* it does.  Nobody has to start a task or to execute a proposal, and no   *)
(* process has to crash.                                                   *)
(***************************************************************************)
Answered == ProcessStep /\ (At("wait") => ~Rejected)

Spec == /\ Init /\ [][Next]_vars
        /\ WF_vars(Answered) /\ WF_vars(MineStep)

=============================================================================
