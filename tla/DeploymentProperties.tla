------------------------- MODULE DeploymentProperties -------------------------
(* What the deployment tasks promise. *)
EXTENDS Deployment

\* The keys that a task leaves in the registry, with what is found there.
Promised(name) ==
    CASE name = "deploy-StakedPSYSV3" ->
            [k \in {"Staked PSYS", "StakedPSYSV3"} |->
                IF k = "Staked PSYS" THEN "StakedPSYSV3"
                ELSE "InitializableAdminUpgradeabilityProxy"]
      [] name = "deploy-PegasysStakingHelper" ->
            [PegasysStakingHelper |-> "PegasysStakingHelper"]
      [] name = "deploy-StakeUIHelper" -> [StakeUIHelper |-> "StakeUIHelper"]
      [] name = "deploy-StakedTokenDataProvider" ->
            [StakedTokenDataProvider |-> "StakedTokenDataProvider"]
      [] OTHER -> [k \in {} |-> ""]

(***************************************************************************)
(* A task that deploys and completes leaves in the registry contracts of   *)
(* its own, mined and of the right kind, whatever an earlier run that died *)
(* half way left there: under StakedPSYSV3 it is the proxy, not the        *)
(* implementation that had the key in between.  (deploy-StakedPSYSV3.ts,   *)
(* deployContract, registerContractInJsonDb)                               *)
(***************************************************************************)
CompletedMeansRegistered ==
    task.why = "completed" =>
        LET promised == Promised(task.request.name) IN
        \A k \in DOMAIN promised :
            /\ k \in DOMAIN registry /\ registry[k] \in task.deployed
            /\ contracts[registry[k]] = [kind |-> promised[k], status |-> "mined"]

(***************************************************************************)
(* "If Etherscan verification is enabled, check needed enviroments to      *)
(* prevent loss of gas in failed deployments" (deploy-StakedPSYSV3.ts:32). *)
(* A task that ends for want of the key, or because the explorer does not  *)
(* know the network, has sent nothing to the chain if it is run with the   *)
(* verify flag.  Two tasks verify an implementation without the flag, and  *)
(* so without the check: what they lose to a missing key is that one       *)
(* contract, never the proxy or a second one.  (checkVerification;         *)
(* deploy-StakedPSYSV3.ts:58, deploy-staked-psys-rev3.ts)                  *)
(***************************************************************************)
CheckedBeforeSpending ==
    task.why \in {"no key", "unsupported"} =>
        /\ task.request.verify => task.deployed = {}
        /\ \A a, b \in task.deployed : a = b

Family(p) == IF p = "PSYS_STAKE" THEN "StakedTokenV3Rev3" ELSE "StakedTokenBptRev2"

(***************************************************************************)
(* A live proxy never points to an address without code or to the other    *)
(* token's implementation, and its storage was initialized by the          *)
(* implementation it runs, also when a proposal names a contract that was  *)
(* never mined.  (deploy-staked-psys-rev3.ts does not wait;                *)
(* propose-extension.ts; _setImplementation, initializer)                  *)
(***************************************************************************)
ProxyRunsItsOwnToken ==
    \A p \in LiveProxies :
        LET proxy == proxies[p] IN
        proxy.implementation # 0 =>
            /\ contracts[proxy.implementation]
                    = [kind |-> Family(p), status |-> "mined"]
            /\ proxy.lastInitializedRevision = Revision(Family(p))

(***************************************************************************)
(* The initializer of a revision runs once in a proxy, however many        *)
(* proposals install an implementation of that revision: at most one       *)
(* extension is executed.  (VersionedInitializable.initializer)            *)
(***************************************************************************)
InitializedOnce ==
    \A j, k \in DOMAIN proposals :
        /\ proposals[j].executed /\ proposals[k].executed
        /\ DOMAIN proposals[j].upgrades # {} /\ DOMAIN proposals[k].upgrades # {}
        => j = k

(***************************************************************************)
(* A task that is started ends: it completes, throws, or dies with its     *)
(* process.  No answer of the explorer keeps it retrying for ever, and it  *)
(* waits for no transaction that is never mined.  (runTaskWithRetry)       *)
(***************************************************************************)
TaskEnds == task.status = "running" ~> task.status # "running"

-----------------------------------------------------------------------------
(* What comments and descriptions say, and the code does not keep. *)

(***************************************************************************)
(* common-deployment is the "Deployment in for Main, Kovan and Ropsten     *)
(* networks" (common-deployment.ts:8): with the key set and no transaction *)
(* refused or failed, it does not throw.  But initialize-StakedPSYSV3      *)
(* looks the implementation up under a key that no task writes.            *)
(***************************************************************************)
CommonDeploymentSucceeds ==
    task.status # "running" /\ task.request.name = "common-deployment"
        => task.why \in {"completed", "no key", "unsupported", "stale DRE",
                         "rejected", "failed", "crash"}

=============================================================================
