--------------------------- MODULE DeploymentTasks ---------------------------
(***************************************************************************)
(* The hardhat tasks (src/tasks) and the functions they are made of        *)
(* (src/helpers), as the steps they go through.  A step is what happens up *)
(* to the next await; Deployment.tla says what each one does.  A call of   *)
(* another function or task is the sequence of its steps.                  *)
(*                                                                         *)
(* Left out: console output, constructor arguments and the signer a        *)
(* transaction is sent with.                                               *)
(***************************************************************************)
EXTENDS Sequences, Naturals

Do(what, arg) == <<[do |-> what, arg |-> arg]>>

\* localBRE.run('set-dre'); "used": the caller goes on with what it returns.
SetDre(used)      == Do("setDre", used)
CheckVerification == Do("checkVerification", {})
GetSigner         == Do("getSigner", {})
Wait              == Do("wait", {})
VerifyContract    == Do("verify", {})
Keep              == Do("keep", {})
RegisterContractInJsonDb(key) == Do("register", key)
Lookup(key)       == Do("lookup", key)
Throw(why)        == Do("throw", why)

When(condition, steps) == IF condition THEN steps ELSE <<>>

\* deployContract registers the contract under its name as soon as the
\* transaction is sent.
DeployContract(id) == Do("send", id) \o RegisterContractInJsonDb(id)

-----------------------------------------------------------------------------
(* contracts-accessors.ts *)

deployStakedPSYS(verify) ==
    DeployContract("StakedPSYS") \o When(verify, VerifyContract)

deployStakedPSYSV3(verify) ==
    DeployContract("StakedPSYSV3") \o When(verify, VerifyContract)

deployStakedTokenV3Revision3(verify) ==
    DeployContract("StakedTokenV3Rev3") \o When(verify, VerifyContract)

deployStakedTokenBptRevision2(verify) ==
    DeployContract("StakedTokenBptRev2") \o When(verify, VerifyContract)

deployPegasysIncentivesController(verify) ==
    DeployContract("PegasysIncentivesController") \o Wait
        \o When(verify, VerifyContract)

\* Mutant: goes on before the proxy is mined.
DeployProxyUnmined(verify) ==
    DeployContract("InitializableAdminUpgradeabilityProxy")
        \o When(verify, VerifyContract)

deployInitializableAdminUpgradeabilityProxy(verify) ==
    DeployContract("InitializableAdminUpgradeabilityProxy") \o Wait
        \o When(verify, VerifyContract)

deployDoubleTransferHelper(verify) ==
    DeployContract("DoubleTransferHelper") \o Wait \o When(verify, VerifyContract)

deployPegasysStakingHelper(verify) ==
    DeployContract("PegasysStakingHelper") \o When(verify, VerifyContract)

deployStakeUIHelper(verify) ==
    DeployContract("StakeUIHelper") \o When(verify, VerifyContract)

deployStakedTokenDataProvider(verify) ==
    DeployContract("StakedTokenDataProvider") \o When(verify, VerifyContract)

\* The accessors a script or a test calls without a task around them, by the
\* name of the contract.
Accessors(verify) ==
    [StakedPSYS                  |-> deployStakedPSYS(verify),
     StakedTokenBptRev2          |-> deployStakedTokenBptRevision2(verify),
     PegasysIncentivesController |-> deployPegasysIncentivesController(verify),
     DoubleTransferHelper        |-> deployDoubleTransferHelper(verify),
     SelfdestructTransfer        |-> DeployContract("SelfdestructTransfer") \o Wait,
     MintableErc20               |-> DeployContract("MintableErc20"),
     MockTransferHook            |-> DeployContract("MockTransferHook")]

-----------------------------------------------------------------------------
(* tasks/deployments *)

\* Mutant of DeployStakedPSYSV3: verifies the implementation at the end.
DeployTokenVerifiedLast(verify) ==
    SetDre(FALSE) \o When(verify, CheckVerification)
        \o DeployContract("StakedPSYSV3") \o Wait
        \o RegisterContractInJsonDb("Staked PSYS")
        \o deployInitializableAdminUpgradeabilityProxy(verify)
        \o VerifyContract \o RegisterContractInJsonDb("StakedPSYSV3")

\* The implementation is verified whatever the flag says, and registered a
\* second time under what name() answers.  The proxy then takes over the key
\* of the implementation.
DeployStakedPSYSV3(verify) ==
    SetDre(FALSE) \o When(verify, CheckVerification)
        \o deployStakedPSYSV3(TRUE) \o Wait
        \o RegisterContractInJsonDb("Staked PSYS")
        \o deployInitializableAdminUpgradeabilityProxy(verify)
        \o RegisterContractInJsonDb("StakedPSYSV3")

\* StakedPSYSV3.initialize() takes no argument: encoding four of them throws,
\* and the transaction that follows is never sent.
InitializeStakedPSYSV3 ==
    SetDre(FALSE) \o Lookup("StakedPSYSImpl") \o Lookup("StakedPSYSV3")
        \o Throw("encoding")

\* Mutant of DeployHelper: looks at the key only when it needs it.
DeployHelperUnchecked(id, deploy, verify) ==
    SetDre(FALSE) \o deploy \o Wait \o RegisterContractInJsonDb(id)

\* The common shape of the three tasks below.
DeployHelper(id, deploy, verify) ==
    SetDre(FALSE) \o When(verify, CheckVerification)
        \o deploy \o Wait \o RegisterContractInJsonDb(id)

DeployPegasysStakingHelper(verify) ==
    DeployHelper("PegasysStakingHelper", deployPegasysStakingHelper(verify), verify)

DeployStakeUIHelper(verify) ==
    DeployHelper("StakeUIHelper", deployStakeUIHelper(verify), verify)

\* It alone refuses parameters that are no address.
DeployStakedTokenDataProvider(verify, valid) ==
    IF valid THEN DeployHelper("StakedTokenDataProvider",
                               deployStakedTokenDataProvider(verify), verify)
             ELSE SetDre(FALSE) \o When(verify, CheckVerification)
                      \o Throw("parameter")

\* Returns the address of an implementation it did not wait for.
DeployStakedPsysRev3 ==
    SetDre(FALSE) \o GetSigner \o deployStakedTokenV3Revision3(TRUE) \o Keep

-----------------------------------------------------------------------------
(* tasks/migrations and tasks/misc *)

CommonDeployment(verify) ==
    SetDre(TRUE) \o When(verify, CheckVerification)
        \o DeployStakedPSYSV3(verify) \o InitializeStakedPSYSV3

\* It runs deploy-StakedPSYS, a task that is not defined.
DevDeployment == SetDre(TRUE) \o Throw("no such task")

\* It runs 'set-DRE', a task that is not defined, before all the rest.
VerifySC == Throw("no such task")

-----------------------------------------------------------------------------
(* tasks/proposals *)

\* An implementation address that is missing stops the task.
ProposeExtension(stkPSYSImpl, stkBptImpl) ==
    SetDre(FALSE) \o GetSigner
        \o When(~stkPSYSImpl \/ ~stkBptImpl, Throw("parameter"))
        \o Do("propose", "extension")

\* What is not given as a parameter is deployed; deploy-staked-bpt-rev2 is not
\* defined.
ProposalStkExtensions(stkPSYSImpl, stkBptImpl) ==
    SetDre(FALSE) \o GetSigner
        \o When(~stkPSYSImpl, DeployStakedPsysRev3)
        \o When(~stkBptImpl, Throw("no such task"))
        \o ProposeExtension(TRUE, TRUE)

ProposeVaultApproval ==
    SetDre(FALSE) \o GetSigner \o Do("propose", "approval")

ProposalVaultApproval == SetDre(FALSE) \o GetSigner \o ProposeVaultApproval

-----------------------------------------------------------------------------
\* The tasks that hardhat knows.
TaskNames == {"deploy-StakedPSYSV3", "initialize-StakedPSYSV3",
    "common-deployment", "dev-deployment", "verify-sc",
    "deploy-PegasysStakingHelper", "deploy-StakeUIHelper",
    "deploy-StakedTokenDataProvider", "deploy-staked-psys-rev3",
    "propose-extension", "proposal-stk-extensions",
    "propose-vault-approval", "proposal-vault-approval"}

\* The steps of a request: the command line of a task, or a script that calls
\* one accessor in an environment that is set up.
Steps(r) ==
    LET name == r.name IN
    CASE name = "deploy-StakedPSYSV3"            -> DeployStakedPSYSV3(r.verify)
      [] name = "initialize-StakedPSYSV3"        -> InitializeStakedPSYSV3
      [] name = "common-deployment"              -> CommonDeployment(r.verify)
      [] name = "dev-deployment"                 -> DevDeployment
      [] name = "verify-sc"                      -> VerifySC
      [] name = "deploy-PegasysStakingHelper"    -> DeployPegasysStakingHelper(r.verify)
      [] name = "deploy-StakeUIHelper"           -> DeployStakeUIHelper(r.verify)
      [] name = "deploy-StakedTokenDataProvider" ->
              DeployStakedTokenDataProvider(r.verify, r.valid)
      [] name = "deploy-staked-psys-rev3"        -> DeployStakedPsysRev3
      [] name = "propose-extension"              ->
              ProposeExtension(r.stkPSYSImpl # 0, r.stkBptImpl # 0)
      [] name = "proposal-stk-extensions"        ->
              ProposalStkExtensions(r.stkPSYSImpl # 0, r.stkBptImpl # 0)
      [] name = "propose-vault-approval"         -> ProposeVaultApproval
      [] name = "proposal-vault-approval"        -> ProposalVaultApproval
      [] OTHER -> SetDre(FALSE) \o Accessors(r.verify)[name]

=============================================================================
