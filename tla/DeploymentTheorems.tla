-------------------------- MODULE DeploymentTheorems --------------------------
(***************************************************************************)
(* The promises of the deployment tasks, for any number of tasks, crashes, *)
(* contracts and proposals, on either network.                             *)
(*                                                                         *)
(* A task is a sequence of steps that is fixed when it is started; what a  *)
(* state must remember is what the steps done so far have left behind.     *)
(* RunInv says so for any sequence of steps.  What the sequence of each    *)
(* task has in particular (the key is checked first; the proxy is          *)
(* registered last and after it was mined) is a lemma about that sequence. *)
(***************************************************************************)
EXTENDS DeploymentProperties, SequenceTheorems, WellFoundedInduction, TLAPS

-----------------------------------------------------------------------------
(* The invariant. *)

Program == Steps(task.request)

\* What step i of a program does, and with what.
What(s, i) == s[i].do
With(s, i) == s[i].arg

\* How many steps are done.
Done == Len(Program) - Len(task.steps)

\* Step l of s sends a contract, and no later one up to step i does.
LastSend(s, l, i) ==
    What(s, l) = "send" /\ \A j \in l + 1 .. i : What(s, j) # "send"

WaitsBetween(s, l, i) == \E w \in l + 1 .. i : What(s, w) = "wait"

\* Step i of s is the last one, up to step n, that registers its key.
LastRegister(s, i, n) ==
    /\ What(s, i) = "register"
    /\ \A j \in i + 1 .. n : What(s, j) = "register" => With(s, j) # With(s, i)

\* A contract of this run, and of the kind sent.
Deployed(a, kind) ==
    a \in task.deployed /\ a \in DOMAIN contracts /\ contracts[a].kind = kind

StepsFollowProgram ==
    /\ Len(task.steps) <= Len(Program)
    /\ \A i \in 1 .. Len(task.steps) : task.steps[i] = Program[Done + i]

\* The instance is the contract that was sent last, mined if it was waited for.
InstanceSent ==
    \A l \in 1 .. Done : LastSend(Program, l, Done) =>
        /\ Deployed(task.instance, With(Program, l))
        /\ WaitsBetween(Program, l, Done) => Mined(task.instance)

\* A key that was registered holds what had been sent last at that time.
KeysRegistered ==
    \A i \in 1 .. Done, l \in 1 .. Done :
        l <= i /\ LastRegister(Program, i, Done) /\ LastSend(Program, l, i) =>
            /\ With(Program, i) \in DOMAIN registry
            /\ Deployed(registry[With(Program, i)], With(Program, l))
            /\ WaitsBetween(Program, l, i) => Mined(registry[With(Program, i)])

\* The checks that were made have passed, and nothing was thrown.
ChecksPassed ==
    \A i \in 1 .. Done :
        /\ What(Program, i) # "throw"
        /\ What(Program, i) = "checkVerification" =>
                environment.etherscanKey /\ environment.network = "main"

NothingSentBefore == task.deployed # {} => \E l \in 1 .. Done : What(Program, l) = "send"

\* Two contracts took two steps that send.
SentApart ==
    \A a, b \in task.deployed : a # b =>
        \E k, l \in 1 .. Done :
            k < l /\ What(Program, k) = "send" /\ What(Program, l) = "send"

\* The implementations of the proposal: given, or deployed and kept.
ImplementationsKnown ==
    /\ task.stkBptImpl = task.request.stkBptImpl
    /\ IF \E i \in 1 .. Done : What(Program, i) = "keep"
       THEN task.stkPSYSImpl # 0
       ELSE task.stkPSYSImpl = task.request.stkPSYSImpl
    /\ environment.network = "main" =>
            /\ task.stkPSYSImpl \in Known("StakedTokenV3Rev3")
            /\ task.stkBptImpl \in Known("StakedTokenBptRev2")

RunInv ==
    task.status = "running" =>
        /\ task.why = "none"
        /\ StepsFollowProgram
        /\ InstanceSent
        /\ KeysRegistered
        /\ ChecksPassed
        /\ NothingSentBefore
        /\ SentApart
        /\ ImplementationsKnown

\* What a proposal names, it names for both proxies, and no address is missing.
ProposalSound(proposal) ==
    /\ proposal.approves \in {{}, LiveProxies}
    /\ DOMAIN proposal.upgrades \in {{}, LiveProxies}
    /\ \A p \in DOMAIN proposal.upgrades :
            LET a == proposal.upgrades[p] IN
            a \in DOMAIN contracts /\ contracts[a].kind = Family(p)

ProposalsSound == \A k \in DOMAIN proposals : ProposalSound(proposals[k])

\* The proxies as the first extension finds them, and as it leaves them.
Before ==
    /\ \A p \in LiveProxies : proxies[p].implementation = 0
    /\ \A k \in DOMAIN proposals :
            proposals[k].executed => DOMAIN proposals[k].upgrades = {}

Upgraded ==
    \A p \in LiveProxies :
        /\ proxies[p].implementation \in DOMAIN contracts
        /\ contracts[proxies[p].implementation] = [kind |-> Family(p), status |-> "mined"]
        /\ proxies[p].lastInitializedRevision = Revision(Family(p))

ProxiesSound == Before \/ Upgraded

GovernanceInv ==
    /\ environment.network # "main" =>
            proposals = <<>> /\ \A p \in LiveProxies : proxies[p].implementation = 0
    /\ approvals \in {{}, LiveProxies}
    /\ ProposalsSound
    /\ ProxiesSound
    /\ InitializedOnce

\* What the task sent is there.
DeployedThere == task.deployed \subseteq DOMAIN contracts

DeploymentInv ==
    /\ RunInv
    /\ GovernanceInv
    /\ DeployedThere
    /\ CompletedMeansRegistered
    /\ CheckedBeforeSpending

-----------------------------------------------------------------------------
(* The programs. *)

\* The contracts, the keys of the registry, and the reasons to end.
Names ==
    {"StakedPSYS", "StakedPSYSV3", "StakedTokenV3Rev3", "StakedTokenBptRev2",
     "PegasysIncentivesController", "InitializableAdminUpgradeabilityProxy",
     "DoubleTransferHelper", "PegasysStakingHelper", "StakeUIHelper",
     "StakedTokenDataProvider", "SelfdestructTransfer", "MintableErc20",
     "MockTransferHook", "Staked PSYS", "StakedPSYSImpl"}

Thrown == {"encoding", "parameter", "no such task"}

Whys == Thrown \cup {"none", "crash", "stale DRE", "no key", "unsupported", "rejected",
                     "not registered", "failed", "completed"}

PlainSteps ==
    [do : {"setDre"}, arg : BOOLEAN]
        \cup [do : {"checkVerification", "getSigner", "wait", "verify"}, arg : {{}}]
        \cup [do : {"send", "register", "lookup"}, arg : Names]

Throws == [do : {"throw"}, arg : Thrown]

AnyStep == PlainSteps \cup Throws \cup [do : {"keep"}, arg : {{}}]
               \cup [do : {"propose"}, arg : {"extension", "approval"}]

Commands ==
    {r \in [name : Requests, verify : BOOLEAN, valid : BOOLEAN,
            stkPSYSImpl : Nat, stkBptImpl : Nat] :
        r.verify => r.name \in VerifyFlag}

Contract == [kind : Names, status : {"pending", "mined", "failed"}]

Task == [request : Commands \cup {[name |-> "none"]}, steps : Seq(AnyStep),
         instance : Nat, stkPSYSImpl : Nat, stkBptImpl : Nat, times : Nat,
         waiting : BOOLEAN, deployed : SUBSET Nat,
         status : {"running", "ended", "dead"}, why : Whys, started : Nat]

Proposal == [executed : BOOLEAN,
             upgrades : [{} -> Nat] \cup [LiveProxies -> Nat],
             approves : SUBSET LiveProxies]

\* The types of the state.
DeploymentTypes ==
    /\ environment \in [network : {"main", "hardhat"}, etherscanKey : BOOLEAN]
    /\ task \in Task
    /\ task.status = "running" => task.request \in Commands
    /\ contracts \in Seq(Contract)
    /\ proposals \in Seq(Proposal)
    /\ proxies \in [LiveProxies -> [implementation : Nat, lastInitializedRevision : Nat]]

\* One sequence of steps after another.  The operators stand between the
\* provers and what they make of the built-in ones.
Then(s, t) == s \o t
IsProgram(s) == s \in Seq(AnyStep)
Size(s) == Len(s)

LEMMA Joined ==
    ASSUME NEW s, NEW t, IsProgram(s), IsProgram(t)
    PROVE  /\ IsProgram(Then(s, t)) /\ Size(s) \in Nat /\ Size(t) \in Nat
           /\ Size(Then(s, t)) = Size(s) + Size(t)
           /\ \A i \in 1 .. Size(s) :
                /\ What(Then(s, t), i) = What(s, i)
                /\ With(Then(s, t), i) = With(s, i)
           /\ \A i \in 1 .. Size(t) :
                /\ What(Then(s, t), Size(s) + i) = What(t, i)
                /\ With(Then(s, t), Size(s) + i) = With(t, i)
<1>1. s \in Seq(AnyStep) /\ t \in Seq(AnyStep)
  BY DEF IsProgram
<1>2. /\ s \o t \in Seq(AnyStep) /\ Len(s) \in Nat /\ Len(t) \in Nat
      /\ Len(s \o t) = Len(s) + Len(t)
  BY <1>1
<1>3. ASSUME NEW i \in 1 .. Len(s) PROVE (s \o t)[i] = s[i]
  BY <1>1
<1>4. ASSUME NEW i \in 1 .. Len(t) PROVE (s \o t)[Len(s) + i] = t[i]
  BY <1>1
<1> QED
  BY <1>2, <1>3, <1>4 DEF IsProgram, Then, Size, What, With

LEMMA JoinedIn ==
    ASSUME NEW S, NEW s \in Seq(S), NEW t \in Seq(S)
    PROVE  s \o t \in Seq(S)
  OBVIOUS

\* A single step.
LEMMA Single ==
    ASSUME NEW what, NEW arg
    PROVE  LET step == [do |-> what, arg |-> arg] IN
           /\ Len(Do(what, arg)) = 1
           /\ Do(what, arg)[1] = step
           /\ \A S : step \in S => Do(what, arg) \in Seq(S)
  BY DEF Do

LEMMA WhenIn ==
    ASSUME NEW S, NEW condition, NEW s, condition => s \in Seq(S)
    PROVE  When(condition, s) \in Seq(S)
<1>1. CASE condition
  BY <1>1 DEF When
<1>2. CASE ~ condition
  BY <1>2 DEF When
<1> QED
  BY <1>1, <1>2

\* The steps that the tasks are made of.
LEMMA PlainParts ==
    /\ \A used \in BOOLEAN : SetDre(used) \in Seq(PlainSteps)
    /\ \A key \in Names : /\ RegisterContractInJsonDb(key) \in Seq(PlainSteps)
                           /\ Lookup(key) \in Seq(PlainSteps)
                           /\ Do("send", key) \in Seq(PlainSteps)
                           /\ DeployContract(key) \in Seq(PlainSteps)
    /\ {CheckVerification, GetSigner, Wait, VerifyContract} \subseteq Seq(PlainSteps)
<1>1. \A what \in {"send", "register", "lookup"}, key \in Names :
          Do(what, key) \in Seq(PlainSteps)
  BY Single DEF PlainSteps
<1>2. \A used \in BOOLEAN : Do("setDre", used) \in Seq(PlainSteps)
  BY Single DEF PlainSteps
<1>3. \A what \in {"checkVerification", "getSigner", "wait", "verify"} :
          Do(what, {}) \in Seq(PlainSteps)
  BY Single DEF PlainSteps
<1>4. \A key \in Names : DeployContract(key) \in Seq(PlainSteps)
  BY <1>1, JoinedIn DEF DeployContract, RegisterContractInJsonDb
<1> QED
  BY <1>1, <1>2, <1>3, <1>4
  DEF SetDre, RegisterContractInJsonDb, Lookup, CheckVerification, GetSigner, Wait,
      VerifyContract

\* What the two tasks that deploy the token and a helper are put together from.
LEMMA PlainAccessors ==
    ASSUME NEW verify \in BOOLEAN
    PROVE  /\ deployStakedPSYS(verify) \in Seq(PlainSteps)
           /\ deployStakedPSYSV3(verify) \in Seq(PlainSteps)
           /\ deployStakedTokenV3Revision3(verify) \in Seq(PlainSteps)
           /\ deployStakedTokenBptRevision2(verify) \in Seq(PlainSteps)
           /\ deployPegasysIncentivesController(verify) \in Seq(PlainSteps)
           /\ deployInitializableAdminUpgradeabilityProxy(verify) \in Seq(PlainSteps)
           /\ deployDoubleTransferHelper(verify) \in Seq(PlainSteps)
           /\ deployPegasysStakingHelper(verify) \in Seq(PlainSteps)
           /\ deployStakeUIHelper(verify) \in Seq(PlainSteps)
           /\ deployStakedTokenDataProvider(verify) \in Seq(PlainSteps)
<1>1. /\ When(verify, VerifyContract) \in Seq(PlainSteps)
      /\ Wait \in Seq(PlainSteps)
      /\ \A key \in Names : DeployContract(key) \in Seq(PlainSteps)
  BY PlainParts, WhenIn
<1>2. \A key \in Names :
          /\ DeployContract(key) \o When(verify, VerifyContract) \in Seq(PlainSteps)
          /\ DeployContract(key) \o Wait \in Seq(PlainSteps)
          /\ DeployContract(key) \o Wait \o When(verify, VerifyContract)
                \in Seq(PlainSteps)
  BY <1>1, JoinedIn
<1>3. deployStakedPSYS(verify) \in Seq(PlainSteps)
  BY <1>2 DEF deployStakedPSYS, Names
<1>4. deployStakedPSYSV3(verify) \in Seq(PlainSteps)
  BY <1>2 DEF deployStakedPSYSV3, Names
<1>5. deployStakedTokenV3Revision3(verify) \in Seq(PlainSteps)
  BY <1>2 DEF deployStakedTokenV3Revision3, Names
<1>6. deployStakedTokenBptRevision2(verify) \in Seq(PlainSteps)
  BY <1>2 DEF deployStakedTokenBptRevision2, Names
<1>7. deployPegasysIncentivesController(verify) \in Seq(PlainSteps)
  BY <1>2 DEF deployPegasysIncentivesController, Names
<1>8. deployInitializableAdminUpgradeabilityProxy(verify) \in Seq(PlainSteps)
  BY <1>2 DEF deployInitializableAdminUpgradeabilityProxy, Names
<1>9. deployDoubleTransferHelper(verify) \in Seq(PlainSteps)
  BY <1>2 DEF deployDoubleTransferHelper, Names
<1>10. deployPegasysStakingHelper(verify) \in Seq(PlainSteps)
  BY <1>2 DEF deployPegasysStakingHelper, Names
<1>11. deployStakeUIHelper(verify) \in Seq(PlainSteps)
  BY <1>2 DEF deployStakeUIHelper, Names
<1>12. deployStakedTokenDataProvider(verify) \in Seq(PlainSteps)
  BY <1>2 DEF deployStakedTokenDataProvider, Names
<1> QED
  BY <1>3, <1>4, <1>5, <1>6, <1>7, <1>8, <1>9, <1>10, <1>11, <1>12

LEMMA AccessorsPlain ==
    ASSUME NEW verify \in BOOLEAN, NEW name \in DOMAIN Accessors(FALSE)
    PROVE  Accessors(verify)[name] \in Seq(PlainSteps)
<1>1. \A key \in Names : /\ DeployContract(key) \in Seq(PlainSteps)
                          /\ DeployContract(key) \o Wait \in Seq(PlainSteps)
  BY PlainParts, JoinedIn
<1>2. name \in {"StakedPSYS", "StakedTokenBptRev2", "PegasysIncentivesController",
                "DoubleTransferHelper", "SelfdestructTransfer", "MintableErc20",
                "MockTransferHook"}
  BY DEF Accessors
<1> DEFINE all == Accessors(verify)
<1>3. /\ all.StakedPSYS = deployStakedPSYS(verify)
      /\ all.StakedTokenBptRev2 = deployStakedTokenBptRevision2(verify)
      /\ all.PegasysIncentivesController = deployPegasysIncentivesController(verify)
      /\ all.DoubleTransferHelper = deployDoubleTransferHelper(verify)
      /\ all.SelfdestructTransfer = DeployContract("SelfdestructTransfer") \o Wait
      /\ all.MintableErc20 = DeployContract("MintableErc20")
      /\ all.MockTransferHook = DeployContract("MockTransferHook")
  BY DEF Accessors
<1> HIDE DEF all
<1>4. all[name] \in Seq(PlainSteps)
  BY <1>1, <1>2, <1>3, PlainAccessors DEF Names
<1> QED
  BY <1>4 DEF all

\* All that a program may hold besides what the proposals add.
LEMMA StepSets ==
    /\ \A s \in Seq(PlainSteps) : s \in Seq(PlainSteps \cup Throws) /\ s \in Seq(AnyStep)
    /\ \A s \in Seq(PlainSteps \cup Throws) : s \in Seq(AnyStep)
    /\ \A why \in Thrown : Throw(why) \in Seq(PlainSteps \cup Throws)
    /\ Keep \in Seq(AnyStep)
    /\ \A what \in {"extension", "approval"} : Do("propose", what) \in Seq(AnyStep)
<1>1. /\ \A s \in Seq(PlainSteps) : s \in Seq(PlainSteps \cup Throws) /\ s \in Seq(AnyStep)
      /\ \A s \in Seq(PlainSteps \cup Throws) : s \in Seq(AnyStep)
  BY DEF AnyStep
<1>2. \A why \in Thrown : Throw(why) \in Seq(PlainSteps \cup Throws)
  BY Single DEF Throws, Throw
<1>3. Keep \in Seq(AnyStep)
  BY Single DEF AnyStep, Keep
<1>4. \A what \in {"extension", "approval"} : Do("propose", what) \in Seq(AnyStep)
  BY Single DEF AnyStep
<1> QED
  BY <1>1, <1>2, <1>3, <1>4

\* The steps one by one.
IsStep(s, what, arg) ==
    IsProgram(s) /\ Size(s) = 1 /\ What(s, 1) = what /\ With(s, 1) = arg

LEMMA DoIsStep ==
    ASSUME NEW what, NEW arg, Do(what, arg) \in Seq(AnyStep)
    PROVE  IsStep(Do(what, arg), what, arg)
  BY DEF Do, IsStep, IsProgram, Size, What, With

LEMMA OneStep ==
    /\ \A used \in BOOLEAN : IsStep(SetDre(used), "setDre", used)
    /\ IsStep(CheckVerification, "checkVerification", {})
    /\ IsStep(GetSigner, "getSigner", {})
    /\ IsStep(Wait, "wait", {})
    /\ IsStep(VerifyContract, "verify", {})
    /\ IsStep(Keep, "keep", {})
    /\ \A key \in Names : /\ IsStep(RegisterContractInJsonDb(key), "register", key)
                          /\ IsStep(Do("send", key), "send", key)
    /\ \A why \in Thrown : IsStep(Throw(why), "throw", why)
    /\ \A what \in {"extension", "approval"} : IsStep(Do("propose", what), "propose", what)
<1>1. ASSUME NEW used \in BOOLEAN PROVE IsStep(SetDre(used), "setDre", used)
  BY PlainParts, StepSets, DoIsStep DEF SetDre
<1>2. IsStep(CheckVerification, "checkVerification", {})
  BY PlainParts, StepSets, DoIsStep DEF CheckVerification
<1>3. IsStep(GetSigner, "getSigner", {})
  BY PlainParts, StepSets, DoIsStep DEF GetSigner
<1>4. IsStep(Wait, "wait", {})
  BY PlainParts, StepSets, DoIsStep DEF Wait
<1>5. IsStep(VerifyContract, "verify", {})
  BY PlainParts, StepSets, DoIsStep DEF VerifyContract
<1>6. IsStep(Keep, "keep", {})
  BY StepSets, DoIsStep DEF Keep
<1>7. ASSUME NEW key \in Names
      PROVE  IsStep(RegisterContractInJsonDb(key), "register", key)
  BY PlainParts, StepSets, DoIsStep DEF RegisterContractInJsonDb
<1>8. ASSUME NEW key \in Names PROVE IsStep(Do("send", key), "send", key)
  BY PlainParts, StepSets, DoIsStep
<1>9. ASSUME NEW why \in Thrown PROVE IsStep(Throw(why), "throw", why)
  BY StepSets, DoIsStep DEF Throw
<1>10. ASSUME NEW what \in {"extension", "approval"}
       PROVE  IsStep(Do("propose", what), "propose", what)
  BY StepSets, DoIsStep
<1> QED
  BY <1>1, <1>2, <1>3, <1>4, <1>5, <1>6, <1>7, <1>8, <1>9, <1>10

\* A program and one more step.
LEMMA JoinedOne ==
    ASSUME NEW s, IsProgram(s), NEW t, NEW what, NEW arg, IsStep(t, what, arg)
    PROVE  /\ IsProgram(Then(s, t)) /\ Size(s) \in Nat
           /\ Size(Then(s, t)) = Size(s) + 1
           /\ \A i \in 1 .. Size(s) :
                /\ What(Then(s, t), i) = What(s, i)
                /\ With(Then(s, t), i) = With(s, i)
           /\ What(Then(s, t), Size(s) + 1) = what
           /\ With(Then(s, t), Size(s) + 1) = arg
  BY Joined DEF IsStep

LEMMA DeployTokenTyped ==
    ASSUME NEW verify \in BOOLEAN
    PROVE  DeployStakedPSYSV3(verify) \in Seq(PlainSteps)
<1>1. /\ SetDre(FALSE) \in Seq(PlainSteps)
      /\ When(verify, CheckVerification) \in Seq(PlainSteps)
      /\ deployStakedPSYSV3(TRUE) \in Seq(PlainSteps)
      /\ Wait \in Seq(PlainSteps)
      /\ RegisterContractInJsonDb("Staked PSYS") \in Seq(PlainSteps)
      /\ deployInitializableAdminUpgradeabilityProxy(verify) \in Seq(PlainSteps)
      /\ RegisterContractInJsonDb("StakedPSYSV3") \in Seq(PlainSteps)
  BY PlainParts, PlainAccessors, WhenIn DEF Names
<1> QED
  BY <1>1, JoinedIn DEF DeployStakedPSYSV3

LEMMA DeployHelperTyped ==
    ASSUME NEW verify \in BOOLEAN, NEW id \in Names, NEW deploy \in Seq(PlainSteps)
    PROVE  DeployHelper(id, deploy, verify) \in Seq(PlainSteps)
<1>1. /\ SetDre(FALSE) \in Seq(PlainSteps)
      /\ When(verify, CheckVerification) \in Seq(PlainSteps)
      /\ Wait \in Seq(PlainSteps)
      /\ RegisterContractInJsonDb(id) \in Seq(PlainSteps)
  BY PlainParts, WhenIn
<1> QED
  BY <1>1, JoinedIn DEF DeployHelper

LEMMA MigrationsTyped ==
    ASSUME NEW verify \in BOOLEAN, NEW valid \in BOOLEAN
    PROVE  /\ InitializeStakedPSYSV3 \in Seq(PlainSteps \cup Throws)
           /\ CommonDeployment(verify) \in Seq(PlainSteps \cup Throws)
           /\ DevDeployment \in Seq(PlainSteps \cup Throws)
           /\ VerifySC \in Seq(PlainSteps \cup Throws)
           /\ DeployStakedTokenDataProvider(verify, valid) \in Seq(PlainSteps \cup Throws)
<1>1. /\ \A used \in BOOLEAN : SetDre(used) \in Seq(PlainSteps \cup Throws)
      /\ When(verify, CheckVerification) \in Seq(PlainSteps \cup Throws)
      /\ Lookup("StakedPSYSImpl") \in Seq(PlainSteps \cup Throws)
      /\ Lookup("StakedPSYSV3") \in Seq(PlainSteps \cup Throws)
      /\ DeployStakedPSYSV3(verify) \in Seq(PlainSteps \cup Throws)
  BY PlainParts, DeployTokenTyped, WhenIn, StepSets DEF Names
<1>2. \A why \in Thrown : Throw(why) \in Seq(PlainSteps \cup Throws)
  BY StepSets
<1>3. InitializeStakedPSYSV3 \in Seq(PlainSteps \cup Throws)
  BY <1>1, <1>2, JoinedIn DEF InitializeStakedPSYSV3, Thrown
<1>4. CommonDeployment(verify) \in Seq(PlainSteps \cup Throws)
  BY <1>1, <1>3, JoinedIn DEF CommonDeployment
<1>5. DevDeployment \in Seq(PlainSteps \cup Throws) /\ VerifySC \in Seq(PlainSteps \cup Throws)
  BY <1>1, <1>2, JoinedIn DEF DevDeployment, VerifySC, Thrown
<1>6. DeployStakedTokenDataProvider(verify, valid) \in Seq(PlainSteps \cup Throws)
  <2>1. DeployHelper("StakedTokenDataProvider", deployStakedTokenDataProvider(verify), verify)
            \in Seq(PlainSteps)
    BY DeployHelperTyped, PlainAccessors DEF Names
  <2>2. SetDre(FALSE) \o When(verify, CheckVerification) \o Throw("parameter")
            \in Seq(PlainSteps \cup Throws)
    BY <1>1, <1>2, JoinedIn DEF Thrown
  <2> QED
    BY <2>1, <2>2, StepSets DEF DeployStakedTokenDataProvider
<1> QED
  BY <1>3, <1>4, <1>5, <1>6

LEMMA ProposalsTyped ==
    ASSUME NEW stkPSYSImpl \in BOOLEAN, NEW stkBptImpl \in BOOLEAN
    PROVE  /\ DeployStakedPsysRev3 \in Seq(AnyStep)
           /\ ProposeExtension(stkPSYSImpl, stkBptImpl) \in Seq(AnyStep)
           /\ ProposalStkExtensions(stkPSYSImpl, stkBptImpl) \in Seq(AnyStep)
           /\ ProposeVaultApproval \in Seq(AnyStep)
           /\ ProposalVaultApproval \in Seq(AnyStep)
<1>1. /\ SetDre(FALSE) \in Seq(AnyStep)
      /\ GetSigner \in Seq(AnyStep)
      /\ deployStakedTokenV3Revision3(TRUE) \in Seq(AnyStep)
      /\ Keep \in Seq(AnyStep)
      /\ \A why \in Thrown : Throw(why) \in Seq(AnyStep)
      /\ \A what \in {"extension", "approval"} : Do("propose", what) \in Seq(AnyStep)
  BY PlainParts, PlainAccessors, StepSets
<1>2. DeployStakedPsysRev3 \in Seq(AnyStep)
  BY <1>1, JoinedIn DEF DeployStakedPsysRev3
<1>3. \A a, b \in BOOLEAN : ProposeExtension(a, b) \in Seq(AnyStep)
  <2>1. \A a, b \in BOOLEAN : When(~a \/ ~b, Throw("parameter")) \in Seq(AnyStep)
    BY <1>1, WhenIn DEF Thrown
  <2> QED
    BY <1>1, <2>1, JoinedIn DEF ProposeExtension
<1>4. ProposalStkExtensions(stkPSYSImpl, stkBptImpl) \in Seq(AnyStep)
  <2>1. /\ When(~stkPSYSImpl, DeployStakedPsysRev3) \in Seq(AnyStep)
        /\ When(~stkBptImpl, Throw("no such task")) \in Seq(AnyStep)
    BY <1>1, <1>2, WhenIn DEF Thrown
  <2> QED
    BY <1>1, <1>3, <2>1, JoinedIn DEF ProposalStkExtensions
<1>5. ProposeVaultApproval \in Seq(AnyStep) /\ ProposalVaultApproval \in Seq(AnyStep)
  BY <1>1, JoinedIn DEF ProposeVaultApproval, ProposalVaultApproval
<1> QED
  BY <1>2, <1>3, <1>4, <1>5

\* Which tasks have more than plain steps and throws.
ProposalTasks == {"deploy-staked-psys-rev3", "propose-extension",
                  "proposal-stk-extensions", "propose-vault-approval",
                  "proposal-vault-approval"}

\* Every command is a sequence of steps.
LEMMA ProgramTyped ==
    ASSUME NEW r \in Commands
    PROVE  /\ Steps(r) \in Seq(AnyStep)
           /\ r.name \notin ProposalTasks => Steps(r) \in Seq(PlainSteps \cup Throws)
<1> DEFINE name == r.name
<1>1. /\ name \in TaskNames \cup DOMAIN Accessors(FALSE)
      /\ r.verify \in BOOLEAN /\ r.valid \in BOOLEAN
  BY DeploymentAssumption DEF Commands
<1>2. CASE name \in ProposalTasks
  BY <1>2, ProposalsTyped DEF Steps, ProposalTasks
<1>3. CASE name \in {"deploy-StakedPSYSV3", "deploy-PegasysStakingHelper",
                     "deploy-StakeUIHelper"}
  <2>1. /\ DeployPegasysStakingHelper(r.verify) \in Seq(PlainSteps)
        /\ DeployStakeUIHelper(r.verify) \in Seq(PlainSteps)
    BY <1>1, DeployHelperTyped, PlainAccessors
    DEF DeployPegasysStakingHelper, DeployStakeUIHelper, Names
  <2>2. Steps(r) \in Seq(PlainSteps)
    BY <1>1, <1>3, <2>1, DeployTokenTyped DEF Steps
  <2> QED
    BY <2>2, StepSets
<1>4. CASE name \in {"initialize-StakedPSYSV3", "common-deployment", "dev-deployment",
                     "verify-sc", "deploy-StakedTokenDataProvider"}
  <2>1. Steps(r) \in Seq(PlainSteps \cup Throws)
    BY <1>1, <1>4, MigrationsTyped DEF Steps
  <2> QED
    BY <2>1, StepSets
<1>5. CASE name \notin TaskNames
  <2>1. Steps(r) = SetDre(FALSE) \o Accessors(r.verify)[name]
    BY <1>5 DEF Steps, TaskNames
  <2>2. SetDre(FALSE) \in Seq(PlainSteps) /\ Accessors(r.verify)[name] \in Seq(PlainSteps)
    BY <1>1, <1>5, AccessorsPlain, PlainParts
  <2>3. Steps(r) \in Seq(PlainSteps)
    BY <2>1, <2>2, JoinedIn
  <2> QED
    BY <2>3, StepSets
<1> QED
  BY <1>1, <1>2, <1>3, <1>4, <1>5 DEF TaskNames, ProposalTasks

\* The program makes its check second, and sends nothing first.
Checked(s) ==
    /\ IsProgram(s) /\ Size(s) >= 2
    /\ What(s, 1) # "send" /\ What(s, 2) = "checkVerification"

LEMMA CheckedJoined ==
    ASSUME NEW s, Checked(s), NEW t \in Seq(AnyStep)
    PROVE  Checked(s \o t)
<1>1. IsProgram(s) /\ IsProgram(t) /\ Size(s) >= 2
  BY DEF Checked, IsProgram
<1>2. /\ IsProgram(Then(s, t)) /\ Size(s) \in Nat /\ Size(t) \in Nat
      /\ Size(Then(s, t)) = Size(s) + Size(t)
      /\ \A i \in 1 .. Size(s) : What(Then(s, t), i) = What(s, i)
  BY <1>1, Joined
<1>3. Checked(Then(s, t))
  BY <1>1, <1>2 DEF Checked
<1> QED
  BY <1>3 DEF Then

\* "check needed enviroments to prevent loss of gas": with the flag, the check
\* comes before anything is sent.
LEMMA ProgramChecked ==
    ASSUME NEW r \in Commands, r.verify
    PROVE  Checked(Steps(r))
<1>1. /\ r.name \in VerifyFlag
      /\ r.verify = TRUE /\ r.valid \in BOOLEAN
  BY DEF Commands
<1>2. \A used \in BOOLEAN : Checked(SetDre(used) \o When(TRUE, CheckVerification))
  <2> SUFFICES ASSUME NEW used \in BOOLEAN
               PROVE  Checked(SetDre(used) \o CheckVerification)
    BY DEF When
  <2>1. /\ IsStep(SetDre(used), "setDre", used)
        /\ IsStep(CheckVerification, "checkVerification", {})
        /\ IsProgram(SetDre(used)) /\ Size(SetDre(used)) = 1
    BY OneStep DEF IsStep
  <2> DEFINE s == Then(SetDre(used), CheckVerification)
  <2>2. /\ IsProgram(s) /\ Size(s) = 1 + 1
        /\ What(s, 1) = "setDre" /\ What(s, 1 + 1) = "checkVerification"
    BY <2>1, JoinedOne DEF IsStep
  <2> HIDE DEF s
  <2>3. Checked(s)
    BY <2>2 DEF Checked
  <2> QED
    BY <2>3 DEF s, Then
<1>3. /\ Wait \in Seq(AnyStep) /\ Throw("parameter") \in Seq(AnyStep)
      /\ \A key \in Names : RegisterContractInJsonDb(key) \in Seq(AnyStep)
  BY PlainParts, StepSets DEF Thrown
<1>4. Checked(DeployStakedPSYSV3(TRUE))
  <2>1. /\ deployStakedPSYSV3(TRUE) \in Seq(AnyStep)
        /\ deployInitializableAdminUpgradeabilityProxy(TRUE) \in Seq(AnyStep)
        /\ RegisterContractInJsonDb("Staked PSYS") \in Seq(AnyStep)
        /\ RegisterContractInJsonDb("StakedPSYSV3") \in Seq(AnyStep)
    BY <1>3, PlainAccessors, StepSets DEF Names
  <2> QED
    BY <1>2, <1>3, <2>1, CheckedJoined DEF DeployStakedPSYSV3
<1>5. ASSUME NEW id \in Names, NEW deploy \in Seq(PlainSteps)
      PROVE  Checked(DeployHelper(id, deploy, TRUE))
  <2>1. deploy \in Seq(AnyStep)
    BY StepSets
  <2> QED
    BY <1>2, <1>3, <2>1, CheckedJoined DEF DeployHelper
<1>6. CASE r.name = "deploy-StakedPSYSV3"
  BY <1>1, <1>4, <1>6 DEF Steps
<1>7. CASE r.name = "common-deployment"
  <2>1. DeployStakedPSYSV3(TRUE) \in Seq(AnyStep) /\ InitializeStakedPSYSV3 \in Seq(AnyStep)
    BY DeployTokenTyped, MigrationsTyped, StepSets
  <2>2. Checked(CommonDeployment(TRUE))
    BY <1>2, <2>1, CheckedJoined DEF CommonDeployment
  <2> QED
    BY <1>1, <1>7, <2>2 DEF Steps
<1>8. CASE r.name \in {"deploy-PegasysStakingHelper", "deploy-StakeUIHelper"}
  <2>1. /\ Checked(DeployPegasysStakingHelper(TRUE))
        /\ Checked(DeployStakeUIHelper(TRUE))
    BY <1>5, PlainAccessors DEF DeployPegasysStakingHelper, DeployStakeUIHelper, Names
  <2> QED
    BY <1>1, <1>8, <2>1 DEF Steps
<1>9. CASE r.name = "deploy-StakedTokenDataProvider"
  <2>1. Checked(DeployHelper("StakedTokenDataProvider",
                             deployStakedTokenDataProvider(TRUE), TRUE))
    BY <1>5, PlainAccessors DEF Names
  <2>2. Checked(SetDre(FALSE) \o When(TRUE, CheckVerification) \o Throw("parameter"))
    BY <1>2, <1>3, CheckedJoined
  <2>3. Checked(DeployStakedTokenDataProvider(TRUE, r.valid))
    BY <2>1, <2>2 DEF DeployStakedTokenDataProvider
  <2> QED
    BY <1>1, <1>9, <2>3 DEF Steps
<1> QED
  BY <1>1, <1>6, <1>7, <1>8, <1>9 DEF VerifyFlag

\* The program leaves under k a contract of its own, of this kind, that it has
\* waited for.
Registers(s, k, kind) ==
    \E i, l \in 1 .. Size(s) :
        /\ l <= i /\ LastRegister(s, i, Size(s)) /\ With(s, i) = k
        /\ LastSend(s, l, i) /\ With(s, l) = kind
        /\ WaitsBetween(s, l, i)

\* The steps that send a contract without waiting for it.
LEMMA DeployParts ==
    ASSUME NEW id \in Names
    PROVE  LET s == DeployContract(id) IN
           /\ IsProgram(s) /\ Size(s) = 2
           /\ What(s, 1) = "send" /\ With(s, 1) = id
           /\ What(s, 2) = "register" /\ With(s, 2) = id
<1>1. /\ IsStep(Do("send", id), "send", id)
      /\ IsStep(RegisterContractInJsonDb(id), "register", id)
  BY OneStep
<1> DEFINE s == Then(Do("send", id), RegisterContractInJsonDb(id))
<1>2. /\ IsProgram(s) /\ Size(s) = 1 + 1
      /\ What(s, 1) = "send" /\ With(s, 1) = id
      /\ What(s, 1 + 1) = "register" /\ With(s, 1 + 1) = id
  BY <1>1, JoinedOne DEF IsStep
<1>3. DeployContract(id) = s
  BY DEF DeployContract, Then
<1> HIDE DEF s
<1> QED
  BY <1>2, <1>3

\* A step that is there or not.
LEMMA WhenParts ==
    ASSUME NEW condition \in BOOLEAN, NEW t, NEW what, NEW arg, IsStep(t, what, arg)
    PROVE  LET s == When(condition, t) IN
           /\ IsProgram(s) /\ Size(s) = IF condition THEN 1 ELSE 0
           /\ \A i \in 1 .. Size(s) : What(s, i) = what
<1>1. CASE condition
  BY <1>1 DEF When, IsStep
<1>2. CASE ~ condition
  <2>1. When(condition, t) = <<>>
    BY <1>2 DEF When
  <2>2. <<>> \in Seq(AnyStep) /\ Len(<<>>) = 0
    OBVIOUS
  <2>3. IsProgram(<<>>) /\ Size(<<>>) = 0
    BY <2>2 DEF IsProgram, Size
  <2> QED
    BY <1>2, <2>1, <2>3
<1> QED
  BY <1>1, <1>2

\* The steps that end for want of the key, and programs without them, without a
\* step that sends, and with one at most.
Checks == {"checkVerification", "verify"}

Quiet(s) == IsProgram(s) /\ \A i \in 1 .. Size(s) : What(s, i) \notin Checks

Silent(s) == IsProgram(s) /\ \A i \in 1 .. Size(s) : What(s, i) # "send"

Lone(s) ==
    /\ IsProgram(s)
    /\ \A i, j \in 1 .. Size(s) : What(s, i) = "send" /\ What(s, j) = "send" => i = j

\* No check comes after two contracts were sent.
Thrifty(s) ==
    /\ IsProgram(s)
    /\ \A i, j, v \in 1 .. Size(s) :
            i < j /\ j < v /\ What(s, i) = "send" /\ What(s, j) = "send"
                => What(s, v) \notin Checks

\* Where a step of two programs one after the other comes from.
LEMMA StepOfJoined ==
    ASSUME NEW s, NEW t, IsProgram(s), IsProgram(t)
    PROVE  /\ IsProgram(Then(s, t)) /\ Size(s) \in Nat /\ Size(t) \in Nat
           /\ Size(Then(s, t)) = Size(s) + Size(t)
           /\ \A i \in 1 .. Size(Then(s, t)) :
                \/ i <= Size(s) /\ What(Then(s, t), i) = What(s, i)
                \/ /\ i > Size(s) /\ i - Size(s) \in 1 .. Size(t)
                   /\ What(Then(s, t), i) = What(t, i - Size(s))
<1> DEFINE both == Then(s, t)
           n    == Size(s)
<1>1. /\ IsProgram(both) /\ n \in Nat /\ Size(t) \in Nat /\ Size(both) = n + Size(t)
      /\ \A i \in 1 .. n : What(both, i) = What(s, i)
      /\ \A i \in 1 .. Size(t) : What(both, n + i) = What(t, i)
  BY Joined
<1> HIDE DEF both, n
<1>2. ASSUME NEW i \in 1 .. Size(both), i > n
      PROVE  i - n \in 1 .. Size(t) /\ What(both, i) = What(t, i - n)
  <2>1. i - n \in 1 .. Size(t) /\ n + (i - n) = i
    BY <1>1, <1>2
  <2> QED
    BY <1>1, <2>1
<1>3. \A i \in 1 .. Size(both) :
        \/ i <= n /\ What(both, i) = What(s, i)
        \/ i > n /\ i - n \in 1 .. Size(t) /\ What(both, i) = What(t, i - n)
  <2> SUFFICES ASSUME NEW i \in 1 .. Size(both)
               PROVE  \/ i <= n /\ What(both, i) = What(s, i)
                      \/ i > n /\ i - n \in 1 .. Size(t) /\ What(both, i) = What(t, i - n)
    OBVIOUS
  <2>1. CASE i > n
    BY <1>2, <2>1
  <2>2. CASE ~(i > n)
    BY <1>1, <2>2
  <2> QED
    BY <2>1, <2>2
<1> QED
  BY <1>1, <1>3 DEF both, n

LEMMA ThriftyAfter ==
    ASSUME NEW s, NEW t
    PROVE  /\ Quiet(s) /\ Quiet(t) => Quiet(s \o t)
           /\ Silent(s) /\ Silent(t) => Silent(s \o t)
           /\ Silent(s) /\ Lone(t) => Lone(s \o t)
           /\ Lone(s) /\ Silent(t) => Lone(s \o t)
           /\ Silent(s) /\ Thrifty(t) => Thrifty(s \o t)
           /\ Thrifty(s) /\ Quiet(t) => Thrifty(s \o t)
<1> DEFINE both == Then(s, t)
           n    == Size(s)
<1> SUFFICES ASSUME IsProgram(s), IsProgram(t)
             PROVE  /\ Quiet(s) /\ Quiet(t) => Quiet(both)
                    /\ Silent(s) /\ Silent(t) => Silent(both)
                    /\ Silent(s) /\ Lone(t) => Lone(both)
                    /\ Lone(s) /\ Silent(t) => Lone(both)
                    /\ Silent(s) /\ Thrifty(t) => Thrifty(both)
                    /\ Thrifty(s) /\ Quiet(t) => Thrifty(both)
  BY DEF Quiet, Silent, Lone, Thrifty, Then
<1>1. /\ IsProgram(both) /\ n \in Nat /\ Size(t) \in Nat /\ Size(both) = n + Size(t)
      /\ \A i \in 1 .. Size(both) :
            \/ i \in 1 .. n /\ What(both, i) = What(s, i)
            \/ i > n /\ i - n \in 1 .. Size(t) /\ What(both, i) = What(t, i - n)
  BY StepOfJoined
<1> HIDE DEF both, n, Checks
<1>2. Quiet(s) /\ Quiet(t) => Quiet(both)
  BY <1>1 DEF Quiet, n
<1>3. Silent(s) /\ Silent(t) => Silent(both)
  BY <1>1 DEF Silent, n
<1>4. Silent(s) /\ Lone(t) => Lone(both)
  <2> SUFFICES ASSUME Silent(s), Lone(t), NEW i \in 1 .. Size(both), NEW j \in 1 .. Size(both),
                      What(both, i) = "send", What(both, j) = "send"
               PROVE  i = j
    BY <1>1 DEF Lone
  <2>1. /\ i > n /\ i - n \in 1 .. Size(t) /\ What(t, i - n) = "send"
        /\ j > n /\ j - n \in 1 .. Size(t) /\ What(t, j - n) = "send"
    BY <1>1 DEF Silent, n
  <2>2. i - n = j - n
    BY <2>1 DEF Lone
  <2> QED
    BY <1>1, <2>2
<1>5. Lone(s) /\ Silent(t) => Lone(both)
  <2> SUFFICES ASSUME Lone(s), Silent(t), NEW i \in 1 .. Size(both), NEW j \in 1 .. Size(both),
                      What(both, i) = "send", What(both, j) = "send"
               PROVE  i = j
    BY <1>1 DEF Lone
  <2>1. /\ i \in 1 .. n /\ What(s, i) = "send"
        /\ j \in 1 .. n /\ What(s, j) = "send"
    BY <1>1 DEF Silent
  <2> QED
    BY <2>1 DEF Lone, n
<1>6. Silent(s) /\ Thrifty(t) => Thrifty(both)
  <2> SUFFICES ASSUME Silent(s), Thrifty(t), NEW i \in 1 .. Size(both),
                      NEW j \in 1 .. Size(both), NEW v \in 1 .. Size(both),
                      i < j, j < v, What(both, i) = "send", What(both, j) = "send"
               PROVE  What(both, v) \notin Checks
    BY <1>1 DEF Thrifty
  <2>1. i > n /\ i - n \in 1 .. Size(t) /\ What(t, i - n) = "send"
    BY <1>1 DEF Silent, n
  <2>2. j > n /\ v > n
    BY <1>1, <2>1
  <2>3. /\ j - n \in 1 .. Size(t) /\ What(t, j - n) = "send"
        /\ v - n \in 1 .. Size(t) /\ What(both, v) = What(t, v - n)
    BY <1>1, <2>2
  <2>4. i - n < j - n /\ j - n < v - n
    BY <1>1
  <2> QED
    BY <2>1, <2>3, <2>4 DEF Thrifty
<1>7. Thrifty(s) /\ Quiet(t) => Thrifty(both)
  <2> SUFFICES ASSUME Thrifty(s), Quiet(t), NEW i \in 1 .. Size(both),
                      NEW j \in 1 .. Size(both), NEW v \in 1 .. Size(both),
                      i < j, j < v, What(both, i) = "send", What(both, j) = "send"
               PROVE  What(both, v) \notin Checks
    BY <1>1 DEF Thrifty
  <2>1. CASE v > n
    BY <1>1, <2>1 DEF Quiet
  <2>2. CASE ~(v > n)
    <3>1. /\ i \in 1 .. n /\ What(s, i) = "send"
          /\ j \in 1 .. n /\ What(s, j) = "send"
          /\ v \in 1 .. n /\ What(both, v) = What(s, v)
      BY <1>1, <2>2
    <3> QED
      BY <3>1 DEF Thrifty, n
  <2> QED
    BY <2>1, <2>2
<1> QED
  BY <1>2, <1>3, <1>4, <1>5, <1>6, <1>7

LEMMA ThriftyParts ==
    /\ \A s : Quiet(s) => Thrifty(s)
    /\ \A s : Lone(s) => Thrifty(s)
    /\ \A s : Quiet(When(FALSE, s)) /\ Silent(When(FALSE, s))
    /\ \A used \in BOOLEAN : Quiet(SetDre(used)) /\ Silent(SetDre(used))
    /\ Quiet(GetSigner) /\ Silent(GetSigner)
    /\ Quiet(Wait) /\ Silent(VerifyContract) /\ Quiet(Keep)
    /\ \A key \in Names : /\ Quiet(RegisterContractInJsonDb(key)) /\ Quiet(Lookup(key))
                           /\ Quiet(DeployContract(key)) /\ Lone(DeployContract(key))
    /\ \A why \in Thrown : Quiet(Throw(why))
    /\ \A what \in {"extension", "approval"} : Quiet(Do("propose", what))
<1>1. ASSUME NEW s PROVE (Quiet(s) => Thrifty(s)) /\ (Lone(s) => Thrifty(s))
  <2>1. Quiet(s) => Thrifty(s)
    BY DEF Quiet, Thrifty
  <2>2. ASSUME Lone(s), NEW i \in 1 .. Size(s), NEW j \in 1 .. Size(s), i < j,
               What(s, i) = "send", What(s, j) = "send"
        PROVE  FALSE
    <3>1. i = j
      BY <2>2 DEF Lone
    <3>2. i \in Int
      OBVIOUS
    <3> QED
      BY <2>2, <3>1, <3>2
  <2>3. Lone(s) => IsProgram(s)
    BY DEF Lone
  <2> QED
    BY <2>1, <2>2, <2>3 DEF Thrifty
<1>2. ASSUME NEW s PROVE Quiet(When(FALSE, s)) /\ Silent(When(FALSE, s))
  <2>1. When(FALSE, s) = <<>> /\ <<>> \in Seq(AnyStep) /\ Len(<<>>) = 0
    BY DEF When
  <2>2. IsProgram(<<>>) /\ Size(<<>>) = 0
    BY <2>1 DEF IsProgram, Size
  <2>3. Quiet(<<>>) /\ Silent(<<>>)
    BY <2>2 DEF Quiet, Silent
  <2> QED
    BY <2>1, <2>3
<1>3. ASSUME NEW t, NEW what, NEW arg, IsStep(t, what, arg)
      PROVE  (what \notin Checks => Quiet(t)) /\ (what # "send" => Silent(t))
  BY <1>3 DEF IsStep, Quiet, Silent
<1>4. \A used \in BOOLEAN : Quiet(SetDre(used)) /\ Silent(SetDre(used))
  BY <1>3, OneStep DEF Checks
<1>5. /\ Quiet(GetSigner) /\ Silent(GetSigner)
      /\ Quiet(Wait) /\ Silent(VerifyContract) /\ Quiet(Keep)
  BY <1>3, OneStep DEF Checks
<1>6. /\ \A why \in Thrown : Quiet(Throw(why))
      /\ \A what \in {"extension", "approval"} : Quiet(Do("propose", what))
  BY <1>3, OneStep DEF Checks
<1>7. ASSUME NEW key \in Names
      PROVE  Quiet(RegisterContractInJsonDb(key)) /\ Quiet(Lookup(key))
  <2>1. IsStep(Lookup(key), "lookup", key)
    BY PlainParts, StepSets, DoIsStep DEF Lookup
  <2> QED
    BY <1>3, <2>1, OneStep DEF Checks
<1>8. ASSUME NEW key \in Names PROVE Quiet(DeployContract(key)) /\ Lone(DeployContract(key))
  <2> DEFINE s == DeployContract(key)
  <2>1. /\ IsProgram(s) /\ Size(s) = 2
        /\ What(s, 1) = "send" /\ What(s, 2) = "register"
    BY DeployParts
  <2> HIDE DEF s
  <2>2. Quiet(s)
    BY <2>1 DEF Quiet, Checks
  <2>3. Lone(s)
    BY <2>1 DEF Lone
  <2> QED
    BY <2>2, <2>3 DEF s
<1> QED
  BY <1>1, <1>2, <1>4, <1>5, <1>6, <1>7, <1>8

\* Without the flag the accessors check nothing, ...
LEMMA AccessorsQuiet ==
    /\ Quiet(deployStakedPSYS(FALSE)) /\ Quiet(deployStakedTokenBptRevision2(FALSE))
    /\ Quiet(deployPegasysIncentivesController(FALSE))
    /\ Quiet(deployInitializableAdminUpgradeabilityProxy(FALSE))
    /\ Quiet(deployDoubleTransferHelper(FALSE))
    /\ Quiet(deployPegasysStakingHelper(FALSE))
    /\ Quiet(deployStakeUIHelper(FALSE)) /\ Quiet(deployStakedTokenDataProvider(FALSE))
    /\ \A id \in Names : Quiet(DeployContract(id) \o Wait)
<1>1. \A id \in Names :
          /\ Quiet(DeployContract(id) \o When(FALSE, VerifyContract))
          /\ Quiet(DeployContract(id) \o Wait)
          /\ Quiet(DeployContract(id) \o Wait \o When(FALSE, VerifyContract))
  BY ThriftyParts, ThriftyAfter
<1> QED
  BY <1>1
  DEF deployStakedPSYS, deployStakedTokenBptRevision2, deployPegasysIncentivesController,
      deployInitializableAdminUpgradeabilityProxy, deployDoubleTransferHelper,
      deployPegasysStakingHelper, deployStakeUIHelper, deployStakedTokenDataProvider, Names

\* ... but for the two that always verify an implementation.
LEMMA AccessorsLone ==
    /\ Lone(deployStakedPSYSV3(TRUE)) /\ Lone(deployStakedTokenV3Revision3(TRUE))
<1>1. \A id \in Names : Lone(DeployContract(id) \o VerifyContract)
  BY ThriftyParts, ThriftyAfter
<1> QED
  BY <1>1 DEF deployStakedPSYSV3, deployStakedTokenV3Revision3, When, Names

LEMMA TasksThrifty ==
    ASSUME NEW valid \in BOOLEAN
    PROVE  /\ Thrifty(DeployStakedPSYSV3(FALSE)) /\ Thrifty(InitializeStakedPSYSV3)
           /\ Thrifty(CommonDeployment(FALSE))
           /\ Thrifty(DevDeployment) /\ Thrifty(VerifySC)
           /\ Thrifty(DeployPegasysStakingHelper(FALSE))
           /\ Thrifty(DeployStakeUIHelper(FALSE))
           /\ Thrifty(DeployStakedTokenDataProvider(FALSE, valid))
<1>1. \A used \in BOOLEAN :
          /\ Silent(SetDre(used) \o When(FALSE, CheckVerification))
          /\ Quiet(SetDre(used) \o When(FALSE, CheckVerification))
  BY ThriftyParts, ThriftyAfter
<1>2. Thrifty(DeployStakedPSYSV3(FALSE))
  <2>1. Thrifty(SetDre(FALSE) \o When(FALSE, CheckVerification) \o deployStakedPSYSV3(TRUE))
    BY <1>1, AccessorsLone, ThriftyAfter, ThriftyParts
  <2>2. /\ Quiet(RegisterContractInJsonDb("Staked PSYS")) /\ Quiet(Wait)
        /\ Quiet(RegisterContractInJsonDb("StakedPSYSV3"))
    BY ThriftyParts DEF Names
  <2> QED
    BY <2>1, <2>2, AccessorsQuiet, ThriftyAfter DEF DeployStakedPSYSV3
<1>3. Quiet(InitializeStakedPSYSV3)
  <2>1. /\ Quiet(SetDre(FALSE)) /\ Quiet(Throw("encoding"))
        /\ Quiet(Lookup("StakedPSYSImpl")) /\ Quiet(Lookup("StakedPSYSV3"))
    BY ThriftyParts DEF Names, Thrown
  <2> QED
    BY <2>1, ThriftyAfter DEF InitializeStakedPSYSV3
<1>4. Thrifty(CommonDeployment(FALSE))
  BY <1>1, <1>2, <1>3, ThriftyAfter DEF CommonDeployment
<1>5. Quiet(DevDeployment) /\ Quiet(VerifySC)
  BY ThriftyParts, ThriftyAfter DEF DevDeployment, VerifySC, Thrown
<1>6. ASSUME NEW id \in Names, NEW deploy, Quiet(deploy)
      PROVE  Quiet(DeployHelper(id, deploy, FALSE))
  BY <1>1, <1>6, ThriftyParts, ThriftyAfter DEF DeployHelper
<1>7. /\ Quiet(DeployPegasysStakingHelper(FALSE)) /\ Quiet(DeployStakeUIHelper(FALSE))
  BY <1>6, AccessorsQuiet DEF DeployPegasysStakingHelper, DeployStakeUIHelper, Names
<1>8. Quiet(DeployStakedTokenDataProvider(FALSE, valid))
  <2>1. Quiet(DeployHelper("StakedTokenDataProvider",
                           deployStakedTokenDataProvider(FALSE), FALSE))
    BY <1>6, AccessorsQuiet DEF Names
  <2>2. Quiet(SetDre(FALSE) \o When(FALSE, CheckVerification) \o Throw("parameter"))
    BY <1>1, ThriftyParts, ThriftyAfter DEF Thrown
  <2> QED
    BY <2>1, <2>2 DEF DeployStakedTokenDataProvider
<1> QED
  BY <1>2, <1>3, <1>4, <1>5, <1>7, <1>8, ThriftyParts

LEMMA ProposalsThrifty ==
    ASSUME NEW psys \in BOOLEAN, NEW bpt \in BOOLEAN
    PROVE  /\ Thrifty(DeployStakedPsysRev3)
           /\ Thrifty(ProposeExtension(psys, bpt))
           /\ Thrifty(ProposalStkExtensions(psys, bpt))
           /\ Thrifty(ProposeVaultApproval) /\ Thrifty(ProposalVaultApproval)
<1>1. Silent(SetDre(FALSE) \o GetSigner) /\ Quiet(SetDre(FALSE) \o GetSigner)
  BY ThriftyParts, ThriftyAfter
<1>2. Thrifty(DeployStakedPsysRev3)
  <2>1. Thrifty(SetDre(FALSE) \o GetSigner \o deployStakedTokenV3Revision3(TRUE))
    BY <1>1, AccessorsLone, ThriftyAfter, ThriftyParts
  <2> QED
    BY <2>1, ThriftyAfter, ThriftyParts DEF DeployStakedPsysRev3
<1>3. ASSUME NEW condition \in BOOLEAN, NEW why \in Thrown
      PROVE  Quiet(When(condition, Throw(why)))
  <2>1. CASE condition
    BY <2>1, ThriftyParts DEF When
  <2>2. CASE ~condition
    BY <2>2, ThriftyParts DEF When
  <2> QED
    BY <2>1, <2>2
<1>4. ASSUME NEW a \in BOOLEAN, NEW b \in BOOLEAN PROVE Quiet(ProposeExtension(a, b))
  <2>1. Quiet(When(~a \/ ~b, Throw("parameter")))
    BY <1>3 DEF Thrown
  <2>2. Quiet(Do("propose", "extension"))
    BY ThriftyParts
  <2> QED
    BY <1>1, <2>1, <2>2, ThriftyAfter DEF ProposeExtension
<1>5. Thrifty(ProposalStkExtensions(psys, bpt))
  <2>1. Thrifty(SetDre(FALSE) \o GetSigner \o When(~psys, DeployStakedPsysRev3))
    <3>1. CASE psys
      <4>1. When(~psys, DeployStakedPsysRev3) = When(FALSE, DeployStakedPsysRev3)
        BY <3>1
      <4> QED
        BY <1>1, <4>1, ThriftyParts, ThriftyAfter
    <3>2. CASE ~psys
      <4>1. When(~psys, DeployStakedPsysRev3) = DeployStakedPsysRev3
        BY <3>2 DEF When
      <4> QED
        BY <1>1, <1>2, <4>1, ThriftyAfter
    <3> QED
      BY <3>1, <3>2
  <2>2. Quiet(When(~bpt, Throw("no such task"))) /\ Quiet(ProposeExtension(TRUE, TRUE))
    BY <1>3, <1>4 DEF Thrown
  <2> QED
    BY <2>1, <2>2, ThriftyAfter DEF ProposalStkExtensions
<1>6. Quiet(ProposeVaultApproval) /\ Quiet(ProposalVaultApproval)
  <2>1. Quiet(Do("propose", "approval"))
    BY ThriftyParts
  <2>2. Quiet(ProposeVaultApproval)
    BY <1>1, <2>1, ThriftyAfter DEF ProposeVaultApproval
  <2> QED
    BY <1>1, <2>2, ThriftyAfter DEF ProposalVaultApproval
<1> QED
  BY <1>2, <1>4, <1>5, <1>6, ThriftyParts

\* Without the flag, what a missing key costs is one contract.
LEMMA ProgramThrifty ==
    ASSUME NEW r \in Commands, ~r.verify
    PROVE  Thrifty(Steps(r))
<1> DEFINE name == r.name
<1>1. /\ name \in TaskNames \cup DOMAIN Accessors(FALSE)
      /\ r.verify = FALSE /\ r.valid \in BOOLEAN
  BY DeploymentAssumption DEF Commands
<1>2. CASE name \in ProposalTasks
  BY <1>2, ProposalsThrifty DEF Steps, ProposalTasks
<1>3. CASE name \in TaskNames \ ProposalTasks
  BY <1>1, <1>3, TasksThrifty DEF Steps, TaskNames, ProposalTasks
<1>4. CASE name \notin TaskNames
  <2>1. Steps(r) = SetDre(FALSE) \o Accessors(FALSE)[name]
    BY <1>1, <1>4 DEF Steps, TaskNames
  <2>2. name \in {"StakedPSYS", "StakedTokenBptRev2", "PegasysIncentivesController",
                  "DoubleTransferHelper", "SelfdestructTransfer", "MintableErc20",
                  "MockTransferHook"}
    BY <1>1, <1>4 DEF Accessors
  <2> DEFINE all == Accessors(FALSE)
  <2>3. /\ all.StakedPSYS = deployStakedPSYS(FALSE)
        /\ all.StakedTokenBptRev2 = deployStakedTokenBptRevision2(FALSE)
        /\ all.PegasysIncentivesController = deployPegasysIncentivesController(FALSE)
        /\ all.DoubleTransferHelper = deployDoubleTransferHelper(FALSE)
        /\ all.SelfdestructTransfer = DeployContract("SelfdestructTransfer") \o Wait
        /\ all.MintableErc20 = DeployContract("MintableErc20")
        /\ all.MockTransferHook = DeployContract("MockTransferHook")
    BY DEF Accessors
  <2> HIDE DEF all
  <2>4. Quiet(all[name])
    BY <2>2, <2>3, AccessorsQuiet, ThriftyParts DEF Names
  <2>5. Quiet(SetDre(FALSE) \o all[name])
    BY <2>4, ThriftyAfter, ThriftyParts
  <2> QED
    BY <2>1, <2>5, ThriftyParts DEF all
<1> QED
  BY <1>1, <1>2, <1>3, <1>4

\* The tasks that deploy a helper.
LEMMA HelperRegisters ==
    ASSUME NEW id \in Names, NEW verify \in BOOLEAN
    PROVE  Registers(DeployHelper(id, DeployContract(id) \o When(verify, VerifyContract),
                                  verify), id, id)
<1> DEFINE first  == Then(SetDre(FALSE), When(verify, CheckVerification))
           check  == When(verify, VerifyContract)
           deploy == Then(DeployContract(id), check)
           s1     == Then(first, deploy)
           s2     == Then(s1, Wait)
           s3     == Then(s2, RegisterContractInJsonDb(id))
           n      == Size(first)
           m      == Size(deploy)
<1>1. IsProgram(first) /\ n \in Nat
  <2>1. IsProgram(When(verify, CheckVerification)) /\ IsProgram(SetDre(FALSE))
    BY OneStep, WhenParts DEF IsStep
  <2>2. IsProgram(first)
    BY <2>1, Joined
  <2> HIDE DEF first
  <2> QED
    BY <2>2 DEF Size, IsProgram
<1>2. /\ IsProgram(deploy) /\ m \in Nat /\ m >= 2
      /\ What(deploy, 1) = "send" /\ With(deploy, 1) = id
      /\ \A i \in 2 .. m : What(deploy, i) # "send"
  <2>1. /\ IsProgram(check) /\ Size(check) \in {0, 1}
        /\ \A i \in 1 .. Size(check) : What(check, i) = "verify"
    BY OneStep, WhenParts
  <2> DEFINE sent == DeployContract(id)
  <2>2. /\ IsProgram(sent) /\ Size(sent) = 2
        /\ What(sent, 1) = "send" /\ With(sent, 1) = id /\ What(sent, 2) = "register"
    BY DeployParts
  <2> HIDE DEF check, sent
  <2>3. /\ IsProgram(Then(sent, check)) /\ Size(Then(sent, check)) = 2 + Size(check)
        /\ \A i \in 1 .. 2 : /\ What(Then(sent, check), i) = What(sent, i)
                             /\ With(Then(sent, check), i) = With(sent, i)
        /\ \A i \in 1 .. Size(check) :
                What(Then(sent, check), 2 + i) = What(check, i)
    BY <2>1, <2>2, Joined
  <2>4. ASSUME NEW i \in 2 .. 2 + Size(check) PROVE What(Then(sent, check), i) # "send"
    <3>1. i = 2 \/ (i - 2 \in 1 .. Size(check) /\ 2 + (i - 2) = i)
      BY <2>1
    <3>2. CASE i = 2
      BY <2>2, <2>3, <3>2
    <3>3. CASE i - 2 \in 1 .. Size(check) /\ 2 + (i - 2) = i
      <4>1. What(Then(sent, check), 2 + (i - 2)) = "verify"
        BY <2>1, <2>3, <3>3
      <4> QED
        BY <3>3, <4>1
    <3> QED
      BY <3>1, <3>2, <3>3
  <2> QED
    BY <2>1, <2>2, <2>3, <2>4 DEF sent
<1>3. /\ IsStep(Wait, "wait", {})
      /\ IsStep(RegisterContractInJsonDb(id), "register", id)
  BY OneStep
<1> HIDE DEF first, deploy
<1>4. /\ IsProgram(s1) /\ Size(s1) = n + m
      /\ \A i \in 1 .. m : What(s1, n + i) = What(deploy, i) /\ With(s1, n + i) = With(deploy, i)
  BY <1>1, <1>2, Joined
<1> HIDE DEF s1, n, m
<1>5. /\ IsProgram(s2) /\ Size(s2) = n + m + 1
      /\ \A i \in 1 .. n + m : What(s2, i) = What(s1, i) /\ With(s2, i) = With(s1, i)
      /\ What(s2, n + m + 1) = "wait"
  BY <1>3, <1>4, JoinedOne
<1> HIDE DEF s2
<1>6. /\ Size(s3) = n + m + 1 + 1
      /\ \A i \in 1 .. n + m + 1 : What(s3, i) = What(s2, i) /\ With(s3, i) = With(s2, i)
      /\ What(s3, n + m + 1 + 1) = "register" /\ With(s3, n + m + 1 + 1) = id
  BY <1>3, <1>5, JoinedOne
<1> HIDE DEF s3
<1> DEFINE last == n + m + 2
<1>7. /\ last \in Nat /\ last = n + m + 1 + 1 /\ Size(s3) = last
      /\ n + 1 \in 1 .. last /\ last \in 1 .. last /\ n + 1 <= last
      /\ n + m + 1 \in n + 1 + 1 .. last
      /\ n + m + 1 \in 1 .. n + m + 1
  BY <1>1, <1>2, <1>6
<1>8. \A i \in 1 .. m : What(s3, n + i) = What(deploy, i) /\ With(s3, n + i) = With(deploy, i)
  <2> SUFFICES ASSUME NEW i \in 1 .. m
               PROVE  What(s3, n + i) = What(deploy, i) /\ With(s3, n + i) = With(deploy, i)
    OBVIOUS
  <2>1. n + i \in 1 .. n + m /\ n + i \in 1 .. n + m + 1
    BY <1>1, <1>2
  <2> QED
    BY <1>4, <1>5, <1>6, <2>1
<1>9. What(s3, n + m + 1) = "wait"
  BY <1>5, <1>6, <1>7
<1>10. What(s3, last) = "register" /\ With(s3, last) = id
  BY <1>6, <1>7
<1> HIDE DEF last
<1>11. LastSend(s3, n + 1, last) /\ With(s3, n + 1) = id
  <2>1. What(s3, n + 1) = "send" /\ With(s3, n + 1) = id
    BY <1>2, <1>8
  <2>2. ASSUME NEW j \in n + 1 + 1 .. last PROVE What(s3, j) # "send"
    <3>1. (j - n \in 2 .. m /\ j - n \in 1 .. m /\ n + (j - n) = j)
            \/ j = n + m + 1 \/ j = last
      BY <1>1, <1>2, <1>7
    <3>2. CASE j - n \in 2 .. m /\ j - n \in 1 .. m /\ n + (j - n) = j
      <4>1. What(s3, n + (j - n)) # "send"
        BY <1>2, <1>8, <3>2
      <4> QED
        BY <3>2, <4>1
    <3> QED
      BY <1>9, <1>10, <3>1, <3>2
  <2> QED
    BY <2>1, <2>2 DEF LastSend
<1>12. Registers(s3, id, id)
  <2>1. LastRegister(s3, last, last)
    BY <1>7, <1>10 DEF LastRegister
  <2>2. WaitsBetween(s3, n + 1, last)
    BY <1>7, <1>9 DEF WaitsBetween
  <2> QED
    BY <1>7, <1>10, <1>11, <2>1, <2>2 DEF Registers
<1> QED
  BY <1>12 DEF DeployHelper, s3, s2, s1, first, deploy, check, Then

\* A contract of the staked token, and its proxy.
LEMMA TokenParts ==
    ASSUME NEW id \in Names
    PROVE  LET s == DeployContract(id) \o When(TRUE, VerifyContract) IN
           /\ IsProgram(s) /\ Size(s) = 3
           /\ What(s, 1) = "send" /\ With(s, 1) = id
           /\ What(s, 2) = "register" /\ What(s, 3) = "verify"
<1> DEFINE sent == DeployContract(id)
           both == Then(sent, VerifyContract)
<1>1. /\ IsProgram(sent) /\ Size(sent) = 2
      /\ What(sent, 1) = "send" /\ With(sent, 1) = id
      /\ What(sent, 2) = "register"
  BY DeployParts
<1>2. IsStep(VerifyContract, "verify", {})
  BY OneStep
<1> HIDE DEF sent
<1>3. /\ IsProgram(both) /\ Size(both) = 2 + 1
      /\ \A i \in 1 .. 2 : What(both, i) = What(sent, i) /\ With(both, i) = With(sent, i)
      /\ What(both, 2 + 1) = "verify"
  BY <1>1, <1>2, JoinedOne
<1>4. DeployContract(id) \o When(TRUE, VerifyContract) = both
  BY DEF When, Then, sent
<1> HIDE DEF both
<1>5. 2 + 1 = 3 /\ 1 \in 1 .. 2 /\ 2 \in 1 .. 2
  OBVIOUS
<1>6. /\ IsProgram(both) /\ Size(both) = 3
      /\ What(both, 1) = "send" /\ With(both, 1) = id
      /\ What(both, 2) = "register" /\ What(both, 3) = "verify"
  BY <1>1, <1>3, <1>5
<1> QED
  BY <1>4, <1>6

LEMMA ProxyParts ==
    ASSUME NEW verify \in BOOLEAN
    PROVE  LET s == deployInitializableAdminUpgradeabilityProxy(verify) IN
           /\ IsProgram(s) /\ Size(s) \in {3, 4}
           /\ What(s, 1) = "send" /\ With(s, 1) = "InitializableAdminUpgradeabilityProxy"
           /\ What(s, 2) = "register"
           /\ With(s, 2) = "InitializableAdminUpgradeabilityProxy"
           /\ What(s, 3) = "wait"
           /\ Size(s) = 4 => What(s, 4) = "verify"
<1> DEFINE id    == "InitializableAdminUpgradeabilityProxy"
           sent  == DeployContract(id)
           check == When(verify, VerifyContract)
           s1    == Then(sent, Wait)
           s     == Then(s1, check)
<1>1. /\ IsProgram(sent) /\ Size(sent) = 2
      /\ What(sent, 1) = "send" /\ With(sent, 1) = id
      /\ What(sent, 2) = "register" /\ With(sent, 2) = id
  BY DeployParts DEF Names
<1>2. /\ IsProgram(check) /\ Size(check) \in {0, 1}
      /\ \A i \in 1 .. Size(check) : What(check, i) = "verify"
  BY OneStep, WhenParts
<1>3. IsStep(Wait, "wait", {})
  BY OneStep
<1> HIDE DEF sent, check
<1>4. /\ IsProgram(s1) /\ Size(s1) = 2 + 1
      /\ \A i \in 1 .. 2 : What(s1, i) = What(sent, i) /\ With(s1, i) = With(sent, i)
      /\ What(s1, 2 + 1) = "wait"
  BY <1>1, <1>3, JoinedOne
<1> HIDE DEF s1
<1>5. /\ IsProgram(s) /\ Size(s) = 3 + Size(check)
      /\ \A i \in 1 .. 3 : What(s, i) = What(s1, i) /\ With(s, i) = With(s1, i)
      /\ \A i \in 1 .. Size(check) : What(s, 3 + i) = What(check, i)
  BY <1>2, <1>4, Joined
<1>6. Size(check) = 1 => What(s, 3 + 1) = "verify"
  BY <1>2, <1>5
<1>7. deployInitializableAdminUpgradeabilityProxy(verify) = s
  BY DEF deployInitializableAdminUpgradeabilityProxy, Then, s1, sent, check
<1> HIDE DEF s
<1>8. /\ 3 + 0 = 3 /\ 3 + 1 = 4 /\ 2 + 1 = 3
      /\ 1 \in 1 .. 2 /\ 2 \in 1 .. 2 /\ {1, 2, 3} \subseteq 1 .. 3
  OBVIOUS
<1>9. /\ IsProgram(s) /\ Size(s) \in {3, 4}
      /\ What(s, 1) = "send" /\ With(s, 1) = id
      /\ What(s, 2) = "register" /\ With(s, 2) = id
      /\ What(s, 3) = "wait"
      /\ Size(s) = 4 => What(s, 4) = "verify"
  <2>1. Size(s) \in {3, 4} /\ (Size(s) = 4 => Size(check) = 1)
    BY <1>2, <1>5
  <2> QED
    BY <1>1, <1>4, <1>5, <1>6, <1>8, <2>1
<1> QED
  BY <1>7, <1>9

\* What comes first in all of them.
LEMMA FirstParts ==
    ASSUME NEW verify \in BOOLEAN
    PROVE  LET s == Then(SetDre(FALSE), When(verify, CheckVerification)) IN
           IsProgram(s) /\ Size(s) \in Nat
<1>1. IsProgram(When(verify, CheckVerification)) /\ IsProgram(SetDre(FALSE))
  BY OneStep, WhenParts DEF IsStep
<1> DEFINE first == Then(SetDre(FALSE), When(verify, CheckVerification))
<1>2. IsProgram(first)
  BY <1>1, Joined
<1> HIDE DEF first
<1>3. IsProgram(first) /\ Size(first) \in Nat
  BY <1>2 DEF Size, IsProgram
<1> QED
  BY <1>3 DEF first

(***************************************************************************)
(* deploy-StakedPSYSV3: the implementation is under "Staked PSYS", and the *)
(* proxy, registered last, under "StakedPSYSV3".                           *)
(***************************************************************************)
LEMMA TokenRegisters ==
    ASSUME NEW verify \in BOOLEAN
    PROVE  LET s == DeployStakedPSYSV3(verify) IN
           /\ Registers(s, "Staked PSYS", "StakedPSYSV3")
           /\ Registers(s, "StakedPSYSV3", "InitializableAdminUpgradeabilityProxy")
<1> DEFINE first == Then(SetDre(FALSE), When(verify, CheckVerification))
           token == deployStakedPSYSV3(TRUE)
           proxy == deployInitializableAdminUpgradeabilityProxy(verify)
           s1    == Then(first, token)
           s2    == Then(s1, Wait)
           key   == "Staked PSYS"
           s3    == Then(s2, RegisterContractInJsonDb(key))
           s4    == Then(s3, proxy)
           s5    == Then(s4, RegisterContractInJsonDb("StakedPSYSV3"))
           n     == Size(first)
           m     == Size(proxy)
<1>1. IsProgram(first) /\ n \in Nat
  BY FirstParts
<1>2. /\ IsProgram(token) /\ Size(token) = 3
      /\ What(token, 1) = "send" /\ With(token, 1) = "StakedPSYSV3"
      /\ What(token, 2) = "register" /\ What(token, 3) = "verify"
  BY TokenParts DEF deployStakedPSYSV3, Names
<1>3. /\ IsProgram(proxy) /\ m \in {3, 4}
      /\ What(proxy, 1) = "send"
      /\ With(proxy, 1) = "InitializableAdminUpgradeabilityProxy"
      /\ What(proxy, 2) = "register"
      /\ With(proxy, 2) = "InitializableAdminUpgradeabilityProxy"
      /\ What(proxy, 3) = "wait"
      /\ m = 4 => What(proxy, 4) = "verify"
  BY ProxyParts
<1>4. /\ IsStep(Wait, "wait", {})
      /\ IsStep(RegisterContractInJsonDb(key), "register", key)
      /\ IsStep(RegisterContractInJsonDb("StakedPSYSV3"), "register", "StakedPSYSV3")
  BY OneStep DEF Names
<1>b. key # "StakedPSYSV3" /\ key # "InitializableAdminUpgradeabilityProxy"
  OBVIOUS
<1> HIDE DEF first, token, proxy, key
<1> HIDE DEF n, m
<1>5. /\ IsProgram(s1) /\ Size(s1) = n + 3
      /\ \A i \in 1 .. 3 : What(s1, n + i) = What(token, i) /\ With(s1, n + i) = With(token, i)
  BY <1>1, <1>2, Joined DEF n
<1> HIDE DEF s1
<1> DEFINE a1 == Size(s1)
           a2 == Size(s2)
           a3 == Size(s3)
           a4 == Size(s4)
<1>6. /\ IsProgram(s2) /\ a2 = a1 + 1
      /\ \A i \in 1 .. a1 : What(s2, i) = What(s1, i) /\ With(s2, i) = With(s1, i)
      /\ What(s2, a1 + 1) = "wait"
  BY <1>4, <1>5, JoinedOne
<1> HIDE DEF s2
<1>7. /\ IsProgram(s3) /\ a3 = a2 + 1
      /\ \A i \in 1 .. a2 : What(s3, i) = What(s2, i) /\ With(s3, i) = With(s2, i)
      /\ What(s3, a2 + 1) = "register" /\ With(s3, a2 + 1) = key
  BY <1>4, <1>6, JoinedOne
<1> HIDE DEF s3
<1>8. /\ IsProgram(s4) /\ a4 = a3 + m
      /\ \A i \in 1 .. a3 : What(s4, i) = What(s3, i) /\ With(s4, i) = With(s3, i)
      /\ \A i \in 1 .. m : /\ What(s4, a3 + i) = What(proxy, i)
                           /\ With(s4, a3 + i) = With(proxy, i)
  BY <1>3, <1>7, Joined DEF m
<1> HIDE DEF s4
<1>9. /\ Size(s5) = a4 + 1
      /\ \A i \in 1 .. a4 : What(s5, i) = What(s4, i) /\ With(s5, i) = With(s4, i)
      /\ What(s5, a4 + 1) = "register" /\ With(s5, a4 + 1) = "StakedPSYSV3"
  BY <1>4, <1>8, JoinedOne
<1> HIDE DEF s5
<1>a. a1 = n + 3 /\ a2 = n + 4 /\ a3 = n + 5 /\ a4 = n + 5 + m /\ a4 \in Nat
  <2>1. a1 = n + 3
    BY <1>5
  <2> HIDE DEF a1, a2, a3, a4
  <2> QED
    BY <2>1, <1>1, <1>3, <1>6, <1>7, <1>8
<1> HIDE DEF a1, a2, a3, a4
\* The steps after the first ones, one by one.
<1>10. /\ What(s5, n + 1) = "send" /\ With(s5, n + 1) = "StakedPSYSV3"
       /\ What(s5, n + 2) = "register" /\ What(s5, n + 3) = "verify"
  <2>1. ASSUME NEW i \in 1 .. 3
        PROVE  What(s5, n + i) = What(token, i) /\ With(s5, n + i) = With(token, i)
    <3>1. n + i \in 1 .. a1 /\ n + i \in 1 .. a2 /\ n + i \in 1 .. a3 /\ n + i \in 1 .. a4
      BY <1>1, <1>3, <1>a
    <3> QED
      BY <1>5, <1>6, <1>7, <1>8, <1>9, <1>a, <3>1
  <2> QED
    BY <1>2, <2>1
<1>11. What(s5, n + 4) = "wait"
  <2>1. n + 4 = a1 + 1 /\ n + 4 \in 1 .. a2 /\ n + 4 \in 1 .. a3 /\ n + 4 \in 1 .. a4
    BY <1>1, <1>3, <1>a
  <2> QED
    BY <1>6, <1>7, <1>8, <1>9, <2>1
<1>12. What(s5, n + 5) = "register" /\ With(s5, n + 5) = key
  <2>1. n + 5 = a2 + 1 /\ n + 5 \in 1 .. a3 /\ n + 5 \in 1 .. a4
    BY <1>1, <1>3, <1>a
  <2> QED
    BY <1>7, <1>8, <1>9, <2>1
<1>13. \A i \in 1 .. m : What(s5, n + 5 + i) = What(proxy, i) /\ With(s5, n + 5 + i) = With(proxy, i)
  <2> SUFFICES ASSUME NEW i \in 1 .. m
               PROVE  /\ What(s5, n + 5 + i) = What(proxy, i)
                      /\ With(s5, n + 5 + i) = With(proxy, i)
    OBVIOUS
  <2>1. n + 5 + i = a3 + i /\ n + 5 + i \in 1 .. a4
    BY <1>1, <1>3, <1>a
  <2> QED
    BY <1>8, <1>9, <2>1
<1> DEFINE last == n + 5 + m + 1
<1>14. /\ What(s5, n + 6) = "send"
       /\ With(s5, n + 6) = "InitializableAdminUpgradeabilityProxy"
       /\ What(s5, n + 7) = "register"
       /\ With(s5, n + 7) = "InitializableAdminUpgradeabilityProxy"
       /\ What(s5, n + 8) = "wait"
       /\ m = 4 => What(s5, n + 9) = "verify"
  <2>1. n + 6 = n + 5 + 1 /\ n + 7 = n + 5 + 2 /\ n + 8 = n + 5 + 3 /\ n + 9 = n + 5 + 4
    BY <1>1
  <2> QED
    BY <1>3, <1>13, <2>1
<1>15. /\ last \in Nat /\ Size(s5) = last
       /\ last = IF m = 3 THEN n + 9 ELSE n + 10
       /\ What(s5, last) = "register" /\ With(s5, last) = "StakedPSYSV3"
  BY <1>1, <1>3, <1>9, <1>a
<1> HIDE DEF last
<1>16. Registers(s5, key, "StakedPSYSV3")
  <2>1. LastRegister(s5, n + 5, last)
    <3>1. ASSUME NEW j \in n + 5 + 1 .. last, What(s5, j) = "register"
          PROVE  With(s5, j) # key
      <4>1. \/ j = n + 6 \/ j = n + 7 \/ j = n + 8 \/ j = last
            \/ m = 4 /\ j = n + 9
        BY <1>1, <1>3, <1>15
      <4> QED
        BY <1>b, <1>14, <1>15, <3>1, <4>1
    <3> QED
      BY <1>12, <3>1 DEF LastRegister
  <2>2. LastSend(s5, n + 1, n + 5)
    <3>1. ASSUME NEW j \in n + 1 + 1 .. n + 5 PROVE What(s5, j) # "send"
      <4>1. j = n + 2 \/ j = n + 3 \/ j = n + 4 \/ j = n + 5
        BY <1>1
      <4> QED
        BY <1>10, <1>11, <1>12, <4>1
    <3> QED
      BY <1>10, <3>1 DEF LastSend
  <2>3. /\ n + 4 \in n + 1 + 1 .. n + 5 /\ n + 1 \in 1 .. last /\ n + 5 \in 1 .. last
        /\ n + 1 <= n + 5
    BY <1>1, <1>3, <1>15
  <2>4. WaitsBetween(s5, n + 1, n + 5)
    BY <1>11, <2>3 DEF WaitsBetween
  <2> QED
    BY <1>10, <1>12, <1>15, <2>1, <2>2, <2>3, <2>4 DEF Registers
<1>17. Registers(s5, "StakedPSYSV3", "InitializableAdminUpgradeabilityProxy")
  <2>1. LastRegister(s5, last, last)
    <3>1. \A j : j \notin last + 1 .. last
      BY <1>15
    <3> QED
      BY <1>15, <3>1 DEF LastRegister
  <2>2. LastSend(s5, n + 6, last)
    <3>1. ASSUME NEW j \in n + 6 + 1 .. last PROVE What(s5, j) # "send"
      <4>1. j = n + 7 \/ j = n + 8 \/ j = last \/ (m = 4 /\ j = n + 9)
        BY <1>1, <1>3, <1>15
      <4> QED
        BY <1>14, <1>15, <4>1
    <3> QED
      BY <1>14, <3>1 DEF LastSend
  <2>3. /\ n + 8 \in n + 6 + 1 .. last /\ n + 6 \in 1 .. last /\ last \in 1 .. last
        /\ n + 6 <= last
    BY <1>1, <1>3, <1>15
  <2>4. WaitsBetween(s5, n + 6, last)
    BY <1>14, <2>3 DEF WaitsBetween
  <2> QED
    BY <1>14, <1>15, <2>1, <2>2, <2>3, <2>4 DEF Registers
<1>18. DeployStakedPSYSV3(verify) = s5
  BY DEF DeployStakedPSYSV3, Then, s5, s4, s3, s2, s1, first, token, proxy, key
<1> QED
  BY <1>16, <1>17, <1>18 DEF key

\* Some step is one of these.
Has(s, some) == \E i \in 1 .. Size(s) : What(s, i) \in some

\* What a task promises, its program registers; the one task that refuses its
\* parameters throws.
LEMMA ProgramRegisters ==
    ASSUME NEW r \in Commands, NEW k \in DOMAIN Promised(r.name)
    PROVE  Has(Steps(r), {"throw"}) \/ Registers(Steps(r), k, Promised(r.name)[k])
<1> DEFINE p == Promised(r.name)
<1>1. r.verify \in BOOLEAN /\ r.valid \in BOOLEAN
  BY DEF Commands
<1>2. CASE r.name = "deploy-StakedPSYSV3"
  <2>1. Steps(r) = DeployStakedPSYSV3(r.verify)
    BY <1>2 DEF Steps
  <2>2. p = [key \in {"Staked PSYS", "StakedPSYSV3"} |->
                IF key = "Staked PSYS" THEN "StakedPSYSV3"
                ELSE "InitializableAdminUpgradeabilityProxy"]
    BY <1>2, Zenon DEF Promised
  <2>3. \/ k = "Staked PSYS" /\ p[k] = "StakedPSYSV3"
        \/ k = "StakedPSYSV3" /\ p[k] = "InitializableAdminUpgradeabilityProxy"
    BY <2>2, Zenon
  <2>4. /\ Registers(Steps(r), "Staked PSYS", "StakedPSYSV3")
        /\ Registers(Steps(r), "StakedPSYSV3", "InitializableAdminUpgradeabilityProxy")
    BY <1>1, <2>1, TokenRegisters, Zenon
  <2> QED
    BY <2>3, <2>4, Zenon
<1>3. CASE r.name = "deploy-PegasysStakingHelper"
  <2>1. Steps(r) = DeployHelper("PegasysStakingHelper",
                DeployContract("PegasysStakingHelper") \o When(r.verify, VerifyContract),
                r.verify)
    BY <1>3 DEF Steps, DeployPegasysStakingHelper, deployPegasysStakingHelper
  <2>2. k = "PegasysStakingHelper" /\ Promised(r.name)[k] = "PegasysStakingHelper"
    BY <1>3 DEF Promised
  <2> QED
    BY <1>1, <2>1, <2>2, HelperRegisters DEF Names
<1>4. CASE r.name = "deploy-StakeUIHelper"
  <2>1. Steps(r) = DeployHelper("StakeUIHelper",
                DeployContract("StakeUIHelper") \o When(r.verify, VerifyContract), r.verify)
    BY <1>4 DEF Steps, DeployStakeUIHelper, deployStakeUIHelper
  <2>2. k = "StakeUIHelper" /\ Promised(r.name)[k] = "StakeUIHelper"
    BY <1>4 DEF Promised
  <2> QED
    BY <1>1, <2>1, <2>2, HelperRegisters DEF Names
<1>5. CASE r.name = "deploy-StakedTokenDataProvider" /\ r.valid
  <2>1. Steps(r) = DeployHelper("StakedTokenDataProvider",
                DeployContract("StakedTokenDataProvider") \o When(r.verify, VerifyContract),
                r.verify)
    BY <1>5 DEF Steps, DeployStakedTokenDataProvider, deployStakedTokenDataProvider
  <2>2. k = "StakedTokenDataProvider" /\ Promised(r.name)[k] = "StakedTokenDataProvider"
    BY <1>5 DEF Promised
  <2> QED
    BY <1>1, <2>1, <2>2, HelperRegisters DEF Names
<1>6. CASE r.name = "deploy-StakedTokenDataProvider" /\ ~ r.valid
  <2> DEFINE first == Then(SetDre(FALSE), When(r.verify, CheckVerification))
             s     == Then(first, Throw("parameter"))
  <2>1. IsProgram(first) /\ Size(first) \in Nat
    BY <1>1, FirstParts
  <2>2. IsStep(Throw("parameter"), "throw", "parameter")
    BY OneStep DEF Thrown
  <2>3. Steps(r) = s
    BY <1>6 DEF Steps, DeployStakedTokenDataProvider, Then
  <2> HIDE DEF first
  <2>4. Size(s) = Size(first) + 1 /\ What(s, Size(first) + 1) = "throw"
    BY <2>1, <2>2, JoinedOne
  <2> HIDE DEF s
  <2>5. Size(first) + 1 \in 1 .. Size(s)
    BY <2>1, <2>4
  <2> QED
    BY <2>3, <2>4, <2>5 DEF Has
<1>7. CASE r.name \notin {"deploy-StakedPSYSV3", "deploy-PegasysStakingHelper",
                          "deploy-StakeUIHelper", "deploy-StakedTokenDataProvider"}
  <2>1. Promised(r.name) = [key \in {} |-> ""]
    BY <1>7, Zenon DEF Promised
  <2> QED
    BY <2>1
<1> QED
  BY <1>2, <1>3, <1>4, <1>5, <1>6, <1>7

LEMMA HasJoined ==
    ASSUME NEW s, NEW t, IsProgram(s), IsProgram(t), NEW some, Has(s, some) \/ Has(t, some)
    PROVE  Has(Then(s, t), some)
<1>1. /\ Size(s) \in Nat /\ Size(t) \in Nat /\ Size(Then(s, t)) = Size(s) + Size(t)
      /\ \A i \in 1 .. Size(s) : What(Then(s, t), i) = What(s, i)
      /\ \A i \in 1 .. Size(t) : What(Then(s, t), Size(s) + i) = What(t, i)
  BY Joined
<1>2. CASE Has(s, some)
  <2>1. PICK i \in 1 .. Size(s) : What(s, i) \in some
    BY <1>2 DEF Has
  <2>2. i \in 1 .. Size(Then(s, t))
    BY <1>1
  <2> QED
    BY <1>1, <2>1, <2>2 DEF Has
<1>3. CASE Has(t, some)
  <2>1. PICK i \in 1 .. Size(t) : What(t, i) \in some
    BY <1>3 DEF Has
  <2>2. Size(s) + i \in 1 .. Size(Then(s, t))
    BY <1>1
  <2> QED
    BY <1>1, <2>1, <2>2 DEF Has
<1> QED
  BY <1>2, <1>3

\* What is kept is the implementation of the staked token that was just sent.
Kept(s) ==
    /\ IsProgram(s)
    /\ \A i \in 1 .. Size(s) : What(s, i) = "keep" =>
            \E l \in 1 .. i : LastSend(s, l, i) /\ With(s, l) = "StakedTokenV3Rev3"

LEMMA KeptJoined ==
    ASSUME NEW s, NEW t, Kept(s), Kept(t)
    PROVE  Kept(Then(s, t))
<1> DEFINE both == Then(s, t)
           n    == Size(s)
<1>1. IsProgram(s) /\ IsProgram(t)
  BY DEF Kept
<1>2. /\ IsProgram(both) /\ n \in Nat /\ Size(t) \in Nat
      /\ Size(both) = n + Size(t)
      /\ \A i \in 1 .. n : What(both, i) = What(s, i) /\ With(both, i) = With(s, i)
      /\ \A i \in 1 .. Size(t) : /\ What(both, n + i) = What(t, i)
                                /\ With(both, n + i) = With(t, i)
  BY <1>1, Joined
<1>3. /\ \A i \in 1 .. n : What(s, i) = "keep" =>
            \E l \in 1 .. i : LastSend(s, l, i) /\ With(s, l) = "StakedTokenV3Rev3"
      /\ \A i \in 1 .. Size(t) : What(t, i) = "keep" =>
            \E l \in 1 .. i : LastSend(t, l, i) /\ With(t, l) = "StakedTokenV3Rev3"
  BY DEF Kept
<1> HIDE DEF both, n
<1> SUFFICES ASSUME NEW i \in 1 .. Size(both), What(both, i) = "keep"
             PROVE  \E l \in 1 .. i : /\ LastSend(both, l, i)
                                      /\ With(both, l) = "StakedTokenV3Rev3"
  <2>1. Kept(both)
    BY <1>2 DEF Kept
  <2> QED
    BY <2>1 DEF both
<1>4. CASE i \in 1 .. n
  <2>1. PICK l \in 1 .. i : LastSend(s, l, i) /\ With(s, l) = "StakedTokenV3Rev3"
    BY <1>2, <1>3, <1>4
  <2>2. l \in 1 .. n /\ \A j \in l + 1 .. i : j \in 1 .. n
    BY <1>2, <1>4
  <2>3. LastSend(both, l, i) /\ With(both, l) = "StakedTokenV3Rev3"
    BY <1>2, <2>1, <2>2 DEF LastSend
  <2> QED
    BY <2>3
<1>5. CASE i \notin 1 .. n
  <2> DEFINE k == i - n
  <2>1. k \in 1 .. Size(t) /\ n + k = i
    BY <1>2, <1>5
  <2> HIDE DEF k
  <2>2. What(t, k) = "keep"
    BY <1>2, <2>1
  <2>3. PICK l \in 1 .. k : LastSend(t, l, k) /\ With(t, l) = "StakedTokenV3Rev3"
    BY <1>3, <2>1, <2>2
  <2>4. l \in 1 .. Size(t) /\ n + l \in 1 .. i
    BY <1>2, <2>1
  <2>5. What(both, n + l) = "send" /\ With(both, n + l) = "StakedTokenV3Rev3"
    BY <1>2, <2>3, <2>4 DEF LastSend
  <2>6. ASSUME NEW j \in n + l + 1 .. i PROVE What(both, j) # "send"
    <3> DEFINE h == j - n
    <3>1. h \in l + 1 .. k /\ h \in 1 .. Size(t) /\ n + h = j
      BY <1>2, <2>1, <2>4
    <3> HIDE DEF h
    <3>2. What(t, h) # "send"
      BY <2>3, <3>1 DEF LastSend
    <3> QED
      BY <1>2, <3>1, <3>2
  <2>7. LastSend(both, n + l, i)
    BY <2>5, <2>6 DEF LastSend
  <2> QED
    BY <2>4, <2>5, <2>7
<1> QED
  BY <1>4, <1>5

\* A proposal to upgrade has both addresses: they were given, or the one of the
\* staked token was kept, or the task has stopped before.
Backed(s, psys, bpt) ==
    /\ IsProgram(s)
    /\ \A i \in 1 .. Size(s) : What(s, i) = "propose" /\ With(s, i) = "extension" =>
            /\ bpt \/ \E j \in 1 .. i : What(s, j) = "throw"
            /\ psys \/ \E j \in 1 .. i : What(s, j) \in {"throw", "keep"}

LEMMA BackedJoined ==
    ASSUME NEW s, NEW t, NEW psys \in BOOLEAN, NEW bpt \in BOOLEAN,
           Backed(s, psys, bpt), NEW p \in BOOLEAN, NEW b \in BOOLEAN, Backed(t, p, b),
           p => psys \/ Has(s, {"throw", "keep"}), b => bpt \/ Has(s, {"throw"})
    PROVE  Backed(Then(s, t), psys, bpt)
<1> DEFINE both == Then(s, t)
           n    == Size(s)
<1>1. IsProgram(s) /\ IsProgram(t)
  BY DEF Backed
<1>2. /\ IsProgram(both) /\ n \in Nat /\ Size(t) \in Nat
      /\ Size(both) = n + Size(t)
      /\ \A i \in 1 .. n : What(both, i) = What(s, i) /\ With(both, i) = With(s, i)
      /\ \A i \in 1 .. Size(t) : /\ What(both, n + i) = What(t, i)
                                /\ With(both, n + i) = With(t, i)
  BY <1>1, Joined
<1>3. /\ \A i \in 1 .. n : What(s, i) = "propose" /\ With(s, i) = "extension" =>
            /\ bpt \/ \E j \in 1 .. i : What(s, j) = "throw"
            /\ psys \/ \E j \in 1 .. i : What(s, j) \in {"throw", "keep"}
      /\ \A i \in 1 .. Size(t) : What(t, i) = "propose" /\ With(t, i) = "extension" =>
            /\ bpt \/ Has(s, {"throw"}) \/ \E j \in 1 .. i : What(t, j) = "throw"
            /\ \/ psys \/ Has(s, {"throw", "keep"})
               \/ \E j \in 1 .. i : What(t, j) \in {"throw", "keep"}
  BY DEF Backed
<1>4. /\ Has(s, {"throw"}) => \E j \in 1 .. n : What(s, j) = "throw"
      /\ Has(s, {"throw", "keep"}) => \E j \in 1 .. n : What(s, j) \in {"throw", "keep"}
  BY DEF Has
<1> HIDE DEF both, n
<1> SUFFICES ASSUME NEW i \in 1 .. Size(both),
                    What(both, i) = "propose" /\ With(both, i) = "extension"
             PROVE  /\ bpt \/ \E j \in 1 .. i : What(both, j) = "throw"
                    /\ psys \/ \E j \in 1 .. i : What(both, j) \in {"throw", "keep"}
  <2>1. Backed(both, psys, bpt)
    BY <1>2 DEF Backed
  <2> QED
    BY <2>1 DEF both
<1>5. CASE i \in 1 .. n
  <2>1. \A j \in 1 .. i : j \in 1 .. n
    BY <1>2, <1>5
  <2> QED
    BY <1>2, <1>3, <1>5, <2>1
<1>6. CASE i \notin 1 .. n
  <2> DEFINE k == i - n
  <2>1. k \in 1 .. Size(t) /\ n + k = i
    BY <1>2, <1>6
  <2> HIDE DEF k
  <2>2. What(t, k) = "propose" /\ With(t, k) = "extension"
    BY <1>2, <2>1
  <2>3. \A j \in 1 .. n : j \in 1 .. i /\ What(both, j) = What(s, j)
    BY <1>2, <1>6
  <2>4. \A j \in 1 .. k : n + j \in 1 .. i /\ What(both, n + j) = What(t, j)
    BY <1>2, <2>1
  <2>5. bpt \/ \E j \in 1 .. i : What(both, j) = "throw"
    BY <1>3, <1>4, <2>1, <2>2, <2>3, <2>4
  <2>6. psys \/ \E j \in 1 .. i : What(both, j) \in {"throw", "keep"}
    BY <1>3, <1>4, <2>1, <2>2, <2>3, <2>4
  <2> QED
    BY <2>5, <2>6
<1> QED
  BY <1>5, <1>6

\* Steps that keep nothing and propose nothing.
LEMMA PlainSound ==
    ASSUME NEW s \in Seq(PlainSteps \cup Throws)
    PROVE  Kept(s) /\ \A psys, bpt \in BOOLEAN : Backed(s, psys, bpt)
<1>1. \A i \in 1 .. Len(s) : s[i].do \notin {"keep", "propose"}
  BY DEF PlainSteps, Throws
<1>2. s \in Seq(AnyStep)
  BY StepSets
<1>3. /\ IsProgram(s)
      /\ \A i \in 1 .. Size(s) : What(s, i) # "keep" /\ What(s, i) # "propose"
  BY <1>1, <1>2 DEF IsProgram, Size, What
<1> QED
  BY <1>3 DEF Kept, Backed

\* deploy-staked-psys-rev3
LEMMA Rev3Sound ==
    /\ Kept(DeployStakedPsysRev3) /\ Has(DeployStakedPsysRev3, {"throw", "keep"})
    /\ \A psys, bpt \in BOOLEAN : Backed(DeployStakedPsysRev3, psys, bpt)
<1> DEFINE start == SetDre(FALSE)
           first == Then(start, GetSigner)
           rev3  == deployStakedTokenV3Revision3(TRUE)
           s     == Then(first, rev3)
           kept  == Then(s, Keep)
<1>1. /\ IsProgram(first) /\ Size(first) = 2
      /\ What(first, 1) = "setDre" /\ What(first, 2) = "getSigner"
  <2>1. /\ IsProgram(start) /\ Size(start) = 1 /\ What(start, 1) = "setDre"
        /\ IsStep(GetSigner, "getSigner", {})
    BY OneStep DEF IsStep
  <2> HIDE DEF start
  <2>2. /\ IsProgram(first) /\ Size(first) = Size(start) + 1
        /\ \A i \in 1 .. Size(start) : What(first, i) = What(start, i)
        /\ What(first, Size(start) + 1) = "getSigner"
    BY <2>1, JoinedOne
  <2>3. 1 + 1 = 2 /\ 1 \in 1 .. 1
    OBVIOUS
  <2> HIDE DEF first
  <2> QED
    BY <2>1, <2>2, <2>3
<1>2. /\ IsProgram(rev3) /\ Size(rev3) = 3
      /\ What(rev3, 1) = "send" /\ With(rev3, 1) = "StakedTokenV3Rev3"
      /\ What(rev3, 2) = "register" /\ What(rev3, 3) = "verify"
  BY TokenParts DEF deployStakedTokenV3Revision3, Names
<1>3. IsStep(Keep, "keep", {})
  BY OneStep
<1>4. DeployStakedPsysRev3 = kept
  BY DEF DeployStakedPsysRev3, Then
<1> HIDE DEF start, first, rev3
<1>5. /\ IsProgram(s) /\ Size(s) = 2 + 3
      /\ \A i \in 1 .. 2 : What(s, i) = What(first, i)
      /\ \A i \in 1 .. 3 : What(s, 2 + i) = What(rev3, i) /\ With(s, 2 + i) = With(rev3, i)
  BY <1>1, <1>2, Joined
<1> HIDE DEF s
<1>6. /\ What(s, 2 + 1) = "send" /\ With(s, 2 + 1) = "StakedTokenV3Rev3"
      /\ What(s, 2 + 2) = "register" /\ What(s, 2 + 3) = "verify"
  BY <1>2, <1>5
<1>7. /\ IsProgram(kept) /\ Size(kept) = Size(s) + 1
      /\ \A i \in 1 .. Size(s) : What(kept, i) = What(s, i) /\ With(kept, i) = With(s, i)
      /\ What(kept, Size(s) + 1) = "keep"
  BY <1>3, <1>5, JoinedOne
<1> HIDE DEF kept
<1>8. /\ Size(kept) = 6 /\ What(kept, 6) = "keep"
      /\ What(kept, 3) = "send" /\ With(kept, 3) = "StakedTokenV3Rev3"
      /\ What(kept, 4) = "register" /\ What(kept, 5) = "verify"
  <2>1. /\ Size(s) = 5 /\ 5 + 1 = 6 /\ 2 + 1 = 3 /\ 2 + 2 = 4 /\ 2 + 3 = 5
        /\ {3, 4, 5} \subseteq 1 .. Size(s)
    BY <1>5
  <2> QED
    BY <1>6, <1>7, <2>1
<1>9. What(kept, 1) = "setDre" /\ What(kept, 2) = "getSigner"
  <2>1. {1, 2} \subseteq 1 .. 2 /\ {1, 2} \subseteq 1 .. Size(s)
    BY <1>5
  <2> QED
    BY <1>1, <1>5, <1>7, <2>1
<1>10. Kept(kept)
  <2>1. \A i \in 1 .. 6 : What(kept, i) = "keep" => i = 6
    BY <1>8, <1>9
  <2>2. LastSend(kept, 3, 6)
    BY <1>8 DEF LastSend
  <2> QED
    BY <1>7, <1>8, <2>1, <2>2 DEF Kept
<1>11. Has(kept, {"throw", "keep"})
  BY <1>8 DEF Has
<1>12. ASSUME NEW psys \in BOOLEAN, NEW bpt \in BOOLEAN PROVE Backed(kept, psys, bpt)
  <2>1. \A i \in 1 .. 6 : What(kept, i) # "propose"
    BY <1>8, <1>9
  <2> QED
    BY <1>7, <1>8, <2>1 DEF Backed
<1> QED
  BY <1>4, <1>10, <1>11, <1>12

LEMMA ProposeSound ==
    /\ \A what \in {"extension", "approval"} :
            /\ Kept(Do("propose", what)) /\ Backed(Do("propose", what), TRUE, TRUE)
    /\ \A psys, bpt \in BOOLEAN : Backed(Do("propose", "approval"), psys, bpt)
<1>1. ASSUME NEW what \in {"extension", "approval"}
      PROVE  /\ Kept(Do("propose", what)) /\ Backed(Do("propose", what), TRUE, TRUE)
             /\ what = "approval" =>
                    \A psys, bpt \in BOOLEAN : Backed(Do("propose", what), psys, bpt)
  <2> DEFINE s == Do("propose", what)
  <2>1. IsProgram(s) /\ Size(s) = 1 /\ What(s, 1) = "propose" /\ With(s, 1) = what
    BY OneStep DEF IsStep
  <2> HIDE DEF s
  <2>2. \A i \in 1 .. Size(s) : What(s, i) = "propose" /\ With(s, i) = what
    BY <2>1
  <2>3. Kept(s)
    BY <2>1, <2>2 DEF Kept
  <2>4. Backed(s, TRUE, TRUE)
    BY <2>1, <2>2 DEF Backed
  <2>5. what = "approval" => \A psys, bpt \in BOOLEAN : Backed(s, psys, bpt)
    BY <2>1, <2>2 DEF Backed
  <2> QED
    BY <2>3, <2>4, <2>5 DEF s
<1> QED
  BY <1>1

\* What all proposals begin with.
LEMMA BeginSound ==
    /\ Kept(SetDre(FALSE) \o GetSigner)
    /\ \A psys, bpt \in BOOLEAN : Backed(SetDre(FALSE) \o GetSigner, psys, bpt)
    /\ SetDre(FALSE) \o GetSigner \in Seq(PlainSteps \cup Throws)
<1>1. SetDre(FALSE) \o GetSigner \in Seq(PlainSteps \cup Throws)
  BY PlainParts, StepSets, JoinedIn
<1> QED
  BY <1>1, PlainSound

\* propose-extension
LEMMA ExtensionSound ==
    ASSUME NEW a \in BOOLEAN, NEW b \in BOOLEAN
    PROVE  Kept(ProposeExtension(a, b)) /\ Backed(ProposeExtension(a, b), a, b)
<1> DEFINE begin == SetDre(FALSE) \o GetSigner
           stop  == When(~a \/ ~b, Throw("parameter"))
           s     == Then(begin, stop)
           last  == Do("propose", "extension")
<1>1. begin \in Seq(PlainSteps \cup Throws) /\ stop \in Seq(PlainSteps \cup Throws)
  BY BeginSound, StepSets, WhenIn DEF Thrown
<1>2. Kept(s) /\ Backed(s, a, b)
  <2>1. s \in Seq(PlainSteps \cup Throws)
    BY <1>1, JoinedIn DEF Then
  <2> QED
    BY <2>1, PlainSound
<1>3. IsProgram(begin) /\ IsProgram(stop)
  BY <1>1, StepSets DEF IsProgram
<1>4. ~a \/ ~b => Has(stop, {"throw"})
  <2> SUFFICES ASSUME ~a \/ ~b PROVE Has(stop, {"throw"})
    OBVIOUS
  <2>1. stop = Throw("parameter")
    BY DEF When
  <2>2. IsStep(Throw("parameter"), "throw", "parameter")
    BY OneStep DEF Thrown
  <2>3. Size(stop) = 1 /\ What(stop, 1) = "throw"
    BY <2>1, <2>2 DEF IsStep
  <2> HIDE DEF stop
  <2> QED
    BY <2>3 DEF Has
<1>5. Kept(last) /\ Backed(last, TRUE, TRUE)
  BY ProposeSound
<1>6. ProposeExtension(a, b) = Then(s, last)
  BY DEF ProposeExtension, Then
<1> HIDE DEF begin, stop, last
<1>7. ~a \/ ~b => Has(s, {"throw"})
  BY <1>3, <1>4, HasJoined
<1>8. ~a \/ ~b => Has(s, {"throw", "keep"})
  BY <1>7 DEF Has
<1> HIDE DEF s
<1>9. Backed(Then(s, last), a, b)
  BY <1>2, <1>5, <1>7, <1>8, BackedJoined
<1> QED
  BY <1>2, <1>5, <1>6, <1>9, KeptJoined

\* proposal-stk-extensions
LEMMA ExtensionsSound ==
    ASSUME NEW a \in BOOLEAN, NEW b \in BOOLEAN
    PROVE  Kept(ProposalStkExtensions(a, b)) /\ Backed(ProposalStkExtensions(a, b), a, b)
<1> DEFINE begin == SetDre(FALSE) \o GetSigner
           rev3  == When(~a, DeployStakedPsysRev3)
           stop  == When(~b, Throw("no such task"))
           s1    == Then(begin, rev3)
           s2    == Then(s1, stop)
           last  == ProposeExtension(TRUE, TRUE)
<1>1. IsProgram(begin) /\ Kept(begin) /\ Backed(begin, a, b)
  BY BeginSound, StepSets DEF IsProgram
<1>2. /\ IsProgram(rev3) /\ Kept(rev3) /\ Backed(rev3, a, b)
      /\ ~a => Has(rev3, {"throw", "keep"})
  <2>1. CASE a
    <3>1. rev3 = <<>>
      BY <2>1 DEF When
    <3>2. <<>> \in Seq(PlainSteps \cup Throws)
      OBVIOUS
    <3>3. Kept(<<>>) /\ Backed(<<>>, a, b)
      BY <3>2, PlainSound
    <3> QED
      BY <2>1, <3>1, <3>3 DEF Kept
  <2>2. CASE ~a
    <3>1. rev3 = DeployStakedPsysRev3
      BY <2>2 DEF When
    <3> QED
      BY <3>1, Rev3Sound DEF Kept
  <2> QED
    BY <2>1, <2>2
<1>3. /\ IsProgram(stop) /\ Kept(stop) /\ Backed(stop, a, b)
      /\ ~b => Has(stop, {"throw"})
  <2>1. stop \in Seq(PlainSteps \cup Throws)
    BY StepSets, WhenIn DEF Thrown
  <2>2. Kept(stop) /\ Backed(stop, a, b)
    BY <2>1, PlainSound
  <2>3. ASSUME ~b PROVE Has(stop, {"throw"})
    <3>1. stop = Throw("no such task")
      BY <2>3 DEF When
    <3> DEFINE why == "no such task"
    <3>2. IsStep(Throw(why), "throw", why)
      BY OneStep, Zenon DEF Thrown
    <3>3. stop = Throw(why)
      BY <3>1
    <3> HIDE DEF why
    <3>4. Size(stop) = 1 /\ What(stop, 1) = "throw"
      BY <3>2, <3>3 DEF IsStep
    <3> HIDE DEF stop
    <3> QED
      BY <3>4 DEF Has
  <2> QED
    BY <2>2, <2>3 DEF Kept
<1>4. Kept(last) /\ Backed(last, TRUE, TRUE)
  BY ExtensionSound
<1>5. ProposalStkExtensions(a, b) = Then(s2, last)
  BY DEF ProposalStkExtensions, Then
<1> HIDE DEF begin, rev3, stop, last
<1>6. /\ Kept(s1) /\ Backed(s1, a, b) /\ IsProgram(s1)
      /\ ~a => Has(s1, {"throw", "keep"})
  BY <1>1, <1>2, KeptJoined, BackedJoined, HasJoined DEF Kept
<1> HIDE DEF s1
<1>7. /\ Kept(s2) /\ Backed(s2, a, b)
      /\ ~a => Has(s2, {"throw", "keep"})
      /\ ~b => Has(s2, {"throw"})
  BY <1>3, <1>6, KeptJoined, BackedJoined, HasJoined
<1> HIDE DEF s2
<1>8. Backed(Then(s2, last), a, b)
  BY <1>4, <1>7, BackedJoined
<1> QED
  BY <1>4, <1>5, <1>7, <1>8, KeptJoined

\* propose-vault-approval, proposal-vault-approval
LEMMA ApprovalSound ==
    ASSUME NEW psys \in BOOLEAN, NEW bpt \in BOOLEAN
    PROVE  /\ Kept(ProposeVaultApproval) /\ Backed(ProposeVaultApproval, psys, bpt)
           /\ Kept(ProposalVaultApproval) /\ Backed(ProposalVaultApproval, psys, bpt)
<1> DEFINE begin == SetDre(FALSE) \o GetSigner
           last  == Do("propose", "approval")
<1>1. Kept(begin) /\ Backed(begin, psys, bpt)
  BY BeginSound
<1>2. Kept(last) /\ Backed(last, psys, bpt)
  BY ProposeSound
<1>3. /\ ProposeVaultApproval = Then(begin, last)
      /\ ProposalVaultApproval = Then(begin, ProposeVaultApproval)
  BY DEF ProposeVaultApproval, ProposalVaultApproval, Then
<1> HIDE DEF begin, last
<1>4. Kept(ProposeVaultApproval) /\ Backed(ProposeVaultApproval, psys, bpt)
  BY <1>1, <1>2, <1>3, KeptJoined, BackedJoined
<1> QED
  BY <1>1, <1>3, <1>4, KeptJoined, BackedJoined

\* Whatever the task is.
LEMMA ProgramSound ==
    ASSUME NEW r \in Commands
    PROVE  Kept(Steps(r)) /\ Backed(Steps(r), r.stkPSYSImpl # 0, r.stkBptImpl # 0)
<1> DEFINE a == r.stkPSYSImpl # 0
           b == r.stkBptImpl # 0
<1>1. CASE r.name \notin ProposalTasks
  BY <1>1, ProgramTyped, PlainSound
<1>2. CASE r.name = "deploy-staked-psys-rev3"
  BY <1>2, Rev3Sound DEF Steps
<1>3. CASE r.name = "propose-extension"
  <2>1. Steps(r) = ProposeExtension(a, b)
    BY <1>3 DEF Steps
  <2> QED
    BY <2>1, ExtensionSound
<1>4. CASE r.name = "proposal-stk-extensions"
  <2>1. Steps(r) = ProposalStkExtensions(a, b)
    BY <1>4 DEF Steps
  <2> QED
    BY <2>1, ExtensionsSound
<1>5. CASE r.name \in {"propose-vault-approval", "proposal-vault-approval"}
  BY <1>5, ApprovalSound DEF Steps
<1> QED
  BY <1>1, <1>2, <1>3, <1>4, <1>5 DEF ProposalTasks

-----------------------------------------------------------------------------
(* The types of the state. *)

LEMMA StepOfTask ==
    ASSUME DeploymentTypes, task.steps # <<>>
    PROVE  Head(task.steps) \in AnyStep /\ Tail(task.steps) \in Seq(AnyStep)
  BY DEF DeploymentTypes, Task

LEMMA ArgumentTyped ==
    ASSUME DeploymentTypes, NEW what, At(what)
    PROVE  /\ task.status = "running" /\ task.steps # <<>>
           /\ Head(task.steps).do = what /\ Head(task.steps).arg = Argument
           /\ what \in {"send", "register", "lookup"} => Argument \in Names
           /\ what = "throw" => Argument \in Thrown
           /\ what = "propose" => Argument \in {"extension", "approval"}
<1>1. /\ task.status = "running" /\ task.steps # <<>>
      /\ Head(task.steps).do = what /\ Head(task.steps).arg = Argument
  BY DEF At, Argument
<1> DEFINE step == Head(task.steps)
<1>2. step \in AnyStep /\ step.do = what
  BY <1>1, StepOfTask
<1> HIDE DEF step
<1>3. /\ what \in {"send", "register", "lookup"} => step.arg \in Names
      /\ what = "throw" => step.arg \in Thrown
      /\ what = "propose" => step.arg \in {"extension", "approval"}
  BY <1>2 DEF AnyStep, PlainSteps, Throws
<1> QED
  BY <1>1, <1>3 DEF step

(***************************************************************************)
(* What a step does to the task: it ends it, it waits for the explorer, or *)
(* it goes on to the next step.                                            *)
(***************************************************************************)
Elsewhere == <<environment, registry, contracts, proxies, approvals, proposals>>

Ends(why) ==
    /\ task' \in Task /\ task'.status # "running" /\ task'.why = why
    /\ task'.request = task.request /\ task'.deployed = task.deployed
    /\ UNCHANGED Elsewhere

SameProgram ==
    /\ task' \in Task /\ task'.request = task.request
    /\ task'.status = "running" /\ task'.why = task.why
    /\ task'.stkBptImpl = task.stkBptImpl

Waits ==
    /\ SameProgram /\ task'.steps = task.steps
    /\ task'.instance = task.instance /\ task'.deployed = task.deployed
    /\ task'.stkPSYSImpl = task.stkPSYSImpl
    /\ UNCHANGED Elsewhere

\* Contracts are only added, and stay what they are once they are mined.
Grow ==
    /\ contracts' \in Seq(Contract)
    /\ \A a \in DOMAIN contracts :
            /\ a \in DOMAIN contracts' /\ contracts'[a].kind = contracts[a].kind
            /\ contracts[a].status = "mined" => contracts'[a] = contracts[a]

GoesOn(what, arg) ==
    /\ SameProgram /\ task.steps # <<>> /\ task'.steps = Tail(task.steps)
    /\ Head(task.steps).do = what /\ Head(task.steps).arg = arg
    /\ what # "throw"
    /\ what = "checkVerification" => environment.etherscanKey /\ environment.network = "main"
    /\ what = "wait" => Mined(task.instance)
    /\ IF what = "send"
       THEN /\ task'.deployed = task.deployed \cup {task'.instance}
            /\ task'.instance \in DOMAIN contracts' /\ contracts'[task'.instance].kind = arg
       ELSE task'.instance = task.instance /\ task'.deployed = task.deployed
    /\ task'.stkPSYSImpl = IF what = "keep" THEN task.instance ELSE task.stkPSYSImpl
    /\ registry' = IF what = "register"
                   THEN [k \in DOMAIN registry \cup {arg} |->
                            IF k = arg THEN task.instance ELSE registry[k]]
                   ELSE registry
    /\ Grow /\ UNCHANGED <<environment, proxies, approvals>>
    /\ what # "propose" => UNCHANGED proposals

\* The reasons to end that say something about what the task did.
EndsWith(why) ==
    /\ why = "completed" => task.steps = <<>>
    /\ why \in {"no key", "unsupported"} =>
            /\ task.steps # <<>>
            /\ Head(task.steps).do \in {"checkVerification", "verify"}
            /\ ~(environment.etherscanKey /\ environment.network = "main")
            /\ Head(task.steps).do = "verify" => ~environment.etherscanKey

\* A step that only moves on.
MovesOn ==
    /\ SameProgram /\ task'.steps = Tail(task.steps) /\ task'.instance = task.instance
    /\ task'.deployed = task.deployed /\ task'.stkPSYSImpl = task.stkPSYSImpl

LEMMA PlainlyGoesOn ==
    ASSUME DeploymentTypes, NEW what, At(what),
           what \notin {"send", "register", "keep", "throw"},
           MovesOn,
           what = "checkVerification" => environment.etherscanKey /\ environment.network = "main",
           what = "wait" => Mined(task.instance),
           UNCHANGED <<environment, registry, contracts, proxies, approvals>>,
           what # "propose" => UNCHANGED proposals
    PROVE  GoesOn(what, Argument)
<1>1. /\ task.status = "running" /\ task.steps # <<>>
      /\ Head(task.steps).do = what /\ Head(task.steps).arg = Argument
  BY ArgumentTyped
<1>2. Grow
  BY DEF Grow, DeploymentTypes
<1> QED
  BY <1>1, <1>2 DEF GoesOn, MovesOn

LEMMA SendGoesOn ==
    ASSUME DeploymentTypes, Send
    PROVE  GoesOn("send", Argument)
<1>1. /\ task.status = "running" /\ task.steps # <<>>
      /\ Head(task.steps).do = "send" /\ Head(task.steps).arg = Argument
      /\ Argument \in Names
  BY ArgumentTyped DEF Send
<1> DEFINE new == [kind |-> Argument,
                   status |-> IF environment.network = "hardhat" THEN "mined" ELSE "pending"]
           n   == Len(contracts')
<1>2. contracts \in Seq(Contract) /\ new \in Contract /\ contracts' = Append(contracts, new)
  BY <1>1 DEF Send, DeploymentTypes, Contract
<1>3. new.kind = Argument
  OBVIOUS
<1> HIDE DEF new
<1>4. /\ contracts' \in Seq(Contract) /\ n \in Nat /\ n \in DOMAIN contracts'
      /\ contracts'[n] = new
      /\ \A a \in DOMAIN contracts : a \in DOMAIN contracts' /\ contracts'[a] = contracts[a]
  BY <1>2
<1>5. Grow
  BY <1>4 DEF Grow
<1>6. task' = [task EXCEPT !.steps = Tail(@), !.instance = n, !.deployed = @ \cup {n}]
  BY DEF Send, Continued
<1> HIDE DEF n
<1>7. /\ SameProgram /\ task'.steps = Tail(task.steps) /\ task'.instance = n
      /\ task'.deployed = task.deployed \cup {n} /\ task'.stkPSYSImpl = task.stkPSYSImpl
  BY <1>1, <1>4, <1>6, StepOfTask DEF DeploymentTypes, Task, SameProgram
<1> QED
  BY <1>1, <1>3, <1>4, <1>5, <1>7 DEF GoesOn, Send

LEMMA RegisterGoesOn ==
    ASSUME DeploymentTypes, RegisterStep
    PROVE  GoesOn("register", Argument)
<1>1. /\ task.status = "running" /\ task.steps # <<>>
      /\ Head(task.steps).do = "register" /\ Head(task.steps).arg = Argument
  BY ArgumentTyped DEF RegisterStep
<1>2. Grow
  BY DEF Grow, DeploymentTypes, RegisterStep
<1>3. SameProgram /\ task'.steps = Tail(task.steps) /\ task'.instance = task.instance
      /\ task'.deployed = task.deployed /\ task'.stkPSYSImpl = task.stkPSYSImpl
  BY <1>1, StepOfTask DEF DeploymentTypes, Task, SameProgram, RegisterStep, Continued
<1> QED
  BY <1>1, <1>2, <1>3 DEF GoesOn, RegisterStep

LEMMA KeepGoesOn ==
    ASSUME DeploymentTypes, KeepStep
    PROVE  GoesOn("keep", Argument)
<1>1. /\ task.status = "running" /\ task.steps # <<>>
      /\ Head(task.steps).do = "keep" /\ Head(task.steps).arg = Argument
  BY ArgumentTyped DEF KeepStep
<1>2. Grow
  BY DEF Grow, DeploymentTypes, KeepStep
<1>3. SameProgram /\ task'.steps = Tail(task.steps) /\ task'.instance = task.instance
      /\ task'.deployed = task.deployed /\ task'.stkPSYSImpl = task.instance
  BY <1>1, StepOfTask DEF DeploymentTypes, Task, SameProgram, KeepStep, Continued
<1> QED
  BY <1>1, <1>2, <1>3 DEF GoesOn, KeepStep

\* A step that ends the task.
LEMMA EndsHere ==
    ASSUME DeploymentTypes, NEW why \in Whys, NEW status \in {"ended", "dead"},
           task' = [Ended(why) EXCEPT !.status = status] \/ task' = Ended(why),
           UNCHANGED Elsewhere
    PROVE  Ends(why)
<1> DEFINE e == Ended(why)
<1>1. <<>> \in Seq(AnyStep)
  OBVIOUS
<1>2. /\ e \in [request : Commands \cup {[name |-> "none"]}, steps : Seq(AnyStep),
              instance : Nat, stkPSYSImpl : Nat, stkBptImpl : Nat, times : Nat,
              waiting : BOOLEAN, deployed : SUBSET Nat, status : {"ended"}, why : {why},
              started : Nat]
      /\ e.request = task.request /\ e.deployed = task.deployed
  BY <1>1 DEF DeploymentTypes, Task, Ended
<1> HIDE DEF e
<1>3. task' = [e EXCEPT !.status = status] \/ task' = e
  BY DEF e
<1>4. /\ task' \in Task /\ task'.status # "running" /\ task'.why = why
      /\ task'.request = e.request /\ task'.deployed = e.deployed
  BY <1>2, <1>3 DEF Task
<1> QED
  BY <1>2, <1>4 DEF Ends

\* Every step of the process is one of the three.
Effect ==
    \/ Waits
    \/ \E why \in Whys \ {"none"} : Ends(why) /\ EndsWith(why)
    \/ task.steps # <<>> /\ GoesOn(Head(task.steps).do, Head(task.steps).arg)

LEMMA PlainEffect ==
    ASSUME DeploymentTypes, NEW what, At(what),
           what \notin {"send", "register", "keep", "throw"},
           MovesOn,
           what = "checkVerification" => environment.etherscanKey /\ environment.network = "main",
           what = "wait" => Mined(task.instance),
           UNCHANGED <<environment, registry, contracts, proxies, approvals>>,
           what # "propose" => UNCHANGED proposals
    PROVE  Effect
<1>1. GoesOn(what, Argument)
  BY PlainlyGoesOn
<1>2. task.steps # <<>> /\ Head(task.steps).do = what /\ Head(task.steps).arg = Argument
  BY ArgumentTyped
<1> QED
  BY <1>1, <1>2 DEF Effect

\* Nothing but the next step: Continued, in the form of the lemma above.
LEMMA ContinuedEffect ==
    ASSUME DeploymentTypes, NEW what, At(what),
           what \notin {"send", "register", "keep", "throw"}, task' = Continued,
           what = "checkVerification" => environment.etherscanKey /\ environment.network = "main",
           what = "wait" => Mined(task.instance),
           UNCHANGED <<environment, registry, contracts, proxies, approvals>>,
           what # "propose" => UNCHANGED proposals
    PROVE  Effect
<1>1. MovesOn
  BY ArgumentTyped, StepOfTask DEF DeploymentTypes, Task, Continued, MovesOn, SameProgram
<1> QED
  BY <1>1, PlainEffect

LEMMA EndsEffect ==
    ASSUME DeploymentTypes, NEW why \in Whys \ {"none"}, EndsWith(why),
           \/ task' = Ended(why)
           \/ \E status \in {"ended", "dead"} : task' = [Ended(why) EXCEPT !.status = status],
           UNCHANGED Elsewhere
    PROVE  Effect
<1>1. Ends(why)
  BY EndsHere
<1> QED
  BY <1>1 DEF Effect

LEMMA ProcessEffect ==
    ASSUME DeploymentTypes, ProcessStep
    PROVE  Effect
<1>1. CASE SetDreStep
  <2>1. At("setDre") /\ UNCHANGED Elsewhere
    BY <1>1 DEF SetDreStep, Elsewhere
  <2>2. CASE Argument /\ dre
    <3>1. EndsWith("stale DRE") /\ task' = Ended("stale DRE")
      BY <1>1, <2>2 DEF SetDreStep, EndsWith
    <3>2. "stale DRE" \in Whys \ {"none"}
      BY Zenon DEF Whys
    <3> QED
      BY <2>1, <3>1, <3>2, EndsEffect, Zenon
  <2>3. CASE ~(Argument /\ dre)
    <3>1. task' = Continued
      BY <1>1, <2>3 DEF SetDreStep
    <3> QED
      BY <2>1, <3>1, ContinuedEffect DEF Elsewhere
  <2> QED
    BY <2>2, <2>3
<1>2. CASE CheckVerificationStep
  <2>1. /\ At("checkVerification") /\ UNCHANGED Elsewhere
        /\ task.steps # <<>> /\ Head(task.steps).do = "checkVerification"
    BY <1>2, ArgumentTyped DEF CheckVerificationStep, Elsewhere
  <2>2. environment.network \in {"main", "hardhat"} /\ environment.etherscanKey \in BOOLEAN
    BY DEF DeploymentTypes
  <2>3. CASE environment.etherscanKey /\ environment.network = "main"
    <3>1. task' = Continued
      BY <1>2, <2>3 DEF CheckVerificationStep, SUPPORTED_ETHERSCAN_NETWORKS
    <3> QED
      BY <2>1, <2>3, <3>1, ContinuedEffect DEF Elsewhere
  <2>4. CASE ~(environment.etherscanKey /\ environment.network = "main")
    <3>1. PICK why \in {"no key", "unsupported"} :
              task' = [Ended(why) EXCEPT !.status = "dead"]
      BY <1>2, <2>2, <2>4, Zenon DEF CheckVerificationStep, SUPPORTED_ETHERSCAN_NETWORKS
    <3>2. why \in Whys \ {"none"} /\ why # "completed"
      BY Zenon DEF Whys
    <3>3. EndsWith(why)
      BY <2>1, <2>4, <3>2 DEF EndsWith
    <3> QED
      BY <2>1, <3>1, <3>2, <3>3, EndsEffect
  <2> QED
    BY <2>3, <2>4
<1>3. CASE ThrowStep
  <2>1. Argument \in Thrown /\ task' = Ended(Argument) /\ UNCHANGED Elsewhere
    BY <1>3, ArgumentTyped DEF ThrowStep, Elsewhere
  <2>2. /\ Argument \in Whys \ {"none"}
        /\ Argument \notin {"completed", "no key", "unsupported"}
    BY <2>1, Zenon DEF Whys, Thrown
  <2>3. EndsWith(Argument)
    BY <2>2, Zenon DEF EndsWith
  <2> QED
    BY <2>1, <2>2, <2>3, EndsEffect
<1>4. CASE Rejected
  <2>1. EndsWith("rejected") /\ task' = Ended("rejected") /\ UNCHANGED Elsewhere
    BY <1>4 DEF Rejected, EndsWith, Elsewhere
  <2>2. "rejected" \in Whys \ {"none"}
    BY Zenon DEF Whys
  <2> QED
    BY <2>1, <2>2, EndsEffect
<1>5. CASE GetSignerStep
  BY <1>5, ContinuedEffect DEF GetSignerStep
<1>6. CASE Send
  BY <1>6, SendGoesOn, ArgumentTyped DEF Effect, Send
<1>7. CASE RegisterStep
  BY <1>7, RegisterGoesOn, ArgumentTyped DEF Effect, RegisterStep
<1>8. CASE LookupStep
  <2>1. At("lookup") /\ UNCHANGED Elsewhere
    BY <1>8 DEF LookupStep, Elsewhere
  <2>2. CASE Argument \in DOMAIN registry
    BY <1>8, <2>1, <2>2, ContinuedEffect DEF LookupStep, Elsewhere
  <2>3. CASE Argument \notin DOMAIN registry
    <3>1. EndsWith("not registered") /\ task' = Ended("not registered")
      BY <1>8, <2>3, Zenon DEF LookupStep, EndsWith
    <3>2. "not registered" \in Whys \ {"none"}
      BY Zenon DEF Whys
    <3> QED
      BY <2>1, <3>1, <3>2, EndsEffect, Zenon
  <2> QED
    BY <2>2, <2>3
<1>9. CASE WaitStep
  <2>1. At("wait") /\ UNCHANGED Elsewhere
    BY <1>9 DEF WaitStep, Elsewhere
  <2>2. CASE Mined(task.instance)
    BY <1>9, <2>1, <2>2, ContinuedEffect DEF WaitStep, Elsewhere
  <2>3. CASE ~Mined(task.instance)
    <3>1. EndsWith("failed") /\ task' = Ended("failed")
      BY <1>9, <2>3 DEF WaitStep, EndsWith
    <3>2. "failed" \in Whys \ {"none"}
      BY Zenon DEF Whys
    <3> QED
      BY <2>1, <3>1, <3>2, EndsEffect
  <2> QED
    BY <2>2, <2>3
<1>10. CASE KeepStep
  BY <1>10, KeepGoesOn, ArgumentTyped DEF Effect, KeepStep
<1>11. CASE Finish
  <2>1. EndsWith("completed") /\ task' = Ended("completed") /\ UNCHANGED Elsewhere
    BY <1>11 DEF Finish, EndsWith, Elsewhere
  <2>2. "completed" \in Whys \ {"none"}
    BY Zenon DEF Whys
  <2> QED
    BY <2>1, <2>2, EndsEffect
<1>12. CASE VerifyStep
  <2>1. /\ At("verify") /\ UNCHANGED Elsewhere
        /\ task.status = "running" /\ task.steps # <<>> /\ Head(task.steps).do = "verify"
    BY <1>12, ArgumentTyped DEF VerifyStep, Elsewhere
  <2>2. CASE ~environment.etherscanKey /\ task' = Ended("no key")
    <3>1. EndsWith("no key")
      BY <2>1, <2>2, Zenon DEF EndsWith
    <3>2. "no key" \in Whys \ {"none"}
      BY Zenon DEF Whys
    <3> QED
      BY <2>1, <2>2, <3>1, <3>2, EndsEffect, Zenon
  <2>3. CASE task' = Continued
    BY <2>1, <2>3, ContinuedEffect DEF Elsewhere
  <2>4. CASE task' = [task EXCEPT !.times = VERIFY_TIMES, !.waiting = TRUE]
    BY <2>1, <2>4 DEF Effect, Waits, SameProgram, DeploymentTypes, Task, VERIFY_TIMES
  <2> QED
    BY <1>12, <2>2, <2>3, <2>4 DEF VerifyStep
<1>13. CASE Delay
  BY <1>13 DEF Delay, Effect, Waits, SameProgram, DeploymentTypes, Task, Elsewhere
<1>14. CASE VerificationEnds
  <2>1. At("verify") /\ UNCHANGED Elsewhere
    BY <1>14 DEF VerificationEnds, Elsewhere
  <2>2. MovesOn
    BY <1>14, <2>1, ArgumentTyped, StepOfTask
    DEF VerificationEnds, Continued, DeploymentTypes, Task, MovesOn, SameProgram
  <2> QED
    BY <2>1, <2>2, PlainEffect DEF Elsewhere
<1>15. CASE VerificationRetries
  <2>1. /\ task.status = "running" /\ UNCHANGED Elsewhere
        /\ task.times \in Nat /\ task.times > 0
        /\ task' = [task EXCEPT !.times = task.times - 1, !.waiting = TRUE]
    BY <1>15 DEF VerificationRetries, Elsewhere, At, TimesLeft, DeploymentTypes, Task
  <2>2. task.times - 1 \in Nat
    BY <2>1
  <2>3. SameProgram /\ task'.steps = task.steps
    BY <2>1, <2>2 DEF SameProgram, DeploymentTypes, Task
  <2>4. /\ task'.instance = task.instance /\ task'.deployed = task.deployed
        /\ task'.stkPSYSImpl = task.stkPSYSImpl
    BY <2>1 DEF DeploymentTypes, Task
  <2> QED
    BY <2>1, <2>3, <2>4 DEF Effect, Waits
<1>16. CASE VerificationGivesUp
  <2>1. At("verify") /\ UNCHANGED Elsewhere
    BY <1>16 DEF VerificationGivesUp, Elsewhere
  <2>2. MovesOn
    BY <1>16, <2>1, ArgumentTyped, StepOfTask
    DEF VerificationGivesUp, Continued, DeploymentTypes, Task, MovesOn, SameProgram
  <2> QED
    BY <2>1, <2>2, PlainEffect DEF Elsewhere
<1>17. CASE Propose
  BY <1>17, ContinuedEffect DEF Propose
<1> QED
  BY <1>1, <1>2, <1>3, <1>4, <1>5, <1>6, <1>7, <1>8, <1>9, <1>10, <1>11, <1>12, <1>13,
     <1>14, <1>15, <1>16, <1>17 DEF ProcessStep

-----------------------------------------------------------------------------
(* The run, step by step. *)

\* The next step is step Done + 1 of the program.
LEMMA NextOfProgram ==
    ASSUME Program \in Seq(AnyStep), task.steps \in Seq(AnyStep), StepsFollowProgram
    PROVE  /\ Done \in Nat /\ Done <= Size(Program)
           /\ task.steps = <<>> => Done = Size(Program)
           /\ task.steps # <<>> =>
                /\ Done + 1 \in 1 .. Size(Program)
                /\ What(Program, Done + 1) = Head(task.steps).do
                /\ With(Program, Done + 1) = Head(task.steps).arg
<1> DEFINE p == Program
           t == task.steps
<1>1. /\ p \in Seq(AnyStep) /\ t \in Seq(AnyStep)
      /\ Done = Len(p) - Len(t) /\ Len(t) <= Len(p)
      /\ \A i \in 1 .. Len(t) : t[i] = p[Done + i]
  BY DEF StepsFollowProgram, Done
<1> HIDE DEF p, t
<1>2. Done \in Nat /\ Done <= Len(p) /\ (t = <<>> => Done = Len(p))
  <2>1. Len(p) \in Nat /\ Len(t) \in Nat
    BY <1>1
  <2>2. t = <<>> => Len(t) = 0
    OBVIOUS
  <2> DEFINE m == Len(p)
             n == Len(t)
  <2>3. Done = m - n /\ n <= m /\ m \in Nat /\ n \in Nat
    BY <1>1, <2>1
  <2> HIDE DEF m, n
  <2>4. Done \in Nat /\ Done <= m /\ (n = 0 => Done = m)
    BY <2>3
  <2> QED
    BY <2>2, <2>4 DEF m, n
<1>3. ASSUME t # <<>>
      PROVE  Done + 1 \in 1 .. Len(p) /\ p[Done + 1] = Head(t)
  <2>1. Len(t) \in Nat /\ Len(t) # 0 /\ Head(t) = t[1]
    BY <1>1, <1>3
  <2>2. 1 \in 1 .. Len(t)
    BY <2>1
  <2> QED
    BY <1>1, <1>2, <2>1, <2>2
<1> QED
  BY <1>2, <1>3 DEF p, t, Size, What, With

LEMMA Advance ==
    ASSUME Program \in Seq(AnyStep), task.steps \in Seq(AnyStep), StepsFollowProgram,
           task.steps # <<>>, task'.steps = Tail(task.steps), task'.request = task.request
    PROVE  Program' = Program /\ Done' = Done + 1 /\ StepsFollowProgram'
<1> DEFINE p == Program
           t == task.steps
           u == Tail(t)
<1>1. /\ p \in Seq(AnyStep) /\ t \in Seq(AnyStep) /\ t # <<>>
      /\ Done = Len(p) - Len(t) /\ Len(t) <= Len(p)
      /\ \A i \in 1 .. Len(t) : t[i] = p[Done + i]
  BY DEF StepsFollowProgram, Done
<1>2. Program' = p /\ task'.steps = u
  BY DEF Program
<1> HIDE DEF p
<1>3. Done' = Len(p) - Len(u)
  BY <1>2 DEF Done
<1> HIDE DEF t
<1>4. Len(u) \in Nat /\ Len(t) \in Nat /\ Len(u) = Len(t) - 1 /\ Len(p) \in Nat
  BY <1>1
<1>5. \A i \in 1 .. Len(u) : u[i] = t[i + 1]
  BY <1>1
<1> HIDE DEF u
<1>6. Done' = Done + 1 /\ Len(u) <= Len(p)
  BY <1>1, <1>3, <1>4
<1>7. ASSUME NEW i \in 1 .. Len(u) PROVE u[i] = p[Done' + i]
  <2>1. i + 1 \in 1 .. Len(t) /\ Done' + i = Done + (i + 1)
    BY <1>1, <1>4, <1>6
  <2> QED
    BY <1>1, <1>5, <2>1
<1> QED
  BY <1>2, <1>6, <1>7 DEF p, StepsFollowProgram

\* What the last send of a longer run says of a shorter one.
LEMMA LastSendBefore ==
    ASSUME NEW s, NEW l \in Nat, NEW n \in Nat, l <= n, LastSend(s, l, n + 1)
    PROVE  LastSend(s, l, n)
  BY DEF LastSend

LEMMA LastSendIsPast ==
    ASSUME NEW s, NEW n \in Nat, NEW l \in 1 .. n + 1, LastSend(s, l, n + 1),
           What(s, n + 1) # "send"
    PROVE  l \in 1 .. n /\ LastSend(s, l, n)
<1>1. l \in 1 .. n
  BY DEF LastSend
<1> QED
  BY <1>1, LastSendBefore

LEMMA WaitsBefore ==
    ASSUME NEW s, NEW n \in Nat, NEW l \in 1 .. n, WaitsBetween(s, l, n + 1)
    PROVE  WaitsBetween(s, l, n) \/ What(s, n + 1) = "wait"
<1>1. PICK w \in l + 1 .. n + 1 : What(s, w) = "wait"
  BY DEF WaitsBetween
<1>2. w = n + 1 \/ w \in l + 1 .. n
  OBVIOUS
<1> QED
  BY <1>1, <1>2 DEF WaitsBetween

LEMMA DeployedGrows ==
    ASSUME NEW a, NEW kind, Deployed(a, kind), Grow, task.deployed \subseteq task'.deployed
    PROVE  /\ a \in task'.deployed /\ a \in DOMAIN contracts' /\ contracts'[a].kind = kind
           /\ Mined(a) => contracts'[a].status = "mined"
  BY DEF Deployed, Grow, Mined

LEMMA InstanceKept ==
    ASSUME NEW n \in Nat, n = Done, Done' = n + 1, Program' = Program, InstanceSent,
           NEW what, NEW arg, GoesOn(what, arg),
           What(Program, n + 1) = what, With(Program, n + 1) = arg
    PROVE  InstanceSent'
<1> DEFINE p == Program
<1>1. Program' = p
  OBVIOUS
<1> SUFFICES ASSUME NEW l \in 1 .. n + 1, LastSend(p, l, n + 1)
             PROVE  /\ task'.instance \in task'.deployed
                    /\ task'.instance \in DOMAIN contracts'
                    /\ contracts'[task'.instance].kind = With(p, l)
                    /\ WaitsBetween(p, l, n + 1) => contracts'[task'.instance].status = "mined"
  BY <1>1 DEF InstanceSent, Deployed, Mined
<1>2. What(p, n + 1) = what /\ With(p, n + 1) = arg
  OBVIOUS
<1>3. \A h \in 1 .. n : LastSend(p, h, n) =>
            /\ Deployed(task.instance, With(p, h))
            /\ WaitsBetween(p, h, n) => Mined(task.instance)
  BY DEF InstanceSent
<1> HIDE DEF p
<1>4. CASE what = "send"
  <2>1. l = n + 1
    BY <1>2, <1>4 DEF LastSend
  <2>2. ~WaitsBetween(p, l, n + 1)
    BY <2>1 DEF WaitsBetween
  <2> QED
    BY <1>2, <1>4, <2>1, <2>2 DEF GoesOn
<1>5. CASE what # "send"
  <2>1. l \in 1 .. n /\ LastSend(p, l, n)
    BY <1>2, <1>5, LastSendIsPast
  <2>2. Deployed(task.instance, With(p, l)) /\ (WaitsBetween(p, l, n) => Mined(task.instance))
    BY <1>3, <2>1
  <2>3. /\ task'.instance = task.instance /\ task'.deployed = task.deployed /\ Grow
        /\ what = "wait" => Mined(task.instance)
    BY <1>5 DEF GoesOn
  <2>4. WaitsBetween(p, l, n + 1) => Mined(task.instance)
    BY <1>2, <2>1, <2>2, <2>3, WaitsBefore
  <2> QED
    BY <2>2, <2>3, <2>4, DeployedGrows
<1> QED
  BY <1>4, <1>5

LEMMA KeysKept ==
    ASSUME NEW n \in Nat, n = Done, Done' = n + 1, Program' = Program, InstanceSent,
           KeysRegistered, NEW what, NEW arg, GoesOn(what, arg),
           What(Program, n + 1) = what, With(Program, n + 1) = arg
    PROVE  KeysRegistered'
<1> DEFINE p == Program
<1>1. Program' = p
  OBVIOUS
<1> SUFFICES ASSUME NEW i \in 1 .. n + 1, NEW l \in 1 .. n + 1, l <= i,
                    LastRegister(p, i, n + 1), LastSend(p, l, i)
             PROVE  LET k == With(p, i) IN
                    /\ k \in DOMAIN registry'
                    /\ registry'[k] \in task'.deployed /\ registry'[k] \in DOMAIN contracts'
                    /\ contracts'[registry'[k]].kind = With(p, l)
                    /\ WaitsBetween(p, l, i) => contracts'[registry'[k]].status = "mined"
  BY <1>1 DEF KeysRegistered, Deployed, Mined
<1>2. What(p, n + 1) = what /\ With(p, n + 1) = arg
  OBVIOUS
<1>3. \A h \in 1 .. n : LastSend(p, h, n) =>
            /\ Deployed(task.instance, With(p, h))
            /\ WaitsBetween(p, h, n) => Mined(task.instance)
  BY DEF InstanceSent
<1>4. \A j \in 1 .. n, h \in 1 .. n :
        h <= j /\ LastRegister(p, j, n) /\ LastSend(p, h, j) =>
            /\ With(p, j) \in DOMAIN registry
            /\ Deployed(registry[With(p, j)], With(p, h))
            /\ WaitsBetween(p, h, j) => Mined(registry[With(p, j)])
  BY DEF KeysRegistered
<1> HIDE DEF p
<1>5. Grow /\ task.deployed \subseteq task'.deployed
  BY DEF GoesOn
<1> DEFINE k == With(p, i)
<1>6. CASE i = n + 1
  <2>1. what = "register" /\ k = arg
    BY <1>2, <1>6 DEF LastRegister
  <2>2. l \in 1 .. n /\ LastSend(p, l, n)
    BY <1>2, <1>6, <2>1, LastSendIsPast
  <2>3. /\ Deployed(task.instance, With(p, l))
        /\ WaitsBetween(p, l, n) => Mined(task.instance)
    BY <1>3, <2>2
  <2>4. WaitsBetween(p, l, i) => Mined(task.instance)
    BY <1>2, <1>6, <2>1, <2>2, <2>3, WaitsBefore
  <2>5. k \in DOMAIN registry' /\ registry'[k] = task.instance
    <3>1. registry' = [key \in DOMAIN registry \cup {arg} |->
                            IF key = arg THEN task.instance ELSE registry[key]]
      BY <2>1 DEF GoesOn
    <3> QED
      BY <2>1, <3>1
  <2> QED
    BY <1>5, <2>3, <2>4, <2>5, DeployedGrows
<1>7. CASE i # n + 1
  <2>1. i \in 1 .. n /\ l \in 1 .. n /\ LastRegister(p, i, n)
    BY <1>7 DEF LastRegister
  <2>2. /\ k \in DOMAIN registry /\ Deployed(registry[k], With(p, l))
        /\ WaitsBetween(p, l, i) => Mined(registry[k])
    BY <1>4, <2>1
  <2>3. k \in DOMAIN registry' /\ registry'[k] = registry[k]
    <3>1. CASE what = "register"
      <4>1. k # arg
        BY <1>2, <1>7, <3>1 DEF LastRegister
      <4>2. registry' = [key \in DOMAIN registry \cup {arg} |->
                            IF key = arg THEN task.instance ELSE registry[key]]
        BY <3>1 DEF GoesOn
      <4> QED
        BY <2>2, <4>1, <4>2
    <3>2. CASE what # "register"
      BY <2>2, <3>2 DEF GoesOn
    <3> QED
      BY <3>1, <3>2
  <2> QED
    BY <1>5, <2>2, <2>3, DeployedGrows
<1> QED
  BY <1>6, <1>7

LEMMA ProcessRuns ==
    ASSUME ProcessStep
    PROVE  task.status = "running"
  BY DEF ProcessStep, SetDreStep, CheckVerificationStep, ThrowStep, Rejected,
         GetSignerStep, Send, RegisterStep, LookupStep, WaitStep, KeepStep, Finish,
         VerifyStep, Delay, VerificationEnds, VerificationRetries, VerificationGivesUp,
         Propose, At

LEMMA KnownGrows ==
    ASSUME Grow, NEW kind
    PROVE  Known(kind) \subseteq Known(kind)'
  BY DEF Grow, Known

\* While a task runs, its program is one of the commands'.
LEMMA RunningProgram ==
    ASSUME DeploymentTypes, task.status = "running"
    PROVE  /\ task.request \in Commands
           /\ Program \in Seq(AnyStep) /\ task.steps \in Seq(AnyStep)
           /\ Kept(Program)
           /\ Backed(Program, task.request.stkPSYSImpl # 0, task.request.stkBptImpl # 0)
  BY ProgramTyped, ProgramSound DEF DeploymentTypes, Task, Program

LEMMA ImplementationsKept ==
    ASSUME NEW n \in Nat, n = Done, Done' = n + 1, Program' = Program, InstanceSent,
           ImplementationsKnown, Kept(Program), NEW what, NEW arg, GoesOn(what, arg),
           What(Program, n + 1) = what, n + 1 \in 1 .. Size(Program),
           contracts \in Seq(Contract)
    PROVE  ImplementationsKnown'
<1> DEFINE p == Program
<1>1. Program' = p
  OBVIOUS
<1>2. /\ \A h \in 1 .. n : LastSend(p, h, n) => Deployed(task.instance, With(p, h))
      /\ What(p, n + 1) = what
      /\ What(p, n + 1) = "keep" =>
            \E l \in 1 .. n + 1 : LastSend(p, l, n + 1) /\ With(p, l) = "StakedTokenV3Rev3"
  BY DEF InstanceSent, Kept
<1>3. /\ IF \E i \in 1 .. n : What(p, i) = "keep"
         THEN task.stkPSYSImpl # 0
         ELSE task.stkPSYSImpl = task.request.stkPSYSImpl
      /\ environment.network = "main" =>
            /\ task.stkPSYSImpl \in Known("StakedTokenV3Rev3")
            /\ task.stkBptImpl \in Known("StakedTokenBptRev2")
      /\ task.stkBptImpl = task.request.stkBptImpl
  BY DEF ImplementationsKnown
<1> HIDE DEF p
<1>4. /\ task'.request = task.request /\ task'.stkBptImpl = task.stkBptImpl
      /\ environment' = environment /\ Grow
      /\ task'.stkPSYSImpl = IF what = "keep" THEN task.instance ELSE task.stkPSYSImpl
  BY DEF GoesOn, SameProgram
<1>5. what = "keep" => task.instance # 0 /\ task.instance \in Known("StakedTokenV3Rev3")
  <2> SUFFICES ASSUME what = "keep"
               PROVE  task.instance # 0 /\ task.instance \in Known("StakedTokenV3Rev3")
    OBVIOUS
  <2>1. PICK l \in 1 .. n + 1 :
            LastSend(p, l, n + 1) /\ With(p, l) = "StakedTokenV3Rev3"
    BY <1>2
  <2>2. l \in 1 .. n /\ LastSend(p, l, n)
    BY <1>2, <2>1, LastSendIsPast
  <2>3. Deployed(task.instance, "StakedTokenV3Rev3")
    BY <1>2, <2>1, <2>2
  <2>4. \A a \in DOMAIN contracts : a # 0
    OBVIOUS
  <2> QED
    BY <2>3, <2>4 DEF Deployed, Known
<1>6. IF \E i \in 1 .. n + 1 : What(p, i) = "keep"
      THEN task'.stkPSYSImpl # 0
      ELSE task'.stkPSYSImpl = task.request.stkPSYSImpl
  <2>1. CASE what = "keep"
    BY <1>2, <1>4, <1>5, <2>1
  <2>2. CASE what # "keep"
    <3>1. (\E i \in 1 .. n + 1 : What(p, i) = "keep")
            <=> (\E i \in 1 .. n : What(p, i) = "keep")
      BY <1>2, <2>2
    <3> QED
      BY <1>3, <1>4, <2>2, <3>1
  <2> QED
    BY <2>1, <2>2
<1>7. environment'.network = "main" =>
            /\ task'.stkPSYSImpl \in Known("StakedTokenV3Rev3")'
            /\ task'.stkBptImpl \in Known("StakedTokenBptRev2")'
  BY <1>3, <1>4, <1>5, KnownGrows
<1> QED
  BY <1>1, <1>3, <1>4, <1>6, <1>7 DEF ImplementationsKnown

LEMMA RunGoesOn ==
    ASSUME DeploymentTypes, RunInv, task.status = "running", task.steps # <<>>,
           GoesOn(Head(task.steps).do, Head(task.steps).arg)
    PROVE  RunInv'
<1> DEFINE n    == Done
           what == Head(task.steps).do
           arg  == Head(task.steps).arg
<1>1. /\ task.request \in Commands
      /\ Program \in Seq(AnyStep) /\ task.steps \in Seq(AnyStep) /\ Kept(Program)
  BY RunningProgram
<1>2. /\ task.why = "none" /\ StepsFollowProgram /\ InstanceSent /\ KeysRegistered
      /\ ChecksPassed /\ NothingSentBefore /\ SentApart /\ ImplementationsKnown
  BY DEF RunInv
<1>3. /\ GoesOn(what, arg) /\ SameProgram /\ task'.steps = Tail(task.steps)
      /\ task'.request = task.request /\ task'.why = "none"
  BY <1>2 DEF GoesOn, SameProgram
<1>4. /\ n \in Nat /\ n + 1 \in 1 .. Size(Program)
      /\ What(Program, n + 1) = what /\ With(Program, n + 1) = arg
  BY <1>1, <1>2, NextOfProgram
<1>5. Program' = Program /\ Done' = n + 1 /\ StepsFollowProgram'
  BY <1>1, <1>2, <1>3, Advance
<1>6. n = Done
  OBVIOUS
<1> HIDE DEF what, arg, n
<1>7. InstanceSent'
  BY <1>2, <1>3, <1>4, <1>5, <1>6, InstanceKept
<1>8. KeysRegistered'
  BY <1>2, <1>3, <1>4, <1>5, <1>6, KeysKept
<1>9. ChecksPassed'
  <2> SUFFICES ASSUME NEW i \in 1 .. n + 1
               PROVE  /\ What(Program, i) # "throw"
                      /\ What(Program, i) = "checkVerification" =>
                            environment'.etherscanKey /\ environment'.network = "main"
    BY <1>5 DEF ChecksPassed
  <2>1. environment' = environment
    BY <1>3 DEF GoesOn
  <2>2. CASE i = n + 1
    BY <1>3, <1>4, <2>1, <2>2 DEF GoesOn
  <2>3. CASE i # n + 1
    <3>1. i \in 1 .. n
      BY <1>4, <2>3
    <3> QED
      BY <1>2, <1>6, <2>1, <3>1 DEF ChecksPassed
  <2> QED
    BY <2>2, <2>3
<1>10. NothingSentBefore'
  <2> SUFFICES ASSUME task'.deployed # {}
               PROVE  \E l \in 1 .. n + 1 : What(Program, l) = "send"
    BY <1>5 DEF NothingSentBefore
  <2>1. CASE what = "send"
    BY <1>4, <2>1
  <2>2. CASE what # "send"
    <3>1. task'.deployed = task.deployed
      BY <1>3, <2>2 DEF GoesOn
    <3>2. PICK l \in 1 .. n : What(Program, l) = "send"
      BY <1>2, <1>6, <3>1 DEF NothingSentBefore
    <3> QED
      BY <1>4, <3>2
  <2> QED
    BY <2>1, <2>2
<1>11. SentApart'
  <2> SUFFICES ASSUME NEW a \in task'.deployed, NEW b \in task'.deployed, a # b
               PROVE  \E k, l \in 1 .. n + 1 :
                        k < l /\ What(Program, k) = "send" /\ What(Program, l) = "send"
    BY <1>5 DEF SentApart
  <2>1. CASE a \in task.deployed /\ b \in task.deployed
    <3>1. PICK k \in 1 .. n, l \in 1 .. n :
            k < l /\ What(Program, k) = "send" /\ What(Program, l) = "send"
      BY <1>2, <1>6, <2>1 DEF SentApart
    <3>2. k \in 1 .. n + 1 /\ l \in 1 .. n + 1
      BY <1>4, <3>1
    <3> QED
      BY <3>1, <3>2
  <2>2. CASE ~(a \in task.deployed /\ b \in task.deployed)
    <3>1. /\ what = "send"
          /\ task'.deployed = task.deployed \cup {task'.instance}
      BY <1>3, <2>2 DEF GoesOn
    <3>2. task.deployed # {}
      BY <2>2, <3>1
    <3>3. PICK k \in 1 .. n : What(Program, k) = "send"
      BY <1>2, <1>6, <3>2 DEF NothingSentBefore
    <3>4. k \in 1 .. n + 1 /\ k < n + 1
      BY <1>4, <3>3
    <3> QED
      BY <1>4, <3>1, <3>3, <3>4
  <2> QED
    BY <2>1, <2>2
<1>12. ImplementationsKnown'
  <2>1. contracts \in Seq(Contract)
    BY DEF DeploymentTypes
  <2> QED
    BY <1>1, <1>2, <1>3, <1>4, <1>5, <1>6, <2>1, ImplementationsKept
<1> QED
  BY <1>3, <1>5, <1>7, <1>8, <1>9, <1>10, <1>11, <1>12 DEF RunInv

\* The run, when only the chain has moved.
LEMMA RunStays ==
    ASSUME DeploymentTypes, RunInv, Grow, UNCHANGED <<environment, registry>>,
           task'.status = task.status, task'.request = task.request,
           task'.steps = task.steps, task'.instance = task.instance,
           task'.deployed = task.deployed, task'.why = task.why,
           task'.stkPSYSImpl = task.stkPSYSImpl, task'.stkBptImpl = task.stkBptImpl
    PROVE  RunInv'
<1> SUFFICES ASSUME task.status = "running"
             PROVE  /\ task.why = "none"
                    /\ StepsFollowProgram' /\ InstanceSent' /\ KeysRegistered'
                    /\ ChecksPassed' /\ NothingSentBefore' /\ SentApart'
                    /\ ImplementationsKnown'
  BY DEF RunInv
<1>1. /\ task.why = "none" /\ StepsFollowProgram /\ InstanceSent /\ KeysRegistered
      /\ ChecksPassed /\ NothingSentBefore /\ SentApart /\ ImplementationsKnown
  BY DEF RunInv
<1>2. Program' = Program
  BY DEF Program
<1>3. Done' = Done
  BY <1>2 DEF Done
<1>4. StepsFollowProgram'
  BY <1>1, <1>2, <1>3 DEF StepsFollowProgram
<1>5. \A a, kind : Deployed(a, kind) =>
            /\ Deployed(a, kind)'
            /\ Mined(a) => Mined(a)'
  BY DeployedGrows DEF Deployed, Mined
<1>6. InstanceSent'
  BY <1>1, <1>2, <1>3, <1>5 DEF InstanceSent
<1>7. KeysRegistered'
  BY <1>1, <1>2, <1>3, <1>5 DEF KeysRegistered
<1>8. ChecksPassed' /\ NothingSentBefore' /\ SentApart'
  BY <1>1, <1>2, <1>3 DEF ChecksPassed, NothingSentBefore, SentApart
<1>9. ImplementationsKnown'
  BY <1>1, <1>2, <1>3, KnownGrows DEF ImplementationsKnown
<1> QED
  BY <1>1, <1>4, <1>6, <1>7, <1>8, <1>9

LEMMA CommandsTyped ==
    ASSUME DeploymentTypes, NEW r \in CommandLines
    PROVE  /\ r \in Commands
           /\ r.stkPSYSImpl \in Known("StakedTokenV3Rev3")
           /\ r.stkBptImpl \in Known("StakedTokenBptRev2")
<1>1. \A kind : Known(kind) \subseteq Nat
  BY DEF DeploymentTypes, Known
<1> QED
  BY <1>1 DEF CommandLines, Commands

LEMMA RunStarts ==
    ASSUME DeploymentTypes, NEW r \in CommandLines, NEW fresh \in BOOLEAN, StartTask(r, fresh)
    PROVE  RunInv' /\ task' \in Task /\ task'.request \in Commands /\ task'.why = "none"
<1>1. /\ r \in Commands
      /\ r.stkPSYSImpl \in Known("StakedTokenV3Rev3")
      /\ r.stkBptImpl \in Known("StakedTokenBptRev2")
      /\ r.stkPSYSImpl \in Nat /\ r.stkBptImpl \in Nat
  BY CommandsTyped DEF Commands
<1> DEFINE p == Steps(r)
<1>2. p \in Seq(AnyStep)
  BY <1>1, ProgramTyped
<1>3. task.started \in Nat
  BY DEF DeploymentTypes, Task
<1>4. task' = [request |-> r, steps |-> p, instance |-> 0, stkPSYSImpl |-> r.stkPSYSImpl,
               stkBptImpl |-> r.stkBptImpl, times |-> 0, waiting |-> FALSE, deployed |-> {},
               status |-> "running", why |-> "none", started |-> task.started + 1]
  BY DEF StartTask, Idle
<1> HIDE DEF p
<1>5. task' \in Task
  BY <1>1, <1>2, <1>3, <1>4 DEF Task, Whys
<1>6. Program' = p
  BY <1>4 DEF Program, p
<1>7. Done' = 0
  BY <1>2, <1>4, <1>6 DEF Done
<1>8. StepsFollowProgram'
  BY <1>2, <1>4, <1>6, <1>7 DEF StepsFollowProgram
<1>9. InstanceSent' /\ KeysRegistered' /\ ChecksPassed' /\ NothingSentBefore' /\ SentApart'
  BY <1>4, <1>7 DEF InstanceSent, KeysRegistered, ChecksPassed, NothingSentBefore, SentApart
<1>10. ImplementationsKnown'
  <2>1. environment' = environment
    BY DEF StartTask
  <2>2. environment.network = "main" => contracts' = contracts
    BY DEF StartTask
  <2>3. environment.network = "main" =>
            /\ r.stkPSYSImpl \in Known("StakedTokenV3Rev3")'
            /\ r.stkBptImpl \in Known("StakedTokenBptRev2")'
    BY <1>1, <2>2 DEF Known
  <2> QED
    BY <1>4, <1>7, <2>1, <2>3 DEF ImplementationsKnown
<1> QED
  BY <1>1, <1>4, <1>5, <1>8, <1>9, <1>10 DEF RunInv

-----------------------------------------------------------------------------
(* The two promises about a task that has ended. *)

LEMMA CompletedHere ==
    ASSUME DeploymentTypes, RunInv, task.status = "running", task.steps = <<>>,
           NEW k \in DOMAIN Promised(task.request.name)
    PROVE  /\ k \in DOMAIN registry /\ registry[k] \in task.deployed
           /\ contracts[registry[k]]
                = [kind |-> Promised(task.request.name)[k], status |-> "mined"]
<1> DEFINE p    == Program
           n    == Done
           kind == Promised(task.request.name)[k]
<1>1. /\ task.request \in Commands /\ p \in Seq(AnyStep) /\ task.steps \in Seq(AnyStep)
  BY RunningProgram
<1>2. StepsFollowProgram /\ KeysRegistered /\ ChecksPassed
  BY DEF RunInv
<1>3. n = Size(p)
  BY <1>1, <1>2, NextOfProgram
<1>4. Has(p, {"throw"}) \/ Registers(p, k, kind)
  BY <1>1, ProgramRegisters DEF Program
<1>5. /\ \A i \in 1 .. n : What(p, i) # "throw"
      /\ \A i \in 1 .. n, l \in 1 .. n :
            l <= i /\ LastRegister(p, i, n) /\ LastSend(p, l, i) =>
                /\ With(p, i) \in DOMAIN registry
                /\ Deployed(registry[With(p, i)], With(p, l))
                /\ WaitsBetween(p, l, i) => Mined(registry[With(p, i)])
  BY <1>2 DEF ChecksPassed, KeysRegistered
<1> HIDE DEF p, n, kind
<1>6. Registers(p, k, kind)
  BY <1>3, <1>4, <1>5 DEF Has
<1>7. k \in DOMAIN registry /\ Deployed(registry[k], kind) /\ Mined(registry[k])
  BY <1>3, <1>5, <1>6 DEF Registers
<1>8. \A a \in DOMAIN contracts : contracts[a] \in Contract
  BY DEF DeploymentTypes
<1>9. registry[k] \in DOMAIN contracts /\ contracts[registry[k]] \in Contract
  BY <1>7, <1>8 DEF Deployed
<1>10. contracts[registry[k]] = [kind |-> kind, status |-> "mined"]
  BY <1>7, <1>9 DEF Deployed, Mined, Contract
<1> QED
  BY <1>7, <1>10 DEF Deployed, kind

NotVerifiable(why) == why \in {"no key", "unsupported"}

LEMMA CheckedHere ==
    ASSUME DeploymentTypes, RunInv, task.status = "running", task.request.verify,
           NEW why, NotVerifiable(why), EndsWith(why)
    PROVE  task.deployed = {}
<1> DEFINE p == Program
           n == Done
<1>1. /\ task.request \in Commands /\ p \in Seq(AnyStep) /\ task.steps \in Seq(AnyStep)
  BY RunningProgram
<1>2. StepsFollowProgram /\ ChecksPassed /\ NothingSentBefore
  BY DEF RunInv
<1>3. Checked(p)
  BY <1>1, ProgramChecked DEF Program
<1>4. /\ task.steps # <<>>
      /\ Head(task.steps).do \in {"checkVerification", "verify"}
      /\ ~(environment.etherscanKey /\ environment.network = "main")
      /\ Head(task.steps).do = "verify" => ~environment.etherscanKey
  BY Zenon DEF EndsWith, NotVerifiable
<1>5. n \in Nat
  BY <1>1, <1>2, <1>4, NextOfProgram
<1>6. /\ \A i \in 1 .. n : What(p, i) = "checkVerification" =>
                environment.etherscanKey /\ environment.network = "main"
      /\ task.deployed # {} => \E l \in 1 .. n : What(p, l) = "send"
  BY <1>2 DEF ChecksPassed, NothingSentBefore
<1> HIDE DEF p, n
<1>7. What(p, 1) # "send" /\ What(p, 2) = "checkVerification"
  BY <1>3 DEF Checked
<1>8. n = 0 \/ n = 1
  <2> SUFFICES ASSUME 2 <= n PROVE FALSE
    BY <1>5
  <2>1. 2 \in 1 .. n
    BY <1>5
  <2>2. environment.etherscanKey /\ environment.network = "main"
    BY <1>6, <1>7, <2>1
  <2> QED
    BY <1>4, <2>2
<1>9. \A l \in 1 .. n : What(p, l) # "send"
  BY <1>7, <1>8
<1> QED
  BY <1>6, <1>9

\* Without the flag, and so without the check, at most one contract was sent.
LEMMA OneContractSent ==
    ASSUME DeploymentTypes, RunInv, task.status = "running", ~task.request.verify,
           NEW why, NotVerifiable(why), EndsWith(why),
           NEW a \in task.deployed, NEW b \in task.deployed
    PROVE  a = b
<1> DEFINE p == Program
           n == Done
<1>1. /\ task.request \in Commands /\ p \in Seq(AnyStep) /\ task.steps \in Seq(AnyStep)
  BY RunningProgram
<1>2. StepsFollowProgram /\ SentApart
  BY DEF RunInv
<1>3. Thrifty(p)
  BY <1>1, ProgramThrifty DEF Program
<1>4. task.steps # <<>> /\ Head(task.steps).do \in Checks
  BY Zenon DEF EndsWith, NotVerifiable, Checks
<1>5. n \in Nat /\ n + 1 \in 1 .. Size(p) /\ What(p, n + 1) = Head(task.steps).do
  BY <1>1, <1>2, <1>4, NextOfProgram
<1>6. Size(p) \in Nat
  BY <1>1 DEF Size
<1> SUFFICES ASSUME a # b PROVE FALSE
  OBVIOUS
<1>7. PICK k \in 1 .. n, l \in 1 .. n :
        k < l /\ What(p, k) = "send" /\ What(p, l) = "send"
  BY <1>2 DEF SentApart
<1> HIDE DEF p, n, Checks
<1>8. k \in 1 .. Size(p) /\ l \in 1 .. Size(p) /\ l < n + 1
  BY <1>5, <1>6, <1>7
<1>9. What(p, n + 1) \notin Checks
  BY <1>3, <1>5, <1>7, <1>8 DEF Thrifty
<1> QED
  BY <1>4, <1>5, <1>9

LEMMA PromisesKept ==
    ASSUME DeploymentTypes, RunInv, task.status = "running", Effect
    PROVE  CompletedMeansRegistered' /\ CheckedBeforeSpending'
<1>1. CASE Waits
  <2>1. task'.why = "none"
    BY <1>1 DEF Waits, SameProgram, RunInv
  <2> QED
    BY <2>1 DEF CompletedMeansRegistered, CheckedBeforeSpending
<1>2. CASE task.steps # <<>> /\ GoesOn(Head(task.steps).do, Head(task.steps).arg)
  <2>1. task'.why = "none"
    BY <1>2 DEF GoesOn, SameProgram, RunInv
  <2> QED
    BY <2>1 DEF CompletedMeansRegistered, CheckedBeforeSpending
<1>3. ASSUME NEW why \in Whys \ {"none"}, Ends(why), EndsWith(why)
      PROVE  CompletedMeansRegistered' /\ CheckedBeforeSpending'
  <2>1. /\ task'.why = why /\ task'.request = task.request /\ task'.deployed = task.deployed
        /\ registry' = registry /\ contracts' = contracts
    BY <1>3 DEF Ends, Elsewhere
  <2>2. CompletedMeansRegistered'
    <3>1. CASE why = "completed"
      <4>1. task.steps = <<>>
        BY <1>3, <3>1 DEF EndsWith
      <4> QED
        BY <2>1, <4>1, CompletedHere DEF CompletedMeansRegistered
    <3>2. CASE why # "completed"
      BY <2>1, <3>2 DEF CompletedMeansRegistered
    <3> QED
      BY <3>1, <3>2
  <2>3. CheckedBeforeSpending'
    <3>1. task.request.verify /\ NotVerifiable(why) => task.deployed = {}
      BY <1>3, CheckedHere, Zenon
    <3>2. ~task.request.verify /\ NotVerifiable(why)
            => \A a, b \in task.deployed : a = b
      BY <1>3, OneContractSent, Zenon
    <3> QED
      BY <2>1, <3>1, <3>2, Zenon DEF CheckedBeforeSpending, NotVerifiable
  <2> QED
    BY <2>2, <2>3
<1> QED
  BY <1>1, <1>2, <1>3 DEF Effect

\* What is mined stays so.
LEMMA PromisesStay ==
    ASSUME DeployedThere, CompletedMeansRegistered, CheckedBeforeSpending, Grow,
           UNCHANGED <<task, registry>>
    PROVE  CompletedMeansRegistered' /\ CheckedBeforeSpending'
<1>1. CheckedBeforeSpending'
  BY DEF CheckedBeforeSpending
<1>2. CompletedMeansRegistered'
  <2> SUFFICES ASSUME task.why = "completed", NEW k \in DOMAIN Promised(task.request.name)
               PROVE  /\ k \in DOMAIN registry /\ registry[k] \in task.deployed
                      /\ contracts'[registry[k]]
                            = [kind |-> Promised(task.request.name)[k], status |-> "mined"]
    BY DEF CompletedMeansRegistered
  <2>1. /\ k \in DOMAIN registry /\ registry[k] \in task.deployed
        /\ contracts[registry[k]]
                = [kind |-> Promised(task.request.name)[k], status |-> "mined"]
    BY DEF CompletedMeansRegistered
  <2>2. registry[k] \in DOMAIN contracts /\ contracts[registry[k]].status = "mined"
    BY <2>1 DEF DeployedThere
  <2> QED
    BY <2>1, <2>2 DEF Grow
<1> QED
  BY <1>1, <1>2

-----------------------------------------------------------------------------
(* Governance. *)

LEMMA GovernanceStays ==
    ASSUME GovernanceInv, Grow, UNCHANGED <<environment, proxies, approvals, proposals>>
    PROVE  GovernanceInv'
<1>1. ProposalsSound'
  BY DEF GovernanceInv, ProposalsSound, ProposalSound, Grow
<1>2. ProxiesSound'
  <2>1. CASE Before
    BY <2>1 DEF ProxiesSound, Before
  <2>2. CASE Upgraded
    <3>1. ASSUME NEW p \in LiveProxies
          PROVE  /\ proxies[p].implementation \in DOMAIN contracts'
                 /\ contracts'[proxies[p].implementation]
                        = [kind |-> Family(p), status |-> "mined"]
                 /\ proxies[p].lastInitializedRevision = Revision(Family(p))
      <4>1. /\ proxies[p].implementation \in DOMAIN contracts
            /\ contracts[proxies[p].implementation]
                    = [kind |-> Family(p), status |-> "mined"]
            /\ proxies[p].lastInitializedRevision = Revision(Family(p))
        BY <2>2 DEF Upgraded
      <4>2. contracts[proxies[p].implementation].status = "mined"
        BY <4>1
      <4> QED
        BY <4>1, <4>2 DEF Grow
    <3> QED
      BY <3>1 DEF ProxiesSound, Upgraded
  <2> QED
    BY <2>1, <2>2 DEF GovernanceInv, ProxiesSound
<1>3. InitializedOnce'
  BY DEF GovernanceInv, InitializedOnce
<1> QED
  BY <1>1, <1>2, <1>3 DEF GovernanceInv

\* Another proposal that was not executed.
LEMMA GovernanceAppends ==
    ASSUME DeploymentTypes, GovernanceInv, NEW new \in Proposal, ProposalSound(new),
           ~new.executed, proposals' = Append(proposals, new), environment.network = "main",
           UNCHANGED <<environment, contracts, proxies, approvals>>
    PROVE  GovernanceInv' /\ proposals' \in Seq(Proposal)
<1>1. /\ proposals \in Seq(Proposal) /\ proposals' \in Seq(Proposal)
      /\ DOMAIN proposals \subseteq DOMAIN proposals'
      /\ \A k \in DOMAIN proposals : proposals'[k] = proposals[k]
      /\ \A k \in DOMAIN proposals' : k \in DOMAIN proposals \/ proposals'[k] = new
  BY DEF DeploymentTypes
<1>2. ProposalsSound'
  <2>1. ASSUME NEW k \in DOMAIN proposals' PROVE ProposalSound(proposals'[k])
    BY <1>1 DEF GovernanceInv, ProposalsSound
  <2>2. \A proposal : ProposalSound(proposal)' <=> ProposalSound(proposal)
    BY DEF ProposalSound
  <2> QED
    BY <2>1, <2>2 DEF ProposalsSound, ProposalSound
<1>3. ProxiesSound'
  BY <1>1 DEF GovernanceInv, ProxiesSound, Before, Upgraded
<1>4. InitializedOnce'
  BY <1>1 DEF GovernanceInv, InitializedOnce
<1> QED
  BY <1>1, <1>2, <1>3, <1>4 DEF GovernanceInv

LEMMA GovernanceProposes ==
    ASSUME DeploymentTypes, RunInv, GovernanceInv, Propose
    PROVE  GovernanceInv' /\ proposals' \in Seq(Proposal)
<1>1. /\ task.status = "running" /\ task.steps # <<>>
      /\ Head(task.steps).do = "propose" /\ Head(task.steps).arg = Argument
      /\ Argument \in {"extension", "approval"}
  BY ArgumentTyped DEF Propose
<1>2. UNCHANGED <<environment, contracts, proxies, approvals>> /\ Grow
  BY DEF Propose, Grow, DeploymentTypes
<1>3. CASE environment.network # "main"
  <2>1. UNCHANGED proposals
    BY <1>3 DEF Propose
  <2> QED
    BY <1>2, <2>1, GovernanceStays DEF DeploymentTypes
<1>4. CASE environment.network = "main" /\ Argument = "approval"
  <2> DEFINE new == [executed |-> FALSE, upgrades |-> [p \in {} |-> 0], approves |-> LiveProxies]
  <2>1. proposals' = Append(proposals, new)
    BY <1>4 DEF Propose, ApprovalTargets
  <2>2. new \in Proposal /\ ~new.executed /\ ProposalSound(new)
    BY DEF Proposal, ProposalSound
  <2> HIDE DEF new
  <2> QED
    BY <1>2, <1>4, <2>1, <2>2, GovernanceAppends
<1>5. CASE environment.network = "main" /\ Argument = "extension"
  <2> DEFINE p == Program
             n == Done
             psys == task.stkPSYSImpl
             bpt == task.stkBptImpl
             calls == ExtensionCalls(psys, bpt)
             new == [executed |-> FALSE, upgrades |-> calls, approves |-> {}]
  <2>1. /\ task.request \in Commands /\ p \in Seq(AnyStep) /\ task.steps \in Seq(AnyStep)
        /\ Backed(p, task.request.stkPSYSImpl # 0, task.request.stkBptImpl # 0)
    BY <1>1, RunningProgram
  <2>2. StepsFollowProgram /\ ChecksPassed /\ ImplementationsKnown
    BY <1>1 DEF RunInv
  <2>3. /\ n \in Nat /\ n + 1 \in 1 .. Size(p)
        /\ What(p, n + 1) = "propose" /\ With(p, n + 1) = "extension"
    BY <1>1, <1>5, <2>1, <2>2, NextOfProgram
  <2>4. /\ \A i \in 1 .. n : What(p, i) # "throw"
        /\ bpt = task.request.stkBptImpl
        /\ IF \E i \in 1 .. n : What(p, i) = "keep" THEN psys # 0
           ELSE psys = task.request.stkPSYSImpl
        /\ psys \in Known("StakedTokenV3Rev3") /\ bpt \in Known("StakedTokenBptRev2")
    BY <1>5, <2>2 DEF ChecksPassed, ImplementationsKnown
  <2> HIDE DEF p, n, psys, bpt
  <2>5. /\ task.request.stkBptImpl # 0 \/ \E j \in 1 .. n + 1 : What(p, j) = "throw"
        /\ task.request.stkPSYSImpl # 0
            \/ \E j \in 1 .. n + 1 : What(p, j) \in {"throw", "keep"}
    BY <2>1, <2>3 DEF Backed
  <2>6. \A j \in 1 .. n + 1 : j \in 1 .. n \/ What(p, j) = "propose"
    BY <2>3
  <2>7. bpt # 0 /\ psys # 0
    BY <2>4, <2>5, <2>6
  <2>8. /\ psys \in DOMAIN contracts /\ contracts[psys].kind = "StakedTokenV3Rev3"
        /\ bpt \in DOMAIN contracts /\ contracts[bpt].kind = "StakedTokenBptRev2"
    BY <2>4, <2>7 DEF Known
  <2>9. proposals' = Append(proposals, new)
    BY <1>5 DEF Propose, psys, bpt
  <2>10. psys \in Nat /\ bpt \in Nat
    BY DEF DeploymentTypes, Task, psys, bpt
  <2>11. /\ DOMAIN calls = LiveProxies /\ calls \in [LiveProxies -> Nat]
         /\ calls["PSYS_STAKE"] = psys /\ calls["STK_BPT_STAKE"] = bpt
    BY <2>10 DEF ExtensionCalls, LiveProxies
  <2> HIDE DEF calls
  <2>12. new \in Proposal /\ ~new.executed
    BY <2>11 DEF Proposal
  <2>13. new.approves = {} /\ new.upgrades = calls
    OBVIOUS
  <2> HIDE DEF new
  <2>14. ProposalSound(new)
    BY <2>8, <2>11, <2>13 DEF ProposalSound, LiveProxies, Family
  <2> QED
    BY <1>2, <1>5, <2>9, <2>12, <2>14, GovernanceAppends
<1> QED
  BY <1>1, <1>3, <1>4, <1>5

\* A proposal is executed: the first extension, or an approval.
LEMMA GovernanceExecutes ==
    ASSUME DeploymentTypes, GovernanceInv, NEW k \in DOMAIN proposals, ExecuteProposal(k)
    PROVE  /\ GovernanceInv' /\ proposals' \in Seq(Proposal)
           /\ proxies' \in [LiveProxies -> [implementation : Nat,
                                            lastInitializedRevision : Nat]]
<1> DEFINE upgrades == proposals[k].upgrades
<1>1. /\ proposals \in Seq(Proposal) /\ proposals[k] \in Proposal
      /\ proposals' = [proposals EXCEPT ![k].executed = TRUE]
      /\ ~proposals[k].executed
      /\ UNCHANGED <<environment, contracts>>
  BY DEF DeploymentTypes, ExecuteProposal
<1>2. /\ proposals' \in Seq(Proposal) /\ DOMAIN proposals' = DOMAIN proposals
      /\ \A j \in DOMAIN proposals : /\ proposals'[j].upgrades = proposals[j].upgrades
                                     /\ proposals'[j].approves = proposals[j].approves
                                     /\ proposals'[j].executed
                                            <=> proposals[j].executed \/ j = k
  <2> DEFINE done == [proposals[k] EXCEPT !.executed = TRUE]
  <2>1. /\ done \in Proposal /\ done.executed
        /\ done.upgrades = proposals[k].upgrades /\ done.approves = proposals[k].approves
    BY <1>1 DEF Proposal
  <2>2. proposals' = [proposals EXCEPT ![k] = done]
    BY <1>1
  <2> HIDE DEF done
  <2>3. k \in 1 .. Len(proposals) /\ DOMAIN proposals = 1 .. Len(proposals)
    BY <1>1
  <2>4. /\ proposals' \in Seq(Proposal) /\ Len(proposals') = Len(proposals)
        /\ \A j \in 1 .. Len(proposals) :
                proposals'[j] = IF j = k THEN done ELSE proposals[j]
    <3>1. proposals \in Seq(Proposal) /\ done \in Proposal
      BY <1>1, <2>1
    <3> QED
      BY <2>2, <2>3, <3>1, ExceptSeq
  <2>5. DOMAIN proposals' = DOMAIN proposals
    BY <2>2
  <2>6. ASSUME NEW j \in DOMAIN proposals
        PROVE  /\ proposals'[j].upgrades = proposals[j].upgrades
               /\ proposals'[j].approves = proposals[j].approves
               /\ proposals'[j].executed <=> proposals[j].executed \/ j = k
    <3>1. CASE j = k
      BY <2>1, <2>3, <2>4, <3>1
    <3>2. CASE j # k
      BY <2>3, <2>4, <3>2
    <3> QED
      BY <3>1, <3>2
  <2> QED
    BY <2>4, <2>5, <2>6
<1>3. ProposalSound(proposals[k]) /\ proposals # <<>>
  BY <1>1 DEF GovernanceInv, ProposalsSound
<1>4. environment.network = "main"
  BY <1>3 DEF GovernanceInv
<1>5. ProposalsSound'
  <2>1. ASSUME NEW j \in DOMAIN proposals
        PROVE  /\ proposals'[j].approves \in {{}, LiveProxies}
               /\ DOMAIN proposals'[j].upgrades \in {{}, LiveProxies}
               /\ \A p \in DOMAIN proposals'[j].upgrades :
                    LET a == proposals'[j].upgrades[p] IN
                    a \in DOMAIN contracts /\ contracts[a].kind = Family(p)
    BY <1>2 DEF GovernanceInv, ProposalsSound, ProposalSound
  <2> QED
    BY <1>1, <1>2, <2>1 DEF ProposalsSound, ProposalSound
<1>6. approvals' \in {{}, LiveProxies}
  BY <1>3 DEF ExecuteProposal, GovernanceInv, ProposalSound
<1>7. CASE DOMAIN upgrades = {}
  <2>1. proxies' = [p \in LiveProxies |-> proxies[p]]
    BY <1>7 DEF ExecuteProposal
  <2>2. proxies' = proxies
    BY <2>1 DEF DeploymentTypes
  <2>3. ProxiesSound'
    BY <1>1, <1>2, <1>7, <2>2 DEF GovernanceInv, ProxiesSound, Before, Upgraded
  <2>4. InitializedOnce'
    BY <1>2, <1>7 DEF GovernanceInv, InitializedOnce
  <2> QED
    BY <1>1, <1>2, <1>4, <1>5, <1>6, <2>2, <2>3, <2>4 DEF GovernanceInv, DeploymentTypes
<1>8. CASE DOMAIN upgrades = LiveProxies
  <2>1. ASSUME NEW p \in LiveProxies
        PROVE  /\ upgrades[p] \in DOMAIN contracts
               /\ contracts[upgrades[p]] = [kind |-> Family(p), status |-> "mined"]
               /\ Revision(Family(p)) > proxies[p].lastInitializedRevision
               /\ proxies'[p] = [implementation |-> upgrades[p],
                                 lastInitializedRevision |-> Revision(Family(p))]
               /\ proxies'[p].implementation = upgrades[p]
               /\ proxies'[p].lastInitializedRevision = Revision(Family(p))
    <3>1. upgrades[p] \in DOMAIN contracts /\ contracts[upgrades[p]].kind = Family(p)
      BY <1>3, <1>8 DEF ProposalSound
    <3>2. CanUpgrade(p, upgrades[p])
      BY <1>8 DEF ExecuteProposal
    <3>3. contracts[upgrades[p]] \in Contract
      BY <3>1 DEF DeploymentTypes
    <3>4. contracts[upgrades[p]] = [kind |-> Family(p), status |-> "mined"]
      BY <3>1, <3>2, <3>3 DEF CanUpgrade, IsContract, Mined, Contract
    <3>5. proxies'[p] = [implementation |-> upgrades[p],
                         lastInitializedRevision |-> Revision(Family(p))]
      BY <1>8, <3>1 DEF ExecuteProposal
    <3>6. /\ proxies'[p].implementation = upgrades[p]
          /\ proxies'[p].lastInitializedRevision = Revision(Family(p))
      BY <3>5
    <3> QED
      BY <3>1, <3>2, <3>4, <3>5, <3>6 DEF CanUpgrade, MayInitialize
  <2> HIDE DEF upgrades
  <2>2. Upgraded'
    <3>1. ASSUME NEW p \in LiveProxies
          PROVE  /\ proxies'[p].implementation \in DOMAIN contracts'
                 /\ contracts'[proxies'[p].implementation]
                        = [kind |-> Family(p), status |-> "mined"]
                 /\ proxies'[p].lastInitializedRevision = Revision(Family(p))
      <4>1. /\ proxies'[p].implementation = upgrades[p]
            /\ proxies'[p].lastInitializedRevision = Revision(Family(p))
        BY <2>1
      <4>2. contracts' = contracts
        BY <1>1
      <4> QED
        BY <2>1, <4>1, <4>2
    <3> QED
      BY <3>1 DEF Upgraded
  <2>3. Before
    <3>1. "PSYS_STAKE" \in LiveProxies
      BY DEF LiveProxies
    <3>2. ~Upgraded
      <4>1. /\ Revision(Family("PSYS_STAKE")) > proxies["PSYS_STAKE"].lastInitializedRevision
            /\ Revision(Family("PSYS_STAKE")) \in Nat
            /\ proxies["PSYS_STAKE"].lastInitializedRevision \in Nat
        BY <2>1, <3>1 DEF Revision, DeploymentTypes
      <4>2. proxies["PSYS_STAKE"].lastInitializedRevision # Revision(Family("PSYS_STAKE"))
        BY <4>1
      <4> QED
        BY <3>1, <4>2 DEF Upgraded
    <3> QED
      BY <3>2 DEF GovernanceInv, ProxiesSound
  <2>4. InitializedOnce'
    <3> SUFFICES ASSUME NEW i \in DOMAIN proposals, NEW j \in DOMAIN proposals,
                        proposals'[i].executed, proposals'[j].executed,
                        DOMAIN proposals[i].upgrades # {}, DOMAIN proposals[j].upgrades # {}
                 PROVE  i = j
      BY <1>2 DEF InitializedOnce
    <3> QED
      BY <1>2, <2>3 DEF Before
  <2>5. DOMAIN proxies' = LiveProxies /\ proxies' = [p \in LiveProxies |-> proxies'[p]]
    BY DEF ExecuteProposal
  <2>6. \A p \in LiveProxies :
            proxies'[p] \in [implementation : Nat, lastInitializedRevision : Nat]
    <3>1. DOMAIN contracts \subseteq Nat
      BY DEF DeploymentTypes
    <3>2. \A p \in LiveProxies : upgrades[p] \in Nat
      BY <2>1, <3>1
    <3>3. \A p \in LiveProxies : Revision(Family(p)) \in Nat
      BY DEF Revision
    <3>4. ASSUME NEW p \in LiveProxies, NEW a \in Nat, NEW n \in Nat,
                 proxies'[p] = [implementation |-> a, lastInitializedRevision |-> n]
          PROVE  proxies'[p] \in [implementation : Nat, lastInitializedRevision : Nat]
      BY <3>4
    <3> QED
      BY <2>1, <3>2, <3>3, <3>4
  <2>7. proxies' \in [LiveProxies -> [implementation : Nat, lastInitializedRevision : Nat]]
    BY <2>5, <2>6
  <2> QED
    BY <1>1, <1>2, <1>4, <1>5, <1>6, <2>2, <2>4, <2>7 DEF GovernanceInv, ProxiesSound
<1> QED
  BY <1>3, <1>7, <1>8 DEF ProposalSound

-----------------------------------------------------------------------------
(* The invariant is inductive. *)

LEMMA DeploymentStarts ==
    ASSUME Init
    PROVE  DeploymentTypes /\ DeploymentInv
<1>1. EarlierContracts \in Seq(Contract)
  <2> DEFINE earlier == [kind : {"StakedTokenV3Rev3", "StakedTokenBptRev2"},
                         status : {"pending", "mined", "failed"}]
  <2>1. EarlierContracts \in Seq(earlier)
    BY DeploymentAssumption
  <2>2. {"StakedTokenV3Rev3", "StakedTokenBptRev2"} \subseteq Names
    BY Zenon DEF Names
  <2>3. earlier \subseteq Contract
    BY <2>2 DEF Contract
  <2> HIDE DEF earlier
  <2>4. \A S, T : S \subseteq T => \A s \in Seq(S) : s \in Seq(T)
    OBVIOUS
  <2> QED
    BY <2>1, <2>3, <2>4
<1>2. contracts \in Seq(Contract)
  BY <1>1 DEF Init
<1>3. environment \in [network : {"main", "hardhat"}, etherscanKey : BOOLEAN]
  BY DeploymentAssumption DEF Init
<1> DEFINE none == <<>>
<1>4. none \in Seq(AnyStep) /\ proposals = none /\ none \in Seq(Proposal)
  BY DEF Init
<1>5. task \in Task /\ task.status = "ended" /\ task.why = "none" /\ task.deployed = {}
  <2>1. task = [request |-> [name |-> "none"], steps |-> none, instance |-> 0,
         stkPSYSImpl |-> 0, stkBptImpl |-> 0, times |-> 0, waiting |-> FALSE,
         deployed |-> {}, status |-> "ended", why |-> "none", started |-> 0]
    BY DEF Init, Idle
  <2>2. none \in Seq(AnyStep)
    BY <1>4
  <2> HIDE DEF none
  <2> QED
    BY <2>1, <2>2 DEF Task, Whys
<1>6. proxies \in [LiveProxies -> [implementation : Nat, lastInitializedRevision : Nat]]
  BY DEF Init
<1>7. GovernanceInv
  <2>1. DOMAIN proposals = {}
    BY <1>4
  <2>2. \A p \in LiveProxies : proxies[p].implementation = 0
    BY DEF Init
  <2>3. approvals = {}
    BY DEF Init
  <2> QED
    BY <1>4, <2>1, <2>2, <2>3
    DEF GovernanceInv, ProposalsSound, ProxiesSound, Before, InitializedOnce
<1>8. RunInv /\ DeployedThere /\ CompletedMeansRegistered /\ CheckedBeforeSpending
  BY <1>5 DEF RunInv, DeployedThere, CompletedMeansRegistered, CheckedBeforeSpending
<1> QED
  BY <1>2, <1>3, <1>4, <1>5, <1>6, <1>7, <1>8 DEF DeploymentTypes, DeploymentInv

\* Every step of the process leaves the chain as it is, or adds to it.
LEMMA EffectGrows ==
    ASSUME DeploymentTypes, Effect
    PROVE  Grow /\ UNCHANGED <<environment, proxies, approvals>> /\ task' \in Task
<1>1. CASE UNCHANGED Elsewhere
  <2>1. Grow
    BY <1>1 DEF Grow, Elsewhere, DeploymentTypes
  <2>2. task' \in Task
    BY DEF Effect, Waits, Ends, GoesOn, SameProgram
  <2> QED
    BY <1>1, <2>1, <2>2 DEF Elsewhere
<1>2. CASE ~ UNCHANGED Elsewhere
  <2>1. GoesOn(Head(task.steps).do, Head(task.steps).arg)
    BY <1>2 DEF Effect, Waits, Ends
  <2> QED
    BY <2>1 DEF GoesOn, SameProgram
<1> QED
  BY <1>1, <1>2

LEMMA ProcessKeepsRun ==
    ASSUME DeploymentTypes, RunInv, DeployedThere, task.status = "running", Effect
    PROVE  /\ RunInv' /\ DeployedThere'
           /\ task'.status = "running" => task'.request = task.request
<1>1. Grow
  BY EffectGrows
<1>2. CASE Waits
  <2>1. RunInv'
    BY <1>1, <1>2, RunStays DEF Waits, SameProgram, Elsewhere
  <2> QED
    BY <1>2, <2>1 DEF Waits, SameProgram, Elsewhere, DeployedThere
<1>3. ASSUME NEW why \in Whys, Ends(why)
      PROVE  RunInv' /\ DeployedThere' /\ task'.request = task.request
  BY <1>3 DEF Ends, Elsewhere, RunInv, DeployedThere
<1>4. CASE task.steps # <<>> /\ GoesOn(Head(task.steps).do, Head(task.steps).arg)
  <2>1. RunInv'
    BY <1>4, RunGoesOn
  <2>2. task'.deployed \subseteq DOMAIN contracts'
    BY <1>1, <1>4 DEF GoesOn, DeployedThere, Grow
  <2> QED
    BY <1>4, <2>1, <2>2 DEF GoesOn, SameProgram, DeployedThere
<1> QED
  BY <1>2, <1>3, <1>4 DEF Effect

LEMMA ProcessKeepsGovernance ==
    ASSUME DeploymentTypes, DeploymentInv, ProcessStep, Effect
    PROVE  GovernanceInv' /\ proposals' \in Seq(Proposal)
<1>1. CASE Propose
  BY <1>1, GovernanceProposes DEF DeploymentInv
<1>2. CASE ~ Propose
  <2>1. UNCHANGED proposals
    <3>1. SetDreStep \/ CheckVerificationStep \/ LookupStep \/ VerifyStep
            => UNCHANGED proposals
      BY Zenon DEF SetDreStep, CheckVerificationStep, LookupStep, VerifyStep
    <3>2. ThrowStep \/ Rejected \/ GetSignerStep \/ Send \/ RegisterStep \/ WaitStep
            \/ KeepStep \/ Finish => UNCHANGED proposals
      BY DEF ThrowStep, Rejected, GetSignerStep, Send, RegisterStep, WaitStep, KeepStep,
             Finish
    <3>3. Delay \/ VerificationEnds \/ VerificationRetries \/ VerificationGivesUp
            => UNCHANGED proposals
      BY DEF Delay, VerificationEnds, VerificationRetries, VerificationGivesUp
    <3> QED
      BY <1>2, <3>1, <3>2, <3>3 DEF ProcessStep
  <2> QED
    BY <2>1, EffectGrows, GovernanceStays DEF DeploymentInv, DeploymentTypes
<1> QED
  BY <1>1, <1>2

LEMMA MineGrows ==
    ASSUME DeploymentTypes, NEW a \in DOMAIN contracts, Mine(a)
    PROVE  Grow
<1>1. PICK status \in {"mined", "failed"} :
          contracts' = [contracts EXCEPT ![a].status = status]
  BY DEF Mine
<1> DEFINE new == [contracts[a] EXCEPT !.status = status]
<1>2. contracts \in Seq(Contract) /\ a \in 1 .. Len(contracts)
      /\ DOMAIN contracts = 1 .. Len(contracts)
  BY DEF DeploymentTypes
<1>3. contracts[a] \in Contract
  BY <1>2
<1>4. new \in Contract /\ new.kind = contracts[a].kind
  BY <1>3 DEF Contract
<1>5. contracts' = [contracts EXCEPT ![a] = new]
  BY <1>1
<1> HIDE DEF new
<1>6. /\ contracts' \in Seq(Contract) /\ DOMAIN contracts' = DOMAIN contracts
      /\ \A b \in DOMAIN contracts : contracts'[b] = IF b = a THEN new ELSE contracts[b]
  BY <1>2, <1>4, <1>5, ExceptSeq
<1>7. contracts[a].status = "pending"
  BY DEF Mine
<1> QED
  BY <1>4, <1>6, <1>7 DEF Grow

\* A transaction is mined, and nothing else changes.
LEMMA DeploymentMines ==
    ASSUME DeploymentTypes, DeploymentInv, Grow,
           UNCHANGED <<environment, task, registry, proxies, approvals, proposals>>
    PROVE  DeploymentTypes' /\ DeploymentInv'
<1>1. DeploymentTypes'
  BY DEF DeploymentTypes, Grow
<1>2. RunInv'
  BY RunStays DEF DeploymentInv
<1>3. GovernanceInv'
  BY GovernanceStays DEF DeploymentInv
<1>4. DeployedThere'
  BY DEF DeploymentInv, DeployedThere, Grow
<1>5. CompletedMeansRegistered' /\ CheckedBeforeSpending'
  BY PromisesStay DEF DeploymentInv
<1> QED
  BY <1>1, <1>2, <1>3, <1>4, <1>5 DEF DeploymentInv

LEMMA DeploymentProcess ==
    ASSUME DeploymentTypes, DeploymentInv, ProcessStep
    PROVE  DeploymentTypes' /\ DeploymentInv'
<1>1. Effect /\ task.status = "running"
  BY ProcessEffect, ProcessRuns
<1>2. /\ Grow /\ UNCHANGED <<environment, proxies, approvals>> /\ task' \in Task
      /\ RunInv' /\ DeployedThere' /\ CompletedMeansRegistered' /\ CheckedBeforeSpending'
      /\ task'.status = "running" => task'.request = task.request
  BY <1>1, EffectGrows, ProcessKeepsRun, PromisesKept DEF DeploymentInv
<1>3. GovernanceInv' /\ proposals' \in Seq(Proposal)
  BY <1>1, ProcessKeepsGovernance
<1>4. contracts' \in Seq(Contract)
  BY <1>2 DEF Grow
<1>5. DeploymentTypes'
  BY <1>1, <1>2, <1>3, <1>4 DEF DeploymentTypes
<1> QED
  BY <1>2, <1>3, <1>5 DEF DeploymentInv

\* A task starts, in a process with a chain of its own or not.
LEMMA DeploymentTask ==
    ASSUME DeploymentTypes, DeploymentInv,
           NEW r \in CommandLines, NEW fresh \in BOOLEAN, StartTask(r, fresh)
    PROVE  DeploymentTypes' /\ DeploymentInv'
<1>1. RunInv' /\ task' \in Task /\ task'.request \in Commands /\ task'.why = "none"
  BY RunStarts
<1>2. UNCHANGED <<environment, registry, proxies, approvals, proposals>>
      /\ task'.deployed = {}
  BY DEF StartTask, Idle
<1>3. contracts' \in Seq(Contract)
  BY DEF StartTask, DeploymentTypes
<1>4. CompletedMeansRegistered' /\ CheckedBeforeSpending' /\ DeployedThere'
  BY <1>1, <1>2 DEF CompletedMeansRegistered, CheckedBeforeSpending, DeployedThere
<1>5. GovernanceInv'
  <2>1. CASE environment.network = "main"
    <3>1. contracts' = contracts
      BY <2>1 DEF StartTask
    <3>2. Grow
      BY <3>1, <1>3 DEF Grow
    <3> QED
      BY <1>2, <3>2, GovernanceStays DEF DeploymentInv
  <2>2. CASE environment.network # "main"
    <3>1. proposals = <<>> /\ \A p \in LiveProxies : proxies[p].implementation = 0
      BY <2>2 DEF DeploymentInv, GovernanceInv
    <3>2. DOMAIN proposals = {}
      BY <3>1
    <3>3. approvals \in {{}, LiveProxies}
      BY DEF DeploymentInv, GovernanceInv
    <3> QED
      BY <1>2, <2>2, <3>1, <3>2, <3>3
      DEF GovernanceInv, ProposalsSound, ProxiesSound, Before, InitializedOnce
  <2> QED
    BY <2>1, <2>2
<1> QED
  BY <1>1, <1>2, <1>3, <1>4, <1>5 DEF DeploymentTypes, DeploymentInv

LEMMA DeploymentCrashes ==
    ASSUME DeploymentTypes, DeploymentInv, Crash
    PROVE  DeploymentTypes' /\ DeploymentInv'
<1>1. "crash" \in Whys
  BY Zenon DEF Whys
<1>2. Ends("crash")
  BY <1>1, EndsHere DEF Crash, Elsewhere
<1>3. /\ task' \in Task /\ task'.status # "running" /\ task'.why = "crash"
      /\ task'.deployed = task.deployed /\ UNCHANGED Elsewhere
  BY <1>2 DEF Ends
<1>4. RunInv' /\ DeployedThere' /\ CompletedMeansRegistered' /\ CheckedBeforeSpending'
  <2>1. "crash" \notin {"completed", "no key", "unsupported"}
    BY Zenon
  <2>2. CheckedBeforeSpending'
    BY <1>3, <2>1, Zenon DEF CheckedBeforeSpending
  <2> QED
    BY <1>3, <2>2 DEF Elsewhere, DeploymentInv, RunInv, DeployedThere,
                      CompletedMeansRegistered
<1>5. Grow
  BY <1>3 DEF Grow, Elsewhere, DeploymentTypes
<1>6. GovernanceInv'
  BY <1>3, <1>5, GovernanceStays DEF Elsewhere, DeploymentInv
<1> QED
  BY <1>3, <1>4, <1>6 DEF Elsewhere, DeploymentTypes, DeploymentInv

LEMMA DeploymentExecutes ==
    ASSUME DeploymentTypes, DeploymentInv, NEW k \in DOMAIN proposals, ExecuteProposal(k)
    PROVE  DeploymentTypes' /\ DeploymentInv'
<1>1. /\ GovernanceInv' /\ proposals' \in Seq(Proposal)
      /\ proxies' \in [LiveProxies -> [implementation : Nat, lastInitializedRevision : Nat]]
  BY GovernanceExecutes DEF DeploymentInv
<1>2. UNCHANGED <<environment, task, contracts, registry>>
  BY DEF ExecuteProposal
<1>3. Grow
  BY <1>2 DEF Grow, DeploymentTypes
<1>4. RunInv'
  BY <1>2, <1>3, RunStays DEF DeploymentInv
<1>5. DeployedThere' /\ CompletedMeansRegistered' /\ CheckedBeforeSpending'
  BY <1>2, <1>3, PromisesStay DEF DeploymentInv, DeployedThere
<1> QED
  BY <1>1, <1>2, <1>4, <1>5 DEF DeploymentTypes, DeploymentInv

LEMMA DeploymentNext ==
    ASSUME DeploymentTypes, DeploymentInv, [Next]_vars
    PROVE  DeploymentTypes' /\ DeploymentInv'
<1>1. CASE ProcessStep
  BY <1>1, DeploymentProcess
<1>2. CASE MineStep
  <2>1. PICK a \in DOMAIN contracts : Mine(a)
    BY <1>2 DEF MineStep
  <2>2. UNCHANGED <<environment, task, registry, proxies, approvals, proposals>>
    BY <2>1 DEF Mine
  <2> QED
    BY <2>1, <2>2, MineGrows, DeploymentMines
<1>3. CASE StartStep
  <2>1. PICK r \in CommandLines, fresh \in BOOLEAN : StartTask(r, fresh)
    BY <1>3 DEF StartStep
  <2> QED
    BY <2>1, DeploymentTask
<1>4. CASE ExecuteStep
  <2>1. PICK k \in DOMAIN proposals : ExecuteProposal(k)
    BY <1>4 DEF ExecuteStep
  <2> QED
    BY <2>1, DeploymentExecutes
<1>5. CASE Crash
  BY <1>5, DeploymentCrashes
<1>6. CASE UNCHANGED vars
  <2>1. UNCHANGED <<environment, task, contracts, registry, proxies, approvals, proposals>>
    BY <1>6 DEF vars
  <2>2. Grow
    BY <2>1 DEF Grow, DeploymentTypes
  <2> QED
    BY <2>1, <2>2, DeploymentMines
<1> QED
  BY <1>1, <1>2, <1>3, <1>4, <1>5, <1>6 DEF Next

LEMMA DeploymentAlways == Spec => [](DeploymentTypes /\ DeploymentInv)
<1>1. Init => DeploymentTypes /\ DeploymentInv
  BY DeploymentStarts
<1>2. DeploymentTypes /\ DeploymentInv /\ [Next]_vars => (DeploymentTypes /\ DeploymentInv)'
  BY DeploymentNext
<1> QED
  BY <1>1, <1>2, PTL DEF Spec

-----------------------------------------------------------------------------
(* The theorems. *)

(***************************************************************************)
(* A task that completes leaves what it promises in the registry: mined    *)
(* contracts of its own, under the keys and of the kinds that are expected *)
(* there, whatever crashes, earlier runs and other contracts came before.  *)
(***************************************************************************)
THEOREM CompletedTasksAreRegistered == Spec => []CompletedMeansRegistered
<1>1. DeploymentInv => CompletedMeansRegistered
  BY DEF DeploymentInv
<1> QED
  BY <1>1, DeploymentAlways, PTL

(***************************************************************************)
(* No task run with the verify flag sends a contract before it knows that  *)
(* the explorer's key is there and the network supported.                  *)
(***************************************************************************)
THEOREM NothingSpentUnchecked == Spec => []CheckedBeforeSpending
<1>1. DeploymentInv => CheckedBeforeSpending
  BY DEF DeploymentInv
<1> QED
  BY <1>1, DeploymentAlways, PTL

(***************************************************************************)
(* The live proxies run mined code of their own token, initialized once by *)
(* the revision that runs.                                                 *)
(***************************************************************************)
THEOREM ProxiesRunTheirOwnToken == Spec => []ProxyRunsItsOwnToken
<1>1. ProxiesSound => ProxyRunsItsOwnToken
  <2> SUFFICES ASSUME ProxiesSound, NEW p \in LiveProxies, proxies[p].implementation # 0
               PROVE  /\ contracts[proxies[p].implementation]
                            = [kind |-> Family(p), status |-> "mined"]
                      /\ proxies[p].lastInitializedRevision = Revision(Family(p))
    BY DEF ProxyRunsItsOwnToken
  <2>1. Upgraded
    BY DEF ProxiesSound, Before
  <2> QED
    BY <2>1 DEF Upgraded
<1>2. DeploymentInv => ProxyRunsItsOwnToken
  BY <1>1 DEF DeploymentInv, GovernanceInv
<1> QED
  BY <1>2, DeploymentAlways, PTL

(***************************************************************************)
(* At most one proposal that upgrades is ever executed.                    *)
(***************************************************************************)
THEOREM ExtensionsInitializeOnce == Spec => []InitializedOnce
<1>1. DeploymentInv => InitializedOnce
  BY DEF DeploymentInv, GovernanceInv
<1> QED
  BY <1>1, DeploymentAlways, PTL

-----------------------------------------------------------------------------
(* A task uses only contracts it has sent. *)

\* The steps that use the contract that was sent last.
Uses == {"wait", "register", "verify", "keep"}

\* Before each of them something was sent, ...
SendsFirst(s) ==
    /\ IsProgram(s)
    /\ \A i \in 1 .. Size(s) : What(s, i) \in Uses =>
            \E l \in 1 .. i : What(s, l) = "send"

\* ... and whatever follows may use it.
Sending(s) == SendsFirst(s) /\ Has(s, {"send"})

LEMMA SendsFirstJoined ==
    ASSUME NEW s, NEW t, SendsFirst(s), IsProgram(t), SendsFirst(t) \/ Has(s, {"send"})
    PROVE  SendsFirst(Then(s, t))
<1> DEFINE both == Then(s, t)
           n    == Size(s)
<1>1. IsProgram(s)
  BY DEF SendsFirst
<1>2. /\ IsProgram(both) /\ n \in Nat /\ Size(t) \in Nat
      /\ Size(both) = n + Size(t)
      /\ \A i \in 1 .. n : What(both, i) = What(s, i)
      /\ \A i \in 1 .. Size(t) : What(both, n + i) = What(t, i)
  BY <1>1, Joined
<1>3. /\ \A i \in 1 .. n : What(s, i) \in Uses => \E l \in 1 .. i : What(s, l) = "send"
      /\ \A i \in 1 .. Size(t) : What(t, i) \in Uses =>
            \/ \E l \in 1 .. i : What(t, l) = "send"
            \/ \E l \in 1 .. n : What(s, l) = "send"
  BY DEF SendsFirst, Has
<1> HIDE DEF both, n, Uses
<1>4. ASSUME NEW i \in 1 .. Size(both), What(both, i) \in Uses
      PROVE  \E l \in 1 .. i : What(both, l) = "send"
  <2>1. CASE i \in 1 .. n
    <3>1. PICK l \in 1 .. i : What(s, l) = "send"
      BY <1>2, <1>3, <1>4, <2>1
    <3> QED
      BY <1>2, <2>1, <3>1
  <2>2. CASE i \notin 1 .. n
    <3> DEFINE k == i - n
    <3>1. k \in 1 .. Size(t) /\ n + k = i
      BY <1>2, <2>2
    <3> HIDE DEF k
    <3>2. What(t, k) \in Uses
      BY <1>2, <1>4, <3>1
    <3>3. CASE \E l \in 1 .. k : What(t, l) = "send"
      <4>1. PICK l \in 1 .. k : What(t, l) = "send"
        BY <3>3
      <4>2. n + l \in 1 .. i /\ What(both, n + l) = "send"
        BY <1>2, <3>1, <4>1
      <4> QED
        BY <4>2
    <3>4. CASE \E l \in 1 .. n : What(s, l) = "send"
      <4>1. PICK l \in 1 .. n : What(s, l) = "send"
        BY <3>4
      <4>2. l \in 1 .. i /\ What(both, l) = "send"
        BY <1>2, <3>1, <4>1
      <4> QED
        BY <4>2
    <3> QED
      BY <1>3, <3>1, <3>2, <3>3, <3>4
  <2> QED
    BY <2>1, <2>2
<1>5. SendsFirst(both)
  BY <1>2, <1>4 DEF SendsFirst
<1> QED
  BY <1>5 DEF both

LEMMA SendsFirstAfter ==
    ASSUME NEW s, NEW t, SendsFirst(s), SendsFirst(t)
    PROVE  /\ SendsFirst(s \o t)
           /\ Sending(s) \/ Sending(t) => Sending(s \o t)
<1>1. IsProgram(s) /\ IsProgram(t)
  BY DEF SendsFirst
<1>2. SendsFirst(Then(s, t))
  BY <1>1, SendsFirstJoined
<1>3. Sending(s) \/ Sending(t) => Sending(Then(s, t))
  BY <1>1, <1>2, HasJoined DEF Sending
<1> QED
  BY <1>2, <1>3 DEF Then

LEMMA SendingAfter ==
    ASSUME NEW s, NEW t \in Seq(AnyStep), Sending(s)
    PROVE  Sending(s \o t)
<1>1. IsProgram(s) /\ IsProgram(t)
  BY DEF Sending, SendsFirst, IsProgram
<1>2. SendsFirst(Then(s, t)) /\ Has(Then(s, t), {"send"})
  BY <1>1, SendsFirstJoined, HasJoined DEF Sending
<1> QED
  BY <1>2 DEF Then, Sending

\* Steps that use nothing.
LEMMA StepUsesNothing ==
    ASSUME NEW t, NEW what, NEW arg, IsStep(t, what, arg), what \notin Uses
    PROVE  SendsFirst(t)
  BY DEF IsStep, SendsFirst

LEMMA WhenSendsFirst ==
    ASSUME NEW condition \in BOOLEAN, NEW t, condition => SendsFirst(t)
    PROVE  SendsFirst(When(condition, t))
<1>1. CASE condition
  BY <1>1 DEF When
<1>2. CASE ~condition
  <2>1. When(condition, t) = <<>>
    BY <1>2 DEF When
  <2>2. <<>> \in Seq(AnyStep) /\ Len(<<>>) = 0
    OBVIOUS
  <2>3. IsProgram(<<>>) /\ Size(<<>>) = 0
    BY <2>2 DEF IsProgram, Size
  <2>4. SendsFirst(<<>>)
    BY <2>3 DEF SendsFirst
  <2> QED
    BY <2>1, <2>4
<1> QED
  BY <1>1, <1>2

LEMMA PartsSendFirst ==
    /\ \A used \in BOOLEAN : SendsFirst(SetDre(used))
    /\ SendsFirst(CheckVerification) /\ SendsFirst(GetSigner)
    /\ \A why \in Thrown : SendsFirst(Throw(why))
    /\ \A what \in {"extension", "approval"} : SendsFirst(Do("propose", what))
    /\ SendsFirst(Lookup("StakedPSYSImpl")) /\ SendsFirst(Lookup("StakedPSYSV3"))
    /\ \A id \in Names : Sending(DeployContract(id))
<1>1. \A used \in BOOLEAN : SendsFirst(SetDre(used))
  BY OneStep, StepUsesNothing DEF Uses
<1>2. SendsFirst(CheckVerification) /\ SendsFirst(GetSigner)
  BY OneStep, StepUsesNothing DEF Uses
<1>3. \A why \in Thrown : SendsFirst(Throw(why))
  BY OneStep, StepUsesNothing DEF Uses
<1>4. \A what \in {"extension", "approval"} : SendsFirst(Do("propose", what))
  BY OneStep, StepUsesNothing DEF Uses
<1>5. SendsFirst(Lookup("StakedPSYSImpl")) /\ SendsFirst(Lookup("StakedPSYSV3"))
  <2>1. ASSUME NEW key \in Names PROVE SendsFirst(Lookup(key))
    <3>1. IsStep(Lookup(key), "lookup", key)
      BY PlainParts, StepSets, DoIsStep DEF Lookup
    <3> QED
      BY <3>1, StepUsesNothing DEF Uses
  <2> QED
    BY <2>1 DEF Names
<1>6. ASSUME NEW id \in Names PROVE Sending(DeployContract(id))
  <2> DEFINE s == DeployContract(id)
  <2>1. IsProgram(s) /\ Size(s) = 2 /\ What(s, 1) = "send"
    BY DeployParts
  <2> HIDE DEF s
  <2>2. Sending(s)
    BY <2>1 DEF Sending, SendsFirst, Has
  <2> QED
    BY <2>2 DEF s
<1> QED
  BY <1>1, <1>2, <1>3, <1>4, <1>5, <1>6

\* What the accessors send, and what follows it.
LEMMA AccessorsSend ==
    ASSUME NEW verify \in BOOLEAN
    PROVE  /\ Sending(deployStakedPSYS(verify))
           /\ Sending(deployStakedPSYSV3(verify))
           /\ Sending(deployStakedTokenV3Revision3(verify))
           /\ Sending(deployStakedTokenBptRevision2(verify))
           /\ Sending(deployPegasysIncentivesController(verify))
           /\ Sending(deployDoubleTransferHelper(verify))
           /\ Sending(deployPegasysStakingHelper(verify))
           /\ Sending(deployStakeUIHelper(verify))
           /\ Sending(deployStakedTokenDataProvider(verify))
           /\ \A id \in Names : Sending(DeployContract(id) \o Wait)
<1>1. /\ When(verify, VerifyContract) \in Seq(AnyStep) /\ Wait \in Seq(AnyStep)
      /\ \A id \in Names : Sending(DeployContract(id))
  BY PlainParts, WhenIn, StepSets, PartsSendFirst
<1>2. \A id \in Names :
          /\ Sending(DeployContract(id) \o When(verify, VerifyContract))
          /\ Sending(DeployContract(id) \o Wait)
          /\ Sending(DeployContract(id) \o Wait \o When(verify, VerifyContract))
  BY <1>1, SendingAfter
<1> HIDE DEF Sending
<1>3. /\ Sending(deployStakedPSYS(verify)) /\ Sending(deployStakedPSYSV3(verify))
      /\ Sending(deployStakedTokenV3Revision3(verify))
  BY <1>2 DEF deployStakedPSYS, deployStakedPSYSV3, deployStakedTokenV3Revision3, Names
<1>4. /\ Sending(deployStakedTokenBptRevision2(verify))
      /\ Sending(deployPegasysIncentivesController(verify))
      /\ Sending(deployDoubleTransferHelper(verify))
  BY <1>2 DEF deployStakedTokenBptRevision2, deployPegasysIncentivesController,
              deployDoubleTransferHelper, Names
<1>5. /\ Sending(deployPegasysStakingHelper(verify))
      /\ Sending(deployStakeUIHelper(verify))
      /\ Sending(deployStakedTokenDataProvider(verify))
  BY <1>2 DEF deployPegasysStakingHelper, deployStakeUIHelper,
              deployStakedTokenDataProvider, Names
<1> QED
  BY <1>2, <1>3, <1>4, <1>5

LEMMA TasksSendFirst ==
    ASSUME NEW verify \in BOOLEAN, NEW valid \in BOOLEAN
    PROVE  /\ SendsFirst(DeployStakedPSYSV3(verify))
           /\ SendsFirst(InitializeStakedPSYSV3)
           /\ SendsFirst(CommonDeployment(verify))
           /\ SendsFirst(DevDeployment) /\ SendsFirst(VerifySC)
           /\ SendsFirst(DeployPegasysStakingHelper(verify))
           /\ SendsFirst(DeployStakeUIHelper(verify))
           /\ SendsFirst(DeployStakedTokenDataProvider(verify, valid))
<1>1. /\ \A used \in BOOLEAN : SendsFirst(SetDre(used))
      /\ SendsFirst(When(verify, CheckVerification))
      /\ \A why \in Thrown : SendsFirst(Throw(why))
      /\ SendsFirst(Lookup("StakedPSYSImpl")) /\ SendsFirst(Lookup("StakedPSYSV3"))
  BY PartsSendFirst, WhenSendsFirst
<1>2. Wait \in Seq(AnyStep) /\ \A id \in Names : RegisterContractInJsonDb(id) \in Seq(AnyStep)
  BY PlainParts, StepSets
<1>3. \A used \in BOOLEAN : SendsFirst(SetDre(used) \o When(verify, CheckVerification))
  BY <1>1, SendsFirstAfter
<1>4. ASSUME NEW s, Sending(s)
      PROVE  Sending(SetDre(FALSE) \o When(verify, CheckVerification) \o s)
  BY <1>3, <1>4, SendsFirstAfter DEF Sending
<1>5. SendsFirst(DeployStakedPSYSV3(verify))
  <2>1. /\ deployInitializableAdminUpgradeabilityProxy(verify) \in Seq(AnyStep)
        /\ RegisterContractInJsonDb("Staked PSYS") \in Seq(AnyStep)
        /\ RegisterContractInJsonDb("StakedPSYSV3") \in Seq(AnyStep)
    BY <1>2, PlainAccessors, StepSets DEF Names
  <2>2. Sending(SetDre(FALSE) \o When(verify, CheckVerification) \o deployStakedPSYSV3(TRUE))
    BY <1>4, AccessorsSend
  <2>3. Sending(DeployStakedPSYSV3(verify))
    BY <1>2, <2>1, <2>2, SendingAfter DEF DeployStakedPSYSV3
  <2> QED
    BY <2>3 DEF Sending
<1>6. SendsFirst(InitializeStakedPSYSV3)
  BY <1>1, SendsFirstAfter DEF InitializeStakedPSYSV3, Thrown
<1>7. SendsFirst(CommonDeployment(verify))
  BY <1>3, <1>5, <1>6, SendsFirstAfter DEF CommonDeployment
<1>8. SendsFirst(DevDeployment) /\ SendsFirst(VerifySC)
  BY <1>1, SendsFirstAfter DEF DevDeployment, VerifySC, Thrown
<1>9. ASSUME NEW id \in Names, NEW deploy, Sending(deploy)
      PROVE  SendsFirst(DeployHelper(id, deploy, verify))
  <2>1. Sending(DeployHelper(id, deploy, verify))
    BY <1>2, <1>4, <1>9, SendingAfter DEF DeployHelper
  <2> QED
    BY <2>1 DEF Sending
<1>10. /\ SendsFirst(DeployPegasysStakingHelper(verify))
       /\ SendsFirst(DeployStakeUIHelper(verify))
  BY <1>9, AccessorsSend DEF DeployPegasysStakingHelper, DeployStakeUIHelper, Names
<1>11. SendsFirst(DeployStakedTokenDataProvider(verify, valid))
  <2>1. SendsFirst(DeployHelper("StakedTokenDataProvider",
                                deployStakedTokenDataProvider(verify), verify))
    BY <1>9, AccessorsSend DEF Names
  <2>2. SendsFirst(SetDre(FALSE) \o When(verify, CheckVerification) \o Throw("parameter"))
    BY <1>1, <1>3, SendsFirstAfter DEF Thrown
  <2> QED
    BY <2>1, <2>2 DEF DeployStakedTokenDataProvider
<1> QED
  BY <1>5, <1>6, <1>7, <1>8, <1>10, <1>11

LEMMA ProposalsSendFirst ==
    ASSUME NEW psys \in BOOLEAN, NEW bpt \in BOOLEAN
    PROVE  /\ SendsFirst(DeployStakedPsysRev3)
           /\ SendsFirst(ProposeExtension(psys, bpt))
           /\ SendsFirst(ProposalStkExtensions(psys, bpt))
           /\ SendsFirst(ProposeVaultApproval) /\ SendsFirst(ProposalVaultApproval)
<1>1. /\ SendsFirst(SetDre(FALSE)) /\ SendsFirst(GetSigner)
      /\ \A why \in Thrown : SendsFirst(Throw(why))
      /\ SendsFirst(Do("propose", "extension")) /\ SendsFirst(Do("propose", "approval"))
      /\ SendsFirst(SetDre(FALSE) \o GetSigner)
  BY PartsSendFirst, SendsFirstAfter
<1>2. SendsFirst(DeployStakedPsysRev3)
  <2>1. Keep \in Seq(AnyStep)
    BY StepSets
  <2>2. Sending(deployStakedTokenV3Revision3(TRUE))
    BY AccessorsSend
  <2>3. Sending(SetDre(FALSE) \o GetSigner \o deployStakedTokenV3Revision3(TRUE))
    BY <1>1, <2>2, SendsFirstAfter DEF Sending
  <2>4. Sending(DeployStakedPsysRev3)
    BY <2>1, <2>3, SendingAfter DEF DeployStakedPsysRev3
  <2> QED
    BY <2>4 DEF Sending
<1>3. \A a, b \in BOOLEAN : SendsFirst(ProposeExtension(a, b))
  <2> SUFFICES ASSUME NEW a \in BOOLEAN, NEW b \in BOOLEAN
               PROVE  SendsFirst(ProposeExtension(a, b))
    OBVIOUS
  <2>1. SendsFirst(When(~a \/ ~b, Throw("parameter")))
    BY <1>1, WhenSendsFirst DEF Thrown
  <2> QED
    BY <1>1, <2>1, SendsFirstAfter DEF ProposeExtension
<1>4. SendsFirst(ProposalStkExtensions(psys, bpt))
  <2>1. /\ SendsFirst(When(~psys, DeployStakedPsysRev3))
        /\ SendsFirst(When(~bpt, Throw("no such task")))
    BY <1>1, <1>2, WhenSendsFirst DEF Thrown
  <2> QED
    BY <1>1, <1>3, <2>1, SendsFirstAfter DEF ProposalStkExtensions
<1>5. SendsFirst(ProposeVaultApproval)
  BY <1>1, SendsFirstAfter DEF ProposeVaultApproval
<1>6. SendsFirst(ProposalVaultApproval)
  BY <1>1, <1>5, SendsFirstAfter DEF ProposalVaultApproval
<1> QED
  BY <1>2, <1>3, <1>4, <1>5, <1>6

LEMMA ProgramSendsFirst ==
    ASSUME NEW r \in Commands
    PROVE  SendsFirst(Steps(r))
<1> DEFINE name == r.name
<1>1. /\ name \in TaskNames \cup DOMAIN Accessors(FALSE)
      /\ r.verify \in BOOLEAN /\ r.valid \in BOOLEAN
  BY DeploymentAssumption DEF Commands
<1>2. CASE name \in ProposalTasks
  BY <1>2, ProposalsSendFirst DEF Steps, ProposalTasks
<1>3. CASE name \in TaskNames \ ProposalTasks
  BY <1>1, <1>3, TasksSendFirst DEF Steps, TaskNames, ProposalTasks
<1>4. CASE name \notin TaskNames
  <2>1. Steps(r) = SetDre(FALSE) \o Accessors(r.verify)[name]
    BY <1>4 DEF Steps, TaskNames
  <2>2. name \in {"StakedPSYS", "StakedTokenBptRev2", "PegasysIncentivesController",
                  "DoubleTransferHelper", "SelfdestructTransfer", "MintableErc20",
                  "MockTransferHook"}
    BY <1>1, <1>4 DEF Accessors
  <2> DEFINE all == Accessors(r.verify)
  <2>3. /\ all.StakedPSYS = deployStakedPSYS(r.verify)
        /\ all.StakedTokenBptRev2 = deployStakedTokenBptRevision2(r.verify)
        /\ all.PegasysIncentivesController = deployPegasysIncentivesController(r.verify)
        /\ all.DoubleTransferHelper = deployDoubleTransferHelper(r.verify)
        /\ all.SelfdestructTransfer = DeployContract("SelfdestructTransfer") \o Wait
        /\ all.MintableErc20 = DeployContract("MintableErc20")
        /\ all.MockTransferHook = DeployContract("MockTransferHook")
    BY DEF Accessors
  <2> HIDE DEF all
  <2>4. Sending(all[name])
    BY <1>1, <2>2, <2>3, AccessorsSend, PartsSendFirst DEF Names
  <2>5. SendsFirst(SetDre(FALSE)) /\ SendsFirst(all[name])
    BY <2>4, PartsSendFirst DEF Sending
  <2> QED
    BY <2>1, <2>5, SendsFirstAfter DEF all
<1> QED
  BY <1>1, <1>2, <1>3, <1>4

\* Among the steps that send there is a last one.
LEMMA SendLast ==
    ASSUME NEW s, NEW n \in Nat, NEW h \in 1 .. n, What(s, h) = "send"
    PROVE  \E l \in 1 .. n : LastSend(s, l, n)
<1> DEFINE R == {p \in Nat \X Nat : p[1] < p[2]}
           left == {n - l : l \in {l \in 1 .. n : What(s, l) = "send"}}
<1>1. left \subseteq Nat /\ n - h \in left
  OBVIOUS
<1>2. PICK x \in left : \A y \in left : ~(<<y, x>> \in R)
  <2>1. IsWellFoundedOn(R, Nat)
    BY NatLessThanWellFounded DEF OpToRel
  <2> HIDE DEF R, left
  <2> QED
    BY <1>1, <2>1, WFMin
<1>3. PICK l \in 1 .. n : What(s, l) = "send" /\ x = n - l
  OBVIOUS
<1>4. ASSUME NEW j \in l + 1 .. n PROVE What(s, j) # "send"
  <2>1. SUFFICES ASSUME What(s, j) = "send" PROVE FALSE
    OBVIOUS
  <2>2. n - j \in left /\ n - j \in Nat /\ x \in Nat /\ n - j < x
    BY <1>3, <2>1
  <2> QED
    BY <1>2, <2>2
<1> QED
  BY <1>3, <1>4 DEF LastSend

LEMMA OwnContract ==
    ASSUME DeploymentTypes, DeploymentInv, NEW what \in Uses, At(what)
    PROVE  task.instance \in task.deployed /\ task.instance \in DOMAIN contracts
<1>1. /\ task.status = "running" /\ task.steps # <<>>
      /\ Head(task.steps).do = what
  BY DEF At
<1>2. /\ task.request \in Commands
      /\ Program \in Seq(AnyStep) /\ task.steps \in Seq(AnyStep)
  BY <1>1, RunningProgram
<1>3. StepsFollowProgram /\ InstanceSent
  BY <1>1 DEF DeploymentInv, RunInv
<1>4. /\ Done \in Nat /\ Done + 1 \in 1 .. Size(Program)
      /\ What(Program, Done + 1) = what
  BY <1>1, <1>2, <1>3, NextOfProgram
<1>5. SendsFirst(Program)
  BY <1>2, ProgramSendsFirst DEF Program
<1> DEFINE p == Program
           n == Done
<1>6. /\ n \in Nat /\ n + 1 \in 1 .. Size(p) /\ What(p, n + 1) = what /\ SendsFirst(p)
      /\ what # "send"
  BY <1>4, <1>5 DEF Uses
<1>7. \A l \in 1 .. n : LastSend(p, l, n) => Deployed(task.instance, With(p, l))
  BY <1>3 DEF InstanceSent
<1> HIDE DEF p, n
<1>8. PICK h \in 1 .. n + 1 : What(p, h) = "send"
  BY <1>6 DEF SendsFirst
<1>9. h \in 1 .. n
  BY <1>6, <1>8
<1>10. PICK l \in 1 .. n : LastSend(p, l, n)
  BY <1>6, <1>8, <1>9, SendLast
<1> QED
  BY <1>7, <1>10 DEF Deployed

(***************************************************************************)
(* Whatever a step waits for, registers, verifies or keeps is a contract   *)
(* that this run of this task has sent, never one of an earlier run and    *)
(* never the address 0.  (deployContract, waitForTx, registerContractInJsonDb) *)
(***************************************************************************)
THEOREM TasksUseTheirOwnContracts ==
    Spec => [](\A what \in Uses : At(what) =>
                  task.instance \in task.deployed /\ task.instance \in DOMAIN contracts)
<1>1. DeploymentTypes /\ DeploymentInv =>
        (\A what \in Uses : At(what) =>
            task.instance \in task.deployed /\ task.instance \in DOMAIN contracts)
  BY OwnContract
<1> QED
  BY <1>1, DeploymentAlways, PTL

-----------------------------------------------------------------------------
(* A task comes to its end. *)

\* What is left of the retries: 2 * VERIFY_TIMES + 2 before the first attempt,
\* then two for each attempt that is left, one for its delay.
RetriesLeft ==
    IF task.times = 0 /\ ~task.waiting THEN 2 * VERIFY_TIMES + 2
    ELSE 2 * task.times + (IF task.waiting THEN 1 ELSE 0)

\* A bound on the steps that the process still takes for its task.
Effort == (2 * VERIFY_TIMES + 3) * Len(task.steps) + RetriesLeft

LEMMA EffortNat == DeploymentTypes => Effort \in Nat
<1> SUFFICES ASSUME DeploymentTypes PROVE Effort \in Nat
  OBVIOUS
<1>1. task.times \in Nat /\ Len(task.steps) \in Nat
  BY DEF DeploymentTypes, Task
<1> QED
  BY <1>1 DEF Effort, RetriesLeft, VERIFY_TIMES

\* The next step is less to do, whether it follows an attempt or not.
LEMMA NextStepLess ==
    ASSUME DeploymentTypes, task.steps # <<>>, task'.steps = Tail(task.steps),
           \/ task'.times = task.times /\ task'.waiting = task.waiting
           \/ task'.times = 0 /\ ~task'.waiting
    PROVE  Effort' < Effort
<1> DEFINE n == Len(task.steps)
<1>1. n \in Nat /\ n > 0 /\ Len(Tail(task.steps)) = n - 1 /\ task.times \in Nat
  BY DEF DeploymentTypes, Task
<1>2. Len(task.steps)' = n - 1
  BY <1>1
<1>3. task'.times \in Nat /\ RetriesLeft \in Nat
  BY <1>1 DEF RetriesLeft, VERIFY_TIMES
<1> HIDE DEF n
<1>4. Effort = 11 * n + RetriesLeft /\ Effort' = 11 * (n - 1) + RetriesLeft'
  BY <1>2 DEF Effort, VERIFY_TIMES, n
<1>5. CASE task'.times = task.times /\ task'.waiting = task.waiting
  <2>1. RetriesLeft' = RetriesLeft
    BY <1>5 DEF RetriesLeft
  <2> QED
    BY <1>1, <1>3, <1>4, <2>1
<1>6. CASE task'.times = 0 /\ ~task'.waiting
  <2>1. RetriesLeft' = 10
    BY <1>6 DEF RetriesLeft, VERIFY_TIMES
  <2> QED
    BY <1>1, <1>3, <1>4, <2>1
<1> QED
  BY <1>5, <1>6

LEMMA EvenLess ==
    ASSUME NEW t \in Nat
    PROVE  /\ 2 * t + 0 < 2 * t + 1 /\ 2 * t + 0 \in Nat /\ 2 * t + 1 \in Nat
           /\ t > 0 => /\ 2 * (t - 1) + 1 < 2 * t + 0
                      /\ 2 * (t - 1) + 1 \in Nat
  OBVIOUS

LEMMA MoreLess ==
    ASSUME NEW k \in Nat, NEW r \in Nat, NEW q \in Nat, q < r
    PROVE  11 * k + q < 11 * k + r
  OBVIOUS

\* An attempt, or its delay, leaves fewer of them.
LEMMA AttemptLess ==
    ASSUME DeploymentTypes, task'.steps = task.steps,
           \/ /\ task.times = 0 /\ ~task.waiting
              /\ task'.times = VERIFY_TIMES /\ task'.waiting
           \/ /\ task.times > 0 /\ task.waiting
              /\ task'.times = task.times /\ ~task'.waiting
           \/ /\ task.times > 0 /\ ~task.waiting
              /\ task'.times = task.times - 1 /\ task'.waiting
    PROVE  Effort' < Effort
<1>1. Len(task.steps) \in Nat /\ task.times \in Nat
  BY DEF DeploymentTypes, Task
<1>2. RetriesLeft' < RetriesLeft /\ RetriesLeft \in Nat /\ RetriesLeft' \in Nat
  <2>1. CASE /\ task.times = 0 /\ ~task.waiting
             /\ task'.times = VERIFY_TIMES /\ task'.waiting
    <3>1. RetriesLeft = 10 /\ RetriesLeft' = 9
      BY <2>1 DEF RetriesLeft, VERIFY_TIMES
    <3> QED
      BY <3>1
  <2>2. CASE /\ task.times > 0 /\ task.waiting
             /\ task'.times = task.times /\ ~task'.waiting
    <3>1. RetriesLeft = 2 * task.times + 1 /\ RetriesLeft' = 2 * task.times + 0
      BY <1>1, <2>2 DEF RetriesLeft
    <3> QED
      BY <1>1, <3>1, EvenLess
  <2>3. CASE /\ task.times > 0 /\ ~task.waiting
             /\ task'.times = task.times - 1 /\ task'.waiting
    <3>1. /\ RetriesLeft = 2 * task.times + 0
          /\ RetriesLeft' = 2 * (task.times - 1) + 1
      BY <1>1, <2>3 DEF RetriesLeft
    <3> QED
      BY <1>1, <2>3, <3>1, EvenLess
  <2> QED
    BY <2>1, <2>2, <2>3, Zenon
<1> DEFINE n == Len(task.steps)
<1>3. Effort = 11 * n + RetriesLeft /\ Effort' = 11 * n + RetriesLeft'
  BY DEF Effort, VERIFY_TIMES
<1> HIDE DEF n
<1>4. n \in Nat
  BY <1>1 DEF n
<1> QED
  BY <1>2, <1>3, <1>4, MoreLess

LEMMA EndedStops ==
    ASSUME DeploymentTypes, NEW why,
           task' = Ended(why) \/ task' = [Ended(why) EXCEPT !.status = "dead"]
    PROVE  task'.status # "running"
<1>1. DOMAIN Ended(why) = DOMAIN task /\ Ended(why).status = "ended"
  BY DEF Ended, DeploymentTypes, Task
<1>2. "status" \in DOMAIN task
  BY DEF DeploymentTypes, Task
<1> QED
  BY <1>1, <1>2

\* What Continued leaves of the retries.
LEMMA ContinuedLess ==
    ASSUME DeploymentTypes, task.steps # <<>>,
           task'.steps = Continued.steps, task'.times = Continued.times,
           task'.waiting = Continued.waiting
    PROVE  Effort' < Effort
<1>1. /\ Continued.steps = Tail(task.steps) /\ Continued.times = task.times
      /\ Continued.waiting = task.waiting
  BY DEF Continued, DeploymentTypes, Task
<1> QED
  BY <1>1, NextStepLess

(***************************************************************************)
(* Every step of the process ends its task or leaves it less to do.        *)
(***************************************************************************)
LEMMA ProcessLess ==
    ASSUME DeploymentTypes, ProcessStep
    PROVE  task'.status # "running" \/ Effort' < Effort
<1> DEFINE Less == Effort' < Effort
           Stops == task'.status # "running"
<1>0. /\ Continued.steps = Tail(task.steps) /\ Continued.times = task.times
      /\ Continued.waiting = task.waiting
      /\ DOMAIN Continued = DOMAIN task
      /\ {"steps", "times", "waiting", "instance", "deployed", "stkPSYSImpl"}
            \subseteq DOMAIN task
  BY DEF Continued, DeploymentTypes, Task
<1>1. ASSUME task.steps # <<>>, task' = Continued PROVE Less
  BY <1>1, ContinuedLess
<1>2. CASE SetDreStep
  BY <1>1, <1>2, EndedStops, Zenon DEF SetDreStep, At
<1>3. CASE CheckVerificationStep
  BY <1>1, <1>3, EndedStops, Zenon DEF CheckVerificationStep, At
<1>4. CASE ThrowStep \/ Rejected \/ Finish
  BY <1>4, EndedStops, Zenon DEF ThrowStep, Rejected, Finish
<1>5. CASE LookupStep
  BY <1>1, <1>5, EndedStops, Zenon DEF LookupStep, At
<1>6. CASE WaitStep
  BY <1>1, <1>6, EndedStops, Zenon DEF WaitStep, At
<1>7. CASE GetSignerStep \/ RegisterStep \/ Propose
  BY <1>1, <1>7, Zenon DEF GetSignerStep, RegisterStep, Propose, At
<1>8. CASE Send \/ KeepStep
  <2>1. /\ task.steps # <<>> /\ task'.steps = Continued.steps
        /\ task'.times = Continued.times /\ task'.waiting = Continued.waiting
    <3> HIDE DEF Less, Stops
    <3>1. CASE Send
      BY <1>0, <3>1 DEF Send, At
    <3>2. CASE KeepStep
      BY <1>0, <3>2 DEF KeepStep, At
    <3> QED
      BY <1>8, <3>1, <3>2
  <2> QED
    BY <2>1, ContinuedLess
<1>9. CASE VerifyStep
  <2>1. CASE task' = Ended("no key") \/ task' = Continued
    BY <1>1, <1>9, <2>1, EndedStops, Zenon DEF VerifyStep, At
  <2>2. CASE task' = [task EXCEPT !.times = VERIFY_TIMES, !.waiting = TRUE]
    <3>1. /\ task'.steps = task.steps /\ task'.times = VERIFY_TIMES /\ task'.waiting
          /\ task.times = 0 /\ ~task.waiting
      BY <1>9, <2>2 DEF VerifyStep, DeploymentTypes, Task
    <3> QED
      BY <3>1, AttemptLess
  <2> QED
    BY <1>9, <2>1, <2>2, Zenon DEF VerifyStep
<1>10. CASE Delay
  <2>1. /\ task'.steps = task.steps /\ task'.times = task.times /\ ~task'.waiting
        /\ task.times > 0 /\ task.waiting
    BY <1>10 DEF Delay, DeploymentTypes, Task
  <2> QED
    BY <2>1, AttemptLess
<1>11. CASE VerificationRetries
  <2>1. /\ task'.steps = task.steps /\ task'.times = task.times - 1 /\ task'.waiting
        /\ task.times > 0 /\ ~task.waiting
    BY <1>11 DEF VerificationRetries, TimesLeft, DeploymentTypes, Task
  <2> QED
    BY <2>1, AttemptLess
<1>12. CASE VerificationEnds \/ VerificationGivesUp
  <2>1. /\ task.steps # <<>> /\ task'.steps = Tail(task.steps)
        /\ task'.times = 0 /\ ~task'.waiting
    <3>1. CASE VerificationEnds
      BY <1>0, <3>1 DEF VerificationEnds, At
    <3>2. CASE VerificationGivesUp
      BY <1>0, <3>2 DEF VerificationGivesUp, At
    <3> QED
      BY <1>12, <3>1, <3>2
  <2> QED
    BY <2>1, NextStepLess
<1> QED
  BY <1>2, <1>3, <1>4, <1>5, <1>6, <1>7, <1>8, <1>9, <1>10, <1>11, <1>12
  DEF ProcessStep
(***************************************************************************)
(* No task goes on for ever: every step of the process ends its task or    *)
(* leaves less of a bounded number of steps, and nothing else that happens *)
(* gives it more to do.  (runTaskWithRetry, and the steps of the tasks)    *)
(***************************************************************************)
THEOREM TasksMakeProgress ==
    Spec => /\ [](task.status = "running" => Effort \in Nat)
            /\ [][task.status = "running" =>
                    /\ \/ task' = task
                       \/ task'.status # "running"
                       \/ Effort' < Effort
                    /\ ProcessStep =>
                       \/ task'.status # "running"
                       \/ Effort' < Effort]_vars
<1>1. DeploymentTypes => (task.status = "running" => Effort \in Nat)
  BY EffortNat
<1>2. ASSUME DeploymentTypes, [Next]_vars, task.status = "running"
      PROVE  /\ \/ task' = task
                \/ task'.status # "running"
                \/ Effort' < Effort
             /\ ProcessStep =>
                \/ task'.status # "running"
                \/ Effort' < Effort
  <2>1. CASE ProcessStep
    BY <1>2, <2>1, ProcessLess
  <2>2. ASSUME ~ProcessStep PROVE task' = task \/ task'.status # "running"
    <3>1. CASE MineStep \/ ExecuteStep
      BY <3>1, Zenon DEF MineStep, ExecuteStep, Mine, ExecuteProposal
    <3>2. CASE StartStep
      BY <1>2, <3>2, Zenon DEF StartStep, StartTask
    <3>3. CASE Crash
      BY <1>2, <3>3, EndedStops, Zenon DEF Crash
    <3>4. CASE UNCHANGED vars
      BY <3>4, Zenon DEF vars
    <3> QED
      BY <1>2, <2>2, <3>1, <3>2, <3>3, <3>4, Zenon DEF Next
  <2> QED
    BY <2>1, <2>2, Zenon
<1>3. DeploymentTypes /\ [Next]_vars =>
        [task.status = "running" =>
            /\ \/ task' = task
               \/ task'.status # "running"
               \/ Effort' < Effort
            /\ ProcessStep =>
               \/ task'.status # "running"
               \/ Effort' < Effort]_vars
  BY <1>2, Zenon
<1> QED
  BY <1>1, <1>3, DeploymentAlways, PTL DEF Spec

LEMMA HeadIsAStep ==
    ASSUME DeploymentTypes, task.steps # <<>>
    PROVE  Head(task.steps).do \in
              {"setDre", "checkVerification", "getSigner", "wait", "verify", "send",
               "register", "lookup", "throw", "keep", "propose"}
<1>1. Head(task.steps) \in AnyStep
  BY DEF DeploymentTypes, Task
<1> QED
  BY <1>1 DEF AnyStep, PlainSteps, Throws

\* A way on for the process, in which node and signer refuse what they can, and
\* the explorer fails for good.
Refusable == {"send", "getSigner", "propose"}

TaskAfterWait == IF Mined(task.instance) THEN Continued ELSE Ended("failed")

Objection == IF ~environment.etherscanKey THEN "no key"
             ELSE IF environment.network \notin SUPPORTED_ETHERSCAN_NETWORKS
             THEN "unsupported" ELSE "none"

TaskAfterCheck ==
    IF Objection = "none" THEN Continued
    ELSE [Ended(Objection) EXCEPT !.status = "dead"]

TaskAfterVerify ==
    IF task.times > 0 THEN IF task.waiting THEN [task EXCEPT !.waiting = FALSE]
                                           ELSE [Continued EXCEPT !.times = 0]
    ELSE IF task.waiting THEN [Continued EXCEPT !.waiting = FALSE]
    ELSE IF environment.etherscanKey THEN Continued ELSE Ended("no key")

Doing == Head(task.steps).do

TaskOn ==
    IF task.steps = <<>> THEN Ended("completed")
    ELSE IF Doing \in Refusable THEN Ended("rejected")
    ELSE IF Doing = "throw" THEN Ended(Argument)
    ELSE IF Doing = "wait" THEN TaskAfterWait
    ELSE IF Doing = "setDre" THEN IF Argument /\ dre THEN Ended("stale DRE")
                                                     ELSE Continued
    ELSE IF Doing = "checkVerification" THEN TaskAfterCheck
    ELSE IF Doing = "verify" THEN TaskAfterVerify
    ELSE IF Doing = "lookup" /\ Argument \notin DOMAIN registry
         THEN Ended("not registered")
    ELSE IF Doing = "keep" THEN [Continued EXCEPT !.stkPSYSImpl = task.instance]
    ELSE Continued

DreOn ==
    IF task.steps = <<>> THEN dre
    ELSE IF Doing = "setDre" THEN TRUE
    ELSE IF Doing = "checkVerification" THEN (dre /\ Objection = "none")
    ELSE dre

RegistryOn ==
    IF task.steps # <<>> /\ Doing = "register"
    THEN [k \in DOMAIN registry \cup {Argument} |->
             IF k = Argument THEN task.instance ELSE registry[k]]
    ELSE registry

(***************************************************************************)
(* And no task is stuck: wherever a process stands, in the middle of the   *)
(* retries too, the step that TaskOn names is one it can take, one that    *)
(* fairness makes it take, and it makes progress.  Only a wait needs the   *)
(* transaction to be mined or failed; then TransactionsNeverStuck applies. *)
(***************************************************************************)
THEOREM ProcessNeverStuck ==
    ASSUME DeploymentTypes, task.status = "running",
           At("wait") => contracts[task.instance].status # "pending",
           task' = TaskOn, dre' = DreOn, registry' = RegistryOn,
           UNCHANGED <<environment, contracts, verified, proxies, approvals, proposals>>
    PROVE  /\ Answered
           /\ task'.status # "running" \/ Effort' < Effort
<1>1. ProcessStep
  <2>1. CASE task.steps = <<>>
    <3>1. Finish
      BY <2>1, Zenon DEF Finish, TaskOn, DreOn, RegistryOn
    <3> QED
      BY <3>1, Zenon DEF ProcessStep
  <2>2. CASE task.steps # <<>>
    <3>1. Doing \in {"setDre", "checkVerification", "getSigner", "wait", "verify",
                     "send", "register", "lookup", "throw", "keep", "propose"}
      BY <2>2, HeadIsAStep DEF Doing
    <3>2. At(Doing)
      BY <2>2, Zenon DEF At, Doing
    <3>3. CASE Doing \in Refusable
      <4>1. task' = Ended("rejected") /\ dre' = dre /\ registry' = registry
        BY <2>2, <3>3, Zenon DEF TaskOn, DreOn, RegistryOn, Refusable
      <4>2. Rejected
        BY <3>2, <3>3, <4>1, Zenon DEF Rejected, Refusable
      <4> QED
        BY <4>2, Zenon DEF ProcessStep
    <3>11. CASE Doing = "wait"
      <4>1. task' = TaskAfterWait /\ dre' = dre /\ registry' = registry
        BY <2>2, <3>11, Zenon DEF TaskOn, DreOn, RegistryOn, Refusable
      <4>2. WaitStep
        BY <3>2, <3>11, <4>1, Zenon DEF WaitStep, TaskAfterWait
      <4> QED
        BY <4>2, Zenon DEF ProcessStep
    <3>4. CASE Doing = "throw"
      <4>1. task' = Ended(Argument) /\ dre' = dre /\ registry' = registry
        BY <2>2, <3>4, Zenon DEF TaskOn, DreOn, RegistryOn, Refusable
      <4> QED
        BY <3>2, <3>4, <4>1, Zenon DEF ThrowStep, ProcessStep
    <3>5. CASE Doing = "setDre"
      <4>1. /\ task' = IF Argument /\ dre THEN Ended("stale DRE") ELSE Continued
            /\ dre' = TRUE /\ registry' = registry
        BY <2>2, <3>5, Zenon DEF TaskOn, DreOn, RegistryOn, Refusable
      <4> QED
        BY <3>2, <3>5, <4>1, Zenon DEF SetDreStep, ProcessStep
    <3>6. CASE Doing = "checkVerification"
      <4>1. /\ task' = TaskAfterCheck
            /\ dre' = (dre /\ Objection = "none") /\ registry' = registry
        BY <2>2, <3>6, Zenon DEF TaskOn, DreOn, RegistryOn, Refusable
      <4>2. CheckVerificationStep
        BY <3>2, <3>6, <4>1, Zenon DEF CheckVerificationStep, TaskAfterCheck, Objection
      <4> QED
        BY <4>2, Zenon DEF ProcessStep
    <3>7. CASE Doing = "lookup"
      <4>1. /\ task' = IF Argument \in DOMAIN registry THEN Continued
                                                       ELSE Ended("not registered")
            /\ dre' = dre /\ registry' = registry
        BY <2>2, <3>7, Zenon DEF TaskOn, DreOn, RegistryOn, Refusable
      <4> QED
        BY <3>2, <3>7, <4>1, Zenon DEF LookupStep, ProcessStep
    <3>8. CASE Doing = "keep"
      <4>1. /\ task' = [Continued EXCEPT !.stkPSYSImpl = task.instance]
            /\ dre' = dre /\ registry' = registry
        BY <2>2, <3>8, Zenon DEF TaskOn, DreOn, RegistryOn, Refusable
      <4> QED
        BY <3>2, <3>8, <4>1, Zenon DEF KeepStep, ProcessStep
    <3>9. CASE Doing = "register"
      <4>1. /\ task' = Continued /\ dre' = dre
            /\ registry' = [k \in DOMAIN registry \cup {Argument} |->
                              IF k = Argument THEN task.instance ELSE registry[k]]
        BY <2>2, <3>9, Zenon DEF TaskOn, DreOn, RegistryOn, Refusable
      <4> QED
        BY <3>2, <3>9, <4>1, Zenon DEF RegisterStep, ProcessStep
    <3>10. CASE Doing = "verify"
      <4>1. task' = TaskAfterVerify /\ dre' = dre /\ registry' = registry
        BY <2>2, <3>10, Zenon DEF TaskOn, DreOn, RegistryOn, Refusable
      <4>2. task.waiting \in BOOLEAN /\ (task.times > 0 \/ task.times = 0)
        BY DEF DeploymentTypes, Task
      <4>3. ~(0 > 0)
        OBVIOUS
      <4>4. CASE task.times > 0 /\ task.waiting
        <5>1. Delay
          BY <4>1, <4>4, Zenon DEF Delay, TaskAfterVerify
        <5> QED
          BY <5>1, Zenon DEF ProcessStep
      <4>5. CASE task.times > 0 /\ ~task.waiting
        <5>1. VerificationEnds
          BY <3>2, <3>10, <4>1, <4>5, Zenon DEF VerificationEnds, TaskAfterVerify
        <5> QED
          BY <5>1, Zenon DEF ProcessStep
      <4>6. CASE task.times = 0 /\ task.waiting
        <5>1. VerificationGivesUp
          BY <3>2, <3>10, <4>1, <4>3, <4>6, Zenon
          DEF VerificationGivesUp, TaskAfterVerify
        <5> QED
          BY <5>1, Zenon DEF ProcessStep
      <4>7. CASE task.times = 0 /\ ~task.waiting
        <5>1. task' = IF environment.etherscanKey THEN Continued ELSE Ended("no key")
          BY <4>1, <4>3, <4>7, Zenon DEF TaskAfterVerify
        <5>2. VerifyStep
          BY <3>2, <3>10, <4>1, <4>7, <5>1, Zenon DEF VerifyStep
        <5> QED
          BY <5>2, Zenon DEF ProcessStep
      <4> QED
        BY <4>2, <4>4, <4>5, <4>6, <4>7
    <3> QED
      BY <3>1, <3>3, <3>4, <3>5, <3>6, <3>7, <3>8, <3>9, <3>10, <3>11, Zenon
      DEF Refusable
  <2> QED
    BY <2>1, <2>2, Zenon
<1>2. ASSUME At("wait") PROVE ~Rejected
  <2>1. task.steps # <<>> /\ Doing = "wait"
    BY <1>2, Zenon DEF At, Doing
  <2>2. task' = TaskAfterWait
    BY <2>1, Zenon DEF TaskOn, Refusable
  <2>3. /\ Ended("rejected").status = "ended" /\ Ended("rejected").why = "rejected"
        /\ Ended("failed").why = "failed"
    BY DEF Ended, DeploymentTypes, Task
  <2>4. Continued.status = "running"
    BY DEF Continued, DeploymentTypes, Task
  <2>5. task' # Ended("rejected")
    BY <2>2, <2>3, <2>4 DEF TaskAfterWait
  <2> QED
    BY <2>5, Zenon DEF Rejected
<1> QED
  BY <1>1, <1>2, ProcessLess DEF Answered

(***************************************************************************)
(* A wait is for a contract that is there: as long as its transaction is   *)
(* pending it can be mined, and then the wait is over.                     *)
(***************************************************************************)
THEOREM TransactionsNeverStuck ==
    ASSUME DeploymentTypes, DeploymentInv, At("wait"),
           contracts[task.instance].status = "pending",
           contracts' = [contracts EXCEPT ![task.instance].status = "mined"],
           UNCHANGED <<environment, dre, task, registry, verified, proxies,
                       approvals, proposals>>
    PROVE  MineStep /\ contracts'[task'.instance].status # "pending"
<1> DEFINE a == task.instance
<1>1. a \in DOMAIN contracts
  BY OwnContract DEF Uses
<1>2. Mine(a)
  BY DEF Mine
<1>3. contracts[a] \in Contract /\ contracts'[a] = [contracts[a] EXCEPT !.status = "mined"]
  BY <1>1 DEF DeploymentTypes
<1>4. contracts'[a].status = "mined" /\ task' = task
  BY <1>3 DEF Contract
<1> HIDE DEF a
<1> QED
  BY <1>1, <1>2, <1>4 DEF MineStep, a

=============================================================================
