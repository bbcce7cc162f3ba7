----------------------------- MODULE MCDeployment -----------------------------
(* The deployment tasks on a small instance. *)
EXTENDS DeploymentProperties

\* One implementation of each proxy is there already: two proposals take two
\* tasks.
MCEarlierContracts ==
    <<[kind |-> "StakedTokenBptRev2", status |-> "mined"],
      [kind |-> "StakedTokenV3Rev3", status |-> "mined"]>>

=============================================================================
