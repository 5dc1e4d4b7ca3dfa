------------------------------ MODULE MCRelease ------------------------------
(* Small instances of Lock, Bundle and Deployment for TLC.  They share no     *)
(* state: a behaviour resolves into a lock file, builds bundles, or publishes. *)
EXTENDS MCLock, Bundle, Deployment

\* Only a behaviour about the lock file has packages.
NothingElse == BundleInit /\ DeploymentInit
NoPackages == packages = <<>> /\ phase = "resolved"

EitherInit == Init /\ BundleInit /\ DeploymentInit

EitherNext ==
  \/ NothingElse /\ Next /\ UNCHANGED <<bundleVars, deploymentVars>>
  \/ NoPackages /\ DeploymentInit /\ BundleNext /\ UNCHANGED <<vars, deploymentVars>>
  \/ NoPackages /\ BundleInit /\ DeploymentNext /\ UNCHANGED <<vars, bundleVars>>

EitherSpec == EitherInit /\ [][EitherNext]_<<vars, bundleVars, deploymentVars>>
=============================================================================
