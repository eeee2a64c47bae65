---------------------------- MODULE MCDeployment ----------------------------
(* The deployment scripts with small bounds.                               *)
EXTENDS Deployment
=============================================================================
