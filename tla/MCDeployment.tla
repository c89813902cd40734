----------------------------- MODULE MCDeployment -----------------------------
EXTENDS Deployment
=============================================================================
