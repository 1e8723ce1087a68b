------------------------------ MODULE MCMaterialOps ------------------------------
\* Instances of MaterialOps for TLC.
EXTENDS MaterialOps
=================================================================================
