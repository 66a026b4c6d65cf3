------------------------------ MODULE MCBlockSync ------------------------------
EXTENDS BlockSync
=============================================================================
