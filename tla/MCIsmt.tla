------------------------------- MODULE MCIsmt -------------------------------
EXTENDS IsmtProps, TLC
=============================================================================
