----------------------------- MODULE MCFileQueue -----------------------------
EXTENDS FileQueueProps, TLC
=============================================================================
