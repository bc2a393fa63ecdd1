---------------------------- MODULE MCUcycQueue ----------------------------
EXTENDS UcycQueue
\* Four slots: a queue can be partly executed, wound back, refilled and full.
MCOp == {"a", "b"}
=============================================================================
