---------------------------- MODULE MCFastMapBus ----------------------------
EXTENDS FastMapBus
\* The space, and once more beyond its top
OnceBeyond == 0..(2 * ADDRESSES - 1)
=============================================================================
