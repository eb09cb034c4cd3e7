------------------------- MODULE MCRealtimeOrders -------------------------
EXTENDS RealtimeOrders
CONSTANTS fa, fb
=============================================================================
