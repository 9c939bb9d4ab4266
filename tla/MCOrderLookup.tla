--------------------------- MODULE MCOrderLookup ----------------------------
EXTENDS OrderLookup, MCOrderData
=============================================================================
