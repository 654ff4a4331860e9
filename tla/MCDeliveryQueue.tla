--------------------------- MODULE MCDeliveryQueue ---------------------------
EXTENDS DeliveryQueue, TLC
=============================================================================
