---------------------------- MODULE MCListeners ----------------------------
EXTENDS Listeners

CONSTANTS w1, l1, l2, speak, other

BusAndUserland == {"BUS", "THIRDPRTY"}
=============================================================================
