----------------------------- MODULE MCRouting -----------------------------
EXTENDS MessageRouting, TLC

CONSTANTS h1, hk1, a1, pk1, pk2, p1, p2

\* Peers and keys are told apart by nothing but what the behaviour does to them.
PeersAndKeys == Permutations({p1, p2}) \cup Permutations({pk1, pk2})
=============================================================================
