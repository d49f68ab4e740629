------------------------------- MODULE MCEmit -------------------------------
EXTENDS SessionEmit, Wire, Keepalive, CipherFrames

CONSTANTS s1, s2

\* n bytes with few 1 bits.
Sparse(n) == [i \in 1 .. n |-> IF i % 3 = 0 THEN 129 ELSE 0]
Text(plain, zipped) == [plain |-> plain, zipped |-> zipped]

\* "{}" and 256 bytes that fit in the length field only when compressed.
SomeMetas == {Text(<<123, 125>>, Sparse(10)), Text(Sparse(256), Sparse(255))}
SomePayloads == {Text(<<0>>, <<120, 156>>), Text(<<128, 0, 1, 7>>, <<120>>)}

\* FramesRoundTrip (Wire) is about values: TLC need evaluate it in one state.
WireRoundTrips == Init => FramesRoundTrip

\* TimeoutBelowInterval (Keepalive) and SealedFramesOpen (CipherFrames), likewise.
KeepaliveIsSane == Init => TimeoutBelowInterval
CiphersRoundTrip == Init => SealedFramesOpen
=============================================================================
