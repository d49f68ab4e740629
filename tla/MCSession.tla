----------------------------- MODULE MCSession -----------------------------
EXTENDS SlaveSession

CONSTANTS h1, h2, k1, k2, pw, badpw

V3 == [version |-> 3, patterns |-> {"XX", "KK"}, password |-> TRUE]
V3XX == [version |-> 3, patterns |-> {"XX"}, password |-> TRUE]
V2 == [version |-> 2, patterns |-> {}, password |-> TRUE]

Hub(params, hello, key, psk) ==
  [params |-> params, hello |-> hello, key |-> key, psk |-> psk]

\* The same hub every time.
StableV3 == {Hub(V3, h1, k1, pw)}

\* Hubs of every version that know the password and have the same static key.
OwnHubs == {Hub(V3, h1, k1, pw), Hub(V3XX, h2, k1, pw), Hub(V2, h1, k1, pw)}

\* A legacy hub, also one that does not announce that it takes passwords.
V1 == [version |-> 1, patterns |-> {}, password |-> FALSE]
RenamedV2 == {Hub(V2, h1, k1, pw), Hub(V2, h2, k1, pw)}

\* A hub that changes between connections: downgraded, renamed, with another
\* static key, or with another password.
AnyHub == {Hub(V3, h1, k1, pw), Hub(V3XX, h1, k2, pw), Hub(V2, h1, k1, pw),
           Hub(V2, h1, k1, badpw), Hub(V1, h1, k1, pw), Hub(V3, h2, k1, pw), Hub(V3, h1, k1, badpw)}
=============================================================================
