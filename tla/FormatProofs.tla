---------------------------- MODULE FormatProofs ----------------------------
(***************************************************************************)
(* TLAPS proofs about three pure parts of the code: the ping options of    *)
(* the websocket clients, for all numbers that may be configured, the      *)
(* frames of encryption.py, for plaintexts of every length, and the binary *)
(* frames of serialization.py, for all texts and payloads.                 *)
(***************************************************************************)
EXTENDS MCEmit, SequenceTheorems, TLAPS

-----------------------------------------------------------------------------
(* websocket_keepalive_options *)

\* What is configured is a number of seconds or no usable number.
LEMMA ConfiguredIsSet ==
  ASSUME NEW argument \in Configurable, NEW specific \in Configurable,
         NEW general \in Configurable
  PROVE  Configured(argument, specific, general) \in Configurable
  BY DEF Configured

\* _non_negative_float returns a number that is not negative.
LEMMA NumbersAreNatural ==
  ASSUME NEW value \in Configurable, NEW default \in Nat
  PROVE  NonNegativeFloat(value, default) \in Nat
<1>1. CASE value \in Seconds
  BY <1>1, KeepaliveAssumption DEF NonNegativeFloat
<1>2. CASE value \in {Unset, Junk}
  BY <1>2 DEF NonNegativeFloat
<1> QED BY <1>1, <1>2 DEF Configurable

\* A timeout is adjusted to stay below an interval of more than 0.1 s.
LEMMA AdjustedIsShorter ==
  ASSUME NEW interval \in Nat, NEW timeout \in Nat, interval > 10
  PROVE  AdjustedTimeout(interval, timeout) < interval
<1>1. interval \div 2 < interval /\ interval \div 2 \in Nat
  OBVIOUS
<1> QED BY <1>1 DEF AdjustedTimeout

\* The ping timeout is shorter than an interval of more than 0.1 s, whatever
\* numbers, missing values and junk the arguments and the environment hold.
THEOREM TimeoutsStayBelow == TimeoutBelowInterval
<1> SUFFICES ASSUME NEW p \in Configurable, NEW q \in Configurable,
                    Options(p, q).interval > 10
             PROVE  Options(p, q).timeout = Unset \/ Options(p, q).timeout < Options(p, q).interval
  BY ConfiguredIsSet DEF TimeoutBelowInterval
<1> DEFINE interval == NonNegativeFloat(p, DefaultPingInterval)
           timeout == NonNegativeFloat(q, DefaultPingTimeout)
<1>1. interval \in Nat /\ timeout \in Nat
  BY NumbersAreNatural DEF DefaultPingInterval, DefaultPingTimeout
<1>2. Options(p, q) = IF interval = 0 THEN [interval |-> 0]
                      ELSE [interval |-> interval,
                            timeout |-> IF timeout = 0 THEN Unset
                                        ELSE AdjustedTimeout(interval, timeout)]
  BY DEF Options
<1> HIDE DEF interval, timeout
<1>3. interval # 0 /\ interval > 10
  BY <1>1, <1>2
<1> QED BY <1>1, <1>2, <1>3, AdjustedIsShorter

\* The same as the run checks it, for every number that may be configured.
THEOREM KeepaliveSane == Spec => []KeepaliveIsSane
<1>1. KeepaliveIsSane
  BY TimeoutsStayBelow DEF KeepaliveIsSane
<1> QED BY <1>1, PTL

-----------------------------------------------------------------------------
(* encryption.py *)

Tokens == {"nonce", "text", "tag"} \X Nat

\* A part of a sealed text has the bytes it should have.
LEMMA PartsAreBytes ==
  ASSUME NEW of \in {"nonce", "text", "tag"}, NEW n \in Nat
  PROVE  Bytes(of, n) \in Seq(Tokens) /\ Len(Bytes(of, n)) = n
<1>1. \A i \in 1 .. n : <<of, i>> \in Tokens
  BY DEF Tokens
<1> QED BY <1>1 DEF Bytes

\* Cutting a concatenation where its parts meet gives the parts back.
LEMMA CutWhereJoined ==
  ASSUME NEW S, NEW a \in Seq(S), NEW b \in Seq(S)
  PROVE  /\ SubSeq(a \o b, 1, Len(a)) = a
         /\ SubSeq(a \o b, Len(a) + 1, Len(a) + Len(b)) = b
<1> DEFINE s == a \o b
           x == SubSeq(s, 1, Len(a))
           y == SubSeq(s, Len(a) + 1, Len(a) + Len(b))
<1>1. Len(a) \in Nat /\ Len(b) \in Nat
  OBVIOUS
<1>2. /\ s \in Seq(S) /\ Len(s) = Len(a) + Len(b)
      /\ \A i \in 1 .. Len(a) + Len(b) : s[i] = IF i <= Len(a) THEN a[i] ELSE b[i - Len(a)]
  BY ConcatProperties
<1> HIDE DEF s
<1>3. \A i \in 1 .. Len(a) + Len(b) : s[i] \in S
  BY <1>1, <1>2
<1>4. x = a
  <2>1. \A i \in 1 .. Len(a) : s[i] \in S
    BY <1>1, <1>3
  <2>2. /\ x \in Seq(S)
        /\ Len(x) = IF 1 <= Len(a) THEN Len(a) - 1 + 1 ELSE 0
        /\ \A i \in 1 .. Len(a) - 1 + 1 : x[i] = s[1 + i - 1]
    BY <1>1, <2>1, SubSeqProperties
  <2> HIDE DEF x
  <2>3. Len(x) = Len(a) /\ \A i \in 1 .. Len(a) : x[i] = a[i]
    BY <1>1, <1>2, <2>2
  <2> QED BY <2>2, <2>3, SeqEqual
<1>5. y = b
  <2>1. \A i \in Len(a) + 1 .. Len(a) + Len(b) : s[i] \in S
    BY <1>1, <1>3
  <2>2. Len(a) + 1 \in Int /\ Len(a) + Len(b) \in Int
    BY <1>1
  <2>3. /\ y \in Seq(S)
        /\ Len(y) = IF Len(a) + 1 <= Len(a) + Len(b)
                    THEN Len(a) + Len(b) - (Len(a) + 1) + 1 ELSE 0
        /\ \A i \in 1 .. Len(a) + Len(b) - (Len(a) + 1) + 1 : y[i] = s[Len(a) + 1 + i - 1]
    BY <2>1, <2>2, SubSeqProperties
  <2> HIDE DEF y
  <2>4. Len(y) = Len(b)
    BY <1>1, <2>3
  <2>5. ASSUME NEW i \in 1 .. Len(b) PROVE y[i] = b[i]
    <3>1. /\ i \in 1 .. Len(a) + Len(b) - (Len(a) + 1) + 1
          /\ Len(a) + 1 + i - 1 = Len(a) + i
          /\ Len(a) + i \in 1 .. Len(a) + Len(b)
          /\ ~(Len(a) + i <= Len(a)) /\ Len(a) + i - Len(a) = i
      BY <1>1
    <3>2. y[i] = s[Len(a) + i]
      BY <2>3, <3>1
    <3>3. s[Len(a) + i] = b[i]
      BY <1>2, <3>1
    <3> QED BY <3>2, <3>3
  <2> QED BY <2>3, <2>4, <2>5, SeqEqual
<1> QED BY <1>4, <1>5 DEF s

\* The slices of the code at those places.
LEMMA SlicesCut ==
  ASSUME NEW S, NEW a \in Seq(S), NEW b \in Seq(S)
  PROVE  /\ First(a \o b, Len(a)) = a /\ From(a \o b, Len(a)) = b
         /\ AllButLast(a \o b, Len(b)) = a /\ Last(a \o b, Len(b)) = b
<1>1. Len(a) \in Nat /\ Len(b) \in Nat /\ Len(a \o b) = Len(a) + Len(b)
  BY ConcatProperties
<1>2. /\ Smaller(Len(a), Len(a \o b)) = Len(a)
      /\ Len(a \o b) - Len(b) = Len(a)
      /\ Larger(Len(a \o b) - Len(b), 0) = Len(a)
  BY <1>1 DEF Smaller, Larger
<1> QED BY <1>1, <1>2, CutWhereJoined DEF First, From, AllButLast, Last

\* The frame of a sealed text splits into the three parts it was joined from.
LEMMA JoinedSplits ==
  ASSUME NEW cipher, NEW n \in Nat
  PROVE  Split(cipher, Joined(Seal(cipher, n))) = Seal(cipher, n)
<1>1. PICK front, body, back : /\ front = Bytes("nonce", NonceSize(cipher))
                              /\ body = Bytes("text", n) /\ back = Bytes("tag", TagSize)
  OBVIOUS
<1>2. /\ front \in Seq(Tokens) /\ Len(front) = NonceSize(cipher)
      /\ body \in Seq(Tokens) /\ back \in Seq(Tokens) /\ Len(back) = TagSize
  <2>1. NonceSize(cipher) \in Nat /\ TagSize \in Nat
    BY DEF NonceSize, TagSize
  <2> QED BY <1>1, <2>1, PartsAreBytes
<1>3. body \o back \in Seq(Tokens) /\ front \o body \o back = front \o (body \o back)
  BY <1>2, ConcatProperties, ConcatAssociative
<1>4. /\ First(front \o (body \o back), NonceSize(cipher)) = front
      /\ From(front \o (body \o back), NonceSize(cipher)) = body \o back
      /\ AllButLast(body \o back, TagSize) = body
  <2>1. /\ First(front \o (body \o back), Len(front)) = front
        /\ From(front \o (body \o back), Len(front)) = body \o back
    BY <1>2, <1>3, SlicesCut
  <2>2. AllButLast(body \o back, Len(back)) = body
    BY <1>2, SlicesCut
  <2> QED BY <1>2, <2>1, <2>2
<1>5. Last(front \o body \o back, TagSize) = back
  <2>1. front \o body \in Seq(Tokens)
    BY <1>2, ConcatProperties
  <2>2. Last((front \o body) \o back, Len(back)) = back
    BY <1>2, <2>1, SlicesCut
  <2> QED BY <1>2, <2>2
<1>6. Seal(cipher, n) = [nonce |-> front, text |-> body, tag |-> back]
  BY <1>1 DEF Seal
<1>7. Joined(Seal(cipher, n)) = front \o body \o back
  BY <1>6 DEF Joined
<1> QED BY <1>3, <1>4, <1>5, <1>6, <1>7 DEF Split

\* A sealing opens with a key of a size that its cipher takes.
LEMMA SealOpens ==
  ASSUME NEW cipher, NEW n \in Nat, NEW keySize \in KeySizes(cipher)
  PROVE  /\ Open(cipher, keySize, Seal(cipher, n)) = Opened(n)
         /\ DecryptBin(cipher, keySize, Joined(Seal(cipher, n))) = Opened(n)
<1>1. Len(Seal(cipher, n).text) = n
  BY PartsAreBytes DEF Seal
<1> QED BY <1>1, JoinedSplits DEF Open, DecryptBin

\* decrypt_from_json on an object with the tag apart, and with the tag at the
\* end of the ciphertext.
LEMMA JsonOpens ==
  ASSUME NEW cipher, NEW n \in Nat, NEW keySize \in KeySizes(cipher), NEW e \in Encodings,
         EncryptBin(cipher, keySize, n) = [frame |-> Joined(Seal(cipher, n))]
  PROVE  /\ DecryptFromJson(cipher, keySize, e, EncryptAsJson(cipher, keySize, e, n)) = Opened(n)
         /\ DecryptFromJson(cipher, keySize, e, WebCrypto(cipher, e, n)) = Opened(n)
<1>1. PICK parts : parts = Seal(cipher, n)
  OBVIOUS
<1>2. /\ parts.text \in Seq(Tokens) /\ parts.tag \in Seq(Tokens) /\ Len(parts.tag) = TagSize
      /\ parts = [nonce |-> parts.nonce, text |-> parts.text, tag |-> parts.tag]
  BY <1>1, PartsAreBytes DEF Seal, TagSize
<1>3. DecryptBin(cipher, keySize, Joined(parts)) = Opened(n)
  BY <1>1, SealOpens
<1>4. \A bytes : Decoded(e, Encoded(e, bytes)) = bytes
  BY DEF Decoded, Encoded
<1>5. DecryptFromJson(cipher, keySize, e, EncryptAsJson(cipher, keySize, e, n)) = Opened(n)
  <2>1. PICK json : json = EncryptAsJson(cipher, keySize, e, n)
    OBVIOUS
  <2>2. json = [part \in {"nonce", "text", "tag"} |-> Encoded(e, parts[part])]
    BY <1>1, <2>1, JoinedSplits DEF EncryptAsJson
  <2>3. /\ "tag" \in DOMAIN json
        /\ Decoded(e, json.nonce) = parts.nonce
        /\ Decoded(e, json.text) = parts.text
        /\ Decoded(e, json.tag) = parts.tag
    BY <1>4, <2>2
  <2>4. DecryptFromJson(cipher, keySize, e, json) = DecryptBin(cipher, keySize, Joined(parts))
    BY <1>2, <2>3 DEF DecryptFromJson
  <2> QED BY <1>3, <2>1, <2>4
<1>6. DecryptFromJson(cipher, keySize, e, WebCrypto(cipher, e, n)) = Opened(n)
  <2>1. PICK json : json = WebCrypto(cipher, e, n)
    OBVIOUS
  <2>2. json = [nonce |-> Encoded(e, parts.nonce), text |-> Encoded(e, parts.text \o parts.tag)]
    BY <1>1, <2>1 DEF WebCrypto
  <2>3. /\ "tag" \notin DOMAIN json
        /\ Decoded(e, json.nonce) = parts.nonce
        /\ Decoded(e, json.text) = parts.text \o parts.tag
    BY <1>4, <2>2
  <2>4. /\ AllButLast(parts.text \o parts.tag, TagSize) = parts.text
        /\ Last(parts.text \o parts.tag, TagSize) = parts.tag
    BY <1>2, SlicesCut
  <2>5. DecryptFromJson(cipher, keySize, e, json) = DecryptBin(cipher, keySize, Joined(parts))
    BY <1>2, <2>3, <2>4 DEF DecryptFromJson
  <2> QED BY <1>3, <2>1, <2>5
<1> QED BY <1>5, <1>6

\* The hybrid envelope opens for the owner of the key and nobody else.
LEMMA HybridOpens ==
  ASSUME NEW n \in Nat, NEW us, NEW them
  PROVE  (HybridDecrypt(us, HybridEncrypt(them, n)) = Opened(n)) <=> us = them
<1>1. Open("AES-GCM", 32, Seal("AES-GCM", n)) = Opened(n)
  BY SealOpens DEF KeySizes
<1>2. Failure("decrypt_RSA") # Opened(n)
  BY DEF Failure, Opened
<1> QED BY <1>1, <1>2 DEF HybridEncrypt, HybridDecrypt

\* What one end seals the other opens, for every cipher, every encoding and every
\* key size the cipher takes, and for plaintexts of every length, the empty one included.
THEOREM SealedAlwaysOpens == SealedFramesOpen
<1> SUFFICES ASSUME NEW n \in 0 .. MaxText, NEW cpuSupportsAES \in BOOLEAN, NEW i \in 1 .. 2,
                    NEW cipher, cipher = OptimalCiphers(cpuSupportsAES)[i]
             PROVE
    /\ \A keySize \in KeySizes(cipher) :
         /\ DecryptBin(cipher, keySize, EncryptBin(cipher, keySize, n).frame) = Opened(n)
         /\ \A e \in Encodings :
              /\ DecryptFromJson(cipher, keySize, e, EncryptAsJson(cipher, keySize, e, n))
                   = Opened(n)
              /\ DecryptFromJson(cipher, keySize, e, WebCrypto(cipher, e, n)) = Opened(n)
    /\ \A us, them \in {"us", "them"} :
         (HybridDecrypt(us, HybridEncrypt(them, n)) = Opened(n)) <=> us = them
  BY DEF SealedFramesOpen
<1>1. n \in Nat
  BY TextAssumption
<1>2. cipher \in Ciphers
  BY DEF OptimalCiphers, Ciphers
<1>3. ASSUME NEW keySize \in KeySizes(cipher)
      PROVE  EncryptBin(cipher, keySize, n) = [frame |-> Joined(Seal(cipher, n))]
  BY <1>2 DEF EncryptBin
<1>4. ASSUME NEW keySize \in KeySizes(cipher)
      PROVE  DecryptBin(cipher, keySize, EncryptBin(cipher, keySize, n).frame) = Opened(n)
  BY <1>1, <1>3, SealOpens
<1>5. ASSUME NEW keySize \in KeySizes(cipher), NEW e \in Encodings
      PROVE  /\ DecryptFromJson(cipher, keySize, e, EncryptAsJson(cipher, keySize, e, n))
                  = Opened(n)
             /\ DecryptFromJson(cipher, keySize, e, WebCrypto(cipher, e, n)) = Opened(n)
  BY <1>1, <1>3, JsonOpens
<1>6. \A us, them \in {"us", "them"} :
        (HybridDecrypt(us, HybridEncrypt(them, n)) = Opened(n)) <=> us = them
  BY <1>1, HybridOpens
<1> QED BY <1>4, <1>5, <1>6

\* The same as the run checks it.
THEOREM CiphersSane == Spec => []CiphersRoundTrip
<1>1. CiphersRoundTrip
  BY SealedAlwaysOpens DEF CiphersRoundTrip
<1> QED BY <1>1, PTL

-----------------------------------------------------------------------------
(* serialization.py *)

Bits == {0, 1}

\* A number read off no bits, and off the bits of a field.
LEMMA ReadNone == ASSUME NEW b, Len(b) = 0 PROVE ToUint(b) = 0
<1> DEFINE f == CHOOSE g : g = [n \in 0 .. 0 |-> IF n = 0 THEN 0 ELSE 2 * g[n - 1] + b[n]]
           w == [n \in 0 .. 0 |-> 0]
<1>1. w = [n \in 0 .. 0 |-> IF n = 0 THEN 0 ELSE 2 * w[n - 1] + b[n]]
  OBVIOUS
<1>2. f = [n \in 0 .. 0 |-> IF n = 0 THEN 0 ELSE 2 * f[n - 1] + b[n]]
  BY <1>1
<1> HIDE DEF f
<1>3. f[0] = 0
  BY <1>2
<1> QED BY <1>3 DEF ToUint, f

\* The numbers that the first two, three, ... bits spell.
Two(b) == 2 * b[1] + b[2]
Three(b) == 2 * Two(b) + b[3]
Four(b) == 2 * Three(b) + b[4]
Five(b) == 2 * Four(b) + b[5]
Six(b) == 2 * Five(b) + b[6]
Seven(b) == 2 * Six(b) + b[7]
Eight(b) == 2 * Seven(b) + b[8]

\* The number that the first n of at most eight bits spell, without recursion.
Value(b, n) ==
  CASE n = 0 -> 0
    [] n = 1 -> b[1]
    [] n = 2 -> Two(b)
    [] n = 3 -> Three(b)
    [] n = 4 -> Four(b)
    [] n = 5 -> Five(b)
    [] n = 6 -> Six(b)
    [] n = 7 -> Seven(b)
    [] n = 8 -> Eight(b)

\* ToUint reads a field of at most eight bits so.
LEMMA ReadField ==
  ASSUME NEW b \in Seq(Bits), NEW k \in 0 .. 8, k = Len(b)
  PROVE  ToUint(b) = Value(b, k)
<1> DEFINE f == CHOOSE g : g = [n \in 0 .. k |-> IF n = 0 THEN 0 ELSE 2 * g[n - 1] + b[n]]
           w == [n \in 0 .. k |-> Value(b, n)]
<1>1. \A i \in 1 .. k : b[i] \in Int
  BY DEF Bits
<1>2. \A n \in 1 .. k : Value(b, n) = 2 * Value(b, n - 1) + b[n]
  <2> SUFFICES ASSUME NEW n \in 1 .. k PROVE Value(b, n) = 2 * Value(b, n - 1) + b[n]
    OBVIOUS
  <2>1. CASE n = 1
    <3>1. Value(b, 1) = 2 * Value(b, 0) + b[1]
      BY <1>1, <2>1 DEF Value
    <3> QED BY <2>1, <3>1
  <2>2. CASE n = 2
    <3>1. Value(b, 2) = 2 * Value(b, 1) + b[2]
      BY <1>1, <2>2 DEF Value, Two
    <3> QED BY <2>2, <3>1
  <2>3. CASE n = 3
    <3>1. Value(b, 3) = 2 * Value(b, 2) + b[3]
      BY <1>1, <2>3 DEF Value, Three
    <3> QED BY <2>3, <3>1
  <2>4. CASE n = 4
    <3>1. Value(b, 4) = 2 * Value(b, 3) + b[4]
      BY <1>1, <2>4 DEF Value, Four
    <3> QED BY <2>4, <3>1
  <2>5. CASE n = 5
    <3>1. Value(b, 5) = 2 * Value(b, 4) + b[5]
      BY <1>1, <2>5 DEF Value, Five
    <3> QED BY <2>5, <3>1
  <2>6. CASE n = 6
    <3>1. Value(b, 6) = 2 * Value(b, 5) + b[6]
      BY <1>1, <2>6 DEF Value, Six
    <3> QED BY <2>6, <3>1
  <2>7. CASE n = 7
    <3>1. Value(b, 7) = 2 * Value(b, 6) + b[7]
      BY <1>1, <2>7 DEF Value, Seven
    <3> QED BY <2>7, <3>1
  <2>8. CASE n = 8
    <3>1. Value(b, 8) = 2 * Value(b, 7) + b[8]
      BY <1>1, <2>8 DEF Value, Eight
    <3> QED BY <2>8, <3>1
  <2> QED BY <2>1, <2>2, <2>3, <2>4, <2>5, <2>6, <2>7, <2>8
<1>3. w = [n \in 0 .. k |-> IF n = 0 THEN 0 ELSE 2 * w[n - 1] + b[n]]
  <2>1. \A n \in 0 .. k : Value(b, n) = IF n = 0 THEN 0 ELSE 2 * w[n - 1] + b[n]
    <3> TAKE n \in 0 .. k
    <3>1. CASE n = 0 BY <3>1 DEF Value
    <3>2. CASE n # 0
      <4>1. n \in 1 .. k /\ n - 1 \in 0 .. k
        BY <3>2
      <4>2. w[n - 1] = Value(b, n - 1)
        BY <4>1
      <4> QED BY <1>2, <3>2, <4>1, <4>2
    <3> QED BY <3>1, <3>2
  <2> QED BY <2>1
<1>4. f = [n \in 0 .. k |-> IF n = 0 THEN 0 ELSE 2 * f[n - 1] + b[n]]
  BY <1>3
<1> HIDE DEF f, w
<1>5. f[0] = Value(b, 0)
  BY <1>4 DEF Value
<1>6. \A n \in 1 .. k : f[n] = 2 * f[n - 1] + b[n]
  BY <1>4
<1>7. \A n \in 1 .. k : f[n - 1] = Value(b, n - 1) => f[n] = Value(b, n)
  BY <1>2, <1>6
<1>8. 1 <= k => f[1] = Value(b, 1)  BY <1>5, <1>7
<1>9. 2 <= k => f[2] = Value(b, 2)  BY <1>8, <1>7
<1>10. 3 <= k => f[3] = Value(b, 3)  BY <1>9, <1>7
<1>11. 4 <= k => f[4] = Value(b, 4)  BY <1>10, <1>7
<1>12. 5 <= k => f[5] = Value(b, 5)  BY <1>11, <1>7
<1>13. 6 <= k => f[6] = Value(b, 6)  BY <1>12, <1>7
<1>14. 7 <= k => f[7] = Value(b, 7)  BY <1>13, <1>7
<1>15. 8 <= k => f[8] = Value(b, 8)  BY <1>14, <1>7
<1>16. f[k] = Value(b, k)
  BY <1>5, <1>8, <1>9, <1>10, <1>11, <1>12, <1>13, <1>14, <1>15
<1>17. ToUint(b) = f[k]
  BY DEF ToUint, f
<1> QED BY <1>16, <1>17

\* The powers of two in a field of at most eight bits.
LEMMA Powers ==
  /\ 2 ^ 0 = 1 /\ 2 ^ 1 = 2 /\ 2 ^ 2 = 4 /\ 2 ^ 3 = 8
  /\ 2 ^ 4 = 16 /\ 2 ^ 5 = 32 /\ 2 ^ 6 = 64 /\ 2 ^ 7 = 128
OBVIOUS

\* A field of at most eight bits is as wide as it should be.
LEMMA UintIsBits ==
  ASSUME NEW v \in Nat, NEW k \in 0 .. 8
  PROVE  Uint(v, k) \in Seq(Bits) /\ Len(Uint(v, k)) = k
<1>1. ASSUME NEW i \in 1 .. k PROVE 2 ^ (k - i) \in Nat \ {0}
  <2>1. PICK d \in 0 .. 7 : d = k - i
    OBVIOUS
  <2>2. CASE d = 0
    <3>1. 2 ^ d = 1
      BY <2>2
    <3> QED BY <3>1, <2>1
  <2>3. CASE d = 1
    <3>1. 2 ^ d = 2
      BY <2>3
    <3> QED BY <3>1, <2>1
  <2>4. CASE d = 2
    <3>1. 2 ^ d = 4
      BY <2>4
    <3> QED BY <3>1, <2>1
  <2>5. CASE d = 3
    <3>1. 2 ^ d = 8
      BY <2>5
    <3> QED BY <3>1, <2>1
  <2>6. CASE d = 4
    <3>1. 2 ^ d = 16
      BY <2>6
    <3> QED BY <3>1, <2>1
  <2>7. CASE d = 5
    <3>1. 2 ^ d = 32
      BY <2>7
    <3> QED BY <3>1, <2>1
  <2>8. CASE d = 6
    <3>1. 2 ^ d = 64
      BY <2>8
    <3> QED BY <3>1, <2>1
  <2>9. CASE d = 7
    <3>1. 2 ^ d = 128
      BY <2>9
    <3> QED BY <3>1, <2>1
  <2> QED BY <2>2, <2>3, <2>4, <2>5, <2>6, <2>7, <2>8, <2>9
<1>2. \A d \in Nat \ {0} : (v \div d) % 2 \in {0, 1}
  OBVIOUS
<1>3. \A i \in 1 .. k : (v \div 2 ^ (k - i)) % 2 \in Bits
  BY <1>1, <1>2 DEF Bits
<1>4. k \in Nat
  OBVIOUS
<1> QED BY <1>3, <1>4 DEF Uint

\* A number that fits a field is read back from it.
LEMMA UintReadsBack ==
  /\ \A v \in 0 .. 15 : ToUint(Uint(v, 4)) = v
  /\ \A v \in 0 .. 31 : ToUint(Uint(v, 5)) = v
  /\ \A v \in 0 .. 255 : ToUint(Uint(v, 8)) = v
<1>1. ASSUME NEW v \in 0 .. 15 PROVE ToUint(Uint(v, 4)) = v
  <2> DEFINE b == Uint(v, 4)
  <2>1. b \in Seq(Bits) /\ Len(b) = 4
    <3>1. v \in Nat /\ 4 \in 0 .. 8
      OBVIOUS
    <3> QED BY <3>1, UintIsBits
  <2>2. /\ b[1] = (v \div 8) % 2 /\ b[2] = (v \div 4) % 2
        /\ b[3] = (v \div 2) % 2 /\ b[4] = v % 2
    <3>1. 2 ^ (4 - 1) = 8 /\ 2 ^ (4 - 2) = 4 /\ 2 ^ (4 - 3) = 2 /\ 2 ^ (4 - 4) = 1
      BY Powers
    <3>2. \A i \in 1 .. 4 : b[i] = (v \div 2 ^ (4 - i)) % 2
      BY DEF Uint
    <3>3. v \div 1 = v
      OBVIOUS
    <3> HIDE DEF b
    <3> QED BY <3>1, <3>2, <3>3
  <2> HIDE DEF b
  <2>3. ToUint(b) = Four(b)
    BY <2>1, ReadField DEF Value
  <2>4. Four(b) = v
    BY <2>2 DEF Four, Three, Two
  <2> QED BY <2>3, <2>4 DEF b
<1>2. ASSUME NEW v \in 0 .. 31 PROVE ToUint(Uint(v, 5)) = v
  <2> DEFINE b == Uint(v, 5)
  <2>1. b \in Seq(Bits) /\ Len(b) = 5
    <3>1. v \in Nat /\ 5 \in 0 .. 8
      OBVIOUS
    <3> QED BY <3>1, UintIsBits
  <2>2. /\ b[1] = (v \div 16) % 2 /\ b[2] = (v \div 8) % 2 /\ b[3] = (v \div 4) % 2
        /\ b[4] = (v \div 2) % 2 /\ b[5] = v % 2
    <3>1. 2 ^ (5 - 1) = 16 /\ 2 ^ (5 - 2) = 8 /\ 2 ^ (5 - 3) = 4 /\ 2 ^ (5 - 4) = 2 /\ 2 ^ (5 - 5) = 1
      BY Powers
    <3>2. \A i \in 1 .. 5 : b[i] = (v \div 2 ^ (5 - i)) % 2
      BY DEF Uint
    <3>3. v \div 1 = v
      OBVIOUS
    <3> HIDE DEF b
    <3> QED BY <3>1, <3>2, <3>3
  <2> HIDE DEF b
  <2>3. ToUint(b) = Five(b)
    BY <2>1, ReadField DEF Value
  <2>4. Five(b) = v
    BY <2>2 DEF Five, Four, Three, Two
  <2> QED BY <2>3, <2>4 DEF b
<1>3. ASSUME NEW v \in 0 .. 255 PROVE ToUint(Uint(v, 8)) = v
  <2> DEFINE b == Uint(v, 8)
  <2>1. b \in Seq(Bits) /\ Len(b) = 8
    <3>1. v \in Nat /\ 8 \in 0 .. 8
      OBVIOUS
    <3> QED BY <3>1, UintIsBits
  <2>2. /\ b[1] = (v \div 128) % 2 /\ b[2] = (v \div 64) % 2 /\ b[3] = (v \div 32) % 2
        /\ b[4] = (v \div 16) % 2 /\ b[5] = (v \div 8) % 2 /\ b[6] = (v \div 4) % 2
        /\ b[7] = (v \div 2) % 2 /\ b[8] = v % 2
    <3>1. 2 ^ (8 - 1) = 128 /\ 2 ^ (8 - 2) = 64 /\ 2 ^ (8 - 3) = 32 /\ 2 ^ (8 - 4) = 16 /\ 2 ^ (8 - 5) = 8 /\ 2 ^ (8 - 6) = 4 /\ 2 ^ (8 - 7) = 2 /\ 2 ^ (8 - 8) = 1
      BY Powers
    <3>2. \A i \in 1 .. 8 : b[i] = (v \div 2 ^ (8 - i)) % 2
      BY DEF Uint
    <3>3. v \div 1 = v
      OBVIOUS
    <3> HIDE DEF b
    <3> QED BY <3>1, <3>2, <3>3
  <2> HIDE DEF b
  <2>3. ToUint(b) = Eight(b)
    BY <2>1, ReadField DEF Value
  <2>4. Eight(b) = v
    BY <2>2 DEF Eight, Seven, Six, Five, Four, Three, Two
  <2> QED BY <2>3, <2>4 DEF b
<1> QED BY <1>1, <1>2, <1>3

\* The field of a byte.
LEMMA EightBits ==
  ASSUME NEW byte \in Octets
  PROVE  /\ Uint(byte, 8) \in Seq(Bits) /\ Len(Uint(byte, 8)) = 8
         /\ ToUint(Uint(byte, 8)) = byte
<1>1. byte \in 0 .. 255 /\ byte \in Nat /\ 8 \in 0 .. 8
  BY DEF Octets
<1>2. Uint(byte, 8) \in Seq(Bits) /\ Len(Uint(byte, 8)) = 8
  BY <1>1, UintIsBits
<1>3. ToUint(Uint(byte, 8)) = byte
  BY <1>1, UintReadsBack
<1> QED BY <1>2, <1>3

\* Bytes become whole groups of eight bits, from which they are read back.
LEMMA ToBitsIsBits ==
  ASSUME NEW bytes \in Seq(Octets)
  PROVE  ToBits(bytes) \in Seq(Bits) /\ Len(ToBits(bytes)) = 8 * Len(bytes)
<1>1. Len(bytes) \in Nat /\ 8 * Len(bytes) \in Nat
  OBVIOUS
<1>2. ASSUME NEW i \in 1 .. 8 * Len(bytes)
      PROVE  Uint(bytes[(i + 7) \div 8], 8)[((i + 7) % 8) + 1] \in Bits
  <2>1. (i + 7) \div 8 \in 1 .. Len(bytes) /\ ((i + 7) % 8) + 1 \in 1 .. 8
    BY <1>1
  <2>2. bytes[(i + 7) \div 8] \in Octets
    BY <2>1
  <2>3. /\ Uint(bytes[(i + 7) \div 8], 8) \in Seq(Bits)
        /\ Len(Uint(bytes[(i + 7) \div 8], 8)) = 8
    BY <2>2, EightBits
  <2> QED BY <2>1, <2>3
<1> QED BY <1>1, <1>2 DEF ToBits

\* The bits of whole bytes give the bytes back.
LEMMA BytesReadBack ==
  ASSUME NEW bytes \in Seq(Octets)
  PROVE  ToBytes(ToBits(bytes)) = bytes
<1> DEFINE bits == ToBits(bytes)
<1>1. Len(bytes) \in Nat /\ bits \in Seq(Bits) /\ Len(bits) = 8 * Len(bytes)
  BY ToBitsIsBits
<1>2. Len(bits) % 8 = 0 /\ Len(bits) \div 8 = Len(bytes)
  BY <1>1
<1>3. ASSUME NEW j \in 1 .. Len(bytes)
      PROVE  ToUint(SubSeq(bits, 8 * j - 7, 8 * j)) = bytes[j]
  <2> DEFINE group == SubSeq(bits, 8 * j - 7, 8 * j)
             field == Uint(bytes[j], 8)
  <2>1. bytes[j] \in Octets
    OBVIOUS
  <2>2. field \in Seq(Bits) /\ Len(field) = 8 /\ ToUint(field) = bytes[j]
    BY <2>1, EightBits
  <2>3. /\ 8 * j - 7 \in Int /\ 8 * j \in Int
        /\ 8 * j - 7 >= 1 /\ 8 * j <= Len(bits)
    BY <1>1
  <2>4. /\ group \in Seq(Bits) /\ Len(group) = 8
        /\ \A i \in 1 .. 8 : group[i] = bits[8 * j - 7 + i - 1]
    <3> HIDE DEF bits
    <3>1. \A i \in 8 * j - 7 .. 8 * j : bits[i] \in Bits
      BY <1>1, <2>3
    <3>2. /\ group \in Seq(Bits)
          /\ Len(group) = IF 8 * j - 7 <= 8 * j THEN 8 * j - (8 * j - 7) + 1 ELSE 0
          /\ \A i \in 1 .. 8 * j - (8 * j - 7) + 1 : group[i] = bits[8 * j - 7 + i - 1]
      BY <2>3, <3>1, SubSeqProperties
    <3>3. 8 * j - (8 * j - 7) + 1 = 8 /\ 8 * j - 7 <= 8 * j
      OBVIOUS
    <3> HIDE DEF group
    <3> QED BY <3>2, <3>3
  <2>5. ASSUME NEW i \in 1 .. 8 PROVE group[i] = field[i]
    <3>1. /\ 8 * j - 7 + i - 1 \in 1 .. 8 * Len(bytes)
          /\ (8 * j - 7 + i - 1 + 7) \div 8 = j
          /\ ((8 * j - 7 + i - 1 + 7) % 8) + 1 = i
      BY <1>1
    <3>2. bits[8 * j - 7 + i - 1]
          = Uint(bytes[(8 * j - 7 + i - 1 + 7) \div 8], 8)[((8 * j - 7 + i - 1 + 7) % 8) + 1]
      BY <3>1 DEF ToBits
    <3> QED BY <2>4, <3>1, <3>2
  <2> HIDE DEF group, field
  <2>6. group = field
    BY <2>2, <2>4, <2>5, SeqEqual
  <2> QED BY <2>2, <2>6 DEF group
<1>4. ToBytes(bits) = [j \in 1 .. Len(bytes) |-> bytes[j]]
  BY <1>2, <1>3 DEF ToBytes
<1> QED BY <1>1, <1>4

-----------------------------------------------------------------------------
\* A slice that ends before the last part of a concatenation, and the last part.
LEMMA BeforeTheEnd ==
  ASSUME NEW S, NEW a \in Seq(S), NEW b \in Seq(S),
         NEW i \in Nat \ {0}, NEW j \in Nat, j <= Len(a)
  PROVE  SubSeq(a \o b, i, j) = SubSeq(a, i, j)
<1>1. Len(a) \in Nat /\ Len(b) \in Nat
  OBVIOUS
<1>2. CASE i <= j
  <2>1. i \in 1 .. Len(a) /\ j \in 1 .. Len(a)
    BY <1>1, <1>2
  <2> QED BY <2>1, SubSeqOfConcat1
<1>3. CASE ~(i <= j)
  <2>1. i > j /\ i \in Int /\ j \in Int
    BY <1>3
  <2>2. \A s : i > j => SubSeq(s, i, j) = << >>
    BY <2>1
  <2> QED BY <2>1, <2>2
<1> QED BY <1>2, <1>3

\* Three parts that follow each other: the middle one is cut out at its place.
LEMMA MiddlePart ==
  ASSUME NEW S, NEW a \in Seq(S), NEW b \in Seq(S), NEW c \in Seq(S),
         NEW i, NEW j, i = Len(a) + 1, j = Len(a) + Len(b)
  PROVE  SubSeq((a \o b) \o c, i, j) = b
<1>1. /\ Len(a) \in Nat /\ Len(b) \in Nat
      /\ a \o b \in Seq(S) /\ Len(a \o b) = Len(a) + Len(b)
  BY ConcatProperties
<1>2. SubSeq((a \o b) \o c, i, j) = SubSeq(a \o b, i, j)
  BY <1>1, BeforeTheEnd
<1> QED BY <1>2, CutWhereJoined

\* A concatenation of two parts is as long as both.
LEMMA Joining ==
  ASSUME NEW S, NEW a \in Seq(S), NEW b \in Seq(S)
  PROVE  /\ a \o b \in Seq(S) /\ Len(a \o b) = Len(a) + Len(b)
         /\ \A i \in 1 .. Len(a) : (a \o b)[i] = a[i]
         /\ \A i \in 1 .. Len(b) : (a \o b)[Len(a) + i] = b[i]
<1>1. Len(a) \in Nat /\ Len(b) \in Nat
  OBVIOUS
<1>2. /\ a \o b \in Seq(S) /\ Len(a \o b) = Len(a) + Len(b)
      /\ \A i \in 1 .. Len(a) + Len(b) :
           (a \o b)[i] = IF i <= Len(a) THEN a[i] ELSE b[i - Len(a)]
  BY ConcatProperties
<1> QED BY <1>1, <1>2

\* b begins with a.
Begins(a, b) ==
  /\ Len(a) <= Len(b)
  /\ \A i \in Nat \ {0}, j \in Nat : j <= Len(a) => SubSeq(b, i, j) = SubSeq(a, i, j)
  /\ \A i \in 1 .. Len(a) : b[i] = a[i]

\* A concatenation begins with its first part.
LEMMA BeginsWithFirst ==
  ASSUME NEW S, NEW a \in Seq(S), NEW b \in Seq(S)
  PROVE  Begins(a, a \o b)
<1>1. /\ Len(a) \in Nat /\ Len(b) \in Nat /\ Len(a \o b) = Len(a) + Len(b)
      /\ \A i \in 1 .. Len(a) : (a \o b)[i] = a[i]
  BY Joining
<1>2. \A i \in Nat \ {0}, j \in Nat : j <= Len(a) => SubSeq(a \o b, i, j) = SubSeq(a, i, j)
  BY BeforeTheEnd
<1> QED BY <1>1, <1>2 DEF Begins

\* The beginning of a beginning is a beginning.
LEMMA BeginsTransitive ==
  ASSUME NEW S, NEW a \in Seq(S), NEW b \in Seq(S), NEW c \in Seq(S),
         Begins(a, b), Begins(b, c)
  PROVE  Begins(a, c)
<1>1. Len(a) \in Nat /\ Len(b) \in Nat /\ Len(c) \in Nat /\ Len(a) <= Len(b) /\ Len(b) <= Len(c)
  BY DEF Begins
<1>2. ASSUME NEW i \in Nat \ {0}, NEW j \in Nat, j <= Len(a)
      PROVE  SubSeq(c, i, j) = SubSeq(a, i, j)
  <2>1. j <= Len(b)
    BY <1>1, <1>2
  <2> QED BY <1>2, <2>1 DEF Begins
<1>3. ASSUME NEW i \in 1 .. Len(a) PROVE c[i] = a[i]
  <2>1. i \in 1 .. Len(b)
    BY <1>1
  <2> QED BY <2>1 DEF Begins
<1> QED BY <1>1, <1>2, <1>3 DEF Begins

\* Where the first 1 of a frame is.
LEMMA FirstOne ==
  ASSUME NEW f \in Seq(Bits), NEW n \in DOMAIN f, f[n] = 1,
         \A i \in 1 .. n - 1 : f[i] = 0
  PROVE  (CHOOSE i \in DOMAIN f : f[i] = 1 /\ \A j \in 1 .. i - 1 : f[j] = 0) = n
<1>1. DOMAIN f = 1 .. Len(f) /\ Len(f) \in Nat
  OBVIOUS
<1>2. ASSUME NEW i \in DOMAIN f, f[i] = 1, \A j \in 1 .. i - 1 : f[j] = 0
      PROVE  i = n
  <2>1. i \in Int /\ n \in Int /\ i >= 1 /\ n >= 1
    BY <1>1
  <2>2. CASE i < n
    <3>1. i \in 1 .. n - 1
      BY <2>1, <2>2
    <3>2. f[i] = 0
      BY <3>1
    <3> QED BY <1>2, <3>2
  <2>3. CASE n < i
    <3>1. n \in 1 .. i - 1
      BY <2>1, <2>3
    <3>2. f[n] = 0
      BY <1>2, <3>1
    <3> QED BY <3>2
  <2> QED BY <2>1, <2>2, <2>3
<1> QED BY <1>2

\* The parts of a frame in their order: filler, start, version, type,
\* compression, metadata length, metadata, subtype and payload.
Parts(p, v, c, z, l, m, s, r) ==
  (((((((p \o << 1 >>) \o v) \o c) \o z) \o l) \o m) \o s) \o r

\* The parts of a frame after its filler and its start.
AllBits(v, c, z, l, m, s, r) ==
  /\ v \in Seq(Bits) /\ c \in Seq(Bits) /\ z \in Seq(Bits) /\ l \in Seq(Bits)
  /\ m \in Seq(Bits) /\ s \in Seq(Bits) /\ r \in Seq(Bits)

\* Parts that say of each other how long they are.
Fitting(p, v, c, z, l, m, s) ==
  /\ \A i \in 1 .. Len(p) : p[i] = 0
  /\ Len(v) = 1 + 8 * v[1] /\ Len(v) >= 1
  /\ Len(c) = 5 /\ Len(z) = 1 /\ Len(l) = 8
  /\ ToUint(l) \in Nat /\ Len(m) = 8 * ToUint(l)
  /\ Len(s) = IF ToUint(c) = 12 THEN 4 ELSE 0

\* Decode finds every part of such a frame, whatever the filler before it.
LEMMA DecodeFindsParts ==
  ASSUME NEW p, NEW v, NEW c, NEW z, NEW l, NEW m, NEW s, NEW r,
         p \in Seq(Bits), AllBits(v, c, z, l, m, s, r), Fitting(p, v, c, z, l, m, s)
  PROVE  Decode(Parts(p, v, c, z, l, m, s, r))
           = [type |-> Types[ToUint(c) + 1], compressed |-> z[1] = 1, meta |-> ToBytes(m),
              binType |-> ToUint(s), payload |-> ToBytes(r)]
<1> SUFFICES ASSUME v \in Seq(Bits), c \in Seq(Bits), z \in Seq(Bits), l \in Seq(Bits),
                    m \in Seq(Bits), s \in Seq(Bits), r \in Seq(Bits)
             PROVE  Decode(Parts(p, v, c, z, l, m, s, r))
                      = [type |-> Types[ToUint(c) + 1], compressed |-> z[1] = 1,
                         meta |-> ToBytes(m), binType |-> ToUint(s), payload |-> ToBytes(r)]
  BY DEF AllBits
<1> DEFINE f1 == p \o << 1 >>
           f2 == f1 \o v
           f3 == f2 \o c
           f4 == f3 \o z
           f5 == f4 \o l
           f6 == f5 \o m
           f7 == f6 \o s
           f8 == f7 \o r
           f == Parts(p, v, c, z, l, m, s, r)
<1>1. f = f8
  BY DEF Parts
<1>2. << 1 >> \in Seq(Bits) /\ Len(<< 1 >>) = 1
  BY DEF Bits
<1>3. f1 \in Seq(Bits) /\ Len(f1) = Len(p) + 1
  BY <1>2, Joining
<1>4. f2 \in Seq(Bits) /\ Len(f2) = Len(f1) + Len(v)
  <2> HIDE DEF f1
  <2> QED BY <1>3, Joining
<1>5. f3 \in Seq(Bits) /\ Len(f3) = Len(f2) + Len(c)
  <2> HIDE DEF f2
  <2> QED BY <1>4, Joining
<1>6. f4 \in Seq(Bits) /\ Len(f4) = Len(f3) + Len(z)
  <2> HIDE DEF f3
  <2> QED BY <1>5, Joining
<1>7. f5 \in Seq(Bits) /\ Len(f5) = Len(f4) + Len(l)
  <2> HIDE DEF f4
  <2> QED BY <1>6, Joining
<1>8. f6 \in Seq(Bits) /\ Len(f6) = Len(f5) + Len(m)
  <2> HIDE DEF f5
  <2> QED BY <1>7, Joining
<1>9. f7 \in Seq(Bits) /\ Len(f7) = Len(f6) + Len(s)
  <2> HIDE DEF f6
  <2> QED BY <1>8, Joining
<1>10. f8 \in Seq(Bits) /\ Len(f8) = Len(f7) + Len(r)
  <2> HIDE DEF f7
  <2> QED BY <1>9, Joining
<1>11. Begins(f1, f2)
  <2> HIDE DEF f1
  <2> QED BY <1>3, BeginsWithFirst
<1>12. Begins(f2, f3)
  <2> HIDE DEF f2
  <2> QED BY <1>4, BeginsWithFirst
<1>13. Begins(f3, f4)
  <2> HIDE DEF f3
  <2> QED BY <1>5, BeginsWithFirst
<1>14. Begins(f4, f5)
  <2> HIDE DEF f4
  <2> QED BY <1>6, BeginsWithFirst
<1>15. Begins(f5, f6)
  <2> HIDE DEF f5
  <2> QED BY <1>7, BeginsWithFirst
<1>16. Begins(f6, f7)
  <2> HIDE DEF f6
  <2> QED BY <1>8, BeginsWithFirst
<1>17. Begins(f7, f8)
  <2> HIDE DEF f7
  <2> QED BY <1>9, BeginsWithFirst
<1>18. /\ Begins(f7, f8) /\ Begins(f6, f8) /\ Begins(f5, f8) /\ Begins(f4, f8)
       /\ Begins(f3, f8) /\ Begins(f2, f8) /\ Begins(f1, f8)
  <2> HIDE DEF f1, f2, f3, f4, f5, f6, f7, f8
  <2>0. /\ f1 \in Seq(Bits) /\ f2 \in Seq(Bits) /\ f3 \in Seq(Bits) /\ f4 \in Seq(Bits)
        /\ f5 \in Seq(Bits) /\ f6 \in Seq(Bits) /\ f7 \in Seq(Bits) /\ f8 \in Seq(Bits)
    BY <1>3, <1>4, <1>5, <1>6, <1>7, <1>8, <1>9, <1>10
  <2>1. Begins(f6, f8)  BY <2>0, <1>16, <1>17, BeginsTransitive
  <2>2. Begins(f5, f8)  BY <2>0, <1>15, <2>1, BeginsTransitive
  <2>3. Begins(f4, f8)  BY <2>0, <1>14, <2>2, BeginsTransitive
  <2>4. Begins(f3, f8)  BY <2>0, <1>13, <2>3, BeginsTransitive
  <2>5. Begins(f2, f8)  BY <2>0, <1>12, <2>4, BeginsTransitive
  <2>6. Begins(f1, f8)  BY <2>0, <1>11, <2>5, BeginsTransitive
  <2> QED BY <1>17, <2>1, <2>2, <2>3, <2>4, <2>5, <2>6
<1>21. SubSeq(f3, Len(f2) + 1, Len(f2) + Len(c)) = c
  <2> HIDE DEF f2
  <2> QED BY <1>4, CutWhereJoined
<1>22. SubSeq(f5, Len(f4) + 1, Len(f4) + Len(l)) = l
  <2> HIDE DEF f4
  <2> QED BY <1>6, CutWhereJoined
<1>23. SubSeq(f6, Len(f5) + 1, Len(f5) + Len(m)) = m
  <2> HIDE DEF f5
  <2> QED BY <1>7, CutWhereJoined
<1>24. SubSeq(f7, Len(f6) + 1, Len(f6) + Len(s)) = s
  <2> HIDE DEF f6
  <2> QED BY <1>8, CutWhereJoined
<1>25. SubSeq(f8, Len(f7) + 1, Len(f7) + Len(r)) = r
  <2> HIDE DEF f7
  <2> QED BY <1>9, CutWhereJoined
<1>26. /\ \A i \in 1 .. Len(p) : f1[i] = p[i]
       /\ f1[Len(p) + 1] = 1
  BY <1>2, Joining
<1>27. f2[Len(f1) + 1] = v[1]
  <2>1. 1 \in 1 .. Len(v)
    BY DEF Fitting
  <2> HIDE DEF f1
  <2> QED BY <1>3, <2>1, Joining
<1>28. f4[Len(f3) + 1] = z[1]
  <2>1. 1 \in 1 .. Len(z)
    BY DEF Fitting
  <2> HIDE DEF f3
  <2> QED BY <1>5, <2>1, Joining
<1> HIDE DEF f1, f2, f3, f4, f5, f6, f7, f8
<1>29. /\ Len(p) \in Nat /\ Len(v) \in Nat /\ Len(r) \in Nat /\ Len(s) \in Nat
       /\ Len(m) \in Nat
  OBVIOUS
<1>30. v[1] \in {0, 1}
  <2>1. 1 \in 1 .. Len(v)
    BY DEF Fitting
  <2> QED BY <2>1 DEF Bits
<1>31. /\ Len(f1) = Len(p) + 1
       /\ Len(f2) = Len(f1) + 1 + 8 * v[1]
       /\ Len(f3) = Len(f2) + 5
       /\ Len(f4) = Len(f2) + 6
       /\ Len(f5) = Len(f2) + 14
       /\ Len(f6) = Len(f5) + 8 * ToUint(l)
       /\ Len(f7) = Len(f6) + IF ToUint(c) = 12 THEN 4 ELSE 0
       /\ Len(f8) = Len(f7) + Len(r)
       /\ ToUint(l) \in Nat
  <2>1. /\ Len(v) = 1 + 8 * v[1] /\ Len(c) = 5 /\ Len(z) = 1 /\ Len(l) = 8
        /\ ToUint(l) \in Nat /\ Len(m) = 8 * ToUint(l)
        /\ Len(s) = IF ToUint(c) = 12 THEN 4 ELSE 0
    BY DEF Fitting
  <2>7. Len(f1) = Len(p) + 1 /\ Len(f1) \in Nat
    BY <1>3, <1>29
  <2>2. Len(f1) = Len(p) + 1 /\ Len(f2) = Len(f1) + 1 + 8 * v[1]
    <3>1. CASE v[1] = 0
      <4>1. Len(v) = 1
        BY <2>1, <3>1
      <4> QED BY <1>4, <2>7, <3>1, <4>1
    <3>2. CASE v[1] = 1
      <4>1. Len(v) = 9
        BY <2>1, <3>2
      <4> QED BY <1>4, <2>7, <3>2, <4>1
    <3> QED BY <1>30, <3>1, <3>2
  <2>3. Len(f2) \in Nat
    BY <1>4
  <2>4. Len(f3) = Len(f2) + 5 /\ Len(f4) = Len(f2) + 6 /\ Len(f5) = Len(f2) + 14
    BY <1>5, <1>6, <1>7, <2>1, <2>3
  <2>5. Len(f6) = Len(f5) + 8 * ToUint(l)
    BY <1>8, <2>1
  <2>6. Len(f7) = Len(f6) + IF ToUint(c) = 12 THEN 4 ELSE 0
    BY <1>9, <2>1
  <2> QED BY <1>10, <2>1, <2>2, <2>4, <2>5, <2>6
<1> DEFINE n1 == Len(f1)
           n2 == Len(f2)
           u == ToUint(l)
           t == IF ToUint(c) = 12 THEN 4 ELSE 0
<1>32. /\ n1 \in Nat /\ n2 \in Nat /\ u \in Nat /\ t \in Nat
       /\ n1 = Len(p) + 1 /\ n2 = n1 + 1 + 8 * v[1]
  BY <1>29, <1>30, <1>31
<1>33. /\ SubSeq(f8, n2 + 1, n2 + 5) = c
       /\ f8[n2 + 6] = z[1]
       /\ SubSeq(f8, n2 + 7, n2 + 14) = l
       /\ SubSeq(f8, n2 + 15, n2 + 14 + 8 * u) = m
       /\ SubSeq(f8, n2 + 15 + 8 * u, n2 + 14 + 8 * u + t) = s
       /\ SubSeq(f8, n2 + 15 + 8 * u + t, Len(f8)) = r
  <2>1. /\ Len(f3) = n2 + 5 /\ Len(f4) = n2 + 6 /\ Len(f5) = n2 + 14
        /\ Len(f6) = n2 + 14 + 8 * u /\ Len(f7) = n2 + 14 + 8 * u + t
        /\ Len(f8) = Len(f7) + Len(r)
    BY <1>31
  <2>2. Len(c) = 5 /\ Len(l) = 8 /\ Len(m) = 8 * u /\ Len(s) = t
    BY DEF Fitting
  <2>3. n2 \in Nat /\ u \in Nat /\ t \in Nat
    BY <1>32
  <2> HIDE DEF n1, n2, u, t
  <2>4. SubSeq(f8, n2 + 1, n2 + 5) = c
    <3>1. SubSeq(f3, n2 + 1, n2 + 5) = c
      BY <1>21, <2>2 DEF n2
    <3>2. n2 + 1 \in Nat \ {0} /\ n2 + 5 \in Nat /\ n2 + 5 <= Len(f3)
      BY <2>1, <2>3
    <3> QED BY <1>18, <3>1, <3>2 DEF Begins
  <2>5. f8[n2 + 6] = z[1]
    <3>1. f4[n2 + 6] = z[1]
      BY <1>28, <2>1, <2>3
    <3>2. n2 + 6 \in 1 .. Len(f4)
      BY <2>1, <2>3
    <3> QED BY <1>18, <3>1, <3>2 DEF Begins
  <2>6. SubSeq(f8, n2 + 7, n2 + 14) = l
    <3>1. Len(f4) + 1 = n2 + 7 /\ Len(f4) + Len(l) = n2 + 14
      BY <2>1, <2>2, <2>3
    <3>2. n2 + 7 \in Nat \ {0} /\ n2 + 14 \in Nat /\ n2 + 14 <= Len(f5)
      BY <2>1, <2>3
    <3>3. SubSeq(f5, n2 + 7, n2 + 14) = l
      BY <1>22, <3>1
    <3> QED BY <1>18, <3>2, <3>3 DEF Begins
  <2>7. SubSeq(f8, n2 + 15, n2 + 14 + 8 * u) = m
    <3>1. Len(f5) + 1 = n2 + 15 /\ Len(f5) + Len(m) = n2 + 14 + 8 * u
      BY <2>1, <2>2, <2>3
    <3>2. n2 + 15 \in Nat \ {0} /\ n2 + 14 + 8 * u \in Nat /\ n2 + 14 + 8 * u <= Len(f6)
      BY <2>1, <2>3
    <3>3. SubSeq(f6, n2 + 15, n2 + 14 + 8 * u) = m
      BY <1>23, <3>1
    <3> QED BY <1>18, <3>2, <3>3 DEF Begins
  <2>8. SubSeq(f8, n2 + 15 + 8 * u, n2 + 14 + 8 * u + t) = s
    <3>1. Len(f6) + 1 = n2 + 15 + 8 * u /\ Len(f6) + Len(s) = n2 + 14 + 8 * u + t
      BY <2>1, <2>2, <2>3
    <3>2. /\ n2 + 15 + 8 * u \in Nat \ {0} /\ n2 + 14 + 8 * u + t \in Nat
          /\ n2 + 14 + 8 * u + t <= Len(f7)
      BY <2>1, <2>3
    <3>3. SubSeq(f7, n2 + 15 + 8 * u, n2 + 14 + 8 * u + t) = s
      BY <1>24, <3>1
    <3> QED BY <1>18, <3>2, <3>3 DEF Begins
  <2>9. SubSeq(f8, n2 + 15 + 8 * u + t, Len(f8)) = r
    <3>1. Len(f7) + 1 = n2 + 15 + 8 * u + t
      BY <2>1, <2>3
    <3> QED BY <1>25, <2>1, <3>1
  <2> QED BY <2>4, <2>5, <2>6, <2>7, <2>8, <2>9
<1>34. /\ n1 \in DOMAIN f8 /\ f8[n1] = 1 /\ f8[n1 + 1] = v[1]
       /\ \A i \in 1 .. n1 - 1 : f8[i] = 0
  <2>1. n1 \in 1 .. Len(f1) /\ n1 + 1 \in 1 .. Len(f2) /\ n1 = Len(p) + 1
    BY <1>30, <1>32
  <2>2. Len(f1) <= Len(f8) /\ DOMAIN f8 = 1 .. Len(f8)
    BY <1>10, <1>18 DEF Begins
  <2>3. n1 \in DOMAIN f8
    BY <1>10, <1>32, <2>1, <2>2
  <2>4. f8[n1] = 1
    BY <1>18, <1>26, <2>1 DEF Begins
  <2>5. f8[n1 + 1] = v[1]
    BY <1>18, <1>27, <2>1 DEF Begins
  <2>6. ASSUME NEW i \in 1 .. n1 - 1 PROVE f8[i] = 0
    <3>1. i \in 1 .. Len(p) /\ i \in 1 .. Len(f1)
      BY <1>32
    <3>2. p[i] = 0
      BY <3>1 DEF Fitting
    <3> QED BY <1>18, <1>26, <3>1, <3>2 DEF Begins
  <2> QED BY <2>3, <2>4, <2>5, <2>6
<1> HIDE DEF n1, n2, u, t
<1>35. (CHOOSE i \in DOMAIN f8 : f8[i] = 1 /\ \A j \in 1 .. i - 1 : f8[j] = 0) = n1
  BY <1>10, <1>32, <1>34, FirstOne
<1>36. Decode(f8) = [type |-> Types[ToUint(c) + 1], compressed |-> z[1] = 1, meta |-> ToBytes(m),
                     binType |-> ToUint(s), payload |-> ToBytes(r)]
  <2> DEFINE type == n1 + 2 + 8 * f8[n1 + 1]
             meta == type + 14
             body == meta + 8 * ToUint(SubSeq(f8, type + 6, type + 13))
             payload == body + IF ToUint(SubSeq(f8, type, type + 4)) = 12 THEN 4 ELSE 0
  <2>1. Decode(f8) = [type |-> Types[ToUint(SubSeq(f8, type, type + 4)) + 1],
                      compressed |-> f8[type + 5] = 1,
                      meta |-> ToBytes(SubSeq(f8, meta, body - 1)),
                      binType |-> ToUint(SubSeq(f8, body, payload - 1)),
                      payload |-> ToBytes(SubSeq(f8, payload, Len(f8)))]
    BY <1>35 DEF Decode
  <2>7. n2 \in Nat /\ u \in Nat /\ t \in Nat
    BY <1>32
  <2>2. type = n2 + 1
    <3>1. type = n1 + 2 + 8 * v[1]
      BY <1>34
    <3> HIDE DEF type
    <3>2. CASE v[1] = 0
      BY <1>32, <3>1, <3>2
    <3>3. CASE v[1] = 1
      BY <1>32, <3>1, <3>3
    <3> QED BY <1>30, <3>2, <3>3
  <2>3. /\ type + 4 = n2 + 5 /\ type + 5 = n2 + 6 /\ type + 6 = n2 + 7
        /\ type + 13 = n2 + 14 /\ meta = n2 + 15
    <3> HIDE DEF type
    <3> QED BY <2>7, <2>2
  <2> HIDE DEF type, meta
  <2>4. ToUint(SubSeq(f8, type, type + 4)) = ToUint(c) /\ body = meta + 8 * u
    BY <1>33, <2>2, <2>3 DEF u
  <2>5. payload = body + t
    BY <2>4 DEF t
  <2> HIDE DEF body, payload
  <2>6. /\ body = n2 + 15 + 8 * u /\ body - 1 = n2 + 14 + 8 * u
        /\ payload = n2 + 15 + 8 * u + t /\ payload - 1 = n2 + 14 + 8 * u + t
    BY <2>7, <2>3, <2>4, <2>5
  <2> QED BY <1>33, <2>1, <2>3, <2>4, <2>6
<1> QED BY <1>1, <1>36

-----------------------------------------------------------------------------
\* Concatenation is associative.
LEMMA Regroup ==
  ASSUME NEW a \in Seq(Bits), NEW b \in Seq(Bits), NEW c \in Seq(Bits)
  PROVE  a \o (b \o c) = (a \o b) \o c
BY ConcatAssociative

\* Bits joined to bits are bits.
LEMMA BitsJoined ==
  ASSUME NEW a \in Seq(Bits), NEW b \in Seq(Bits)
  PROVE  a \o b \in Seq(Bits)
BY Joining

\* The parts in the order in which Encode joins them, and the filler before them.
Unfilled(v, c, z, l, m, s, r) ==
  (((((<< 1 >> \o v) \o c) \o z) \o l) \o m) \o (s \o r)

\* Encode joins the parts in groups; the frame is the same.
LEMMA PartsJoined ==
  ASSUME NEW v, NEW c, NEW z, NEW l, NEW m, NEW s, NEW r, AllBits(v, c, z, l, m, s, r)
  PROVE  /\ Unfilled(v, c, z, l, m, s, r) \in Seq(Bits)
         /\ \A p \in Seq(Bits) :
              p \o Unfilled(v, c, z, l, m, s, r) = Parts(p, v, c, z, l, m, s, r)
<1> DEFINE g1 == << 1 >>
           g2 == g1 \o v
           g3 == g2 \o c
           g4 == g3 \o z
           g5 == g4 \o l
           g6 == g5 \o m
           g7 == g6 \o (s \o r)
<1>1. g1 \in Seq(Bits)
  BY DEF Bits
<1>2. g2 \in Seq(Bits) /\ \A p \in Seq(Bits) : p \o g2 = (p \o g1) \o v
  <2> HIDE DEF g1
  <2>1. g1 \in Seq(Bits) /\ v \in Seq(Bits)
    BY <1>1 DEF AllBits
  <2> QED BY <2>1, BitsJoined, Regroup
<1>3. g3 \in Seq(Bits) /\ \A p \in Seq(Bits) : p \o g3 = (p \o g2) \o c
  <2> HIDE DEF g2
  <2>1. g2 \in Seq(Bits) /\ c \in Seq(Bits)
    BY <1>2 DEF AllBits
  <2> QED BY <2>1, BitsJoined, Regroup
<1>4. g4 \in Seq(Bits) /\ \A p \in Seq(Bits) : p \o g4 = (p \o g3) \o z
  <2> HIDE DEF g3
  <2>1. g3 \in Seq(Bits) /\ z \in Seq(Bits)
    BY <1>3 DEF AllBits
  <2> QED BY <2>1, BitsJoined, Regroup
<1>5. g5 \in Seq(Bits) /\ \A p \in Seq(Bits) : p \o g5 = (p \o g4) \o l
  <2> HIDE DEF g4
  <2>1. g4 \in Seq(Bits) /\ l \in Seq(Bits)
    BY <1>4 DEF AllBits
  <2> QED BY <2>1, BitsJoined, Regroup
<1>6. g6 \in Seq(Bits) /\ \A p \in Seq(Bits) : p \o g6 = (p \o g5) \o m
  <2> HIDE DEF g5
  <2>1. g5 \in Seq(Bits) /\ m \in Seq(Bits)
    BY <1>5 DEF AllBits
  <2> QED BY <2>1, BitsJoined, Regroup
<1>7. g7 \in Seq(Bits) /\ \A p \in Seq(Bits) : p \o g7 = ((p \o g6) \o s) \o r
  <2> HIDE DEF g6
  <2>1. s \in Seq(Bits) /\ r \in Seq(Bits) /\ g6 \in Seq(Bits) /\ s \o r \in Seq(Bits)
    BY <1>6, BitsJoined DEF AllBits
  <2>2. g7 \in Seq(Bits)
    BY <2>1, BitsJoined
  <2>3. ASSUME NEW p \in Seq(Bits) PROVE p \o g7 = ((p \o g6) \o s) \o r
    <3>1. p \o g6 \in Seq(Bits)
      BY <2>1, BitsJoined
    <3>2. p \o (g6 \o (s \o r)) = (p \o g6) \o (s \o r)
      BY <2>1, Regroup
    <3>3. (p \o g6) \o (s \o r) = ((p \o g6) \o s) \o r
      BY <2>1, <3>1, Regroup
    <3> QED BY <3>2, <3>3
  <2> QED BY <2>2, <2>3
<1>8. ASSUME NEW p \in Seq(Bits) PROVE p \o g7 = Parts(p, v, c, z, l, m, s, r)
  <2> HIDE DEF g1, g2, g3, g4, g5, g6, g7
  <2>1. p \o g7 = (((((((p \o g1) \o v) \o c) \o z) \o l) \o m) \o s) \o r
    <3>1. p \o g2 = (p \o g1) \o v  BY <1>2
    <3>2. p \o g3 = (p \o g2) \o c  BY <1>3
    <3>3. p \o g4 = (p \o g3) \o z  BY <1>4
    <3>4. p \o g5 = (p \o g4) \o l  BY <1>5
    <3>5. p \o g6 = (p \o g5) \o m  BY <1>6
    <3>6. p \o g7 = ((p \o g6) \o s) \o r  BY <1>7
    <3> QED BY <3>1, <3>2, <3>3, <3>4, <3>5, <3>6
  <2> QED BY <2>1 DEF Parts, g1
<1> QED BY <1>7, <1>8 DEF Unfilled

\* The filler is zeros and makes a frame whole bytes.
LEMMA FillerFills ==
  ASSUME NEW b \in Seq(Bits)
  PROVE  /\ Filler(b) \in Seq(Bits) /\ \A i \in 1 .. Len(Filler(b)) : Filler(b)[i] = 0
         /\ Len(Pad(b)) % 8 = 0
<1> DEFINE k == (8 - (Len(b) % 8)) % 8
<1>1. Len(b) \in Nat /\ k \in Nat /\ (k + Len(b)) % 8 = 0
  OBVIOUS
<1>2. Filler(b) = [i \in 1 .. k |-> 0]
  BY DEF Filler
<1> HIDE DEF k
<1>3. Filler(b) \in Seq(Bits) /\ Len(Filler(b)) = k
  BY <1>1, <1>2 DEF Bits
<1>4. \A i \in 1 .. k : Filler(b)[i] = 0
  BY <1>2
<1>5. Len(Pad(b)) = k + Len(b)
  BY <1>3, Joining DEF Pad
<1> QED BY <1>1, <1>3, <1>4, <1>5

\* Every type has a code of five bits, and only BINARY has 12.
LEMMA CodesName ==
  ASSUME NEW type \in TypeNames
  PROVE  /\ TypeCode(type) \in 0 .. 12
         /\ TypeCode(type) = 12 <=> type = "bin"
         /\ Types[TypeCode(type) + 1] = IF type = "intercom" THEN "3rdparty" ELSE type
<1>1. DOMAIN Types = 1 .. 13
  BY DEF Types
<1>2. CASE type = "intercom"
  <2>1. TypeCode(type) = 11
    BY <1>2 DEF TypeCode
  <2>2. Types[12] = "3rdparty"
    BY DEF Types
  <2> QED BY <1>2, <2>1, <2>2
<1>3. CASE type # "intercom"
  <2>1. PICK i \in 1 .. 13 : Types[i] = type /\ i = CHOOSE j \in DOMAIN Types : Types[j] = type
    BY <1>1, <1>3 DEF TypeNames
  <2>2. TypeCode(type) = i - 1
    BY <1>3, <2>1 DEF TypeCode
  <2>3. i = 13 <=> type = "bin"
    <3>1. /\ Types[1] # "bin" /\ Types[2] # "bin" /\ Types[3] # "bin" /\ Types[4] # "bin"
          /\ Types[5] # "bin" /\ Types[6] # "bin" /\ Types[7] # "bin" /\ Types[8] # "bin"
          /\ Types[9] # "bin" /\ Types[10] # "bin" /\ Types[11] # "bin" /\ Types[12] # "bin"
          /\ Types[13] = "bin"
      BY DEF Types
    <3>2. \A j \in 1 .. 12 : Types[j] # "bin"
      BY <3>1
    <3>3. i = 13 \/ i \in 1 .. 12
      BY <2>1
    <3> QED BY <2>1, <3>1, <3>2, <3>3
  <2>4. TypeCode(type) \in 0 .. 12 /\ TypeCode(type) + 1 = i /\ (TypeCode(type) = 12 <=> i = 13)
    BY <2>2
  <2> QED BY <1>3, <2>1, <2>3, <2>4
<1> QED BY <1>2, <1>3

\* The two fields that are not eight bits wide.
LEMMA NarrowFields ==
  /\ \A x \in 0 .. 31 : Uint(x, 5) \in Seq(Bits) /\ Len(Uint(x, 5)) = 5 /\ ToUint(Uint(x, 5)) = x
  /\ \A x \in 0 .. 15 : Uint(x, 4) \in Seq(Bits) /\ Len(Uint(x, 4)) = 4 /\ ToUint(Uint(x, 4)) = x
<1>1. ASSUME NEW x \in 0 .. 31
      PROVE  Uint(x, 5) \in Seq(Bits) /\ Len(Uint(x, 5)) = 5 /\ ToUint(Uint(x, 5)) = x
  <2>1. x \in Nat /\ 5 \in 0 .. 8
    OBVIOUS
  <2>2. Uint(x, 5) \in Seq(Bits) /\ Len(Uint(x, 5)) = 5
    BY <2>1, UintIsBits
  <2>3. ToUint(Uint(x, 5)) = x
    BY UintReadsBack
  <2> QED BY <2>2, <2>3
<1>2. ASSUME NEW x \in 0 .. 15
      PROVE  Uint(x, 4) \in Seq(Bits) /\ Len(Uint(x, 4)) = 4 /\ ToUint(Uint(x, 4)) = x
  <2>1. x \in Nat /\ 4 \in 0 .. 8
    OBVIOUS
  <2>2. Uint(x, 4) \in Seq(Bits) /\ Len(Uint(x, 4)) = 4
    BY <2>1, UintIsBits
  <2>3. ToUint(Uint(x, 4)) = x
    BY UintReadsBack
  <2> QED BY <2>2, <2>3
<1> QED BY <1>1, <1>2

\* The version field says itself how long it is.
VersionField(versioned) == IF versioned THEN << 1 >> \o Uint(ProtocolVersion, 8) ELSE << 0 >>

\* It is one bit, or one bit and the eight of the version.
LEMMA VersionFits ==
  ASSUME NEW versioned \in BOOLEAN
  PROVE  LET v == VersionField(versioned)
         IN  v \in Seq(Bits) /\ Len(v) = 1 + 8 * v[1] /\ Len(v) >= 1
<1> DEFINE one == << 1 >>
           number == Uint(ProtocolVersion, 8)
           both == one \o number
<1>1. one \in Seq(Bits) /\ Len(one) = 1 /\ one[1] = 1 /\ 1 \in 1 .. 1
  BY DEF Bits
<1>2. number \in Seq(Bits) /\ Len(number) = 8
  BY EightBits DEF ProtocolVersion, Octets
<1> HIDE DEF one, number
<1>3. both \in Seq(Bits) /\ Len(both) = 9 /\ both[1] = 1
  <2>1. both \in Seq(Bits) /\ Len(both) = Len(one) + Len(number)
    BY <1>1, <1>2, Joining
  <2>2. \A i \in 1 .. Len(one) : both[i] = one[i]
    BY <1>1, <1>2, Joining
  <2> QED BY <1>1, <1>2, <2>1, <2>2
<1> HIDE DEF both
<1>4. CASE versioned
  <2>1. VersionField(versioned) = both
    BY <1>4 DEF VersionField, both, one, number
  <2>2. Len(both) = 1 + 8 * both[1] /\ Len(both) >= 1
    BY <1>3
  <2> QED BY <1>3, <2>1, <2>2
<1>5. CASE ~versioned
  BY <1>5 DEF VersionField, Bits
<1> QED BY <1>4, <1>5

\* What a message consists of.
LEMMA MessageParts ==
  ASSUME NEW m \in Messages, NEW compressed \in BOOLEAN
  PROVE  /\ m.type \in TypeNames
         /\ m.binType \in BinTypes /\ (m.type # "bin" => m.binType = 0)
         /\ Cast2Bytes(m.meta, compressed) \in Seq(Octets)
         /\ Cast2Bytes(m.payload, compressed) \in Seq(Octets)
         /\ m.payload.plain \in Seq(Octets)
<1>1. /\ m.type \in TypeNames /\ m.meta \in Metas /\ m.payload \in Payloads
      /\ m.binType \in BinTypes /\ (m.type # "bin" => m.binType = 0)
  <2>1. "bin" \in TypeNames
    <3>1. DOMAIN Types = 1 .. 13 /\ Types[13] = "bin"
      BY DEF Types
    <3> QED BY <3>1 DEF TypeNames
  <2> QED BY <2>1 DEF Messages, BinTypes
<1>2. m.meta \in Texts /\ m.payload \in Texts
  BY <1>1, WireAssumption
<1> QED BY <1>1, <1>2 DEF Texts, Cast2Bytes

\* A frame that could be encoded reads back.
LEMMA EncodedReadsBack ==
  ASSUME NEW m \in Messages, NEW compressed \in BOOLEAN, NEW versioned \in BOOLEAN,
         Encodable(m, compressed)
  PROVE  /\ Len(Encode(m, compressed, versioned)) % 8 = 0
         /\ Understood(m, Encode(m, compressed, versioned))
<1> DEFINE meta == Cast2Bytes(m.meta, compressed)
           content == IF m.type = "bin" THEN m.payload.plain ELSE Cast2Bytes(m.payload, compressed)
           v == VersionField(versioned)
           c == Uint(TypeCode(m.type), 5)
           z == << IF compressed THEN 1 ELSE 0 >>
           l == Uint(Len(meta), 8)
           mt == ToBits(meta)
           s == IF m.type = "bin" THEN Uint(m.binType, 4) ELSE << >>
           r == ToBits(content)
           unfilled == Unfilled(v, c, z, l, mt, s, r)
           p == Filler(unfilled)
           sent == Encode(m, compressed, versioned)
<1>1. meta \in Seq(Octets) /\ content \in Seq(Octets) /\ Len(meta) \in Octets
  <2>1. /\ meta \in Seq(Octets) /\ Cast2Bytes(m.payload, compressed) \in Seq(Octets)
        /\ m.payload.plain \in Seq(Octets)
    BY MessageParts
  <2>2. Len(meta) \in Nat /\ Len(meta) < 256
    <3>1. Len(meta) < 256
      BY DEF Encodable
    <3> HIDE DEF meta
    <3> QED BY <2>1, <3>1
  <2>3. Len(meta) \in Octets
    <3>1. \A n \in Nat : n < 256 => n \in Octets
      BY DEF Octets
    <3> QED BY <2>2, <3>1
  <2> QED BY <2>1, <2>3
<1>2. v \in Seq(Bits) /\ Len(v) = 1 + 8 * v[1] /\ Len(v) >= 1
  BY VersionFits
<1>3. c \in Seq(Bits) /\ Len(c) = 5 /\ ToUint(c) = TypeCode(m.type)
  <2>1. m.type \in TypeNames
    BY MessageParts
  <2>2. TypeCode(m.type) \in 0 .. 12
    BY <2>1, CodesName
  <2>3. TypeCode(m.type) \in 0 .. 31
    BY <2>2
  <2> QED BY <2>3, NarrowFields
<1>4. z \in Seq(Bits) /\ Len(z) = 1 /\ (z[1] = 1) = compressed
  BY DEF Bits
<1>5. l \in Seq(Bits) /\ Len(l) = 8 /\ ToUint(l) = Len(meta)
  BY <1>1, EightBits
<1>6. mt \in Seq(Bits) /\ Len(mt) = 8 * Len(meta) /\ ToBytes(mt) = meta
  BY <1>1, ToBitsIsBits, BytesReadBack
<1>7. r \in Seq(Bits) /\ ToBytes(r) = content
  BY <1>1, ToBitsIsBits, BytesReadBack
<1>8. /\ s \in Seq(Bits) /\ ToUint(s) = m.binType
      /\ Len(s) = IF TypeCode(m.type) = 12 THEN 4 ELSE 0
  <2>1. m.type \in TypeNames /\ m.binType \in 0 .. 15 /\ (m.type # "bin" => m.binType = 0)
    BY MessageParts DEF BinTypes
  <2>2. TypeCode(m.type) = 12 <=> m.type = "bin"
    BY <2>1, CodesName
  <2>3. CASE m.type = "bin"
    BY <2>1, <2>2, <2>3, NarrowFields
  <2>4. CASE m.type # "bin"
    <3>1. << >> \in Seq(Bits) /\ Len(<< >>) = 0
      OBVIOUS
    <3>2. ToUint(<< >>) = 0
      BY <3>1, ReadNone
    <3> QED BY <2>1, <2>2, <2>4, <3>1, <3>2
  <2> QED BY <2>3, <2>4
<1>9. sent = p \o unfilled /\ sent = Pad(unfilled)
  <2>1. Body(m, compressed) = s \o r
    <3>1. CASE m.type = "bin"
      BY <3>1 DEF Body
    <3>2. CASE m.type # "bin"
      <4>1. << >> \o r = r
        <5> HIDE DEF r
        <5> QED BY <1>7, ConcatEmptySeq
      <4> QED BY <3>2, <4>1 DEF Body
    <3> QED BY <3>1, <3>2
  <2> QED BY <2>1 DEF Encode, Header, Pad, Unfilled, VersionField
<1> HIDE DEF meta, content, v, c, z, l, mt, s, r
<1>10. AllBits(v, c, z, l, mt, s, r)
  BY <1>2, <1>3, <1>4, <1>5, <1>6, <1>7, <1>8 DEF AllBits
<1>11. unfilled \in Seq(Bits) /\ \A q \in Seq(Bits) : q \o unfilled = Parts(q, v, c, z, l, mt, s, r)
  BY <1>10, PartsJoined
<1> HIDE DEF unfilled
<1>12. /\ p \in Seq(Bits) /\ \A i \in 1 .. Len(p) : p[i] = 0
       /\ Len(Pad(unfilled)) % 8 = 0
  BY <1>11, FillerFills
<1> HIDE DEF p
<1>13. sent = Parts(p, v, c, z, l, mt, s, r)
  BY <1>9, <1>11, <1>12
<1>14. Fitting(p, v, c, z, l, mt, s)
  <2>1. ToUint(l) \in Nat /\ Len(mt) = 8 * ToUint(l)
    BY <1>1, <1>5, <1>6 DEF Octets
  <2> QED BY <1>2, <1>3, <1>4, <1>5, <1>8, <1>12, <2>1 DEF Fitting
<1>15. Decode(Parts(p, v, c, z, l, mt, s, r))
         = [type |-> Types[ToUint(c) + 1], compressed |-> z[1] = 1, meta |-> ToBytes(mt),
            binType |-> ToUint(s), payload |-> ToBytes(r)]
  BY <1>10, <1>12, <1>14, DecodeFindsParts
<1>16. Types[ToUint(c) + 1] = IF m.type = "intercom" THEN "3rdparty" ELSE m.type
  <2>1. m.type \in TypeNames
    BY MessageParts
  <2> QED BY <1>3, <2>1, CodesName
<1>17. Understood(m, sent)
  BY <1>4, <1>6, <1>7, <1>8, <1>13, <1>15, <1>16 DEF Understood, meta, content
<1> QED BY <1>9, <1>12, <1>17

\* Every frame is whole bytes and decode_bitstring finds in it what get_bitstring
\* was given, for all metadata and payloads of bytes, every type and subtype,
\* compressed, versioned or neither.
THEOREM FramesReadBack == FramesRoundTrip
<1> SUFFICES ASSUME NEW m \in Messages
             PROVE  /\ \A compressed, versioned \in BOOLEAN :
                         Encodable(m, compressed) =>
                           /\ Len(Encode(m, compressed, versioned)) % 8 = 0
                           /\ Understood(m, Encode(m, compressed, versioned))
                    /\ (\A compressed \in BOOLEAN : Encodable(m, compressed)) =>
                         \A versioned \in BOOLEAN : Understood(m, EncodeShorter(m, versioned))
  BY DEF FramesRoundTrip
<1>1. \A compressed, versioned \in BOOLEAN :
        Encodable(m, compressed) =>
          /\ Len(Encode(m, compressed, versioned)) % 8 = 0
          /\ Understood(m, Encode(m, compressed, versioned))
  BY EncodedReadsBack
<1>2. \A versioned \in BOOLEAN :
        EncodeShorter(m, versioned) \in {Encode(m, FALSE, versioned), Encode(m, TRUE, versioned)}
  BY DEF EncodeShorter
<1> QED BY <1>1, <1>2

\* The same as the run checks it, for every text and every payload.
THEOREM WireSane == Spec => []WireRoundTrips
<1>1. WireRoundTrips
  BY FramesReadBack DEF WireRoundTrips
<1> QED BY <1>1, PTL
=============================================================================
