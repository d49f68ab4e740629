---------------------------- MODULE CipherFrames ----------------------------
(***************************************************************************)
(* How encryption.py lays out what its ciphers produce: nonce, ciphertext  *)
(* and tag in one binary frame, or apart in a JSON object, and the hybrid  *)
(* envelope of INTERCOM payloads.                                          *)
(*                                                                         *)
(* The ciphers and encodings are external: a sealed text has the length of *)
(* the plaintext, every byte is a token that names what it belongs to, and *)
(* opening succeeds exactly on the three parts that sealing returned.      *)
(***************************************************************************)
LOCAL INSTANCE Integers
LOCAL INSTANCE Sequences

CONSTANT MaxText   \* bound: longest plaintext, in bytes

ASSUME TextAssumption == MaxText \in Nat

Ciphers == {"AES-GCM", "CHACHA20-POLY1305"}
Encodings == {"JSON-B91", "JSON-Z85B", "JSON-Z85P", "JSON-B64",
              "JSON-URLSAFE-B64", "JSON-B32", "JSON-HEX"}

KeySizes(cipher) == IF cipher = "AES-GCM" THEN {16, 24, 32} ELSE {32}
NonceSize(cipher) == IF cipher = "AES-GCM" THEN 16 ELSE 12
TagSize == 16

\* What a client offers its hub, best first.
OptimalCiphers(cpuSupportsAES) ==
  IF cpuSupportsAES THEN << "AES-GCM", "CHACHA20-POLY1305" >>
  ELSE << "CHACHA20-POLY1305", "AES-GCM" >>

Bytes(of, n) == [i \in 1 .. n |-> <<of, i>>]
Smaller(a, b) == IF a < b THEN a ELSE b
Larger(a, b) == IF a > b THEN a ELSE b

\* Python slices s[:n], s[n:] and s[:-n], s[-n:], which never raise.
First(s, n) == SubSeq(s, 1, Smaller(n, Len(s)))
From(s, n) == SubSeq(s, n + 1, Len(s))
AllButLast(s, n) == SubSeq(s, 1, Len(s) - n)
Last(s, n) == SubSeq(s, Larger(Len(s) - n, 0) + 1, Len(s))

\* encrypt_AES and encrypt_ChaCha20_Poly1305.
Seal(cipher, n) ==
  [nonce |-> Bytes("nonce", NonceSize(cipher)), text |-> Bytes("text", n),
   tag |-> Bytes("tag", TagSize)]
Failure(why) == [error |-> why]
Opened(n) == [length |-> n]

\* decrypt_AES_128 and decrypt_ChaCha20_Poly1305: the parts of some sealing,
\* or the tag does not verify; a ChaCha20 nonce has 12 bytes.
Open(cipher, keySize, parts) ==
  IF keySize \notin KeySizes(cipher) THEN Failure("InvalidKeySize")
  ELSE IF parts = Seal(cipher, Len(parts.text)) THEN Opened(Len(parts.text))
  ELSE Failure("DecryptionKeyError")

Joined(parts) == parts.nonce \o parts.text \o parts.tag

\* Faulty variant: every cipher has the nonce of AES.
SplitAES(cipher, frame) ==
  [nonce |-> First(frame, 16), text |-> AllButLast(From(frame, 16), TagSize),
   tag |-> Last(frame, TagSize)]

\* The slices of encrypt_as_json and decrypt_bin.
Split(cipher, frame) ==
  LET n == NonceSize(cipher)
  IN [nonce |-> First(frame, n), text |-> AllButLast(From(frame, n), TagSize),
      tag |-> Last(frame, TagSize)]

\* _norm_cipher and the size of the key may refuse.
EncryptBin(cipher, keySize, n) ==
  IF cipher \notin Ciphers THEN Failure("InvalidCipher")
  ELSE IF keySize \notin KeySizes(cipher) THEN Failure("InvalidKeySize")
  ELSE [frame |-> Joined(Seal(cipher, n))]

DecryptBin(cipher, keySize, frame) == Open(cipher, keySize, Split(cipher, frame))

\* Encoders and decoders are inverse to each other (external).
Encoded(encoding, bytes) == [encoding |-> encoding, bytes |-> bytes]
Decoded(encoding, text) ==
  IF text.encoding = encoding THEN text.bytes ELSE << >>

EncryptAsJson(cipher, keySize, encoding, n) ==
  LET parts == Split(cipher, EncryptBin(cipher, keySize, n).frame)
  IN [part \in {"nonce", "text", "tag"} |-> Encoded(encoding, parts[part])]

\* The same from a web client: the tag is the end of the ciphertext.
WebCrypto(cipher, encoding, n) ==
  LET parts == Seal(cipher, n)
  IN [nonce |-> Encoded(encoding, parts.nonce),
      text |-> Encoded(encoding, parts.text \o parts.tag)]

DecryptFromJson(cipher, keySize, encoding, json) ==
  LET text == Decoded(encoding, json.text)
      apart == "tag" \in DOMAIN json
      parts == [nonce |-> Decoded(encoding, json.nonce),
                text |-> IF apart THEN text ELSE AllButLast(text, TagSize),
                tag |-> IF apart THEN Decoded(encoding, json.tag) ELSE Last(text, TagSize)]
  IN DecryptBin(cipher, keySize, Joined(parts))

\* The hybrid envelope: a fresh 32-byte AES key, sealed for one public key.
HybridEncrypt(owner, n) ==
  [encryptedKey |-> [owner |-> owner, size |-> 32], parts |-> Seal("AES-GCM", n)]
HybridDecrypt(owner, envelope) ==
  IF envelope.encryptedKey.owner # owner THEN Failure("decrypt_RSA")
  ELSE Open("AES-GCM", envelope.encryptedKey.size, envelope.parts)

-----------------------------------------------------------------------------
\* With every cipher a client offers, every encoding and a key of a size that the
\* cipher takes, what one end seals the other opens: as a binary frame, as JSON,
\* and as the JSON of a web client, down to the empty text; so is what
\* hybrid_encrypt makes, for the owner of the key and nobody else.  Nothing is
\* said of other keys: the docstrings allow "up to 16 bytes", and have longer ones
\* truncated, where the code looks at KeySizes and raises.
SealedFramesOpen ==
  \A n \in 0 .. MaxText, cpuSupportsAES \in BOOLEAN, i \in 1 .. 2 :
    LET cipher == OptimalCiphers(cpuSupportsAES)[i]
    IN
    /\ \A keySize \in KeySizes(cipher) :
         /\ DecryptBin(cipher, keySize, EncryptBin(cipher, keySize, n).frame) = Opened(n)
         /\ \A e \in Encodings :
              /\ DecryptFromJson(cipher, keySize, e, EncryptAsJson(cipher, keySize, e, n))
                   = Opened(n)
              /\ DecryptFromJson(cipher, keySize, e, WebCrypto(cipher, e, n)) = Opened(n)
    /\ \A us, them \in {"us", "them"} :
         (HybridDecrypt(us, HybridEncrypt(them, n)) = Opened(n)) <=> us = them
=============================================================================
