-------------------------------- MODULE Wire --------------------------------
(***************************************************************************)
(* The binary frame of a HiveMessage: get_bitstring and decode_bitstring   *)
(* (serialization.py) with cast2bytes and bytes2str (util.py).             *)
(*                                                                         *)
(* Frames are sequences of bits, bytes are numbers.  JSON and zlib are     *)
(* external: a text is the pair of its plain and its compressed bytes.     *)
(***************************************************************************)
LOCAL INSTANCE Naturals
LOCAL INSTANCE Sequences

CONSTANTS Metas,     \* metadata dicts, as texts
          Payloads   \* payloads, as texts; a BINARY payload is its plain bytes

Octets == 0 .. 255
Texts == [plain: Seq(Octets), zipped: Seq(Octets)]

ASSUME WireAssumption == Metas \cup Payloads \subseteq Texts

Types == << "shake", "bus", "shared_bus", "broadcast", "propagate", "escalate",
            "hello", "query", "cascade", "ping", "rendezvous", "3rdparty", "bin" >>
TypeNames == {Types[i] : i \in DOMAIN Types} \cup {"intercom"}
BinTypes == 0 .. 6
ProtocolVersion == 1

Uint(value, width) == [i \in 1 .. width |-> (value \div 2 ^ (width - i)) % 2]
ToBits(bytes) ==
  [i \in 1 .. 8 * Len(bytes) |-> Uint(bytes[(i + 7) \div 8], 8)[((i + 7) % 8) + 1]]
ToUint(bits) ==
  LET value[n \in 0 .. Len(bits)] == IF n = 0 THEN 0 ELSE 2 * value[n - 1] + bits[n]
  IN value[Len(bits)]
\* BitArray.bytes raises unless the bits are whole bytes: no byte is NoByte.
NoByte == 256
ToBytes(bits) ==
  IF Len(bits) % 8 # 0 THEN << NoByte >>
  ELSE [i \in 1 .. Len(bits) \div 8 |-> ToUint(SubSeq(bits, 8 * i - 7, 8 * i))]

Cast2Bytes(text, compressed) == IF compressed THEN text.zipped ELSE text.plain

\* A type without a code of its own is sent as THIRDPRTY.
TypeCode(type) ==
  IF type = "intercom" THEN 11 ELSE (CHOOSE i \in DOMAIN Types : Types[i] = type) - 1

\* The metadata length is an 8-bit field; a longer one raises.
Encodable(m, compressed) == Len(Cast2Bytes(m.meta, compressed)) < 256

Header(m, compressed, versioned) ==
  << 1 >> \o (IF versioned THEN << 1 >> \o Uint(ProtocolVersion, 8) ELSE << 0 >>)
  \o Uint(TypeCode(m.type), 5) \o << IF compressed THEN 1 ELSE 0 >>

Body(m, compressed) ==
  IF m.type = "bin" THEN Uint(m.binType, 4) \o ToBits(m.payload.plain)
  ELSE ToBits(Cast2Bytes(m.payload, compressed))

Filler(bits) == [i \in 1 .. (8 - (Len(bits) % 8)) % 8 |-> 0]

\* Faulty variant: the padding goes to the end of the frame.
PadRight(bits) == bits \o Filler(bits)

\* Zeros in front fill the frame to whole bytes; its first 1 marks the start.
Pad(bits) == Filler(bits) \o bits

Encode(m, compressed, versioned) ==
  LET meta == Cast2Bytes(m.meta, compressed)
  IN Pad(Header(m, compressed, versioned) \o Uint(Len(meta), 8) \o ToBits(meta)
         \o Body(m, compressed))

\* compressed = None: both forms are made (and may raise), the shorter is sent.
EncodeShorter(m, versioned) ==
  LET plain == Encode(m, FALSE, versioned)
      zipped == Encode(m, TRUE, versioned)
  IN IF Len(plain) <= Len(zipped) THEN plain ELSE zipped

Decode(frame) ==
  LET start == CHOOSE i \in DOMAIN frame : frame[i] = 1 /\ \A j \in 1 .. i - 1 : frame[j] = 0
      type == start + 2 + 8 * frame[start + 1]
      code == ToUint(SubSeq(frame, type, type + 4))
      meta == type + 14
      body == meta + 8 * ToUint(SubSeq(frame, type + 6, type + 13))
      payload == body + IF code = 12 THEN 4 ELSE 0
      At(first, last) == ToBytes(SubSeq(frame, first, last))
  IN [type |-> Types[code + 1],
      compressed |-> frame[type + 5] = 1,
      meta |-> At(meta, body - 1),
      binType |-> ToUint(SubSeq(frame, body, payload - 1)),
      payload |-> At(payload, Len(frame))]

-----------------------------------------------------------------------------
Messages ==
  [type: TypeNames \ {"bin"}, binType: {0}, meta: Metas, payload: Payloads]
  \cup [type: {"bin"}, binType: BinTypes, meta: Metas, payload: Payloads]

\* What a receiver makes of a frame that was sent for m.
Understood(m, frame) ==
  LET d == Decode(frame)
  IN /\ d.type = IF m.type = "intercom" THEN "3rdparty" ELSE m.type
     /\ d.binType = m.binType
     /\ d.meta = Cast2Bytes(m.meta, d.compressed)
     /\ d.payload = IF m.type = "bin" THEN m.payload.plain
                    ELSE Cast2Bytes(m.payload, d.compressed)

\* Every frame is whole bytes and decodes to the type, the metadata and the
\* payload it was made from, for every message type and subtype, compressed,
\* versioned or not (docs/serialization.md); only an INTERCOM, which has no
\* code of its own, comes out as THIRDPRTY.
FramesRoundTrip ==
  \A m \in Messages :
    /\ \A compressed, versioned \in BOOLEAN :
         Encodable(m, compressed) =>
           /\ Len(Encode(m, compressed, versioned)) % 8 = 0
           /\ Understood(m, Encode(m, compressed, versioned))
    /\ (\A compressed \in BOOLEAN : Encodable(m, compressed)) =>
         \A versioned \in BOOLEAN : Understood(m, EncodeShorter(m, versioned))
=============================================================================
