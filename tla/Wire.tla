-------------------------------- MODULE Wire --------------------------------
(***************************************************************************)
(* The byte layouts: the 20-byte wire header in front of every frame, the  *)
(* payload of AUTH, and the IM header at the start of a business payload.  *)
(* A byte string is a sequence over Byte, an offset counts from 0.  A      *)
(* 64-bit field is the pair of its 32-bit halves.                          *)
(***************************************************************************)
EXTENDS Integers, Sequences

CONSTANTS
  kAuthUserLen, kAuthPassLen   (* the fixed fields of AuthPayload          *)

kWireChecksum == 534920644     \* 0x1FE23DC4
kFlagSys == 0
kFlagExp == 1
kAuthReq == 1
kAuthAck == 2
kWireHeaderSize == 20

Byte == 0 .. 255

\* uint32_t
IsWord(n) == n \in Nat /\ n \div 16777216 \in Byte

ASSUME AuthFieldsAssumption ==
  {kAuthUserLen, kAuthPassLen} \subseteq Nat /\ IsWord(4 + kAuthUserLen + kAuthPassLen + 4)

Zeros(n) == [i \in 1 .. n |-> 0]

Bytes(b, offset, n) == SubSeq(b, offset + 1, offset + n)

HostToBe32(n) == <<n \div 16777216, (n \div 65536) % 256, (n \div 256) % 256, n % 256>>

BeToHost32(b) == 16777216 * b[1] + 65536 * b[2] + 256 * b[3] + b[4]

HostToBe64(v) == HostToBe32(v[1]) \o HostToBe32(v[2])

BeToHost64(b) == <<BeToHost32(Bytes(b, 0, 4)), BeToHost32(Bytes(b, 4, 4))>>

-----------------------------------------------------------------------------
(* wire/header.hpp                                                          *)

MakeHeader(type, nid, flag, length) ==
  HostToBe32(type) \o HostToBe32(nid) \o HostToBe32(flag) \o HostToBe32(length)
    \o HostToBe32(kWireChecksum)

EncodeFrame(type, nid, flag, payload) == MakeHeader(type, nid, flag, Len(payload)) \o payload

DecodesHeader(b) ==
  Len(b) >= kWireHeaderSize /\ BeToHost32(Bytes(b, 16, 4)) = kWireChecksum

Type(b) == BeToHost32(Bytes(b, 0, 4))
Nid(b) == BeToHost32(Bytes(b, 4, 4))
Flag(b) == BeToHost32(Bytes(b, 8, 4))
Length(b) == BeToHost32(Bytes(b, 12, 4))

\* FrameBuffer::TryPopFrame's payload of the frame at the start of b.
Payload(b) == Bytes(b, kWireHeaderSize, Length(b))

-----------------------------------------------------------------------------
(* wire/auth.hpp                                                            *)

kAuthPayloadSize == 4 + kAuthUserLen + kAuthPassLen + 4

\* A string in a field of n bytes: cut off, or filled up with zeros.
FixedField(str, n) == [i \in 1 .. n |-> IF i <= Len(str) THEN str[i] ELSE 0]

MakeAuthPayload(gid, user, passwd, nid) ==
  HostToBe32(gid) \o FixedField(user, kAuthUserLen) \o FixedField(passwd, kAuthPassLen)
    \o HostToBe32(nid)

EncodeAuthFrame(gid, user, passwd, nid) ==
  EncodeFrame(kAuthReq, nid, kFlagSys, MakeAuthPayload(gid, user, passwd, nid))

DecodesAuthPayload(p) == Len(p) >= kAuthPayloadSize

AuthUser(p) == Bytes(p, 4, kAuthUserLen)
AuthPasswd(p) == Bytes(p, 4 + kAuthUserLen, kAuthPassLen)
AuthGid(p) == BeToHost32(Bytes(p, 0, 4))
AuthNid(p) == BeToHost32(Bytes(p, 4 + kAuthUserLen + kAuthPassLen, 4))

\* Mutant: the whole field is the string.
WholeField(field) == field

\* The string in a field, as strnlen delimits it.
FieldString(field) ==
  SubSeq(field, 1, CHOOSE n \in 0 .. Len(field) :
    /\ \A i \in 1 .. n : field[i] # 0
    /\ n < Len(field) => field[n + 1] = 0)

CredentialsMatch(cfg, p) ==
  FieldString(AuthUser(p)) = cfg.user /\ FieldString(AuthPasswd(p)) = cfg.pass

-----------------------------------------------------------------------------
(* im/header.hpp                                                            *)

kHeaderSize == 52
kOffsetNid == 24
kOffsetSeq == 28

PackPayload(cmd, sid, dest_nid, seq, body) ==
  HostToBe32(cmd) \o HostToBe32(Len(body)) \o HostToBe64(sid) \o Zeros(8)
    \o HostToBe32(dest_nid) \o HostToBe64(seq) \o Zeros(16) \o body

\* Mutant: the length field is taken for the node id.
ReadDestNidAt4(p) == IF Len(p) < kHeaderSize THEN 0 ELSE BeToHost32(Bytes(p, 4, 4))

ReadDestNid(p) == IF Len(p) < kHeaderSize THEN 0 ELSE BeToHost32(Bytes(p, kOffsetNid, 4))

ReadSeq(p) == IF Len(p) < kHeaderSize THEN <<0, 0>> ELSE BeToHost64(Bytes(p, kOffsetSeq, 8))

-----------------------------------------------------------------------------
(* hub/route_log.hpp                                                        *)

NoMeta == [wire_cmd |-> 0, wire_nid |-> 0, im_dest_nid |-> 0, im_seq |-> <<0, 0>>]

\* Mutant: the payload is looked for without skipping the wire header.
ParseUnskipped(b) ==
  IF ~DecodesHeader(b) THEN NoMeta
  ELSE [wire_cmd |-> Type(b), wire_nid |-> Nid(b),
        im_dest_nid |-> ReadDestNid(b), im_seq |-> ReadSeq(b)]

\* What the log says of an encoded frame.
ParseRouteLogMeta(b) ==
  LET im == Bytes(b, kWireHeaderSize, Len(b) - kWireHeaderSize) IN
  IF ~DecodesHeader(b) THEN NoMeta
  ELSE [wire_cmd |-> Type(b), wire_nid |-> Nid(b),
        im_dest_nid |-> ReadDestNid(im), im_seq |-> ReadSeq(im)]

-----------------------------------------------------------------------------
(* hi-im-bench                                                              *)

MakeBusinessPayload(payload_size, dest_nid) ==
  HostToBe32(779) \o HostToBe32(dest_nid)
    \o Zeros((IF payload_size > 48 THEN payload_size ELSE 48) - 8)

=============================================================================
