--------------------------- MODULE EndpointProofs ---------------------------
(***************************************************************************)
(* Proofs about the processes at the two ends of a connection, and the     *)
(* bytes they exchange.                                                    *)
(*                                                                         *)
(* The codecs of Wire undo each other for every value of every field, and  *)
(* AUTH and the downlink are exact for every user, password, node id,      *)
(* command, sequence number and body, and for every size of the two fields *)
(* of AUTH.                                                                *)
(*                                                                         *)
(* The process of the Hub starts, serves and shuts down cleanly with any   *)
(* number of reactors and workers.                                         *)
(*                                                                         *)
(* What the bench reports is consistent for every number of publishers,    *)
(* every duration and any number of frames.                                *)
(***************************************************************************)
EXTENDS Downlink, Bench, HubLifecycle, TLAPS

-----------------------------------------------------------------------------
(* The codecs                                                              *)

(***************************************************************************)
(* Four bytes hold a 32-bit number.                                        *)
(***************************************************************************)
LEMMA Word32 ==
  ASSUME NEW n, IsWord(n)
  PROVE  /\ HostToBe32(n) \in Seq(Byte)
         /\ Len(HostToBe32(n)) = 4
         /\ BeToHost32(HostToBe32(n)) = n
<1>1. /\ n \div 16777216 \in Byte /\ (n \div 65536) % 256 \in Byte
      /\ (n \div 256) % 256 \in Byte /\ n % 256 \in Byte
  BY SMT DEF IsWord, Byte
<1>2. HostToBe32(n) \in Seq(Byte) /\ Len(HostToBe32(n)) = 4
  BY <1>1, SMT DEF HostToBe32
<1>3. n \in Nat /\ n \div 256 \in Nat /\ n \div 65536 \in Nat /\ n \div 16777216 \in Nat
  BY SMT DEF IsWord
<1>4. ASSUME NEW m \in Nat
      PROVE  m % 256 = m - 256 * (m \div 256)
  BY <1>4, SMT
<1>5. /\ (n \div 256) \div 256 = n \div 65536
      /\ (n \div 65536) \div 256 = n \div 16777216
  BY <1>3, SMT
<1>6. /\ n % 256 = n - 256 * (n \div 256)
      /\ (n \div 256) % 256 = (n \div 256) - 256 * (n \div 65536)
      /\ (n \div 65536) % 256 = (n \div 65536) - 256 * (n \div 16777216)
  BY <1>3, <1>4, <1>5, SMT
<1>7. ASSUME NEW a \in Nat, NEW b \in Nat, NEW c \in Nat, NEW d \in Nat
      PROVE  BeToHost32(<<a, b, c, d>>) = 16777216 * a + 65536 * b + 256 * c + d
  BY <1>7, SMT DEF BeToHost32
<1>8. ASSUME NEW w \in Nat, NEW x \in Nat, NEW y \in Nat, NEW z \in Nat,
             NEW b \in Nat, NEW c \in Nat,
             x = b - 256 * w, y = c - 256 * b, z = n - 256 * c
      PROVE  BeToHost32(<<w, x, y, z>>) = n
  BY <1>3, <1>7, <1>8, SMT
<1>9. BeToHost32(HostToBe32(n)) = n
  <2> DEFINE w == n \div 16777216
             b == n \div 65536
             c == n \div 256
             x == (n \div 65536) % 256
             y == (n \div 256) % 256
             z == n % 256
  <2>1. /\ w \in Nat /\ b \in Nat /\ c \in Nat /\ x \in Nat /\ y \in Nat /\ z \in Nat
        /\ x = b - 256 * w /\ y = c - 256 * b /\ z = n - 256 * c
    BY <1>1, <1>3, <1>6, SMT DEF Byte
  <2>2. HostToBe32(n) = <<w, x, y, z>>
    BY SMT DEF HostToBe32
  <2> HIDE DEF w, x, y, z, b, c
  <2> QED
    BY <1>8, <2>1, <2>2
<1> QED
  BY <1>2, <1>9, Zenon

(***************************************************************************)
(* Bytes taken from a concatenation are taken from the part they lie in.   *)
(***************************************************************************)
LEMMA BytesLeft ==
  ASSUME NEW s \in Seq(Byte), NEW t \in Seq(Byte), NEW o \in Nat, NEW k \in Nat,
         o + k <= Len(s)
  PROVE  Bytes(s \o t, o, k) = Bytes(s, o, k)
BY SMT DEF Bytes

(***************************************************************************)
(* The same, of the part behind.                                           *)
(***************************************************************************)
LEMMA BytesRight ==
  ASSUME NEW s \in Seq(Byte), NEW t \in Seq(Byte), NEW o \in Nat, NEW k \in Nat,
         o >= Len(s), o + k <= Len(s) + Len(t)
  PROVE  Bytes(s \o t, o, k) = Bytes(t, o - Len(s), k)
BY SMTT(30) DEF Bytes

(***************************************************************************)
(* All the bytes.                                                          *)
(***************************************************************************)
LEMMA BytesAll ==
  ASSUME NEW s \in Seq(Byte)
  PROVE  Bytes(s, 0, Len(s)) = s
BY SMT DEF Bytes

\* t begins with what can be read from s.
Keeps(s, t) == \A o, k \in Nat : o + k <= Len(s) => Bytes(t, o, k) = Bytes(s, o, k)

(***************************************************************************)
(* What is appended is read where it starts, and what was there remains.   *)
(***************************************************************************)
LEMMA Appended ==
  ASSUME NEW s \in Seq(Byte), NEW t \in Seq(Byte)
  PROVE  /\ s \o t \in Seq(Byte)
         /\ Len(s \o t) = Len(s) + Len(t)
         /\ Keeps(s, s \o t)
         /\ Bytes(s \o t, Len(s), Len(t)) = t
<1>1. s \o t \in Seq(Byte) /\ Len(s \o t) = Len(s) + Len(t)
  BY SMT
<1>2. Keeps(s, s \o t)
  BY BytesLeft, Zenon DEF Keeps
<1>3. /\ Len(s) \in Nat /\ Len(t) \in Nat /\ Len(s) - Len(s) = 0
      /\ Len(s) + Len(t) <= Len(s) + Len(t) /\ Len(s) >= Len(s)
  BY SMT
<1>4. Bytes(s \o t, Len(s), Len(t)) = Bytes(t, Len(s) - Len(s), Len(t))
  BY <1>3, BytesRight, Zenon
<1>5. Bytes(t, 0, Len(t)) = t
  BY BytesAll
<1> QED
  BY <1>1, <1>2, <1>3, <1>4, <1>5

(***************************************************************************)
(* The same, of a 32-bit field.                                            *)
(***************************************************************************)
LEMMA WordAppended ==
  ASSUME NEW s \in Seq(Byte), NEW n, IsWord(n)
  PROVE  /\ s \o HostToBe32(n) \in Seq(Byte)
         /\ Len(s \o HostToBe32(n)) = Len(s) + 4
         /\ Keeps(s, s \o HostToBe32(n))
         /\ BeToHost32(Bytes(s \o HostToBe32(n), Len(s), 4)) = n
<1> DEFINE w == HostToBe32(n)
<1>1. w \in Seq(Byte) /\ Len(w) = 4 /\ BeToHost32(w) = n
  BY Word32
<1> HIDE DEF w
<1>2. /\ s \o w \in Seq(Byte) /\ Len(s \o w) = Len(s) + Len(w)
      /\ Keeps(s, s \o w) /\ Bytes(s \o w, Len(s), Len(w)) = w
  BY <1>1, Appended, Zenon
<1> QED
  BY <1>1, <1>2 DEF w

\* f is a frame in which these are read.
FrameOf(f, type, nid, flag, payload) ==
  /\ f \in Seq(Byte) /\ Len(f) = kWireHeaderSize + Len(payload)
  /\ DecodesHeader(f)
  /\ Type(f) = type /\ Nid(f) = nid /\ Flag(f) = flag /\ Length(f) = Len(payload)
  /\ Payload(f) = payload

(***************************************************************************)
(* A frame is read as it was written: whatever its type, node id, flag and *)
(* payload, DecodeHeader and the frame buffer find them again.             *)
(***************************************************************************)
THEOREM FrameRoundTrip ==
  ASSUME NEW type, NEW nid, NEW flag, NEW payload \in Seq(Byte),
         IsWord(type), IsWord(nid), IsWord(flag), IsWord(Len(payload))
  PROVE  FrameOf(EncodeFrame(type, nid, flag, payload), type, nid, flag, payload)
<1> DEFINE h1 == HostToBe32(type)
           h2 == h1 \o HostToBe32(nid)
           h3 == h2 \o HostToBe32(flag)
           h4 == h3 \o HostToBe32(Len(payload))
           h5 == h4 \o HostToBe32(kWireChecksum)
           f == EncodeFrame(type, nid, flag, payload)
<1>0. f = h5 \o payload
  BY Zenon DEF EncodeFrame, MakeHeader
<1> HIDE DEF h1, h2, h3, h4, h5, f
<1>1. h1 \in Seq(Byte) /\ Len(h1) = 4 /\ BeToHost32(Bytes(h1, 0, 4)) = type
  BY Word32, BytesAll, Zenon DEF h1
<1>2. /\ h2 \in Seq(Byte) /\ Len(h2) = Len(h1) + 4 /\ Keeps(h1, h2)
      /\ BeToHost32(Bytes(h2, Len(h1), 4)) = nid
  BY <1>1, WordAppended, Zenon DEF h2
<1>3. /\ h3 \in Seq(Byte) /\ Len(h3) = Len(h2) + 4 /\ Keeps(h2, h3)
      /\ BeToHost32(Bytes(h3, Len(h2), 4)) = flag
  BY <1>2, WordAppended, Zenon DEF h3
<1>4. /\ h4 \in Seq(Byte) /\ Len(h4) = Len(h3) + 4 /\ Keeps(h3, h4)
      /\ BeToHost32(Bytes(h4, Len(h3), 4)) = Len(payload)
  BY <1>3, WordAppended, Zenon DEF h4
<1>5. IsWord(kWireChecksum)
  BY SMT DEF IsWord, kWireChecksum, Byte
<1>6. /\ h5 \in Seq(Byte) /\ Len(h5) = Len(h4) + 4 /\ Keeps(h4, h5)
      /\ BeToHost32(Bytes(h5, Len(h4), 4)) = kWireChecksum
  BY <1>4, <1>5, WordAppended, Zenon DEF h5
<1>7. /\ f \in Seq(Byte) /\ Len(f) = Len(h5) + Len(payload) /\ Keeps(h5, f)
      /\ Bytes(f, Len(h5), Len(payload)) = payload
  BY <1>0, <1>6, Appended, Zenon
<1>8. Len(h1) = 4 /\ Len(h2) = 8 /\ Len(h3) = 12 /\ Len(h4) = 16 /\ Len(h5) = 20
  BY <1>1, <1>2, <1>3, <1>4, <1>6, SMT
<1>9. /\ Bytes(f, 0, 4) = Bytes(h1, 0, 4) /\ Bytes(f, 4, 4) = Bytes(h2, 4, 4)
      /\ Bytes(f, 8, 4) = Bytes(h3, 8, 4) /\ Bytes(f, 12, 4) = Bytes(h4, 12, 4)
      /\ Bytes(f, 16, 4) = Bytes(h5, 16, 4)
  BY <1>2, <1>3, <1>4, <1>6, <1>7, <1>8, SMTT(30) DEF Keeps
<1> QED
  BY <1>1, <1>2, <1>3, <1>4, <1>6, <1>7, <1>8, <1>9, SMTT(30)
     DEF f, FrameOf, DecodesHeader, Type, Nid, Flag, Length, Payload, kWireHeaderSize

(***************************************************************************)
(* A field of zeros.                                                       *)
(***************************************************************************)
LEMMA ZeroField ==
  ASSUME NEW n \in Nat
  PROVE  Zeros(n) \in Seq(Byte) /\ Len(Zeros(n)) = n
BY SMT DEF Zeros, Byte

\* uint64_t
IsLong(v) == v = <<v[1], v[2]>> /\ IsWord(v[1]) /\ IsWord(v[2])

(***************************************************************************)
(* Eight bytes hold a 64-bit number.                                       *)
(***************************************************************************)
LEMMA Word64 ==
  ASSUME NEW v, IsLong(v)
  PROVE  /\ HostToBe64(v) \in Seq(Byte)
         /\ Len(HostToBe64(v)) = 8
         /\ BeToHost64(HostToBe64(v)) = v
<1> DEFINE h == HostToBe32(v[1])
           b == h \o HostToBe32(v[2])
<1>0. HostToBe64(v) = b
  BY Zenon DEF HostToBe64
<1>1. h \in Seq(Byte) /\ Len(h) = 4 /\ BeToHost32(Bytes(h, 0, 4)) = v[1]
  BY Word32, BytesAll, Zenon DEF IsLong
<1> HIDE DEF h
<1>2. /\ b \in Seq(Byte) /\ Len(b) = Len(h) + 4 /\ Keeps(h, b)
      /\ BeToHost32(Bytes(b, Len(h), 4)) = v[2]
  BY <1>1, WordAppended, Zenon DEF IsLong
<1> HIDE DEF b
<1>3. Len(b) = 8 /\ Bytes(b, 0, 4) = Bytes(h, 0, 4)
  BY <1>1, <1>2, SMT DEF Keeps
<1> QED
  BY <1>0, <1>1, <1>2, <1>3, Zenon DEF BeToHost64, IsLong

\* p is a payload in whose IM header these are read.
ImPayloadOf(p, dest, seq, body) ==
  /\ p \in Seq(Byte) /\ Len(p) = kHeaderSize + Len(body)
  /\ ReadDestNid(p) = dest /\ ReadSeq(p) = seq

(***************************************************************************)
(* The IM header is read as it was written: the node id and the sequence   *)
(* number, whatever stands before and behind them.                         *)
(***************************************************************************)
THEOREM ImHeaderRoundTrip ==
  ASSUME NEW cmd, NEW sid, NEW dest, NEW seq, NEW body \in Seq(Byte),
         IsWord(cmd), IsWord(dest), IsLong(sid), IsLong(seq), IsWord(Len(body))
  PROVE  ImPayloadOf(PackPayload(cmd, sid, dest, seq, body), dest, seq, body)
<1> DEFINE h1 == HostToBe32(cmd)
           h2 == h1 \o HostToBe32(Len(body))
           h3 == h2 \o HostToBe64(sid)
           h4 == h3 \o Zeros(8)
           h5 == h4 \o HostToBe32(dest)
           h6 == h5 \o HostToBe64(seq)
           h7 == h6 \o Zeros(16)
           p == PackPayload(cmd, sid, dest, seq, body)
<1>0. p = h7 \o body
  BY Zenon DEF PackPayload
<1>a. /\ HostToBe64(sid) \in Seq(Byte) /\ Len(HostToBe64(sid)) = 8
      /\ HostToBe64(seq) \in Seq(Byte) /\ Len(HostToBe64(seq)) = 8
      /\ BeToHost64(HostToBe64(seq)) = seq
  BY Word64
<1>b. /\ Zeros(8) \in Seq(Byte) /\ Len(Zeros(8)) = 8
      /\ Zeros(16) \in Seq(Byte) /\ Len(Zeros(16)) = 16
  BY ZeroField, Zenon
<1> HIDE DEF h1, h2, h3, h4, h5, h6, h7, p
<1>1. h1 \in Seq(Byte) /\ Len(h1) = 4
  BY Word32, Zenon DEF h1
<1>2. h2 \in Seq(Byte) /\ Len(h2) = Len(h1) + 4
  BY <1>1, WordAppended, Zenon DEF h2
<1>3. h3 \in Seq(Byte) /\ Len(h3) = Len(h2) + 8
  BY <1>2, <1>a, Appended, Zenon DEF h3
<1>4. h4 \in Seq(Byte) /\ Len(h4) = Len(h3) + 8
  BY <1>3, <1>b, Appended, Zenon DEF h4
<1>5. /\ h5 \in Seq(Byte) /\ Len(h5) = Len(h4) + 4
      /\ BeToHost32(Bytes(h5, Len(h4), 4)) = dest
  BY <1>4, WordAppended, Zenon DEF h5
<1>6. /\ h6 \in Seq(Byte) /\ Len(h6) = Len(h5) + 8 /\ Keeps(h5, h6)
      /\ BeToHost64(Bytes(h6, Len(h5), 8)) = seq
  BY <1>5, <1>a, Appended, Zenon DEF h6
<1>7. h7 \in Seq(Byte) /\ Len(h7) = Len(h6) + 16 /\ Keeps(h6, h7)
  BY <1>6, <1>b, Appended, ZenonT(40) DEF h7
<1>8. p \in Seq(Byte) /\ Len(p) = Len(h7) + Len(body) /\ Keeps(h7, p)
  BY <1>0, <1>7, Appended, Zenon
<1>9. Len(h4) = 24 /\ Len(h5) = 28 /\ Len(h6) = 36 /\ Len(h7) = 52
  BY <1>1, <1>2, <1>3, <1>4, <1>5, <1>6, <1>7, SMT
<1>10. Bytes(p, 24, 4) = Bytes(h5, 24, 4) /\ Bytes(p, 28, 8) = Bytes(h6, 28, 8)
  BY <1>6, <1>7, <1>8, <1>9, SMT DEF Keeps
<1>11. ~(Len(p) < 52)
  BY <1>8, <1>9, SMT
<1> QED
  BY <1>5, <1>6, <1>8, <1>9, <1>10, <1>11
     DEF p, ImPayloadOf, ReadDestNid, ReadSeq, kHeaderSize, kOffsetNid, kOffsetSeq

(***************************************************************************)
(* A string without a zero byte comes back from its field, cut off where   *)
(* the field ends: strnlen stops at the first zero of the filling, or at   *)
(* the end of a field the string fills.                                    *)
(***************************************************************************)
LEMMA FieldRoundTrip ==
  ASSUME NEW str \in Seq(Byte \ {0}), NEW n \in Nat
  PROVE  /\ FixedField(str, n) \in Seq(Byte)
         /\ Len(FixedField(str, n)) = n
         /\ FieldString(FixedField(str, n))
              = SubSeq(str, 1, IF Len(str) < n THEN Len(str) ELSE n)
<1> DEFINE f == FixedField(str, n)
           m == IF Len(str) < n THEN Len(str) ELSE n
           Ends(k) == /\ \A i \in 1 .. k : f[i] # 0
                      /\ k < Len(f) => f[k + 1] = 0
<1>1. Len(str) \in Nat /\ \A i \in 1 .. Len(str) : str[i] \in Byte /\ str[i] # 0
  BY SMT
<1>2. f \in Seq(Byte) /\ Len(f) = n
  BY <1>1, SMT DEF FixedField, Byte
<1>3. \A i \in 1 .. n : f[i] = IF i <= Len(str) THEN str[i] ELSE 0
  BY SMT DEF FixedField
<1> HIDE DEF f
<1>4. m \in 0 .. Len(f) /\ Ends(m)
  BY <1>1, <1>2, <1>3, SMT
<1>5. ASSUME NEW k \in 0 .. Len(f), Ends(k)
      PROVE  k = m
  BY <1>1, <1>2, <1>3, <1>5, SMT
<1>6. FieldString(f) = SubSeq(f, 1, CHOOSE k \in 0 .. Len(f) : Ends(k))
  BY Zenon DEF FieldString
<1> HIDE DEF Ends
<1>7. (CHOOSE k \in 0 .. Len(f) : Ends(k)) = m
  BY <1>4, <1>5, Zenon
<1>8. FieldString(f) = SubSeq(f, 1, m)
  BY <1>6, <1>7, Zenon
<1>9. SubSeq(f, 1, m) = SubSeq(str, 1, m)
  BY <1>1, <1>2, <1>3, <1>4, SMT
<1> QED
  BY <1>2, <1>8, <1>9 DEF f

\* p is an AUTH payload in which these are read.
AuthPayloadOf(p, gid, user, passwd, nid) ==
  /\ p \in Seq(Byte) /\ IsWord(Len(p))
  /\ DecodesAuthPayload(p)
  /\ AuthGid(p) = gid /\ AuthNid(p) = nid
  /\ AuthUser(p) = FixedField(user, kAuthUserLen)
  /\ AuthPasswd(p) = FixedField(passwd, kAuthPassLen)

(***************************************************************************)
(* The payload of AUTH is read as it was written, whatever the sizes of    *)
(* the two fields: the ids, and of the strings what fits their fields.     *)
(***************************************************************************)
THEOREM AuthRoundTrip ==
  ASSUME NEW gid, NEW nid, IsWord(gid), IsWord(nid),
         NEW user \in Seq(Byte \ {0}), NEW passwd \in Seq(Byte \ {0})
  PROVE  AuthPayloadOf(MakeAuthPayload(gid, user, passwd, nid), gid, user, passwd, nid)
<1> DEFINE u == FixedField(user, kAuthUserLen)
           w == FixedField(passwd, kAuthPassLen)
           h1 == HostToBe32(gid)
           h2 == h1 \o u
           h3 == h2 \o w
           p == MakeAuthPayload(gid, user, passwd, nid)
<1>1. kAuthUserLen \in Nat /\ kAuthPassLen \in Nat
  BY AuthFieldsAssumption
<1>2. p = h3 \o HostToBe32(nid)
  BY Zenon DEF MakeAuthPayload
<1>3. u \in Seq(Byte) /\ Len(u) = kAuthUserLen /\ w \in Seq(Byte) /\ Len(w) = kAuthPassLen
  BY <1>1, FieldRoundTrip, Zenon
<1> HIDE DEF u, w, h1, h2, h3, p
<1>4. h1 \in Seq(Byte) /\ Len(h1) = 4 /\ BeToHost32(Bytes(h1, 0, 4)) = gid
  BY Word32, BytesAll, Zenon DEF h1
<1>5. /\ h2 \in Seq(Byte) /\ Len(h2) = Len(h1) + kAuthUserLen /\ Keeps(h1, h2)
      /\ Bytes(h2, Len(h1), kAuthUserLen) = u
  BY <1>3, <1>4, Appended, Zenon DEF h2
<1>6. /\ h3 \in Seq(Byte) /\ Len(h3) = Len(h2) + kAuthPassLen /\ Keeps(h2, h3)
      /\ Bytes(h3, Len(h2), kAuthPassLen) = w
  BY <1>3, <1>5, Appended, Zenon DEF h3
<1>7. /\ p \in Seq(Byte) /\ Len(p) = Len(h3) + 4 /\ Keeps(h3, p)
      /\ BeToHost32(Bytes(p, Len(h3), 4)) = nid
  BY <1>2, <1>6, WordAppended, Zenon
<1>8. /\ Len(h2) = 4 + kAuthUserLen /\ Len(h3) = 4 + kAuthUserLen + kAuthPassLen
      /\ Len(p) = 4 + kAuthUserLen + kAuthPassLen + 4
  BY <1>1, <1>4, <1>5, <1>6, <1>7, Zenon
<1>9. /\ Bytes(p, 0, 4) = Bytes(h1, 0, 4)
      /\ Bytes(p, 4, kAuthUserLen) = Bytes(h2, 4, kAuthUserLen)
      /\ Bytes(p, 4 + kAuthUserLen, kAuthPassLen) = Bytes(h3, 4 + kAuthUserLen, kAuthPassLen)
  BY <1>1, <1>4, <1>5, <1>6, <1>7, <1>8, SMTT(30) DEF Keeps
<1>10. /\ AuthGid(p) = gid /\ AuthNid(p) = nid
       /\ AuthUser(p) = u /\ AuthPasswd(p) = w
  BY <1>4, <1>5, <1>6, <1>7, <1>8, <1>9, Zenon DEF AuthGid, AuthNid, AuthUser, AuthPasswd
<1>11. Len(p) >= kAuthPayloadSize
  BY <1>1, <1>8, SMT DEF kAuthPayloadSize
<1>12. IsWord(Len(p))
  BY <1>8, AuthFieldsAssumption, Zenon
<1> QED
  BY <1>7, <1>10, <1>11, <1>12, Zenon DEF AuthPayloadOf, DecodesAuthPayload, u, w, p

-----------------------------------------------------------------------------
(* AUTH and the downlink                                                   *)


(***************************************************************************)
(* The small numbers are 32-bit numbers.                                   *)
(***************************************************************************)
LEMMA Words ==
  /\ IsWord(0) /\ IsWord(kFlagSys) /\ IsWord(kFlagExp) /\ IsWord(kAuthReq) /\ IsWord(kAuthAck)
  /\ \A n, k \in Nat : IsWord(n) /\ k <= n => IsWord(k)
  /\ \A n \in Nat : n < kHeaderSize => IsWord(n)
BY SMT DEF IsWord, Byte, kFlagSys, kFlagExp, kAuthReq, kAuthAck, kHeaderSize

\* The Hub is configured with what of the client's strings fits the fields.
Matches ==
  Cut(auth.user, kAuthUserLen) = cfg.user /\ Cut(auth.pass, kAuthPassLen) = cfg.pass

\* What is known of the message whose frame is on its way.
GoodMessage(m) ==
  /\ m.payload \in Seq(Byte) /\ IsWord(Len(m.payload))
  /\ IsWord(m.cmd) /\ IsWord(m.dest)
  /\ ReadDestNid(m.payload) = m.dest /\ ReadSeq(m.payload) = m.seq

DownlinkInv ==
  /\ cfg \in [user : Users, pass : Passes]
  /\ auth \in [gid : Gids, user : Users, pass : Passes, nid : Nids]
  /\ stage = "auth" => wire = EncodeAuthFrame(auth.gid, auth.user, auth.pass, auth.nid)
  /\ stage = "sent" =>
       GoodMessage(msg) /\ wire = EncodeFrame(msg.cmd, ServiceNid, kFlagExp, msg.payload)
  /\ AuthExact /\ DownlinkExact /\ LogAgrees

(***************************************************************************)
(* The log describes an encoded frame by what it was encoded from.         *)
(***************************************************************************)
LEMMA LoggedFrame ==
  ASSUME NEW m, GoodMessage(m)
  PROVE  ParseRouteLogMeta(EncodeFrame(m.cmd, m.dest, kFlagExp, m.payload))
           = [wire_cmd |-> m.cmd, wire_nid |-> m.dest, im_dest_nid |-> m.dest,
              im_seq |-> m.seq]
<1> DEFINE f == EncodeFrame(m.cmd, m.dest, kFlagExp, m.payload)
<1>1. FrameOf(f, m.cmd, m.dest, kFlagExp, m.payload)
  BY FrameRoundTrip, Words, Zenon DEF GoodMessage
<1> HIDE DEF f
<1>2. Len(m.payload) \in Nat /\ Len(f) - kWireHeaderSize = Len(m.payload)
  BY <1>1, SMT DEF FrameOf, GoodMessage, kWireHeaderSize
<1>3. Bytes(f, kWireHeaderSize, Len(f) - kWireHeaderSize) = m.payload
  BY <1>1, <1>2, Zenon DEF FrameOf, Payload
<1>4. ParseRouteLogMeta(f)
        = [wire_cmd |-> Type(f), wire_nid |-> Nid(f),
           im_dest_nid |-> ReadDestNid(m.payload), im_seq |-> ReadSeq(m.payload)]
  BY <1>1, <1>3, Zenon DEF FrameOf, ParseRouteLogMeta
<1> QED
  BY <1>1, <1>4, Zenon DEF FrameOf, GoodMessage, f

(***************************************************************************)
(* The Hub finds in an AUTH frame what the client put there, and lets it   *)
(* in exactly when the strings match.                                      *)
(***************************************************************************)
LEMMA AuthFrame ==
  ASSUME DownlinkInv, stage = "auth"
  PROVE  /\ DecodesAuthPayload(Payload(wire))
         /\ AuthGid(Payload(wire)) = auth.gid /\ AuthNid(Payload(wire)) = auth.nid
         /\ CredentialsMatch(cfg, Payload(wire)) <=> Matches
<1> DEFINE p == MakeAuthPayload(auth.gid, auth.user, auth.pass, auth.nid)
<1>1. /\ IsWord(auth.gid) /\ IsWord(auth.nid)
      /\ auth.user \in Seq(Byte \ {0}) /\ auth.pass \in Seq(Byte \ {0})
  BY DownlinkAssumption, Zenon DEF DownlinkInv
<1>2. AuthPayloadOf(p, auth.gid, auth.user, auth.pass, auth.nid)
  BY <1>1, AuthRoundTrip, Zenon
<1> HIDE DEF p
<1>3. FrameOf(EncodeFrame(kAuthReq, auth.nid, kFlagSys, p), kAuthReq, auth.nid, kFlagSys, p)
  BY <1>1, <1>2, Words, FrameRoundTrip, Zenon DEF AuthPayloadOf
<1>4. Payload(wire) = p
  BY <1>3, Zenon DEF DownlinkInv, EncodeAuthFrame, FrameOf, p
<1>5. kAuthUserLen \in Nat /\ kAuthPassLen \in Nat
  BY AuthFieldsAssumption
<1>6. /\ FieldString(AuthUser(p)) = Cut(auth.user, kAuthUserLen)
      /\ FieldString(AuthPasswd(p)) = Cut(auth.pass, kAuthPassLen)
  BY <1>1, <1>2, <1>5, FieldRoundTrip, Zenon DEF Cut, AuthPayloadOf
<1> QED
  BY <1>2, <1>4, <1>6, Zenon DEF AuthPayloadOf, CredentialsMatch, Matches

(***************************************************************************)
(* Every step preserves the invariant.                                     *)
(***************************************************************************)
LEMMA StepPreserves ==
  ASSUME DownlinkInv, [DownlinkNext]_downlinkVars
  PROVE  DownlinkInv'
<1>1. CASE GatewayAuth
  BY <1>1, Zenon DEF DownlinkInv, GatewayAuth, AuthExact, DownlinkExact, LogAgrees
<1>2. CASE HubAuth
  BY <1>2, AuthFrame, Zenon DEF DownlinkInv, HubAuth, Matches, AuthExact, DownlinkExact, LogAgrees
<1>3. ASSUME NEW cmd, NEW payload, NEW dest, NEW seq, ServiceSends(cmd, payload, dest, seq),
             GoodMessage([cmd |-> cmd, dest |-> dest, seq |-> seq, payload |-> payload])
      PROVE  DownlinkInv'
  BY <1>3, Zenon DEF DownlinkInv, ServiceSends, AuthExact, DownlinkExact, LogAgrees
<1>4. ASSUME NEW cmd \in Cmds, NEW dest \in Nids, NEW seq \in Seqs, NEW body \in Bodies,
             ServiceSends(cmd, PackPayload(cmd, <<0, 1>>, dest, seq, body), dest, seq)
      PROVE  DownlinkInv'
  <2> DEFINE p == PackPayload(cmd, <<0, 1>>, dest, seq, body)
  <2>1. body \in Seq(Byte) /\ IsWord(kHeaderSize + Len(body))
    BY DownlinkAssumption, Zenon
  <2>2. Len(body) \in Nat /\ kHeaderSize + Len(body) \in Nat /\ Len(body) <= kHeaderSize + Len(body)
    BY <2>1, SMT DEF kHeaderSize
  <2>3. IsWord(Len(body))
    BY <2>1, <2>2, Words, Zenon
  <2>4. IsWord(cmd) /\ IsWord(dest) /\ IsLong(seq)
    BY DownlinkAssumption, Zenon DEF IsLong
  <2>5. IsLong(<<0, 1>>)
    BY SMT DEF IsLong, IsWord, Byte
  <2>6. ImPayloadOf(p, dest, seq, body)
    BY <2>1, <2>3, <2>4, <2>5, ImHeaderRoundTrip, Zenon
  <2> HIDE DEF p
  <2>7. GoodMessage([cmd |-> cmd, dest |-> dest, seq |-> seq, payload |-> p])
    BY <2>1, <2>4, <2>6, Zenon DEF GoodMessage, ImPayloadOf
  <2> QED
    BY <1>3, <1>4, <2>7, Zenon DEF p
<1>5. ASSUME NEW cmd \in Cmds, NEW payload \in ShortPayloads,
             ServiceSends(cmd, payload, 0, <<0, 0>>)
      PROVE  DownlinkInv'
  <2>1. payload \in Seq(Byte) /\ Len(payload) < kHeaderSize /\ IsWord(cmd)
    BY DownlinkAssumption, Zenon
  <2>2. IsWord(Len(payload)) /\ IsWord(0)
    <3>1. Len(payload) \in Nat
      BY <2>1
    <3> QED
      BY <2>1, <3>1, Words, Zenon
  <2>3. GoodMessage([cmd |-> cmd, dest |-> 0, seq |-> <<0, 0>>, payload |-> payload])
    BY <2>1, <2>2, Zenon DEF GoodMessage, ReadDestNid, ReadSeq
  <2> QED
    BY <1>3, <1>5, <2>3, Zenon
<1>6. CASE HubForwards
  <2> DEFINE f == EncodeFrame(msg.cmd, msg.dest, kFlagExp, msg.payload)
  <2>0. session.nid = auth.nid
    BY <1>6 DEF DownlinkInv, HubForwards, AuthExact
  <2>1. /\ stage = "sent" /\ GoodMessage(msg)
        /\ wire = EncodeFrame(msg.cmd, ServiceNid, kFlagExp, msg.payload)
    BY <1>6, Zenon DEF DownlinkInv, HubForwards
  <2>2. IsWord(ServiceNid)
    BY DownlinkAssumption, Zenon
  <2>3. FrameOf(EncodeFrame(msg.cmd, ServiceNid, kFlagExp, msg.payload),
                msg.cmd, ServiceNid, kFlagExp, msg.payload)
    BY <2>1, <2>2, Words, FrameRoundTrip, Zenon DEF GoodMessage
  <2>4. FrameOf(f, msg.cmd, msg.dest, kFlagExp, msg.payload)
    BY <2>1, Words, FrameRoundTrip, Zenon DEF GoodMessage
  <2>5. ParseRouteLogMeta(f)
          = [wire_cmd |-> msg.cmd, wire_nid |-> msg.dest, im_dest_nid |-> msg.dest,
             im_seq |-> msg.seq]
    BY <2>1, LoggedFrame, Zenon
  <2> HIDE DEF f
  <2>6. \/ /\ msg.dest = auth.nid /\ wire' = f /\ meta' = ParseRouteLogMeta(f)
           /\ stage' = "delivered"
        \/ /\ msg.dest = 0 \/ msg.dest # auth.nid
           /\ stage' = "dropped"
    BY <1>6, <2>0, <2>1, <2>3, Zenon DEF HubForwards, GoodMessage, FrameOf, f
  <2>7. cfg' = cfg /\ auth' = auth /\ session' = session /\ msg' = msg
    BY <1>6, Zenon DEF HubForwards
  <2>8. AuthExact'
    BY <2>1, <2>6, <2>7, Zenon DEF DownlinkInv, AuthExact
  <2>9. DownlinkExact' /\ LogAgrees'
    BY <2>1, <2>4, <2>5, <2>6, <2>7, Zenon DEF DownlinkExact, LogAgrees, GoodMessage, FrameOf
  <2> QED
    BY <2>6, <2>7, <2>8, <2>9, Zenon DEF DownlinkInv
<1>7. CASE UNCHANGED downlinkVars
  BY <1>7, Zenon DEF DownlinkInv, downlinkVars, AuthExact, DownlinkExact, LogAgrees
<1> QED
  BY <1>1, <1>2, <1>4, <1>5, <1>6, <1>7, Zenon DEF DownlinkNext

(***************************************************************************)
(* The invariant holds throughout.                                         *)
(***************************************************************************)
LEMMA DownlinkInvariance == DownlinkSpec => []DownlinkInv
<1>1. DownlinkInit => DownlinkInv
  BY Zenon DEF DownlinkInit, DownlinkInv, AuthExact, DownlinkExact, LogAgrees
<1>2. DownlinkInv /\ [DownlinkNext]_downlinkVars => DownlinkInv'
  BY StepPreserves
<1> QED
  BY <1>1, <1>2, PTL DEF DownlinkSpec

(***************************************************************************)
(* HandleSystem lets a client in exactly when what fits the two fields of  *)
(* AUTH is what the Hub is configured with.                                *)
(***************************************************************************)
THEOREM AuthIsExact == DownlinkSpec => []AuthExact
<1>1. DownlinkInv => AuthExact
  BY DEF DownlinkInv
<1> QED
  BY <1>1, DownlinkInvariance, PTL

(***************************************************************************)
(* A frame reaches the gateway exactly when it is for it, and unchanged.   *)
(***************************************************************************)
THEOREM DownlinkIsExact == DownlinkSpec => []DownlinkExact
<1>1. DownlinkInv => DownlinkExact
  BY DEF DownlinkInv
<1> QED
  BY <1>1, DownlinkInvariance, PTL

(***************************************************************************)
(* ParseRouteLogMeta describes every bridged frame as it was sent.         *)
(***************************************************************************)
THEOREM LogTellsTheTruth == DownlinkSpec => []LogAgrees
<1>1. DownlinkInv => LogAgrees
  BY DEF DownlinkInv
<1> QED
  BY <1>1, DownlinkInvariance, PTL

-----------------------------------------------------------------------------
(* The Hub's process                                                       *)

\* While Start goes on, it is in a round of the loop it is in, and the planes
\* whose listener it has passed listen.
InStart ==
  main = "start" =>
    /\ status = 0 /\ nth <= Instances(StartOrder[at])
    /\ at > 1 => "forward" \in listening
    /\ at > 2 => "backend" \in listening

\* Stop has closed the sockets of the statements it has passed.
InStop ==
  /\ main = "serve" => status = 0 /\ at = 1 /\ nth = 1
  /\ main = "stop" =>
       at <= 5 /\ nth = 1 /\ \A n \in 1 .. 5 : n < at => sockets \cap ShutsDown[n] = {}
  /\ main \in {"wait", "destroy", "exit"} => sockets = {}

\* Wait has yet to come to t.
Ahead(t) == \E n \in at .. 9 : t[1] = WaitOrder[n] /\ (n = at => t[2] >= nth)

\* Every thread yet to be joined is ahead, and none is left behind the end.
InWait ==
  /\ main = "wait" => status = 0 /\ nth <= Instances(WaitOrder[at]) /\ \A t \in joinable : Ahead(t)
  /\ main = "destroy" /\ status = 0 => joinable = {}
  /\ main = "exit" => joinable = {}
  /\ main = "terminated" => status = 1

\* The inductive invariant of the Hub's process.
LifecycleInv ==
  /\ LifecycleTypeOK
  /\ epolls \subseteq joinable
  /\ HealthThread \in joinable => IsReady
  /\ ReadyOnceAsked
  /\ InStart /\ InStop /\ InWait

(***************************************************************************)
(* The two lists of parts, as Start and Wait of HubServer execute them.    *)
(***************************************************************************)
LEMMA Orders ==
  /\ Len(StartOrder) = 9 /\ Len(WaitOrder) = 9 /\ Len(RequestsStop) = 5
  /\ StartOrder[1] = <<"listener", "forward">> /\ StartOrder[2] = <<"listener", "backend">>
  /\ StartOrder[3] = <<"dist", "forward">> /\ StartOrder[4] = <<"dist", "backend">>
  /\ StartOrder[5] = <<"reactor", "forward">> /\ StartOrder[6] = <<"reactor", "backend">>
  /\ StartOrder[7] = <<"worker", "forward">> /\ StartOrder[8] = <<"worker", "backend">>
  /\ StartOrder[9] = HealthPart
  /\ WaitOrder[1] = <<"listener", "forward">> /\ WaitOrder[2] = <<"listener", "backend">>
  /\ WaitOrder[3] = <<"reactor", "forward">> /\ WaitOrder[4] = <<"reactor", "backend">>
  /\ WaitOrder[5] = <<"worker", "forward">> /\ WaitOrder[6] = <<"worker", "backend">>
  /\ WaitOrder[7] = <<"dist", "forward">> /\ WaitOrder[8] = <<"dist", "backend">>
  /\ WaitOrder[9] = HealthPart
BY DEF StartOrder, WaitOrder, RequestsStop, HealthPart

(***************************************************************************)
(* Whatever the configuration says, every loop of Start runs at least once *)
(* and no longer than there are threads.                                   *)
(***************************************************************************)
LEMMA LoopBounds ==
  /\ reactors \in Nat /\ workers \in Nat /\ reactors >= 1 /\ workers >= 1
  /\ \A part : Instances(part) \in 1 .. reactors + workers
<1>1. reactors \in Nat /\ workers \in Nat /\ reactors >= 1 /\ workers >= 1
  BY ThreadCounts DEF reactors, workers, AtLeastOne
<1> QED
  BY <1>1 DEF Instances

(***************************************************************************)
(* Only reactors and workers are started in a loop.                        *)
(***************************************************************************)
LEMMA SingleParts ==
  /\ Instances(HealthPart) = 1
  /\ \A plane : Instances(<<"listener", plane>>) = 1 /\ Instances(<<"dist", plane>>) = 1
  /\ Instances(<<"reactor", "forward">>) = Instances(<<"reactor", "backend">>)
  /\ Instances(<<"worker", "forward">>) = Instances(<<"worker", "backend">>)
BY DEF Instances, HealthPart

(***************************************************************************)
(* Every part of the Hub is in both lists: Wait comes to all that Start    *)
(* has started.                                                            *)
(***************************************************************************)
LEMMA PartsInBoth ==
  /\ Parts = {StartOrder[n] : n \in 1 .. 9}
  /\ \A part \in Parts : \E n \in 1 .. 9 : part = WaitOrder[n]
<1>1. Parts = {StartOrder[n] : n \in 1 .. 9}
  BY Orders DEF Parts
<1>2. ASSUME NEW n \in 1 .. 9
      PROVE  \E m \in 1 .. 9 : StartOrder[n] = WaitOrder[m]
  <2>1. n = 1 \/ n = 2 \/ n = 3 \/ n = 4 \/ n = 5 \/ n = 6 \/ n = 7 \/ n = 8 \/ n = 9
    OBVIOUS
  <2>2. /\ 1 \in 1 .. 9 /\ 2 \in 1 .. 9 /\ 3 \in 1 .. 9 /\ 4 \in 1 .. 9 /\ 5 \in 1 .. 9
        /\ 6 \in 1 .. 9 /\ 7 \in 1 .. 9 /\ 8 \in 1 .. 9 /\ 9 \in 1 .. 9
    OBVIOUS
  <2> QED
    BY <2>1, <2>2, Orders, ZenonT(40)
<1> QED
  BY <1>1, <1>2, ZenonT(40)

(***************************************************************************)
(* A thread that Start is about to start is a thread of the Hub, and it is *)
(* a listener or the health server's exactly where the list says so.       *)
(***************************************************************************)
LEMMA StartingParts ==
  ASSUME LifecycleTypeOK, InStart, NEW t, Starting(t)
  PROVE  /\ main = "start" /\ at \in 1 .. 9 /\ nth \in 1 .. reactors + workers
         /\ t \in HubThreads /\ t[1] = StartOrder[at] /\ t[2] = nth
         /\ t = Listener("forward") => at = 1
         /\ t = Listener("backend") => at = 2
         /\ t = HealthThread => at = 9
         /\ at = 1 => t = Listener("forward")
         /\ at = 2 => t = Listener("backend")
         /\ at = 9 => t = HealthThread
<1>1. main = "start" /\ at \in 1 .. 9 /\ nth \in 1 .. reactors + workers
  BY Zenon DEF LifecycleTypeOK, Starting
<1>2. t = <<StartOrder[at], nth>> /\ nth <= Instances(StartOrder[at])
  BY <1>1, Zenon DEF Starting, InStart
<1>3. StartOrder[at] \in Parts
  BY <1>1, PartsInBoth, Zenon
<1>4. t \in HubThreads /\ t[1] = StartOrder[at] /\ t[2] = nth
  BY <1>1, <1>2, <1>3 DEF HubThreads
<1>5. /\ StartOrder[at] = <<"listener", "forward">> => at = 1
      /\ StartOrder[at] = <<"listener", "backend">> => at = 2
      /\ StartOrder[at] = HealthPart => at = 9
  BY <1>1, Orders DEF HealthPart
<1>6. /\ Instances(<<"listener", "forward">>) = 1 /\ Instances(<<"listener", "backend">>) = 1
      /\ Instances(HealthPart) = 1
  BY SingleParts, Zenon
<1>7. at \in {1, 2, 9} => nth = 1
  BY <1>1, <1>2, <1>6, Orders, SMTT(30)
<1>8. /\ t = Listener("forward") => at = 1
      /\ t = Listener("backend") => at = 2
      /\ t = HealthThread => at = 9
  BY <1>2, <1>5 DEF Listener, HealthThread
<1>9. /\ at = 1 => t = Listener("forward")
      /\ at = 2 => t = Listener("backend")
      /\ at = 9 => t = HealthThread
  BY <1>2, <1>7, Orders, Zenon DEF Listener, HealthThread
<1> QED
  BY <1>1, <1>4, <1>8, <1>9, Zenon

(***************************************************************************)
(* Start goes from statement to statement and through its loops: it passes *)
(* both listeners first and comes to the health server last.               *)
(***************************************************************************)
LEMMA StartMoves ==
  ASSUME LifecycleTypeOK, InStart, main = "start", StartAdvance
  PROVE  /\ at' \in 1 .. 9 /\ nth' \in 1 .. reactors + workers
         /\ \/ main' = "start" /\ nth' <= Instances(StartOrder[at'])
            \/ main' = "serve" /\ at = 9 /\ at' = 1 /\ nth' = 1
         /\ at = 1 => at' = 2
         /\ at = 2 => at' = 3
         /\ at > 2 /\ main' = "start" => at' > 2
<1> DEFINE I == Instances(StartOrder[at])
<1>1. at \in 1 .. 9 /\ nth \in 1 .. reactors + workers /\ nth <= I
  BY Zenon DEF LifecycleTypeOK, InStart
<1>2. /\ \A part : Instances(part) \in 1 .. reactors + workers
      /\ reactors \in Nat /\ workers \in Nat /\ reactors >= 1
  BY LoopBounds, Zenon
<1>3. /\ StartOrder[1][2] = "forward" /\ StartOrder[3][2] = "forward"
      /\ StartOrder[5][2] = "forward" /\ StartOrder[7][2] = "forward"
      /\ StartOrder[2][2] = "backend" /\ StartOrder[4][2] = "backend"
      /\ StartOrder[6][2] = "backend" /\ StartOrder[8][2] = "backend"
      /\ StartOrder[9][2] = "health"
  BY Orders DEF HealthPart
<1>4. /\ Instances(StartOrder[1]) = 1 /\ Instances(StartOrder[2]) = 1
      /\ Instances(StartOrder[3]) = 1 /\ Instances(StartOrder[4]) = 1
      /\ Instances(StartOrder[5]) = Instances(StartOrder[6])
      /\ Instances(StartOrder[7]) = Instances(StartOrder[8])
      /\ Instances(StartOrder[9]) = 1
  BY Orders, SingleParts, ZenonT(40)
<1>5. CASE StartOrder[at][2] = "backend" /\ nth < I
  <2>1. at' = at - 1 /\ nth' = nth + 1 /\ main' = main
    BY <1>5, Zenon DEF StartAdvance
  <2>2. at \in {6, 8}
    BY <1>1, <1>3, <1>4, <1>5, SMTT(30)
  <2>3. I \in 1 .. reactors + workers /\ I = Instances(StartOrder[at'])
    BY <1>2, <1>4, <2>1, <2>2
  <2> HIDE DEF I
  <2> QED
    BY <1>1, <1>2, <1>5, <2>1, <2>2, <2>3
<1>6. CASE ~(StartOrder[at][2] = "backend" /\ nth < I)
  <2>1. Advance(StartOrder, "serve") /\ nth' = IF StartOrder[at][2] = "forward" THEN nth ELSE 1
    BY <1>6, Zenon DEF StartAdvance
  <2>2. IF at < 9 THEN at' = at + 1 /\ main' = "start" ELSE at' = 1 /\ main' = "serve"
    BY <2>1, Orders, Zenon DEF Advance
  <2>3. nth' <= Instances(StartOrder[at'])  \/ at = 9
    <3>1. CASE at \in {1, 3, 5, 7}
      <4>1. nth' = nth /\ at' = at + 1
        BY <1>3, <2>1, <2>2, <3>1
      <4>2. Instances(StartOrder[at']) = I
        BY <1>4, <3>1, <4>1
      <4> HIDE DEF I
      <4> QED
        BY <1>1, <4>1, <4>2
    <3>2. CASE at \in {2, 4, 6, 8}
      <4>1. nth' = 1
        BY <1>3, <2>1, <3>2, SMTT(30)
      <4> QED
        BY <1>2, <4>1
    <3> QED
      BY <1>1, <3>1, <3>2
  <2>4. nth' \in 1 .. reactors + workers /\ (at = 9 => nth' = 1)
    BY <1>1, <1>2, <1>3, <2>1
  <2> QED
    BY <1>1, <2>2, <2>3, <2>4
<1> QED
  BY <1>5, <1>6, Zenon

(***************************************************************************)
(* The shape of a thread's name.                                           *)
(***************************************************************************)
LEMMA ThreadShape ==
  /\ \A t \in HubThreads :
       /\ t[1] \in Parts /\ t[2] \in 1 .. reactors + workers /\ t[2] <= Instances(t[1])
       /\ t = <<t[1], t[2]>>
  /\ HealthThread \in HubThreads /\ Kind(HealthThread) = "health"
  /\ \A plane : Kind(Listener(plane)) = "listener" /\ PlaneOf(Listener(plane)) = plane
<1>1. \A t \in HubThreads :
       /\ t[1] \in Parts /\ t[2] \in 1 .. reactors + workers /\ t[2] <= Instances(t[1])
       /\ t = <<t[1], t[2]>>
  BY DEF HubThreads
<1>2. HealthThread[1] = HealthPart /\ HealthThread[2] = 1 /\ Kind(HealthThread) = "health"
  BY DEF HealthThread, HealthPart, Kind
<1>3. HealthPart \in Parts
  <2>1. 9 \in 1 .. 9
    OBVIOUS
  <2> QED
    BY <2>1, Orders, PartsInBoth, Zenon
<1>4. 1 \in 1 .. reactors + workers /\ 1 <= Instances(HealthPart)
  BY LoopBounds, SingleParts
<1>5. HealthThread \in HubThreads
  BY <1>2, <1>3, <1>4 DEF HubThreads, HealthThread
<1> QED
  BY <1>1, <1>2, <1>5 DEF Listener, Kind, PlaneOf

(***************************************************************************)
(* A listener starts.                                                      *)
(***************************************************************************)
LEMMA ListenerStartPreserves ==
  ASSUME LifecycleInv, NEW t \in HubThreads, ListenerStart(t)
  PROVE  LifecycleInv'
<1>1. LifecycleTypeOK /\ InStart /\ Starting(t) /\ main = "start" /\ t \in Listeners
  BY Zenon DEF LifecycleInv, ListenerStart, Starting
<1>2. PICK plane \in Planes : t = Listener(plane)
  BY <1>1, Zenon DEF Listeners
<1>3. (plane = "forward" /\ at = 1) \/ (plane = "backend" /\ at = 2)
  BY <1>1, <1>2, StartingParts DEF Planes
<1>4. /\ live' = live \cup {t} /\ joinable' = joinable \cup {t}
      /\ sockets' = sockets \cup {t} /\ listening' = listening \cup {plane}
      /\ StartAdvance
      /\ UNCHANGED <<status, g_stop, running_, epolls, inRecv, answer>>
  BY <1>2, ThreadShape, Zenon DEF ListenerStart, Started, health
<1>5. /\ at' \in 1 .. 9 /\ nth' \in 1 .. reactors + workers
      /\ main' = "start" /\ nth' <= Instances(StartOrder[at'])
      /\ at = 1 => at' = 2
      /\ at = 2 => at' = 3
  BY <1>1, <1>3, <1>4, StartMoves
<1>6. LifecycleTypeOK'
  BY <1>1, <1>2, <1>3, <1>4, <1>5, ZenonT(40) DEF LifecycleTypeOK, Planes
<1>7. t # HealthThread
  BY <1>2, ThreadShape
<1>8. /\ status = 0
      /\ at > 1 => "forward" \in listening
  BY <1>1, Zenon DEF InStart
<1>9. InStart'
  BY <1>3, <1>4, <1>5, <1>8 DEF InStart
<1>10. InStop' /\ InWait'
  BY <1>5 DEF InStop, InWait
<1>11. /\ epolls \subseteq joinable /\ ReadyOnceAsked
       /\ HealthThread \in joinable => listening = Planes
  BY Zenon DEF LifecycleInv, IsReady
<1>12. epolls' \subseteq joinable'
  BY <1>4, <1>11, Zenon
<1>13. HealthThread \in joinable' => IsReady'
  BY <1>2, <1>4, <1>7, <1>11 DEF IsReady
<1>14. ReadyOnceAsked'
  BY <1>4, <1>11, Zenon DEF ReadyOnceAsked
<1> QED
  BY <1>6, <1>9, <1>10, <1>12, <1>13, <1>14, Zenon DEF LifecycleInv

(***************************************************************************)
(* A distributor, a worker or a reactor starts, with or without an epoll   *)
(* instance, or a reactor fails to.                                        *)
(***************************************************************************)
LEMMA LoopStartPreserves ==
  ASSUME LifecycleInv, NEW t \in HubThreads, LoopStart(t) \/ ReactorStart(t)
  PROVE  LifecycleInv'
<1>1. LifecycleTypeOK /\ InStart /\ Starting(t) /\ main = "start"
  BY Zenon DEF LifecycleInv, LoopStart, ReactorStart, Starting
<1>2. Kind(t) \in {"dist", "worker", "reactor"}
  BY Zenon DEF LoopStart, ReactorStart
<1>3. t # HealthThread /\ \A plane : t # Listener(plane)
  BY <1>2, ThreadShape
<1>4. at \in 1 .. 9 /\ at # 1 /\ at # 2 /\ at # 9
  BY <1>1, <1>3, StartingParts
<1>5. /\ \/ /\ live' = live \cup {t} /\ joinable' = joinable \cup {t}
            /\ epolls' = epolls \cup {t} \/ epolls' = epolls
         \/ live' = live /\ joinable' = joinable /\ epolls' = epolls
      /\ StartAdvance
      /\ UNCHANGED <<status, g_stop, running_, listening, sockets, inRecv, answer>>
  BY Zenon DEF LoopStart, ReactorStart, Started, health
<1>6. /\ at' \in 1 .. 9 /\ nth' \in 1 .. reactors + workers
      /\ main' = "start" /\ nth' <= Instances(StartOrder[at'])
  BY <1>1, <1>4, <1>5, StartMoves, Zenon
<1>7. LifecycleTypeOK'
  <2>1. t \notin Listeners
    BY <1>3, Zenon DEF Listeners
  <2> QED
    BY <1>1, <1>3, <1>5, <1>6, <2>1, ZenonT(40) DEF LifecycleTypeOK
<1>8. /\ status = 0
      /\ at > 1 => "forward" \in listening
      /\ at > 2 => "backend" \in listening
  BY <1>1, Zenon DEF InStart
<1>9. at > 1 /\ at > 2
  BY <1>4
<1>10. InStart'
  BY <1>5, <1>6, <1>8, <1>9, Zenon DEF InStart
<1>11. InStop' /\ InWait'
  BY <1>6 DEF InStop, InWait
<1>12. /\ epolls \subseteq joinable /\ ReadyOnceAsked
       /\ HealthThread \in joinable => listening = Planes
  BY Zenon DEF LifecycleInv, IsReady
<1>13. epolls' \subseteq joinable'
  BY <1>5, <1>12, Zenon
<1>14. HealthThread \in joinable' => IsReady'
  BY <1>3, <1>5, <1>12, Zenon DEF IsReady
<1>15. ReadyOnceAsked'
  BY <1>5, <1>12, Zenon DEF ReadyOnceAsked
<1> QED
  BY <1>7, <1>10, <1>11, <1>13, <1>14, <1>15, Zenon DEF LifecycleInv

(***************************************************************************)
(* The health server starts, the last of all.                              *)
(***************************************************************************)
LEMMA HealthStartPreserves ==
  ASSUME LifecycleInv, HealthStart
  PROVE  LifecycleInv'
<1>1. LifecycleTypeOK /\ InStart /\ Starting(HealthThread) /\ main = "start"
  BY Zenon DEF LifecycleInv, HealthStart, Starting
<1>2. at = 9
  BY <1>1, StartingParts
<1>3. /\ live' = live \cup {HealthThread} /\ joinable' = joinable \cup {HealthThread}
      /\ sockets' = sockets \cup {HealthThread} /\ running_' = running_ \cup {"health"}
      /\ StartAdvance
      /\ UNCHANGED <<status, g_stop, listening, epolls, inRecv, answer>>
  BY ZenonT(40) DEF HealthStart, Started, health
<1>4. Advance(StartOrder, "serve") /\ nth' = 1
  <2>1. StartOrder[at][2] = "health"
    BY <1>2, Orders DEF HealthPart
  <2>2. StartOrder[at][2] # "backend" /\ StartOrder[at][2] # "forward"
    BY <2>1, Zenon
  <2> QED
    BY <1>3, <2>2, ZenonT(40) DEF StartAdvance
<1>5. main' = "serve" /\ at' = 1 /\ nth' = 1
  BY <1>2, <1>4, Orders DEF Advance
<1>6. /\ at' \in 1 .. 9 /\ nth' \in 1 .. reactors + workers
  BY <1>5, LoopBounds
<1>7. LifecycleTypeOK'
  BY <1>1, <1>3, <1>5, <1>6, ThreadShape, ZenonT(40) DEF LifecycleTypeOK
<1>8. /\ status = 0
      /\ at > 1 => "forward" \in listening
      /\ at > 2 => "backend" \in listening
      /\ listening \subseteq Planes
  BY <1>1, Zenon DEF InStart, LifecycleTypeOK
<1>9. listening = Planes
  <2>1. at > 1 /\ at > 2
    BY <1>2
  <2> QED
    BY <1>8, <2>1, Zenon DEF Planes
<1>10. InStart' /\ InStop' /\ InWait'
  BY <1>3, <1>5, <1>8 DEF InStart, InStop, InWait
<1>11. epolls \subseteq joinable /\ ReadyOnceAsked
  BY Zenon DEF LifecycleInv
<1>12. epolls' \subseteq joinable' /\ ReadyOnceAsked' /\ IsReady'
  BY <1>3, <1>9, <1>11, Zenon DEF ReadyOnceAsked, IsReady
<1> QED
  BY <1>7, <1>10, <1>12, Zenon DEF LifecycleInv

(***************************************************************************)
(* Start fails, or main sees the signal: Stop begins.                      *)
(***************************************************************************)
LEMMA StopBegins ==
  ASSUME LifecycleInv, StartFails \/ SeeSignal
  PROVE  LifecycleInv'
<1>1. LifecycleTypeOK /\ InStart /\ InStop
  BY Zenon DEF LifecycleInv
<1>2. nth = 1
  <2>1. CASE StartFails
    <3>1. PICK t \in Listeners \cup {HealthThread} : Starting(t)
      BY <2>1, Zenon DEF StartFails
    <3>2. t[2] = 1
      BY DEF Listeners, Listener, HealthThread
    <3> QED
      BY <1>1, <3>1, <3>2, StartingParts
  <2>2. CASE SeeSignal
    BY <1>1, <2>2, Zenon DEF SeeSignal, InStop
  <2> QED
    BY <2>1, <2>2, Zenon
<1>3. /\ main' = "stop" /\ at' = 1 /\ nth' = 1 /\ status' \in {0, 1}
      /\ UNCHANGED <<g_stop, running_, listening, sockets, epolls, live, joinable, inRecv, answer>>
  BY <1>1, <1>2, ZenonT(40)
     DEF StartFails, SeeSignal, threads, health, InStop, LifecycleTypeOK
<1>4. at' \in 1 .. 9 /\ nth' \in 1 .. reactors + workers
  BY <1>3, LoopBounds
<1>5. LifecycleTypeOK'
  BY <1>1, <1>3, <1>4, ZenonT(40) DEF LifecycleTypeOK
<1>6. InStart' /\ InStop' /\ InWait'
  BY <1>3 DEF InStart, InStop, InWait
<1> QED
  BY <1>3, <1>5, <1>6, Zenon DEF LifecycleInv, ReadyOnceAsked, IsReady

(***************************************************************************)
(* A statement of Stop: once the last one is done no socket is left.       *)
(***************************************************************************)
LEMMA StopPreserves ==
  ASSUME LifecycleInv, StopNext
  PROVE  LifecycleInv'
<1>1. /\ LifecycleTypeOK /\ main = "stop" /\ nth = 1 /\ at \in 1 .. 9 /\ at <= 5
      /\ \A n \in 1 .. 5 : n < at => sockets \cap ShutsDown[n] = {}
  BY Zenon DEF LifecycleInv, StopNext, InStop, LifecycleTypeOK
<1>2. /\ running_' = running_ \ {RequestsStop[at]} /\ sockets' = sockets \ ShutsDown[at]
      /\ Advance(RequestsStop, IF status = 0 THEN "wait" ELSE "destroy")
      /\ UNCHANGED <<nth, status, g_stop, listening, epolls, live, joinable, inRecv, answer>>
  BY Zenon DEF StopNext, health
<1>3. \/ at < 5 /\ at' = at + 1 /\ main' = "stop"
      \/ at = 5 /\ at' = 1 /\ main' = IF status = 0 THEN "wait" ELSE "destroy"
  BY <1>1, <1>2, Orders DEF Advance
<1>4. at' \in 1 .. 9
  BY <1>1, <1>3
<1>5. LifecycleTypeOK'
  BY <1>1, <1>2, <1>3, <1>4, ZenonT(40) DEF LifecycleTypeOK
<1>6. \A n \in 1 .. 5 : n <= at => sockets' \cap ShutsDown[n] = {}
  <2>1. \A n \in 1 .. 5 : n <= at => n < at \/ n = at
    BY <1>1
  <2> QED
    BY <1>1, <1>2, <2>1, Zenon
<1>7. CASE at < 5
  <2>1. main' = "stop" /\ at' = at + 1 /\ at' <= 5 /\ \A n \in 1 .. 5 : n < at' => n <= at
    BY <1>1, <1>3, <1>7, SMTT(30)
  <2>2. InStart' /\ InWait'
    BY <2>1 DEF InStart, InWait
  <2>3. InStop'
    BY <1>1, <1>2, <1>6, <2>1, Zenon DEF InStop
  <2> QED
    BY <1>2, <1>5, <2>2, <2>3, Zenon DEF LifecycleInv, ReadyOnceAsked, IsReady
<1>8. CASE at = 5
  <2>1. at' = 1 /\ nth' = 1 /\ main' = IF status = 0 THEN "wait" ELSE "destroy"
    BY <1>1, <1>2, <1>3, <1>8
  <2>2. sockets' = {}
    <3>1. /\ ShutsDown[3] = {HealthThread} /\ ShutsDown[4] = {Listener("forward")}
          /\ ShutsDown[5] = {Listener("backend")}
      BY DEF ShutsDown
    <3>2. /\ 3 \in 1 .. 5 /\ 4 \in 1 .. 5 /\ 5 \in 1 .. 5 /\ 3 <= at /\ 4 <= at /\ 5 <= at
      BY <1>8
    <3>3. /\ HealthThread \notin sockets' /\ Listener("forward") \notin sockets'
          /\ Listener("backend") \notin sockets'
      BY <1>6, <3>1, <3>2, Zenon
    <3>4. sockets' \subseteq Listeners \cup {HealthThread}
      BY <1>5, Zenon DEF LifecycleTypeOK
    <3> QED
      BY <3>3, <3>4, Zenon DEF Listeners, Planes
  <2>3. InStop' /\ InStart'
    BY <2>1, <2>2 DEF InStop, InStart
  <2>4. \A t \in joinable' : Ahead(t)'
    <3> SUFFICES ASSUME NEW t \in joinable'
                 PROVE  Ahead(t)'
      OBVIOUS
    <3>1. t \in HubThreads
      BY <1>5, Zenon DEF LifecycleTypeOK
    <3>2. PICK n \in 1 .. 9 : t[1] = WaitOrder[n]
      BY <3>1, ThreadShape, PartsInBoth, Zenon
    <3>3. t[2] >= 1
      BY <3>1, ThreadShape, LoopBounds
    <3> QED
      BY <2>1, <3>2, <3>3 DEF Ahead
  <2>5. nth' <= Instances(WaitOrder[at'])
    BY <2>1, LoopBounds
  <2>6. InWait'
    BY <1>2, <2>1, <2>4, <2>5 DEF InWait
  <2> QED
    BY <1>2, <1>5, <2>3, <2>6, Zenon DEF LifecycleInv, ReadyOnceAsked, IsReady
<1> QED
  BY <1>3, <1>7, <1>8, Zenon

(***************************************************************************)
(* Wait passes a thread only by joining it, and comes to the end of its    *)
(* list when none is left.                                                 *)
(***************************************************************************)
LEMMA WaitMoves ==
  ASSUME LifecycleTypeOK, InWait, main = "wait", WaitAdvance,
         joinable' = joinable \ {<<WaitOrder[at], nth>>}
  PROVE  /\ at' \in 1 .. 9 /\ nth' \in 1 .. reactors + workers
         /\ \/ /\ main' = "wait" /\ nth' <= Instances(WaitOrder[at'])
               /\ \A t \in joinable' : Ahead(t)'
            \/ main' = "destroy" /\ joinable' = {}
<1> DEFINE I == Instances(WaitOrder[at])
<1>1. /\ at \in 1 .. 9 /\ nth \in 1 .. reactors + workers /\ nth <= I
      /\ joinable \subseteq HubThreads /\ \A t \in joinable : Ahead(t)
  BY Zenon DEF LifecycleTypeOK, InWait
<1>2. /\ \A part : Instances(part) \in 1 .. reactors + workers
      /\ reactors \in Nat /\ workers \in Nat /\ reactors >= 1
  BY LoopBounds, Zenon
\* What is left is later in the list, or later in the same vector.
<1>3. ASSUME NEW t \in joinable'
      PROVE  /\ t[2] \in Nat /\ t[2] >= 1
             /\ \E n \in 1 .. 9 : /\ t[1] = WaitOrder[n]
                                  /\ n > at \/ (n = at /\ nth < t[2] /\ t[2] <= I)
  <2>1. /\ t \in HubThreads /\ Ahead(t) /\ t # <<WaitOrder[at], nth>>
    BY <1>1, Zenon
  <2>2. /\ t = <<t[1], t[2]>> /\ t[2] \in 1 .. reactors + workers /\ t[2] <= Instances(t[1])
    BY <2>1, ThreadShape, Zenon
  <2>3. PICK n \in at .. 9 : t[1] = WaitOrder[n] /\ (n = at => t[2] >= nth)
    BY <2>1, Zenon DEF Ahead
  <2>4. n = at => t[2] # nth /\ t[2] <= I
    BY <2>1, <2>2, <2>3, Zenon
  <2>5. t[2] \in Nat /\ t[2] >= 1
    BY <1>2, <2>2
  <2>6. n \in 1 .. 9 /\ (n > at \/ (n = at /\ nth < t[2] /\ t[2] <= I))
    BY <1>1, <1>2, <2>3, <2>4, <2>5
  <2> QED
    BY <2>3, <2>5, <2>6, Zenon
<1>4. CASE nth < I
  <2>1. nth' = nth + 1 /\ main' = "wait" /\ at' = at
    BY <1>4, Zenon DEF WaitAdvance
  <2>2. nth' <= Instances(WaitOrder[at']) /\ nth' \in 1 .. reactors + workers
    <3>1. I \in 1 .. reactors + workers /\ I = Instances(WaitOrder[at'])
      BY <1>2, <2>1, Zenon
    <3> HIDE DEF I
    <3> QED
      BY <1>1, <1>2, <1>4, <2>1, <3>1
  <2>3. ASSUME NEW t \in joinable'
        PROVE  Ahead(t)'
    <3>1. PICK n \in 1 .. 9 : /\ t[1] = WaitOrder[n]
                              /\ n > at \/ (n = at /\ nth < t[2] /\ t[2] <= I)
      BY <1>3, Zenon
    <3>2. t[2] \in Nat
      BY <1>3, Zenon
    <3>3. n \in at' .. 9 /\ (n = at' => t[2] >= nth')
      BY <1>1, <2>1, <3>1, <3>2
    <3> QED
      BY <3>1, <3>3, Zenon DEF Ahead
  <2> QED
    BY <1>1, <2>1, <2>2, <2>3, Zenon
<1>5. CASE ~(nth < I)
  <2>1. Advance(WaitOrder, "destroy") /\ nth' = 1
    BY <1>5, Zenon DEF WaitAdvance
  <2>2. \/ at < 9 /\ at' = at + 1 /\ main' = "wait"
        \/ at = 9 /\ at' = 1 /\ main' = "destroy"
    BY <1>1, <2>1, Orders, SMTT(30) DEF Advance
  <2>3. at' \in 1 .. 9 /\ nth' \in 1 .. reactors + workers
    BY <1>1, <1>2, <2>1, <2>2
  <2>4. nth' <= Instances(WaitOrder[at'])
    BY <1>2, <2>1
  <2>5. ASSUME NEW t \in joinable'
        PROVE  t[2] \in Nat /\ t[2] >= 1 /\ \E n \in 1 .. 9 : t[1] = WaitOrder[n] /\ n > at
    <3>1. PICK n \in 1 .. 9 : /\ t[1] = WaitOrder[n]
                              /\ n > at \/ (n = at /\ nth < t[2] /\ t[2] <= I)
      BY <1>3, Zenon
    <3>2. t[2] \in Nat /\ t[2] >= 1
      BY <1>3, Zenon
    <3>3. I \in 1 .. reactors + workers
      BY <1>2, Zenon
    <3> HIDE DEF I
    <3>4. n > at
      BY <1>1, <1>2, <1>5, <3>1, <3>2, <3>3, SMTT(30)
    <3> QED
      BY <3>1, <3>2, <3>4, Zenon
  <2>6. CASE at = 9
    <3>1. joinable' = {}
      BY <2>5, <2>6
    <3> QED
      BY <2>2, <2>3, <2>6, <3>1
  <2>7. CASE at < 9
    <3>1. at' = at + 1 /\ main' = "wait"
      BY <1>1, <2>2, <2>7
    <3>2. ASSUME NEW t \in joinable'
          PROVE  Ahead(t)'
      <4>1. PICK n \in 1 .. 9 : t[1] = WaitOrder[n] /\ n > at
        BY <2>5, Zenon
      <4>2. n \in at' .. 9 /\ t[2] >= nth'
        BY <1>1, <2>1, <2>5, <3>1, <4>1
      <4> QED
        BY <4>1, <4>2, Zenon DEF Ahead
    <3> QED
      BY <2>3, <2>4, <3>1, <3>2, Zenon
  <2> QED
    BY <2>2, <2>6, <2>7, Zenon
<1> QED
  BY <1>4, <1>5, Zenon

(***************************************************************************)
(* Wait joins a thread.                                                    *)
(***************************************************************************)
LEMMA JoinPreserves ==
  ASSUME LifecycleInv, JoinNext
  PROVE  LifecycleInv'
<1> DEFINE j == <<WaitOrder[at], nth>>
<1>1. /\ LifecycleTypeOK /\ InStop /\ InWait /\ main = "wait" /\ j \notin live /\ WaitAdvance
      /\ joinable' = joinable \ {j} /\ epolls' = epolls \ {j}
      /\ UNCHANGED <<status, g_stop, running_, listening, sockets, live, inRecv, answer>>
  BY Zenon DEF LifecycleInv, JoinNext, Join, health
<1>2. /\ at' \in 1 .. 9 /\ nth' \in 1 .. reactors + workers
      /\ \/ /\ main' = "wait" /\ nth' <= Instances(WaitOrder[at'])
            /\ \A t \in joinable' : Ahead(t)'
         \/ main' = "destroy" /\ joinable' = {}
  BY <1>1, WaitMoves, Zenon
<1> HIDE DEF j
<1>3. LifecycleTypeOK'
  BY <1>1, <1>2, ZenonT(40) DEF LifecycleTypeOK
<1>4. sockets = {} /\ status = 0
  BY <1>1, ZenonT(40) DEF InStop, InWait
<1>5. InStart' /\ InStop'
  BY <1>1, <1>2, <1>4, ZenonT(40) DEF InStart, InStop
<1>6. InWait'
  BY <1>1, <1>2, <1>4 DEF InWait
<1>7. epolls' \subseteq joinable' /\ (HealthThread \in joinable' => IsReady') /\ ReadyOnceAsked'
  BY <1>1, Zenon DEF LifecycleInv, ReadyOnceAsked, IsReady
<1> QED
  BY <1>3, <1>5, <1>6, <1>7, Zenon DEF LifecycleInv

(***************************************************************************)
(* ~HubServer destroys the threads' objects, and with a joinable one left  *)
(* the process is terminated.                                              *)
(***************************************************************************)
LEMMA DestroyPreserves ==
  ASSUME LifecycleInv, Destroy
  PROVE  LifecycleInv'
<1>1. /\ LifecycleTypeOK /\ InStop /\ InWait /\ main = "destroy"
      /\ main' = IF joinable = {} THEN "exit" ELSE "terminated"
      /\ live' = IF joinable = {} THEN live ELSE {}
      /\ UNCHANGED <<at, nth, status, g_stop, running_, listening, sockets, epolls, joinable,
                     inRecv, answer>>
  BY Zenon DEF LifecycleInv, Destroy, health
<1>2. /\ sockets = {} /\ (status = 0 => joinable = {})
      /\ status \in {0, 1}
  BY <1>1, Zenon DEF InStop, InWait, LifecycleTypeOK
<1>3. LifecycleTypeOK'
  BY <1>1, ZenonT(40) DEF LifecycleTypeOK
<1>4. InStart' /\ InStop' /\ InWait'
  BY <1>1, <1>2, ZenonT(40) DEF InStart, InStop, InWait
<1> QED
  BY <1>1, <1>3, <1>4, Zenon DEF LifecycleInv, ReadyOnceAsked, IsReady

(***************************************************************************)
(* A signal, the end of a thread and the clients of the health server      *)
(* leave main where it is.  An answer is given by a thread that has been   *)
(* started, so both planes listen.                                         *)
(***************************************************************************)
LEMMA OthersPreserve ==
  ASSUME LifecycleInv,
         \/ OnSignal \/ HealthAccept \/ HealthEnds \/ HealthClient
         \/ \E t \in HubThreads : PlaneThreadEnds(t) \/ ListenerWoken(t)
  PROVE  LifecycleInv'
<1>1. /\ UNCHANGED <<main, at, nth, status, running_, listening, sockets, epolls, joinable>>
      /\ live' = live \/ \E t : live' = live \ {t}
      /\ g_stop' = g_stop \/ g_stop' = TRUE
      /\ inRecv' = inRecv \/ inRecv' = TRUE \/ inRecv' = FALSE
  BY ZenonT(40)
     DEF OnSignal, HealthAccept, HealthEnds, HealthClient, PlaneThreadEnds, ListenerWoken,
         ThreadEnds, position, threads, health
<1>2. answer' \in {answer, "none", "ok"}
  <2>1. CASE HealthClient
    <3>1. HealthThread \in joinable
      BY <2>1, Zenon DEF HealthClient, LifecycleInv, LifecycleTypeOK
    <3> QED
      BY <2>1, <3>1, Zenon DEF HealthClient, LifecycleInv
  <2>2. CASE ~HealthClient
    BY <2>2, ZenonT(40)
       DEF OnSignal, HealthAccept, HealthEnds, PlaneThreadEnds, ListenerWoken, ThreadEnds, health
  <2> QED
    BY <2>1, <2>2, Zenon
<1>3. LifecycleTypeOK /\ InStart /\ InStop /\ InWait /\ ReadyOnceAsked
  BY Zenon DEF LifecycleInv
<1>4. LifecycleTypeOK'
  BY <1>1, <1>2, <1>3, ZenonT(40) DEF LifecycleTypeOK
<1>5. ReadyOnceAsked'
  BY <1>2, <1>3 DEF ReadyOnceAsked
<1>6. InStart' /\ InStop'
  BY <1>1, <1>3, Zenon DEF InStart, InStop
<1>7. InWait'
  BY <1>1, <1>3, Zenon DEF InWait, Ahead
<1> QED
  BY <1>1, <1>4, <1>5, <1>6, <1>7, Zenon DEF LifecycleInv, IsReady

(***************************************************************************)
(* LifecycleInv holds of every behaviour of the Hub's process.             *)
(***************************************************************************)
LEMMA LifecycleInvariance == LifecycleSpec => []LifecycleInv
<1>1. LifecycleInit => LifecycleInv
  <2> SUFFICES ASSUME LifecycleInit
               PROVE  LifecycleInv
    OBVIOUS
  <2>1. /\ main = "start" /\ at = 1 /\ nth = 1 /\ status = 0
        /\ listening = {} /\ sockets = {} /\ epolls = {} /\ live = {} /\ joinable = {}
        /\ g_stop = FALSE /\ running_ = Planes /\ inRecv = FALSE /\ answer = "none"
    BY Zenon DEF LifecycleInit
  <2>2. at \in 1 .. 9 /\ nth \in 1 .. reactors + workers /\ nth <= Instances(StartOrder[at])
    BY <2>1, LoopBounds
  <2>3. LifecycleTypeOK
    BY <2>1, <2>2, ZenonT(40) DEF LifecycleTypeOK
  <2>4. InStart /\ InStop /\ InWait
    BY <2>1, <2>2 DEF InStart, InStop, InWait
  <2>5. epolls \subseteq joinable /\ HealthThread \notin joinable /\ ReadyOnceAsked
    BY <2>1 DEF ReadyOnceAsked
  <2> QED
    BY <2>3, <2>4, <2>5, Zenon DEF LifecycleInv
<1>2. LifecycleInv /\ [LifecycleNext]_lifecycleVars => LifecycleInv'
  <2> SUFFICES ASSUME LifecycleInv, [LifecycleNext]_lifecycleVars
               PROVE  LifecycleInv'
    OBVIOUS
  <2>1. CASE Start
    BY <2>1, ListenerStartPreserves, LoopStartPreserves, HealthStartPreserves, StopBegins, Zenon
       DEF Start
  <2>2. CASE SeeSignal \/ StopNext \/ JoinNext \/ Destroy
    BY <2>2, StopBegins, StopPreserves, JoinPreserves, DestroyPreserves, Zenon
  <2>3. CASE OnSignal \/ HealthAccept \/ HealthEnds \/ HealthClient
    BY <2>3, OthersPreserve, Zenon
  <2>4. CASE \E t \in HubThreads : PlaneThreadEnds(t) \/ ListenerWoken(t)
    BY <2>4, OthersPreserve, Zenon
  <2>5. CASE UNCHANGED lifecycleVars
    <3>1. UNCHANGED <<main, at, nth, status, g_stop, running_, listening, sockets, epolls, live,
                      joinable, inRecv, answer>>
      BY <2>5, Zenon DEF lifecycleVars, position, threads, health
    <3> QED
      BY <3>1, ZenonT(120)
         DEF LifecycleInv, LifecycleTypeOK, InStart, InStop, InWait, Ahead, ReadyOnceAsked, IsReady
  <2> QED
    BY <2>1, <2>2, <2>3, <2>4, <2>5, Zenon DEF LifecycleNext, HubMain
<1> QED
  BY <1>1, <1>2, PTL DEF LifecycleSpec

(***************************************************************************)
(* For any number of reactors and workers, whatever is asked for and       *)
(* whichever epoll instances cannot be had, a thread that runs has been    *)
(* started and not joined, and only threads of the Hub hold sockets and    *)
(* epoll instances.                                                        *)
(***************************************************************************)
THEOREM ThreadsAccountedFor == LifecycleSpec => []LifecycleTypeOK
<1>1. LifecycleInv => LifecycleTypeOK
  BY Zenon DEF LifecycleInv
<1> QED
  BY <1>1, LifecycleInvariance, PTL

(***************************************************************************)
(* For any number of reactors and workers, once Start has succeeded Wait   *)
(* joins every thread before it is destroyed, and the process ends without *)
(* an open socket or epoll instance.                                       *)
(***************************************************************************)
THEOREM ShutdownIsClean == LifecycleSpec => []CleanUnlessStartFailed
<1>1. LifecycleInv => CleanUnlessStartFailed
  <2> SUFFICES ASSUME LifecycleInv
               PROVE  CleanUnlessStartFailed
    OBVIOUS
  <2>1. /\ main = "terminated" => status = 1
        /\ main = "exit" => sockets = {} /\ joinable = {}
        /\ epolls \subseteq joinable /\ live \subseteq joinable
    BY Zenon DEF LifecycleInv, InStop, InWait, LifecycleTypeOK
  <2> QED
    BY <2>1, Zenon DEF CleanUnlessStartFailed
<1> QED
  BY <1>1, LifecycleInvariance, PTL

(***************************************************************************)
(* For any number of reactors and workers, the health port never answers   *)
(* "not ready", since it is opened after both planes listen.               *)
(***************************************************************************)
THEOREM ProbesFindTheHubReady == LifecycleSpec => []ReadyOnceAsked
<1>1. LifecycleInv => ReadyOnceAsked
  BY Zenon DEF LifecycleInv
<1> QED
  BY <1>1, LifecycleInvariance, PTL

-----------------------------------------------------------------------------
(* The bench                                                               *)
(*                                                                         *)
(* The argument is a conservation law.  A frame that was written is in the *)
(* Hub, in the subscriber's socket, among the frames of its last recv,     *)
(* counted as received, or lost; and each one written is counted as sent   *)
(* already or its publisher is just about to count it.                     *)

\* The publishers that have written a frame and not yet counted it.
Counting == {p \in Publishers : pc[p] = "count"}

Numbers ==
  /\ sent \in Nat /\ recv \in Nat /\ got \in Nat /\ inHub \in Nat /\ socket \in Nat
  /\ pc = [t \in Threads |-> pc[t]]

Conserved ==
  pc[Main] # "killed" => recv + got + socket + inHub <= sent + Cardinality(Counting)

\* main is past its joins only when the publishers have returned.
Joined == pc[Main] \in {"joinsub", "done"} => \A p \in Publishers : pc[p] \in {"none", "ended"}

\* Before main starts them there are no publishers, and in unicast mode but one.
OthersIdle ==
  \A p \in Publishers :
    pc[Main] = "sleep" \/ p \notin Senders => pc[p] = "none" \/ pc[Main] = "killed"

BenchInv == Numbers /\ Conserved /\ Joined /\ OthersIdle

-----------------------------------------------------------------------------
(***************************************************************************)
(* Frames that stand still are not more than they were.                    *)
(***************************************************************************)
LEMMA FramesStand ==
  ASSUME Numbers, UNCHANGED <<sent, recv, got, inHub, socket>>
  PROVE  /\ sent' \in Nat /\ recv' \in Nat /\ got' \in Nat /\ inHub' \in Nat /\ socket' \in Nat
         /\ recv' + got' + socket' + inHub' <= recv + got + socket + inHub
         /\ socket' + inHub' <= socket + inHub
BY DEF Numbers

INSTANCE FiniteSetTheorems

(***************************************************************************)
(* The publishers between write and count are finitely many.               *)
(***************************************************************************)
LEMMA CountingFinite == IsFiniteSet(Counting) /\ Cardinality(Counting) \in Nat
<1>1. Counting \subseteq Publishers
  BY DEF Counting
<1>2. IsFiniteSet(Counting)
  BY <1>1, BenchAssumption, FS_Subset, Zenon
<1> QED
  BY <1>2, FS_CardinalityType

(***************************************************************************)
(* A step of any thread that neither begins nor ends counting a frame as   *)
(* sent and does not raise the number of frames on their way preserves the *)
(* conservation law.                                                       *)
(***************************************************************************)
LEMMA NotCounting ==
  ASSUME Numbers, Numbers', Conserved, sent' = sent,
         pc'[Main] # "killed" => pc[Main] # "killed",
         recv' + got' + socket' + inHub' <= recv + got + socket + inHub,
         \A p \in Publishers : pc'[p] = "count" <=> pc[p] = "count"
  PROVE  Conserved'
<1>1. Counting' = Counting
  BY Zenon DEF Counting
<1>2. Cardinality(Counting)' = Cardinality(Counting)
  BY <1>1, Zenon
<1>3. SUFFICES ASSUME pc'[Main] # "killed"
               PROVE  (recv + got + socket + inHub <= sent + Cardinality(Counting))'
  BY DEF Conserved
<1>4. recv + got + socket + inHub <= sent + Cardinality(Counting)
  BY <1>3, SMTT(30) DEF Conserved
<1> QED
  BY <1>2, <1>4, CountingFinite DEF Numbers

(***************************************************************************)
(* main and the subscriber are no publishers, and there is a sender.       *)
(***************************************************************************)
LEMMA ThreadsApart ==
  /\ Main \notin Publishers /\ Sub \notin Publishers /\ Main # Sub
  /\ Publishers \subseteq Threads /\ Main \in Threads /\ Sub \in Threads
BY BenchAssumption DEF Main, Sub, Threads

(***************************************************************************)
(* Steps of the receiving thread only move frames on.                      *)
(***************************************************************************)
LEMMA SubStepPreserves ==
  ASSUME BenchInv, SubStep
  PROVE  BenchInv'
<1> USE ThreadsApart DEF BenchInv, benchVars, hubVars, Goto
<1>1. Senders' = Senders
  BY Zenon DEF SubStep, Connect, Authenticate, Subscribed, SubscribeFails, SubLoop, Recv,
         CountFrames, GiveUp, Senders
<1>a. PICK l : pc' = [pc EXCEPT ![Sub] = l]
  <2>1. CASE Connect(Sub)
    BY <2>1, SMTT(30) DEF Connect, GiveUp
  <2>2. CASE Authenticate(Sub)
    BY <2>2 DEF Authenticate, GiveUp
  <2>3. CASE Subscribed
    BY <2>3, Zenon DEF Subscribed
  <2>4. CASE SubscribeFails
    BY <2>4, Zenon DEF SubscribeFails, GiveUp
  <2>5. CASE SubLoop
    BY <2>5, Zenon DEF SubLoop
  <2>6. CASE Recv
    BY <2>6, Zenon DEF Recv
  <2>7. CASE CountFrames
    BY <2>7, Zenon DEF CountFrames
  <2> QED
    BY <2>1, <2>2, <2>3, <2>4, <2>5, <2>6, <2>7, ZenonT(40) DEF SubStep
<1>2. /\ \A p \in Publishers : pc'[p] = pc[p]
      /\ pc'[Main] = pc[Main]
      /\ pc' = [t \in Threads |-> pc'[t]]
  BY <1>a, Zenon DEF Numbers
<1>3. /\ Numbers'
      /\ recv' + got' + socket' + inHub' <= recv + got + socket + inHub
      /\ sent' = sent
  <2>1. CASE Connect(Sub) \/ Authenticate(Sub) \/ SubscribeFails \/ SubLoop
    <3>1. UNCHANGED <<sent, recv, got, inHub, socket>>
      BY <2>1, Zenon DEF Connect, Authenticate, SubscribeFails, SubLoop, GiveUp, hubVars
    <3> QED
      BY <1>2, <1>a, <3>1, FramesStand, Zenon DEF Numbers
  <2>2. CASE Subscribed
    BY <1>2, <2>2, SMTT(30) DEF Subscribed, Numbers
  <2>3. CASE Recv
    BY <1>2, <2>3, SMTT(30) DEF Recv, Numbers
  <2>4. CASE CountFrames
    BY <1>2, <2>4 DEF CountFrames, Numbers
  <2> QED
    BY <2>1, <2>2, <2>3, <2>4, Zenon DEF SubStep
<1>4. Conserved'
  BY <1>2, <1>3, NotCounting, Zenon
<1>5. Joined' /\ OthersIdle'
  BY <1>1, <1>2, Zenon DEF Joined, OthersIdle
<1> QED
  BY <1>3, <1>4, <1>5, Zenon

(***************************************************************************)
(* A publisher is counted in Counting from its write to its count.         *)
(***************************************************************************)
LEMMA SenderStepPreserves ==
  ASSUME BenchInv, NEW p \in Publishers, SenderStep(p)
  PROVE  BenchInv'
<1> USE ThreadsApart DEF BenchInv, hubVars, Goto
<1>1. Senders' = Senders
  BY Zenon
     DEF SenderStep, Connect, Authenticate, SenderLoop, SenderWrite, SenderCount, GiveUp, Senders
<1>2. PICK l : pc' = [pc EXCEPT ![p] = l]
  <2>1. CASE Connect(p)
    BY <2>1, Zenon DEF Connect, GiveUp
  <2>2. CASE Authenticate(p)
    BY <2>2, Zenon DEF Authenticate, GiveUp
  <2>3. CASE SenderLoop(p)
    BY <2>3, Zenon DEF SenderLoop
  <2>4. CASE SenderWrite(p)
    BY <2>4, Zenon DEF SenderWrite
  <2>5. CASE SenderCount(p)
    BY <2>5, Zenon DEF SenderCount
  <2> QED
    BY <2>1, <2>2, <2>3, <2>4, <2>5, Zenon DEF SenderStep
<1>3. /\ \A t \in Threads : t # p => pc'[t] = pc[t]
      /\ pc' = [t \in Threads |-> pc'[t]]
      /\ pc'[p] = l
  BY <1>2, Zenon DEF Numbers
<1>4. pc[p] \notin {"none", "ended", "killed"}
  BY Zenon DEF SenderStep, Connect, Authenticate, SenderLoop, SenderWrite, SenderCount
<1>5. Joined' /\ OthersIdle'
  BY <1>1, <1>3, <1>4, Zenon DEF Joined, OthersIdle
<1>6. Numbers' /\ Conserved'
  <2>1. CASE Connect(p) \/ Authenticate(p) \/ SenderLoop(p)
    <3>1. pc[p] # "count" /\ pc'[p] # "count"
      BY <1>3, <2>1, Zenon DEF Connect, Authenticate, SenderLoop, GiveUp, Numbers
    <3>2. UNCHANGED <<sent, recv, got, inHub, socket>>
      BY <2>1, Zenon DEF Connect, Authenticate, SenderLoop, GiveUp
    <3>3. Numbers'
      BY <1>3, <3>2, Zenon DEF Numbers
    <3>4. recv' + got' + socket' + inHub' <= recv + got + socket + inHub
      BY <3>2, FramesStand, Zenon
    <3> QED
      BY <1>3, <3>1, <3>2, <3>3, <3>4, NotCounting, Zenon
  <2>2. CASE SenderWrite(p) /\ ~hubUp
    <3>1. pc[p] # "count" /\ pc'[p] # "count"
      BY <1>3, <2>2, ZenonT(40) DEF SenderWrite, Numbers
    <3>2. UNCHANGED <<sent, recv, got, inHub, socket>>
      BY <2>2, Zenon DEF SenderWrite
    <3>3. Numbers'
      BY <1>3, <3>2, Zenon DEF Numbers
    <3>4. recv' + got' + socket' + inHub' <= recv + got + socket + inHub
      BY <3>2, FramesStand, Zenon
    <3> QED
      BY <1>3, <3>1, <3>2, <3>3, <3>4, NotCounting, Zenon
  <2>3. CASE SenderWrite(p) /\ hubUp
    <3>1. pc[p] # "count" /\ pc'[p] = "count"
      BY <1>3, <2>3, ZenonT(40) DEF SenderWrite, Numbers
    <3>2. UNCHANGED <<sent, recv, got, socket>> /\ inHub' = inHub + 1
      BY <2>3, Zenon DEF SenderWrite
    <3>3. Numbers'
      BY <1>3, <3>2, SMTT(30) DEF Numbers
    <3>4. Counting' = Counting \cup {p} /\ p \notin Counting
      BY <1>3, <3>1, Zenon DEF Counting
    <3>5. Cardinality(Counting)' = Cardinality(Counting) + 1
      BY <3>4, CountingFinite, FS_AddElement, ZenonT(40)
    <3> QED
      BY <1>3, <3>2, <3>3, <3>5, CountingFinite, SMTT(30) DEF Conserved, Numbers
  <2>4. CASE SenderCount(p)
    <3>1. pc[p] = "count" /\ pc'[p] # "count"
      BY <1>3, <2>4, ZenonT(40) DEF SenderCount, Numbers
    <3>2. UNCHANGED <<recv, got, socket, inHub>> /\ sent' = sent + 1
      BY <2>4, Zenon DEF SenderCount
    <3>3. Numbers'
      BY <1>3, <3>2 DEF Numbers
    <3>4. Counting' = Counting \ {p} /\ p \in Counting
      BY <1>3, <3>1, Zenon DEF Counting
    <3>5. Cardinality(Counting)' = Cardinality(Counting) - 1
      BY <3>4, CountingFinite, FS_RemoveElement, Zenon
    <3> QED
      BY <1>3, <3>2, <3>3, <3>5, CountingFinite, SMTT(30) DEF Conserved, Numbers
  <2> QED
    BY <2>1, <2>2, <2>3, <2>4, Zenon DEF SenderStep, SenderWrite
<1> QED
  BY <1>5, <1>6, Zenon

(***************************************************************************)
(* main passes its first join when every sender has returned.              *)
(***************************************************************************)
LEMMA MainStepPreserves ==
  ASSUME BenchInv, MainStep
  PROVE  BenchInv'
<1> USE ThreadsApart DEF BenchInv, hubVars, Goto
<1>1. /\ Senders' = Senders
      /\ UNCHANGED <<sent, recv, got, inHub, socket>>
  BY Zenon DEF MainStep, StartSenders, JoinSenders, Report, Senders
<1>2. CASE StartSenders
  <2>1. /\ pc'[Main] = "join" /\ pc[Main] = "sleep"
        /\ \A p \in Publishers : pc'[p] = IF p \in Senders THEN "connect" ELSE pc[p]
        /\ pc' = [t \in Threads |-> pc'[t]]
    BY <1>2, Zenon DEF StartSenders
  <2>2. Numbers'
    BY <1>1, <2>1, Zenon DEF Numbers
  <2>3. \A p \in Publishers : pc[p] = "none" /\ pc'[p] # "count"
    BY <2>1 DEF OthersIdle
  <2>4. Conserved'
    <3>1. \A p \in Publishers : pc'[p] = "count" <=> pc[p] = "count"
      BY <2>3
    <3>2. recv' + got' + socket' + inHub' <= recv + got + socket + inHub
      BY <1>1 DEF Numbers
    <3>3. pc[Main] # "killed"
      BY <2>1
    <3> QED
      BY <1>1, <2>2, <3>1, <3>2, <3>3, NotCounting, Zenon
  <2>5. OthersIdle'
    BY <1>1, <2>1, <2>3, Zenon DEF OthersIdle
  <2>6. Joined'
    BY <2>1 DEF Joined
  <2> QED
    BY <2>2, <2>4, <2>5, <2>6, Zenon
<1>3. CASE JoinSenders \/ Report
  <2>1. /\ \A p \in Publishers : pc'[p] = pc[p]
        /\ pc[Main] \in {"join", "joinsub"} /\ pc'[Main] \in {"joinsub", "done"}
        /\ pc' = [t \in Threads |-> pc'[t]]
    BY <1>3, Zenon DEF JoinSenders, Report, Numbers
  <2>2. Numbers'
    BY <1>1, <2>1, Zenon DEF Numbers
  <2>3. Conserved'
    BY <1>1, <2>1, <2>2, NotCounting DEF Numbers
  <2>4. Joined'
    BY <1>3, <2>1, Zenon DEF JoinSenders, Report, Joined, OthersIdle
  <2> QED
    BY <1>1, <2>1, <2>2, <2>3, <2>4, ZenonT(40) DEF OthersIdle
<1> QED
  BY <1>2, <1>3 DEF MainStep

(***************************************************************************)
(* The Hub delivers or drops a frame; SIGPIPE and time change no count.    *)
(***************************************************************************)
LEMMA HubStepPreserves ==
  ASSUME BenchInv, HubSubscribes \/ HubRoutes \/ HubGoesDown \/ Tick \/ UNCHANGED benchVars
  PROVE  BenchInv'
<1> USE DEF BenchInv
<1>1. UNCHANGED <<mode, pc, sent, recv, got>>
  BY Zenon DEF HubSubscribes, HubRoutes, HubGoesDown, Tick, benchVars, threadVars
<1>2. /\ inHub' \in Nat /\ socket' \in Nat
      /\ socket' + inHub' <= socket + inHub
  BY DEF HubSubscribes, HubRoutes, HubGoesDown, Tick, benchVars, hubVars, Numbers
<1>3. Numbers'
  BY <1>1, <1>2, Zenon DEF Numbers
<1>4. Conserved'
  BY <1>1, <1>2, <1>3, NotCounting DEF Numbers
<1> QED
  BY <1>1, <1>3, <1>4, Zenon DEF Joined, OthersIdle, Senders

(***************************************************************************)
(* A SIGPIPE ends all threads at once, and there is no report.             *)
(***************************************************************************)
LEMMA SigpipePreserves ==
  ASSUME BenchInv, NEW t \in Threads, Sigpipe(t)
  PROVE  BenchInv'
BY ThreadsApart, Zenon DEF BenchInv, Numbers, Conserved, Joined, OthersIdle, Sigpipe, hubVars

(***************************************************************************)
(* The counts are right in every run of the bench.                         *)
(***************************************************************************)
LEMMA BenchInvariance == BenchSpec => []BenchInv
<1>1. BenchInit => BenchInv
  <2> SUFFICES ASSUME BenchInit PROVE BenchInv
    OBVIOUS
  <2>1. /\ pc = [t \in Threads |-> pc[t]]
        /\ pc[Main] = "sleep" /\ \A p \in Publishers : pc[p] = "none"
    BY ThreadsApart DEF BenchInit
  <2>2. Numbers
    BY <2>1 DEF BenchInit, Numbers
  <2>3. Conserved
    BY <2>2, CountingFinite DEF BenchInit, Conserved
  <2> QED
    BY <2>1, <2>2, <2>3, Zenon DEF BenchInv, Joined, OthersIdle
<1>2. BenchInv /\ [BenchNext]_benchVars => BenchInv'
  BY SubStepPreserves, SenderStepPreserves, MainStepPreserves, HubStepPreserves,
     SigpipePreserves, Zenon DEF BenchNext
<1> QED
  BY <1>1, <1>2, PTL DEF BenchSpec

(***************************************************************************)
(* Every run of the bench that reports has received no more than it sent,  *)
(* for any number of publishers: main reads the counters after it has      *)
(* joined the threads that write them.                                     *)
(***************************************************************************)
THEOREM ReportNeverExceedsSent == BenchSpec => []ReportConsistent
<1>1. BenchInv => ReportConsistent
  <2> SUFFICES ASSUME BenchInv, pc[Main] = "done" PROVE recv <= sent
    BY Zenon DEF ReportConsistent
  <2>1. Counting = {}
    BY Zenon DEF BenchInv, Joined, Counting
  <2>2. Cardinality(Counting) = 0
    BY <2>1, FS_EmptySet, Zenon
  <2> QED
    BY <2>2 DEF BenchInv, Numbers, Conserved
<1> QED
  BY <1>1, BenchInvariance, PTL

-----------------------------------------------------------------------------
(* What the bench may count                                                 *)

Labels == {"none", "sleep", "join", "joinsub", "done", "connect", "auth", "subscribe", "loop",
           "recv", "count", "write", "ended", "killed"}

\* A SIGPIPE ends every thread.
Shape ==
  /\ mode \in {"publish", "unicast"}
  /\ pc \in [Threads -> Labels]
  /\ pc[Main] = "killed" => \A p \in Publishers : pc[p] = "killed"
  /\ left \in [Threads -> 0 .. Warmup + Duration]
  /\ running \in BOOLEAN /\ measuring \in BOOLEAN /\ aligned \in BOOLEAN
  /\ hubUp \in BOOLEAN /\ subscribed \in BOOLEAN
  /\ exit \in {-1, 0, 1}

\* A publisher begins to write only when that leaves room for the frame.
Bounded ==
  /\ sent + Cardinality(Sending) <= MaxFrames
  /\ recv + got + socket + inHub <= MaxFrames

(***************************************************************************)
(* No deadline is further away than the warm-up and the measurement.       *)
(***************************************************************************)
LEMMA Deadlines ==
  /\ Warmup \in 0 .. Warmup + Duration /\ Duration \in 0 .. Warmup + Duration
  /\ Warmup + Duration \in 0 .. Warmup + Duration /\ 0 \in 0 .. Warmup + Duration
BY BenchAssumption

(***************************************************************************)
(* A step that takes one thread from one place to another.                 *)
(***************************************************************************)
LEMMA ThreadMoves ==
  ASSUME Shape, NEW t \in Threads, NEW l \in Labels, pc' = [pc EXCEPT ![t] = l],
         pc[t] # "killed", l # "killed"
  PROVE  /\ pc' \in [Threads -> Labels]
         /\ pc'[Main] = "killed" => \A p \in Publishers : pc'[p] = "killed"
BY ThreadsApart, Zenon DEF Shape

(***************************************************************************)
(* Connecting, authenticating and giving up.                               *)
(***************************************************************************)
LEMMA HandshakeShape ==
  ASSUME Shape, NEW t \in Threads, Connect(t) \/ Authenticate(t) \/ (t = Sub /\ SubscribeFails)
  PROVE  Shape'
<1>1. PICK l \in Labels : pc' = [pc EXCEPT ![t] = l] /\ l # "killed" /\ pc[t] # "killed"
  <2>1. CASE Connect(t)
    BY <2>1, Zenon DEF Connect, GiveUp, Goto, Labels
  <2>2. CASE Authenticate(t)
    BY <2>2, Zenon DEF Authenticate, GiveUp, Goto, Labels
  <2>3. CASE t = Sub /\ SubscribeFails
    BY <2>3, Zenon DEF SubscribeFails, GiveUp, Goto, Labels
  <2> QED
    BY <2>1, <2>2, <2>3, Zenon
<1>2. /\ mode' = mode /\ measuring' = measuring /\ aligned' = aligned /\ exit' = exit
      /\ hubUp' = hubUp /\ subscribed' = subscribed
  BY Zenon DEF Connect, Authenticate, SubscribeFails, GiveUp, hubVars
<1>3. running' \in BOOLEAN
  BY Zenon DEF Connect, Authenticate, SubscribeFails, GiveUp, Shape
<1>4. left' \in [Threads -> 0 .. Warmup + Duration]
  BY Deadlines, Zenon DEF Connect, Authenticate, SubscribeFails, GiveUp, Shape
<1> QED
  BY <1>1, <1>2, <1>3, <1>4, ThreadMoves, Zenon DEF Shape

(***************************************************************************)
(* The loops of the subscriber and of a publisher.                         *)
(***************************************************************************)
LEMMA LoopShape ==
  ASSUME Shape, NEW p \in Publishers,
         \/ Subscribed \/ SubLoop \/ Recv \/ CountFrames
         \/ SenderLoop(p) \/ SenderWrite(p) \/ SenderCount(p)
  PROVE  Shape'
<1>1. PICK t \in Threads : \E l \in Labels :
        pc' = [pc EXCEPT ![t] = l] /\ l # "killed" /\ pc[t] # "killed"
  <2>1. CASE Subscribed \/ SubLoop
    BY <2>1, ThreadsApart, Zenon DEF Subscribed, SubLoop, Goto, Labels
  <2>2. CASE Recv \/ CountFrames
    BY <2>2, ThreadsApart, Zenon DEF Recv, CountFrames, Goto, Labels
  <2>3. CASE SenderLoop(p)
    BY <2>3, ThreadsApart, Zenon DEF SenderLoop, Goto, Labels
  <2>4. CASE SenderWrite(p) \/ SenderCount(p)
    BY <2>4, ThreadsApart, Zenon DEF SenderWrite, SenderCount, Goto, Labels
  <2> QED
    BY <2>1, <2>2, <2>3, <2>4, Zenon
<1>2. /\ mode' = mode /\ measuring' = measuring /\ exit' = exit /\ running' = running
      /\ hubUp' = hubUp /\ subscribed' = subscribed
  BY Zenon DEF Subscribed, SubLoop, Recv, CountFrames, SenderLoop, SenderWrite, SenderCount, hubVars
<1>3. aligned' \in BOOLEAN
  BY Zenon DEF Subscribed, SubLoop, Recv, CountFrames, SenderLoop, SenderWrite, SenderCount, Shape
<1>4. left' \in [Threads -> 0 .. Warmup + Duration]
  BY Deadlines, ZenonT(40)
     DEF Subscribed, SubLoop, Recv, CountFrames, SenderLoop, SenderWrite, SenderCount, Shape
<1> QED
  BY <1>1, <1>2, <1>3, <1>4, ThreadMoves, Zenon DEF Shape

(***************************************************************************)
(* main starts the senders, joins them and reports.                        *)
(***************************************************************************)
LEMMA MainShape ==
  ASSUME BenchInv, Shape, MainStep
  PROVE  Shape'
<1>1. /\ mode' = mode /\ aligned' = aligned /\ running' = running
      /\ hubUp' = hubUp /\ subscribed' = subscribed
  BY Zenon DEF MainStep, StartSenders, JoinSenders, Report, hubVars
<1>2. CASE StartSenders
  <2>1. pc' \in [Threads -> Labels] /\ pc'[Main] = "join"
    BY <1>2, ThreadsApart, Zenon DEF StartSenders, Shape, Labels
  <2>2. left' \in [Threads -> 0 .. Warmup + Duration]
    BY <1>2, Deadlines, Zenon DEF StartSenders, Shape
  <2>3. measuring' \in BOOLEAN /\ exit' = exit
    BY <1>2, Zenon DEF StartSenders
  <2> QED
    BY <1>1, <2>1, <2>2, <2>3, Zenon DEF Shape
<1>3. CASE JoinSenders \/ Report
  <2>1. PICK l \in Labels : pc' = [pc EXCEPT ![Main] = l] /\ l # "killed" /\ pc[Main] # "killed"
    BY <1>3, Zenon DEF JoinSenders, Report, Goto, Labels
  <2>2. left' = left /\ measuring' = measuring /\ exit' \in {-1, 0, 1}
    BY <1>3, Zenon DEF JoinSenders, Report, Shape
  <2> QED
    BY <1>1, <2>1, <2>2, ThreadMoves, ThreadsApart, Zenon DEF Shape
<1> QED
  BY <1>2, <1>3, ZenonT(40) DEF MainStep

(***************************************************************************)
(* The Hub, time and a SIGPIPE.                                            *)
(***************************************************************************)
LEMMA HubShape ==
  ASSUME Shape, \/ HubSubscribes \/ HubRoutes \/ HubGoesDown \/ Tick \/ UNCHANGED benchVars
                \/ \E t \in Threads : Sigpipe(t)
  PROVE  Shape'
<1>1. /\ mode' = mode /\ aligned' = aligned /\ running' = running
      /\ measuring' = measuring /\ exit' = exit
  BY Zenon DEF HubSubscribes, HubRoutes, HubGoesDown, Tick, Sigpipe, benchVars, threadVars
<1>2. hubUp' \in BOOLEAN /\ subscribed' \in BOOLEAN
  BY Zenon DEF HubSubscribes, HubRoutes, HubGoesDown, Tick, Sigpipe, benchVars, hubVars, Shape
<1>3. left' \in [Threads -> 0 .. Warmup + Duration]
  <2>1. CASE Tick
    <3>1. \A m \in 0 .. Warmup + Duration :
            (IF m = 0 THEN 0 ELSE m - 1) \in 0 .. Warmup + Duration
      BY BenchAssumption
    <3> QED
      BY <2>1, <3>1, Zenon DEF Tick, Shape
  <2>2. CASE left' = left
    BY <2>2, Zenon DEF Shape
  <2> QED
    BY <2>1, <2>2, Zenon DEF HubSubscribes, HubRoutes, HubGoesDown, Sigpipe, benchVars, threadVars
<1>4. /\ pc' \in [Threads -> Labels]
      /\ pc'[Main] = "killed" => \A p \in Publishers : pc'[p] = "killed"
  <2>1. CASE pc' = pc
    BY <2>1, Zenon DEF Shape
  <2>2. CASE pc' = [u \in Threads |-> "killed"]
    BY <2>2, ThreadsApart, Zenon DEF Labels
  <2> QED
    BY <2>1, <2>2, Zenon
       DEF HubSubscribes, HubRoutes, HubGoesDown, Tick, Sigpipe, benchVars, threadVars
<1> QED
  BY <1>1, <1>2, <1>3, <1>4, Zenon DEF Shape

(***************************************************************************)
(* The publishers that write or count are finitely many, and those that    *)
(* count are among them.                                                   *)
(***************************************************************************)
LEMMA SendingFinite ==
  /\ IsFiniteSet(Sending) /\ Cardinality(Sending) \in Nat
  /\ Cardinality(Counting) <= Cardinality(Sending)
<1>1. Sending \subseteq Publishers /\ Counting \subseteq Sending
  BY Zenon DEF Sending, Counting
<1>2. IsFiniteSet(Sending)
  BY <1>1, BenchAssumption, FS_Subset, Zenon
<1> QED
  BY <1>1, <1>2, FS_CardinalityType, FS_Subset, Zenon

(***************************************************************************)
(* A step in which no publisher begins or ends to write or count, and that *)
(* brings no frame.                                                        *)
(***************************************************************************)
LEMMA NotSending ==
  ASSUME Numbers, Numbers', Bounded, sent' = sent,
         recv' + got' + socket' + inHub' <= recv + got + socket + inHub,
         \A p \in Publishers : pc'[p] \in {"write", "count"} <=> pc[p] \in {"write", "count"}
  PROVE  Bounded'
<1>1. Sending' = Sending
  BY Zenon DEF Sending
<1>2. Cardinality(Sending)' = Cardinality(Sending)
  BY <1>1, Zenon
<1>3. sent' + Cardinality(Sending)' <= MaxFrames
  BY <1>2, Zenon DEF Bounded
<1>4. recv' + got' + socket' + inHub' <= MaxFrames
  BY BenchAssumption DEF Bounded, Numbers
<1> QED
  BY <1>3, <1>4, Zenon DEF Bounded

(***************************************************************************)
(* The steps of the receiving thread.                                      *)
(***************************************************************************)
LEMMA SubBounded ==
  ASSUME BenchInv, BenchInv', Bounded, SubStep
  PROVE  Bounded'
<1>1. Numbers /\ Numbers'
  BY Zenon DEF BenchInv
<1>2. \A p \in Publishers : pc'[p] = pc[p]
  BY <1>1, ThreadsApart, Zenon DEF Numbers, Goto, SubStep, Connect, Authenticate, Subscribed,
     SubscribeFails, SubLoop, Recv, CountFrames, GiveUp
<1>3. sent' = sent /\ recv' + got' + socket' + inHub' <= recv + got + socket + inHub
  <2>1. CASE Connect(Sub) \/ Authenticate(Sub) \/ SubscribeFails \/ SubLoop
    <3>1. UNCHANGED <<sent, recv, got, inHub, socket>>
      BY <2>1, Zenon DEF Connect, Authenticate, SubscribeFails, SubLoop, GiveUp, hubVars
    <3> QED
      BY <1>1, <3>1, FramesStand, Zenon
  <2>2. CASE Subscribed
    BY <1>1, <2>2 DEF Subscribed, Numbers
  <2>3. CASE Recv
    BY <1>1, <2>3, SMTT(30) DEF Recv, Numbers
  <2>4. CASE CountFrames
    BY <1>1, <2>4 DEF CountFrames, Numbers, hubVars
  <2> QED
    BY <2>1, <2>2, <2>3, <2>4, Zenon DEF SubStep
<1> QED
  BY <1>1, <1>2, <1>3, NotSending, Zenon

(***************************************************************************)
(* A publisher is in Sending from the test of its loop to its count.       *)
(***************************************************************************)
LEMMA SenderBounded ==
  ASSUME BenchInv, BenchInv', Shape, Shape', Bounded, NEW p \in Publishers, SenderStep(p)
  PROVE  Bounded'
<1>1. Numbers /\ Numbers' /\ Conserved'
  BY Zenon DEF BenchInv
<1>2. \A q \in Publishers : q # p => pc'[q] = pc[q]
  BY <1>1, ThreadsApart, Zenon DEF Numbers, Goto, SenderStep, Connect, Authenticate, SenderLoop,
     SenderWrite, SenderCount, GiveUp
<1>3. CASE Connect(p) \/ Authenticate(p) \/ (SenderLoop(p) /\ pc'[p] # "write")
  <2>1. pc[p] \notin {"write", "count"} /\ pc'[p] \notin {"write", "count"}
    BY <1>1, <1>3, ThreadsApart, ZenonT(40)
       DEF Connect, Authenticate, SenderLoop, GiveUp, Goto, Numbers
  <2>2. UNCHANGED <<sent, recv, got, inHub, socket>>
    BY <1>3, Zenon DEF Connect, Authenticate, SenderLoop, GiveUp, hubVars
  <2>3. recv' + got' + socket' + inHub' <= recv + got + socket + inHub
    BY <1>1, <2>2, FramesStand, Zenon
  <2>4. \A q \in Publishers : pc'[q] \in {"write", "count"} <=> pc[q] \in {"write", "count"}
    BY <1>2, <2>1, Zenon
  <2> QED
    BY <1>1, <2>2, <2>3, <2>4, NotSending, Zenon
<1>4. CASE SenderLoop(p) /\ pc'[p] = "write"
  <2>1. /\ UNCHANGED <<sent, recv, got, inHub, socket>>
        /\ pc[p] = "loop" /\ sent + Cardinality(Sending) < MaxFrames
    BY <1>1, <1>4, ThreadsApart, Zenon DEF SenderLoop, Goto, hubVars, Numbers
  <2>2. Sending' = Sending \cup {p} /\ p \notin Sending
    BY <1>2, <1>4, <2>1, Zenon DEF Sending
  <2>3. Cardinality(Sending)' = Cardinality(Sending) + 1
    BY <2>2, SendingFinite, FS_AddElement, Zenon
  <2>4. sent' + Cardinality(Sending)' <= MaxFrames
    BY <1>1, <2>1, <2>3, SendingFinite, BenchAssumption, SMTT(30) DEF Numbers
  <2> QED
    BY <2>1, <2>4, Zenon DEF Bounded
<1>5. CASE SenderWrite(p) /\ ~hubUp
  <2>1. UNCHANGED <<sent, recv, got, inHub, socket>> /\ pc[p] = "write" /\ pc'[p] = "ended"
    BY <1>1, <1>5, ThreadsApart, Zenon DEF SenderWrite, Goto, Numbers
  <2>2. Sending' = Sending \ {p} /\ p \in Sending
    BY <1>2, <2>1, Zenon DEF Sending
  <2>3. Cardinality(Sending)' = Cardinality(Sending) - 1
    BY <2>2, SendingFinite, FS_RemoveElement, Zenon
  <2>4. sent' + Cardinality(Sending)' <= MaxFrames
    BY <1>1, <2>1, <2>3, SendingFinite, BenchAssumption, SMTT(30) DEF Bounded, Numbers
  <2> QED
    BY <2>1, <2>4, Zenon DEF Bounded
<1>6. CASE SenderWrite(p) /\ hubUp
  <2>1. UNCHANGED <<sent, recv, got, socket>> /\ pc[p] = "write" /\ pc'[p] = "count"
    BY <1>1, <1>6, ThreadsApart, Zenon DEF SenderWrite, Goto, Numbers
  <2>2. Sending' = Sending
    BY <1>2, <2>1, Zenon DEF Sending
  <2>3. sent' + Cardinality(Sending)' <= MaxFrames
    BY <2>1, <2>2, Zenon DEF Bounded
  <2>4. pc'[Main] # "killed"
    BY <2>1, Zenon DEF Shape
  <2>5. recv' + got' + socket' + inHub' <= sent' + Cardinality(Counting)'
    BY <1>1, <2>4, Zenon DEF Conserved
  <2>6. /\ Cardinality(Counting)' <= Cardinality(Sending)'
        /\ Cardinality(Counting)' \in Nat /\ Cardinality(Sending)' \in Nat
    <3>1. (Cardinality(Counting) <= Cardinality(Sending))'
      BY SendingFinite, PTL
    <3>2. (Cardinality(Counting) \in Nat /\ Cardinality(Sending) \in Nat)'
      BY SendingFinite, CountingFinite, PTL
    <3> QED
      BY <3>1, <3>2, Zenon
  <2> QED
    BY <1>1, <2>3, <2>5, <2>6, BenchAssumption, SMTT(30) DEF Bounded, Numbers
<1>7. CASE SenderCount(p)
  <2>1. /\ UNCHANGED <<recv, got, inHub, socket>> /\ sent' = sent + 1
        /\ pc[p] = "count" /\ pc'[p] = "loop"
    BY <1>1, <1>7, ThreadsApart, Zenon DEF SenderCount, Goto, hubVars, Numbers
  <2>2. Sending' = Sending \ {p} /\ p \in Sending
    BY <1>2, <2>1, Zenon DEF Sending
  <2>3. Cardinality(Sending)' = Cardinality(Sending) - 1
    BY <2>2, SendingFinite, FS_RemoveElement, Zenon
  <2>4. sent' + Cardinality(Sending)' <= MaxFrames
    BY <1>1, <2>1, <2>3, SendingFinite, BenchAssumption, SMTT(30) DEF Bounded, Numbers
  <2> QED
    BY <2>1, <2>4, Zenon DEF Bounded
<1> QED
  BY <1>3, <1>4, <1>5, <1>6, <1>7, Zenon DEF SenderStep

(***************************************************************************)
(* main, the Hub and time send nothing.                                    *)
(***************************************************************************)
LEMMA OthersBounded ==
  ASSUME BenchInv, BenchInv', Bounded,
         \/ MainStep \/ HubSubscribes \/ HubRoutes \/ HubGoesDown \/ Tick \/ UNCHANGED benchVars
  PROVE  Bounded'
<1>1. Numbers /\ Numbers'
  BY DEF BenchInv
<1>2. /\ sent' = sent /\ recv' = recv /\ got' = got
      /\ socket' \in Nat /\ inHub' \in Nat /\ socket' + inHub' <= socket + inHub
  <2>1. CASE MainStep
    <3>1. UNCHANGED <<sent, recv, got, inHub, socket>>
      BY <2>1, Zenon DEF MainStep, StartSenders, JoinSenders, Report, hubVars
    <3> QED
      BY <1>1, <3>1, FramesStand, Zenon
  <2>2. CASE HubRoutes
    BY <1>1, <2>2, SMTT(30) DEF HubRoutes, threadVars, Numbers
  <2>3. CASE HubSubscribes \/ HubGoesDown \/ Tick \/ UNCHANGED benchVars
    <3>1. sent' = sent /\ recv' = recv /\ got' = got
      BY <2>3, Zenon DEF HubSubscribes, HubGoesDown, Tick, benchVars, threadVars
    <3>2. socket' = socket /\ (inHub' = inHub \/ inHub' = 0)
      BY <2>3, Zenon DEF HubSubscribes, HubGoesDown, Tick, benchVars, hubVars
    <3> QED
      BY <1>1, <3>1, <3>2 DEF Numbers
  <2> QED
    BY <2>1, <2>2, <2>3, Zenon
<1>3. recv' + got' + socket' + inHub' <= recv + got + socket + inHub
  BY <1>1, <1>2, SMTT(30) DEF Numbers
<1>4. \A p \in Publishers : pc'[p] \in {"write", "count"} <=> pc[p] \in {"write", "count"}
  <2>1. CASE StartSenders
    <3>1. \A p \in Publishers : pc[p] = "none" /\ pc'[p] \in {"none", "connect"}
      BY <2>1, ThreadsApart, ZenonT(40) DEF StartSenders, BenchInv, OthersIdle
    <3> QED
      BY <3>1, Zenon
  <2>2. CASE JoinSenders \/ Report
    BY <1>1, <2>2, ThreadsApart, Zenon DEF JoinSenders, Report, Goto, Numbers
  <2>3. CASE HubSubscribes \/ HubRoutes \/ HubGoesDown \/ Tick \/ UNCHANGED benchVars
    BY <2>3, Zenon DEF HubSubscribes, HubRoutes, HubGoesDown, Tick, benchVars, threadVars
  <2> QED
    BY <2>1, <2>2, <2>3, Zenon DEF MainStep
<1> QED
  BY <1>1, <1>2, <1>3, <1>4, NotSending, Zenon

(***************************************************************************)
(* After a SIGPIPE nobody sends.                                           *)
(***************************************************************************)
LEMMA SigpipeBounded ==
  ASSUME BenchInv, Bounded, NEW t \in Threads, Sigpipe(t)
  PROVE  Bounded'
<1>1. UNCHANGED <<sent, recv, got, inHub, socket>> /\ pc' = [u \in Threads |-> "killed"]
  BY Zenon DEF Sigpipe, hubVars
<1>2. Sending' = {}
  BY <1>1, ThreadsApart, Zenon DEF Sending
<1>3. Cardinality(Sending)' = 0
  BY <1>2, FS_EmptySet, Zenon
<1>4. sent' + Cardinality(Sending)' <= MaxFrames
  BY <1>1, <1>3, SendingFinite, BenchAssumption DEF Bounded, BenchInv, Numbers
<1> QED
  BY <1>1, <1>4, Zenon DEF Bounded

(***************************************************************************)
(* The bench counts no more frames than may be sent, in whatever thread    *)
(* they are, and no thread waits for longer than the warm-up and the       *)
(* measurement, for any number of publishers.                              *)
(***************************************************************************)
THEOREM BenchCountsBounded == BenchSpec => []BenchTypeOK
<1>1. BenchInit => Shape /\ Bounded
  <2> SUFFICES ASSUME BenchInit
               PROVE  Shape /\ Bounded
    OBVIOUS
  <2>1. pc \in [Threads -> Labels] /\ pc[Main] = "sleep" /\ \A p \in Publishers : pc[p] = "none"
    BY ThreadsApart, Zenon DEF BenchInit, Labels
  <2>2. left \in [Threads -> 0 .. Warmup + Duration]
    BY Deadlines, Zenon DEF BenchInit
  <2>3. Shape
    BY <2>1, <2>2, Zenon DEF BenchInit, Shape
  <2>4. Sending = {}
    BY <2>1, Zenon DEF Sending
  <2>5. Cardinality(Sending) = 0
    BY <2>4, FS_EmptySet, Zenon
  <2>6. Bounded
    BY <2>5, BenchAssumption DEF BenchInit, Bounded
  <2> QED
    BY <2>3, <2>6, Zenon
<1>2. BenchInv /\ BenchInv' /\ Shape /\ Bounded /\ [BenchNext]_benchVars => Shape' /\ Bounded'
  <2> SUFFICES ASSUME BenchInv, BenchInv', Shape, Bounded, [BenchNext]_benchVars
               PROVE  Shape' /\ Bounded'
    BY Zenon
  <2>1. PICK p \in Publishers : TRUE
    BY BenchAssumption, Zenon
  <2>2. CASE MainStep
    BY <2>2, MainShape, OthersBounded, Zenon
  <2>3. CASE SubStep
    BY <2>1, <2>3, HandshakeShape, LoopShape, SubBounded, ThreadsApart, ZenonT(40) DEF SubStep
  <2>4. CASE \E q \in Publishers : SenderStep(q)
    <3>1. PICK q \in Publishers : SenderStep(q)
      BY <2>4, Zenon
    <3>2. Shape'
      BY <3>1, HandshakeShape, LoopShape, ThreadsApart, Zenon DEF SenderStep
    <3> QED
      BY <3>1, <3>2, SenderBounded, Zenon
  <2>5. CASE \E t \in Threads : Sigpipe(t)
    BY <2>5, HubShape, SigpipeBounded, Zenon
  <2>6. CASE HubSubscribes \/ HubRoutes \/ HubGoesDown \/ Tick \/ UNCHANGED benchVars
    BY <2>6, HubShape, OthersBounded, Zenon
  <2> QED
    BY <2>2, <2>3, <2>4, <2>5, <2>6, Zenon DEF BenchNext
<1>3. BenchInv /\ Shape /\ Bounded => BenchTypeOK
  <2> SUFFICES ASSUME BenchInv, Shape, Bounded
               PROVE  BenchTypeOK
    OBVIOUS
  <2>1. /\ sent \in 0 .. MaxFrames /\ recv \in 0 .. MaxFrames /\ got \in 0 .. MaxFrames
        /\ inHub \in 0 .. MaxFrames /\ socket \in 0 .. MaxFrames
    BY SendingFinite, BenchAssumption DEF BenchInv, Numbers, Bounded
  <2> QED
    BY <2>1, Zenon DEF Shape, BenchTypeOK, Labels
<1> QED
  BY <1>1, <1>2, <1>3, BenchInvariance, PTL DEF BenchSpec
=============================================================================
