---------------------------- MODULE ReportsProofs ----------------------------
(***************************************************************************)
(* Proofs about the bytes of a report, for bytes, reports, layers and      *)
(* pages of any size and any opcodes.                                      *)
(***************************************************************************)
EXTENDS Reports, SequenceTheorems, TLAPS

-----------------------------------------------------------------------------
(* Sequences of bytes *)

(* The two bytes of a length.                                              *)
LEMMA TwoBytes ==
  ASSUME NEW n \in Nat, NEW b \in Nat \ {0}, n < b * b
  PROVE  /\ n % b \in 0 .. b - 1 /\ n \div b \in 0 .. b - 1
         /\ (n % b) + b * (n \div b) = n
<1> DEFINE q == n \div b
           r == n % b
<1>1. q \in Nat /\ r \in 0 .. b - 1 /\ n = b * q + r
  OBVIOUS
<1> HIDE DEF q, r
<1>2. ASSUME q >= b PROVE FALSE
  <2>1. PICK k \in Nat : q = b + k
    BY <1>1, <1>2
  <2>2. b * q = b * b + b * k /\ b * k \in Nat
    BY <2>1
  <2> QED BY <1>1, <2>2
<1>3. b * q + r = r + b * q
  BY <1>1
<1> QED BY <1>1, <1>2, <1>3 DEF q, r

(* A function on 1 .. n is a sequence, and a sequence one on its positions *)
LEMMA Made ==
  ASSUME NEW S, NEW n \in Nat
  PROVE  \A f : f \in [1 .. n -> S] <=> f \in Seq(S) /\ Len(f) = n
OBVIOUS

(* Where the elements of two sequences are in the one made of them.        *)
LEMMA Joined ==
  ASSUME NEW S, NEW a \in Seq(S), NEW b \in Seq(S)
  PROVE  /\ a \o b \in Seq(S) /\ Len(a \o b) = Len(a) + Len(b)
         /\ Len(a) \in Nat /\ Len(b) \in Nat
         /\ \A x \in 1 .. Len(a) : (a \o b)[x] = a[x]
         /\ \A y \in 1 .. Len(b) : (a \o b)[Len(a) + y] = b[y]
<1>1. /\ a \o b \in Seq(S) /\ Len(a \o b) = Len(a) + Len(b)
      /\ \A i \in 1 .. Len(a) + Len(b) : (a \o b)[i] = IF i <= Len(a) THEN a[i] ELSE b[i - Len(a)]
  BY ConcatProperties
<1>2. Len(a) \in Nat /\ Len(b) \in Nat
  BY LenProperties
<1>3. ASSUME NEW x \in 1 .. Len(a) PROVE (a \o b)[x] = a[x]
  BY <1>1, <1>2
<1>4. ASSUME NEW y \in 1 .. Len(b) PROVE (a \o b)[Len(a) + y] = b[y]
  <2>1. Len(a) + y \in 1 .. Len(a) + Len(b) /\ ~(Len(a) + y <= Len(a)) /\ (Len(a) + y) - Len(a) = y
    BY <1>2
  <2> QED BY <1>1, <2>1
<1> QED BY <1>1, <1>2, <1>3, <1>4

(* A part of a sequence, from position a + 1 to position a + n.            *)
LEMMA Part ==
  ASSUME NEW S, NEW s \in Seq(S), NEW a \in Nat, NEW n \in Nat, a + n <= Len(s)
  PROVE  /\ SubSeq(s, a + 1, a + n) \in Seq(S) /\ Len(SubSeq(s, a + 1, a + n)) = n
         /\ \A i \in 1 .. n : SubSeq(s, a + 1, a + n)[i] = s[a + i]
<1>1. Len(s) \in Nat /\ \A i \in 1 .. Len(s) : s[i] \in S
  BY LenProperties, ElementOfSeq
<1>2. /\ Len(SubSeq(s, a + 1, a + n)) = n
      /\ \A i \in 1 .. n : SubSeq(s, a + 1, a + n)[i] = s[a + i] /\ s[a + i] \in S
  BY <1>1
<1>3. SubSeq(s, a + 1, a + n) = [i \in 1 .. n |-> s[a + i]]
  BY <1>1
<1>4. [i \in 1 .. n |-> s[a + i]] \in [1 .. n -> S]
  BY <1>1
<1> QED BY <1>2, <1>3, <1>4, Made

LEMMA Front ==
  ASSUME NEW S, NEW s \in Seq(S), NEW n \in Nat, n <= Len(s)
  PROVE  /\ SubSeq(s, 1, n) \in Seq(S) /\ Len(SubSeq(s, 1, n)) = n
         /\ \A i \in 1 .. n : SubSeq(s, 1, n)[i] = s[i]
<1>1. Len(s) \in Nat
  BY LenProperties
<1> QED BY <1>1, SubSeqProperties

(* Sequences of one length are equal if their elements are.                *)
LEMMA Same ==
  ASSUME NEW S, NEW s \in Seq(S), NEW t \in Seq(S), Len(s) = Len(t),
         \A i \in 1 .. Len(s) : s[i] = t[i]
  PROVE  s = t
BY SeqEqual

(* An element in front.                                                    *)
Follows(y, s) == Len(y) = Len(s) + 1 /\ Tail(y) = s /\ \A i \in 1 .. Len(s) : y[i + 1] = s[i]

LEMMA Prefixed ==
  ASSUME NEW S, NEW x \in S, NEW s \in Seq(S)
  PROVE  <<x>> \o s \in Seq(S) /\ Follows(<<x>> \o s, s)
<1>1. <<x>> \in Seq(S) /\ Len(<<x>>) = 1
  OBVIOUS
<1>2. /\ <<x>> \o s \in Seq(S) /\ Len(<<x>> \o s) = Len(s) + 1 /\ Len(s) \in Nat
      /\ \A i \in 1 .. Len(s) : (<<x>> \o s)[i + 1] = s[i]
  <2>1. /\ <<x>> \o s \in Seq(S) /\ Len(<<x>> \o s) = 1 + Len(s) /\ Len(s) \in Nat
        /\ \A i \in 1 .. Len(s) : (<<x>> \o s)[1 + i] = s[i]
    BY <1>1, Joined
  <2> QED BY <2>1
<1> DEFINE y == <<x>> \o s
<1>3. y # <<>>
  BY <1>2
<1>4. /\ Tail(y) \in Seq(S) /\ Len(Tail(y)) = Len(y) - 1
      /\ \A i \in 1 .. Len(y) - 1 : Tail(y)[i] = y[i + 1]
  <2> HIDE DEF y
  <2>1. y \in Seq(S)
    BY <1>2 DEF y
  <2> QED BY <1>3, <2>1, HeadTailProperties
<1>5. Tail(y) = s
  <2>1. Len(Tail(y)) = Len(s) /\ \A i \in 1 .. Len(s) : Tail(y)[i] = s[i]
    BY <1>2, <1>4
  <2> HIDE DEF y
  <2> QED BY <1>4, <2>1, Same
<1> QED BY <1>2, <1>5 DEF Follows

(* Header, data and zeroes of a report.                                    *)
LEMMA Framed ==
  ASSUME NEW S, NEW h \in Seq(S), NEW d \in Seq(S), NEW n \in Nat,
         0 \in S, Len(h) + Len(d) <= n
  PROVE  /\ Filled(h \o d, n) \in Seq(S) /\ Len(Filled(h \o d, n)) = n
         /\ \A i \in 1 .. Len(h) : Filled(h \o d, n)[i] = h[i]
         /\ \A i \in 1 .. Len(d) : Filled(h \o d, n)[Len(h) + i] = d[i]
<1> DEFINE hd == h \o d
           z == Zeroes(n - Len(hd))
<1>1. /\ hd \in Seq(S) /\ Len(hd) = Len(h) + Len(d)
      /\ \A i \in 1 .. Len(h) : hd[i] = h[i]
      /\ \A i \in 1 .. Len(d) : hd[Len(h) + i] = d[i]
      /\ Len(h) \in Nat /\ Len(d) \in Nat
  BY Joined
<1>2. n - Len(hd) \in Nat
  BY <1>1
<1>3. z \in Seq(S) /\ Len(z) = n - Len(hd)
  BY <1>2 DEF Zeroes
<1> HIDE DEF hd, z
<1>4. /\ hd \o z \in Seq(S) /\ Len(hd \o z) = n
      /\ \A i \in 1 .. Len(hd) : (hd \o z)[i] = hd[i]
  BY <1>1, <1>3, Joined
<1>5. Filled(h \o d, n) = hd \o z
  BY DEF Filled, hd, z
<1> QED BY <1>1, <1>4, <1>5

-----------------------------------------------------------------------------
(* Requests and answers *)

(* The sizes of the data, as the assumptions give them.                    *)
LEMMA Sizes ==
  /\ ByteSize \in Nat \ {0} /\ 0 \in Byte /\ 1 \in Byte /\ Byte \subseteq Nat
  /\ ReportLen \in Nat /\ NumSlots \in Nat \ {0} /\ PageLen \in Nat \ {0} /\ ProfileLen \in Nat \ {0}
  /\ NumLayers \in 1 .. 4 /\ NumPages \in Nat \ {0}
  /\ LengthOf.GetKeyMatrix = 4 * NumSlots /\ LengthOf.GetLedColors = 3 * NumSlots
  /\ LengthOf.GetProfile = ProfileLen /\ LengthOf.GetMacros = PageLen
  /\ DOMAIN LengthOf = {"GetKeyMatrix", "GetLedColors", "GetProfile", "GetMacros"}
  /\ \A op \in DOMAIN LengthOf :
       /\ LengthOf[op] \in Nat \ {0} /\ HeaderLen + LengthOf[op] <= ReportLen
       /\ LengthOf[op] < ByteSize * ByteSize
<1>1. /\ LengthOf.GetKeyMatrix = 4 * NumSlots /\ LengthOf.GetLedColors = 3 * NumSlots
      /\ LengthOf.GetProfile = ProfileLen /\ LengthOf.GetMacros = PageLen
      /\ DOMAIN LengthOf = {"GetKeyMatrix", "GetLedColors", "GetProfile", "GetMacros"}
  BY DEF LengthOf
<1>2. /\ ByteSize \in Nat \ {0} /\ 0 \in Byte /\ 1 \in Byte /\ Byte \subseteq Nat
      /\ ReportLen \in Nat /\ NumSlots \in Nat \ {0} /\ PageLen \in Nat \ {0} /\ ProfileLen \in Nat \ {0}
      /\ NumLayers \in 1 .. 4 /\ NumPages \in Nat \ {0}
  BY FrameAssumption DEF Byte
<1>3. \A op \in DOMAIN LengthOf :
        /\ HeaderLen + LengthOf[op] <= ReportLen /\ LengthOf[op] < ByteSize * ByteSize
  BY FrameAssumption
<1>4. \A op \in DOMAIN LengthOf : LengthOf[op] \in Nat \ {0}
  BY <1>1, <1>2
<1> QED BY <1>1, <1>2, <1>3, <1>4

Body(op, byte1, byte3, byte4, length, d) ==
  Filled(Header(op, byte1, byte3, byte4, length) \o d, ReportLen)

(* What the receiver of a report reads in it is what the sender put in.    *)
Carries(body, op, byte1, byte3, byte4, length, d) ==
  /\ body \in Seq(Nat) /\ Len(body) = ReportLen
  /\ OpOf(body) = op /\ DataLength(body) = length
  /\ body[2] = byte1 /\ body[5] = byte4
  /\ SubSeq(body, 1, HeaderLen) = Header(op, byte1, byte3, byte4, length)
  /\ SubSeq(body, HeaderLen + 1, HeaderLen + Len(d)) = d

LEMMA BodyFields ==
  ASSUME NEW op \in DOMAIN OpByte, NEW byte1 \in Nat, NEW byte3 \in Nat, NEW byte4 \in Nat,
         NEW length \in Nat, NEW d \in Seq(Byte),
         length < ByteSize * ByteSize, HeaderLen + Len(d) <= ReportLen
  PROVE  Carries(Body(op, byte1, byte3, byte4, length, d), op, byte1, byte3, byte4, length, d)
<1> DEFINE h == Header(op, byte1, byte3, byte4, length)
           body == Body(op, byte1, byte3, byte4, length, d)
<1>0. body = Filled(h \o d, ReportLen)
  BY DEF Body
<1> HIDE DEF body
<1>1. /\ length % ByteSize \in Nat /\ length \div ByteSize \in Nat
      /\ (length % ByteSize) + ByteSize * (length \div ByteSize) = length
  <2>1. /\ length % ByteSize \in 0 .. ByteSize - 1 /\ length \div ByteSize \in 0 .. ByteSize - 1
        /\ (length % ByteSize) + ByteSize * (length \div ByteSize) = length
    BY Sizes, TwoBytes
  <2> QED BY <2>1, Sizes
<1>2. OpByte[op] \in Nat /\ \A o \in DOMAIN OpByte : OpByte[o] = OpByte[op] => o = op
  BY FrameAssumption, Sizes
<1>3. /\ h \in Seq(Nat) /\ Len(h) = 7
      /\ h[1] = OpByte[op] /\ h[2] = byte1 /\ h[5] = byte4
      /\ h[6] = length % ByteSize /\ h[7] = length \div ByteSize
  BY <1>1, <1>2 DEF Header
<1> HIDE DEF h
<1>4. d \in Seq(Nat) /\ Len(d) \in Nat
  <2>1. d \in [1 .. Len(d) -> Byte] /\ Len(d) \in Nat
    BY LenProperties
  <2>2. d \in [1 .. Len(d) -> Nat]
    BY <2>1, Sizes
  <2> QED BY <2>1, <2>2, Made
<1>5. /\ body \in Seq(Nat) /\ Len(body) = ReportLen
      /\ \A i \in 1 .. 7 : body[i] = h[i]
      /\ \A i \in 1 .. Len(d) : body[7 + i] = d[i]
  <2>1. Len(h) + Len(d) <= ReportLen /\ ReportLen \in Nat
    BY <1>3, Sizes DEF HeaderLen
  <2>2. /\ body \in Seq(Nat) /\ Len(body) = ReportLen
        /\ \A i \in 1 .. Len(h) : body[i] = h[i]
        /\ \A i \in 1 .. Len(d) : body[Len(h) + i] = d[i]
    <3>1. h \in Seq(Nat)
      BY <1>3
    <3>2. d \in Seq(Nat)
      BY <1>4
    <3>3. 0 \in Nat
      OBVIOUS
    <3> DEFINE f == Filled(h \o d, ReportLen)
    <3>4. /\ f \in Seq(Nat) /\ Len(f) = ReportLen
          /\ \A i \in 1 .. Len(h) : f[i] = h[i]
          /\ \A i \in 1 .. Len(d) : f[Len(h) + i] = d[i]
      BY <2>1, <3>1, <3>2, <3>3, Framed
    <3> HIDE DEF f
    <3>5. body = f
      BY <1>0 DEF f
    <3> QED BY <3>4, <3>5
  <2> QED BY <1>3, <2>2
<1>6. body[1] = h[1] /\ body[2] = h[2] /\ body[5] = h[5] /\ body[6] = h[6] /\ body[7] = h[7]
  BY <1>5
<1>7. OpOf(body) = op
  BY <1>2, <1>3, <1>6 DEF OpOf
<1>8. DataLength(body) = length
  BY <1>1, <1>3, <1>6 DEF DataLength
<1>9. ReportLen >= 7 + Len(d)
  BY <1>4, Sizes DEF HeaderLen
<1>10. SubSeq(body, 1, HeaderLen) = h
  <2> DEFINE n == 7
             t == SubSeq(body, 1, n)
  <2>1. t \in Seq(Nat) /\ Len(t) = n /\ \A i \in 1 .. n : t[i] = body[i]
    <3>1. n <= Len(body) /\ n \in Nat
      BY <1>4, <1>5, <1>9
    <3>2. body \in Seq(Nat)
      BY <1>5
    <3> HIDE DEF n
    <3> QED BY <3>1, <3>2, Front
  <2>2. t \in Seq(Nat) /\ Len(t) = 7 /\ \A i \in 1 .. 7 : t[i] = h[i]
    BY <1>5, <2>1
  <2> HIDE DEF t
  <2>3. t = h
    BY <1>3, <2>2, Same
  <2> QED BY <2>3 DEF t, HeaderLen
<1>11. SubSeq(body, HeaderLen + 1, HeaderLen + Len(d)) = d
  <2> DEFINE n == Len(d)
             t == SubSeq(body, 7 + 1, 7 + n)
  <2>1. t \in Seq(Nat) /\ Len(t) = n /\ \A i \in 1 .. n : t[i] = body[7 + i]
    <3>1. 7 + n <= Len(body) /\ n \in Nat /\ 7 \in Nat
      BY <1>4, <1>5, <1>9
    <3>2. body \in Seq(Nat)
      BY <1>5
    <3> HIDE DEF n
    <3> QED BY <3>1, <3>2, Part
  <2> HIDE DEF t
  <2>2. t = d
    BY <1>4, <1>5, <2>1, Same
  <2> QED BY <2>2 DEF t, HeaderLen
<1> QED BY <1>3, <1>5, <1>6, <1>7, <1>8, <1>10, <1>11 DEF h, body, Carries

(* Where a request has its address.                                        *)
Addressed(op, byte1, byte4, at) ==
  IF op \in {"GetMacros", "SetMacros"} THEN byte4 = at ELSE byte1 = at /\ at \in 0 .. 3

LEMMA AddressFound ==
  ASSUME NEW op, NEW body, NEW byte1, NEW byte4, NEW at,
         OpOf(body) = op, body[2] = byte1, body[5] = byte4, Addressed(op, byte1, byte4, at)
  PROVE  AddressOf(body) = at
<1>1. CASE op \in {"GetMacros", "SetMacros"}
  BY <1>1 DEF AddressOf, Addressed
<1>2. CASE op \notin {"GetMacros", "SetMacros"}
  <2>1. at \in 0 .. 3 /\ body[2] = at
    BY <1>2 DEF Addressed
  <2>2. at % 4 = at
    BY <2>1
  <2> QED BY <1>2, <2>1, <2>2 DEF AddressOf
<1> QED BY <1>1, <1>2

(* A read names one of the four stores and an address in it.               *)
LEMMA ReadFields ==
  ASSUME NEW r \in Reads
  PROVE  /\ r.op \in DOMAIN LengthOf /\ r.op \in DOMAIN OpByte /\ r = [op |-> r.op, at |-> r.at]
         /\ r.at \in Nat
         /\ r.op = "GetKeyMatrix" => r.at \in Layers
         /\ r.op = "GetMacros" => r.at \in 0 .. NumPages - 1
         /\ r.op \in {"GetLedColors", "GetProfile"} => r.at = 0
         /\ r.op # "GetMacros" => r.at \in 0 .. 3
<1>1. DOMAIN LengthOf \subseteq DOMAIN OpByte
  BY FrameAssumption
<1>2. r.op \in DOMAIN LengthOf
  BY Sizes DEF Reads
<1>3. /\ r = [op |-> r.op, at |-> r.at]
      /\ r.op = "GetKeyMatrix" => r.at \in Layers
      /\ r.op = "GetMacros" => r.at \in 0 .. NumPages - 1
      /\ r.op \in {"GetLedColors", "GetProfile"} => r.at = 0
  BY DEF Reads
<1>4. Layers \subseteq 0 .. 3 /\ 0 .. NumPages - 1 \subseteq Nat
  BY Sizes DEF Layers
<1>5. r.op # "GetMacros" => r.at \in 0 .. 3
  BY <1>2, <1>3, <1>4, Sizes
<1>6. r.at \in Nat
  BY <1>3, <1>4, <1>5
<1> QED BY <1>1, <1>2, <1>3, <1>5, <1>6

LEMMA ReadHeader ==
  ASSUME NEW r \in Reads
  PROVE  \E byte1, byte3, byte4 \in Nat :
           /\ Getting(r.op, r.at) =
                Body(r.op, byte1, byte3, byte4, LengthOf[r.op], <<>>)
           /\ Addressed(r.op, byte1, byte4, r.at)
<1>1. /\ r.op \in DOMAIN LengthOf /\ r.at \in Nat
      /\ r.op # "GetMacros" => r.at \in 0 .. 3
  BY ReadFields
<1>2. CASE r.op = "GetMacros"
  <2>1. Getting(r.op, r.at) =
          Body(r.op, 0, 1, r.at, LengthOf[r.op], <<>>)
    <3>1. Getting(r.op, r.at) = Filled(Header("GetMacros", 0, 1, r.at, PageLen), ReportLen)
      BY <1>2 DEF Getting, BuildMacroGetPageRequest
    <3> DEFINE h == Header("GetMacros", 0, 1, r.at, PageLen)
    <3>2. h \o <<>> = h
      BY DEF Header
    <3>3. LengthOf[r.op] = PageLen
      BY <1>2, Sizes
    <3> QED BY <1>2, <3>1, <3>2, <3>3 DEF Body
  <2>2. Addressed(r.op, 0, r.at, r.at)
    BY <1>2 DEF Addressed
  <2> QED BY <1>1, <2>1, <2>2
<1>3. CASE r.op # "GetMacros"
  <2>1. Getting(r.op, r.at) =
          Body(r.op, r.at, 1, 0, LengthOf[r.op], <<>>)
    BY <1>3 DEF Getting, BuildRequest, Body
  <2>2. Addressed(r.op, r.at, 0, r.at)
    BY <1>1, <1>3, Sizes DEF Addressed
  <2> QED BY <1>1, <2>1, <2>2
<1> QED BY <1>2, <1>3

(* What the firmware reads in a request for data.                          *)
LEMMA RequestRead ==
  ASSUME NEW r \in Reads
  PROVE  LET body == Getting(r.op, r.at)
         IN /\ Len(body) = ReportLen /\ body # <<>>
            /\ OpOf(body) = r.op /\ AddressOf(body) = r.at /\ DataLength(body) = LengthOf[r.op]
<1> DEFINE body == Getting(r.op, r.at)
           n == LengthOf[r.op]
<1>1. r.op \in DOMAIN OpByte /\ n \in Nat /\ n < ByteSize * ByteSize /\ HeaderLen <= ReportLen
  BY ReadFields, Sizes DEF HeaderLen
<1>2. PICK byte1, byte3, byte4 \in Nat :
        /\ body = Body(r.op, byte1, byte3, byte4, n, <<>>)
        /\ Addressed(r.op, byte1, byte4, r.at)
  BY ReadHeader
<1>3. <<>> \in Seq(Byte) /\ Len(<<>>) = 0 /\ HeaderLen + Len(<<>>) <= ReportLen
  BY <1>1 DEF HeaderLen
<1> DEFINE o == r.op
           d == <<>>
<1>4. body = Body(o, byte1, byte3, byte4, n, d)
  BY <1>2
<1>5. d \in Seq(Byte) /\ HeaderLen + Len(d) <= ReportLen /\ o \in DOMAIN OpByte
  BY <1>1, <1>3
<1> HIDE DEF body, n, d, o
<1>6. /\ Len(body) = ReportLen /\ OpOf(body) = o /\ DataLength(body) = n
      /\ body[2] = byte1 /\ body[5] = byte4
  <2>1. o \in DOMAIN OpByte
    BY <1>5
  <2>2. d \in Seq(Byte)
    BY <1>5
  <2>3. n \in Nat
    BY <1>1
  <2>4. n < ByteSize * ByteSize
    BY <1>1
  <2>5. HeaderLen + Len(d) <= ReportLen
    BY <1>5
  <2>6. byte1 \in Nat /\ byte3 \in Nat /\ byte4 \in Nat
    OBVIOUS
  <2>7. Carries(Body(o, byte1, byte3, byte4, n, d), o, byte1, byte3, byte4, n, d)
    BY <2>1, <2>2, <2>3, <2>4, <2>5, <2>6, BodyFields
  <2> QED BY <1>4, <2>7 DEF Carries
<1>7. AddressOf(body) = r.at
  BY <1>2, <1>6, AddressFound DEF o
<1>8. body # <<>>
  BY <1>1, <1>6 DEF HeaderLen
<1> QED BY <1>6, <1>7, <1>8 DEF body, n, o

-----------------------------------------------------------------------------
(* What the host reads in a report: the answer to request r, with data d.  *)
Shows(rep, r, d) ==
  /\ Len(rep) = ReportLen + 1
  /\ rep[7] \in Nat /\ rep[8] \in Nat /\ rep[7] + ByteSize * rep[8] = LengthOf[r.op]
  /\ OpOf(Tail(rep)) = r.op /\ AddressOf(Tail(rep)) = r.at
  /\ Payload(Tail(rep)) = d
  /\ rep \in Seq(Nat \union {ReportId})
  /\ \A i \in 1 .. LengthOf[r.op] : rep[8 + i] = d[i]

LEMMA AnswerShows ==
  ASSUME NEW r \in Reads, NEW d \in Image(LengthOf[r.op])
  PROVE  Shows(<<ReportId>> \o Filled(SubSeq(Getting(r.op, r.at), 1, HeaderLen) \o d, ReportLen),
               r, d)
<1> DEFINE o == r.op
           n == LengthOf[r.op]
<1>1. n \in Nat /\ n < ByteSize * ByteSize /\ HeaderLen + n <= ReportLen
  BY ReadFields, Sizes
<1>2. PICK byte1, byte3, byte4 \in Nat :
        /\ Getting(r.op, r.at) = Body(o, byte1, byte3, byte4, n, <<>>)
        /\ Addressed(o, byte1, byte4, r.at)
  BY ReadHeader
<1>3. o \in DOMAIN OpByte
  BY ReadFields
<1>4. d \in Seq(Byte) /\ Len(d) = n
  <2>1. d \in [1 .. n -> Byte]
    BY DEF Image
  <2> HIDE DEF n
  <2> QED BY <1>1, <2>1, Made
<1> HIDE DEF o, n
<1>5. SubSeq(Getting(r.op, r.at), 1, HeaderLen) = Header(o, byte1, byte3, byte4, n)
  <2> DEFINE e == <<>>
  <2>1. e \in Seq(Byte)
    OBVIOUS
  <2>2. HeaderLen + Len(e) <= ReportLen
    BY <1>1, Sizes DEF HeaderLen
  <2>3. n \in Nat /\ n < ByteSize * ByteSize
    BY <1>1
  <2> HIDE DEF e
  <2>4. Carries(Body(o, byte1, byte3, byte4, n, e), o, byte1, byte3, byte4, n, e)
    BY <1>3, <2>1, <2>2, <2>3, BodyFields
  <2>5. Getting(r.op, r.at) = Body(o, byte1, byte3, byte4, n, e)
    BY <1>2 DEF e
  <2> QED BY <2>4, <2>5 DEF Carries
<1> DEFINE body == Body(o, byte1, byte3, byte4, n, d)
           rep == <<ReportId>> \o body
<1>6. Filled(SubSeq(Getting(r.op, r.at), 1, HeaderLen) \o d, ReportLen) = body
  BY <1>5 DEF Body
<1>7. Carries(body, o, byte1, byte3, byte4, n, d)
  <2>1. n \in Nat
    BY <1>1
  <2>2. d \in Seq(Byte)
    BY <1>4
  <2>3. n < ByteSize * ByteSize
    BY <1>1
  <2>4. HeaderLen + Len(d) <= ReportLen
    BY <1>1, <1>4
  <2> QED BY <1>3, <2>1, <2>2, <2>3, <2>4, BodyFields
<1> HIDE DEF body
<1>8. /\ body \in Seq(Nat) /\ Len(body) = ReportLen
      /\ OpOf(body) = o /\ DataLength(body) = n
      /\ body[2] = byte1 /\ body[5] = byte4
      /\ SubSeq(body, HeaderLen + 1, HeaderLen + n) = d
  BY <1>4, <1>7 DEF Carries
<1>9. AddressOf(body) = r.at
  BY <1>2, <1>8, AddressFound
<1>10. Payload(body) = d
  BY <1>8 DEF Payload
<1> DEFINE T == Nat \union {ReportId}
<1>11. body \in Seq(T) /\ ReportId \in T
  <2>1. body \in [1 .. ReportLen -> Nat] /\ ReportLen \in Nat
    BY <1>8, Sizes, Made
  <2>2. body \in [1 .. ReportLen -> T]
    BY <2>1
  <2> QED BY <2>1, <2>2, Made
<1>12. /\ rep \in Seq(T) /\ Len(rep) = ReportLen + 1 /\ Tail(rep) = body
       /\ \A i \in 1 .. ReportLen : rep[i + 1] = body[i]
  <2> HIDE DEF T
  <2>1. rep \in Seq(T) /\ Follows(rep, body)
    BY <1>11, Prefixed
  <2> HIDE DEF rep
  <2> QED BY <1>8, <2>1 DEF Follows
<1> HIDE DEF rep
<1>13. \A i \in 1 .. n : rep[8 + i] = d[i]
  <2> SUFFICES ASSUME NEW i \in 1 .. n PROVE rep[8 + i] = d[i]
    OBVIOUS
  <2>1. 7 + i \in 1 .. ReportLen /\ (7 + i) + 1 = 8 + i
    BY <1>1, Sizes DEF HeaderLen
  <2>2. rep[8 + i] = body[7 + i]
    BY <1>12, <2>1
  <2>3. SubSeq(body, 7 + 1, 7 + n)[i] = body[7 + i]
    <3>1. 7 + n <= Len(body)
      BY <1>1, <1>8 DEF HeaderLen
    <3>2. body \in Seq(Nat) /\ 7 \in Nat /\ n \in Nat
      BY <1>1, <1>8
    <3> QED BY <3>1, <3>2, Part
  <2>4. SubSeq(body, 7 + 1, 7 + n) = d
    BY <1>8 DEF HeaderLen
  <2> QED BY <2>2, <2>3, <2>4
<1>14. rep[7] = body[6] /\ rep[8] = body[7]
  <2>1. 6 \in 1 .. ReportLen /\ 7 \in 1 .. ReportLen
    BY <1>1, Sizes DEF HeaderLen
  <2> QED BY <1>12, <2>1
<1>15. rep[7] + ByteSize * rep[8] = n
  BY <1>8, <1>14 DEF DataLength
<1>16. rep[7] \in Nat /\ rep[8] \in Nat
  <2>1. 6 \in 1 .. ReportLen /\ 7 \in 1 .. ReportLen
    BY <1>1, Sizes DEF HeaderLen
  <2> QED BY <1>8, <1>14, <2>1
<1>17. Shows(rep, r, d)
  BY <1>8, <1>9, <1>10, <1>12, <1>13, <1>15, <1>16 DEF Shows, o, n
<1> QED BY <1>6, <1>17 DEF rep

(* Before anything has been asked a report is empty.                       *)
LEMMA NothingShown ==
  /\ Blank \in Seq(Nat \union {ReportId}) /\ Len(Blank) = ReportLen + 1
  /\ Blank[7] = 0 /\ Blank[8] = 0 /\ Blank[7] + ByteSize * Blank[8] = 0
<1> DEFINE T == Nat \union {ReportId}
           z == Zeroes(ReportLen)
<1>1. ReportLen \in Nat /\ 7 <= ReportLen
  <2>1. HeaderLen + LengthOf.GetMacros <= ReportLen /\ LengthOf.GetMacros \in Nat
    BY Sizes
  <2> QED BY <2>1, Sizes DEF HeaderLen
<1>2. z \in Seq(T) /\ Len(z) = ReportLen
  BY <1>1, Made DEF Zeroes
<1>3. z[6] = 0 /\ z[7] = 0
  BY <1>1 DEF Zeroes
<1>4. ReportId \in T
  OBVIOUS
<1> HIDE DEF T, z
<1> DEFINE y == <<ReportId>> \o z
<1>5. y \in Seq(T) /\ Follows(y, z)
  BY <1>2, <1>4, Prefixed
<1> HIDE DEF y
<1>6. y[7] = 0 /\ y[8] = 0
  <2>1. 6 \in 1 .. Len(z) /\ 7 \in 1 .. Len(z)
    BY <1>1, <1>2
  <2>2. y[6 + 1] = z[6] /\ y[7 + 1] = z[7]
    BY <1>5, <2>1 DEF Follows
  <2> QED BY <1>3, <2>2
<1>7. Len(y) = ReportLen + 1 /\ y[7] = 0 /\ y[8] = 0 /\ y[7] + ByteSize * y[8] = 0
  BY <1>2, <1>5, <1>6, Sizes DEF Follows
<1>8. Blank = y
  BY DEF Blank, y, z
<1> QED BY <1>5, <1>7, <1>8 DEF T

LEMMA ShownIsNotBlank ==
  ASSUME NEW rep, NEW r \in Reads, NEW d, Shows(rep, r, d)
  PROVE  rep # Blank
<1>1. rep[7] + ByteSize * rep[8] # 0
  BY ReadFields, Sizes DEF Shows
<1> QED BY <1>1, NothingShown

-----------------------------------------------------------------------------
(* Writes *)

(* What the firmware reads in a request to write.                          *)
LEMMA WriteRead ==
  ASSUME NEW w, Writable(w)
  PROVE  LET body == Setting(w)
         IN /\ body # <<>> /\ w.op \in Settings /\ w.data \in Seq(Byte)
            /\ OpOf(body) = w.op /\ AddressOf(body) = w.at /\ Payload(body) = w.data
<1> DEFINE body == Setting(w)
           o == w.op
           d == w.data
           n == Len(d)
<1>1. o \in Settings /\ o \in DOMAIN OpByte
  <2>1. o \in Settings
    BY DEF Writable, Settings
  <2> QED BY <2>1, FrameAssumption
<1>2. /\ d \in Seq(Byte) /\ n \in Nat
      /\ n < ByteSize * ByteSize /\ HeaderLen + n <= ReportLen
  <2>1. \E op \in DOMAIN LengthOf : d \in Seq(Byte) /\ Len(d) <= LengthOf[op]
    <3>1. \A l \in Nat : d \in Image(l) => d \in Seq(Byte) /\ Len(d) = l
      BY Made DEF Image
    <3>2. CASE w.op = "SetKeyMatrix"
      <4>1. d \in Image(LengthOf.GetKeyMatrix) /\ LengthOf.GetKeyMatrix \in Nat
        BY <3>2, Sizes DEF Writable
      <4>2. d \in Seq(Byte) /\ Len(d) = LengthOf.GetKeyMatrix
        BY <3>1, <4>1
      <4> QED BY <4>1, <4>2, Sizes
    <3>3. CASE w.op = "SetMacros"
      <4>1. d \in Seq(Byte) /\ Len(d) <= LengthOf.GetMacros
        BY <3>3, Sizes DEF Writable
      <4> QED BY <4>1, Sizes
    <3>4. CASE w.op = "SetLedColors"
      <4>1. d \in Image(LengthOf.GetLedColors) /\ LengthOf.GetLedColors \in Nat
        BY <3>4, Sizes DEF Writable
      <4>2. d \in Seq(Byte) /\ Len(d) = LengthOf.GetLedColors
        BY <3>1, <4>1
      <4> QED BY <4>1, <4>2, Sizes
    <3>5. CASE w.op = "SetProfile"
      <4>1. d \in Image(LengthOf.GetProfile) /\ LengthOf.GetProfile \in Nat
        BY <3>5, Sizes DEF Writable
      <4>2. d \in Seq(Byte) /\ Len(d) = LengthOf.GetProfile
        BY <3>1, <4>1
      <4> QED BY <4>1, <4>2, Sizes
    <3> QED BY <1>1, <3>2, <3>3, <3>4, <3>5 DEF Settings
  <2>2. PICK op \in DOMAIN LengthOf : d \in Seq(Byte) /\ Len(d) <= LengthOf[op]
    BY <2>1
  <2> DEFINE l == LengthOf[op]
  <2>3. l \in Nat /\ l < ByteSize * ByteSize /\ HeaderLen + l <= ReportLen /\ ReportLen \in Nat
    BY Sizes
  <2>4. n \in Nat /\ n <= l
    BY <2>2, LenProperties
  <2>5. ByteSize * ByteSize \in Nat
    BY Sizes
  <2> HIDE DEF l, n
  <2> QED BY <2>2, <2>3, <2>4, <2>5 DEF HeaderLen
<1>3. \E byte1, byte3, byte4 \in Nat :
        body = Body(o, byte1, byte3, byte4, n, d) /\ Addressed(o, byte1, byte4, w.at)
  <2>1. CASE o = "SetMacros"
    <3>1. w.at \in Nat /\ w.of \in Nat
      <4>1. w.at \in 0 .. NumPages - 1 /\ w.of \in Byte
        BY <2>1 DEF Writable
      <4>2. NumPages \in Nat /\ Byte \subseteq Nat
        BY Sizes
      <4>3. w.of \in Nat
        BY <4>1, <4>2, Zenon
      <4>4. w.at \in Nat
        BY <4>1, <4>2
      <4> QED BY <4>3, <4>4
    <3>2. body = Body(o, 0, w.of, w.at, n, d)
      BY <2>1 DEF Setting, BuildMacroSetPageRequest, Body
    <3>3. Addressed(o, 0, w.at, w.at)
      BY <2>1 DEF Addressed
    <3> QED BY <3>1, <3>2, <3>3
  <2>2. CASE o # "SetMacros"
    <3>1. w.at \in 0 .. 3
      BY <2>2, Sizes DEF Writable, Layers
    <3>2. body = Body(o, w.at, 1, 0, n, d)
      BY <2>2 DEF Setting, BuildRequest, Body
    <3>3. Addressed(o, w.at, 0, w.at)
      BY <1>1, <2>2, <3>1 DEF Addressed, Settings
    <3> QED BY <3>1, <3>2, <3>3
  <2> QED BY <2>1, <2>2
<1> HIDE DEF body, o, d, n
<1>4. PICK byte1, byte3, byte4 \in Nat :
        body = Body(o, byte1, byte3, byte4, n, d) /\ Addressed(o, byte1, byte4, w.at)
  BY <1>3
<1>5. Carries(body, o, byte1, byte3, byte4, n, d)
  <2>1. o \in DOMAIN OpByte
    BY <1>1
  <2>2. n \in Nat
    BY <1>2
  <2>3. d \in Seq(Byte)
    BY <1>2
  <2>4. n < ByteSize * ByteSize
    BY <1>2
  <2>5. HeaderLen + Len(d) <= ReportLen
    BY <1>2 DEF n
  <2>6. Carries(Body(o, byte1, byte3, byte4, n, d), o, byte1, byte3, byte4, n, d)
    BY <2>1, <2>2, <2>3, <2>4, <2>5, BodyFields
  <2> QED BY <1>4, <2>6
<1>6. /\ Len(body) = ReportLen /\ OpOf(body) = o /\ DataLength(body) = n
      /\ body[2] = byte1 /\ body[5] = byte4
      /\ SubSeq(body, HeaderLen + 1, HeaderLen + n) = d
  BY <1>5 DEF Carries, n
<1>7. AddressOf(body) = w.at
  BY <1>4, <1>6, AddressFound
<1>8. Payload(body) = d
  BY <1>6 DEF Payload
<1>9. ReportLen > 0
  BY <1>2, Sizes DEF HeaderLen
<1>10. body # <<>>
  BY <1>6, <1>9
<1> QED BY <1>1, <1>2, <1>6, <1>7, <1>8, <1>10 DEF body, o, d

(* A payload of a store's size replaces all of it.                         *)
LEMMA WholeOverlaid ==
  ASSUME NEW n \in Nat, NEW old \in Image(n), NEW new \in Image(n)
  PROVE  Overlaid(old, new) = new
<1>1. /\ old \in Seq(Byte) /\ Len(old) = n
      /\ new \in Seq(Byte) /\ Len(new) = n
  BY Made DEF Image
<1>2. SubSeq(old, n + 1, n) = <<>>
  BY <1>1
<1> QED BY <1>1, <1>2 DEF Overlaid

(* A shorter one leaves a store of its size.                               *)
LEMMA PartOverlaid ==
  ASSUME NEW n \in Nat, NEW old \in Image(n), NEW new \in Seq(Byte), Len(new) <= n
  PROVE  Overlaid(old, new) \in Image(n)
<1>1. old \in Seq(Byte) /\ Len(old) = n
  BY Made DEF Image
<1> DEFINE k == Len(new)
           rest == SubSeq(old, k + 1, n)
<1>2. k \in Nat /\ n - k \in Nat /\ k + (n - k) = n
  BY LenProperties
<1>3. rest \in Seq(Byte) /\ Len(rest) = n - k
  <2> DEFINE j == n - k
  <2>1. k \in Nat /\ j \in Nat /\ k + j <= Len(old) /\ k + j = n
    BY <1>1, <1>2
  <2> HIDE DEF j, k
  <2>2. SubSeq(old, k + 1, k + j) \in Seq(Byte) /\ Len(SubSeq(old, k + 1, k + j)) = j
    BY <1>1, <2>1, Part
  <2> QED BY <2>1, <2>2 DEF j
<1> HIDE DEF rest
<1>4. new \o rest \in Seq(Byte) /\ Len(new \o rest) = Len(new) + Len(rest)
  BY <1>3, Joined
<1>5. Len(new \o rest) = n
  BY <1>2, <1>3, <1>4
<1>6. Overlaid(old, new) = new \o rest
  BY <1>1 DEF Overlaid, rest
<1> DEFINE y == new \o rest
<1>7. y \in Seq(Byte) /\ Len(y) = n
  BY <1>4, <1>5
<1> HIDE DEF y
<1>8. y \in [1 .. n -> Byte]
  BY <1>7, Made
<1> QED BY <1>6, <1>8 DEF Image, y

(* A write reaches its store, and nothing else is touched.                 *)
LEMMA WriteStored ==
  ASSUME NEW w, Writable(w), stores \in Memories, Send(Setting(w))
  PROVE  /\ stores' \in Memories /\ UNCHANGED <<pending, report>>
         /\ settling' = (settling \/ w.op = "SetProfile")
         /\ w.op \in Settings
         /\ w.op = "SetKeyMatrix" =>
              stores' = [layers |-> [stores.layers EXCEPT ![w.at + 1] = w.data],
                         pages |-> stores.pages, colors |-> stores.colors, profile |-> stores.profile]
         /\ w.op = "SetMacros" =>
              stores' = [layers |-> stores.layers,
                         pages |-> [stores.pages EXCEPT
                                      ![w.at + 1] = Overlaid(stores.pages[w.at + 1], w.data)],
                         colors |-> stores.colors, profile |-> stores.profile]
         /\ w.op = "SetLedColors" =>
              stores' = [layers |-> stores.layers, pages |-> stores.pages, colors |-> w.data,
                         profile |-> stores.profile]
         /\ w.op = "SetProfile" =>
              stores' = [layers |-> stores.layers, pages |-> stores.pages,
                         colors |-> stores.colors, profile |-> w.data]
<1> DEFINE body == Setting(w)
<1>1. /\ OpOf(body) = w.op /\ AddressOf(body) = w.at /\ Payload(body) = w.data
      /\ w.op \in Settings /\ w.data \in Seq(Byte)
  BY WriteRead
<1>2. /\ stores' = Received(body) /\ settling' = (settling \/ w.op = "SetProfile")
      /\ report' = report /\ pending' = pending
  <2>1. w.op \notin DOMAIN LengthOf
    BY <1>1, Sizes DEF Settings
  <2> QED BY <1>1, <2>1 DEF Send
<1> HIDE DEF body
<1>3. /\ stores.layers \in [1 .. NumLayers -> Image(LengthOf.GetKeyMatrix)]
      /\ stores.pages \in [1 .. NumPages -> Image(PageLen)]
      /\ stores.colors \in Image(LengthOf.GetLedColors) /\ stores.profile \in Image(ProfileLen)
  BY DEF Memories
<1>4. ASSUME w.op = "SetKeyMatrix"
      PROVE  /\ stores' \in Memories
             /\ stores' = [layers |-> [stores.layers EXCEPT ![w.at + 1] = w.data],
                         pages |-> stores.pages, colors |-> stores.colors, profile |-> stores.profile]
  <2> DEFINE old == stores.layers[w.at + 1]
             new == Overlaid(old, w.data)
  <2>1. w.at + 1 \in 1 .. NumLayers /\ w.data \in Image(LengthOf.GetKeyMatrix)
    BY <1>4, Sizes DEF Writable, Layers
  <2>2. old \in Image(LengthOf.GetKeyMatrix)
    BY <1>3, <2>1
  <2>3. LengthOf.GetKeyMatrix \in Nat
    BY Sizes
  <2>4. new = w.data
    BY <2>1, <2>2, <2>3, WholeOverlaid
  <2>5. stores' = [stores EXCEPT !.layers[w.at + 1] = new]
    BY <1>1, <1>2, <1>4 DEF Received
  <2> HIDE DEF new, old
  <2> DEFINE layers == [stores.layers EXCEPT ![w.at + 1] = w.data]
  <2>6. stores' = [layers |-> layers, pages |-> stores.pages, colors |-> stores.colors,
                   profile |-> stores.profile]
    BY <2>4, <2>5 DEF Memories
  <2>7. layers \in [1 .. NumLayers -> Image(LengthOf.GetKeyMatrix)]
    BY <1>3, <2>1
  <2> HIDE DEF layers
  <2>8. stores' \in Memories
    BY <1>3, <2>6, <2>7 DEF Memories
  <2> QED BY <2>6, <2>8 DEF layers
<1>5. ASSUME w.op = "SetMacros"
      PROVE  /\ stores' \in Memories
             /\ stores' = [layers |-> stores.layers,
                         pages |-> [stores.pages EXCEPT
                                      ![w.at + 1] = Overlaid(stores.pages[w.at + 1], w.data)],
                         colors |-> stores.colors, profile |-> stores.profile]
  <2> DEFINE old == stores.pages[w.at + 1]
             new == Overlaid(old, w.data)
  <2>1. w.at + 1 \in 1 .. NumPages /\ Len(w.data) <= PageLen
    <3>1. w.at \in 0 .. NumPages - 1 /\ Len(w.data) <= PageLen
      BY <1>5 DEF Writable
    <3>2. NumPages \in Nat
      BY Sizes
    <3> QED BY <3>1, <3>2
  <2>2. old \in Image(PageLen)
    BY <1>3, <2>1
  <2>3. PageLen \in Nat
    BY Sizes
  <2>4. new \in Image(PageLen)
    BY <1>1, <2>1, <2>2, <2>3, PartOverlaid
  <2>5. stores' = [stores EXCEPT !.pages[w.at + 1] = new]
    BY <1>1, <1>2, <1>5 DEF Received
  <2> HIDE DEF new
  <2> DEFINE pages == [stores.pages EXCEPT ![w.at + 1] = new]
  <2>6. stores' = [layers |-> stores.layers, pages |-> pages, colors |-> stores.colors,
                   profile |-> stores.profile]
    BY <2>5 DEF Memories
  <2>7. pages \in [1 .. NumPages -> Image(PageLen)]
    BY <1>3, <2>1, <2>4
  <2> HIDE DEF pages
  <2>8. stores' \in Memories
    BY <1>3, <2>6, <2>7 DEF Memories
  <2> QED BY <2>6, <2>8 DEF pages, new, old
<1>6. ASSUME w.op = "SetLedColors"
      PROVE  /\ stores' \in Memories
             /\ stores' = [layers |-> stores.layers, pages |-> stores.pages, colors |-> w.data,
                         profile |-> stores.profile]
  <2>1. w.data \in Image(LengthOf.GetLedColors) /\ LengthOf.GetLedColors \in Nat
    BY <1>6, Sizes DEF Writable
  <2>2. Overlaid(stores.colors, w.data) = w.data
    BY <1>3, <2>1, WholeOverlaid
  <2>3. stores' = [stores EXCEPT !.colors = Overlaid(stores.colors, w.data)]
    BY <1>1, <1>2, <1>6 DEF Received
  <2>4. stores' = [layers |-> stores.layers, pages |-> stores.pages, colors |-> w.data,
                   profile |-> stores.profile]
    BY <2>2, <2>3 DEF Memories
  <2>5. stores' \in Memories
    BY <1>3, <2>1, <2>4 DEF Memories
  <2> QED BY <2>4, <2>5
<1>7. ASSUME w.op = "SetProfile"
      PROVE  /\ stores' \in Memories
             /\ stores' = [layers |-> stores.layers, pages |-> stores.pages,
                         colors |-> stores.colors, profile |-> w.data]
  <2>1. w.data \in Image(ProfileLen) /\ ProfileLen \in Nat
    BY <1>7, Sizes DEF Writable
  <2>2. Overlaid(stores.profile, w.data) = w.data
    BY <1>3, <2>1, WholeOverlaid
  <2>3. stores' = [stores EXCEPT !.profile = Overlaid(stores.profile, w.data)]
    BY <1>1, <1>2, <1>7 DEF Received
  <2>4. stores' = [layers |-> stores.layers, pages |-> stores.pages, colors |-> stores.colors,
                   profile |-> w.data]
    BY <2>2, <2>3 DEF Memories
  <2>5. stores' \in Memories
    BY <1>3, <2>1, <2>4 DEF Memories
  <2> QED BY <2>4, <2>5
<1>8. stores' \in Memories
  BY <1>1, <1>4, <1>5, <1>6, <1>7, Zenon DEF Settings
<1> QED BY <1>1, <1>2, <1>4, <1>5, <1>6, <1>7, <1>8, Zenon

-----------------------------------------------------------------------------
(* Bytes as Session sees them *)

LEMMA SlottedType ==
  ASSUME NEW bytes \in Image(LengthOf.GetKeyMatrix)
  PROVE  /\ Slotted(bytes) \in [Slots -> Image(4)]
         /\ \A s \in Slots : \A j \in 1 .. 4 : Slotted(bytes)[s][j] = bytes[4 * s + j]
<1>1. /\ bytes \in Seq(Byte) /\ Len(bytes) = 4 * NumSlots
      /\ NumSlots \in Nat
  <2>1. bytes \in [1 .. 4 * NumSlots -> Byte] /\ NumSlots \in Nat /\ 4 * NumSlots \in Nat
    BY Sizes DEF Image
  <2> QED BY <2>1, Made
<1>2. ASSUME NEW s \in Slots
      PROVE  /\ SubSeq(bytes, 4 * s + 1, 4 * s + 4) \in Image(4)
             /\ \A j \in 1 .. 4 : SubSeq(bytes, 4 * s + 1, 4 * s + 4)[j] = bytes[4 * s + j]
  <2> DEFINE a == 4 * s
             n == 4
  <2>1. a \in Nat /\ n \in Nat /\ a + n <= Len(bytes)
    BY <1>1 DEF Slots
  <2> HIDE DEF a, n
  <2>2. /\ SubSeq(bytes, a + 1, a + n) \in Seq(Byte) /\ Len(SubSeq(bytes, a + 1, a + n)) = n
        /\ \A j \in 1 .. n : SubSeq(bytes, a + 1, a + n)[j] = bytes[a + j]
    BY <1>1, <2>1, Part
  <2>3. SubSeq(bytes, a + 1, a + n) \in [1 .. n -> Byte]
    BY <2>1, <2>2, Made
  <2> QED BY <2>2, <2>3 DEF a, n, Image
<1> QED BY <1>2 DEF Slotted

LEMMA PlanesType ==
  ASSUME NEW bytes \in Image(LengthOf.GetLedColors)
  PROVE  Planes(bytes) \in [Slots -> [0 .. 2 -> Byte]]
<1>1. bytes \in [1 .. 3 * NumSlots -> Byte] /\ NumSlots \in Nat
  BY Sizes DEF Image
<1>2. ASSUME NEW s \in Slots, NEW c \in 0 .. 2
      PROVE  s + c * NumSlots + 1 \in 1 .. 3 * NumSlots
  <2>1. c * NumSlots \in {0, NumSlots, 2 * NumSlots}
    BY <1>1
  <2> QED BY <1>1, <2>1 DEF Slots
<1> QED BY <1>1, <1>2 DEF Planes

LEMMA PartsType ==
  ASSUME NEW bytes \in Image(ProfileLen)
  PROVE  Parts(bytes) \in [mode : Byte \X Byte,
                           rest : [(1 .. ProfileLen) \ {ModeAt + 1, MarkerAt + 1} -> Byte]]
<1>1. ModeAt + 1 \in 1 .. ProfileLen /\ MarkerAt + 1 \in 1 .. ProfileLen
  BY FrameAssumption
<1> QED BY <1>1 DEF Parts, Image

(* What a store or an answer means to Session is a reply of Session.       *)
LEMMA ReplyType ==
  ASSUME NEW r \in Reads, NEW d \in Image(LengthOf[r.op])
  PROVE  [op |-> r.op, at |-> r.at, data |-> Meaning(r.op, d)] \in Session!Replies
<1>1. r.op \in DOMAIN LengthOf
  BY ReadFields
<1>2. CASE r.op = "GetKeyMatrix"
  <2>1. r.at \in Layers /\ d \in Image(LengthOf.GetKeyMatrix)
    BY <1>2, ReadFields
  <2>2. Meaning(r.op, d) \in [Slots -> Image(4)]
    BY <1>2, <2>1, SlottedType DEF Meaning
  <2> QED BY <1>2, <2>1, <2>2
          DEF Session!Replies, Session!KeyBuffers, Session!Layers, Layers
<1>3. CASE r.op = "GetMacros"
  <2>1. r.at \in 0 .. NumPages - 1 /\ d \in Image(PageLen)
    BY <1>3, ReadFields, Sizes
  <2>2. Meaning(r.op, d) = d
    BY <1>3 DEF Meaning
  <2> QED BY <1>3, <2>1, <2>2 DEF Session!Replies, Session!Pages
<1>4. CASE r.op = "GetLedColors"
  <2>1. r.at = 0 /\ d \in Image(LengthOf.GetLedColors)
    BY <1>4, ReadFields
  <2>2. Meaning(r.op, d) \in [Slots -> [0 .. 2 -> Byte]]
    BY <1>4, <2>1, PlanesType DEF Meaning
  <2> QED BY <1>4, <2>1, <2>2 DEF Session!Replies, Session!ColorBuffers
<1>5. CASE r.op = "GetProfile"
  <2>1. r.at = 0 /\ d \in Image(ProfileLen)
    BY <1>5, ReadFields, Sizes
  <2>2. Meaning(r.op, d) \in [mode : Byte \X Byte,
                              rest : [(1 .. ProfileLen) \ {ModeAt + 1, MarkerAt + 1} -> Byte]]
    BY <1>5, <2>1, PartsType DEF Meaning
  <2> QED BY <1>5, <2>1, <2>2 DEF Session!Replies, Session!Profiles
<1> QED BY <1>1, <1>2, <1>3, <1>4, <1>5, Sizes

LEMMA ReplyShown ==
  ASSUME NEW r \in Reads, NEW d \in Image(LengthOf[r.op]), Shows(report, r, d)
  PROVE  /\ Reply = [op |-> r.op, at |-> r.at, data |-> Meaning(r.op, d)]
         /\ Reply \in Session!Replies /\ Reply # NoReply
<1>1. report # Blank
  BY ShownIsNotBlank
<1>2. OpOf(Tail(report)) = r.op /\ AddressOf(Tail(report)) = r.at /\ Payload(Tail(report)) = d
  BY DEF Shows
<1>3. Reply = [op |-> r.op, at |-> r.at, data |-> Meaning(r.op, d)]
  BY <1>1, <1>2 DEF Reply
<1>4. Reply \in Session!Replies
  BY <1>3, ReplyType
<1> QED BY <1>3, <1>4, MeaningAssumption

-----------------------------------------------------------------------------
(* What is always true of the memory, the request, the report and what the *)
(* host has in hand: a request that is pending is one the host builds, a   *)
(* report answers such a request with data of its store's length.          *)
ReportInv ==
  /\ stores \in Memories
  /\ settling \in BOOLEAN
  /\ pending = <<>> \/ \E r \in Reads : pending = Getting(r.op, r.at)
  /\ report = Blank \/ \E r \in Reads : \E d \in Image(LengthOf[r.op]) : Shows(report, r, d)
  /\ waiting \in Reads \union {NoRequest}
  /\ taken = NoReply \/
       \E r \in Reads : \E d \in Image(LengthOf[r.op]) :
         taken = [op |-> r.op, at |-> r.at, data |-> d]

(* The types follow.                                                       *)
LEMMA InvType == ReportInv => TypeOK
<1> SUFFICES ASSUME ReportInv PROVE TypeOK
  OBVIOUS
<1>1. pending = <<>> \/ Len(pending) = ReportLen
  <2>1. CASE pending # <<>>
    <3>1. PICK r \in Reads : pending = Getting(r.op, r.at)
      BY <2>1 DEF ReportInv
    <3> QED BY <3>1, RequestRead
  <2> QED BY <2>1
<1>2. /\ Len(report) = ReportLen + 1
      /\ report = Blank \/ Len(Payload(Tail(report))) = LengthOf[OpOf(Tail(report))]
      /\ Reply \in Session!Replies \union {NoReply}
  <2>1. CASE report = Blank
    BY <2>1, NothingShown DEF Reply
  <2>2. CASE report # Blank
    <3>1. PICK r \in Reads : \E d \in Image(LengthOf[r.op]) : Shows(report, r, d)
      BY <2>2 DEF ReportInv
    <3>2. PICK d \in Image(LengthOf[r.op]) : Shows(report, r, d)
      BY <3>1
    <3>3. Len(d) = LengthOf[r.op]
      <4>1. LengthOf[r.op] \in Nat
        BY ReadFields, Sizes
      <4> DEFINE n == LengthOf[r.op]
      <4>2. d \in [1 .. n -> Byte]
        BY DEF Image
      <4>3. n \in Nat
        BY <4>1
      <4> HIDE DEF n
      <4>4. Len(d) = n
        BY <4>2, <4>3, Made
      <4> QED BY <4>4 DEF n
    <3>4. Reply \in Session!Replies
      BY <3>2, ReplyShown
    <3> QED BY <3>2, <3>3, <3>4 DEF Shows
  <2> QED BY <2>1, <2>2
<1>3. /\ stores.layers \in [1 .. NumLayers -> Image(LengthOf.GetKeyMatrix)]
      /\ stores.pages \in [1 .. NumPages -> Image(PageLen)]
      /\ stores.colors \in Image(LengthOf.GetLedColors) /\ stores.profile \in Image(ProfileLen)
  BY DEF ReportInv, Memories
<1>4. [l \in Layers |-> Slotted(stores.layers[l + 1])] \in [Layers -> [Slots -> Image(4)]]
  <2>1. ASSUME NEW l \in Layers PROVE Slotted(stores.layers[l + 1]) \in [Slots -> Image(4)]
    <3>1. l + 1 \in 1 .. NumLayers
      BY Sizes DEF Layers
    <3>2. stores.layers[l + 1] \in Image(LengthOf.GetKeyMatrix)
      BY <1>3, <3>1
    <3> QED BY <3>2, SlottedType
  <2> QED BY <2>1
<1>5. [i \in 0 .. NumPages - 1 |-> stores.pages[i + 1]] \in [0 .. NumPages - 1 -> Image(PageLen)]
  BY <1>3, Sizes
<1>6. Planes(stores.colors) \in [Slots -> [0 .. 2 -> Byte]]
  BY <1>3, PlanesType
<1>7. Parts(stores.profile) \in [mode : Byte \X Byte,
                                 rest : [(1 .. ProfileLen) \ {ModeAt + 1, MarkerAt + 1} -> Byte]]
  BY <1>3, PartsType
<1>8. (IF pending = <<>> THEN NoRequest ELSE [by |-> Host, req |-> RequestOf(pending)])
        \in [by : {Host}, req : Session!Requests] \union {NoRequest}
  <2>1. CASE pending # <<>>
    <3>1. PICK r \in Reads : pending = Getting(r.op, r.at)
      BY <2>1 DEF ReportInv
    <3>2. RequestOf(pending) = [op |-> r.op, at |-> r.at]
      BY <3>1, RequestRead DEF RequestOf
    <3>3. RequestOf(pending) = r
      BY <3>2, ReadFields
    <3>4. r \in Session!Requests
      BY DEF Reads, Session!Requests, Session!GetKeyMatrix, Session!GetMacros,
             Session!GetLedColors, Session!GetProfile, Session!Layers, Session!Pages, Layers
    <3> QED BY <2>1, <3>3, <3>4
  <2> QED BY <2>1
<1>9. settling \in BOOLEAN
  BY DEF ReportInv
<1>10. Session!DeviceTypeOK
  BY <1>2, <1>4, <1>5, <1>6, <1>7, <1>8, <1>9
     DEF Session!DeviceTypeOK, Session!KeyBuffers, Session!ColorBuffers, Session!Profiles,
         Session!Layers, Session!Pages, Layers
<1> QED BY <1>1, <1>2, <1>10 DEF TypeOK

-----------------------------------------------------------------------------
(* The steps *)

LEMMA ImageSeq ==
  ASSUME NEW n \in Nat, NEW d \in Image(n)
  PROVE  d \in Seq(Byte) /\ Len(d) = n /\ SubSeq(d, 1, n) = d
<1>1. d \in Seq(Byte) /\ Len(d) = n
  BY Made DEF Image
<1> DEFINE t == SubSeq(d, 1, n)
<1>2. t \in Seq(Byte) /\ Len(t) = n /\ \A i \in 1 .. n : t[i] = d[i]
  BY <1>1, Front
<1> HIDE DEF t
<1>3. t = d
  BY <1>1, <1>2, Same
<1> QED BY <1>1, <1>3 DEF t

LEMMA StoreType ==
  ASSUME stores \in Memories, NEW r \in Reads
  PROVE  StoreFor(r.op, r.at) \in Image(LengthOf[r.op])
<1>1. /\ stores.layers \in [1 .. NumLayers -> Image(LengthOf.GetKeyMatrix)]
      /\ stores.pages \in [1 .. NumPages -> Image(PageLen)]
      /\ stores.colors \in Image(LengthOf.GetLedColors) /\ stores.profile \in Image(ProfileLen)
  BY DEF Memories
<1>2. CASE r.op = "GetKeyMatrix"
  <2>1. r.at + 1 \in 1 .. NumLayers
    BY <1>2, ReadFields, Sizes DEF Layers
  <2> QED BY <1>1, <1>2, <2>1 DEF StoreFor
<1>3. CASE r.op = "GetMacros"
  <2>1. r.at \in 0 .. NumPages - 1
    BY <1>3, ReadFields
  <2>2. r.at + 1 \in 1 .. NumPages
    BY <2>1, Sizes
  <2>3. LengthOf[r.op] = PageLen
    BY <1>3, Sizes
  <2> QED BY <1>1, <1>3, <2>2, <2>3 DEF StoreFor
<1>4. CASE r.op = "GetLedColors"
  BY <1>1, <1>4 DEF StoreFor
<1>5. CASE r.op = "GetProfile"
  <2>1. LengthOf[r.op] = ProfileLen
    BY <1>5, Sizes
  <2> QED BY <1>1, <1>5, <2>1 DEF StoreFor
<1> QED BY <1>2, <1>3, <1>4, <1>5, ReadFields, Sizes

(* The answer to a request shows what its store holds.                     *)
LEMMA AnsweredShows ==
  ASSUME stores \in Memories, NEW r \in Reads
  PROVE  Shows(Answered(Getting(r.op, r.at)), r, StoreFor(r.op, r.at))
<1> DEFINE body == Getting(r.op, r.at)
           d == StoreFor(r.op, r.at)
           n == LengthOf[r.op]
<1>1. d \in Image(n) /\ n \in Nat
  BY StoreType, ReadFields, Sizes
<1>2. OpOf(body) = r.op /\ AddressOf(body) = r.at /\ DataLength(body) = n
  BY RequestRead
<1>3. SubSeq(d, 1, n) = d
  <2> HIDE DEF d, n
  <2> QED BY <1>1, ImageSeq
<1>4. Answered(body) = <<ReportId>> \o Filled(SubSeq(body, 1, HeaderLen) \o d, ReportLen)
  <2> HIDE DEF body
  <2> QED BY <1>2, <1>3 DEF Answered
<1>5. Shows(<<ReportId>> \o Filled(SubSeq(body, 1, HeaderLen) \o d, ReportLen), r, d)
  <2> HIDE DEF d
  <2> QED BY <1>1, AnswerShows
<1> QED BY <1>4, <1>5

(* A payload as it is parsed out of what has been read.                    *)
LEMMA Parsed ==
  ASSUME NEW n \in ReadLens, ReportInv, Complete(BytesRead(n))
  PROVE  /\ ParseResponse(BytesRead(n)) \in Seq(Byte)
         /\ report = Blank => ParseResponse(BytesRead(n)) = <<>>
         /\ \A r \in Reads : \A d \in Image(LengthOf[r.op]) :
              Shows(report, r, d) => ParseResponse(BytesRead(n)) = d
<1> DEFINE raw == BytesRead(n)
           T == Nat \union {ReportId}
           len == report[7] + ByteSize * report[8]
<1>1. report \in Seq(T) /\ Len(report) = ReportLen + 1
  BY NothingShown DEF ReportInv, Shows
<1>2. n \in Nat /\ n <= Len(report)
  <2>1. n \in 0 .. ReportLen + 1
    BY FrameAssumption
  <2> QED BY <1>1, <2>1, Sizes
<1>3. raw \in Seq(T) /\ Len(raw) = n /\ \A i \in 1 .. n : raw[i] = report[i]
  <2> HIDE DEF T
  <2>1. report \in Seq(T) /\ n \in Nat
    BY <1>1, <1>2
  <2> QED BY <1>2, <2>1, Front DEF BytesRead
<1> HIDE DEF T, raw
<1>4. n > 7 /\ raw[7] = report[7] /\ raw[8] = report[8]
  BY <1>2, <1>3 DEF Complete, HeaderLen, raw
<1> DEFINE low == report[7]
           high == ByteSize * report[8]
<1>5. low \in Nat /\ high \in Nat /\ len = low + high
  <2>1. report[7] \in Nat /\ report[8] \in Nat
    BY NothingShown DEF ReportInv, Shows
  <2> QED BY <2>1, Sizes
<1>6. 1 + 7 + low + high <= n /\ ParseResponse(raw) = SubSeq(raw, 9, 1 + 7 + low + high)
  <2>1. 1 + 7 + raw[7] + ByteSize * raw[8] <= Len(raw)
    BY DEF Complete, HeaderLen, raw
  <2>2. ParseResponse(raw) = SubSeq(raw, 7 + 2, 1 + 7 + raw[7] + ByteSize * raw[8])
    BY DEF ParseResponse, HeaderLen
  <2> QED BY <1>3, <1>4, <2>1, <2>2
<1> HIDE DEF low, high, len
<1>7. 1 + 7 + low + high = 8 + len
  BY <1>5
<1>8. 8 + len <= n /\ ParseResponse(raw) = SubSeq(raw, 8 + 1, 8 + len)
  <2>1. 9 = 8 + 1
    OBVIOUS
  <2>2. 8 + len <= n
    BY <1>6, <1>7
  <2> QED BY <1>6, <1>7, <2>1, <2>2
<1>9. ASSUME report = Blank PROVE ParseResponse(raw) = <<>>
  <2>1. len = 0
    BY <1>9, NothingShown DEF len
  <2>2. SubSeq(raw, 8 + 1, 8 + 0) = <<>>
    BY <1>3
  <2> QED BY <1>8, <2>1, <2>2
<1>10. ASSUME NEW r \in Reads, NEW d \in Image(LengthOf[r.op]), Shows(report, r, d)
      PROVE  ParseResponse(raw) = d
  <2> DEFINE k == LengthOf[r.op]
  <2>1. len = k /\ \A i \in 1 .. k : report[8 + i] = d[i]
    BY <1>10 DEF Shows, len
  <2>2. k \in Nat
    BY ReadFields, Sizes
  <2>3. d \in Seq(Byte) /\ Len(d) = k
    <3>1. d \in Image(k)
      OBVIOUS
    <3> HIDE DEF k
    <3> QED BY <2>2, <3>1, ImageSeq
  <2>4. 8 + k <= n
    BY <1>8, <2>1
  <2> HIDE DEF k
  <2> DEFINE t == SubSeq(raw, 8 + 1, 8 + k)
  <2>5. t \in Seq(T) /\ Len(t) = k /\ \A i \in 1 .. k : t[i] = raw[8 + i]
    <3>1. raw \in Seq(T) /\ 8 \in Nat /\ k \in Nat
      BY <1>3, <2>2
    <3>2. 8 + k <= Len(raw)
      BY <1>3, <2>4
    <3> QED BY <3>1, <3>2, Part
  <2> HIDE DEF t
  <2>6. \A i \in 1 .. k : t[i] = d[i]
    <3> SUFFICES ASSUME NEW i \in 1 .. k PROVE t[i] = d[i]
      OBVIOUS
    <3>1. 8 + i \in 1 .. n
      BY <1>2, <2>2, <2>4
    <3> QED BY <1>3, <2>1, <2>5, <3>1
  <2>7. d \in Seq(T)
    <3>1. d \in [1 .. k -> Byte]
      BY <2>2, <2>3, Made
    <3>2. d \in [1 .. k -> T]
      BY <3>1, Sizes DEF T
    <3> QED BY <2>2, <3>2, Made
  <2>8. t = d
    BY <2>3, <2>5, <2>6, <2>7, Same
  <2> QED BY <1>8, <2>1, <2>8 DEF t
<1>11. ParseResponse(raw) \in Seq(Byte)
  <2>1. CASE report = Blank
    BY <1>9, <2>1
  <2>2. CASE report # Blank
    <3>1. PICK r \in Reads : \E d \in Image(LengthOf[r.op]) : Shows(report, r, d)
      BY <2>2 DEF ReportInv
    <3>2. PICK d \in Image(LengthOf[r.op]) : Shows(report, r, d)
      BY <3>1
    <3>3. LengthOf[r.op] \in Nat
      BY ReadFields, Sizes
    <3> DEFINE k == LengthOf[r.op]
    <3>4. d \in Image(k) /\ k \in Nat
      BY <3>3
    <3> HIDE DEF k
    <3>5. d \in Seq(Byte)
      BY <3>4, ImageSeq
    <3> QED BY <1>10, <3>2, <3>5
  <2> QED BY <2>1, <2>2
<1> QED BY <1>9, <1>10, <1>11 DEF raw

(* A payload made a page.                                                  *)
LEMMA PageType ==
  ASSUME NEW d \in Seq(Byte)
  PROVE  PageOf(d) \in Image(PageLen) /\ (Len(d) = PageLen => PageOf(d) = d)
<1> DEFINE z == Zeroes(PageLen - Len(d))
           f == d \o z
<1>1. PageLen \in Nat /\ Len(d) \in Nat /\ 0 \in Byte
  BY Sizes, LenProperties
<1>2. z \in Seq(Byte) /\ Len(z) \in Nat /\ Len(d) + Len(z) >= PageLen
  <2>1. CASE Len(d) <= PageLen
    <3> DEFINE m == PageLen - Len(d)
    <3>1. m \in Nat
      BY <1>1, <2>1
    <3>2. Len(d) + m = PageLen
      BY <1>1
    <3>3. z = [i \in 1 .. m |-> 0]
      BY DEF Zeroes
    <3> HIDE DEF m, z
    <3>4. z \in [1 .. m -> Byte]
      BY <1>1, <3>3
    <3>5. z \in Seq(Byte) /\ Len(z) = m
      BY <3>1, <3>4, Made
    <3> QED BY <3>1, <3>2, <3>5, <1>1
  <2>2. CASE Len(d) > PageLen
    <3>1. 1 .. PageLen - Len(d) = 1 .. 0
      BY <1>1, <2>2
    <3>2. z = [i \in 1 .. 0 |-> 0]
      BY <3>1 DEF Zeroes
    <3>3. z \in [1 .. 0 -> Byte]
      BY <1>1, <3>2
    <3>4. z \in Seq(Byte) /\ Len(z) = 0
      BY <3>3, Made
    <3> QED BY <1>1, <2>2, <3>4
  <2> QED BY <1>1, <2>1, <2>2
<1> HIDE DEF z
<1>3. f \in Seq(Byte) /\ Len(f) = Len(d) + Len(z) /\ \A i \in 1 .. Len(d) : f[i] = d[i]
  BY <1>2, Joined
<1> DEFINE p == SubSeq(f, 1, PageLen)
<1> HIDE DEF f
<1>4. p \in Seq(Byte) /\ Len(p) = PageLen /\ \A i \in 1 .. PageLen : p[i] = f[i]
  BY <1>1, <1>2, <1>3, Front
<1>5. PageOf(d) = p
  BY DEF PageOf, Filled, p, f, z
<1> HIDE DEF p
<1>6. p \in Image(PageLen)
  BY <1>1, <1>4, Made DEF Image
<1>7. ASSUME Len(d) = PageLen PROVE p = d
  <2>1. \A i \in 1 .. Len(p) : p[i] = d[i]
    BY <1>3, <1>4, <1>7
  <2> QED BY <1>4, <1>7, <2>1, Same
<1> QED BY <1>5, <1>6, <1>7


(* A patch of the bytes of a layer is a patch of one of its slots.         *)
LEMMA SlotPatched ==
  ASSUME NEW bytes \in Image(LengthOf.GetKeyMatrix), NEW slot \in Slots, NEW value \in Image(4)
  PROVE  /\ PatchedBytes(bytes, slot, value) \in Image(LengthOf.GetKeyMatrix)
         /\ Slotted(PatchedBytes(bytes, slot, value)) = [Slotted(bytes) EXCEPT ![slot] = value]
<1> DEFINE n == 4 * NumSlots
           new == PatchedBytes(bytes, slot, value)
<1>1. /\ n \in Nat /\ NumSlots \in Nat
      /\ bytes \in [1 .. n -> Byte] /\ Len(bytes) = n /\ value \in [1 .. 4 -> Byte]
  <2>1. bytes \in [1 .. n -> Byte] /\ n \in Nat /\ NumSlots \in Nat
    BY Sizes DEF Image
  <2>2. value \in [1 .. 4 -> Byte]
    BY DEF Image
  <2> HIDE DEF n
  <2>3. Len(bytes) = n
    BY <2>1, Made
  <2> QED BY <2>1, <2>2, <2>3 DEF n
<1>2. new = [i \in 1 .. n |-> IF (i - 1) \div 4 = slot THEN value[((i - 1) % 4) + 1] ELSE bytes[i]]
  BY <1>1 DEF PatchedBytes
<1>3. new \in [1 .. n -> Byte]
  <2>1. ASSUME NEW i \in 1 .. n PROVE ((i - 1) % 4) + 1 \in 1 .. 4
    BY <1>1
  <2> QED BY <1>1, <1>2, <2>1
<1>4. new \in Image(LengthOf.GetKeyMatrix)
  BY <1>3, Sizes DEF Image
<1>5. ASSUME NEW s \in Slots, NEW j \in 1 .. 4
      PROVE  new[4 * s + j] = IF s = slot THEN value[j] ELSE bytes[4 * s + j]
  <2> DEFINE i == 4 * s + j
  <2>1. i \in 1 .. n /\ (i - 1) \div 4 = s /\ ((i - 1) % 4) + 1 = j
    BY <1>1 DEF Slots
  <2> HIDE DEF i, n, new
  <2>2. new[i] = IF (i - 1) \div 4 = slot THEN value[((i - 1) % 4) + 1] ELSE bytes[i]
    BY <1>2, <2>1
  <2> QED BY <2>1, <2>2 DEF i
<1> HIDE DEF new, n
<1>6. /\ Slotted(new) \in [Slots -> [1 .. 4 -> Byte]]
      /\ \A s \in Slots : \A j \in 1 .. 4 : Slotted(new)[s][j] = new[4 * s + j]
  BY <1>4, SlottedType DEF Image
<1>7. /\ Slotted(bytes) \in [Slots -> [1 .. 4 -> Byte]]
      /\ \A s \in Slots : \A j \in 1 .. 4 : Slotted(bytes)[s][j] = bytes[4 * s + j]
  BY SlottedType DEF Image
<1>8. ASSUME NEW s \in Slots
      PROVE  Slotted(new)[s] = [Slotted(bytes) EXCEPT ![slot] = value][s]
  <2>1. CASE s = slot
    <3>1. \A j \in 1 .. 4 : Slotted(new)[s][j] = value[j]
      BY <1>5, <1>6, <2>1
    <3>2. Slotted(new)[s] = value
      BY <1>1, <1>6, <3>1
    <3> QED BY <1>7, <2>1, <3>2
  <2>2. CASE s # slot
    <3>1. \A j \in 1 .. 4 : Slotted(new)[s][j] = Slotted(bytes)[s][j]
      BY <1>5, <1>6, <1>7, <2>2
    <3>2. Slotted(new)[s] = Slotted(bytes)[s]
      BY <1>6, <1>7, <3>1
    <3> QED BY <1>7, <2>2, <3>2
  <2> QED BY <2>1, <2>2
<1>9. Slotted(new) = [Slotted(bytes) EXCEPT ![slot] = value]
  BY <1>6, <1>7, <1>8
<1> QED BY <1>4, <1>9 DEF new

(* The switch to SelfDefine changes the two bytes of the mode.             *)
LEMMA ModePatched ==
  ASSUME NEW bytes \in Image(ProfileLen)
  PROVE  /\ SelfDefined(bytes) \in Image(ProfileLen)
         /\ Parts(SelfDefined(bytes)) = [Parts(bytes) EXCEPT !.mode = <<1, Marker>>]
<1> DEFINE a == ModeAt + 1
           b == MarkerAt + 1
           new == SelfDefined(bytes)
<1>1. /\ a \in 1 .. ProfileLen /\ b \in 1 .. ProfileLen /\ a # b
      /\ 1 \in Byte /\ Marker \in Byte
  BY FrameAssumption
<1>2. bytes \in [1 .. ProfileLen -> Byte]
  BY DEF Image
<1>3. new = [bytes EXCEPT ![a] = 1, ![b] = Marker]
  BY DEF SelfDefined
<1> HIDE DEF a, b, new
<1>4. /\ new \in [1 .. ProfileLen -> Byte] /\ new[a] = 1 /\ new[b] = Marker
      /\ \A i \in (1 .. ProfileLen) \ {a, b} : new[i] = bytes[i]
  BY <1>1, <1>2, <1>3
<1>5. Parts(new) = [mode |-> <<1, Marker>>, rest |-> [i \in (1 .. ProfileLen) \ {a, b} |-> bytes[i]]]
  <2>1. Parts(new) = [mode |-> <<new[a], new[b]>>,
                      rest |-> [i \in (1 .. ProfileLen) \ {a, b} |-> new[i]]]
    BY DEF Parts, a, b
  <2> QED BY <1>4, <2>1
<1>6. Parts(bytes) = [mode |-> <<bytes[a], bytes[b]>>,
                      rest |-> [i \in (1 .. ProfileLen) \ {a, b} |-> bytes[i]]]
  BY DEF Parts, a, b
<1>7. Parts(new) = [Parts(bytes) EXCEPT !.mode = <<1, Marker>>]
  BY <1>5, <1>6
<1> QED BY <1>4, <1>7 DEF Image, new

(* A report that changes neither the request nor the answer is, as Session *)
(* sees it, the write it carries.                                          *)
LEMMA WriteIsSeen ==
  ASSUME NEW w, Writable(w), stores \in Memories, settling \in BOOLEAN, Send(Setting(w))
  PROVE  Written(w)
<1>1. /\ stores.layers \in [1 .. NumLayers -> Image(LengthOf.GetKeyMatrix)]
      /\ stores.pages \in [1 .. NumPages -> Image(PageLen)]
  BY DEF Memories
<1>2. UNCHANGED <<pending, report>>
  BY WriteStored
<1>3. /\ Reply' = Reply
      /\ (IF pending' = <<>> THEN NoRequest ELSE [by |-> Host, req |-> RequestOf(pending')])
           = IF pending = <<>> THEN NoRequest ELSE [by |-> Host, req |-> RequestOf(pending)]
  BY <1>2 DEF Reply
<1>4. w.op # "SetProfile" => settling' = settling
  <2>1. settling' = (settling \/ w.op = "SetProfile")
    BY WriteStored
  <2> QED BY <2>1, Zenon
<1>5. ASSUME w.op = "SetKeyMatrix" PROVE Written(w)
  <2>1. stores' = [layers |-> [stores.layers EXCEPT ![w.at + 1] = w.data],
                   pages |-> stores.pages, colors |-> stores.colors, profile |-> stores.profile]
    BY <1>5, WriteStored
  <2>2. w.at \in Layers /\ NumLayers \in Nat
    BY <1>5, Sizes DEF Writable
  <2>3. stores'.layers = [stores.layers EXCEPT ![w.at + 1] = w.data]
    BY <2>1
  <2>4. [l \in Layers |-> Slotted(stores'.layers[l + 1])]
          = [[l \in Layers |-> Slotted(stores.layers[l + 1])] EXCEPT ![w.at] = Slotted(w.data)]
    <3>1. ASSUME NEW l \in Layers
          PROVE  stores'.layers[l + 1] = IF l = w.at THEN w.data ELSE stores.layers[l + 1]
      BY <1>1, <2>2, <2>3 DEF Layers
    <3> QED BY <2>2, <3>1
  <2>5. /\ stores'.pages = stores.pages /\ stores'.colors = stores.colors
        /\ stores'.profile = stores.profile
    BY <2>1
  <2>6. settling' = settling
    BY <1>4, <1>5
  <2>7. Session!SetKeyMatrix(w.at, Slotted(w.data))
    BY <1>3, <2>4, <2>5, <2>6 DEF Session!SetKeyMatrix
  <2> QED BY <1>5, <2>7 DEF Written
<1>6. ASSUME w.op = "SetMacros" PROVE Written(w)
  <2> DEFINE new == Overlaid(stores.pages[w.at + 1], w.data)
  <2>1. stores' = [layers |-> stores.layers, pages |-> [stores.pages EXCEPT ![w.at + 1] = new],
                   colors |-> stores.colors, profile |-> stores.profile]
    BY <1>6, WriteStored
  <2>2. w.at \in 0 .. NumPages - 1 /\ NumPages \in Nat
    BY <1>6, Sizes DEF Writable
  <2> HIDE DEF new
  <2>3. stores'.pages = [stores.pages EXCEPT ![w.at + 1] = new]
    BY <2>1
  <2>4. [i \in 0 .. NumPages - 1 |-> stores'.pages[i + 1]]
          = [[i \in 0 .. NumPages - 1 |-> stores.pages[i + 1]] EXCEPT ![w.at] = new]
    <3>1. ASSUME NEW i \in 0 .. NumPages - 1
          PROVE  stores'.pages[i + 1] = IF i = w.at THEN new ELSE stores.pages[i + 1]
      BY <1>1, <2>2, <2>3
    <3> QED BY <2>2, <3>1
  <2>5. /\ stores'.layers = stores.layers /\ stores'.colors = stores.colors
        /\ stores'.profile = stores.profile
    BY <2>1
  <2>6. settling' = settling
    BY <1>4, <1>6
  <2>7. Session!SetMacros(w.at, new)
    BY <1>3, <2>4, <2>5, <2>6 DEF Session!SetMacros, Session!Pages
  <2> QED BY <1>6, <2>7 DEF Written, new
<1>7. ASSUME w.op = "SetLedColors" PROVE Written(w)
  <2>1. stores' = [layers |-> stores.layers, pages |-> stores.pages, colors |-> w.data,
                   profile |-> stores.profile]
    BY <1>7, WriteStored
  <2>2. /\ stores'.pages = stores.pages /\ stores'.layers = stores.layers
        /\ stores'.profile = stores.profile /\ stores'.colors = w.data
    BY <2>1
  <2>3. settling' = settling
    BY <1>4, <1>7
  <2>4. Session!SetLedColors(Planes(w.data))
    BY <1>3, <2>2, <2>3 DEF Session!SetLedColors
  <2> QED BY <1>7, <2>4 DEF Written
<1>8. ASSUME w.op = "SetProfile" PROVE Written(w)
  <2>1. stores' = [layers |-> stores.layers, pages |-> stores.pages, colors |-> stores.colors,
                   profile |-> w.data]
    BY <1>8, WriteStored
  <2>2. /\ stores'.pages = stores.pages /\ stores'.layers = stores.layers
        /\ stores'.colors = stores.colors /\ stores'.profile = w.data
    BY <2>1
  <2>3. settling' = TRUE
    BY <1>8, WriteStored, Zenon
  <2>4. Session!SetProfile(Parts(w.data))
    BY <1>3, <2>2, <2>3 DEF Session!SetProfile
  <2> QED BY <1>8, <2>4 DEF Written
<1>9. w.op \in Settings
  BY WriteStored
<1> QED BY <1>5, <1>6, <1>7, <1>8, <1>9 DEF Settings


(* What set-keymap sends is a write of the layer that was read.            *)
LEMMA PatchWrites ==
  ASSUME ReportInv, NEW p \in Patches, Patch(p)
  PROVE  \E w : /\ Writable(w) /\ Put(w) /\ w.op = "SetKeyMatrix" /\ w.at = taken.at
                /\ Slotted(w.data) = [Slotted(taken.data) EXCEPT ![p.slot] = p.value]
<1> DEFINE new == PatchedBytes(taken.data, p.slot, p.value)
           w == [op |-> "SetKeyMatrix", at |-> taken.at, data |-> new]
<1>1. Put(w) /\ taken # NoReply /\ taken.op = "GetKeyMatrix"
  BY DEF Patch, Holds
<1>2. PICK r \in Reads : \E d \in Image(LengthOf[r.op]) : taken = [op |-> r.op, at |-> r.at, data |-> d]
  BY <1>1 DEF ReportInv
<1>3. PICK d \in Image(LengthOf[r.op]) : taken = [op |-> r.op, at |-> r.at, data |-> d]
  BY <1>2
<1>4. r.op = "GetKeyMatrix" /\ taken.at = r.at /\ taken.data = d
  BY <1>1, <1>3
<1>5. taken.at \in Layers /\ taken.data \in Image(LengthOf.GetKeyMatrix)
  BY <1>4, ReadFields
<1>6. p.slot \in Slots /\ p.value \in Image(4)
  BY DataAssumption
<1>7. /\ new \in Image(LengthOf.GetKeyMatrix)
      /\ Slotted(new) = [Slotted(taken.data) EXCEPT ![p.slot] = p.value]
  BY <1>5, <1>6, SlotPatched
<1> HIDE DEF new
<1>8. Writable(w)
  BY <1>5, <1>7 DEF Writable
<1>9. w.op = "SetKeyMatrix" /\ w.at = taken.at /\ w.data = new
  OBVIOUS
<1> HIDE DEF w
<1> QED BY <1>1, <1>7, <1>8, <1>9

(* The switch to SelfDefine is a write of the profile that was read.       *)
LEMMA SwitchWrites ==
  ASSUME ReportInv, EnterSelfDefine
  PROVE  \E w : /\ Writable(w) /\ Put(w) /\ w.op = "SetProfile"
                /\ Parts(w.data) = [Parts(taken.data) EXCEPT !.mode = <<1, Marker>>]
<1> DEFINE new == SelfDefined(taken.data)
           w == [op |-> "SetProfile", at |-> 0, data |-> new]
<1>1. Put(w) /\ taken # NoReply /\ taken.op = "GetProfile"
  BY DEF EnterSelfDefine, Holds
<1>2. PICK r \in Reads : \E d \in Image(LengthOf[r.op]) : taken = [op |-> r.op, at |-> r.at, data |-> d]
  BY <1>1 DEF ReportInv
<1>3. PICK d \in Image(LengthOf[r.op]) : taken = [op |-> r.op, at |-> r.at, data |-> d]
  BY <1>2
<1>4. r.op = "GetProfile" /\ taken.data = d
  BY <1>1, <1>3
<1>5. taken.data \in Image(ProfileLen)
  BY <1>4, Sizes
<1>6. new \in Image(ProfileLen) /\ Parts(new) = [Parts(taken.data) EXCEPT !.mode = <<1, Marker>>]
  BY <1>5, ModePatched
<1> HIDE DEF new
<1>7. Writable(w)
  BY <1>6 DEF Writable
<1>8. w.op = "SetProfile" /\ w.data = new
  OBVIOUS
<1> HIDE DEF w
<1> QED BY <1>1, <1>6, <1>7, <1>8

(* A request for data touches no store; it is what the keyboard works on.  *)
LEMMA AskSends ==
  ASSUME ReportInv, NEW r \in Reads, Ask(r)
  PROVE  /\ stores' = stores /\ settling' = settling /\ report' = report
         /\ pending' = Getting(r.op, r.at) /\ waiting' = r /\ taken' = NoReply
<1> DEFINE body == Getting(r.op, r.at)
<1>1. OpOf(body) = r.op /\ r.op \in DOMAIN LengthOf
  BY RequestRead, ReadFields
<1>2. /\ stores' = Received(body) /\ settling' = (settling \/ OpOf(body) = "SetProfile")
      /\ pending' = IF OpOf(body) \in DOMAIN LengthOf THEN body ELSE pending
      /\ report' = report /\ waiting' = r /\ taken' = NoReply
  BY DEF Ask, Send
<1>3. r.op \notin Settings
  BY <1>1, Sizes DEF Settings
<1> HIDE DEF body
<1>4. stores' = stores
  BY <1>1, <1>2, <1>3 DEF Received, Settings
<1>5. settling' = settling
  <2>1. settling' = (settling \/ r.op = "SetProfile") /\ r.op # "SetProfile" /\ settling \in BOOLEAN
    BY <1>1, <1>2, <1>3 DEF Settings, ReportInv
  <2> QED BY <2>1, Zenon
<1> QED BY <1>1, <1>2, <1>4, <1>5 DEF body

(* What a read takes is data of the store it asked for, by its length: it  *)
(* is the answer that the report shows, unless it is a macro page.         *)
LEMMA TakeReads ==
  ASSUME ReportInv, Take, taken' # NoReply
  PROVE  /\ waiting \in Reads
         /\ \E payload \in Seq(Byte) :
              /\ taken' = [op |-> waiting.op, at |-> waiting.at,
                           data |-> IF waiting.op = "GetMacros" THEN PageOf(payload) ELSE payload]
              /\ waiting.op # "GetMacros" => Len(payload) = LengthOf[waiting.op]
              /\ report = Blank => payload = <<>>
              /\ \A r \in Reads : \A d \in Image(LengthOf[r.op]) :
                   Shows(report, r, d) => payload = d
<1>1. waiting \in Reads
  BY DEF Take, ReportInv
<1>2. PICK n \in ReadLens :
        taken' = IF ~Complete(BytesRead(n)) \/ ~Expected(waiting.op, ParseResponse(BytesRead(n)))
                 THEN NoReply
                 ELSE [op |-> waiting.op, at |-> waiting.at,
                       data |-> IF waiting.op = "GetMacros" THEN PageOf(ParseResponse(BytesRead(n)))
                                ELSE ParseResponse(BytesRead(n))]
  BY DEF Take
<1> DEFINE payload == ParseResponse(BytesRead(n))
<1>3. Complete(BytesRead(n)) /\ Expected(waiting.op, payload)
  BY <1>2
<1>4. /\ payload \in Seq(Byte) /\ (report = Blank => payload = <<>>)
      /\ \A r \in Reads : \A d \in Image(LengthOf[r.op]) : Shows(report, r, d) => payload = d
  BY <1>3, Parsed
<1>5. taken' = [op |-> waiting.op, at |-> waiting.at,
                data |-> IF waiting.op = "GetMacros" THEN PageOf(payload) ELSE payload]
  BY <1>2, <1>3
<1>6. waiting.op # "GetMacros" => Len(payload) = LengthOf[waiting.op]
  BY <1>3 DEF Expected
<1> HIDE DEF payload
<1> QED BY <1>1, <1>4, <1>5, <1>6

-----------------------------------------------------------------------------
(* The invariant *)

LEMMA InvInit == Init => ReportInv
BY DataAssumption DEF Init, ReportInv

LEMMA PutKeepsInv ==
  ASSUME ReportInv, NEW w, Writable(w), Put(w)
  PROVE  ReportInv'
<1>1. stores' \in Memories /\ pending' = pending /\ report' = report
  BY WriteStored DEF ReportInv, Put
<1>2. settling' \in BOOLEAN
  <2>1. settling' = (settling \/ w.op = "SetProfile")
    BY WriteStored DEF ReportInv, Put
  <2> QED BY <2>1, Zenon
<1>3. waiting' = waiting /\ taken' = NoReply
  BY DEF Put
<1> QED BY <1>1, <1>2, <1>3 DEF ReportInv

LEMMA AnswerKeepsInv ==
  ASSUME ReportInv, Answer
  PROVE  ReportInv'
<1>1. PICK r \in Reads : pending = Getting(r.op, r.at)
  BY DEF ReportInv, Answer
<1> DEFINE d == StoreFor(r.op, r.at)
<1>2. d \in Image(LengthOf[r.op]) /\ Shows(report', r, d)
  BY <1>1, StoreType, AnsweredShows DEF ReportInv, Answer
<1> HIDE DEF d
<1>3. report' = Blank \/ \E q \in Reads : \E e \in Image(LengthOf[q.op]) : Shows(report', q, e)
  BY <1>2
<1>4. UNCHANGED <<stores, settling, waiting, taken>> /\ pending' = <<>>
  BY DEF Answer
<1> QED BY <1>3, <1>4 DEF ReportInv

LEMMA TakeKeepsInv ==
  ASSUME ReportInv, Take
  PROVE  ReportInv'
<1>1. /\ UNCHANGED <<stores, settling, pending, report>>
      /\ waiting' = NoRequest
  BY DEF Take
<1>2. ASSUME taken' # NoReply
      PROVE  \E r \in Reads : \E d \in Image(LengthOf[r.op]) :
               taken' = [op |-> r.op, at |-> r.at, data |-> d]
  <2>1. waiting \in Reads
    BY <1>2, TakeReads
  <2>2. PICK payload \in Seq(Byte) :
          /\ taken' = [op |-> waiting.op, at |-> waiting.at,
                       data |-> IF waiting.op = "GetMacros" THEN PageOf(payload) ELSE payload]
          /\ waiting.op # "GetMacros" => Len(payload) = LengthOf[waiting.op]
    BY <1>2, TakeReads
  <2> DEFINE d == IF waiting.op = "GetMacros" THEN PageOf(payload) ELSE payload
  <2>3. d \in Image(LengthOf[waiting.op])
    <3>1. CASE waiting.op = "GetMacros"
      BY <3>1, PageType, Sizes
    <3>2. CASE waiting.op # "GetMacros"
      <4> DEFINE n == LengthOf[waiting.op]
      <4>1. n \in Nat /\ Len(payload) = n
        BY <2>1, <2>2, <3>2, ReadFields, Sizes
      <4> HIDE DEF n
      <4>2. payload \in [1 .. n -> Byte]
        BY <4>1, Made
      <4> QED BY <3>2, <4>2 DEF n, Image
    <3> QED BY <3>1, <3>2
  <2> HIDE DEF d
  <2>4. taken' = [op |-> waiting.op, at |-> waiting.at, data |-> d]
    BY <2>2 DEF d
  <2> QED BY <2>1, <2>3, <2>4
<1> QED BY <1>1, <1>2 DEF ReportInv

LEMMA InvNext == ReportInv /\ [Next]_vars => ReportInv'
<1> SUFFICES ASSUME ReportInv, [Next]_vars PROVE ReportInv'
  OBVIOUS
<1>1. CASE Answer
  BY <1>1, AnswerKeepsInv
<1>2. CASE Settle
  BY <1>2 DEF Settle, ReportInv
<1>3. ASSUME NEW r \in Reads, Ask(r) PROVE ReportInv'
  <2>1. /\ stores' = stores /\ settling' = settling /\ report' = report
        /\ pending' = Getting(r.op, r.at) /\ waiting' = r /\ taken' = NoReply
    BY <1>3, AskSends
  <2> QED BY <2>1 DEF ReportInv
<1>4. CASE Take
  BY <1>4, TakeKeepsInv
<1>5. ASSUME NEW w \in Writes, Put(w) PROVE ReportInv'
  BY <1>5, DataAssumption, PutKeepsInv
<1>6. ASSUME NEW p \in Patches, Patch(p) PROVE ReportInv'
  BY <1>6, PatchWrites, PutKeepsInv
<1>7. CASE EnterSelfDefine
  BY <1>7, SwitchWrites, PutKeepsInv
<1>8. CASE UNCHANGED vars
  BY <1>8 DEF vars, ReportInv
<1> QED BY <1>1, <1>2, <1>3, <1>4, <1>5, <1>6, <1>7, <1>8 DEF Next

(* Whatever is asked, written and read, in any order and however much of a *)
(* report a read returns: memory, requests and reports are well formed, as *)
(* bytes and as Session sees them.                                         *)
THEOREM TypeCorrect == Spec => []TypeOK
<1>1. Spec => []ReportInv
  BY InvInit, InvNext, PTL DEF Spec
<1> QED BY <1>1, InvType, PTL

-----------------------------------------------------------------------------
(* Steps as Session sees them *)

Carried ==
  /\ \A w \in Writes : Put(w) => Written(w)
  /\ \A p \in Patches : Patch(p) =>
       Session!SetKeyMatrix(taken.at, [Slotted(taken.data) EXCEPT ![p.slot] = p.value])
  /\ EnterSelfDefine =>
       Session!SetProfile([Parts(taken.data) EXCEPT !.mode = <<1, Marker>>])
  /\ \A r \in Reads : Ask(r) => Session!SendRequest(Host, r)
  /\ Answer => Session!DeviceAnswers

(* The request that is pending, as Session sees it.                        *)
LEMMA AskedIs ==
  ASSUME NEW r \in Reads
  PROVE  /\ RequestOf(Getting(r.op, r.at)) = r /\ Getting(r.op, r.at) # <<>>
         /\ [by |-> Host, req |-> r] # NoRequest
<1>1. RequestOf(Getting(r.op, r.at)) = [op |-> r.op, at |-> r.at] /\ Getting(r.op, r.at) # <<>>
  BY RequestRead DEF RequestOf
<1> QED BY <1>1, ReadFields, NothingAssumption

LEMMA AnswerIsSeen ==
  ASSUME ReportInv, Answer
  PROVE  Session!DeviceAnswers
<1>1. PICK r \in Reads : pending = Getting(r.op, r.at)
  BY DEF ReportInv, Answer
<1> DEFINE d == StoreFor(r.op, r.at)
           asked == IF pending = <<>> THEN NoRequest ELSE [by |-> Host, req |-> RequestOf(pending)]
<1>2. asked = [by |-> Host, req |-> r] /\ asked # NoRequest /\ asked.req = r
  BY <1>1, AskedIs
<1>3. Shows(report', r, d)
  BY <1>1, AnsweredShows DEF ReportInv, Answer
<1>4. Reply' = [op |-> r.op, at |-> r.at, data |-> Meaning(r.op, d)]
  <2>1. report' # Blank
    BY <1>3, ShownIsNotBlank
  <2>2. OpOf(Tail(report')) = r.op /\ AddressOf(Tail(report')) = r.at /\ Payload(Tail(report')) = d
    BY <1>3 DEF Shows
  <2> QED BY <2>1, <2>2 DEF Reply
<1>5. Meaning(r.op, d) =
        CASE r.op = "GetKeyMatrix" -> [l \in Layers |-> Slotted(stores.layers[l + 1])][r.at]
          [] r.op = "GetMacros" -> [i \in 0 .. NumPages - 1 |-> stores.pages[i + 1]][r.at]
          [] r.op = "GetLedColors" -> Planes(stores.colors)
          [] r.op = "GetProfile" -> Parts(stores.profile)
  BY ReadFields, Sizes DEF Meaning, StoreFor
<1>6. Session!Answer(asked.req) = Reply'
  BY <1>2, <1>4, <1>5 DEF Session!Answer, Session!Pages
<1>7. pending' = <<>> /\ UNCHANGED <<stores, settling>>
  BY DEF Answer
<1> HIDE DEF d
<1> QED BY <1>2, <1>6, <1>7 DEF Session!DeviceAnswers, Session!stores

LEMMA StepsAreSeen == ReportInv => Carried
<1> SUFFICES ASSUME ReportInv PROVE Carried
  OBVIOUS
<1>1. ASSUME NEW w, Writable(w), Put(w) PROVE Written(w)
  BY <1>1, WriteIsSeen DEF ReportInv, Put
<1>2. ASSUME NEW w \in Writes, Put(w) PROVE Written(w)
  BY <1>1, <1>2, DataAssumption
<1>3. ASSUME NEW p \in Patches, Patch(p)
      PROVE  Session!SetKeyMatrix(taken.at, [Slotted(taken.data) EXCEPT ![p.slot] = p.value])
  <2>1. PICK w : /\ Writable(w) /\ Put(w) /\ w.op = "SetKeyMatrix" /\ w.at = taken.at
                 /\ Slotted(w.data) = [Slotted(taken.data) EXCEPT ![p.slot] = p.value]
    BY <1>3, PatchWrites
  <2>2. Written(w)
    BY <1>1, <2>1
  <2>3. Session!SetKeyMatrix(w.at, Slotted(w.data))
    BY <2>1, <2>2 DEF Written
  <2> QED BY <2>1, <2>3
<1>4. ASSUME EnterSelfDefine
      PROVE  Session!SetProfile([Parts(taken.data) EXCEPT !.mode = <<1, Marker>>])
  <2>1. PICK w : /\ Writable(w) /\ Put(w) /\ w.op = "SetProfile"
                 /\ Parts(w.data) = [Parts(taken.data) EXCEPT !.mode = <<1, Marker>>]
    BY <1>4, SwitchWrites
  <2>2. Written(w)
    BY <1>1, <2>1
  <2>3. Session!SetProfile(Parts(w.data))
    BY <2>1, <2>2 DEF Written
  <2> QED BY <2>1, <2>3
<1>5. ASSUME NEW r \in Reads, Ask(r) PROVE Session!SendRequest(Host, r)
  <2>1. stores' = stores /\ settling' = settling /\ report' = report /\ pending' = Getting(r.op, r.at)
    BY <1>5, AskSends
  <2>2. Reply' = Reply
    BY <2>1 DEF Reply
  <2>3. (IF pending' = <<>> THEN NoRequest ELSE [by |-> Host, req |-> RequestOf(pending')])
          = [by |-> Host, req |-> r]
    BY <2>1, AskedIs
  <2> QED BY <2>1, <2>2, <2>3 DEF Session!SendRequest, Session!stores
<1>6. Answer => Session!DeviceAnswers
  BY AnswerIsSeen
<1> QED BY <1>2, <1>3, <1>4, <1>5, <1>6 DEF Carried

(* The bytes of a request say what the request is: a write, whole or short,*)
(* a patched layer or a switched profile changes its own part of its store *)
(* and nothing else, a read asks for what it names, and the answer is what *)
(* the store holds.  For any sizes, opcodes and data.                      *)
THEOREM ReportsCarryRequestsHolds == Spec => ReportsCarryRequests
<1>1. Spec => []ReportInv
  BY InvInit, InvNext, PTL DEF Spec
<1>2. ReportInv => [Carried]_vars
  BY StepsAreSeen
<1>3. Spec => [][Carried]_vars
  BY <1>1, <1>2, PTL
<1> QED BY <1>3 DEF ReportsCarryRequests, Carried

TakenShown ==
  Take =>
    /\ taken' # NoReply /\ waiting.op # "GetMacros" =>
         /\ Session!LengthMatches(waiting.op)
         /\ Meaning(waiting.op, taken'.data) = Reply.data
    /\ taken' # NoReply /\ waiting.op = "GetMacros" /\ Session!LengthMatches("GetMacros") =>
         taken'.data = Reply.data

LEMMA TakenIsShown == ReportInv => TakenShown
<1> SUFFICES ASSUME ReportInv, Take, taken' # NoReply
             PROVE  /\ waiting.op # "GetMacros" =>
                         /\ Session!LengthMatches(waiting.op)
                         /\ Meaning(waiting.op, taken'.data) = Reply.data
                    /\ waiting.op = "GetMacros" /\ Session!LengthMatches("GetMacros") =>
                         taken'.data = Reply.data
  BY DEF TakenShown
<1>1. waiting \in Reads
  BY TakeReads
<1>2. PICK payload \in Seq(Byte) :
        /\ taken' = [op |-> waiting.op, at |-> waiting.at,
                     data |-> IF waiting.op = "GetMacros" THEN PageOf(payload) ELSE payload]
        /\ waiting.op # "GetMacros" => Len(payload) = LengthOf[waiting.op]
        /\ report = Blank => payload = <<>>
        /\ \A r \in Reads : \A d \in Image(LengthOf[r.op]) : Shows(report, r, d) => payload = d
  BY TakeReads
<1>3. ASSUME report = Blank PROVE Reply = NoReply /\ Session!ReplyLen = 0 /\ payload = <<>>
  BY <1>2, <1>3 DEF Reply, Session!ReplyLen
<1>4. ASSUME NEW r \in Reads, NEW d \in Image(LengthOf[r.op]), Shows(report, r, d)
      PROVE  /\ payload = d /\ Len(payload) = LengthOf[r.op]
             /\ Reply = [op |-> r.op, at |-> r.at, data |-> Meaning(r.op, d)]
             /\ Session!ReplyLen = Session!PayloadLen(r.op)
  <2>1. payload = d
    BY <1>2, <1>4
  <2>2. Len(payload) = LengthOf[r.op]
    <3> DEFINE n == LengthOf[r.op]
    <3>1. n \in Nat /\ d \in Image(n)
      BY ReadFields, Sizes
    <3> HIDE DEF n
    <3>2. Len(d) = n
      BY <3>1, ImageSeq
    <3> QED BY <2>1, <3>2 DEF n
  <2>3. Reply = [op |-> r.op, at |-> r.at, data |-> Meaning(r.op, d)] /\ Reply # NoReply
    BY <1>4, ReplyShown
  <2>4. Session!ReplyLen = Session!PayloadLen(r.op)
    BY <2>3 DEF Session!ReplyLen
  <2> QED BY <2>1, <2>2, <2>3, <2>4
<1>5. report # Blank =>
        \E r \in Reads : \E d \in Image(LengthOf[r.op]) : Shows(report, r, d)
  BY DEF ReportInv
<1>6. ASSUME waiting.op # "GetMacros"
      PROVE  Session!LengthMatches(waiting.op) /\ Meaning(waiting.op, taken'.data) = Reply.data
  <2>1. Len(payload) = LengthOf[waiting.op] /\ LengthOf[waiting.op] # 0
    BY <1>1, <1>2, <1>6, ReadFields, Sizes
  <2>2. report # Blank
    BY <1>3, <2>1
  <2>3. PICK r \in Reads : \E d \in Image(LengthOf[r.op]) : Shows(report, r, d)
    BY <1>5, <2>2
  <2>4. PICK d \in Image(LengthOf[r.op]) : Shows(report, r, d)
    BY <2>3
  <2>5. /\ payload = d /\ Len(payload) = LengthOf[r.op]
        /\ Reply = [op |-> r.op, at |-> r.at, data |-> Meaning(r.op, d)]
        /\ Session!ReplyLen = Session!PayloadLen(r.op)
    BY <1>4, <2>4
  <2>6. r.op = waiting.op
    BY <1>1, <2>1, <2>5, ReadFields, FrameAssumption
  <2>7. taken'.data = payload
    BY <1>2, <1>6
  <2> QED BY <2>5, <2>6, <2>7 DEF Session!LengthMatches
<1>7. ASSUME waiting.op = "GetMacros", Session!LengthMatches("GetMacros")
      PROVE  taken'.data = Reply.data
  <2>1. Session!ReplyLen = 512
    BY <1>7 DEF Session!LengthMatches, Session!PayloadLen
  <2>2. report # Blank
    BY <1>3, <2>1
  <2>3. PICK r \in Reads : \E d \in Image(LengthOf[r.op]) : Shows(report, r, d)
    BY <1>5, <2>2
  <2>4. PICK d \in Image(LengthOf[r.op]) : Shows(report, r, d)
    BY <2>3
  <2>5. /\ payload = d /\ Len(payload) = LengthOf[r.op]
        /\ Reply = [op |-> r.op, at |-> r.at, data |-> Meaning(r.op, d)]
        /\ Session!ReplyLen = Session!PayloadLen(r.op)
    BY <1>4, <2>4
  <2>6. r.op = "GetMacros"
    BY <2>1, <2>5, ReadFields, Sizes DEF Session!PayloadLen
  <2>7. Len(payload) = PageLen
    BY <2>5, <2>6, Sizes
  <2>8. taken'.data = PageOf(payload) /\ PageOf(payload) = payload
    BY <1>2, <1>7, <2>7, PageType
  <2>9. Reply.data = d
    BY <2>5, <2>6 DEF Meaning
  <2> QED BY <2>5, <2>8, <2>9
<1> QED BY <1>6, <1>7

(* However few bytes a read returns, and whatever was asked before: what   *)
(* the host takes is the answer that the report holds, of the store it     *)
(* asked for, or nothing; only a macro page may come from another store.   *)
THEOREM TakenIsReplyHolds == Spec => TakenIsReply
<1>1. Spec => []ReportInv
  BY InvInit, InvNext, PTL DEF Spec
<1>2. ReportInv => [TakenShown]_vars
  BY TakenIsShown
<1>3. Spec => [][TakenShown]_vars
  BY <1>1, <1>2, PTL
<1> QED BY <1>3 DEF TakenIsReply, TakenShown

=============================================================================
