----------------------- MODULE MacroRepositoryProofs -----------------------
(***************************************************************************)
(* Proofs about the macro table, for pages of any length, any number of    *)
(* them and lists of any length: first the pages, which carry any bytes    *)
(* that fit; then what EncodeTable and DecodeTable compute; then the two   *)
(* together.                                                               *)
(***************************************************************************)
EXTENDS MacroRepository, SequenceTheorems, WellFoundedInduction, NaturalsInduction, TLAPS

-----------------------------------------------------------------------------
(* Cutting n things into rows of d.                                        *)
LEMMA Division ==
  ASSUME NEW n \in Nat, NEW d \in Nat \ {0}
  PROVE  n \div d \in Nat /\ d * (n \div d) <= n /\ n < d * (n \div d) + d
OBVIOUS

LEMMA Quotient ==
  ASSUME NEW n \in Nat, NEW d \in Nat \ {0}, NEW q \in Nat
  PROVE  /\ n \div d < q <=> n < d * q
         /\ n \div d = q <=> d * q <= n /\ n < d * (q + 1)
<1> DEFINE r == n \div d
<1>1. r \in Nat /\ d * r <= n /\ n < d * r + d
  BY Division
<1> HIDE DEF r
<1>2. ASSUME NEW a \in Nat, NEW b \in Nat, a < b PROVE d * a + d <= d * b
  <2>1. a + 1 <= b
    BY <1>2
  <2>2. d * (a + 1) <= d * b
    BY <2>1
  <2> QED BY <2>2
<1>3. d * (q + 1) = d * q + d
  OBVIOUS
<1>4. r < q => n < d * q
  BY <1>1, <1>2
<1>5. q < r => d * q + d <= n
  <2>1. q < r => d * q + d <= d * r
    BY <1>1, <1>2
  <2> QED BY <1>1, <2>1
<1>6. r = q \/ r < q \/ q < r
  BY <1>1
<1>7. r = q => d * q <= n /\ n < d * q + d
  BY <1>1
<1>8. (r < q <=> n < d * q) /\ (r = q <=> d * q <= n /\ n < d * q + d)
  BY <1>4, <1>5, <1>6, <1>7
<1> QED BY <1>3, <1>8 DEF r

(* The buffer is NumPages pages of PageLen bytes.                          *)
LEMMA Sizes == BufferLen \in Nat /\ PageLen \in Nat \ {0} /\ NumPages \in Nat \ {0}
BY RepositoryAssumption DEF BufferLen

(* A byte is on a page that comes before page i if it is in front of the   *)
(* first byte of page i.                                                   *)
LEMMA BytesOfPage ==
  ASSUME NEW k \in 1 .. BufferLen, NEW i \in Nat
  PROVE  /\ (k - 1) \div PageLen < i <=> k <= i * PageLen
         /\ (k - 1) \div PageLen = i <=> i * PageLen < k /\ k <= (i + 1) * PageLen
         /\ k <= NumPages * PageLen
<1>1. k \in Nat \ {0} /\ k - 1 \in Nat /\ k <= BufferLen
  BY Sizes
<1>2. /\ (k - 1) \div PageLen < i <=> k - 1 < PageLen * i
      /\ (k - 1) \div PageLen = i <=> PageLen * i <= k - 1 /\ k - 1 < PageLen * (i + 1)
  BY <1>1, Sizes, Quotient
<1>3. /\ PageLen * i \in Nat /\ PageLen * i = i * PageLen
      /\ PageLen * (i + 1) \in Nat /\ PageLen * (i + 1) = (i + 1) * PageLen
      /\ PageLen * NumPages = NumPages * PageLen
  BY Sizes
<1> QED BY <1>1, <1>2, <1>3, Sizes DEF BufferLen

(* As many pages as it takes, and no more than there are.                  *)
LEMMA PagesNeeded ==
  ASSUME NEW bytes \in Seq(Byte), Len(bytes) <= BufferLen
  PROVE  /\ PackageNum(bytes) \in 0 .. NumPages
         /\ Len(bytes) <= PackageNum(bytes) * PageLen
<1> DEFINE n == Len(bytes) + PageLen - 1
           q == n \div PageLen
<1>1. n \in Nat /\ Len(bytes) \in Nat
  BY Sizes
<1>2. q \in Nat /\ n < PageLen * q + PageLen
  BY <1>1, Sizes, Division
<1>3. n < PageLen * (NumPages + 1)
  <2>1. PageLen * (NumPages + 1) = BufferLen + PageLen
    BY Sizes DEF BufferLen
  <2> QED BY <2>1, Sizes, <1>1
<1>4. q < NumPages + 1
  <2>1. NumPages + 1 \in Nat
    BY Sizes
  <2> QED BY <1>1, <1>3, <2>1, Sizes, Quotient
<1>5. PageLen * q \in Nat /\ PageLen * q = q * PageLen
  BY <1>2, Sizes
<1> HIDE DEF q
<1>6. Len(bytes) <= q * PageLen
  BY <1>1, <1>2, <1>5, Sizes
<1> QED BY <1>2, <1>4, <1>6, Sizes DEF PackageNum, q, n

-----------------------------------------------------------------------------
(* While a list is written it fits and the next page is one of its own;    *)
(* while pages are read the next one is one of the memory's.               *)
PageInv ==
  /\ TypeOK
  /\ phase = "writing" =>
       ~whole /\ list # NoList /\ page < PackageNum(EncodeTable(list))

(* What fits fits into the pages there are.                                *)
LEMMA ListFits ==
  ASSUME Fits(list)
  PROVE  /\ EncodeTable(list) \in Seq(Byte) /\ Len(EncodeTable(list)) <= BufferLen
         /\ PackageNum(EncodeTable(list)) \in 0 .. NumPages
         /\ Len(EncodeTable(list)) <= PackageNum(EncodeTable(list)) * PageLen
BY PagesNeeded DEF Fits

(* A memory or a buffer is made of as many bytes as there are.             *)
LEMMA Memories ==
  ASSUME NEW f
  PROVE  f \in Seq(Byte) /\ Len(f) = BufferLen <=> f \in [1 .. BufferLen -> Byte]
BY Sizes

(* Storing a page leaves a memory of bytes.                                *)
LEMMA StoredType ==
  ASSUME NEW bytes \in Seq(Byte), NEW cleared \in BOOLEAN, memory \in [1 .. BufferLen -> Byte]
  PROVE  Stored(bytes, cleared) \in [1 .. BufferLen -> Byte]
<1>1. ASSUME NEW k \in 1 .. BufferLen, k <= Len(bytes) PROVE bytes[k] \in Byte
  BY <1>1, Sizes
<1>2. 0 \in Byte
  BY DEF Byte
<1> QED BY <1>1, <1>2 DEF Stored

LEMMA PageInit == Init => PageInv
<1> SUFFICES ASSUME Init PROVE PageInv
  OBVIOUS
<1>1. memory \in Seq(Byte) /\ Len(memory) = BufferLen
  BY RepositoryAssumption DEF Init
<1>2. buffer \in [1 .. BufferLen -> Byte]
  BY DEF Init, Zeroes, Byte
<1>3. whole \in BOOLEAN
  BY Zenon DEF Init
<1>4. page \in 0 .. NumPages /\ phase = "idle" /\ list = NoList
  BY Sizes DEF Init
<1> QED BY <1>1, <1>2, <1>3, <1>4, Memories DEF PageInv, TypeOK

LEMMA PageNext == PageInv /\ [Next]_vars => PageInv'
<1> SUFFICES ASSUME PageInv, [Next]_vars PROVE PageInv'
  OBVIOUS
<1> USE DEF PageInv, TypeOK
<1>0. Zeroes \in [1 .. BufferLen -> Byte]
  BY DEF Zeroes, Byte
<1>1. CASE BeginWrite
  <2>1. list' # NoList /\ Fits(list')
    BY <1>1, RepositoryAssumption DEF BeginWrite
  <2>2. PackageNum(EncodeTable(list')) \in 0 .. NumPages
    BY <2>1, PagesNeeded DEF Fits
  <2>3. phase' = "writing" => ~whole' /\ PackageNum(EncodeTable(list')) # 0
    BY <1>1, Zenon DEF BeginWrite
  <2>4. phase' \in {"idle", "writing"} /\ page' = 0 /\ whole' \in BOOLEAN
    BY <1>1, Zenon DEF BeginWrite
  <2>5. phase' = "writing" => page' < PackageNum(EncodeTable(list'))
    BY <2>2, <2>3, <2>4
  <2> QED BY <1>1, <2>1, <2>3, <2>4, <2>5, Sizes DEF BeginWrite
<1>2. CASE WritePage
  <2> DEFINE bytes == EncodeTable(list)
  <2>1. bytes \in Seq(Byte) /\ PackageNum(bytes) \in 0 .. NumPages
        /\ page \in Nat /\ page < PackageNum(bytes)
    BY <1>2, ListFits DEF WritePage
  <2>2. memory' \in [1 .. BufferLen -> Byte]
    <3>1. PICK cleared \in BOOLEAN : memory' = Stored(bytes, cleared)
      BY <1>2 DEF WritePage
    <3> QED BY <2>1, <3>1, Memories, StoredType
  <2>3. /\ page' = page + 1 /\ UNCHANGED <<list, buffer>>
        /\ whole' = (page + 1 = PackageNum(bytes))
        /\ phase' = IF page + 1 = PackageNum(bytes) THEN "idle" ELSE "writing"
    BY <1>2 DEF WritePage
  <2> HIDE DEF bytes
  <2>4. /\ page' \in 0 .. NumPages /\ whole' \in BOOLEAN /\ phase' \in {"idle", "writing"}
        /\ phase' = "writing" => ~whole' /\ page' < PackageNum(bytes) /\ page' < NumPages
    <3>1. whole' \in BOOLEAN /\ (whole' <=> page + 1 = PackageNum(bytes))
      BY <2>3, Zenon
    <3> DEFINE n == PackageNum(bytes)
    <3>2. n \in 0 .. NumPages /\ NumPages \in Nat /\ page \in Nat /\ page < n
      BY <2>1, Sizes
    <3>3. page' = page + 1 /\ phase' = IF page + 1 = n THEN "idle" ELSE "writing"
      BY <2>3
    <3> HIDE DEF n
    <3>4. page' \in 0 .. NumPages
      BY <3>2, <3>3
    <3>5. phase' \in {"idle", "writing"}
      BY <3>3
    <3>6. phase' = "writing" => page' < n /\ page' < NumPages
      BY <3>2, <3>3
    <3>7. phase' = "writing" => page + 1 # n
      BY <3>3
    <3> QED BY <3>1, <3>4, <3>5, <3>6, <3>7, Zenon DEF n
  <2>5. list # NoList /\ bytes' = bytes /\ list' = list
    BY <1>2, <2>3 DEF WritePage, bytes
  <2>6. memory' \in Seq(Byte) /\ Len(memory') = BufferLen
    BY <2>2, Memories
  <2> QED BY <2>3, <2>4, <2>5, <2>6 DEF bytes, Fits, PackageNum
<1>3. CASE BeginRead
  <2>1. buffer' \in Seq(Byte) /\ Len(buffer') = BufferLen
    BY <1>0, <1>3, Memories DEF BeginRead
  <2> QED BY <1>3, <2>1, Sizes DEF BeginRead, Fits
<1>4. CASE ReadPage
  <2>1. Copied \in [1 .. BufferLen -> Byte]
    BY Memories DEF Copied
  <2>2. buffer' \in Seq(Byte) /\ Len(buffer') = BufferLen
    BY <1>0, <1>4, <2>1, Memories DEF ReadPage
  <2>3. /\ page' \in 0 .. NumPages /\ phase' \in {"idle", "reading"}
        /\ phase' = "reading" => page' < NumPages
    BY <1>4, Sizes DEF ReadPage, LastPage
  <2> QED BY <1>4, <2>2, <2>3 DEF ReadPage, Fits
<1>5. CASE Die
  <2>1. buffer' \in Seq(Byte) /\ Len(buffer') = BufferLen
    BY <1>0, <1>5, Memories DEF Die
  <2> QED BY <1>5, <2>1, Sizes DEF Die, Fits
<1>6. CASE UNCHANGED vars
  BY <1>6 DEF vars, Fits
<1> QED BY <1>1, <1>2, <1>3, <1>4, <1>5, <1>6 DEF Next

(* The memory and every buffer keep their size and their bytes, and no     *)
(* page is sent or asked for past the last one.                            *)
THEOREM TypeCorrect == Spec => []TypeOK
<1>1. PageInv => TypeOK
  BY DEF PageInv
<1> QED BY <1>1, PageInit, PageNext, PTL DEF Spec

-----------------------------------------------------------------------------
(* What one more page adds: after it, all bytes of the list up to the end  *)
(* of that page are in memory if those up to its beginning were.           *)
LEMMA PageStored ==
  ASSUME NEW bytes \in Seq(Byte), Len(bytes) <= BufferLen, NEW cleared \in BOOLEAN,
         page \in Nat, memory \in [1 .. BufferLen -> Byte],
         \A k \in 1 .. Len(bytes) : k <= page * PageLen => memory[k] = bytes[k]
  PROVE  \A k \in 1 .. Len(bytes) :
           k <= (page + 1) * PageLen => Stored(bytes, cleared)[k] = bytes[k]
<1> SUFFICES ASSUME NEW k \in 1 .. Len(bytes), k <= (page + 1) * PageLen
             PROVE  Stored(bytes, cleared)[k] = bytes[k]
  OBVIOUS
<1>1. k \in 1 .. BufferLen
  BY Sizes
<1>2. CASE OnPage(k)
  BY <1>1, <1>2 DEF Stored
<1>3. CASE ~OnPage(k)
  <2>1. ~(page * PageLen < k)
    BY <1>1, <1>3, BytesOfPage DEF OnPage
  <2>2. page * PageLen \in Nat
    BY Sizes
  <2>3. k <= page * PageLen
    BY <2>1, <2>2
  <2>4. memory[k] = bytes[k]
    BY <2>3
  <2> QED BY <1>1, <1>3, <2>4 DEF Stored
<1> QED BY <1>2, <1>3

(* As soon as a page has been sent its bytes are in memory and stay there  *)
(* until the next list is written; when the last page has been sent, all   *)
(* of the list's bytes are.                                                *)
THEOREM PagesHoldHolds == Spec => []PagesHold
<1>1. Init => PagesHold
  BY DEF Init, PagesHold
<1>2. PageInv /\ PagesHold /\ [Next]_vars => PagesHold'
  <2> SUFFICES ASSUME PageInv, PagesHold, [Next]_vars,
                      list' \notin {NoList, <<>>},
                      NEW k \in 1 .. Len(EncodeTable(list')), k <= Sent'
               PROVE  memory'[k] = EncodeTable(list')[k]
    BY DEF PagesHold
  <2>1. CASE BeginWrite
    <3>1. EncodeTable(list') \in Seq(Byte) /\ Len(EncodeTable(list')) <= BufferLen
      BY <2>1 DEF BeginWrite, Fits
    <3>2. CASE whole'
      <4>1. PackageNum(EncodeTable(list')) = 0
        BY <2>1, <3>2, Zenon DEF BeginWrite
      <4>2. Len(EncodeTable(list')) <= 0 * PageLen
        BY <3>1, <4>1, PagesNeeded
      <4> QED BY <3>1, <4>2, Sizes
    <3>3. CASE ~whole'
      <4>1. phase' = "writing" /\ page' = 0
        BY <2>1, <3>3, Zenon DEF BeginWrite
      <4>2. Sent' = page' * PageLen
        BY <3>3, <4>1, Zenon DEF Sent
      <4>3. Sent' = 0
        BY <4>1, <4>2, Sizes
      <4> QED BY <4>3
    <3> QED BY <3>2, <3>3
  <2>2. CASE WritePage
    <3> DEFINE bytes == EncodeTable(list)
    <3>1. list' = list /\ list # NoList /\ list # <<>> /\ phase = "writing" /\ ~whole
      BY <2>2 DEF WritePage, PageInv
    <3>2. bytes \in Seq(Byte) /\ Len(bytes) <= BufferLen /\ page \in Nat
          /\ Len(bytes) <= PackageNum(bytes) * PageLen
          /\ memory \in [1 .. BufferLen -> Byte]
      BY <3>1, ListFits, Memories DEF PageInv, TypeOK
    <3>3. PICK cleared \in BOOLEAN : memory' = Stored(bytes, cleared)
      BY <2>2 DEF WritePage
    <3>4. Sent = page * PageLen
      BY <3>1, Zenon DEF Sent
    <3>5. \A j \in 1 .. Len(bytes) : j <= page * PageLen => memory[j] = bytes[j]
      BY <3>1, <3>4 DEF PagesHold
    <3>6. k <= (page + 1) * PageLen
      <4>1. CASE whole'
        <5>1. page + 1 = PackageNum(bytes)
          BY <2>2, <4>1, Zenon DEF WritePage
        <5>2. (page + 1) * PageLen \in Nat
          BY <3>2, Sizes
        <5> QED BY <3>1, <3>2, <5>1, <5>2
      <4>2. CASE ~whole'
        <5>1. phase' = "writing" /\ page' = page + 1
          BY <2>2, <4>2, Zenon DEF WritePage
        <5>2. Sent' = page' * PageLen
          BY <4>2, <5>1, Zenon DEF Sent
        <5> QED BY <5>1, <5>2
      <4> QED BY <4>1, <4>2
    <3>7. k \in 1 .. Len(bytes)
      BY <3>1
    <3> HIDE DEF bytes
    <3>8. Stored(bytes, cleared)[k] = bytes[k]
      BY <3>2, <3>5, <3>6, <3>7, PageStored
    <3> QED BY <3>1, <3>3, <3>8 DEF bytes
  <2>3. CASE BeginRead \/ ReadPage \/ Die \/ UNCHANGED vars
    <3>1. UNCHANGED <<memory, list, whole>>
      BY <2>3 DEF BeginRead, ReadPage, Die, vars
    <3>2. phase' = "writing" => UNCHANGED <<phase, page>>
      BY <2>3 DEF BeginRead, ReadPage, Die, vars
    <3>3. k <= Sent
      <4>1. CASE whole
        BY <3>1, <4>1, Zenon DEF Sent
      <4>2. CASE ~whole /\ phase' = "writing"
        BY <3>1, <3>2, <4>2, Zenon DEF Sent
      <4>3. CASE ~whole /\ phase' # "writing"
        <5>1. Sent' = 0
          BY <3>1, <4>3, Zenon DEF Sent
        <5> QED BY <5>1
      <4> QED BY <4>1, <4>2, <4>3
    <3> QED BY <3>1, <3>3 DEF PagesHold
  <2> QED BY <2>1, <2>2, <2>3 DEF Next
<1> QED BY <1>1, <1>2, PageInit, PageNext, PTL DEF Spec

-----------------------------------------------------------------------------
(* The pages copied so far are the memory's.                               *)
CopyInv ==
  phase = "reading" =>
    \A k \in 1 .. BufferLen : k <= page * PageLen => buffer[k] = memory[k]

LEMMA CopyNext == PageInv /\ CopyInv /\ [Next]_vars => CopyInv'
<1> SUFFICES ASSUME PageInv, CopyInv, [Next]_vars, phase' = "reading",
                    NEW k \in 1 .. BufferLen, k <= page' * PageLen
             PROVE  buffer'[k] = memory'[k]
  BY DEF CopyInv
<1>1. CASE BeginRead
  <2>1. page' * PageLen = 0
    BY <1>1, Sizes DEF BeginRead
  <2> QED BY <2>1
<1>2. CASE ReadPage
  <2>1. page \in Nat /\ phase = "reading"
    BY <1>2 DEF ReadPage, PageInv, TypeOK
  <2>2. buffer' = Copied /\ memory' = memory /\ page' = page + 1
    BY <1>2 DEF ReadPage
  <2>3. CASE OnPage(k)
    BY <2>2, <2>3 DEF Copied
  <2>4. CASE ~OnPage(k)
    <3>1. ~(page * PageLen < k)
      BY <2>1, <2>2, <2>4, BytesOfPage DEF OnPage
    <3>2. k <= page * PageLen
      <4>1. page * PageLen \in Nat
        BY <2>1, Sizes
      <4> QED BY <3>1, <4>1
    <3>3. buffer[k] = memory[k]
      BY <2>1, <3>2 DEF CopyInv
    <3> QED BY <2>2, <2>4, <3>3 DEF Copied
  <2> QED BY <2>3, <2>4
<1>3. CASE BeginWrite \/ WritePage \/ Die
  <2>1. phase' # "reading"
    BY <1>3, Zenon DEF BeginWrite, WritePage, Die
  <2> QED BY <2>1
<1>4. CASE UNCHANGED vars
  BY <1>4 DEF vars, CopyInv
<1> QED BY <1>1, <1>2, <1>3, <1>4 DEF Next

(* The step that ends a read.                                              *)
LEMMA SnapshotStep ==
  PageInv /\ CopyInv /\ [Next]_vars => [ReadEnds => result' = DecodeTable(memory)]_vars
<1> SUFFICES ASSUME PageInv, CopyInv, [Next]_vars, ReadEnds
             PROVE  result' = DecodeTable(memory)
  OBVIOUS
<1>1. page \in Nat /\ memory \in [1 .. BufferLen -> Byte]
  BY Memories DEF PageInv, TypeOK
<1>2. ReadPage
  <2>1. ~Die
    BY <1>1 DEF ReadEnds, Die
  <2> QED BY <2>1 DEF ReadEnds, Next, BeginWrite, WritePage, BeginRead, vars
<1>3. LastPage /\ result' = DecodeTable(Copied)
  BY <1>2 DEF ReadPage, ReadEnds
<1>4. ASSUME NEW k \in 1 .. BufferLen, ~OnPage(k) PROVE buffer[k] = memory[k]
  <2>1. k <= (page + 1) * PageLen
    BY <1>3, BytesOfPage DEF LastPage
  <2>2. ~(page * PageLen < k)
    BY <1>1, <1>4, <2>1, BytesOfPage DEF OnPage
  <2>3. k <= page * PageLen
    <3>1. page * PageLen \in Nat
      BY <1>1, Sizes
    <3> QED BY <2>2, <3>1
  <2> QED BY <2>3 DEF ReadEnds, CopyInv
<1>5. Copied = memory
  <2>1. Copied = [k \in 1 .. BufferLen |-> memory[k]]
    BY <1>4 DEF Copied
  <2> QED BY <1>1, <2>1
<1> QED BY <1>3, <1>5

(* A read of the table, page by page, decodes what the memory holds when   *)
(* the last page is read.                                                  *)
THEOREM ReadIsSnapshotHolds == Spec => ReadIsSnapshot
<1>1. Init => CopyInv
  BY DEF Init, CopyInv
<1> QED BY <1>1, CopyNext, SnapshotStep, PageInit, PageNext, PTL DEF Spec, ReadIsSnapshot

-----------------------------------------------------------------------------
(* Lists of any length *)

(* Induction over the natural numbers, for a set: the order of the natural *)
(* numbers is well founded, so the numbers outside S would have a least    *)
(* one.                                                                    *)
LEMMA Induction ==
  ASSUME NEW S, 0 \in S, \A n \in Nat : n \in S => n + 1 \in S
  PROVE  \A n \in Nat : n \in S
<1> SUFFICES ASSUME NEW n \in Nat, n \notin S PROVE FALSE
  OBVIOUS
<1> DEFINE Rest == Nat \ S
           R == OpToRel(<, Nat)
<1>1. IsWellFoundedOn(R, Nat)
  BY NatLessThanWellFounded
<1>2. \A x, y \in Nat : <<x, y>> \in R <=> x < y
  BY DEF OpToRel
<1>3. Rest \subseteq Nat /\ Rest # {}
  OBVIOUS
<1> HIDE DEF R, Rest
<1>4. PICK x \in Rest : \A y \in Rest : ~(<<y, x>> \in R)
  BY <1>1, <1>3, WFMin
<1>5. \A y \in Rest : ~(y < x)
  BY <1>2, <1>3, <1>4
<1>6. x \in Nat /\ x \notin S /\ x # 0
  BY <1>4 DEF Rest
<1>7. x - 1 \in Nat /\ x - 1 < x
  BY <1>6
<1>8. x - 1 \in S
  BY <1>5, <1>7 DEF Rest
<1> QED BY <1>6, <1>7, <1>8

-----------------------------------------------------------------------------
(* g[i] is the concatenation of the first i elements of s, as FlattenSeq   *)
(* of SequencesExt builds it.                                              *)
Flattens(g, s, n) == g = [i \in 1 .. n |-> IF i = 1 THEN s[i] ELSE g[i - 1] \o s[i]]

LEMMA FlattensAt ==
  ASSUME NEW s, NEW n \in Nat, NEW g, Flattens(g, s, n), NEW i \in 1 .. n
  PROVE  g[i] = IF i = 1 THEN s[i] ELSE g[i - 1] \o s[i]
BY DEF Flattens

(* The recursion of FlattenSeq has a solution.                             *)
LEMMA FlattenExists == ASSUME NEW s, NEW n \in Nat PROVE \E g : Flattens(g, s, n)
<1> DEFINE S == {m \in Nat : \E g : Flattens(g, s, m)}
<1>1. 0 \in S
  <2>1. Flattens([i \in 1 .. 0 |-> 0], s, 0)
    BY DEF Flattens
  <2> QED BY <2>1
<1>2. ASSUME NEW m \in Nat, m \in S PROVE m + 1 \in S
  <2>1. PICK g : Flattens(g, s, m)
    BY <1>2
  <2> DEFINE h == [i \in 1 .. m + 1 |->
                     IF i = m + 1 THEN IF i = 1 THEN s[i] ELSE g[i - 1] \o s[i] ELSE g[i]]
  <2>2. ASSUME NEW i \in 1 .. m + 1 PROVE h[i] = IF i = 1 THEN s[i] ELSE h[i - 1] \o s[i]
    <3>1. CASE i = m + 1
      BY <3>1
    <3>2. CASE i # m + 1
      <4>1. i \in 1 .. m /\ h[i] = g[i] /\ (i # 1 => h[i - 1] = g[i - 1])
        BY <3>2
      <4>2. g[i] = IF i = 1 THEN s[i] ELSE g[i - 1] \o s[i]
        BY <2>1, <4>1 DEF Flattens
      <4> QED BY <4>1, <4>2
    <3> QED BY <3>1, <3>2
  <2>3. h = [i \in 1 .. m + 1 |-> h[i]]
    OBVIOUS
  <2> HIDE DEF h
  <2>4. Flattens(h, s, m + 1)
    BY <2>2, <2>3 DEF Flattens
  <2> QED BY <2>4
<1> HIDE DEF S
<1>3. n \in S
  BY <1>1, <1>2, Induction
<1> QED BY <1>3 DEF S

(* FlattenSeq(s) is the last value of such a recursion.                    *)
LEMMA FlattenIs ==
  ASSUME NEW s, Len(s) \in Nat \ {0}
  PROVE  \E g : Flattens(g, s, Len(s)) /\ FlattenSeq(s) = g[Len(s)]
<1> DEFINE g == CHOOSE g : Flattens(g, s, Len(s))
<1>1. Flattens(g, s, Len(s))
  BY FlattenExists
<1>2. FlattenSeq(s) = g[Len(s)]
  BY DEF FlattenSeq, Flattens
<1> QED BY <1>1, <1>2

(* Lists with the same first m elements flatten alike up to there.         *)
LEMMA FlattenAgree ==
  ASSUME NEW s, NEW t, NEW g, NEW h, NEW m \in Nat \ {0}, NEW n \in Nat, m <= n,
         Flattens(g, s, m), Flattens(h, t, n), \A i \in 1 .. m : s[i] = t[i]
  PROVE  g[m] = h[m]
<1> DEFINE S == {k \in Nat : k \in 1 .. m => g[k] = h[k]}
<1>1. 0 \in S
  OBVIOUS
<1>2. ASSUME NEW k \in Nat, k \in S PROVE k + 1 \in S
  <2> SUFFICES ASSUME k + 1 \in 1 .. m PROVE g[k + 1] = h[k + 1]
    OBVIOUS
  <2> DEFINE i == k + 1
  <2>1. i \in 1 .. m /\ i \in 1 .. n /\ s[i] = t[i] /\ k = i - 1
    OBVIOUS
  <2>2. i # 1 => g[i - 1] = h[i - 1]
    BY <1>2
  <2> HIDE DEF i
  <2>3. g[i] = IF i = 1 THEN s[i] ELSE g[i - 1] \o s[i]
    BY <2>1 DEF Flattens
  <2>4. h[i] = IF i = 1 THEN t[i] ELSE h[i - 1] \o t[i]
    BY <2>1 DEF Flattens
  <2>5. g[i] = h[i]
    BY <2>1, <2>2, <2>3, <2>4
  <2> QED BY <2>5 DEF i
<1> HIDE DEF S
<1>3. m \in S
  BY <1>1, <1>2, Induction
<1> QED BY <1>3 DEF S

-----------------------------------------------------------------------------
(* What the first k elements flatten to.                                   *)
Upto(s, k) == FlattenSeq(SubSeq(s, 1, k))

(* The first k elements of a sequence.                                     *)
LEMMA Cut ==
  ASSUME NEW S, NEW s \in Seq(S), NEW k \in 0 .. Len(s)
  PROVE  /\ SubSeq(s, 1, k) \in Seq(S) /\ Len(SubSeq(s, 1, k)) = k
         /\ \A i \in 1 .. k : SubSeq(s, 1, k)[i] = s[i]
<1>1. Len(s) \in Nat /\ \A i \in 1 .. k : s[i] \in S
  BY LenProperties, ElementOfSeq
<1> QED BY <1>1, SubSeqProperties

(* One element more is appended at the end.                                *)
LEMMA FrontGrows ==
  ASSUME NEW S, NEW s \in Seq(Seq(S)), NEW k \in 1 .. Len(s)
  PROVE  Upto(s, 0) = <<>> /\ Upto(s, k) = Upto(s, k - 1) \o s[k]
<1> DEFINE a == SubSeq(s, 1, k - 1)
           b == SubSeq(s, 1, k)
<1>1. k \in Nat \ {0} /\ k - 1 \in 0 .. Len(s) /\ k \in 0 .. Len(s) /\ s[k] \in Seq(S) /\ 0 \in 0 .. Len(s)
  BY LenProperties, ElementOfSeq
<1>2. Upto(s, 0) = <<>>
  <2>1. SubSeq(s, 1, 0) \in Seq(Seq(S)) /\ Len(SubSeq(s, 1, 0)) = 0
    BY <1>1, Cut
  <2>2. SubSeq(s, 1, 0) = <<>>
    BY <2>1, EmptySeq
  <2>3. Len(<<>>) = 0
    BY EmptySeq
  <2> QED BY <2>2, <2>3 DEF Upto, FlattenSeq
<1>3. b \in Seq(Seq(S)) /\ Len(b) = k /\ \A i \in 1 .. k : b[i] = s[i]
  BY <1>1, Cut
<1>4. a \in Seq(Seq(S)) /\ Len(a) = k - 1 /\ \A i \in 1 .. k - 1 : a[i] = s[i]
  <2>1. SubSeq(s, 1, k - 1) \in Seq(Seq(S)) /\ Len(SubSeq(s, 1, k - 1)) = k - 1
        /\ \A i \in 1 .. k - 1 : SubSeq(s, 1, k - 1)[i] = s[i]
    BY <1>1, Cut
  <2> QED BY <2>1
<1> HIDE DEF a, b
<1>5. PICK g : Flattens(g, b, k) /\ FlattenSeq(b) = g[k]
  BY <1>1, <1>3, FlattenIs
<1>6. CASE k = 1
  <2>1. FlattenSeq(b) = s[1]
    BY <1>3, <1>5, <1>6 DEF Flattens
  <2>2. Upto(s, k - 1) = <<>>
    BY <1>2, <1>6
  <2> QED BY <1>1, <1>2, <1>6, <2>1, <2>2, ConcatEmptySeq DEF Upto, b
<1>7. CASE k # 1
  <2>1. k - 1 \in Nat \ {0} /\ k - 1 <= k
    BY <1>1, <1>7
  <2>2. PICK h : Flattens(h, a, k - 1) /\ FlattenSeq(a) = h[k - 1]
    BY <2>1, <1>4, FlattenIs
  <2>3. \A i \in 1 .. k - 1 : a[i] = b[i]
    <3> SUFFICES ASSUME NEW i \in 1 .. k - 1 PROVE a[i] = b[i]
      OBVIOUS
    <3>1. i \in 1 .. k
      BY <1>1
    <3> QED BY <1>3, <1>4, <3>1
  <2>4. h[k - 1] = g[k - 1]
    <3>1. k \in Nat /\ k - 1 \in Nat /\ k - 1 <= k /\ k - 1 # 0
      BY <2>1
    <3>2. Flattens(h, a, k - 1) /\ Flattens(g, b, k)
      BY <1>5, <2>2
    <3>3. \A m \in Nat \ {0} :
            m <= k /\ Flattens(h, a, m) /\ (\A i \in 1 .. m : a[i] = b[i]) => h[m] = g[m]
      BY <3>1, <3>2, FlattenAgree
    <3> QED BY <2>3, <3>1, <3>2, <3>3
  <2>5. g[k] = g[k - 1] \o b[k]
    <3>1. k \in Nat /\ k \in 1 .. k /\ Flattens(g, b, k)
      BY <1>1, <1>5
    <3>2. g[k] = IF k = 1 THEN b[k] ELSE g[k - 1] \o b[k]
      BY <3>1, FlattensAt
    <3> QED BY <1>7, <3>2
  <2>6. FlattenSeq(b) = FlattenSeq(a) \o s[k]
    <3>1. b[k] = s[k]
      BY <1>1, <1>3
    <3> QED BY <1>5, <2>2, <2>4, <2>5, <3>1
  <2> QED BY <1>2, <2>6 DEF Upto, a, b
<1> QED BY <1>6, <1>7

(* Flattening sequences of elements of S gives a sequence of elements of   *)
(* S.                                                                      *)
LEMMA FrontType ==
  ASSUME NEW S, NEW s \in Seq(Seq(S))
  PROVE  /\ \A k \in 0 .. Len(s) : Upto(s, k) \in Seq(S)
         /\ FlattenSeq(s) = Upto(s, Len(s)) /\ Len(s) \in Nat
<1> DEFINE T == {k \in Nat : k \in 0 .. Len(s) => Upto(s, k) \in Seq(S)}
<1>1. 0 \in T
  <2>1. SubSeq(s, 1, 0) = <<>>
    BY SubSeqEmpty
  <2>2. <<>> \in Seq(S) /\ Len(<<>>) = 0
    BY EmptySeq
  <2> QED BY <2>1, <2>2 DEF Upto, FlattenSeq
<1>2. ASSUME NEW k \in Nat, k \in T PROVE k + 1 \in T
  <2> SUFFICES ASSUME k + 1 \in 0 .. Len(s) PROVE Upto(s, k + 1) \in Seq(S)
    OBVIOUS
  <2> DEFINE j == k + 1
  <2>1. j \in 1 .. Len(s) /\ Upto(s, j - 1) \in Seq(S) /\ Len(s) \in Nat
    BY <1>2, LenProperties
  <2> HIDE DEF j
  <2>2. Upto(s, j) = Upto(s, j - 1) \o s[j] /\ s[j] \in Seq(S)
    BY <2>1, FrontGrows, ElementOfSeq
  <2>3. Upto(s, j) \in Seq(S)
    BY <2>1, <2>2, ConcatProperties
  <2> QED BY <2>3 DEF j
<1> HIDE DEF T
<1>3. \A k \in Nat : k \in T
  BY <1>1, <1>2, Induction
<1>4. SubSeq(s, 1, Len(s)) = s /\ Len(s) \in Nat
  BY SubSeqFull, LenProperties
<1>5. \A k \in 0 .. Len(s) : Upto(s, k) \in Seq(S)
  BY <1>3, <1>4 DEF T
<1> QED BY <1>4, <1>5 DEF Upto

(* What is flattened later leaves the front as it is.                      *)
LEMMA FrontStays ==
  ASSUME NEW S, NEW s \in Seq(Seq(S)), NEW m \in 0 .. Len(s), NEW k \in 0 .. m
  PROVE  /\ Len(Upto(s, k)) \in Nat /\ Len(Upto(s, k)) <= Len(Upto(s, m))
         /\ \A x \in 1 .. Len(Upto(s, k)) : Upto(s, m)[x] = Upto(s, k)[x]
<1> DEFINE Stays(j) == /\ Len(Upto(s, k)) <= Len(Upto(s, j))
                       /\ \A x \in 1 .. Len(Upto(s, k)) : Upto(s, j)[x] = Upto(s, k)[x]
           T == {d \in Nat : k + d <= Len(s) => Stays(k + d)}
<1>0. Len(s) \in Nat /\ \A j \in 0 .. Len(s) : Upto(s, j) \in Seq(S) /\ Len(Upto(s, j)) \in Nat
  BY FrontType, LenProperties
<1>1. 0 \in T
  <2>1. Stays(k)
    BY <1>0
  <2> HIDE DEF Stays
  <2>2. k + 0 = k
    BY <1>0
  <2> QED BY <2>1, <2>2
<1>2. ASSUME NEW d \in Nat, d \in T PROVE d + 1 \in T
  <2> SUFFICES ASSUME k + (d + 1) <= Len(s) PROVE Stays(k + (d + 1))
    OBVIOUS
  <2> DEFINE j == k + (d + 1)
  <2>1. j \in 1 .. Len(s) /\ j - 1 = k + d /\ k + d <= Len(s) /\ j - 1 \in 0 .. Len(s)
    BY <1>0
  <2>2. Stays(j - 1)
    BY <1>2, <2>1
  <2> HIDE DEF j
  <2>3. Upto(s, j) = Upto(s, j - 1) \o s[j] /\ s[j] \in Seq(S) /\ Upto(s, j - 1) \in Seq(S)
    BY <2>1, <1>0, FrontGrows, ElementOfSeq
  <2>4. /\ Len(Upto(s, j)) = Len(Upto(s, j - 1)) + Len(s[j]) /\ Len(s[j]) \in Nat
        /\ \A x \in 1 .. Len(Upto(s, j - 1)) : Upto(s, j)[x] = Upto(s, j - 1)[x]
    <3>1. Len(s[j]) \in Nat /\ Len(Upto(s, j - 1)) \in Nat
      BY <2>3, LenProperties
    <3> QED BY <2>3, <3>1, ConcatProperties
  <2>5. Len(Upto(s, k)) \in Nat /\ Len(Upto(s, j - 1)) \in Nat /\ Len(Upto(s, j)) \in Nat
    BY <1>0, <2>1
  <2>6. Stays(j)
    <3>1. Len(Upto(s, k)) <= Len(Upto(s, j))
      <4> DEFINE p == Len(Upto(s, k))
                 q == Len(Upto(s, j - 1))
                 r == Len(Upto(s, j))
      <4>1. p <= q /\ p \in Nat /\ q \in Nat
        BY <2>2, <2>5
      <4>2. \E l \in Nat : r = q + l
        BY <2>4
      <4> HIDE DEF p, q, r
      <4>3. p <= r
        BY <4>1, <4>2
      <4> QED BY <4>3 DEF p, r
    <3>2. ASSUME NEW x \in 1 .. Len(Upto(s, k)) PROVE Upto(s, j)[x] = Upto(s, k)[x]
      <4>1. x \in 1 .. Len(Upto(s, j - 1))
        BY <2>2, <2>5
      <4> QED BY <2>2, <2>4, <4>1
    <3> QED BY <3>1, <3>2
  <2> QED BY <2>6 DEF j
<1> HIDE DEF T
<1>3. m - k \in T
  <2>1. m - k \in Nat
    BY <1>0
  <2>2. \A d \in Nat : d \in T
    BY <1>1, <1>2, Induction
  <2> QED BY <2>1, <2>2
<1>4. Stays(m)
  <2>1. k + (m - k) = m /\ m <= Len(s)
    BY <1>0
  <2> QED BY <1>3, <2>1 DEF T
<1> QED BY <1>0, <1>4

(* Where the k-th element of s lies in the flattened sequence.             *)
LEMMA PieceAt ==
  ASSUME NEW S, NEW s \in Seq(Seq(S)), NEW k \in 1 .. Len(s)
  PROVE  LET before == Len(Upto(s, k - 1))
         IN /\ before \in Nat /\ Len(s[k]) \in Nat
            /\ Len(Upto(s, k)) = before + Len(s[k])
            /\ before + Len(s[k]) <= Len(FlattenSeq(s))
            /\ \A j \in 1 .. Len(s[k]) : FlattenSeq(s)[before + j] = s[k][j]
<1> DEFINE b == Len(Upto(s, k - 1))
           n == Len(s)
<1>1. /\ n \in Nat /\ k - 1 \in 0 .. n /\ k \in 0 .. n /\ n \in 0 .. n /\ FlattenSeq(s) = Upto(s, n)
      /\ Upto(s, k - 1) \in Seq(S) /\ s[k] \in Seq(S)
  BY FrontType, LenProperties, ElementOfSeq
<1>2. b \in Nat /\ Len(s[k]) \in Nat
  BY <1>1, LenProperties
<1>3. Upto(s, k) = Upto(s, k - 1) \o s[k]
  BY FrontGrows
<1>4. /\ Len(Upto(s, k)) = b + Len(s[k])
      /\ \A i \in 1 .. b + Len(s[k]) : Upto(s, k)[i] = IF i <= b THEN Upto(s, k - 1)[i] ELSE s[k][i - b]
  <2> DEFINE p == Upto(s, k - 1)
             q == s[k]
  <2>1. p \in Seq(S) /\ q \in Seq(S) /\ Upto(s, k) = p \o q
    BY <1>1, <1>3
  <2> HIDE DEF p, q
  <2>2. Len(p \o q) = Len(p) + Len(q)
        /\ \A i \in 1 .. Len(p) + Len(q) : (p \o q)[i] = IF i <= Len(p) THEN p[i] ELSE q[i - Len(p)]
    BY <2>1, ConcatProperties
  <2> QED BY <2>1, <2>2 DEF p, q
<1>5. /\ Len(Upto(s, k)) <= Len(Upto(s, n))
      /\ \A x \in 1 .. Len(Upto(s, k)) : Upto(s, n)[x] = Upto(s, k)[x]
  BY <1>1, FrontStays
<1> HIDE DEF b, n
<1>6. ASSUME NEW j \in 1 .. Len(s[k]) PROVE FlattenSeq(s)[b + j] = s[k][j]
  <2>1. b + j \in 1 .. b + Len(s[k]) /\ ~(b + j <= b) /\ (b + j) - b = j
    BY <1>2
  <2> QED BY <1>1, <1>4, <1>5, <2>1
<1> QED BY <1>1, <1>2, <1>4, <1>5, <1>6 DEF b

(* Elements of one length d: k of them are d * k long.                     *)
LEMMA EvenPieces ==
  ASSUME NEW S, NEW s \in Seq(Seq(S)), NEW d \in Nat, \A i \in 1 .. Len(s) : Len(s[i]) = d
  PROVE  \A k \in 0 .. Len(s) : Len(Upto(s, k)) = d * k
<1> DEFINE T == {k \in Nat : k \in 0 .. Len(s) => Len(Upto(s, k)) = d * k}
<1>1. 0 \in T
  <2>1. SubSeq(s, 1, 0) = <<>>
    BY SubSeqEmpty
  <2>2. Len(<<>>) = 0
    BY EmptySeq
  <2> QED BY <2>1, <2>2 DEF Upto, FlattenSeq
<1>2. ASSUME NEW k \in Nat, k \in T PROVE k + 1 \in T
  <2> SUFFICES ASSUME k + 1 \in 0 .. Len(s) PROVE Len(Upto(s, k + 1)) = d * (k + 1)
    OBVIOUS
  <2> DEFINE j == k + 1
  <2>1. j \in 1 .. Len(s) /\ j - 1 = k /\ Len(s) \in Nat /\ k \in 0 .. Len(s)
    BY LenProperties
  <2> HIDE DEF j
  <2>2. Len(Upto(s, j)) = Len(Upto(s, j - 1)) + Len(s[j])
    BY <2>1, PieceAt
  <2>3. Len(Upto(s, k)) = d * k
    BY <1>2, <2>1
  <2>4. Len(Upto(s, j)) = d * k + d
    BY <2>1, <2>2, <2>3
  <2> QED BY <2>4 DEF j
<1> HIDE DEF T
<1>3. \A k \in Nat : k \in T
  BY <1>1, <1>2, Induction
<1> QED BY <1>3 DEF T

(* A function on 1 .. n is a sequence of length n.                         *)
LEMMA Made ==
  ASSUME NEW S, NEW n \in Nat, NEW f \in [1 .. n -> S]
  PROVE  f \in Seq(S) /\ Len(f) = n /\ DOMAIN f = 1 .. n
OBVIOUS

(* Where the elements of two sequences are in the one made of them.        *)
LEMMA Joined ==
  ASSUME NEW S, NEW a \in Seq(S), NEW b \in Seq(S)
  PROVE  /\ a \o b \in Seq(S) /\ Len(a \o b) = Len(a) + Len(b)
         /\ Len(a) \in Nat /\ Len(b) \in Nat
         /\ \A x \in 1 .. Len(a) : (a \o b)[x] = a[x]
         /\ \A y \in 1 .. Len(b) : (a \o b)[Len(a) + y] = b[y]
<1>1. /\ a \o b \in Seq(S) /\ Len(a \o b) = Len(a) + Len(b)
      /\ \A i \in 1 .. Len(a) + Len(b) : (a \o b)[i] = IF i <= Len(a) THEN a[i] ELSE b[i - Len(a)]
  BY ConcatProperties
<1>2. Len(a) \in Nat /\ Len(b) \in Nat
  BY LenProperties
<1>3. ASSUME NEW x \in 1 .. Len(a) PROVE (a \o b)[x] = a[x]
  BY <1>1, <1>2
<1>4. ASSUME NEW y \in 1 .. Len(b) PROVE (a \o b)[Len(a) + y] = b[y]
  <2>1. Len(a) + y \in 1 .. Len(a) + Len(b) /\ ~(Len(a) + y <= Len(a)) /\ (Len(a) + y) - Len(a) = y
    BY <1>2
  <2> QED BY <1>1, <2>1
<1> QED BY <1>1, <1>2, <1>3, <1>4

(* Pieces of d elements each: where the j-th of the i-th piece is.         *)
LEMMA EvenPieceAt ==
  ASSUME NEW S, NEW s \in Seq(Seq(S)), NEW d \in Nat, \A i \in 1 .. Len(s) : Len(s[i]) = d
  PROVE  /\ FlattenSeq(s) \in Seq(S) /\ Len(FlattenSeq(s)) = d * Len(s)
         /\ \A i \in 1 .. Len(s) : \A j \in 1 .. d : FlattenSeq(s)[d * (i - 1) + j] = s[i][j]
<1>1. /\ FlattenSeq(s) = Upto(s, Len(s)) /\ Len(s) \in Nat
      /\ \A k \in 0 .. Len(s) : Upto(s, k) \in Seq(S) /\ Len(Upto(s, k)) = d * k
  BY FrontType, EvenPieces
<1>2. ASSUME NEW i \in 1 .. Len(s), NEW j \in 1 .. d
      PROVE  FlattenSeq(s)[d * (i - 1) + j] = s[i][j]
  <2>1. i - 1 \in 0 .. Len(s) /\ Len(s[i]) = d
    BY <1>1
  <2>2. Len(Upto(s, i - 1)) = d * (i - 1)
    BY <1>1, <2>1
  <2>3. FlattenSeq(s)[Len(Upto(s, i - 1)) + j] = s[i][j]
    BY <2>1, PieceAt
  <2> QED BY <2>2, <2>3
<1> QED BY <1>1, <1>2

(* PieceAt for all elements at once.                                       *)
LEMMA PiecesAre ==
  ASSUME NEW S
  PROVE  \A s \in Seq(Seq(S)) : \A i \in 1 .. Len(s) :
           /\ Len(Upto(s, i - 1)) \in Nat /\ Len(s[i]) \in Nat
           /\ Len(Upto(s, i - 1)) + Len(s[i]) <= Len(FlattenSeq(s))
           /\ \A j \in 1 .. Len(s[i]) : FlattenSeq(s)[Len(Upto(s, i - 1)) + j] = s[i][j]
<1> SUFFICES ASSUME NEW s \in Seq(Seq(S)), NEW i \in 1 .. Len(s)
             PROVE  /\ Len(Upto(s, i - 1)) \in Nat /\ Len(s[i]) \in Nat
                    /\ Len(Upto(s, i - 1)) + Len(s[i]) <= Len(FlattenSeq(s))
                    /\ \A j \in 1 .. Len(s[i]) : FlattenSeq(s)[Len(Upto(s, i - 1)) + j] = s[i][j]
  OBVIOUS
<1> QED BY PieceAt, Zenon

(* EvenPieceAt for header entries and actions, which have four bytes.      *)
LEMMA QuadAt ==
  ASSUME NEW S, NEW s \in Seq(Seq(S)), \A i \in 1 .. Len(s) : Len(s[i]) = 4
  PROVE  /\ FlattenSeq(s) \in Seq(S) /\ Len(FlattenSeq(s)) = 4 * Len(s)
         /\ \A i \in 1 .. Len(s) : \A j \in 1 .. 4 : FlattenSeq(s)[4 * (i - 1) + j] = s[i][j]
<1> DEFINE d == 4
<1>1. d \in Nat /\ \A i \in 1 .. Len(s) : Len(s[i]) = d
  OBVIOUS
<1> HIDE DEF d
<1>2. /\ FlattenSeq(s) \in Seq(S) /\ Len(FlattenSeq(s)) = d * Len(s)
      /\ \A i \in 1 .. Len(s) : \A j \in 1 .. d : FlattenSeq(s)[d * (i - 1) + j] = s[i][j]
  BY <1>1, EvenPieceAt
<1> QED BY <1>2 DEF d

-----------------------------------------------------------------------------
(* The twenty bits of a delay are spread over three bytes and come back as *)
(* they were.                                                              *)
LEMMA DelayBytes ==
  ASSUME NEW d \in 0 .. (2^20 - 1)
  PROVE  LET h == (d \div 2^16) % 16
             m == (d \div 2^8) % 256
             l == d % 256
         IN h \in 0 .. 15 /\ m \in Byte /\ l \in Byte /\ h * 2^16 + m * 2^8 + l = d
<1> DEFINE q == d \div 2^8
           r == d \div 2^16
           p == q \div 2^8
           h == r % 16
           m == q % 256
           l == d % 256
<1>1. q \in Nat /\ l \in 0 .. 255 /\ d = 256 * q + l
  OBVIOUS
<1>2. p \in Nat /\ m \in 0 .. 255 /\ q = 256 * p + m
  BY <1>1
<1>3. r \in Nat /\ 65536 * r <= d /\ d < 65536 * r + 65536 /\ h = r % 16
  OBVIOUS
<1> HIDE DEF q, r, p, h, m, l
<1>4. p = r
  BY <1>1, <1>2, <1>3
<1>5. r < 16
  BY <1>3
<1>6. h = r
  BY <1>3, <1>5
<1>7. h \in 0 .. 15 /\ m \in Byte /\ l \in Byte /\ h * 2^16 + m * 2^8 + l = d
  BY <1>1, <1>2, <1>3, <1>4, <1>5, <1>6 DEF Byte
<1> QED BY <1>7 DEF q, r, h, m, l

(* Edge, kind, delay and key of an action share four bytes, and decoding   *)
(* gives each of them back: MacroAction::decode undoes encode.             *)
THEOREM ActionDecodes ==
  ASSUME NEW a \in Actions
  PROVE  DecodeAction(EncodeAction(a)) = a
<1> DEFINE e == a.edge
           k == a.kind
           d == a.delay
           h == (d \div 2^16) % 16
           m == (d \div 2^8) % 256
           l == d % 256
           b == e * 128 + k * 16 + h
<1>1. /\ e \in 0 .. 1 /\ k \in 0 .. 5 /\ d \in 0 .. (2^20 - 1)
      /\ a = [edge |-> e, kind |-> k, delay |-> d, key |-> a.key]
  BY DEF Actions, Edges, Kinds, DelayLimit
<1>2. EncodeAction(a) = <<b, m, l, a.key>>
  BY DEF EncodeAction
<1> HIDE DEF e, k, d
<1>3. h \in 0 .. 15 /\ m \in Byte /\ l \in Byte /\ h * 2^16 + m * 2^8 + l = d
  BY <1>1, DelayBytes
<1> HIDE DEF h, m, l
<1>4. b \div 128 = e /\ (b \div 16) % 8 = k /\ b % 16 = h
  BY <1>1, <1>3
<1> HIDE DEF b
<1>5. DecodeAction(<<b, m, l, a.key>>) =
        [edge |-> b \div 128, kind |-> (b \div 16) % 8,
         delay |-> (b % 16) * 2^16 + m * 2^8 + l, key |-> a.key]
  BY DEF DecodeAction, KindOf
<1> QED BY <1>1, <1>2, <1>3, <1>4, <1>5

(* An action is four bytes.                                                *)
LEMMA ActionBytes ==
  ASSUME NEW a \in Actions
  PROVE  EncodeAction(a) \in Seq(Byte) /\ Len(EncodeAction(a)) = 4
<1> DEFINE e == a.edge
           k == a.kind
           d == a.delay
           h == (d \div 2^16) % 16
           m == (d \div 2^8) % 256
           l == d % 256
           b == e * 128 + k * 16 + h
<1>1. e \in 0 .. 1 /\ k \in 0 .. 5 /\ d \in 0 .. (2^20 - 1) /\ a.key \in Byte
  BY DEF Actions, Edges, Kinds, DelayLimit
<1>2. EncodeAction(a) = <<b, m, l, a.key>>
  BY DEF EncodeAction
<1> HIDE DEF e, k, d
<1>3. h \in 0 .. 15 /\ m \in Byte /\ l \in Byte
  BY <1>1, DelayBytes
<1> HIDE DEF h, m, l
<1>4. b \in Byte
  BY <1>1, <1>3 DEF Byte
<1> HIDE DEF b
<1> QED BY <1>1, <1>2, <1>3, <1>4

(* Units and bytes as bounds.                                              *)
LEMMA Ranges ==
  /\ \A x : x \in Unit <=> x \in Nat /\ x < 65536
  /\ \A x : x \in Byte <=> x \in Nat /\ x < 256
BY DEF Unit, Byte

(* Two bytes of a number, low first, and the number of two bytes.          *)
LEMMA LowHigh ==
  ASSUME NEW x \in Nat, x < 65536
  PROVE  x % 256 \in Byte /\ x \div 256 \in Byte /\ (x \div 256) % 256 = x \div 256
         /\ (x % 256) + 256 * (x \div 256) = x
<1> DEFINE q == x \div 256
           r == x % 256
<1>1. q \in Nat /\ r \in Nat /\ r < 256 /\ x = 256 * q + r
  OBVIOUS
<1> HIDE DEF q, r
<1>2. q < 256
  BY <1>1
<1>3. q % 256 = q /\ r + 256 * q = x
  BY <1>1, <1>2
<1>4. r \in Byte /\ q \in Byte /\ q % 256 = q /\ r + 256 * q = x
  BY <1>1, <1>2, <1>3, Ranges
<1> QED BY <1>4 DEF q, r

(* The positions of the low and the high bytes of n units.                 *)
LEMMA EvenOdd ==
  ASSUME NEW n \in Nat
  PROVE  /\ \A i \in 1 .. n :
              /\ 2 * i - 1 \in 1 .. 2 * n /\ (2 * i - 1) % 2 = 1 /\ ((2 * i - 1) + 1) \div 2 = i
              /\ 2 * i \in 1 .. 2 * n /\ (2 * i) % 2 = 0 /\ (2 * i) \div 2 = i
         /\ \A k \in 1 .. 2 * n : IF k % 2 = 1 THEN (k + 1) \div 2 \in 1 .. n ELSE k \div 2 \in 1 .. n
OBVIOUS

(* The bytes of a name. *)
LEMMA NameBytesAre ==
  ASSUME NEW name \in Seq(Unit)
  PROVE  /\ NameBytes(name) \in Seq(Byte) /\ Len(NameBytes(name)) = 2 * Len(name)
         /\ \A i \in 1 .. Len(name) :
              NameBytes(name)[2 * i - 1] = name[i] % 256 /\ NameBytes(name)[2 * i] = name[i] \div 256
<1> DEFINE n == Len(name)
<1>1. n \in Nat
  BY LenProperties
<1>2. \A i \in 1 .. n : name[i] % 256 \in Byte /\ name[i] \div 256 \in Byte
  <2> SUFFICES ASSUME NEW i \in 1 .. n
               PROVE  name[i] % 256 \in Byte /\ name[i] \div 256 \in Byte
    OBVIOUS
  <2>1. name[i] \in Unit
    BY ElementOfSeq
  <2>2. name[i] \in Nat /\ name[i] < 65536
    BY <2>1, Ranges
  <2> QED BY <2>2, LowHigh
<1> HIDE DEF n
<1>3. ASSUME NEW k \in 1 .. 2 * n
      PROVE  (IF k % 2 = 1 THEN name[(k + 1) \div 2] % 256 ELSE name[k \div 2] \div 256) \in Byte
  <2>1. IF k % 2 = 1 THEN (k + 1) \div 2 \in 1 .. n ELSE k \div 2 \in 1 .. n
    BY <1>1, EvenOdd
  <2> QED BY <1>2, <2>1
<1>4. NameBytes(name) \in [1 .. 2 * n -> Byte]
  BY <1>3 DEF NameBytes, n
<1>5. ASSUME NEW i \in 1 .. n
      PROVE  NameBytes(name)[2 * i - 1] = name[i] % 256 /\ NameBytes(name)[2 * i] = name[i] \div 256
  <2>1. /\ 2 * i - 1 \in 1 .. 2 * n /\ (2 * i - 1) % 2 = 1 /\ ((2 * i - 1) + 1) \div 2 = i
        /\ 2 * i \in 1 .. 2 * n /\ (2 * i) % 2 = 0 /\ (2 * i) \div 2 = i
    BY <1>1, EvenOdd
  <2> QED BY <2>1 DEF NameBytes, n
<1>6. NameBytes(name) \in Seq(Byte) /\ Len(NameBytes(name)) = 2 * n
  <2>1. 2 * n \in Nat
    BY <1>1
  <2> QED BY <1>4, <2>1, Made
<1> QED BY <1>5, <1>6 DEF n

(* A record byte by byte: length, name, actions.                           *)
LEMMA RecordShape ==
  ASSUME NEW m \in Macros, Len(m.name) <= NameLimit
  PROVE  LET n == Len(m.name)
             k == Len(m.actions)
             r == Record(m)
         IN /\ n \in Nat /\ k \in Nat
            /\ r \in Seq(Byte) /\ Len(r) = 1 + 2 * n + 4 * k /\ r[1] = 2 * n
            /\ \A i \in 1 .. n : r[2 * i] = m.name[i] % 256 /\ r[2 * i + 1] = m.name[i] \div 256
            /\ \A i \in 1 .. k : \A j \in 1 .. 4 :
                 r[1 + 2 * n + (4 * (i - 1) + j)] = EncodeAction(m.actions[i])[j]
<1> DEFINE n == Len(m.name)
           k == Len(m.actions)
           names == NameBytes(m.name)
           codes == [i \in DOMAIN m.actions |-> EncodeAction(m.actions[i])]
           body == FlattenSeq(codes)
           head == <<2 * n>>
           front == head \o names
<1>1. /\ m.name \in Seq(Unit) /\ m.actions \in Seq(Actions)
      /\ n \in Nat /\ n <= 127 /\ k \in Nat /\ DOMAIN m.actions = 1 .. k
  <2>1. m.name \in Seq(Unit) /\ m.actions \in Seq(Actions)
    BY DEF Macros
  <2> QED BY <2>1, LenProperties DEF NameLimit
<1>2. /\ codes \in Seq(Seq(Byte)) /\ Len(codes) = k
      /\ \A i \in 1 .. k : codes[i] = EncodeAction(m.actions[i]) /\ Len(codes[i]) = 4
  <2>1. \A i \in 1 .. k : EncodeAction(m.actions[i]) \in Seq(Byte) /\ Len(EncodeAction(m.actions[i])) = 4
    BY <1>1, ElementOfSeq, ActionBytes
  <2>2. codes \in [1 .. k -> Seq(Byte)]
    BY <1>1, <2>1
  <2> QED BY <1>1, <2>1, <2>2, Made
<1>3. Record(m) = front \o body
  <2>1. \A y \in Nat : y <= 127 => (2 * y) % 256 = 2 * y
    OBVIOUS
  <2>2. (2 * n) % 256 = 2 * n
    <3> HIDE DEF n
    <3> QED BY <1>1, <2>1
  <2> QED BY <2>2 DEF Record
<1>4. /\ names \in Seq(Byte) /\ Len(names) = 2 * n
      /\ \A i \in 1 .. n : names[2 * i - 1] = m.name[i] % 256 /\ names[2 * i] = m.name[i] \div 256
  BY <1>1, NameBytesAre
<1>5. head \in Seq(Byte) /\ Len(head) = 1 /\ head[1] = 2 * n
  <2>1. 2 * n \in Byte
    BY <1>1, Ranges
  <2> QED BY <2>1
<1> HIDE DEF codes, names, head, n, k
<1>6. /\ body \in Seq(Byte) /\ Len(body) = 4 * k
      /\ \A i \in 1 .. k : \A j \in 1 .. 4 : body[4 * (i - 1) + j] = EncodeAction(m.actions[i])[j]
  <2>1. codes \in Seq(Seq(Byte)) /\ \A i \in 1 .. Len(codes) : Len(codes[i]) = 4
    BY <1>2
  <2>2. /\ FlattenSeq(codes) \in Seq(Byte) /\ Len(FlattenSeq(codes)) = 4 * Len(codes)
        /\ \A i \in 1 .. Len(codes) : \A j \in 1 .. 4 : FlattenSeq(codes)[4 * (i - 1) + j] = codes[i][j]
    BY <2>1, QuadAt
  <2> QED BY <1>2, <2>2
<1> HIDE DEF body
<1>7. /\ front \in Seq(Byte) /\ Len(front) = 1 + 2 * n /\ front[1] = 2 * n
      /\ \A x \in 1 .. 2 * n : front[x + 1] = names[x]
  <2>1. head \in Seq(Byte) /\ names \in Seq(Byte)
    BY <1>4, <1>5
  <2>2. /\ front \in Seq(Byte) /\ Len(front) = Len(head) + Len(names)
        /\ \A x \in 1 .. Len(head) : front[x] = head[x]
        /\ \A x \in 1 .. Len(names) : front[Len(head) + x] = names[x]
    BY <2>1, Joined
  <2>3. 1 \in 1 .. Len(head)
    BY <1>5
  <2> HIDE DEF front
  <2> QED BY <1>1, <1>4, <1>5, <2>2, <2>3
<1> HIDE DEF front
<1>8. /\ front \o body \in Seq(Byte) /\ Len(front \o body) = 1 + 2 * n + 4 * k
      /\ \A x \in 1 .. 1 + 2 * n : (front \o body)[x] = front[x]
      /\ \A y \in 1 .. 4 * k : (front \o body)[(1 + 2 * n) + y] = body[y]
  <2>1. front \in Seq(Byte) /\ body \in Seq(Byte)
    BY <1>6, <1>7
  <2>2. /\ front \o body \in Seq(Byte) /\ Len(front \o body) = Len(front) + Len(body)
        /\ \A x \in 1 .. Len(front) : (front \o body)[x] = front[x]
        /\ \A y \in 1 .. Len(body) : (front \o body)[Len(front) + y] = body[y]
    BY <2>1, Joined
  <2> QED BY <1>6, <1>7, <2>2
<1>9. ASSUME NEW i \in 1 .. n
      PROVE  Record(m)[2 * i] = m.name[i] % 256 /\ Record(m)[2 * i + 1] = m.name[i] \div 256
  <2>1. /\ 2 * i - 1 \in 1 .. 2 * n /\ (2 * i - 1) + 1 = 2 * i /\ 2 * i \in 1 .. 2 * n
        /\ 2 * i \in 1 .. 1 + 2 * n /\ 2 * i + 1 \in 1 .. 1 + 2 * n
    BY <1>1
  <2>2. front[2 * i] = names[2 * i - 1] /\ front[2 * i + 1] = names[2 * i]
    BY <1>7, <2>1
  <2>3. (front \o body)[2 * i] = front[2 * i] /\ (front \o body)[2 * i + 1] = front[2 * i + 1]
    BY <1>8, <2>1
  <2> QED BY <1>3, <1>4, <2>2, <2>3
<1>10. ASSUME NEW i \in 1 .. k, NEW j \in 1 .. 4
       PROVE  Record(m)[1 + 2 * n + (4 * (i - 1) + j)] = EncodeAction(m.actions[i])[j]
  <2>1. 4 * (i - 1) + j \in 1 .. 4 * k
    BY <1>1
  <2> QED BY <1>3, <1>6, <1>8, <2>1
<1>11. Record(m)[1] = 2 * n
  <2>1. 1 \in 1 .. 1 + 2 * n
    BY <1>1
  <2> QED BY <1>3, <1>7, <1>8, <2>1
<1> QED BY <1>1, <1>3, <1>8, <1>9, <1>10, <1>11 DEF n, k

(* A record is a sequence of bytes and never empty.                        *)
LEMMA RecordBytes ==
  ASSUME NEW m \in Macros, Len(m.name) <= NameLimit
  PROVE  Record(m) \in Seq(Byte) /\ Len(Record(m)) \in Nat \ {0}
<1> DEFINE n == Len(m.name)
           k == Len(m.actions)
<1>1. n \in Nat /\ k \in Nat /\ Record(m) \in Seq(Byte) /\ Len(Record(m)) = 1 + 2 * n + 4 * k
  BY RecordShape
<1> HIDE DEF n, k
<1> QED BY <1>1

(* Reading a record gives back the macro it was made of.                   *)
THEOREM RecordDecodes ==
  ASSUME NEW m \in Macros, Len(m.name) <= NameLimit, WellFormed(m.name)
  PROVE  MacroOf(Record(m)) = m
<1> DEFINE r == Record(m)
           n == Len(m.name)
           k == Len(m.actions)
           rest == SubSeq(r, 2 * n + 2, Len(r))
<1>1. /\ m.name \in [1 .. n -> Unit] /\ m.actions \in [1 .. k -> Actions]
      /\ m = [name |-> m.name, actions |-> m.actions]
  <2>1. m.name \in Seq(Unit) /\ m.actions \in Seq(Actions)
        /\ m = [name |-> m.name, actions |-> m.actions]
    BY DEF Macros
  <2> QED BY <2>1, LenProperties
<1>2. /\ n \in Nat /\ k \in Nat
      /\ r \in Seq(Byte) /\ Len(r) = 1 + 2 * n + 4 * k /\ r[1] = 2 * n
      /\ \A i \in 1 .. n : r[2 * i] = m.name[i] % 256 /\ r[2 * i + 1] = m.name[i] \div 256
      /\ \A i \in 1 .. k : \A j \in 1 .. 4 :
           r[1 + 2 * n + (4 * (i - 1) + j)] = EncodeAction(m.actions[i])[j]
  BY RecordShape
<1> HIDE DEF r, n, k
<1>3. [i \in 1 .. n |-> Pair(r, 2 * i)] = m.name
  <2>1. ASSUME NEW i \in 1 .. n PROVE Pair(r, 2 * i) = m.name[i]
    <3>1. m.name[i] \in Nat /\ m.name[i] < 65536
      <4>1. m.name[i] \in Unit
        BY <1>1
      <4> QED BY <4>1, Ranges
    <3>2. (m.name[i] % 256) + 256 * (m.name[i] \div 256) = m.name[i]
      BY <3>1, LowHigh
    <3> QED BY <1>2, <3>2 DEF Pair
  <2> QED BY <1>1, <2>1
<1>4. /\ rest \in Seq(Byte) /\ Len(rest) = 4 * k
      /\ \A y \in 1 .. 4 * k : rest[y] = r[1 + 2 * n + y]
  <2> DEFINE a == 2 * n + 2
             b == Len(r)
  <2>1. a \in Int /\ b \in Int /\ b - a + 1 = 4 * k /\ (a <= b \/ b - a + 1 = 0)
        /\ \A i \in a .. b : r[i] \in Byte
    BY <1>2, ElementOfSeq
  <2>2. \A y : y \in 1 .. 4 * k => a + y - 1 = 1 + 2 * n + y
    BY <1>2
  <2> HIDE DEF a, b
  <2>3. /\ SubSeq(r, a, b) \in Seq(Byte)
        /\ Len(SubSeq(r, a, b)) = IF a <= b THEN b - a + 1 ELSE 0
        /\ \A i \in 1 .. b - a + 1 : SubSeq(r, a, b)[i] = r[a + i - 1]
    BY <2>1, SubSeqProperties
  <2> QED BY <2>1, <2>2, <2>3 DEF a, b
<1> HIDE DEF rest
<1>5. ASSUME NEW i \in 1 .. k
      PROVE  Quad(rest, i) = EncodeAction(m.actions[i]) /\ m.actions[i] \in Actions
  <2> DEFINE q == SubSeq(rest, 4 * i - 3, 4 * i)
             e == EncodeAction(m.actions[i])
  <2>1. m.actions[i] \in Actions
    BY <1>1
  <2>2. e \in Seq(Byte) /\ Len(e) = 4
    BY <2>1, ActionBytes
  <2>3. q \in Seq(Byte) /\ Len(q) = 4 /\ \A j \in 1 .. 4 : q[j] = rest[4 * i - 3 + j - 1]
    <3>1. 4 * i - 3 \in Int /\ 4 * i \in Int /\ 4 * i - 3 <= 4 * i /\ 4 * i - (4 * i - 3) + 1 = 4
          /\ \A x \in 4 * i - 3 .. 4 * i : x \in 1 .. 4 * k
      BY <1>2
    <3>2. \A x \in 4 * i - 3 .. 4 * i : rest[x] \in Byte
      BY <1>4, <3>1, ElementOfSeq
    <3> DEFINE a == 4 * i - 3
               b == 4 * i
    <3>3. a \in Int /\ b \in Int /\ a <= b /\ b - a + 1 = 4 /\ \A x \in a .. b : rest[x] \in Byte
      BY <3>1, <3>2
    <3> HIDE DEF a, b
    <3>4. /\ SubSeq(rest, a, b) \in Seq(Byte)
          /\ Len(SubSeq(rest, a, b)) = IF a <= b THEN b - a + 1 ELSE 0
          /\ \A j \in 1 .. b - a + 1 : SubSeq(rest, a, b)[j] = rest[a + j - 1]
      BY <3>3, SubSeqProperties
    <3> QED BY <3>3, <3>4 DEF a, b
  <2>4. ASSUME NEW j \in 1 .. 4 PROVE q[j] = e[j]
    <3>1. 4 * i - 3 + j - 1 = 4 * (i - 1) + j /\ 4 * (i - 1) + j \in 1 .. 4 * k
      BY <1>2
    <3>2. q[j] = rest[4 * (i - 1) + j]
      BY <2>3, <3>1
    <3>3. q[j] = r[1 + 2 * n + (4 * (i - 1) + j)]
      BY <1>4, <3>1, <3>2
    <3> QED BY <1>2, <3>3
  <2> HIDE DEF q, e
  <2>5. q = e
    BY <2>2, <2>3, <2>4, SeqEqual
  <2> QED BY <2>1, <2>5 DEF q, e, Quad
<1>6. ASSUME NEW i \in 1 .. k
      PROVE  KindOf(Quad(rest, i)) \in Kinds /\ DecodeAction(Quad(rest, i)) = m.actions[i]
  <2>1. DecodeAction(EncodeAction(m.actions[i])) = m.actions[i] /\ m.actions[i] \in Actions
    BY <1>5, ActionDecodes
  <2>2. m.actions[i].kind \in Kinds
    BY <2>1 DEF Actions
  <2>3. KindOf(Quad(rest, i)) = DecodeAction(Quad(rest, i)).kind
    BY DEF DecodeAction
  <2> QED BY <1>5, <2>1, <2>2, <2>3
<1>7. [i \in 1 .. k |-> DecodeAction(Quad(rest, i))] = m.actions
  BY <1>1, <1>6
<1>8. (2 * n) \div 2 = n /\ Len(rest) \div 4 = k /\ 2 * n + 2 = r[1] + 2 /\ 1 + r[1] <= Len(r)
  BY <1>2, <1>4
<1>9. r # <<>>
  BY <1>2, EmptySeq
<1>10. MacroOf(r) = [name |-> [i \in 1 .. n |-> Pair(r, 2 * i)],
                     actions |-> [i \in 1 .. k |-> DecodeAction(Quad(rest, i))]]
  <2> DEFINE name == [i \in 1 .. n |-> Pair(r, 2 * i)]
             steps == 1 .. k
  <2>1. r[1] \div 2 = n /\ Len(rest) \div 4 = k /\ rest = SubSeq(r, r[1] + 2, Len(r))
    BY <1>2, <1>8 DEF rest
  <2>2. WellFormed(name)
    BY <1>3
  <2> HIDE DEF name, steps
  <2> DEFINE f == [i \in 1 .. r[1] \div 2 |-> Pair(r, 2 * i)]
             t == SubSeq(r, r[1] + 2, Len(r))
             s == 1 .. Len(t) \div 4
  <2>3. f = name /\ t = rest /\ s = 1 .. k
    BY <2>1 DEF name
  <2>4. MacroOf(r) = IF /\ r # <<>> /\ 1 + r[1] <= Len(r)
                        /\ WellFormed(f)
                        /\ \A i \in s : KindOf(Quad(t, i)) \in Kinds
                       THEN [name |-> f, actions |-> [i \in s |-> DecodeAction(Quad(t, i))]]
                       ELSE NoMacro
    BY DEF MacroOf
  <2> HIDE DEF f, t, s
  <2>5. MacroOf(r) = [name |-> f, actions |-> [i \in s |-> DecodeAction(Quad(t, i))]]
    BY <1>6, <1>8, <1>9, <2>2, <2>3, <2>4
  <2> QED BY <2>3, <2>5 DEF name
<1> QED BY <1>1, <1>3, <1>7, <1>10 DEF r

-----------------------------------------------------------------------------
(* A number below OffsetLimit comes back from its two bytes.               *)
LEMMA TwoBytes ==
  ASSUME NEW x \in Nat
  PROVE  /\ x % 256 \in Byte /\ (x \div 256) % 256 \in Byte
         /\ x < OffsetLimit => (x % 256) + 256 * ((x \div 256) % 256) = x
<1>1. x % 256 \in Byte /\ x \div 256 \in Nat
  BY DEF Byte
<1>2. \A y \in Nat : y % 256 \in Byte
  BY DEF Byte
<1>3. x < OffsetLimit => (x % 256) + 256 * ((x \div 256) % 256) = x
  <2>1. x < OffsetLimit => /\ (x \div 256) % 256 = x \div 256 /\ (x % 256) + 256 * (x \div 256) = x
    BY LowHigh DEF OffsetLimit
  <2> QED BY <2>1
<1> QED BY <1>1, <1>2, <1>3

(* The lists of ListsAssumption.                                           *)
Serializable(l) ==
  /\ l \in Seq(Macros)
  /\ \A i \in DOMAIN l : WellFormed(l[i].name) /\ Len(l[i].name) <= NameLimit

(* What EncodeTable gives: the first header entry counts the entries, and  *)
(* each entry points to its record, which is there whole.                  *)
LEMMA TableShape ==
  ASSUME NEW l, Serializable(l), Len(EncodeTable(l)) < OffsetLimit
  PROVE  LET n == Len(l)
             t == EncodeTable(l)
         IN /\ n \in Nat /\ DOMAIN l = 1 .. n
            /\ t \in Seq(Byte) /\ Len(t) \in Nat /\ 4 * n <= Len(t)
            /\ n # 0 => Pair(t, 1) = 4 * n
            /\ \A i \in 1 .. n :
                 LET s == Pair(t, 4 * i - 3)
                     r == Record(l[i])
                 IN /\ s \in Nat /\ 4 * n <= s /\ Len(r) \in Nat \ {0} /\ s + Len(r) <= Len(t)
                    /\ Pair(t, 4 * i - 1) = Len(r)
                    /\ \A j \in 1 .. Len(r) : t[s + j] = r[j]
<1> DEFINE n == Len(l)
           t == EncodeTable(l)
           records == [i \in DOMAIN l |-> Record(l[i])]
           st(i) == 4 * n + Len(Upto(records, i - 1))
           len(i) == Len(records[i])
           entry(i) == <<st(i) % 256, (st(i) \div 256) % 256, len(i) % 256, (len(i) \div 256) % 256>>
           entries == [i \in DOMAIN l |-> entry(i)]
           front == FlattenSeq(entries)
           body == FlattenSeq(records)
<1>1. n \in Nat /\ DOMAIN l = 1 .. n /\ \A i \in 1 .. n : l[i] \in Macros
  BY LenProperties, ElementOfSeq DEF Serializable
<1>2. \A i \in 1 .. n : Record(l[i]) \in Seq(Byte) /\ Len(Record(l[i])) \in Nat \ {0}
  <2> SUFFICES ASSUME NEW i \in 1 .. n
               PROVE  Record(l[i]) \in Seq(Byte) /\ Len(Record(l[i])) \in Nat \ {0}
    OBVIOUS
  <2> DEFINE m == l[i]
  <2>1. m \in Macros /\ Len(m.name) <= NameLimit
    BY <1>1 DEF Serializable
  <2> HIDE DEF m
  <2>3. Record(m) \in Seq(Byte) /\ Len(Record(m)) \in Nat \ {0}
    BY <2>1, RecordBytes
  <2> QED BY <2>3 DEF m
<1>3. records \in Seq(Seq(Byte)) /\ Len(records) = n /\ \A i \in 1 .. n : records[i] = Record(l[i])
  <2>1. records \in [1 .. n -> Seq(Byte)]
    BY <1>1, <1>2
  <2> QED BY <1>1, <2>1, Made
<1>4. t = front \o body
  <2>1. \A i \in DOMAIN l : Start(records)[i] = st(i)
    BY <1>1, <1>3 DEF Start, Upto
  <2> DEFINE listed == [i \in DOMAIN l |->
                     <<Start(records)[i] % 256, (Start(records)[i] \div 256) % 256,
                       Len(records[i]) % 256, (Len(records[i]) \div 256) % 256>>]
  <2>2. entries = listed
    BY <2>1
  <2>3. t = FlattenSeq(listed) \o FlattenSeq(records)
    BY DEF EncodeTable
  <2> HIDE DEF entries, records, t, listed
  <2> QED BY <2>2, <2>3
<1> HIDE DEF records, n, t
<1>5. \A i \in 1 .. n : st(i) \in Nat /\ len(i) \in Nat
  <2> SUFFICES ASSUME NEW i \in 1 .. n PROVE st(i) \in Nat /\ len(i) \in Nat
    OBVIOUS
  <2>1. Len(Upto(records, i - 1)) \in Nat /\ Len(records[i]) \in Nat
    BY <1>3, PieceAt
  <2> QED BY <1>1, <2>1
<1> HIDE DEF st, len
<1>6. entries \in Seq(Seq(Byte)) /\ Len(entries) = n
      /\ \A i \in 1 .. n : entries[i] = entry(i) /\ Len(entries[i]) = 4
  <2>1. ASSUME NEW i \in 1 .. n PROVE entry(i) \in Seq(Byte) /\ Len(entry(i)) = 4
    <3>1. /\ st(i) % 256 \in Byte /\ (st(i) \div 256) % 256 \in Byte
          /\ len(i) % 256 \in Byte /\ (len(i) \div 256) % 256 \in Byte
      BY <1>5, TwoBytes
    <3> QED BY <3>1
  <2>2. entries \in [1 .. n -> Seq(Byte)]
    BY <1>1, <2>1
  <2>3. entries \in Seq(Seq(Byte)) /\ Len(entries) = n
    BY <1>1, <2>2, Made
  <2>4. \A i \in 1 .. n : entries[i] = entry(i)
    BY <1>1
  <2> HIDE DEF entries, entry
  <2> QED BY <2>1, <2>3, <2>4
<1> HIDE DEF entries
<1>7. /\ front \in Seq(Byte) /\ Len(front) = 4 * n
      /\ \A i \in 1 .. n : \A j \in 1 .. 4 : front[4 * (i - 1) + j] = entry(i)[j]
  <2>1. entries \in Seq(Seq(Byte)) /\ \A i \in 1 .. Len(entries) : Len(entries[i]) = 4
    BY <1>6
  <2>2. /\ FlattenSeq(entries) \in Seq(Byte) /\ Len(FlattenSeq(entries)) = 4 * Len(entries)
        /\ \A i \in 1 .. Len(entries) : \A j \in 1 .. 4 : FlattenSeq(entries)[4 * (i - 1) + j] = entries[i][j]
    BY <2>1, QuadAt
  <2> QED BY <1>6, <2>2
<1>8. body \in Seq(Byte) /\ Len(body) \in Nat
  BY <1>3, FrontType, LenProperties
<1> HIDE DEF front
<1>9. /\ t \in Seq(Byte) /\ Len(t) = 4 * n + Len(body)
      /\ \A x \in 1 .. 4 * n : t[x] = front[x]
      /\ \A y \in 1 .. Len(body) : t[4 * n + y] = body[y]
  <2> HIDE DEF body
  <2>1. front \in Seq(Byte) /\ body \in Seq(Byte)
    BY <1>7, <1>8
  <2>2. /\ front \o body \in Seq(Byte) /\ Len(front \o body) = Len(front) + Len(body)
        /\ \A x \in 1 .. Len(front) : (front \o body)[x] = front[x]
        /\ \A y \in 1 .. Len(body) : (front \o body)[Len(front) + y] = body[y]
    BY <2>1, Joined
  <2> QED BY <1>4, <1>7, <2>2
<1>10. ASSUME NEW i \in 1 .. n
       PROVE  /\ st(i) \in Nat /\ 4 * n <= st(i) /\ len(i) \in Nat \ {0} /\ st(i) + len(i) <= Len(t)
              /\ Pair(t, 4 * i - 3) = st(i) /\ Pair(t, 4 * i - 1) = len(i)
              /\ \A j \in 1 .. len(i) : t[st(i) + j] = records[i][j]
  <2> DEFINE b == Len(Upto(records, i - 1))
  <2>1. /\ b \in Nat /\ b + len(i) <= Len(body) /\ len(i) \in Nat
        /\ \A j \in 1 .. len(i) : body[b + j] = records[i][j]
    <3> HIDE DEF b, entry, body
    <3>1. i \in 1 .. Len(records)
      BY <1>3
    <3>2. records \in Seq(Seq(Byte))
      BY <1>3
    <3>3. \A h \in 1 .. Len(records) :
            /\ Len(Upto(records, h - 1)) \in Nat /\ Len(records[h]) \in Nat
            /\ Len(Upto(records, h - 1)) + Len(records[h]) <= Len(FlattenSeq(records))
            /\ \A j \in 1 .. Len(records[h]) : FlattenSeq(records)[Len(Upto(records, h - 1)) + j] = records[h][j]
      BY <3>2, PiecesAre
    <3> QED BY <3>1, <3>3 DEF len, b, body
  <2>2. st(i) = 4 * n + b
    BY DEF st
  <2>3. len(i) # 0
    BY <1>2, <1>3 DEF len
  <2> HIDE DEF b, body
  <2>4. /\ st(i) \in Nat /\ 4 * n <= st(i) /\ st(i) + len(i) <= Len(t)
        /\ st(i) < OffsetLimit /\ len(i) < OffsetLimit
    <3>1. Len(t) < OffsetLimit
      BY DEF t
    <3>2. OffsetLimit \in Nat
      BY DEF OffsetLimit
    <3> QED BY <1>1, <1>8, <1>9, <2>1, <2>2, <3>1, <3>2
  <2>5. \A j \in 1 .. len(i) : t[st(i) + j] = records[i][j]
    <3> SUFFICES ASSUME NEW j \in 1 .. len(i) PROVE t[st(i) + j] = records[i][j]
      OBVIOUS
    <3>1. b + j \in 1 .. Len(body) /\ st(i) + j = 4 * n + (b + j)
      BY <1>1, <1>8, <2>1, <2>2
    <3> QED BY <1>9, <2>1, <3>1
  <2>6. \A j \in 1 .. 4 : t[4 * (i - 1) + j] = entry(i)[j]
    <3> SUFFICES ASSUME NEW j \in 1 .. 4 PROVE t[4 * (i - 1) + j] = entry(i)[j]
      OBVIOUS
    <3>1. 4 * (i - 1) + j \in 1 .. 4 * n
      BY <1>1
    <3> HIDE DEF entry
    <3>2. front[4 * (i - 1) + j] = entry(i)[j]
      BY <1>7
    <3> QED BY <1>9, <3>1, <3>2
  <2>7. /\ t[4 * i - 3] = st(i) % 256 /\ t[4 * i - 2] = (st(i) \div 256) % 256
        /\ t[4 * i - 1] = len(i) % 256 /\ t[4 * i] = (len(i) \div 256) % 256
    <3>1. /\ 4 * (i - 1) + 1 = 4 * i - 3 /\ 4 * (i - 1) + 2 = 4 * i - 2
          /\ 4 * (i - 1) + 3 = 4 * i - 1 /\ 4 * (i - 1) + 4 = 4 * i
      OBVIOUS
    <3>2. /\ t[4 * (i - 1) + 1] = entry(i)[1] /\ t[4 * (i - 1) + 2] = entry(i)[2]
          /\ t[4 * (i - 1) + 3] = entry(i)[3] /\ t[4 * (i - 1) + 4] = entry(i)[4]
      <4> HIDE DEF entry
      <4> QED BY <2>6
    <3>3. /\ entry(i)[1] = st(i) % 256 /\ entry(i)[2] = (st(i) \div 256) % 256
          /\ entry(i)[3] = len(i) % 256 /\ entry(i)[4] = (len(i) \div 256) % 256
      OBVIOUS
    <3> HIDE DEF entry
    <3> QED BY <3>1, <3>2, <3>3
  <2>8. Pair(t, 4 * i - 3) = st(i) /\ Pair(t, 4 * i - 1) = len(i)
    <3>1. (4 * i - 3) + 1 = 4 * i - 2 /\ (4 * i - 1) + 1 = 4 * i
      OBVIOUS
    <3>2. (st(i) % 256) + 256 * ((st(i) \div 256) % 256) = st(i)
      BY <2>4, TwoBytes
    <3>3. (len(i) % 256) + 256 * ((len(i) \div 256) % 256) = len(i)
      BY <2>1, <2>4, TwoBytes
    <3> QED BY <2>7, <3>1, <3>2, <3>3 DEF Pair
  <2> QED BY <2>1, <2>3, <2>4, <2>5, <2>8
<1>11. n # 0 => Pair(t, 1) = 4 * n
  <2> SUFFICES ASSUME n # 0 PROVE Pair(t, 1) = 4 * n
    OBVIOUS
  <2>1. 1 \in 1 .. n /\ 4 * 1 - 3 = 1
    BY <1>1
  <2>2. Pair(t, 1) = st(1)
    BY <1>10, <2>1
  <2>3. SubSeq(records, 1, 0) = <<>> /\ 1 - 1 = 0
    BY SubSeqEmpty
  <2>4. Len(<<>>) = 0
    BY EmptySeq
  <2>5. Len(Upto(records, 1 - 1)) = 0
    BY <2>3, <2>4 DEF Upto, FlattenSeq
  <2> QED BY <1>1, <2>2, <2>5 DEF st
<1>12. 4 * n <= Len(t) /\ Len(t) \in Nat
  <2> HIDE DEF body
  <2> QED BY <1>1, <1>8, <1>9
<1>13. \A i \in 1 .. n : len(i) = Len(Record(l[i])) /\ records[i] = Record(l[i])
  BY <1>3 DEF len
<1> HIDE DEF body
<1>14. ASSUME NEW i \in 1 .. n
       PROVE  LET s == Pair(t, 4 * i - 3)
                  r == Record(l[i])
              IN /\ s \in Nat /\ 4 * n <= s /\ Len(r) \in Nat \ {0} /\ s + Len(r) <= Len(t)
                 /\ Pair(t, 4 * i - 1) = Len(r)
                 /\ \A j \in 1 .. Len(r) : t[s + j] = r[j]
  BY <1>10, <1>13
<1> QED BY <1>1, <1>9, <1>11, <1>12, <1>14 DEF n, t

(* As soon as an entry and the record it points to are in the buffer, the  *)
(* entry decodes to its macro.                                             *)
LEMMA EntryDecodes ==
  ASSUME NEW l, Serializable(l), Len(EncodeTable(l)) < OffsetLimit, NEW i \in 1 .. Len(l),
         NEW buf \in Seq(Byte), Len(EncodeTable(l)) <= Len(buf),
         NEW upto \in Nat,
         \A k \in 1 .. Len(EncodeTable(l)) : k <= upto => buf[k] = EncodeTable(l)[k],
         4 * i <= upto, Pair(EncodeTable(l), 4 * i - 3) + Len(Record(l[i])) <= upto
  PROVE  Listed(buf, i) = l[i]
<1> DEFINE n == Len(l)
           t == EncodeTable(l)
           s == Pair(t, 4 * i - 3)
           r == Record(l[i])
<1>0. i \in 1 .. n /\ \A k \in 1 .. Len(t) : k <= upto => buf[k] = t[k]
  OBVIOUS
<1>1. /\ n \in Nat /\ DOMAIN l = 1 .. n /\ Len(t) \in Nat /\ 4 * n <= Len(t)
      /\ Len(t) <= Len(buf) /\ Len(buf) \in Nat
  BY TableShape, LenProperties
<1>2. /\ s \in Nat /\ 4 * n <= s /\ Len(r) \in Nat \ {0} /\ s + Len(r) <= Len(t)
      /\ Pair(t, 4 * i - 1) = Len(r)
      /\ \A j \in 1 .. Len(r) : t[s + j] = r[j]
  BY TableShape
<1>3. /\ l[i] \in Macros /\ Len(l[i].name) <= NameLimit /\ WellFormed(l[i].name)
  BY <1>1, ElementOfSeq DEF Serializable
<1>4. 4 * i <= upto /\ s + Len(r) <= upto
  OBVIOUS
<1> HIDE DEF n, t, s
<1>5. Pair(buf, 4 * i - 3) = s /\ Pair(buf, 4 * i - 1) = Len(r)
  <2>1. \A k \in 4 * i - 3 .. 4 * i : buf[k] = t[k]
    <3> SUFFICES ASSUME NEW k \in 4 * i - 3 .. 4 * i PROVE buf[k] = t[k]
      OBVIOUS
    <3>1. k \in 1 .. Len(t) /\ k <= upto
      BY <1>0, <1>1, <1>4
    <3> QED BY <1>0, <3>1
  <2>2. i \in Nat
    BY <1>0, <1>1
  <2>3. /\ buf[4 * i - 3] = t[4 * i - 3] /\ buf[(4 * i - 3) + 1] = t[(4 * i - 3) + 1]
        /\ buf[4 * i - 1] = t[4 * i - 1] /\ buf[(4 * i - 1) + 1] = t[(4 * i - 1) + 1]
    BY <2>1, <2>2
  <2>4. Pair(buf, 4 * i - 3) = Pair(t, 4 * i - 3) /\ Pair(buf, 4 * i - 1) = Pair(t, 4 * i - 1)
    BY <2>3 DEF Pair
  <2> QED BY <1>2, <2>4 DEF s
<1>6. SubSeq(buf, s + 1, s + Len(r)) = r
  <2> DEFINE m == l[i]
  <2>1. r \in Seq(Byte)
    <3>1. m \in Macros /\ Len(m.name) <= NameLimit
      BY <1>3
    <3> HIDE DEF m
    <3>2. Record(m) \in Seq(Byte)
      BY <3>1, RecordBytes
    <3> QED BY <3>2 DEF m
  <2> HIDE DEF r, m
  <2> DEFINE a == s + 1
             b == s + Len(r)
  <2>2. a \in Int /\ b \in Int /\ a <= b /\ b - a + 1 = Len(r) /\ \A j \in a .. b : buf[j] \in Byte
    <3>1. \A j \in a .. b : j \in 1 .. Len(buf)
      BY <1>1, <1>2
    <3>2. \A j \in a .. b : buf[j] \in Byte
      BY <3>1, ElementOfSeq
    <3>3. a \in Int /\ b \in Int /\ a <= b /\ b - a + 1 = Len(r)
      BY <1>2
    <3> HIDE DEF a, b
    <3> QED BY <3>2, <3>3
  <2> HIDE DEF a, b
  <2>3. /\ SubSeq(buf, a, b) \in Seq(Byte)
        /\ Len(SubSeq(buf, a, b)) = IF a <= b THEN b - a + 1 ELSE 0
        /\ \A j \in 1 .. b - a + 1 : SubSeq(buf, a, b)[j] = buf[a + j - 1]
    BY <2>2, SubSeqProperties
  <2>4. ASSUME NEW j \in 1 .. Len(r) PROVE SubSeq(buf, a, b)[j] = r[j]
    <3>1. a + j - 1 = s + j /\ s + j \in 1 .. Len(t) /\ s + j <= upto
      BY <1>1, <1>2, <1>4 DEF a
    <3>2. buf[s + j] = t[s + j]
      BY <1>0, <3>1
    <3> QED BY <1>2, <2>2, <2>3, <3>1, <3>2
  <2>5. SubSeq(buf, a, b) = r
    <3> DEFINE u == SubSeq(buf, a, b)
    <3>1. u \in Seq(Byte) /\ Len(u) = Len(r) /\ \A j \in 1 .. Len(u) : u[j] = r[j]
      BY <2>2, <2>3, <2>4
    <3> HIDE DEF u
    <3>2. u = r
      BY <2>1, <3>1, SeqEqual
    <3> QED BY <3>2 DEF u
  <2> QED BY <2>5 DEF a, b
<1>7. MacroOf(r) = l[i]
  BY <1>3, RecordDecodes
<1>8. s + Len(r) <= Len(buf)
  BY <1>1, <1>2
<1> QED BY <1>5, <1>6, <1>7, <1>8 DEF Listed

(* A buffer that begins with the encoded table decodes to the list.        *)
THEOREM TableDecodes ==
  ASSUME NEW l, Serializable(l), l # <<>>, Len(EncodeTable(l)) < OffsetLimit,
         NEW buf \in Seq(Byte), Len(EncodeTable(l)) <= Len(buf),
         \A k \in 1 .. Len(EncodeTable(l)) : buf[k] = EncodeTable(l)[k]
  PROVE  DecodeTable(buf) = l
<1> DEFINE n == Len(l)
           t == EncodeTable(l)
           pieces == [i \in Entries(buf) |-> IfDecoded(Listed(buf, i))]
<1>1. /\ n \in Nat /\ DOMAIN l = 1 .. n /\ Len(t) \in Nat /\ 4 * n <= Len(t)
      /\ Len(t) <= Len(buf) /\ Len(buf) \in Nat /\ \A k \in 1 .. Len(t) : buf[k] = t[k]
      /\ (n # 0 => Pair(t, 1) = 4 * n)
  BY TableShape, LenProperties
<1>2. l \in Seq(Macros) /\ n # 0
  <2>1. l \in Seq(Macros)
    BY DEF Serializable
  <2> QED BY <2>1, EmptySeq
<1>3. \A i \in 1 .. n : l[i] \in Macros
  BY <1>2, ElementOfSeq
<1>4. ASSUME NEW i \in 1 .. n PROVE Listed(buf, i) = l[i]
  <2> DEFINE upto == Len(t)
  <2>1. /\ Pair(t, 4 * i - 3) \in Nat /\ Len(Record(l[i])) \in Nat
        /\ Pair(t, 4 * i - 3) + Len(Record(l[i])) <= Len(t)
    BY TableShape
  <2>2. upto \in Nat /\ 4 * i <= upto
    BY <1>1
  <2>3. \A k \in 1 .. Len(t) : k <= upto => buf[k] = t[k]
    BY <1>1
  <2> HIDE DEF upto
  <2>4. Pair(t, 4 * i - 3) + Len(Record(l[i])) <= upto
    BY <2>1 DEF upto
  <2> QED BY <2>2, <2>3, <2>4, EntryDecodes
<1>5. Entries(buf) = 1 .. n
  <2>1. buf[1] = t[1] /\ buf[2] = t[2]
    BY <1>1, <1>2
  <2>2. Pair(buf, 1) = 4 * n
    BY <1>1, <1>2, <2>1 DEF Pair
  <2>3. Pair(buf, 1) \div 4 = n
    <3> HIDE DEF n
    <3> QED BY <1>1, <2>2
  <2>4. \A i \in 1 .. n : 4 * i <= Len(buf)
    BY <1>1
  <2> QED BY <2>3, <2>4 DEF Entries
<1>6. pieces \in Seq(Seq(Macros)) /\ Len(pieces) = n /\ \A i \in 1 .. n : pieces[i] = <<l[i]>>
  <2>1. ASSUME NEW i \in 1 .. n PROVE IfDecoded(Listed(buf, i)) = <<l[i]>>
    <3>1. l[i] # NoMacro
      BY <1>3, NoMacroAssumption
    <3> QED BY <1>4, <3>1 DEF IfDecoded
  <2>2. \A i \in 1 .. n : pieces[i] = <<l[i]>>
    BY <1>5, <2>1
  <2>3. pieces \in [1 .. n -> Seq(Macros)]
    <3>1. \A i \in 1 .. n : <<l[i]>> \in Seq(Macros)
      BY <1>3
    <3> QED BY <1>5, <2>1, <3>1
  <2> HIDE DEF n, pieces
  <2> QED BY <1>1, <2>2, <2>3, Made
<1> HIDE DEF pieces
<1>7. \A i \in 1 .. Len(pieces) : Len(pieces[i]) = 1 /\ pieces[i][1] = l[i]
  <2>1. \A x : Len(<<x>>) = 1 /\ <<x>>[1] = x
    OBVIOUS
  <2> QED BY <1>6, <2>1
<1>8. /\ FlattenSeq(pieces) \in Seq(Macros) /\ Len(FlattenSeq(pieces)) = n
      /\ \A i \in 1 .. n : FlattenSeq(pieces)[i] = l[i]
  <2> HIDE DEF n
  <2> DEFINE d == 1
  <2>1. d \in Nat /\ pieces \in Seq(Seq(Macros)) /\ \A i \in 1 .. Len(pieces) : Len(pieces[i]) = d
    BY <1>6, <1>7
  <2> HIDE DEF d
  <2>2. /\ FlattenSeq(pieces) \in Seq(Macros) /\ Len(FlattenSeq(pieces)) = d * Len(pieces)
        /\ \A i \in 1 .. Len(pieces) : \A j \in 1 .. d : FlattenSeq(pieces)[d * (i - 1) + j] = pieces[i][j]
    BY <2>1, EvenPieceAt
  <2>3. d = 1 /\ Len(pieces) = n /\ n \in Nat
    BY <1>1, <1>6 DEF d
  <2>4. ASSUME NEW i \in 1 .. n PROVE FlattenSeq(pieces)[i] = l[i]
    <3>1. 1 \in 1 .. d /\ d * (i - 1) + 1 = i /\ i \in 1 .. Len(pieces)
      BY <2>3
    <3> QED BY <1>7, <2>2, <3>1
  <2> QED BY <2>2, <2>3, <2>4
<1>9. FlattenSeq(pieces) = l
  <2> DEFINE f == FlattenSeq(pieces)
  <2>1. f \in Seq(Macros) /\ Len(f) = Len(l) /\ \A i \in 1 .. Len(f) : f[i] = l[i]
    BY <1>8
  <2> HIDE DEF f
  <2>2. f = l
    BY <1>2, <2>1, SeqEqual
  <2> QED BY <2>2 DEF f
<1> QED BY <1>9 DEF DecodeTable, pieces

-----------------------------------------------------------------------------
(* What is written is one of the callers' lists, and a list that has been  *)
(* sent whole exists.                                                      *)
ListInv ==
  /\ list # NoList => list \in Lists
  /\ whole => list # NoList

(* ListInv is inductive on top of PageInv: a list is only replaced by      *)
(* BeginWrite.                                                             *)
LEMMA ListNext == PageInv /\ ListInv /\ [Next]_vars => ListInv'
<1> SUFFICES ASSUME PageInv, ListInv, [Next]_vars PROVE ListInv'
  OBVIOUS
<1>1. CASE BeginWrite
  <2>1. list' \in Lists /\ list' # NoList
    BY <1>1, RepositoryAssumption DEF BeginWrite
  <2> QED BY <2>1 DEF ListInv
<1>2. CASE WritePage
  <2>1. list' = list /\ list # NoList
    BY <1>2 DEF WritePage, PageInv
  <2> QED BY <2>1 DEF ListInv
<1>3. CASE BeginRead \/ ReadPage \/ Die \/ UNCHANGED vars
  <2>1. UNCHANGED <<list, whole>>
    BY <1>3 DEF BeginRead, ReadPage, Die, vars
  <2> QED BY <2>1 DEF ListInv
<1> QED BY <1>1, <1>2, <1>3 DEF Next

(* What the codec's theorems need holds of a list that is being or has     *)
(* been written, and of the memory.                                        *)
LEMMA WrittenList ==
  ASSUME TypeOK, ListInv, list # NoList
  PROVE  /\ Serializable(list)
         /\ EncodeTable(list) \in Seq(Byte) /\ Len(EncodeTable(list)) \in Nat
         /\ Len(EncodeTable(list)) <= BufferLen /\ Len(EncodeTable(list)) < OffsetLimit
         /\ memory \in Seq(Byte) /\ Len(memory) = BufferLen
<1>1. list \in Lists /\ Fits(list)
  BY DEF ListInv, TypeOK
<1>2. Serializable(list)
  BY <1>1, ListsAssumption DEF Serializable
<1>3. EncodeTable(list) \in Seq(Byte) /\ Len(EncodeTable(list)) <= BufferLen
  BY <1>1 DEF Fits
<1>4. Len(EncodeTable(list)) \in Nat
  BY <1>3, LenProperties
<1>5. Len(EncodeTable(list)) < OffsetLimit
  <2>1. BufferLen < OffsetLimit /\ BufferLen \in Nat /\ OffsetLimit \in Nat
    BY RepositoryAssumption, Sizes DEF OffsetLimit
  <2> QED BY <1>3, <1>4, <2>1
<1> QED BY <1>2, <1>3, <1>4, <1>5 DEF TypeOK

(* While a list is being written, every macro of it whose header entry and *)
(* record lie within the pages that were sent decodes from the memory to   *)
(* what it is in the list, whatever the rest of the memory holds.          *)
THEOREM SentMacrosHoldHolds == Spec => []SentMacrosHold
<1>1. PageInv /\ PagesHold /\ ListInv => SentMacrosHold
  <2> SUFFICES ASSUME PageInv, PagesHold, ListInv, phase = "writing", NEW i \in DOMAIN list,
                      4 * i <= page * PageLen,
                      Pair(EncodeTable(list), 4 * i - 3) + Len(Record(list[i])) <= page * PageLen
               PROVE  Listed(memory, i) = list[i]
    BY DEF SentMacrosHold
  <2>1. TypeOK /\ list # NoList /\ ~whole /\ page \in Nat
    BY DEF PageInv, TypeOK
  <2>2. /\ Serializable(list) /\ Len(EncodeTable(list)) < OffsetLimit
        /\ Len(EncodeTable(list)) <= Len(memory) /\ memory \in Seq(Byte)
    BY <2>1, WrittenList
  <2>3. DOMAIN list = 1 .. Len(list) /\ list # <<>>
    <3>1. list \in Seq(Macros)
      BY <2>2 DEF Serializable
    <3>2. DOMAIN list = 1 .. Len(list)
      BY <3>1, LenProperties
    <3>3. Len(<<>>) = 0
      BY EmptySeq
    <3> QED BY <3>2, <3>3
  <2> DEFINE upto == page * PageLen
  <2>4. Sent = upto
    BY <2>1, Zenon DEF Sent
  <2>5. \A k \in 1 .. Len(EncodeTable(list)) : k <= upto => memory[k] = EncodeTable(list)[k]
    BY <2>1, <2>3, <2>4 DEF PagesHold
  <2>6. upto \in Nat
    BY <2>1, Sizes
  <2>7. 4 * i <= upto /\ Pair(EncodeTable(list), 4 * i - 3) + Len(Record(list[i])) <= upto
    OBVIOUS
  <2> HIDE DEF upto
  <2> QED BY <2>2, <2>3, <2>5, <2>6, <2>7, EntryDecodes
<1>2. Init => ListInv
  BY DEF Init, ListInv
<1> QED BY <1>1, <1>2, ListNext, PageInit, PageNext, PagesHoldHolds, PTL DEF Spec

(* Once all pages of a list have been sent, whatever was in the memory     *)
(* before and whichever process died since, a read gives exactly that list *)
(* until the next write begins.                                            *)
THEOREM ReadsBackWrittenHolds == Spec => ReadsBackWritten
<1>1. PageInv /\ PagesHold /\ ListInv /\ CopyInv /\ [Next]_vars =>
        [ReadEnds /\ whole /\ list # <<>> => result' = list]_vars
  <2> SUFFICES ASSUME PageInv, PagesHold, ListInv, CopyInv, [Next]_vars,
                      ReadEnds, whole, list # <<>>
               PROVE  result' = list
    OBVIOUS
  <2>1. TypeOK /\ list # NoList
    BY DEF PageInv, ListInv
  <2>2. /\ Serializable(list) /\ Len(EncodeTable(list)) < OffsetLimit
        /\ Len(EncodeTable(list)) <= Len(memory) /\ memory \in Seq(Byte)
        /\ Len(EncodeTable(list)) \in Nat /\ Len(EncodeTable(list)) <= BufferLen
    BY <2>1, WrittenList
  <2>3. Sent = BufferLen
    BY Zenon DEF Sent
  <2>4. \A k \in 1 .. Len(EncodeTable(list)) : memory[k] = EncodeTable(list)[k]
    <3> SUFFICES ASSUME NEW k \in 1 .. Len(EncodeTable(list)) PROVE memory[k] = EncodeTable(list)[k]
      OBVIOUS
    <3>1. k <= Sent
      BY <2>2, <2>3, Sizes
    <3> QED BY <2>1, <3>1 DEF PagesHold
  <2>5. DecodeTable(memory) = list
    BY <2>2, <2>4, TableDecodes
  <2>6. result' = DecodeTable(memory)
    <3>1. [ReadEnds => result' = DecodeTable(memory)]_vars
      BY SnapshotStep
    <3>2. ~UNCHANGED vars
      BY <2>1 DEF ReadEnds, vars, TypeOK
    <3> QED BY <3>1, <3>2
  <2> QED BY <2>5, <2>6
<1>2. Init => ListInv /\ CopyInv
  BY DEF Init, ListInv, CopyInv
<1> QED BY <1>1, <1>2, ListNext, CopyNext, PageInit, PageNext, PagesHoldHolds, PTL DEF Spec, ReadsBackWritten
=============================================================================
