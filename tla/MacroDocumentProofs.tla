------------------------ MODULE MacroDocumentProofs ------------------------
(***************************************************************************)
(* Proofs about one macro and its block, for blocks and macros of any      *)
(* length: first how lists are built up, then what compiling and printing  *)
(* do to a list with one element more, then the properties by induction    *)
(* over the list.                                                          *)
(***************************************************************************)
EXTENDS MacroDocument, SequenceTheorems, FiniteSetTheorems, WellFoundedInduction,
        NaturalsInduction, TLAPS

-----------------------------------------------------------------------------
(* Lists *)

(* Induction over the natural numbers, for a set: the numbers outside S    *)
(* would have a least one.                                                 *)
LEMMA Induction ==
  ASSUME NEW S, 0 \in S, \A n \in Nat : n \in S => n + 1 \in S
  PROVE  \A n \in Nat : n \in S
<1> SUFFICES ASSUME NEW n \in Nat, n \notin S PROVE FALSE
  OBVIOUS
<1> DEFINE Rest == Nat \ S
           R == OpToRel(<, Nat)
<1>1. IsWellFoundedOn(R, Nat)
  BY NatLessThanWellFounded
<1>2. \A x, y \in Nat : <<x, y>> \in R <=> x < y
  BY DEF OpToRel
<1>3. Rest \subseteq Nat /\ Rest # {}
  OBVIOUS
<1> HIDE DEF R, Rest
<1>4. PICK x \in Rest : \A y \in Rest : ~(<<y, x>> \in R)
  BY <1>1, <1>3, WFMin
<1>5. \A y \in Rest : ~(y < x)
  BY <1>2, <1>3, <1>4
<1>6. x \in Nat /\ x \notin S /\ x # 0
  BY <1>4 DEF Rest
<1>7. x - 1 \in Nat /\ x - 1 < x
  BY <1>6
<1>8. x - 1 \in S
  BY <1>5, <1>7 DEF Rest
<1> QED BY <1>6, <1>7, <1>8

(* Induction over lists, for a set: every list is built from the empty one *)
(* by appending.                                                           *)
LEMMA ListInduction ==
  ASSUME NEW S, NEW G, <<>> \in G,
         \A s \in Seq(S), x \in S : s \in G => Append(s, x) \in G
  PROVE  \A s \in Seq(S) : s \in G
<1> DEFINE N == {n \in Nat : \A s \in Seq(S) : Len(s) = n => s \in G}
<1>1. 0 \in N
  BY EmptySeq
<1>2. ASSUME NEW n \in Nat, n \in N PROVE n + 1 \in N
  <2> SUFFICES ASSUME NEW s \in Seq(S), Len(s) = n + 1 PROVE s \in G
    OBVIOUS
  <2>1. s # <<>>
    BY EmptySeq
  <2>2. PICK t \in Seq(S), x \in S : s = Append(t, x)
    BY <2>1, SequenceEmptyOrAppend
  <2>3. Len(t) = n
    BY <2>2, AppendProperties, LenProperties
  <2> QED BY <1>2, <2>2, <2>3
<1>3. \A n \in Nat : n \in N
  BY <1>1, <1>2, Induction
<1> QED BY <1>3, LenProperties

(* g[i] is the concatenation of the first i elements of s, as FlattenSeq   *)
(* of SequencesExt builds it.                                              *)
Flattens(g, s, n) == g = [i \in 1 .. n |-> IF i = 1 THEN s[i] ELSE g[i - 1] \o s[i]]

LEMMA FlattensAt ==
  ASSUME NEW s, NEW n \in Nat, NEW g, Flattens(g, s, n), NEW i \in 1 .. n
  PROVE  g[i] = IF i = 1 THEN s[i] ELSE g[i - 1] \o s[i]
BY DEF Flattens

(* The recursion of FlattenSeq has a solution.                             *)
LEMMA FlattenExists == ASSUME NEW s, NEW n \in Nat PROVE \E g : Flattens(g, s, n)
<1> DEFINE S == {m \in Nat : \E g : Flattens(g, s, m)}
<1>1. 0 \in S
  <2>1. Flattens([i \in 1 .. 0 |-> 0], s, 0)
    BY DEF Flattens
  <2> QED BY <2>1
<1>2. ASSUME NEW m \in Nat, m \in S PROVE m + 1 \in S
  <2>1. PICK g : Flattens(g, s, m)
    BY <1>2
  <2> DEFINE h == [i \in 1 .. m + 1 |->
                     IF i = m + 1 THEN IF i = 1 THEN s[i] ELSE g[i - 1] \o s[i] ELSE g[i]]
  <2>2. ASSUME NEW i \in 1 .. m + 1 PROVE h[i] = IF i = 1 THEN s[i] ELSE h[i - 1] \o s[i]
    <3>1. CASE i = m + 1
      BY <3>1
    <3>2. CASE i # m + 1
      <4>1. i \in 1 .. m /\ h[i] = g[i] /\ (i # 1 => h[i - 1] = g[i - 1])
        BY <3>2
      <4>2. g[i] = IF i = 1 THEN s[i] ELSE g[i - 1] \o s[i]
        BY <2>1, <4>1 DEF Flattens
      <4> QED BY <4>1, <4>2
    <3> QED BY <3>1, <3>2
  <2>3. h = [i \in 1 .. m + 1 |-> h[i]]
    OBVIOUS
  <2> HIDE DEF h
  <2>4. Flattens(h, s, m + 1)
    BY <2>2, <2>3 DEF Flattens
  <2> QED BY <2>4
<1> HIDE DEF S
<1>3. n \in S
  BY <1>1, <1>2, Induction
<1> QED BY <1>3 DEF S

(* FlattenSeq(s) is the last value of such a recursion.                    *)
LEMMA FlattenIs ==
  ASSUME NEW s, Len(s) \in Nat \ {0}
  PROVE  \E g : Flattens(g, s, Len(s)) /\ FlattenSeq(s) = g[Len(s)]
<1> DEFINE g == CHOOSE g : Flattens(g, s, Len(s))
<1>1. Flattens(g, s, Len(s))
  BY FlattenExists
<1>2. FlattenSeq(s) = g[Len(s)]
  BY DEF FlattenSeq, Flattens
<1> QED BY <1>1, <1>2

(* Lists with the same first m elements flatten alike up to there.         *)
LEMMA FlattenAgree ==
  ASSUME NEW s, NEW t, NEW g, NEW h, NEW m \in Nat \ {0}, NEW n \in Nat, m <= n,
         Flattens(g, s, m), Flattens(h, t, n), \A i \in 1 .. m : s[i] = t[i]
  PROVE  g[m] = h[m]
<1> DEFINE S == {k \in Nat : k \in 1 .. m => g[k] = h[k]}
<1>1. 0 \in S
  OBVIOUS
<1>2. ASSUME NEW k \in Nat, k \in S PROVE k + 1 \in S
  <2> SUFFICES ASSUME k + 1 \in 1 .. m PROVE g[k + 1] = h[k + 1]
    OBVIOUS
  <2> DEFINE i == k + 1
  <2>1. i \in 1 .. m /\ i \in 1 .. n /\ s[i] = t[i] /\ k = i - 1
    OBVIOUS
  <2>2. i # 1 => g[i - 1] = h[i - 1]
    BY <1>2
  <2> HIDE DEF i
  <2>3. g[i] = IF i = 1 THEN s[i] ELSE g[i - 1] \o s[i]
    BY <2>1 DEF Flattens
  <2>4. h[i] = IF i = 1 THEN t[i] ELSE h[i - 1] \o t[i]
    BY <2>1 DEF Flattens
  <2>5. g[i] = h[i]
    BY <2>1, <2>2, <2>3, <2>4
  <2> QED BY <2>5 DEF i
<1> HIDE DEF S
<1>3. m \in S
  BY <1>1, <1>2, Induction
<1> QED BY <1>3 DEF S

(* Flattening a list with one more list at its end.                        *)
LEMMA FlattenNone == FlattenSeq(<<>>) = <<>>
BY EmptySeq DEF FlattenSeq

LEMMA FlattenAppend ==
  ASSUME NEW S, NEW s \in Seq(Seq(S)), NEW x \in Seq(S)
  PROVE  FlattenSeq(Append(s, x)) = FlattenSeq(s) \o x
<1> DEFINE b == Append(s, x)
           k == Len(s) + 1
<1>1. Len(s) \in Nat /\ k \in Nat \ {0}
  BY LenProperties
<1>2. Len(b) = k /\ b[k] = x /\ \A i \in 1 .. Len(s) : s[i] = b[i]
  BY AppendProperties
<1> HIDE DEF b
<1>3. PICK g : Flattens(g, b, k) /\ FlattenSeq(b) = g[k]
  BY <1>1, <1>2, FlattenIs
<1>4. k \in 1 .. k /\ k - 1 = Len(s)
  BY <1>1
<1> HIDE DEF k
<1>5. g[k] = IF k = 1 THEN b[k] ELSE g[k - 1] \o b[k]
  BY <1>1, <1>3, <1>4, FlattensAt
<1>6. ASSUME s = <<>> PROVE FlattenSeq(b) = FlattenSeq(s) \o x
  <2>1. k = 1
    BY <1>6, EmptySeq DEF k
  <2>2. <<>> \o x = x
    BY ConcatEmptySeq
  <2> QED BY <1>2, <1>3, <1>5, <1>6, <2>1, <2>2, FlattenNone
<1>7. ASSUME s # <<>> PROVE FlattenSeq(b) = FlattenSeq(s) \o x
  <2>1. Len(s) \in Nat \ {0} /\ k # 1 /\ Len(s) <= k /\ k \in Nat
    BY <1>1, <1>7, EmptySeq DEF k
  <2>2. PICK h : Flattens(h, s, Len(s)) /\ FlattenSeq(s) = h[Len(s)]
    BY <2>1, FlattenIs
  <2>3. \A m \in Nat \ {0} :
          m <= k /\ Flattens(h, s, m) /\ (\A i \in 1 .. m : s[i] = b[i]) => h[m] = g[m]
    BY <1>3, <2>1, FlattenAgree
  <2>4. h[Len(s)] = g[Len(s)]
    BY <1>2, <2>1, <2>2, <2>3
  <2> QED BY <1>2, <1>3, <1>4, <1>5, <2>1, <2>2, <2>4
<1> QED BY <1>6, <1>7 DEF b

LEMMA FlattenType ==
  ASSUME NEW S, NEW s \in Seq(Seq(S))
  PROVE  FlattenSeq(s) \in Seq(S)
<1> DEFINE G == {t \in Seq(Seq(S)) : FlattenSeq(t) \in Seq(S)}
<1>1. <<>> \in G
  BY FlattenNone, EmptySeq
<1>2. ASSUME NEW t \in Seq(Seq(S)), NEW x \in Seq(S), t \in G PROVE Append(t, x) \in G
  <2>1. FlattenSeq(t) \in Seq(S)
    BY <1>2
  <2>2. FlattenSeq(t) \o x \in Seq(S)
    BY <2>1, ConcatProperties
  <2>3. Append(t, x) \in Seq(Seq(S))
    BY AppendProperties
  <2> QED BY <2>2, <2>3, FlattenAppend
<1> HIDE DEF G
<1>3. s \in G
  BY <1>1, <1>2, ListInduction
<1> QED BY <1>3 DEF G

-----------------------------------------------------------------------------
(* What the model's recursions compute.  Each is treated alike: it has a   *)
(* solution, lists with the same first elements give the same so far, and  *)
(* one element more is one step more.                                      *)

Start == [actions |-> <<>>, pending |-> 0, overflow |-> FALSE]

(* g[i] is the compiler's state after the first i events of s.             *)
Runs(g, s, n) ==
  g = [i \in 0 .. n |-> IF i = 0 THEN Start ELSE CompileStep(g[i - 1], s[i])]

LEMMA RunExists == ASSUME NEW s, NEW n \in Nat PROVE \E g : Runs(g, s, n)
<1> DEFINE S == {m \in Nat : \E g : Runs(g, s, m)}
<1>1. 0 \in S
  <2>1. Runs([i \in 0 .. 0 |-> Start], s, 0)
    BY DEF Runs
  <2> QED BY <2>1
<1>2. ASSUME NEW m \in Nat, m \in S PROVE m + 1 \in S
  <2>1. PICK g : Runs(g, s, m)
    BY <1>2
  <2> DEFINE h == [i \in 0 .. m + 1 |-> IF i = m + 1 THEN CompileStep(g[i - 1], s[i]) ELSE g[i]]
  <2>2. ASSUME NEW i \in 0 .. m + 1
        PROVE  h[i] = IF i = 0 THEN Start ELSE CompileStep(h[i - 1], s[i])
    <3>1. CASE i = m + 1
      <4>1. i # 0 /\ i - 1 \in 0 .. m + 1 /\ i - 1 # m + 1 /\ i \in 0 .. m + 1
        BY <3>1
      <4>2. h[i - 1] = g[i - 1] /\ h[i] = CompileStep(g[i - 1], s[i])
        BY <3>1, <4>1
      <4> QED BY <4>1, <4>2
    <3>2. CASE i # m + 1
      <4>1. i \in 0 .. m /\ h[i] = g[i] /\ (i # 0 => h[i - 1] = g[i - 1])
        BY <3>2
      <4>2. g[i] = IF i = 0 THEN Start ELSE CompileStep(g[i - 1], s[i])
        BY <2>1, <4>1 DEF Runs
      <4> QED BY <4>1, <4>2
    <3> QED BY <3>1, <3>2
  <2>3. h = [i \in 0 .. m + 1 |-> h[i]]
    OBVIOUS
  <2> HIDE DEF h
  <2>4. Runs(h, s, m + 1)
    BY <2>2, <2>3 DEF Runs
  <2> QED BY <2>4
<1> HIDE DEF S
<1>3. n \in S
  BY <1>1, <1>2, Induction
<1> QED BY <1>3 DEF S

(* Lists with the same first m elements give the same up to there.         *)
LEMMA RunAgree ==
  ASSUME NEW s, NEW t, NEW g, NEW h, NEW m \in Nat, NEW n \in Nat, m <= n,
         Runs(g, s, m), Runs(h, t, n), \A i \in 1 .. m : s[i] = t[i]
  PROVE  \A k \in 0 .. m : g[k] = h[k]
<1> DEFINE S == {k \in Nat : k \in 0 .. m => g[k] = h[k]}
<1>0. ASSUME NEW i \in 0 .. m
      PROVE  /\ g[i] = IF i = 0 THEN Start ELSE CompileStep(g[i - 1], s[i])
             /\ h[i] = IF i = 0 THEN Start ELSE CompileStep(h[i - 1], t[i])
  <2>1. i \in 0 .. n
    OBVIOUS
  <2> QED BY <2>1 DEF Runs
<1>1. 0 \in S
  BY <1>0
<1>2. ASSUME NEW k \in Nat, k \in S PROVE k + 1 \in S
  <2> SUFFICES ASSUME k + 1 \in 0 .. m PROVE g[k + 1] = h[k + 1]
    OBVIOUS
  <2> DEFINE i == k + 1
  <2>1. i \in 0 .. m /\ i # 0 /\ s[i] = t[i] /\ i - 1 = k
    OBVIOUS
  <2>2. g[i - 1] = h[i - 1]
    BY <1>2, <2>1
  <2> HIDE DEF i
  <2>3. g[i] = h[i]
    BY <1>0, <2>1, <2>2
  <2> QED BY <2>3 DEF i
<1> HIDE DEF S
<1>3. \A k \in Nat : k \in S
  BY <1>1, <1>2, Induction
<1> QED BY <1>3 DEF S

LEMMA RunIs ==
  ASSUME NEW s, Len(s) \in Nat
  PROVE  \E g : Runs(g, s, Len(s)) /\ Run(s) = g[Len(s)]
<1> DEFINE g == CHOOSE g : Runs(g, s, Len(s))
<1>1. Runs(g, s, Len(s))
  BY RunExists
<1>2. Run(s) = g[Len(s)]
  BY DEF Run, Runs, Start
<1> QED BY <1>1, <1>2

LEMMA RunNone == Run(<<>>) = Start
<1>1. Len(<<>>) = 0
  BY EmptySeq
<1>2. PICK g : Runs(g, <<>>, 0) /\ Run(<<>>) = g[0]
  BY <1>1, RunIs
<1> QED BY <1>2 DEF Runs

LEMMA RunAppend ==
  ASSUME NEW S, NEW s \in Seq(S), NEW x \in S
  PROVE  Run(Append(s, x)) = CompileStep(Run(s), x)
<1> DEFINE b == Append(s, x)
           n == Len(s)
<1>1. n \in Nat /\ n + 1 \in Nat /\ Len(b) = n + 1 /\ b[n + 1] = x /\ \A i \in 1 .. n : s[i] = b[i]
  BY LenProperties, AppendProperties
<1> HIDE DEF b
<1>2. PICK g : Runs(g, s, n) /\ Run(s) = g[n]
  BY <1>1, RunIs
<1>3. PICK h : Runs(h, b, n + 1) /\ Run(b) = h[n + 1]
  BY <1>1, RunIs
<1>4. n <= n + 1 /\ n \in 0 .. n /\ n + 1 \in 0 .. n + 1 /\ n + 1 # 0 /\ (n + 1) - 1 = n
  BY <1>1
<1>5. g[n] = h[n]
  <2>1. \A k \in 0 .. n : g[k] = h[k]
    BY <1>1, <1>2, <1>3, <1>4, RunAgree
  <2> QED BY <1>4, <2>1
<1>6. h[n + 1] = CompileStep(h[n], b[n + 1])
  BY <1>3, <1>4 DEF Runs
<1> QED BY <1>1, <1>2, <1>3, <1>5, <1>6 DEF b

Silence == [shift |-> FALSE, text |-> <<>>]

(* g[i] is what the keyboard has typed after the first i actions of s.     *)
Plays(g, s, n) ==
  g = [i \in 0 .. n |-> IF i = 0 THEN Silence ELSE PlayStep(g[i - 1], s[i])]

LEMMA PlayExists == ASSUME NEW s, NEW n \in Nat PROVE \E g : Plays(g, s, n)
<1> DEFINE S == {m \in Nat : \E g : Plays(g, s, m)}
<1>1. 0 \in S
  <2>1. Plays([i \in 0 .. 0 |-> Silence], s, 0)
    BY DEF Plays
  <2> QED BY <2>1
<1>2. ASSUME NEW m \in Nat, m \in S PROVE m + 1 \in S
  <2>1. PICK g : Plays(g, s, m)
    BY <1>2
  <2> DEFINE h == [i \in 0 .. m + 1 |-> IF i = m + 1 THEN PlayStep(g[i - 1], s[i]) ELSE g[i]]
  <2>2. ASSUME NEW i \in 0 .. m + 1
        PROVE  h[i] = IF i = 0 THEN Silence ELSE PlayStep(h[i - 1], s[i])
    <3>1. CASE i = m + 1
      <4>1. i # 0 /\ i - 1 \in 0 .. m + 1 /\ i - 1 # m + 1 /\ i \in 0 .. m + 1
        BY <3>1
      <4>2. h[i - 1] = g[i - 1] /\ h[i] = PlayStep(g[i - 1], s[i])
        BY <3>1, <4>1
      <4> QED BY <4>1, <4>2
    <3>2. CASE i # m + 1
      <4>1. i \in 0 .. m /\ h[i] = g[i] /\ (i # 0 => h[i - 1] = g[i - 1])
        BY <3>2
      <4>2. g[i] = IF i = 0 THEN Silence ELSE PlayStep(g[i - 1], s[i])
        BY <2>1, <4>1 DEF Plays
      <4> QED BY <4>1, <4>2
    <3> QED BY <3>1, <3>2
  <2>3. h = [i \in 0 .. m + 1 |-> h[i]]
    OBVIOUS
  <2> HIDE DEF h
  <2>4. Plays(h, s, m + 1)
    BY <2>2, <2>3 DEF Plays
  <2> QED BY <2>4
<1> HIDE DEF S
<1>3. n \in S
  BY <1>1, <1>2, Induction
<1> QED BY <1>3 DEF S

(* Lists with the same first m elements give the same up to there.         *)
LEMMA PlayAgree ==
  ASSUME NEW s, NEW t, NEW g, NEW h, NEW m \in Nat, NEW n \in Nat, m <= n,
         Plays(g, s, m), Plays(h, t, n), \A i \in 1 .. m : s[i] = t[i]
  PROVE  \A k \in 0 .. m : g[k] = h[k]
<1> DEFINE S == {k \in Nat : k \in 0 .. m => g[k] = h[k]}
<1>0. ASSUME NEW i \in 0 .. m
      PROVE  /\ g[i] = IF i = 0 THEN Silence ELSE PlayStep(g[i - 1], s[i])
             /\ h[i] = IF i = 0 THEN Silence ELSE PlayStep(h[i - 1], t[i])
  <2>1. i \in 0 .. n
    OBVIOUS
  <2> QED BY <2>1 DEF Plays
<1>1. 0 \in S
  BY <1>0
<1>2. ASSUME NEW k \in Nat, k \in S PROVE k + 1 \in S
  <2> SUFFICES ASSUME k + 1 \in 0 .. m PROVE g[k + 1] = h[k + 1]
    OBVIOUS
  <2> DEFINE i == k + 1
  <2>1. i \in 0 .. m /\ i # 0 /\ s[i] = t[i] /\ i - 1 = k
    OBVIOUS
  <2>2. g[i - 1] = h[i - 1]
    BY <1>2, <2>1
  <2> HIDE DEF i
  <2>3. g[i] = h[i]
    BY <1>0, <2>1, <2>2
  <2> QED BY <2>3 DEF i
<1> HIDE DEF S
<1>3. \A k \in Nat : k \in S
  BY <1>1, <1>2, Induction
<1> QED BY <1>3 DEF S

LEMMA PlayIs ==
  ASSUME NEW s, Len(s) \in Nat
  PROVE  \E g : Plays(g, s, Len(s)) /\ Played(s) = g[Len(s)]
<1> DEFINE g == CHOOSE g : Plays(g, s, Len(s))
<1>1. Plays(g, s, Len(s))
  BY PlayExists
<1>2. Played(s) = g[Len(s)]
  BY DEF Played, Plays, Silence
<1> QED BY <1>1, <1>2

LEMMA PlayNone == Played(<<>>) = Silence
<1>1. Len(<<>>) = 0
  BY EmptySeq
<1>2. PICK g : Plays(g, <<>>, 0) /\ Played(<<>>) = g[0]
  BY <1>1, PlayIs
<1> QED BY <1>2 DEF Plays

LEMMA PlayAppend ==
  ASSUME NEW S, NEW s \in Seq(S), NEW x \in S
  PROVE  Played(Append(s, x)) = PlayStep(Played(s), x)
<1> DEFINE b == Append(s, x)
           n == Len(s)
<1>1. n \in Nat /\ n + 1 \in Nat /\ Len(b) = n + 1 /\ b[n + 1] = x /\ \A i \in 1 .. n : s[i] = b[i]
  BY LenProperties, AppendProperties
<1> HIDE DEF b
<1>2. PICK g : Plays(g, s, n) /\ Played(s) = g[n]
  BY <1>1, PlayIs
<1>3. PICK h : Plays(h, b, n + 1) /\ Played(b) = h[n + 1]
  BY <1>1, PlayIs
<1>4. n <= n + 1 /\ n \in 0 .. n /\ n + 1 \in 0 .. n + 1 /\ n + 1 # 0 /\ (n + 1) - 1 = n
  BY <1>1
<1>5. g[n] = h[n]
  <2>1. \A k \in 0 .. n : g[k] = h[k]
    BY <1>1, <1>2, <1>3, <1>4, PlayAgree
  <2> QED BY <1>4, <2>1
<1>6. h[n + 1] = PlayStep(h[n], b[n + 1])
  BY <1>3, <1>4 DEF Plays
<1> QED BY <1>1, <1>2, <1>3, <1>5, <1>6 DEF b

(* g[i] is the time at which the first i elements of s are over.           *)
Clocks(g, s, n) ==
  g = [i \in 0 .. n |-> IF i = 0 THEN 0 ELSE g[i - 1] + DelayOf(s[i])]

LEMMA ClockExists == ASSUME NEW s, NEW n \in Nat PROVE \E g : Clocks(g, s, n)
<1> DEFINE S == {m \in Nat : \E g : Clocks(g, s, m)}
<1>1. 0 \in S
  <2>1. Clocks([i \in 0 .. 0 |-> 0], s, 0)
    BY DEF Clocks
  <2> QED BY <2>1
<1>2. ASSUME NEW m \in Nat, m \in S PROVE m + 1 \in S
  <2>1. PICK g : Clocks(g, s, m)
    BY <1>2
  <2> DEFINE h == [i \in 0 .. m + 1 |-> IF i = m + 1 THEN g[i - 1] + DelayOf(s[i]) ELSE g[i]]
  <2>2. ASSUME NEW i \in 0 .. m + 1
        PROVE  h[i] = IF i = 0 THEN 0 ELSE h[i - 1] + DelayOf(s[i])
    <3>1. CASE i = m + 1
      <4>1. i # 0 /\ i - 1 \in 0 .. m + 1 /\ i - 1 # m + 1 /\ i \in 0 .. m + 1
        BY <3>1
      <4>2. h[i - 1] = g[i - 1] /\ h[i] = g[i - 1] + DelayOf(s[i])
        BY <3>1, <4>1
      <4> QED BY <4>1, <4>2
    <3>2. CASE i # m + 1
      <4>1. i \in 0 .. m /\ h[i] = g[i] /\ (i # 0 => h[i - 1] = g[i - 1])
        BY <3>2
      <4>2. g[i] = IF i = 0 THEN 0 ELSE g[i - 1] + DelayOf(s[i])
        BY <2>1, <4>1 DEF Clocks
      <4> QED BY <4>1, <4>2
    <3> QED BY <3>1, <3>2
  <2>3. h = [i \in 0 .. m + 1 |-> h[i]]
    OBVIOUS
  <2> HIDE DEF h
  <2>4. Clocks(h, s, m + 1)
    BY <2>2, <2>3 DEF Clocks
  <2> QED BY <2>4
<1> HIDE DEF S
<1>3. n \in S
  BY <1>1, <1>2, Induction
<1> QED BY <1>3 DEF S

(* Lists with the same first m elements give the same up to there.         *)
LEMMA ClockAgree ==
  ASSUME NEW s, NEW t, NEW g, NEW h, NEW m \in Nat, NEW n \in Nat, m <= n,
         Clocks(g, s, m), Clocks(h, t, n), \A i \in 1 .. m : s[i] = t[i]
  PROVE  \A k \in 0 .. m : g[k] = h[k]
<1> DEFINE S == {k \in Nat : k \in 0 .. m => g[k] = h[k]}
<1>0. ASSUME NEW i \in 0 .. m
      PROVE  /\ g[i] = IF i = 0 THEN 0 ELSE g[i - 1] + DelayOf(s[i])
             /\ h[i] = IF i = 0 THEN 0 ELSE h[i - 1] + DelayOf(t[i])
  <2>1. i \in 0 .. n
    OBVIOUS
  <2> QED BY <2>1 DEF Clocks
<1>1. 0 \in S
  BY <1>0
<1>2. ASSUME NEW k \in Nat, k \in S PROVE k + 1 \in S
  <2> SUFFICES ASSUME k + 1 \in 0 .. m PROVE g[k + 1] = h[k + 1]
    OBVIOUS
  <2> DEFINE i == k + 1
  <2>1. i \in 0 .. m /\ i # 0 /\ s[i] = t[i] /\ i - 1 = k
    OBVIOUS
  <2>2. g[i - 1] = h[i - 1]
    BY <1>2, <2>1
  <2> HIDE DEF i
  <2>3. g[i] = h[i]
    BY <1>0, <2>1, <2>2
  <2> QED BY <2>3 DEF i
<1> HIDE DEF S
<1>3. \A k \in Nat : k \in S
  BY <1>1, <1>2, Induction
<1> QED BY <1>3 DEF S

LEMMA ClockIs == ASSUME NEW s, Len(s) \in Nat PROVE Clocks(Clock(s), s, Len(s))
<1>1. \E g : Clocks(g, s, Len(s))
  BY ClockExists
<1>2. Clock(s) = CHOOSE g : Clocks(g, s, Len(s))
  BY DEF Clock, Clocks
<1> QED BY <1>1, <1>2

(* What comes after an element does not change its time.                   *)
LEMMA ClockAppend ==
  ASSUME NEW S, NEW s \in Seq(S), NEW x \in S
  PROVE  /\ \A k \in 0 .. Len(s) : Clock(Append(s, x))[k] = Clock(s)[k]
         /\ Clock(Append(s, x))[Len(s) + 1] = Clock(s)[Len(s)] + DelayOf(x)
<1> DEFINE b == Append(s, x)
           n == Len(s)
<1>1. n \in Nat /\ n + 1 \in Nat /\ Len(b) = n + 1 /\ b[n + 1] = x /\ \A i \in 1 .. n : s[i] = b[i]
  BY LenProperties, AppendProperties
<1> HIDE DEF b
<1>2. Clocks(Clock(s), s, n) /\ Clocks(Clock(b), b, n + 1)
  BY <1>1, ClockIs
<1>4. n <= n + 1 /\ n \in 0 .. n /\ n + 1 \in 0 .. n + 1 /\ n + 1 # 0 /\ (n + 1) - 1 = n
  BY <1>1
<1>5. \A k \in 0 .. n : Clock(b)[k] = Clock(s)[k]
  BY <1>1, <1>2, <1>4, ClockAgree
<1> DEFINE h == Clock(b)
<1>6. Clocks(h, b, n + 1)
  BY <1>2
<1> HIDE DEF h
<1>7. h[n + 1] = h[n] + DelayOf(b[n + 1])
  BY <1>4, <1>6 DEF Clocks
<1> QED BY <1>1, <1>4, <1>5, <1>7 DEF b, h

LEMMA ClockNone == \A s : Len(s) \in Nat => Clock(s)[0] = 0
<1> SUFFICES ASSUME NEW s, Len(s) \in Nat PROVE Clock(s)[0] = 0
  OBVIOUS
<1>1. Clocks(Clock(s), s, Len(s))
  BY ClockIs
<1> DEFINE g == Clock(s)
<1>2. Clocks(g, s, Len(s)) /\ 0 \in 0 .. Len(s)
  BY <1>1
<1> HIDE DEF g
<1>3. g[0] = 0
  BY <1>2 DEF Clocks
<1> QED BY <1>3 DEF g

-----------------------------------------------------------------------------
(* A list of lists, flattened: one list for each element of another list.  *)
Mapped(f, s) == FlattenSeq([i \in DOMAIN s |-> f[s[i]]])

LEMMA IsSeq ==
  ASSUME NEW S, NEW n \in Nat, NEW f \in [1 .. n -> S]
  PROVE  f \in Seq(S)
BY SeqDef

LEMMA PairConcat ==
  ASSUME NEW S, NEW x \in S, NEW y \in S
  PROVE  <<x>> \o <<y>> = <<x, y>>
<1> DEFINE s == <<x>>
           t == <<y>>
           p == <<x, y>>
<1>1. /\ s \in Seq(S) /\ Len(s) = 1 /\ s[1] = x
      /\ t \in Seq(S) /\ Len(t) = 1 /\ t[1] = y
      /\ p \in Seq(S) /\ Len(p) = 2 /\ p[1] = x /\ p[2] = y
  OBVIOUS
<1> HIDE DEF s, t, p
<1>2. s \o t \in Seq(S) /\ Len(s \o t) = 2 /\ (s \o t)[1] = x /\ (s \o t)[2] = y
  BY <1>1, ConcatProperties
<1>3. s \o t = p
  BY <1>1, <1>2, SeqEqual
<1> QED BY <1>3 DEF s, t, p

LEMMA MapType ==
  ASSUME NEW S, NEW T, NEW f \in [S -> T], NEW s \in Seq(S)
  PROVE  [i \in DOMAIN s |-> f[s[i]]] \in Seq(T)
<1>1. Len(s) \in Nat /\ DOMAIN s = 1 .. Len(s) /\ \A i \in 1 .. Len(s) : s[i] \in S
  BY LenProperties, ElementOfSeq
<1>2. [i \in DOMAIN s |-> f[s[i]]] \in [1 .. Len(s) -> T]
  BY <1>1
<1> QED BY <1>1, <1>2, SeqDef

LEMMA MapAppend ==
  ASSUME NEW S, NEW T, NEW f \in [S -> T], NEW s \in Seq(S), NEW x \in S
  PROVE  [i \in DOMAIN Append(s, x) |-> f[Append(s, x)[i]]]
           = Append([i \in DOMAIN s |-> f[s[i]]], f[x])
<1> DEFINE b == Append(s, x)
           m == [i \in DOMAIN s |-> f[s[i]]]
           l == [i \in DOMAIN b |-> f[b[i]]]
           r == Append(m, f[x])
<1>1. Len(s) \in Nat /\ DOMAIN s = 1 .. Len(s)
  BY LenProperties
<1>2. b \in Seq(S) /\ Len(b) = Len(s) + 1 /\ b[Len(s) + 1] = x /\ \A i \in 1 .. Len(s) : b[i] = s[i]
  BY AppendProperties
<1>3. DOMAIN b = 1 .. Len(s) + 1
  BY <1>2, LenProperties
<1> HIDE DEF b
<1>4. m \in Seq(T) /\ l \in Seq(T) /\ f[x] \in T
  BY <1>2, MapType
<1>5. Len(m) = Len(s)
  <2>1. m = [i \in 1 .. Len(s) |-> f[s[i]]]
    BY <1>1
  <2> QED BY <1>1, <2>1
<1>6. Len(l) = Len(s) + 1
  <2>1. l = [i \in 1 .. Len(s) + 1 |-> f[b[i]]]
    BY <1>3
  <2> QED BY <1>1, <2>1
<1>7. /\ r \in Seq(T) /\ Len(r) = Len(s) + 1 /\ r[Len(s) + 1] = f[x]
      /\ \A i \in 1 .. Len(s) : r[i] = m[i]
  <2> HIDE DEF m
  <2> QED BY <1>4, <1>5, AppendProperties
<1>8. ASSUME NEW i \in 1 .. Len(s) + 1 PROVE l[i] = r[i]
  <2>1. i = Len(s) + 1 \/ i \in 1 .. Len(s)
    BY <1>1
  <2>2. l[i] = f[b[i]]
    BY <1>3
  <2>3. i \in 1 .. Len(s) => m[i] = f[s[i]]
    BY <1>1
  <2> HIDE DEF l, r, m
  <2> QED BY <1>2, <1>7, <2>1, <2>2, <2>3
<1> HIDE DEF l, r
<1>9. l = r
  BY <1>4, <1>6, <1>7, <1>8, SeqEqual
<1> QED BY <1>9 DEF l, r, b

LEMMA MappedNone == \A f : Mapped(f, <<>>) = <<>>
<1> SUFFICES ASSUME NEW f PROVE Mapped(f, <<>>) = <<>>
  OBVIOUS
<1>1. [i \in DOMAIN <<>> |-> f[<<>>[i]]] = <<>>
  OBVIOUS
<1> QED BY <1>1, FlattenNone DEF Mapped

LEMMA MappedType ==
  ASSUME NEW S, NEW T, NEW f \in [S -> Seq(T)], NEW s \in Seq(S)
  PROVE  Mapped(f, s) \in Seq(T)
<1> DEFINE m == [i \in DOMAIN s |-> f[s[i]]]
<1>1. m \in Seq(Seq(T))
  BY MapType
<1>2. Mapped(f, s) = FlattenSeq(m)
  BY DEF Mapped
<1> HIDE DEF m
<1> QED BY <1>1, <1>2, FlattenType

LEMMA MappedAppend ==
  ASSUME NEW S, NEW T, NEW f \in [S -> Seq(T)], NEW s \in Seq(S), NEW x \in S
  PROVE  Mapped(f, Append(s, x)) = Mapped(f, s) \o f[x]
<1> DEFINE m == [i \in DOMAIN s |-> f[s[i]]]
<1>1. m \in Seq(Seq(T)) /\ f[x] \in Seq(T)
  BY MapType
<1>2. Mapped(f, Append(s, x)) = FlattenSeq(Append(m, f[x]))
  <2> DEFINE l == [i \in DOMAIN Append(s, x) |-> f[Append(s, x)[i]]]
  <2>1. l = Append(m, f[x])
    BY MapAppend
  <2>2. Mapped(f, Append(s, x)) = FlattenSeq(l)
    BY DEF Mapped
  <2> HIDE DEF l, m
  <2> QED BY <2>1, <2>2
<1>3. Mapped(f, s) = FlattenSeq(m)
  BY DEF Mapped
<1> HIDE DEF m
<1> QED BY <1>1, <1>2, <1>3, FlattenAppend

(* Empty lists leave nothing, and one list among empty ones leaves itself. *)
LEMMA FlattenEmpty ==
  ASSUME NEW S, NEW s \in Seq(Seq(S)), \A i \in 1 .. Len(s) : s[i] = <<>>
  PROVE  FlattenSeq(s) = <<>>
<1> DEFINE G == {t \in Seq(Seq(S)) : (\A i \in 1 .. Len(t) : t[i] = <<>>) => FlattenSeq(t) = <<>>}
<1>1. <<>> \in G
  BY FlattenNone, EmptySeq
<1>2. ASSUME NEW t \in Seq(Seq(S)), NEW x \in Seq(S), t \in G PROVE Append(t, x) \in G
  <2> DEFINE b == Append(t, x)
  <2>1. Len(t) \in Nat /\ b \in Seq(Seq(S)) /\ Len(b) = Len(t) + 1 /\ b[Len(t) + 1] = x
        /\ \A i \in 1 .. Len(t) : b[i] = t[i]
    BY LenProperties, AppendProperties
  <2>2. FlattenSeq(b) = FlattenSeq(t) \o x
    BY FlattenAppend
  <2> HIDE DEF b
  <2>3. ASSUME \A i \in 1 .. Len(b) : b[i] = <<>> PROVE FlattenSeq(b) = <<>>
    <3>1. x = <<>> /\ \A i \in 1 .. Len(t) : t[i] = <<>>
      BY <2>1, <2>3
    <3>2. FlattenSeq(t) = <<>>
      BY <1>2, <3>1
    <3>3. <<>> \o <<>> = <<>>
      BY EmptySeq, ConcatEmptySeq
    <3> QED BY <2>2, <3>1, <3>2, <3>3
  <2>4. b \in G
    BY <2>1, <2>3
  <2> QED BY <2>4 DEF b
<1> HIDE DEF G
<1>3. s \in G
  BY <1>1, <1>2, ListInduction
<1> QED BY <1>3 DEF G

LEMMA FlattenOne ==
  ASSUME NEW S, NEW s \in Seq(Seq(S)), NEW j \in 1 .. Len(s),
         \A i \in 1 .. Len(s) : i # j => s[i] = <<>>
  PROVE  FlattenSeq(s) = s[j]
<1> DEFINE Only(t) == \A k \in 1 .. Len(t) :
                        (\A i \in 1 .. Len(t) : i # k => t[i] = <<>>) => FlattenSeq(t) = t[k]
           G == {t \in Seq(Seq(S)) : Only(t)}
<1>1. <<>> \in G
  BY EmptySeq
<1>2. ASSUME NEW t \in Seq(Seq(S)), NEW x \in Seq(S), t \in G PROVE Append(t, x) \in G
  <2> DEFINE b == Append(t, x)
  <2>1. Len(t) \in Nat /\ b \in Seq(Seq(S)) /\ Len(b) = Len(t) + 1 /\ b[Len(t) + 1] = x
        /\ \A i \in 1 .. Len(t) : b[i] = t[i]
    BY LenProperties, AppendProperties
  <2>2. FlattenSeq(b) = FlattenSeq(t) \o x
    BY FlattenAppend
  <2> HIDE DEF b
  <2>3. ASSUME NEW k \in 1 .. Len(b), \A i \in 1 .. Len(b) : i # k => b[i] = <<>>
        PROVE  FlattenSeq(b) = b[k]
    <3>1. CASE k = Len(t) + 1
      <4>1. ASSUME NEW i \in 1 .. Len(t) PROVE t[i] = <<>>
        <5>1. i \in 1 .. Len(b) /\ i # k
          BY <2>1, <3>1
        <5> QED BY <2>1, <2>3, <5>1
      <4>2. FlattenSeq(t) = <<>>
        BY <4>1, FlattenEmpty
      <4> QED BY <2>1, <2>2, <3>1, <4>2, ConcatEmptySeq
    <3>2. CASE k # Len(t) + 1
      <4>1. k \in 1 .. Len(t)
        BY <2>1, <3>2
      <4>2. x = <<>>
        <5>1. Len(t) + 1 \in 1 .. Len(b) /\ Len(t) + 1 # k
          BY <2>1, <3>2
        <5> QED BY <2>1, <2>3, <5>1
      <4>5. ASSUME NEW i \in 1 .. Len(t), i # k PROVE t[i] = <<>>
        <5>1. i \in 1 .. Len(b)
          BY <2>1
        <5> QED BY <2>1, <2>3, <4>5, <5>1
      <4>3. FlattenSeq(t) = t[k]
        BY <1>2, <4>1, <4>5
      <4>4. t[k] \o <<>> = t[k]
        <5>1. t[k] \in Seq(S)
          BY <4>1, ElementOfSeq
        <5> QED BY <5>1, ConcatEmptySeq
      <4> QED BY <2>1, <2>2, <4>1, <4>2, <4>3, <4>4
    <3> QED BY <3>1, <3>2
  <2>4. b \in G
    BY <2>1, <2>3
  <2> QED BY <2>4 DEF b
<1> HIDE DEF G
<1>3. s \in G
  BY <1>1, <1>2, ListInduction
<1> QED BY <1>3 DEF G

(* One list that is not empty leaves something.                            *)
LEMMA FlattenSome ==
  ASSUME NEW S, NEW s \in Seq(Seq(S)), NEW j \in 1 .. Len(s), s[j] # <<>>
  PROVE  FlattenSeq(s) # <<>>
<1> DEFINE G == {t \in Seq(Seq(S)) : \A k \in 1 .. Len(t) : t[k] # <<>> => FlattenSeq(t) # <<>>}
<1>1. <<>> \in G
  BY EmptySeq
<1>2. ASSUME NEW t \in Seq(Seq(S)), NEW x \in Seq(S), t \in G PROVE Append(t, x) \in G
  <2> DEFINE b == Append(t, x)
  <2>1. Len(t) \in Nat /\ b \in Seq(Seq(S)) /\ Len(b) = Len(t) + 1 /\ b[Len(t) + 1] = x
        /\ \A i \in 1 .. Len(t) : b[i] = t[i]
    BY LenProperties, AppendProperties
  <2>2. FlattenSeq(b) = FlattenSeq(t) \o x
    BY FlattenAppend
  <2> HIDE DEF b
  <2>3. ASSUME NEW k \in 1 .. Len(b), b[k] # <<>> PROVE FlattenSeq(b) # <<>>
    <3>1. FlattenSeq(t) \in Seq(S)
      BY FlattenType
    <3>2. FlattenSeq(t) \o x = <<>> => FlattenSeq(t) = <<>> /\ x = <<>>
      BY <3>1, ConcatEqualIffEmpty
    <3>3. k = Len(t) + 1 \/ k \in 1 .. Len(t)
      BY <2>1
    <3> QED BY <1>2, <2>1, <2>2, <2>3, <3>2, <3>3
  <2>4. b \in G
    BY <2>1, <2>3
  <2> QED BY <2>4 DEF b
<1> HIDE DEF G
<1>3. s \in G
  BY <1>1, <1>2, ListInduction
<1> QED BY <1>3 DEF G

-----------------------------------------------------------------------------
(* Names and events *)

(* Names that import accepts, the events without typed text they make, and *)
(* all accepted events.                                                    *)
Names == {{s} : s \in Symbols} \union {n \in SUBSET Range(Modifiers) : n # {}}
Stroking == [press : Names] \union [release : Names]
Plain == Stroking \union [delay : Nat]
Accepts == Plain \union [type : Seq(DOMAIN Characters)]
StrokeType == [kind : Kinds, key : Byte]

LEMMA Bits ==
  /\ DOMAIN Modifiers = 1 .. 8
  /\ FirstModifier = 224
  /\ \A j \in 1 .. 8 : FirstModifier + j - 1 \in Byte /\ Modifiers[j] \in Range(Modifiers)
  /\ \A n \in Range(Modifiers) : \E j \in 1 .. 8 : n = Modifiers[j]
  /\ \A i, j \in 1 .. 8 : Modifiers[i] = Modifiers[j] => i = j
<1>1. DOMAIN Modifiers = 1 .. 8 /\ \A i, j \in 1 .. 8 : Modifiers[i] = Modifiers[j] => i = j
  BY DocumentAssumption
<1>2. \A j \in 1 .. 8 : Modifiers[j] \in Range(Modifiers)
  BY <1>1 DEF Range
<1>3. \A n \in Range(Modifiers) : \E j \in 1 .. 8 : n = Modifiers[j]
  BY <1>1 DEF Range
<1>4. FirstModifier = 224 /\ \A j \in 1 .. 8 : FirstModifier + j - 1 \in Byte
  BY DEF FirstModifier, Byte
<1> QED BY <1>1, <1>2, <1>3, <1>4

(* A modifier's name is not a key's.                                       *)
LEMMA Apart ==
  /\ \A s \in Symbols : s \notin Range(Modifiers)
  /\ \A n : IsKey(n) => ~IsModifiers(n)
  /\ \A n : n \in Names <=> IsKey(n) \/ IsModifiers(n)
  /\ ~IsKey({Unprintable}) /\ ~IsModifiers({Unprintable})
<1>1. Range(Modifiers) \intersect Symbols = {} /\ Unprintable \notin Range(Modifiers) \union Symbols
  BY DocumentAssumption
<1>2. \A s \in Symbols : s \notin Range(Modifiers)
  BY <1>1
<1>3. \A n : IsKey(n) => ~IsModifiers(n)
  BY <1>2 DEF IsKey, IsModifiers
<1>4. \A n : n \in Names <=> IsKey(n) \/ IsModifiers(n)
  BY DEF Names, IsKey, IsModifiers
<1>5. ~IsKey({Unprintable}) /\ ~IsModifiers({Unprintable})
  BY <1>1 DEF IsKey, IsModifiers
<1> QED BY <1>2, <1>3, <1>4, <1>5

LEMMA KeyStroke ==
  ASSUME NEW s \in Symbols
  PROVE  /\ Strokes({s}) = <<[kind |-> "NormalKey", key |-> KeyCodes[s]]>>
         /\ {s} \in Names /\ KeyCodes[s] \in Byte
<1>1. IsKey({s}) /\ (CHOOSE r \in Symbols : {s} = {r}) = s
  BY DEF IsKey
<1>2. KeyCodes[s] \in Byte
  BY DocumentAssumption
<1>3. {s} \in Names
  BY DEF Names
<1> QED BY <1>1, <1>2, <1>3 DEF Strokes

(* The strokes of modifiers are one, or none, for each of the eight bits.  *)
Bit(name, i) ==
  IF Modifiers[i] \in name THEN <<[kind |-> "ModifyKey", key |-> FirstModifier + i - 1]>> ELSE <<>>

LEMMA BitType ==
  ASSUME NEW name PROVE [i \in 1 .. 8 |-> Bit(name, i)] \in Seq(Seq(StrokeType))
<1>1. ASSUME NEW i \in 1 .. 8 PROVE Bit(name, i) \in Seq(StrokeType)
  <2> DEFINE r == [kind |-> "ModifyKey", key |-> FirstModifier + i - 1]
  <2>1. r \in StrokeType
    BY Bits DEF StrokeType, Kinds
  <2>2. Bit(name, i) = IF Modifiers[i] \in name THEN <<r>> ELSE <<>>
    BY DEF Bit
  <2> HIDE DEF r
  <2>3. <<r>> \in Seq(StrokeType) /\ <<>> \in Seq(StrokeType)
    BY <2>1, EmptySeq
  <2> QED BY <2>2, <2>3
<1> DEFINE l == [i \in 1 .. 8 |-> Bit(name, i)]
<1>2. l \in [1 .. 8 -> Seq(StrokeType)]
  BY <1>1
<1> HIDE DEF l
<1>3. l \in Seq(Seq(StrokeType))
  BY <1>2, 8 \in Nat, IsSeq
<1> QED BY <1>3 DEF l

LEMMA StrokesOfModifiers ==
  ASSUME NEW name, IsModifiers(name)
  PROVE  Strokes(name) = FlattenSeq([i \in 1 .. 8 |-> Bit(name, i)])
<1>1. ~IsKey(name) /\ DOMAIN Modifiers = 1 .. 8
  BY Apart, Bits
<1> QED BY <1>1 DEF Strokes, Bit

LEMMA ModifierStroke ==
  ASSUME NEW j \in 1 .. 8
  PROVE  /\ Strokes({Modifiers[j]}) = <<[kind |-> "ModifyKey", key |-> FirstModifier + j - 1]>>
         /\ {Modifiers[j]} \in Names
<1> DEFINE name == {Modifiers[j]}
           l == [i \in 1 .. 8 |-> Bit(name, i)]
           T == StrokeType
<1>1. IsModifiers(name)
  BY Bits DEF IsModifiers
<1>2. Strokes(name) = FlattenSeq(l)
  BY <1>1, StrokesOfModifiers
<1>3. l \in Seq(Seq(T)) /\ Len(l) = 8
  BY BitType
<1>4. \A i \in 1 .. 8 : l[i] = Bit(name, i)
  OBVIOUS
<1>5. \A i \in 1 .. 8 : Modifiers[i] = Modifiers[j] => i = j
  BY Bits
<1>6. \A i \in 1 .. 8 : i # j => Bit(name, i) = <<>>
  BY <1>5 DEF Bit
<1>7. Bit(name, j) = <<[kind |-> "ModifyKey", key |-> FirstModifier + j - 1]>>
  BY DEF Bit
<1>8. name \in Names
  BY <1>1, Apart
<1> HIDE DEF l, name, T
<1>9. FlattenSeq(l) = l[j]
  <2>1. j \in 1 .. Len(l) /\ \A i \in 1 .. Len(l) : i # j => l[i] = <<>>
    BY <1>3, <1>4, <1>6
  <2> QED BY <1>3, <2>1, FlattenOne
<1> QED BY <1>2, <1>4, <1>7, <1>8, <1>9 DEF name

(* Every accepted name has strokes.                                        *)
LEMMA StrokesType ==
  ASSUME NEW name \in Names
  PROVE  Strokes(name) \in Seq(StrokeType) /\ Len(Strokes(name)) \in Nat \ {0}
<1>1. ASSUME IsKey(name) PROVE Strokes(name) \in Seq(StrokeType) /\ Strokes(name) # <<>>
  <2>1. PICK s \in Symbols : name = {s}
    BY <1>1 DEF IsKey
  <2> DEFINE r == [kind |-> "NormalKey", key |-> KeyCodes[s]]
  <2>2. Strokes(name) = <<r>> /\ r \in StrokeType
    BY <2>1, KeyStroke DEF StrokeType, Kinds
  <2> HIDE DEF r
  <2> QED BY <2>2
<1>2. ASSUME IsModifiers(name) PROVE Strokes(name) \in Seq(StrokeType) /\ Strokes(name) # <<>>
  <2> DEFINE l == [i \in 1 .. 8 |-> Bit(name, i)]
             T == StrokeType
  <2>1. PICK j \in 1 .. 8 : Modifiers[j] \in name
    BY <1>2, Bits DEF IsModifiers
  <2>2. l \in Seq(Seq(T)) /\ Len(l) = 8 /\ Strokes(name) = FlattenSeq(l) /\ l[j] = Bit(name, j)
    BY <1>2, BitType, StrokesOfModifiers
  <2>3. Bit(name, j) # <<>>
    BY <2>1 DEF Bit
  <2> HIDE DEF l
  <2>4. FlattenSeq(l) # <<>> /\ FlattenSeq(l) \in Seq(T)
    BY <2>2, <2>3, FlattenSome, FlattenType
  <2> QED BY <2>2, <2>4
<1>3. Strokes(name) \in Seq(StrokeType) /\ Strokes(name) # <<>>
  BY <1>1, <1>2, Apart
<1> QED BY <1>3, EmptySeq

-----------------------------------------------------------------------------
(* Compiling *)

LEMMA Words ==
  /\ DelayLimit \in Nat \ {0} /\ WordLimit \in Nat \ {0} /\ DelayLimit <= WordLimit
BY DocumentAssumption

(* Which attributes an event has.                                          *)
LEMMA Forms ==
  /\ \A n : /\ ~Has([press |-> n], "delay") /\ ~Has([press |-> n], "type")
            /\ Has([press |-> n], "press")
            /\ NameIn([press |-> n]) = n /\ EdgeOf([press |-> n]) = "Down"
  /\ \A n : /\ ~Has([release |-> n], "delay") /\ ~Has([release |-> n], "type")
            /\ Has([release |-> n], "release") /\ ~Has([release |-> n], "press")
            /\ NameIn([release |-> n]) = n /\ EdgeOf([release |-> n]) = "Up"
  /\ \A d : /\ Has([delay |-> d], "delay") /\ ~Has([delay |-> d], "type")
            /\ ~Has([delay |-> d], "press") /\ ~Has([delay |-> d], "release")
  /\ \A t : /\ Has([type |-> t], "type") /\ ~Has([type |-> t], "delay")
            /\ ~Has([type |-> t], "press") /\ ~Has([type |-> t], "release")
BY DEF Has, NameIn, EdgeOf

LEMMA StrokingForms ==
  ASSUME NEW e \in Stroking
  PROVE  /\ NameIn(e) \in Names /\ EdgeOf(e) \in Edges
         /\ ~Has(e, "delay") /\ ~Has(e, "type")
<1>1. ASSUME e \in [press : Names] PROVE \E n \in Names : e = [press |-> n]
  BY <1>1
<1>2. ASSUME e \in [release : Names] PROVE \E n \in Names : e = [release |-> n]
  BY <1>2
<1>3. (\E n \in Names : e = [press |-> n]) \/ \E n \in Names : e = [release |-> n]
  BY <1>1, <1>2 DEF Stroking
<1>4. "Down" \in Edges /\ "Up" \in Edges
  BY DEF Edges
<1>5. ASSUME \E n \in Names : e = [press |-> n]
      PROVE  NameIn(e) \in Names /\ EdgeOf(e) \in Edges /\ ~Has(e, "delay") /\ ~Has(e, "type")
  BY <1>4, <1>5, Forms, Zenon
<1>6. ASSUME \E n \in Names : e = [release |-> n]
      PROVE  NameIn(e) \in Names /\ EdgeOf(e) \in Edges /\ ~Has(e, "delay") /\ ~Has(e, "type")
  BY <1>4, <1>6, Forms, Zenon
<1> QED BY <1>3, <1>5, <1>6

LEMMA PlainForms ==
  ASSUME NEW e \in Plain
  PROVE  e \in Stroking \/ \E d \in Nat : e = [delay |-> d]
BY DEF Plain

(* The actions of one event: only the first waits.                         *)
ActionAt(e, p, k) ==
  [edge |-> EdgeOf(e), kind |-> Strokes(NameIn(e))[k].kind, key |-> Strokes(NameIn(e))[k].key,
   delay |-> IF k = 1 THEN p % DelayLimit ELSE 0]

LEMMA ActionsOfType ==
  ASSUME NEW e \in Stroking, NEW p \in Nat
  PROVE  /\ ActionsOf(e, p) \in Seq(Actions)
         /\ Len(ActionsOf(e, p)) = Len(Strokes(NameIn(e)))
         /\ Len(Strokes(NameIn(e))) \in Nat \ {0}
         /\ \A k \in 1 .. Len(Strokes(NameIn(e))) : ActionsOf(e, p)[k] = ActionAt(e, p, k)
<1> DEFINE s == Strokes(NameIn(e))
           n == Len(s)
           l == ActionsOf(e, p)
<1>1. NameIn(e) \in Names /\ EdgeOf(e) \in Edges
  BY StrokingForms
<1>2. s \in Seq(StrokeType) /\ n \in Nat \ {0}
  BY <1>1, StrokesType
<1>3. DOMAIN s = 1 .. n /\ \A k \in 1 .. n : s[k] \in StrokeType
  <2> HIDE DEF s
  <2> QED BY <1>2, LenProperties, ElementOfSeq
<1>4. l = [k \in 1 .. n |-> ActionAt(e, p, k)]
  BY <1>3 DEF ActionsOf, ActionAt
<1>5. p % DelayLimit \in 0 .. DelayLimit - 1 /\ 0 \in 0 .. DelayLimit - 1
  BY Words
<1>6. ASSUME NEW k \in 1 .. n PROVE ActionAt(e, p, k) \in Actions
  <2>1. s[k].kind \in Kinds /\ s[k].key \in Byte
    BY <1>3 DEF StrokeType
  <2> DEFINE d == IF k = 1 THEN p % DelayLimit ELSE 0
  <2>2. d \in 0 .. DelayLimit - 1
    BY <1>5
  <2>3. ActionAt(e, p, k) = [edge |-> EdgeOf(e), kind |-> s[k].kind, key |-> s[k].key, delay |-> d]
    BY DEF ActionAt
  <2> HIDE DEF s, d
  <2> QED BY <1>1, <2>1, <2>2, <2>3 DEF Actions
<1> HIDE DEF l, s
<1>7. l \in [1 .. n -> Actions]
  BY <1>4, <1>6
<1>8. l \in Seq(Actions) /\ Len(l) = n
  <2>1. l \in Seq(Actions)
    BY <1>2, <1>7, IsSeq
  <2> QED BY <1>2, <1>7, <2>1
<1>9. \A k \in 1 .. n : l[k] = ActionAt(e, p, k)
  BY <1>4
<1> QED BY <1>2, <1>8, <1>9 DEF l, s

(* The compiler's states, and what one event does to them.                 *)
States == [actions : Seq(Actions), pending : 0 .. (WordLimit - 1), overflow : BOOLEAN]

LEMMA StrokeStep ==
  ASSUME NEW r \in States, NEW e \in Stroking
  PROVE  CompileStep(r, e) = [actions |-> r.actions \o ActionsOf(e, r.pending), pending |-> 0,
                              overflow |-> r.overflow]
<1>1. ~Has(e, "delay")
  BY StrokingForms
<1>2. CompileStep(r, e) = [r EXCEPT !.pending = 0, !.actions = @ \o ActionsOf(e, r.pending)]
  BY <1>1 DEF CompileStep
<1>3. r = [actions |-> r.actions, pending |-> r.pending, overflow |-> r.overflow]
  BY DEF States
<1> QED BY <1>2, <1>3

LEMMA DelayStep ==
  ASSUME NEW r \in States, NEW d \in Nat
  PROVE  CompileStep(r, [delay |-> d]) =
           [actions |-> r.actions, pending |-> (r.pending + d) % WordLimit,
            overflow |-> r.overflow \/ r.pending + d >= WordLimit]
<1> DEFINE e == [delay |-> d]
<1>1. Has(e, "delay") /\ e.delay = d
  BY Forms
<1> HIDE DEF e
<1>2. CompileStep(r, e) = [r EXCEPT !.pending = (@ + e.delay) % WordLimit,
                                    !.overflow = @ \/ r.pending + e.delay >= WordLimit]
  BY <1>1 DEF CompileStep
<1>3. r = [actions |-> r.actions, pending |-> r.pending, overflow |-> r.overflow]
  BY DEF States
<1>4. CompileStep(r, e) = [actions |-> r.actions, pending |-> (r.pending + d) % WordLimit,
                           overflow |-> r.overflow \/ r.pending + d >= WordLimit]
  BY <1>1, <1>2, <1>3
<1> QED BY <1>4 DEF e

LEMMA StepType ==
  ASSUME NEW r \in States, NEW e \in Plain
  PROVE  CompileStep(r, e) \in States
<1>1. r.actions \in Seq(Actions) /\ r.pending \in Nat /\ r.overflow \in BOOLEAN
  BY Words DEF States
<1>2. ASSUME e \in Stroking PROVE CompileStep(r, e) \in States
  <2> DEFINE a == r.actions \o ActionsOf(e, r.pending)
  <2>1. a \in Seq(Actions)
    <3>1. ActionsOf(e, r.pending) \in Seq(Actions)
      BY <1>1, <1>2, ActionsOfType
    <3> QED BY <1>1, <3>1, ConcatProperties
  <2>2. CompileStep(r, e) = [actions |-> a, pending |-> 0, overflow |-> r.overflow]
    BY <1>2, StrokeStep
  <2>3. 0 \in 0 .. WordLimit - 1
    BY Words
  <2> HIDE DEF a
  <2> QED BY <1>1, <2>1, <2>2, <2>3 DEF States
<1>3. ASSUME NEW d \in Nat, e = [delay |-> d] PROVE CompileStep(r, e) \in States
  <2> DEFINE q == (r.pending + d) % WordLimit
             o == r.overflow \/ r.pending + d >= WordLimit
  <2>1. CompileStep(r, e) = [actions |-> r.actions, pending |-> q, overflow |-> o]
    BY <1>3, DelayStep
  <2>2. q \in 0 .. WordLimit - 1
    BY <1>1, Words
  <2>3. o \in BOOLEAN
    BY <1>1
  <2> HIDE DEF q, o
  <2> QED BY <1>1, <2>1, <2>2, <2>3 DEF States
<1> QED BY <1>2, <1>3, PlainForms

LEMMA RunType == ASSUME NEW s \in Seq(Plain) PROVE Run(s) \in States
<1> DEFINE G == {t \in Seq(Plain) : Run(t) \in States}
<1>1. <<>> \in G
  <2>1. Start \in States
    BY Words, EmptySeq DEF Start, States
  <2> QED BY <2>1, RunNone, EmptySeq
<1>2. ASSUME NEW t \in Seq(Plain), NEW x \in Plain, t \in G PROVE Append(t, x) \in G
  <2>1. CompileStep(Run(t), x) \in States
    BY <1>2, StepType
  <2>2. Run(Append(t, x)) = CompileStep(Run(t), x)
    BY RunAppend
  <2> QED BY <2>1, <2>2, AppendProperties
<1> HIDE DEF G
<1>3. s \in G
  BY <1>1, <1>2, ListInduction
<1> QED BY <1>3 DEF G

-----------------------------------------------------------------------------
(* Typed text and whole blocks *)

LEMMA Letter ==
  ASSUME NEW c \in DOMAIN Characters
  PROVE  /\ Characters[c].symbol \in Symbols /\ Characters[c].shift \in BOOLEAN
         /\ {Characters[c].symbol} \in Names /\ {"LShift"} \in Names
<1>1. Characters[c] \in [symbol : Symbols, shift : BOOLEAN] /\ Modifiers[2] = "LShift"
  BY DocumentAssumption
<1>2. Characters[c].symbol \in Symbols /\ Characters[c].shift \in BOOLEAN
  BY <1>1
<1>3. {Modifiers[2]} \in Names
  BY 2 \in 1 .. 8, ModifierStroke
<1>4. {Characters[c].symbol} \in Names
  BY <1>2, KeyStroke
<1> QED BY <1>1, <1>2, <1>3, <1>4

LEMMA PlainEvents ==
  /\ \A n \in Names : [press |-> n] \in Stroking /\ [release |-> n] \in Stroking
  /\ \A d \in Nat : [delay |-> d] \in Plain
  /\ Stroking \subseteq Plain /\ Tick \in Plain /\ Plain \subseteq Accepts
BY DEF Plain, Stroking, Accepts, Tick

LEMMA TapType == ASSUME NEW n \in Names PROVE Tap(n) \in Seq(Plain)
<1> DEFINE p == [press |-> n]
           r == [release |-> n]
<1>1. p \in Plain /\ r \in Plain /\ Tick \in Plain
  BY PlainEvents
<1>2. Tap(n) = <<Tick, p, Tick, r>>
  BY DEF Tap
<1> HIDE DEF p, r
<1> QED BY <1>1, <1>2

LEMMA KeystrokesType ==
  ASSUME NEW c \in DOMAIN Characters
  PROVE  Keystrokes(c) \in Seq(Plain)
<1> DEFINE t == Tap({Characters[c].symbol})
           p == [press |-> {"LShift"}]
           r == [release |-> {"LShift"}]
<1>1. t \in Seq(Plain) /\ p \in Plain /\ r \in Plain /\ Tick \in Plain
  BY Letter, TapType, PlainEvents
<1>2. Keystrokes(c) = IF Characters[c].shift THEN <<Tick, p>> \o t \o <<Tick, r>> ELSE t
  BY DEF Keystrokes
<1> HIDE DEF t, p, r
<1>3. <<Tick, p>> \in Seq(Plain) /\ <<Tick, r>> \in Seq(Plain)
  BY <1>1
<1>4. <<Tick, p>> \o t \in Seq(Plain)
  BY <1>1, <1>3, ConcatProperties
<1>5. <<Tick, p>> \o t \o <<Tick, r>> \in Seq(Plain)
  BY <1>3, <1>4, ConcatProperties
<1> QED BY <1>1, <1>2, <1>5

LEMMA TypingIs ==
  /\ Typing(<<>>) = <<>>
  /\ \A t \in Seq(DOMAIN Characters) : Typing(t) \in Seq(Plain)
  /\ \A t \in Seq(DOMAIN Characters), c \in DOMAIN Characters :
       Typing(Append(t, c)) = Typing(t) \o Keystrokes(c)
<1> DEFINE C == DOMAIN Characters
           f == [c \in C |-> Keystrokes(c)]
<1>1. f \in [C -> Seq(Plain)]
  BY KeystrokesType
<1>2. ASSUME NEW t \in Seq(C) PROVE Typing(t) = Mapped(f, t)
  <2>1. \A k \in DOMAIN t : t[k] \in C
    BY LenProperties, ElementOfSeq
  <2>2. [k \in DOMAIN t |-> Keystrokes(t[k])] = [k \in DOMAIN t |-> f[t[k]]]
    BY <2>1
  <2> QED BY <2>2 DEF Typing, Mapped
<1>3. <<>> \in Seq(C)
  BY EmptySeq
<1>4. \A c \in C : f[c] = Keystrokes(c)
  OBVIOUS
<1> HIDE DEF f
<1>5. Typing(<<>>) = <<>>
  BY <1>2, <1>3, MappedNone
<1>6. \A t \in Seq(C) : Typing(t) \in Seq(Plain)
  BY <1>1, <1>2, MappedType
<1>7. ASSUME NEW t \in Seq(C), NEW c \in C PROVE Typing(Append(t, c)) = Typing(t) \o Keystrokes(c)
  <2>1. Append(t, c) \in Seq(C)
    BY AppendProperties
  <2>2. Mapped(f, Append(t, c)) = Mapped(f, t) \o f[c]
    BY <1>1, MappedAppend
  <2> QED BY <1>2, <1>4, <2>1, <2>2
<1> QED BY <1>5, <1>6, <1>7

LEMMA StepsType ==
  /\ \A e \in Plain : Steps(e) = <<e>>
  /\ \A e \in Accepts : Steps(e) \in Seq(Plain)
<1>1. ASSUME NEW e \in Plain PROVE ~Has(e, "type")
  <2>1. ASSUME NEW d \in Nat, e = [delay |-> d] PROVE ~Has(e, "type")
    BY <2>1, Forms
  <2> QED BY <2>1, PlainForms, StrokingForms
<1>2. \A e \in Plain : Steps(e) = <<e>>
  BY <1>1 DEF Steps
<1>3. ASSUME NEW t \in Seq(DOMAIN Characters), NEW e, e = [type |-> t] PROVE Steps(e) \in Seq(Plain)
  <2>1. Has(e, "type") /\ e.type = t
    BY <1>3, Forms
  <2> QED BY <2>1, TypingIs DEF Steps
<1>4. \A e \in Accepts : e \in Plain \/ \E t \in Seq(DOMAIN Characters) : e = [type |-> t]
  BY DEF Accepts
<1>5. \A e \in Plain : Steps(e) \in Seq(Plain)
  <2>1. \A e \in Plain : <<e>> \in Seq(Plain)
    OBVIOUS
  <2> QED BY <1>2, <2>1
<1> QED BY <1>2, <1>3, <1>4, <1>5

LEMMA ExpandedIs ==
  /\ Expanded(<<>>) = <<>>
  /\ \A s \in Seq(Accepts) : Expanded(s) \in Seq(Plain)
  /\ \A s \in Seq(Accepts), e \in Accepts : Expanded(Append(s, e)) = Expanded(s) \o Steps(e)
  /\ \A s \in Seq(Accepts), e \in Plain : Expanded(Append(s, e)) = Append(Expanded(s), e)
<1> DEFINE f == [e \in Accepts |-> Steps(e)]
<1>1. f \in [Accepts -> Seq(Plain)]
  BY StepsType
<1>2. ASSUME NEW t \in Seq(Accepts) PROVE Expanded(t) = Mapped(f, t)
  <2>1. \A k \in DOMAIN t : t[k] \in Accepts
    BY LenProperties, ElementOfSeq
  <2>2. [k \in DOMAIN t |-> Steps(t[k])] = [k \in DOMAIN t |-> f[t[k]]]
    BY <2>1
  <2> QED BY <2>2 DEF Expanded, Mapped
<1>3. <<>> \in Seq(Accepts)
  BY EmptySeq
<1>4. \A c \in Accepts : f[c] = Steps(c)
  OBVIOUS
<1> HIDE DEF f
<1>5. Expanded(<<>>) = <<>>
  BY <1>2, <1>3, MappedNone
<1>6. \A t \in Seq(Accepts) : Expanded(t) \in Seq(Plain)
  BY <1>1, <1>2, MappedType
<1>7. ASSUME NEW t \in Seq(Accepts), NEW c \in Accepts PROVE Expanded(Append(t, c)) = Expanded(t) \o Steps(c)
  <2>1. Append(t, c) \in Seq(Accepts)
    BY AppendProperties
  <2>2. Mapped(f, Append(t, c)) = Mapped(f, t) \o f[c]
    BY <1>1, MappedAppend
  <2> QED BY <1>2, <1>4, <2>1, <2>2
<1>8. ASSUME NEW t \in Seq(Accepts), NEW e \in Plain PROVE Expanded(Append(t, e)) = Append(Expanded(t), e)
  <2>1. e \in Accepts /\ Steps(e) = <<e>>
    BY PlainEvents, StepsType
  <2>2. Expanded(t) \in Seq(Plain)
    BY <1>6
  <2>3. Append(Expanded(t), e) = Expanded(t) \o <<e>>
    BY <2>2, AppendIsConcat
  <2> QED BY <1>7, <2>1, <2>3
<1> QED BY <1>5, <1>6, <1>7, <1>8

(* validate_macros, event by event.                                        *)
Acceptable(e) ==
  /\ Cardinality(DOMAIN e) = 1
  /\ Has(e, "press") \/ Has(e, "release") => IsKey(NameIn(e)) \/ IsModifiers(NameIn(e))
  /\ Has(e, "type") => Range(e.type) \subseteq DOMAIN Characters

LEMMA AcceptedEach == \A s : Accepted(s) <=> \A i \in DOMAIN s : Acceptable(s[i])
BY DEF Accepted, Acceptable

LEMMA ListIs ==
  ASSUME NEW s, IsList(s), NEW S, \A i \in DOMAIN s : s[i] \in S
  PROVE  s \in Seq(S)
<1>1. Len(s) \in Nat /\ s = [i \in 1 .. Len(s) |-> s[i]]
  BY DEF IsList
<1>2. DOMAIN s = 1 .. Len(s)
  BY <1>1
<1> DEFINE n == Len(s)
<1>3. n \in Nat /\ s = [i \in 1 .. n |-> s[i]] /\ DOMAIN s = 1 .. n
  BY <1>1, <1>2
<1> HIDE DEF n
<1>4. s \in [1 .. n -> S]
  BY <1>3
<1> QED BY <1>3, <1>4, IsSeq

(* A block that is accepted is a list of accepted events.                  *)
LEMMA AcceptedIs ==
  ASSUME NEW s, IsScript(s), Accepted(s)
  PROVE  s \in Seq(Accepts)
<1>1. ASSUME NEW i \in DOMAIN s PROVE s[i] \in Accepts
  <2> DEFINE e == s[i]
             A == {"press", "release", "delay", "type"}
  <2>1. /\ e = [a \in DOMAIN e |-> e[a]]
        /\ DOMAIN e \subseteq A
        /\ "delay" \in DOMAIN e => e.delay \in Nat
        /\ "type" \in DOMAIN e => IsList(e.type)
    BY DEF IsScript
  <2>2. Acceptable(e)
    BY AcceptedEach
  <2> HIDE DEF e
  <2>3. \E a : DOMAIN e = {a}
    <3>1. IsFiniteSet(A)
      <4>1. A = {"press"} \union {"release"} \union {"delay"} \union {"type"}
        OBVIOUS
      <4>2. \A x : IsFiniteSet({x})
        BY FS_Singleton
      <4>3. \A S, T : IsFiniteSet(S) /\ IsFiniteSet(T) => IsFiniteSet(S \union T)
        BY FS_Union
      <4> HIDE DEF A
      <4> QED BY <4>1, <4>2, <4>3
    <3>2. IsFiniteSet(DOMAIN e)
      BY <2>1, <3>1, FS_Subset
    <3> QED BY <2>2, <3>2, FS_Singleton DEF Acceptable
  <2>4. PICK a \in A : DOMAIN e = {a}
    BY <2>1, <2>3
  <2>5. CASE a = "press"
    <3>1. Has(e, "press") /\ NameIn(e) = e.press /\ e = [press |-> e.press]
      BY <2>1, <2>4, <2>5 DEF Has, NameIn
    <3>2. e.press \in Names
      BY <2>2, <3>1, Apart DEF Acceptable
    <3> QED BY <3>1, <3>2, PlainEvents DEF e
  <2>6. CASE a = "release"
    <3>1. Has(e, "release") /\ ~Has(e, "press") /\ e = [release |-> e.release]
      BY <2>1, <2>4, <2>6 DEF Has
    <3>2. NameIn(e) = e.release
      BY <3>1 DEF NameIn
    <3>3. e.release \in Names
      BY <2>2, <3>1, <3>2, Apart DEF Acceptable
    <3> QED BY <3>1, <3>3, PlainEvents DEF e
  <2>7. CASE a = "delay"
    <3>1. e = [delay |-> e.delay] /\ e.delay \in Nat
      BY <2>1, <2>4, <2>7
    <3> QED BY <3>1, PlainEvents DEF e
  <2>8. CASE a = "type"
    <3>1. Has(e, "type") /\ e = [type |-> e.type] /\ IsList(e.type)
      BY <2>1, <2>4, <2>8 DEF Has
    <3>2. Range(e.type) \subseteq DOMAIN Characters
      BY <2>2, <3>1 DEF Acceptable
    <3>3. \A j \in DOMAIN e.type : e.type[j] \in DOMAIN Characters
      BY <3>2 DEF Range
    <3>4. e.type \in Seq(DOMAIN Characters)
      BY <3>1, <3>3, ListIs
    <3> QED BY <3>1, <3>4 DEF e, Accepts
  <2> QED BY <2>5, <2>6, <2>7, <2>8
<1>2. IsList(s)
  BY DEF IsScript
<1> QED BY <1>1, <1>2, ListIs

-----------------------------------------------------------------------------
(* Printing *)

Parts == Symbols \union Range(Modifiers) \union {Unprintable}
Prints == [press : SUBSET Parts] \union [release : SUBSET Parts] \union [delay : Nat]

EventOf(action) ==
  IF action.edge = "Down" THEN [press |-> NameOf(action)] ELSE [release |-> NameOf(action)]

(* Keys that have a symbol, and modifiers.                                 *)
Named(action) ==
  \/ action.kind = "NormalKey" /\ \E s \in Symbols : KeyCodes[s] = action.key
  \/ action.kind = "ModifyKey" /\ action.key \in 224 .. 231

LEMMA ActionForm ==
  ASSUME NEW a \in Actions
  PROVE  /\ a.edge \in Edges /\ a.kind \in Kinds /\ a.delay \in 0 .. (DelayLimit - 1) /\ a.key \in Byte
         /\ a = [edge |-> a.edge, kind |-> a.kind, delay |-> a.delay, key |-> a.key]
BY DEF Actions

(* A named action prints a name that is read as the same stroke; any other *)
(* prints a name that is refused.                                          *)
LEMMA NamedName ==
  ASSUME NEW a \in Actions, Named(a)
  PROVE  /\ NameOf(a) \in Names
         /\ Strokes(NameOf(a)) = <<[kind |-> a.kind, key |-> a.key]>>
<1>1. ASSUME a.kind = "NormalKey", \E s \in Symbols : KeyCodes[s] = a.key
      PROVE  NameOf(a) \in Names /\ Strokes(NameOf(a)) = <<[kind |-> a.kind, key |-> a.key]>>
  <2> DEFINE s == CHOOSE s \in Symbols : KeyCodes[s] = a.key
  <2>1. s \in Symbols /\ KeyCodes[s] = a.key
    BY <1>1
  <2>2. NameOf(a) = {s}
    BY <1>1 DEF NameOf
  <2> HIDE DEF s
  <2> QED BY <1>1, <2>1, <2>2, KeyStroke
<1>2. ASSUME a.kind = "ModifyKey", a.key \in 224 .. 231
      PROVE  NameOf(a) \in Names /\ Strokes(NameOf(a)) = <<[kind |-> a.kind, key |-> a.key]>>
  <2> DEFINE j == a.key - FirstModifier + 1
  <2>1. j \in 1 .. 8 /\ FirstModifier + j - 1 = a.key
    BY <1>2, Bits
  <2>2. NameOf(a) = {Modifiers[j]}
    BY <1>2, <2>1, Bits DEF NameOf
  <2> HIDE DEF j
  <2> QED BY <1>2, <2>1, <2>2, ModifierStroke
<1> QED BY <1>1, <1>2 DEF Named

LEMMA UnnamedName ==
  ASSUME NEW a \in Actions, ~Named(a)
  PROVE  NameOf(a) = {Unprintable}
<1>1. ~(a.kind = "NormalKey" /\ \E s \in Symbols : KeyCodes[s] = a.key)
  BY DEF Named
<1>2. a.key - FirstModifier + 1 \in DOMAIN Modifiers => a.key \in 224 .. 231
  <2>1. a.key \in Int
    BY ActionForm DEF Byte
  <2> QED BY <2>1, Bits
<1>3. ~(a.kind = "ModifyKey" /\ a.key - FirstModifier + 1 \in DOMAIN Modifiers)
  BY <1>2 DEF Named
<1> QED BY <1>1, <1>3 DEF NameOf

LEMMA NameParts == ASSUME NEW a \in Actions PROVE NameOf(a) \in SUBSET Parts
<1>1. ASSUME Named(a) PROVE NameOf(a) \in SUBSET Parts
  BY <1>1, NamedName DEF Names, Parts
<1>2. ASSUME ~Named(a) PROVE NameOf(a) \in SUBSET Parts
  BY <1>2, UnnamedName DEF Parts
<1> QED BY <1>1, <1>2

LEMMA EventsForm ==
  ASSUME NEW a \in Actions
  PROVE  /\ EventOf(a) \in Prints /\ [delay |-> a.delay] \in Prints
         /\ EventsOf(a) = IF a.delay > 0 THEN <<[delay |-> a.delay], EventOf(a)>> ELSE <<EventOf(a)>>
         /\ EventsOf(a) \in Seq(Prints)
<1> DEFINE v == EventOf(a)
           d == [delay |-> a.delay]
<1>1. v \in Prints
  BY NameParts DEF EventOf, Prints
<1>2. d \in Prints
  BY ActionForm, Words DEF Prints
<1>3. EventsOf(a) = IF a.delay > 0 THEN <<d, v>> ELSE <<v>>
  BY DEF EventsOf, EventOf
<1> HIDE DEF d, v
<1>4. <<d, v>> \in Seq(Prints) /\ <<v>> \in Seq(Prints)
  BY <1>1, <1>2
<1>5. EventsOf(a) \in Seq(Prints)
  BY <1>3, <1>4
<1> QED BY <1>1, <1>2, <1>3, <1>5 DEF d, v

LEMMA PrintedIs ==
  /\ Printed(<<>>) = <<>>
  /\ \A m \in Seq(Actions) : Printed(m) \in Seq(Prints)
  /\ \A m \in Seq(Actions), a \in Actions : Printed(Append(m, a)) = Printed(m) \o EventsOf(a)
<1> DEFINE f == [a \in Actions |-> EventsOf(a)]
<1>1. f \in [Actions -> Seq(Prints)]
  BY EventsForm
<1>2. ASSUME NEW t \in Seq(Actions) PROVE Printed(t) = Mapped(f, t)
  <2>1. \A k \in DOMAIN t : t[k] \in Actions
    BY LenProperties, ElementOfSeq
  <2>2. [k \in DOMAIN t |-> EventsOf(t[k])] = [k \in DOMAIN t |-> f[t[k]]]
    BY <2>1
  <2> QED BY <2>2 DEF Printed, Mapped
<1>3. <<>> \in Seq(Actions)
  BY EmptySeq
<1>4. \A c \in Actions : f[c] = EventsOf(c)
  OBVIOUS
<1> HIDE DEF f
<1>5. Printed(<<>>) = <<>>
  BY <1>2, <1>3, MappedNone
<1>6. \A t \in Seq(Actions) : Printed(t) \in Seq(Prints)
  BY <1>1, <1>2, MappedType
<1>7. ASSUME NEW t \in Seq(Actions), NEW a \in Actions
      PROVE  Printed(Append(t, a)) = Printed(t) \o EventsOf(a)
  <2>1. Append(t, a) \in Seq(Actions)
    BY AppendProperties
  <2>2. Mapped(f, Append(t, a)) = Mapped(f, t) \o f[a]
    BY <1>1, MappedAppend
  <2> QED BY <1>2, <1>4, <2>1, <2>2
<1> QED BY <1>5, <1>6, <1>7

(* What is printed is a block.                                             *)
LEMMA PrintedScript == ASSUME NEW s \in Seq(Prints) PROVE IsScript(s)
<1>1. Len(s) \in Nat /\ s = [i \in 1 .. Len(s) |-> s[i]] /\ \A i \in DOMAIN s : s[i] \in Prints
  BY LenProperties, ElementOfSeq
<1>2. ASSUME NEW e \in Prints
      PROVE  /\ e = [a \in DOMAIN e |-> e[a]]
             /\ DOMAIN e \subseteq {"press", "release", "delay", "type"}
             /\ "delay" \in DOMAIN e => e.delay \in Nat
             /\ "type" \in DOMAIN e => IsList(e.type)
  <2>1. CASE e \in [press : SUBSET Parts]
    BY <2>1
  <2>2. CASE e \in [release : SUBSET Parts]
    BY <2>2
  <2>3. CASE e \in [delay : Nat]
    BY <2>3
  <2> QED BY <2>1, <2>2, <2>3 DEF Prints
<1> QED BY <1>1, <1>2 DEF IsScript, IsList

(* It is accepted if all its actions have names.                           *)
LEMMA AcceptedConcat ==
  ASSUME NEW S, NEW s \in Seq(S), NEW t \in Seq(S)
  PROVE  Accepted(s \o t) <=> Accepted(s) /\ Accepted(t)
<1> DEFINE b == s \o t
<1>1. /\ b \in Seq(S) /\ Len(b) = Len(s) + Len(t) /\ Len(s) \in Nat /\ Len(t) \in Nat
      /\ DOMAIN s = 1 .. Len(s) /\ DOMAIN t = 1 .. Len(t)
      /\ \A i \in 1 .. Len(s) + Len(t) : b[i] = IF i <= Len(s) THEN s[i] ELSE t[i - Len(s)]
  BY ConcatProperties, LenProperties
<1>2. DOMAIN b = 1 .. Len(s) + Len(t)
  BY <1>1, LenProperties
<1> HIDE DEF b
<1>3. ASSUME Accepted(b), NEW i \in DOMAIN s PROVE Acceptable(s[i])
  <2>1. i \in DOMAIN b /\ b[i] = s[i]
    BY <1>1, <1>2
  <2> QED BY <1>3, <2>1, AcceptedEach
<1>4. ASSUME Accepted(b), NEW i \in DOMAIN t PROVE Acceptable(t[i])
  <2>1. i + Len(s) \in DOMAIN b /\ b[i + Len(s)] = t[i]
    BY <1>1, <1>2
  <2> QED BY <1>4, <2>1, AcceptedEach
<1>5. ASSUME Accepted(s), Accepted(t), NEW i \in DOMAIN b PROVE Acceptable(b[i])
  <2>1. CASE i <= Len(s)
    <3>1. i \in DOMAIN s /\ b[i] = s[i]
      BY <1>1, <1>2, <2>1
    <3> QED BY <1>5, <3>1, AcceptedEach
  <2>2. CASE ~(i <= Len(s))
    <3>1. i - Len(s) \in DOMAIN t /\ b[i] = t[i - Len(s)]
      BY <1>1, <1>2, <2>2
    <3> QED BY <1>5, <3>1, AcceptedEach
  <2> QED BY <2>1, <2>2
<1>6. Accepted(b) <=> Accepted(s) /\ Accepted(t)
  BY <1>3, <1>4, <1>5, AcceptedEach
<1> QED BY <1>6 DEF b

LEMMA AcceptedEvents ==
  ASSUME NEW a \in Actions
  PROVE  /\ Accepted(EventsOf(a)) <=> Named(a)
         /\ Named(a) => EventOf(a) \in Stroking /\ NameIn(EventOf(a)) = NameOf(a)
                        /\ EdgeOf(EventOf(a)) = a.edge
<1> DEFINE v == EventOf(a)
           d == [delay |-> a.delay]
           Reads == /\ ~Has(v, "type") /\ (Has(v, "press") \/ Has(v, "release"))
                    /\ NameIn(v) = NameOf(a) /\ EdgeOf(v) = a.edge
<1>1. Reads
  <2>1. a.edge = "Down" \/ a.edge = "Up"
    BY ActionForm DEF Edges
  <2>2. ASSUME a.edge = "Down" PROVE Reads
    <3>1. v = [press |-> NameOf(a)]
      BY <2>2 DEF EventOf
    <3> HIDE DEF v
    <3> QED BY <2>2, <3>1, Forms
  <2>3. ASSUME a.edge = "Up" PROVE Reads
    <3>1. v = [release |-> NameOf(a)]
      BY <2>3 DEF EventOf
    <3> HIDE DEF v
    <3> QED BY <2>3, <3>1, Forms
  <2> HIDE DEF v
  <2> QED BY <2>1, <2>2, <2>3
<1>2. Cardinality(DOMAIN v) = 1 /\ Cardinality(DOMAIN d) = 1
  <2>1. DOMAIN d = {"delay"} /\ (DOMAIN v = {"press"} \/ DOMAIN v = {"release"})
    BY DEF EventOf
  <2> QED BY <2>1, FS_Singleton
<1>3. Acceptable(d)
  BY <1>2, Forms DEF Acceptable
<1>4. Acceptable(v) <=> NameOf(a) \in Names
  <2> HIDE DEF v
  <2>1. Acceptable(v) <=> IsKey(NameIn(v)) \/ IsModifiers(NameIn(v))
    BY <1>1, <1>2 DEF Acceptable
  <2> QED BY <1>1, <2>1, Apart
<1>5. NameOf(a) \in Names <=> Named(a)
  <2>1. {Unprintable} \notin Names
    BY Apart
  <2> QED BY <2>1, NamedName, UnnamedName
<1>6. EventsOf(a) = IF a.delay > 0 THEN <<d, v>> ELSE <<v>>
  BY EventsForm
<1>7. Named(a) => v \in Stroking
  BY <1>5 DEF EventOf, Stroking
<1> HIDE DEF d, v
<1>8. Accepted(<<v>>) <=> Acceptable(v)
  BY AcceptedEach
<1>9. Accepted(<<d, v>>) <=> Acceptable(d) /\ Acceptable(v)
  BY AcceptedEach
<1>10. Accepted(EventsOf(a)) <=> Named(a)
  BY <1>3, <1>4, <1>5, <1>6, <1>8, <1>9
<1> QED BY <1>1, <1>7, <1>10 DEF v

LEMMA AcceptedPrinted ==
  ASSUME NEW m \in Seq(Actions)
  PROVE  Accepted(Printed(m)) <=> \A i \in 1 .. Len(m) : Named(m[i])
<1> DEFINE G == {t \in Seq(Actions) : Accepted(Printed(t)) <=> \A i \in 1 .. Len(t) : Named(t[i])}
<1>1. <<>> \in G
  <2>1. Accepted(<<>>)
    BY EmptySeq DEF Accepted
  <2> QED BY <2>1, PrintedIs, EmptySeq
<1>2. ASSUME NEW t \in Seq(Actions), NEW a \in Actions, t \in G PROVE Append(t, a) \in G
  <2> DEFINE b == Append(t, a)
  <2>1. b \in Seq(Actions) /\ Len(t) \in Nat /\ Len(b) = Len(t) + 1 /\ b[Len(t) + 1] = a
        /\ \A i \in 1 .. Len(t) : b[i] = t[i]
    BY AppendProperties, LenProperties
  <2>2. Printed(b) = Printed(t) \o EventsOf(a)
    BY PrintedIs
  <2>3. Printed(t) \in Seq(Prints) /\ EventsOf(a) \in Seq(Prints)
    BY PrintedIs, EventsForm
  <2>4. Accepted(Printed(b)) <=> Accepted(Printed(t)) /\ Named(a)
    BY <2>2, <2>3, AcceptedConcat, AcceptedEvents
  <2> HIDE DEF b
  <2>5. (\A i \in 1 .. Len(b) : Named(b[i])) <=> Named(a) /\ \A i \in 1 .. Len(t) : Named(t[i])
    <3>1. ASSUME \A i \in 1 .. Len(b) : Named(b[i]), NEW i \in 1 .. Len(t) PROVE Named(t[i])
      <4>1. i \in 1 .. Len(b)
        BY <2>1
      <4> QED BY <2>1, <3>1, <4>1
    <3>2. ASSUME \A i \in 1 .. Len(b) : Named(b[i]) PROVE Named(a)
      <4>1. Len(t) + 1 \in 1 .. Len(b)
        BY <2>1
      <4> QED BY <2>1, <3>2, <4>1
    <3>3. ASSUME Named(a), \A i \in 1 .. Len(t) : Named(t[i]), NEW i \in 1 .. Len(b) PROVE Named(b[i])
      <4>1. i = Len(t) + 1 \/ i \in 1 .. Len(t)
        BY <2>1
      <4> QED BY <2>1, <3>3, <4>1
    <3> QED BY <3>1, <3>2, <3>3
  <2>6. b \in G
    BY <1>2, <2>1, <2>4, <2>5
  <2> QED BY <2>6 DEF b
<1> HIDE DEF G
<1>3. m \in G
  BY <1>1, <1>2, ListInduction
<1> QED BY <1>3 DEF G

(* A named action is the one action its own event compiles to.             *)
LEMMA OneAction ==
  ASSUME NEW a \in Actions, Named(a)
  PROVE  ActionsOf(EventOf(a), a.delay) = <<a>>
<1> DEFINE v == EventOf(a)
           s == Strokes(NameIn(v))
           r == [kind |-> a.kind, key |-> a.key]
           l == ActionsOf(v, a.delay)
<1>1. v \in Stroking /\ NameIn(v) = NameOf(a) /\ EdgeOf(v) = a.edge
  BY AcceptedEvents
<1>2. s = <<r>>
  BY <1>1, NamedName
<1>3. Len(s) = 1 /\ s[1] = r
  <2> HIDE DEF s, r
  <2> QED BY <1>2
<1>4. a.delay \in Nat /\ a.delay % DelayLimit = a.delay
  BY ActionForm, Words
<1>5. l \in Seq(Actions) /\ Len(l) = Len(s) /\ \A k \in 1 .. Len(s) : l[k] = ActionAt(v, a.delay, k)
  <2> HIDE DEF v
  <2> QED BY <1>1, <1>4, ActionsOfType
<1>6. ActionAt(v, a.delay, 1) = a
  <2>1. ActionAt(v, a.delay, 1) = [edge |-> EdgeOf(v), kind |-> s[1].kind, key |-> s[1].key,
                                   delay |-> a.delay % DelayLimit]
    BY DEF ActionAt
  <2>2. s[1].kind = a.kind /\ s[1].key = a.key
    BY <1>3
  <2> HIDE DEF v, s
  <2>3. ActionAt(v, a.delay, 1) = [edge |-> a.edge, kind |-> a.kind, key |-> a.key, delay |-> a.delay]
    BY <1>1, <1>4, <2>1, <2>2
  <2> QED BY <2>3, ActionForm
<1> HIDE DEF l, s, v
<1>7. l[1] = a /\ Len(l) = 1
  <2>1. 1 \in 1 .. Len(s)
    BY <1>3
  <2> QED BY <1>3, <1>5, <1>6, <2>1
<1>8. l = <<a>>
  BY <1>5, <1>7
<1> QED BY <1>8 DEF l, v

(* Compiling what was printed gives back the actions: each printed event   *)
(* is compiled with the delay printed in front of it.                      *)
LEMMA PrintedCompiles ==
  ASSUME NEW m \in Seq(Actions), \A i \in 1 .. Len(m) : Named(m[i])
  PROVE  /\ Printed(m) \in Seq(Plain)
         /\ Compiled(Printed(m)) = [actions |-> m, pending |-> 0, overflow |-> FALSE]
<1> DEFINE Good(t) == /\ Printed(t) \in Seq(Plain)
                      /\ Compiled(Printed(t)) = [actions |-> t, pending |-> 0, overflow |-> FALSE]
           G == {t \in Seq(Actions) : (\A i \in 1 .. Len(t) : Named(t[i])) => Good(t)}
<1>1. <<>> \in G
  <2>1. Good(<<>>)
    BY PrintedIs, ExpandedIs, RunNone, EmptySeq DEF Compiled, Start
  <2> QED BY <2>1, EmptySeq
<1>2. ASSUME NEW t \in Seq(Actions), NEW a \in Actions, t \in G PROVE Append(t, a) \in G
  <2> DEFINE b == Append(t, a)
             v == EventOf(a)
             d == [delay |-> a.delay]
             p == Printed(t)
             e == Expanded(p)
  <2>1. b \in Seq(Actions) /\ Len(t) \in Nat /\ Len(b) = Len(t) + 1 /\ b[Len(t) + 1] = a
        /\ \A i \in 1 .. Len(t) : b[i] = t[i]
    BY AppendProperties, LenProperties
  <2>2. b = t \o <<a>>
    BY AppendIsConcat
  <2>3. Printed(b) = p \o EventsOf(a)
    BY PrintedIs
  <2> HIDE DEF b
  <2> SUFFICES ASSUME \A i \in 1 .. Len(b) : Named(b[i]) PROVE Good(b)
    BY <2>1 DEF b
  <2>4. Named(a) /\ \A i \in 1 .. Len(t) : Named(t[i])
    <3>1. Len(t) + 1 \in 1 .. Len(b) /\ \A i \in 1 .. Len(t) : i \in 1 .. Len(b)
      BY <2>1
    <3> QED BY <2>1, <3>1
  <2>5. Good(t)
    BY <1>2, <2>4
  <2>6. p \in Seq(Plain) /\ Run(e) = [actions |-> t, pending |-> 0, overflow |-> FALSE]
    BY <2>5 DEF Compiled
  <2>7. v \in Stroking /\ v \in Plain /\ d \in Plain /\ a.delay \in Nat /\ a.delay < DelayLimit
    BY <2>4, AcceptedEvents, PlainEvents, ActionForm, Words
  <2>8. EventsOf(a) = IF a.delay > 0 THEN <<d, v>> ELSE <<v>>
    BY EventsForm
  <2>9. ActionsOf(v, a.delay) = <<a>>
    BY <2>4, OneAction
  <2>10. p \in Seq(Accepts)
    BY <2>6, PlainEvents, SeqMonotonic
  <2>11. e \in Seq(Plain)
    BY <2>10, ExpandedIs
  <2>12. t \o <<a>> \in Seq(Actions)
    BY <2>1, <2>2
  <2> HIDE DEF v, e, Good
  <2>13. CASE a.delay = 0
    <3>1. Printed(b) = Append(p, v) /\ Append(p, v) \in Seq(Plain)
      <4> HIDE DEF p
      <4> QED BY <2>3, <2>6, <2>7, <2>8, <2>13, AppendIsConcat, AppendProperties
    <3>2. Expanded(Append(p, v)) = Append(e, v)
      <4> HIDE DEF p
      <4> QED BY <2>7, <2>10, ExpandedIs DEF e
    <3>3. Run(Append(e, v)) = CompileStep(Run(e), v)
      BY <2>7, <2>11, RunAppend
    <3> DEFINE r == [actions |-> t, pending |-> 0, overflow |-> FALSE]
    <3>4. r \in States /\ r.actions = t /\ r.pending = a.delay /\ r.overflow = FALSE
      BY <2>13, Words DEF States
    <3>5. Run(e) = r
      BY <2>6
    <3> HIDE DEF r
    <3>6. CompileStep(r, v) = [actions |-> t \o <<a>>, pending |-> 0, overflow |-> FALSE]
      BY <2>7, <2>9, <3>4, StrokeStep
    <3> HIDE DEF p
    <3>7. Compiled(Printed(b)) = [actions |-> b, pending |-> 0, overflow |-> FALSE]
      BY <2>2, <3>1, <3>2, <3>3, <3>5, <3>6 DEF Compiled
    <3> QED BY <3>1, <3>7 DEF Good
  <2>14. CASE a.delay # 0
    <3>1. Printed(b) = Append(Append(p, d), v) /\ Append(Append(p, d), v) \in Seq(Plain)
          /\ Append(p, d) \in Seq(Accepts)
      <4> HIDE DEF p, d
      <4>1. EventsOf(a) = <<d, v>>
        BY <2>7, <2>8, <2>14
      <4>2. Append(p, d) \in Seq(Plain) /\ Append(Append(p, d), v) \in Seq(Plain)
        BY <2>6, <2>7, AppendProperties
      <4>3. Append(p, d) \in Seq(Accepts)
        BY <4>2, PlainEvents, SeqMonotonic
      <4>4. <<d>> \in Seq(Plain) /\ <<v>> \in Seq(Plain) /\ <<d>> \o <<v>> = <<d, v>>
        BY <2>7, PairConcat
      <4>5. Append(p, d) = p \o <<d>> /\ Append(Append(p, d), v) = Append(p, d) \o <<v>>
        BY <2>6, <2>7, <4>2, AppendIsConcat
      <4>6. (p \o <<d>>) \o <<v>> = p \o (<<d>> \o <<v>>)
        BY <2>6, <4>4, ConcatAssociative
      <4> QED BY <2>3, <4>1, <4>2, <4>3, <4>4, <4>5, <4>6
    <3>2. Expanded(Append(Append(p, d), v)) = Append(Append(e, d), v) /\ Append(e, d) \in Seq(Plain)
      <4> HIDE DEF p, d
      <4>1. Expanded(Append(p, d)) = Append(e, d)
        BY <2>7, <2>10, ExpandedIs DEF e
      <4>2. Expanded(Append(Append(p, d), v)) = Append(Expanded(Append(p, d)), v)
        BY <2>7, <3>1, ExpandedIs
      <4>3. Append(e, d) \in Seq(Plain)
        BY <2>7, <2>11, AppendProperties
      <4> QED BY <4>1, <4>2, <4>3
    <3>3. Run(Append(Append(e, d), v)) = CompileStep(CompileStep(Run(e), d), v)
      <4> HIDE DEF p, d
      <4>1. Run(Append(e, d)) = CompileStep(Run(e), d)
        BY <2>7, <2>11, RunAppend
      <4>2. Run(Append(Append(e, d), v)) = CompileStep(Run(Append(e, d)), v)
        BY <2>7, <3>2, RunAppend
      <4> QED BY <4>1, <4>2
    <3> DEFINE r == [actions |-> t, pending |-> 0, overflow |-> FALSE]
               q == [actions |-> t, pending |-> a.delay, overflow |-> FALSE]
    <3>4. r \in States /\ r.actions = t /\ r.pending = 0 /\ r.overflow = FALSE
      BY Words DEF States
    <3>5. Run(e) = r
      BY <2>6
    <3>6. CompileStep(r, d) = q
      <4>1. (0 + a.delay) % WordLimit = a.delay /\ ~(0 + a.delay >= WordLimit)
        <5>1. a.delay < WordLimit
          BY <2>7, Words
        <5>2. \A n \in Nat, w \in Nat \ {0} : n < w => (0 + n) % w = n /\ ~(0 + n >= w)
          OBVIOUS
        <5> QED BY <2>7, <5>1, <5>2, Words
      <4> HIDE DEF r
      <4>2. CompileStep(r, d) = [actions |-> r.actions, pending |-> (r.pending + a.delay) % WordLimit,
                                 overflow |-> r.overflow \/ r.pending + a.delay >= WordLimit]
        BY <2>7, <3>4, DelayStep
      <4> QED BY <3>4, <4>1, <4>2
    <3>7. q \in States /\ q.actions = t /\ q.pending = a.delay /\ q.overflow = FALSE
      BY <2>7, Words DEF States
    <3> HIDE DEF r, q
    <3>8. CompileStep(q, v) = [actions |-> t \o <<a>>, pending |-> 0, overflow |-> FALSE]
      BY <2>7, <2>9, <3>7, StrokeStep
    <3> HIDE DEF p, d
    <3>9. Compiled(Printed(b)) = [actions |-> b, pending |-> 0, overflow |-> FALSE]
      BY <2>2, <3>1, <3>2, <3>3, <3>5, <3>6, <3>8 DEF Compiled
    <3> QED BY <3>1, <3>9 DEF Good
  <2> QED BY <2>13, <2>14
<1> HIDE DEF G
<1>3. m \in G
  BY <1>1, <1>2, ListInduction
<1> QED BY <1>3 DEF G

-----------------------------------------------------------------------------
(* What holds in every state: the block is one a user wrote, or the one    *)
(* printed from the macro noted.                                           *)
MacroInv ==
  /\ macro \in Seq(Actions) /\ printed \subseteq Seq(Actions)
  /\ IsScript(script)
  /\ \A m \in printed : script = Printed(m)

LEMMA CompiledType ==
  ASSUME NEW s, IsScript(s), Accepted(s)
  PROVE  Compiled(s).actions \in Seq(Actions)
<1>1. Run(Expanded(s)) \in States
  BY AcceptedIs, ExpandedIs, RunType
<1> QED BY <1>1 DEF Compiled, States

LEMMA MacroInit == Init => MacroInv
BY InputAssumption DEF Init, MacroInv

LEMMA MacroNext == MacroInv /\ [Next]_vars => MacroInv'
<1> SUFFICES ASSUME MacroInv, [Next]_vars PROVE MacroInv'
  OBVIOUS
<1>1. CASE Record
  BY <1>1, InputAssumption DEF MacroInv, Record
<1>2. CASE Export
  <2>1. IsScript(Printed(macro))
    BY PrintedIs, PrintedScript DEF MacroInv
  <2> QED BY <1>2, <2>1 DEF MacroInv, Export
<1>3. CASE Import
  <2>1. Accepted(script) => Compiled(script).actions \in Seq(Actions)
    BY CompiledType DEF MacroInv
  <2>2. macro' \in Seq(Actions)
    BY <1>3, <2>1 DEF MacroInv, Import
  <2> QED BY <1>3, <2>2 DEF MacroInv, Import
<1>4. CASE UNCHANGED vars
  BY <1>4 DEF MacroInv, vars
<1> QED BY <1>1, <1>2, <1>3, <1>4 DEF Next

(* What the keyboard holds is always a list of actions as they can be      *)
(* encoded: whatever delays a block adds up, compiling it stays within     *)
(* every field's range.                                                    *)
THEOREM TypeCorrect == Spec => []TypeOK
<1>1. MacroInv => TypeOK
  BY DEF MacroInv, TypeOK, IsScript
<1> QED BY <1>1, MacroInit, MacroNext, PTL DEF Spec

(* Importing what dump_macros printed gives exactly the macro it was       *)
(* printed from, for macros of any length.                                 *)
THEOREM PrintedMacroRestoresHolds == Spec => []PrintedMacroRestores
<1>1. MacroInv => PrintedMacroRestores
  <2> SUFFICES ASSUME MacroInv, NEW m \in printed, Accepted(script)
               PROVE  Compiled(script).actions = m
    BY DEF PrintedMacroRestores
  <2>1. m \in Seq(Actions) /\ script = Printed(m)
    BY DEF MacroInv
  <2>2. \A i \in 1 .. Len(m) : Named(m[i])
    BY <2>1, AcceptedPrinted
  <2>3. Compiled(Printed(m)) = [actions |-> m, pending |-> 0, overflow |-> FALSE]
    BY <2>1, <2>2, PrintedCompiles
  <2> QED BY <2>1, <2>3
<1> QED BY <1>1, MacroInit, MacroNext, PTL DEF Spec

(* What dump_macros printed is refused only for a mouse action or a key    *)
(* without a name.                                                         *)
THEOREM OnlyUnnamedRefusedHolds == Spec => []OnlyUnnamedRefused
<1>1. MacroInv => OnlyUnnamedRefused
  <2> SUFFICES ASSUME MacroInv, NEW m \in printed, ~Accepted(script)
               PROVE  \E i \in DOMAIN m :
                        \/ m[i].kind \notin {"NormalKey", "ModifyKey"}
                        \/ m[i].kind = "NormalKey" /\ \A s \in Symbols : KeyCodes[s] # m[i].key
                        \/ m[i].kind = "ModifyKey" /\ m[i].key \notin 224 .. 231
    BY DEF OnlyUnnamedRefused
  <2>1. m \in Seq(Actions) /\ script = Printed(m)
    BY DEF MacroInv
  <2>2. PICK i \in 1 .. Len(m) : ~Named(m[i])
    BY <2>1, AcceptedPrinted
  <2>3. DOMAIN m = 1 .. Len(m)
    BY <2>1, LenProperties
  <2> QED BY <2>2, <2>3 DEF Named
<1> QED BY <1>1, MacroInit, MacroNext, PTL DEF Spec

-----------------------------------------------------------------------------
(* When everything happens *)

Moments == [at : Nat, edge : Edges, stroke : StrokeType]

LEMMA DelayType ==
  /\ \A e \in Plain : DelayOf(e) \in Nat
  /\ \A e \in Stroking : DelayOf(e) = 0
  /\ \A d \in Nat : DelayOf([delay |-> d]) = d
  /\ \A a \in Actions : DelayOf(a) \in Nat /\ DelayOf(a) = a.delay
<1>1. \A e \in Stroking : DelayOf(e) = 0
  BY StrokingForms DEF DelayOf
<1>2. \A d \in Nat : DelayOf([delay |-> d]) = d
  <2> SUFFICES ASSUME NEW d \in Nat PROVE DelayOf([delay |-> d]) = d
    OBVIOUS
  <2> DEFINE e == [delay |-> d]
  <2>1. Has(e, "delay") /\ e.delay = d
    BY Forms
  <2> HIDE DEF e
  <2>2. DelayOf(e) = d
    BY <2>1 DEF DelayOf
  <2> QED BY <2>2 DEF e
<1>3. \A e \in Plain : DelayOf(e) \in Nat
  BY <1>1, <1>2, PlainForms
<1>4. ASSUME NEW a \in Actions PROVE DelayOf(a) \in Nat /\ DelayOf(a) = a.delay
  <2>1. Has(a, "delay")
    BY DEF Actions, Has
  <2>2. a.delay \in Nat
    BY ActionForm, Words
  <2> QED BY <2>1, <2>2 DEF DelayOf
<1> QED BY <1>1, <1>2, <1>3, <1>4

LEMMA ClockType ==
  ASSUME NEW S, \A x \in S : DelayOf(x) \in Nat, NEW s \in Seq(S)
  PROVE  /\ Clock(s)[0] = 0
         /\ \A k \in 0 .. Len(s) : Clock(s)[k] \in Nat
         /\ \A k \in 1 .. Len(s) : Clock(s)[k] = Clock(s)[k - 1] + DelayOf(s[k])
<1> DEFINE g == Clock(s)
           n == Len(s)
           N == {k \in Nat : k \in 0 .. n => g[k] \in Nat}
<1>1. n \in Nat /\ \A i \in 1 .. n : s[i] \in S
  BY LenProperties, ElementOfSeq
<1>2. Clocks(g, s, n)
  BY <1>1, ClockIs
<1> HIDE DEF g, n
<1>3. g[0] = 0 /\ \A k \in 1 .. n : g[k] = g[k - 1] + DelayOf(s[k])
  BY <1>1, <1>2 DEF Clocks
<1>4. 0 \in N
  BY <1>3
<1>5. ASSUME NEW k \in Nat, k \in N PROVE k + 1 \in N
  <2> SUFFICES ASSUME k + 1 \in 0 .. n PROVE g[k + 1] \in Nat
    OBVIOUS
  <2>1. k + 1 \in 1 .. n /\ k \in 0 .. n /\ (k + 1) - 1 = k
    BY <1>1
  <2>2. g[k] \in Nat /\ DelayOf(s[k + 1]) \in Nat
    BY <1>1, <1>5, <2>1
  <2>3. g[k + 1] = g[k] + DelayOf(s[k + 1])
    BY <1>3, <2>1
  <2> QED BY <2>2, <2>3
<1> HIDE DEF N
<1>6. \A k \in Nat : k \in N
  BY <1>4, <1>5, Induction
<1>7. \A k \in 0 .. n : g[k] \in Nat
  BY <1>1, <1>6 DEF N
<1> QED BY <1>3, <1>7 DEF g, n

(* A group of actions whose first one waits happens when that wait is over.*)
LEMMA ClockConcat ==
  ASSUME NEW a \in Seq(Actions), NEW b \in Seq(Actions), Len(b) # 0,
         \A k \in 2 .. Len(b) : b[k].delay = 0
  PROVE  /\ \A k \in 0 .. Len(a) : Clock(a \o b)[k] = Clock(a)[k]
         /\ \A k \in 1 .. Len(b) : Clock(a \o b)[Len(a) + k] = Clock(a)[Len(a)] + b[1].delay
<1> DEFINE c == a \o b
           m == Len(a)
           n == Len(b)
           w == Len(c)
           g == Clock(c)
           f == Clock(a)
           p == b[1].delay
<1>1. /\ c \in Seq(Actions) /\ w = m + n /\ m \in Nat /\ n \in Nat \ {0} /\ w \in Nat
      /\ \A i \in 1 .. m + n : c[i] = IF i <= m THEN a[i] ELSE b[i - m]
  BY ConcatProperties, LenProperties
<1>2. \A i \in 1 .. n : b[i] \in Actions
  BY ElementOfSeq
<1>3. (\A i \in 1 .. m : a[i] = c[i]) /\ \A i \in 1 .. n : c[m + i] = b[i]
  <2> HIDE DEF c, m, n, w
  <2>1. ASSUME NEW i \in 1 .. n PROVE c[m + i] = b[i]
    <3> DEFINE j == m + i
    <3>1. j \in 1 .. m + n /\ ~(j <= m) /\ j - m = i
      BY <1>1
    <3> HIDE DEF j
    <3>2. c[j] = b[i]
      BY <1>1, <3>1
    <3> QED BY <3>2 DEF j
  <2>2. \A i \in 1 .. m : a[i] = c[i]
    BY <1>1
  <2> QED BY <2>1, <2>2
<1>4. Clocks(f, a, m)
  BY <1>1, ClockIs
<1>5. Clocks(g, c, w)
  <2> HIDE DEF c
  <2> QED BY <1>1, ClockIs
<1>6. \A k \in 0 .. m : f[k] \in Nat
  BY DelayType, ClockType
<1>7. /\ \A k \in 0 .. w : g[k] \in Nat
      /\ \A k \in 1 .. w : g[k] = g[k - 1] + DelayOf(c[k])
  <2> HIDE DEF c
  <2> QED BY <1>1, DelayType, ClockType
<1> HIDE DEF c, f, g, m, n, w
<1>8. \A k \in 0 .. m : f[k] = g[k]
  <2>1. m <= w
    BY <1>1
  <2> QED BY <1>1, <1>3, <1>4, <1>5, <2>1, ClockAgree
<1>9. p \in Nat
  <2>1. b[1] \in Actions
    BY <1>1, <1>2
  <2> QED BY <2>1, DelayType
<1>10. \A i \in 2 .. n : b[i].delay = 0
  BY DEF n
<1> HIDE DEF p
<1> DEFINE N == {k \in Nat : k \in 1 .. n => g[m + k] = f[m] + p}
<1>11. 0 \in N
  OBVIOUS
<1>12. ASSUME NEW k \in Nat, k \in N PROVE k + 1 \in N
  <2> DEFINE i == k + 1
             j == m + i
  <2> SUFFICES ASSUME i \in 1 .. n PROVE g[j] = f[m] + p
    OBVIOUS
  <2>1. j \in 1 .. w /\ j - 1 = m + k /\ c[j] = b[i]
    BY <1>1, <1>3
  <2>2. b[i] \in Actions /\ DelayOf(b[i]) = b[i].delay
    BY <1>2, DelayType
  <2>3. i = k + 1
    OBVIOUS
  <2> HIDE DEF i, j
  <2>4. g[j] = g[m + k] + b[i].delay
    <3>1. g[j] = g[j - 1] + DelayOf(c[j])
      BY <1>7, <2>1
    <3> QED BY <2>1, <2>2, <3>1
  <2>5. CASE k = 0
    <3>1. m + k = m /\ f[m] = g[m] /\ b[i].delay = p
      BY <1>1, <1>8, <2>3, <2>5 DEF p
    <3> QED BY <2>4, <3>1
  <2>6. CASE k # 0
    <3>1. k \in 1 .. n /\ i \in 2 .. n
      BY <1>1, <2>3, <2>6
    <3>2. b[i].delay = 0
      BY <1>10, <3>1
    <3>3. g[m + k] = f[m] + p
      BY <1>12, <3>1
    <3>4. f[m] \in Nat
      BY <1>1, <1>6
    <3> QED BY <1>9, <2>4, <3>2, <3>3, <3>4
  <2> QED BY <2>5, <2>6
<1> HIDE DEF N
<1>13. \A k \in Nat : k \in N
  BY <1>11, <1>12, Induction
<1>14. ASSUME NEW k \in 1 .. n PROVE g[m + k] = f[m] + p
  <2>1. k \in Nat /\ k \in N
    BY <1>1, <1>13
  <2> QED BY <2>1 DEF N
<1> QED BY <1>8, <1>14 DEF c, f, g, m, n, p

(* The strokes of an event that happens at one moment.                     *)
LEMMA StrokesAtType ==
  ASSUME NEW e \in Plain, NEW t \in Nat
  PROVE  StrokesAt(e, t) \in Seq(Moments)
<1>1. ASSUME NEW d \in Nat, e = [delay |-> d] PROVE StrokesAt(e, t) \in Seq(Moments)
  <2>1. Has(e, "delay")
    BY <1>1, Forms
  <2> QED BY <2>1, EmptySeq DEF StrokesAt
<1>2. ASSUME e \in Stroking PROVE StrokesAt(e, t) \in Seq(Moments)
  <2> DEFINE s == Strokes(NameIn(e))
             n == Len(s)
  <2>1. NameIn(e) \in Names /\ EdgeOf(e) \in Edges /\ ~Has(e, "delay")
    BY <1>2, StrokingForms
  <2>2. s \in Seq(StrokeType)
    BY <2>1, StrokesType
  <2>3. StrokesAt(e, t) = [k \in DOMAIN s |-> [at |-> t, edge |-> EdgeOf(e), stroke |-> s[k]]]
    BY <2>1 DEF StrokesAt
  <2> HIDE DEF s
  <2>4. n \in Nat /\ DOMAIN s = 1 .. n /\ \A k \in 1 .. n : s[k] \in StrokeType
    BY <2>2, LenProperties, ElementOfSeq
  <2>5. \A k \in 1 .. n : [at |-> t, edge |-> EdgeOf(e), stroke |-> s[k]] \in Moments
    BY <2>1, <2>4 DEF Moments
  <2> DEFINE l == [k \in DOMAIN s |-> [at |-> t, edge |-> EdgeOf(e), stroke |-> s[k]]]
  <2>6. l \in [1 .. n -> Moments]
    BY <2>4, <2>5
  <2> HIDE DEF l, n
  <2>7. l \in Seq(Moments)
    BY <2>4, <2>6, IsSeq
  <2> QED BY <2>3, <2>7 DEF l
<1> QED BY <1>1, <1>2, PlainForms

LEMMA TimelineAppend ==
  ASSUME NEW s \in Seq(Plain), NEW e \in Plain
  PROVE  /\ ScriptTimeline(Append(s, e)) = ScriptTimeline(s) \o StrokesAt(e, Clock(s)[Len(s)])
         /\ ScriptTimeline(s) \in Seq(Moments)
<1> DEFINE b == Append(s, e)
           n == Len(s)
           f == Clock(s)
           g == Clock(b)
           l == [i \in DOMAIN s |-> StrokesAt(s[i], StartOf(s, i))]
           m == [i \in DOMAIN b |-> StrokesAt(b[i], StartOf(b, i))]
           x == StrokesAt(e, f[n])
           r == Append(l, x)
<1>1. /\ n \in Nat /\ DOMAIN s = 1 .. n /\ b \in Seq(Plain) /\ Len(b) = n + 1 /\ b[n + 1] = e
      /\ \A i \in 1 .. n : b[i] = s[i] /\ s[i] \in Plain
  BY LenProperties, AppendProperties, ElementOfSeq
<1>2. DOMAIN b = 1 .. n + 1
  BY <1>1, LenProperties
<1>3. \A k \in 0 .. n : f[k] \in Nat /\ g[k] = f[k]
  BY DelayType, ClockType, ClockAppend
<1> HIDE DEF b
<1>4. \A i \in 1 .. n : StartOf(s, i) = f[i - 1] /\ StartOf(b, i) = g[i - 1] /\ i - 1 \in 0 .. n
  BY <1>1 DEF StartOf
<1>5. StartOf(b, n + 1) = g[n] /\ n \in 0 .. n
  <2>1. (n + 1) - 1 = n
    BY <1>1
  <2> QED BY <1>1, <2>1 DEF StartOf
<1> HIDE DEF f, g, n
<1>6. x \in Seq(Moments)
  BY <1>3, <1>5, StrokesAtType
<1>7. l \in [1 .. n -> Seq(Moments)]
  <2>1. \A i \in 1 .. n : StrokesAt(s[i], StartOf(s, i)) \in Seq(Moments)
    BY <1>1, <1>3, <1>4, StrokesAtType
  <2> QED BY <1>1, <2>1
<1>8. l \in Seq(Seq(Moments)) /\ Len(l) = n
  <2>1. l \in Seq(Seq(Moments)) /\ DOMAIN l = 1 .. n
    <3> HIDE DEF l
    <3> QED BY <1>1, <1>7, IsSeq
  <2>2. Len(l) \in Nat /\ DOMAIN l = 1 .. Len(l)
    <3> HIDE DEF l
    <3> QED BY <2>1, LenProperties
  <2> HIDE DEF l
  <2> QED BY <1>1, <2>1, <2>2
<1>9. m = r
  <2>1. /\ r \in Seq(Seq(Moments)) /\ Len(r) = n + 1 /\ r[n + 1] = x
        /\ \A i \in 1 .. n : r[i] = l[i]
    <3> HIDE DEF l, x
    <3> QED BY <1>6, <1>8, AppendProperties
  <2>2. m = [i \in 1 .. n + 1 |-> StrokesAt(b[i], StartOf(b, i))]
    BY <1>2
  <2>3. r = [i \in 1 .. n + 1 |-> r[i]]
    <3> HIDE DEF r
    <3>1. DOMAIN r = 1 .. n + 1 /\ r \in [1 .. n + 1 -> Seq(Moments)]
      BY <2>1, LenProperties
    <3> QED BY <3>1
  <2>4. ASSUME NEW i \in 1 .. n + 1 PROVE StrokesAt(b[i], StartOf(b, i)) = r[i]
    <3>1. i = n + 1 \/ i \in 1 .. n
      BY <1>1
    <3>2. CASE i = n + 1
      <4> HIDE DEF r, l
      <4> QED BY <1>1, <1>3, <1>5, <2>1, <3>2
    <3>3. CASE i \in 1 .. n
      <4>1. l[i] = StrokesAt(s[i], StartOf(s, i))
        BY <1>1, <3>3
      <4> HIDE DEF r, l
      <4> QED BY <1>1, <1>3, <1>4, <2>1, <3>3, <4>1
    <3> QED BY <3>1, <3>2, <3>3
  <2> HIDE DEF m, r
  <2> QED BY <2>2, <2>3, <2>4
<1>10. ScriptTimeline(b) = FlattenSeq(m) /\ ScriptTimeline(s) = FlattenSeq(l)
  BY DEF ScriptTimeline
<1> HIDE DEF l, m, x
<1>11. FlattenSeq(r) = FlattenSeq(l) \o x /\ FlattenSeq(l) \in Seq(Moments)
  BY <1>6, <1>8, FlattenAppend, FlattenType
<1> QED BY <1>9, <1>10, <1>11 DEF b, x, f, n

(* One more event with strokes adds them to the macro's timeline, at the   *)
(* time up to which the event's own delay reaches.                         *)
LEMMA MacroTimelineStep ==
  ASSUME NEW a \in Seq(Actions), NEW e \in Stroking, NEW p \in 0 .. (DelayLimit - 1)
  PROVE  /\ MacroTimeline(a \o ActionsOf(e, p))
              = MacroTimeline(a) \o StrokesAt(e, Clock(a)[Len(a)] + p)
         /\ Clock(a \o ActionsOf(e, p))[Len(a \o ActionsOf(e, p))] = Clock(a)[Len(a)] + p
<1> DEFINE b == ActionsOf(e, p)
           c == a \o b
           m == Len(a)
           n == Len(b)
           f == Clock(a)
           g == Clock(c)
           s == Strokes(NameIn(e))
           t == f[m] + p
           x == StrokesAt(e, t)
           l == MacroTimeline(a)
           r == l \o x
           q == MacroTimeline(c)
<1>1. p \in Nat /\ p % DelayLimit = p
  BY Words
<1>2. /\ b \in Seq(Actions) /\ n = Len(s) /\ n \in Nat \ {0}
      /\ \A k \in 1 .. n : b[k] = ActionAt(e, p, k)
  BY <1>1, ActionsOfType
<1>3. NameIn(e) \in Names /\ EdgeOf(e) \in Edges /\ ~Has(e, "delay")
  BY StrokingForms
<1>4. s \in Seq(StrokeType)
  BY <1>3, StrokesType
<1>5. DOMAIN s = 1 .. n /\ \A k \in 1 .. n : s[k] \in StrokeType
  BY <1>2, <1>4, LenProperties, ElementOfSeq
<1>6. \A k \in 1 .. n : s[k] = [kind |-> s[k].kind, key |-> s[k].key]
  BY <1>5 DEF StrokeType
<1>7. ASSUME NEW k \in 1 .. n
      PROVE  /\ b[k].edge = EdgeOf(e)
             /\ [kind |-> b[k].kind, key |-> b[k].key] = s[k]
             /\ b[k].delay = IF k = 1 THEN p ELSE 0
  <2>1. b[k] = ActionAt(e, p, k)
    BY <1>2
  <2>2. ActionAt(e, p, k) = [edge |-> EdgeOf(e), kind |-> s[k].kind, key |-> s[k].key,
                             delay |-> IF k = 1 THEN p ELSE 0]
    BY <1>1 DEF ActionAt
  <2> HIDE DEF b, s
  <2> QED BY <1>6, <2>1, <2>2
<1>8. m \in Nat /\ DOMAIN a = 1 .. m /\ \A k \in 1 .. m : a[k] \in Actions
  BY LenProperties, ElementOfSeq
<1>9. x = [k \in 1 .. n |-> [at |-> t, edge |-> EdgeOf(e), stroke |-> s[k]]]
  BY <1>3, <1>5 DEF StrokesAt
<1>10. l = [k \in 1 .. m |-> [at |-> f[k], edge |-> a[k].edge,
                              stroke |-> [kind |-> a[k].kind, key |-> a[k].key]]]
  BY <1>8 DEF MacroTimeline
<1> HIDE DEF b
<1>11. /\ c \in Seq(Actions) /\ Len(c) = m + n
       /\ \A i \in 1 .. m + n : c[i] = IF i <= m THEN a[i] ELSE b[i - m]
  BY <1>2, ConcatProperties
<1>12. DOMAIN c = 1 .. m + n
  BY <1>11, LenProperties
<1>13. /\ \A k \in 0 .. m : g[k] = f[k]
       /\ \A k \in 1 .. n : g[m + k] = f[m] + p
  <2>1. 1 \in 1 .. n /\ \A k \in 2 .. n : k \in 1 .. n /\ k # 1
    BY <1>2
  <2>2. Len(b) # 0 /\ b[1].delay = p
    BY <1>2, <1>7, <2>1
  <2>3. \A k \in 2 .. Len(b) : b[k].delay = 0
    BY <1>7, <2>1
  <2>4. /\ \A k \in 0 .. Len(a) : Clock(a \o b)[k] = Clock(a)[k]
        /\ \A k \in 1 .. Len(b) : Clock(a \o b)[Len(a) + k] = Clock(a)[Len(a)] + b[1].delay
    BY <1>2, <2>2, <2>3, ClockConcat
  <2> QED BY <2>2, <2>4
<1>14. \A k \in 0 .. m : f[k] \in Nat
  BY DelayType, ClockType
<1> HIDE DEF c
<1>15. q = [k \in 1 .. m + n |-> [at |-> g[k], edge |-> c[k].edge,
                                  stroke |-> [kind |-> c[k].kind, key |-> c[k].key]]]
  BY <1>12 DEF MacroTimeline
<1> HIDE DEF m, n, f, g, s, x, l, q
<1>16. t \in Nat
  BY <1>1, <1>8, <1>14
<1> HIDE DEF t
<1>17. \A k \in 1 .. n : [at |-> t, edge |-> EdgeOf(e), stroke |-> s[k]] \in Moments
  BY <1>3, <1>5, <1>16 DEF Moments
<1>18. \A k \in 1 .. m : [at |-> f[k], edge |-> a[k].edge,
                          stroke |-> [kind |-> a[k].kind, key |-> a[k].key]] \in Moments
  <2> SUFFICES ASSUME NEW k \in 1 .. m
               PROVE [at |-> f[k], edge |-> a[k].edge,
                      stroke |-> [kind |-> a[k].kind, key |-> a[k].key]] \in Moments
    OBVIOUS
  <2>1. f[k] \in Nat
    BY <1>8, <1>14
  <2>2. a[k].edge \in Edges /\ a[k].kind \in Kinds /\ a[k].key \in Byte
    BY <1>8, ActionForm
  <2> QED BY <2>1, <2>2 DEF Moments, StrokeType
<1>19. x \in Seq(Moments) /\ Len(x) = n /\ l \in Seq(Moments) /\ Len(l) = m
  <2>1. x \in [1 .. n -> Moments] /\ DOMAIN x = 1 .. n
    BY <1>9, <1>17
  <2>2. l \in [1 .. m -> Moments] /\ DOMAIN l = 1 .. m
    BY <1>10, <1>18
  <2>3. x \in Seq(Moments) /\ l \in Seq(Moments)
    BY <1>2, <1>8, <2>1, <2>2, IsSeq
  <2> QED BY <1>2, <1>8, <2>1, <2>2, <2>3, LenProperties
<1>20. /\ r \in Seq(Moments) /\ Len(r) = m + n
       /\ \A i \in 1 .. m + n : r[i] = IF i <= m THEN l[i] ELSE x[i - m]
  BY <1>19, ConcatProperties
<1> HIDE DEF r
<1>21. ASSUME NEW i \in 1 .. m + n PROVE q[i] = r[i]
  <2>1. CASE i <= m
    <3>1. i \in 1 .. m /\ i \in 0 .. m
      BY <1>8, <2>1
    <3>2. c[i] = a[i] /\ g[i] = f[i] /\ r[i] = l[i]
      BY <1>11, <1>13, <1>20, <2>1, <3>1
    <3> QED BY <1>10, <1>15, <3>1, <3>2
  <2>2. CASE ~(i <= m)
    <3> DEFINE k == i - m
    <3>1. k \in 1 .. n /\ m + k = i
      BY <1>2, <1>8, <2>2
    <3>2. c[i] = b[k] /\ r[i] = x[k]
      BY <1>11, <1>20, <2>2
    <3> HIDE DEF k
    <3>3. g[i] = t
      BY <1>13, <3>1 DEF t
    <3>4. q[i] = [at |-> g[i], edge |-> c[i].edge, stroke |-> [kind |-> c[i].kind, key |-> c[i].key]]
      BY <1>15
    <3>5. x[k] = [at |-> t, edge |-> EdgeOf(e), stroke |-> s[k]]
      BY <1>9, <3>1
    <3> QED BY <1>7, <3>1, <3>2, <3>3, <3>4, <3>5
  <2> QED BY <2>1, <2>2
<1>22. q = r
  <2>1. q = [i \in 1 .. m + n |-> q[i]]
    BY <1>15
  <2>2. r = [i \in 1 .. m + n |-> r[i]]
    <3>1. r \in [1 .. m + n -> Moments]
      BY <1>20, LenProperties
    <3> QED BY <3>1
  <2> QED BY <1>21, <2>1, <2>2
<1>23. g[m + n] = f[m] + p
  BY <1>2, <1>13
<1> QED BY <1>11, <1>22, <1>23 DEF q, r, l, x, t, f, g, m, c, b

(* A block with no delay longer than an action can carry: so are the       *)
(* blocks it begins with.                                                  *)
LEMMA GapsOfFront ==
  ASSUME NEW s \in Seq(Plain), NEW e \in Plain, GapsFit(Append(s, e))
  PROVE  GapsFit(s)
<1> DEFINE b == Append(s, e)
           n == Len(s)
           f == Clock(s)
           g == Clock(b)
<1>1. /\ n \in Nat /\ Len(b) = n + 1 /\ \A i \in 1 .. n : b[i] = s[i]
      /\ \A k \in 0 .. n : g[k] = f[k]
  BY LenProperties, AppendProperties, ClockAppend
<1>2. \A i, j \in 1 .. Len(b) + 1 :
        i <= j /\ (\A k \in i .. j - 1 : Has(b[k], "delay")) => g[j - 1] - g[i - 1] < DelayLimit
  BY DEF GapsFit, StartOf
<1> HIDE DEF b, f, g, n
<1>3. ASSUME NEW i \in 1 .. n + 1, NEW j \in 1 .. n + 1,
             i <= j, \A k \in i .. j - 1 : Has(s[k], "delay")
      PROVE  f[j - 1] - f[i - 1] < DelayLimit
  <2>1. i \in 1 .. Len(b) + 1 /\ j \in 1 .. Len(b) + 1 /\ i - 1 \in 0 .. n /\ j - 1 \in 0 .. n
    BY <1>1
  <2>2. ASSUME NEW k \in i .. j - 1 PROVE Has(b[k], "delay")
    <3>1. k \in 1 .. n
      BY <1>1
    <3> QED BY <1>1, <1>3, <3>1
  <2>3. g[j - 1] - g[i - 1] < DelayLimit
    BY <1>2, <1>3, <2>1, <2>2
  <2> QED BY <1>1, <2>1, <2>3
<1> QED BY <1>3 DEF GapsFit, StartOf, f, n

(* What the compiler keeps after each event: the timelines are the same,   *)
(* and what is pending is the delay since the last event with strokes.     *)
Follows(s, r) ==
  /\ MacroTimeline(r.actions) = ScriptTimeline(s)
  /\ Clock(r.actions)[Len(r.actions)] + r.pending = Clock(s)[Len(s)]
  /\ \E i \in 1 .. Len(s) + 1 :
       /\ \A k \in i .. Len(s) : Has(s[k], "delay")
       /\ r.pending = Clock(s)[Len(s)] - Clock(s)[i - 1]

LEMMA FollowsNone == Follows(<<>>, Start)
<1>1. Start.actions = <<>> /\ Start.pending = 0
  BY DEF Start
<1>2. Clock(<<>>)[0] = 0 /\ Len(<<>>) = 0
  BY EmptySeq, ClockNone
<1>3. MacroTimeline(<<>>) = <<>>
  BY EmptySeq DEF MacroTimeline
<1>4. ScriptTimeline(<<>>) = <<>>
  <2>1. [i \in DOMAIN <<>> |-> StrokesAt(<<>>[i], StartOf(<<>>, i))] = <<>>
    OBVIOUS
  <2> QED BY <2>1, FlattenNone DEF ScriptTimeline
<1>5. 1 \in 1 .. 0 + 1 /\ 1 - 1 = 0 /\ 0 = 0 - 0 /\ \A k \in 1 .. 0 : FALSE
  OBVIOUS
<1> QED BY <1>1, <1>2, <1>3, <1>4, <1>5 DEF Follows

(* As long as the delays of a block fit, nothing is cut from what pends.   *)
LEMMA PendingFits ==
  ASSUME NEW s \in Seq(Plain), NEW r \in States, GapsFit(s), Follows(s, r)
  PROVE  r.pending \in 0 .. (DelayLimit - 1)
<1> DEFINE n == Len(s)
           f == Clock(s)
<1>1. n \in Nat
  BY LenProperties
<1>2. PICK i \in 1 .. n + 1 : (\A k \in i .. n : Has(s[k], "delay")) /\ r.pending = f[n] - f[i - 1]
  BY DEF Follows
<1>3. \A j \in 1 .. n + 1 :
        i <= j /\ (\A k \in i .. j - 1 : Has(s[k], "delay")) => f[j - 1] - f[i - 1] < DelayLimit
  BY DEF GapsFit, StartOf
<1> HIDE DEF f
<1>4. n + 1 \in 1 .. n + 1 /\ i <= n + 1 /\ (n + 1) - 1 = n
  BY <1>1
<1>5. f[n] - f[i - 1] < DelayLimit
  BY <1>2, <1>3, <1>4
<1>6. r.pending \in Nat
  BY Words DEF States
<1> QED BY <1>2, <1>5, <1>6, Words

LEMMA FollowsDelay ==
  ASSUME NEW s \in Seq(Plain), NEW r \in States, NEW d \in Nat,
         Follows(s, r), GapsFit(Append(s, [delay |-> d]))
  PROVE  Follows(Append(s, [delay |-> d]), CompileStep(r, [delay |-> d]))
<1> DEFINE e == [delay |-> d]
           b == Append(s, e)
           n == Len(s)
           f == Clock(s)
           g == Clock(b)
           q == CompileStep(r, e)
<1>1. e \in Plain /\ DelayOf(e) = d /\ Has(e, "delay")
  BY PlainEvents, DelayType, Forms
<1>2. n \in Nat
  BY LenProperties
<1>3. \A k \in 0 .. n : f[k] \in Nat
  BY DelayType, ClockType
<1>4. q.actions = r.actions /\ q.pending = (r.pending + d) % WordLimit
  <2>1. CompileStep(r, [delay |-> d]) =
          [actions |-> r.actions, pending |-> (r.pending + d) % WordLimit,
           overflow |-> r.overflow \/ r.pending + d >= WordLimit]
    BY DelayStep
  <2>2. q = [actions |-> r.actions, pending |-> (r.pending + d) % WordLimit,
             overflow |-> r.overflow \/ r.pending + d >= WordLimit]
    BY <2>1
  <2> HIDE DEF q
  <2> QED BY <2>2
<1>5. r.pending \in Nat
  BY Words DEF States
<1> HIDE DEF e, q
<1>6. /\ b \in Seq(Plain) /\ Len(b) = n + 1 /\ b[n + 1] = e /\ \A i \in 1 .. n : b[i] = s[i]
      /\ \A k \in 0 .. n : g[k] = f[k]
      /\ g[n + 1] = f[n] + d
  BY <1>1, AppendProperties, ClockAppend
<1>7. ScriptTimeline(b) = ScriptTimeline(s)
  <2>1. StrokesAt(e, f[n]) = <<>>
    BY <1>1 DEF StrokesAt
  <2>2. ScriptTimeline(b) = ScriptTimeline(s) \o StrokesAt(e, f[n]) /\ ScriptTimeline(s) \in Seq(Moments)
    BY <1>1, TimelineAppend
  <2> HIDE DEF b
  <2> QED BY <2>1, <2>2, ConcatEmptySeq
<1>8. /\ MacroTimeline(r.actions) = ScriptTimeline(s)
      /\ Clock(r.actions)[Len(r.actions)] + r.pending = f[n]
  BY DEF Follows
<1>9. PICK i \in 1 .. n + 1 : (\A k \in i .. n : Has(s[k], "delay")) /\ r.pending = f[n] - f[i - 1]
  BY DEF Follows
<1>10. \A h, j \in 1 .. Len(b) + 1 :
         h <= j /\ (\A k \in h .. j - 1 : Has(b[k], "delay")) => g[j - 1] - g[h - 1] < DelayLimit
  BY DEF GapsFit, StartOf, e
<1> DEFINE C == Clock(r.actions)[Len(r.actions)]
<1>0. C \in Nat
  <2>1. r.actions \in Seq(Actions)
    BY DEF States
  <2>2. Len(r.actions) \in Nat
    BY <2>1, LenProperties
  <2>3. \A k \in 0 .. Len(r.actions) : Clock(r.actions)[k] \in Nat
    BY <2>1, DelayType, ClockType
  <2>4. Len(r.actions) \in 0 .. Len(r.actions)
    BY <2>2
  <2> QED BY <2>3, <2>4
<1> HIDE DEF b, f, g, n, C
<1>11. ASSUME NEW k \in i .. n + 1 PROVE Has(b[k], "delay")
  <2>1. k = n + 1 \/ (k \in i .. n /\ k \in 1 .. n)
    BY <1>2
  <2> QED BY <1>1, <1>6, <1>9, <2>1
<1>12. i \in 1 .. Len(b) + 1 /\ n + 2 \in 1 .. Len(b) + 1 /\ i <= n + 2 /\ (n + 2) - 1 = n + 1
  BY <1>2, <1>6
<1>13. g[n + 1] - g[i - 1] < DelayLimit
  BY <1>10, <1>11, <1>12
<1>14. i - 1 \in 0 .. n /\ n \in 0 .. n
  BY <1>2
<1>15. f[n] \in Nat /\ f[i - 1] \in Nat /\ g[i - 1] = f[i - 1]
  BY <1>3, <1>6, <1>14
<1>16. r.pending + d < DelayLimit /\ r.pending + d = g[n + 1] - g[i - 1]
  BY <1>6, <1>9, <1>13, <1>15
<1>17. q.pending = r.pending + d
  <2> DEFINE v == r.pending + d
  <2>1. v \in Nat /\ v < WordLimit
    BY <1>5, <1>16, Words
  <2>2. q.pending = v % WordLimit
    BY <1>4
  <2>3. \A x \in Nat, w \in Nat \ {0} : x < w => x % w = x
    OBVIOUS
  <2> HIDE DEF v
  <2>4. q.pending = v
    BY <2>1, <2>2, <2>3, Words
  <2> QED BY <2>4 DEF v
<1>18. C + q.pending = g[n + 1]
  <2>1. C + r.pending = f[n]
    BY <1>8 DEF C, f, n
  <2> QED BY <1>0, <1>5, <1>6, <1>15, <1>17, <2>1
<1>19. MacroTimeline(q.actions) = ScriptTimeline(b)
  BY <1>4, <1>7, <1>8
<1>20. Clock(q.actions)[Len(q.actions)] + q.pending = Clock(b)[Len(b)]
  BY <1>4, <1>6, <1>18 DEF C, g
<1>21. /\ i \in 1 .. Len(b) + 1
       /\ \A k \in i .. Len(b) : Has(b[k], "delay")
       /\ q.pending = Clock(b)[Len(b)] - Clock(b)[i - 1]
  BY <1>6, <1>11, <1>12, <1>16, <1>17 DEF g
<1> QED BY <1>19, <1>20, <1>21 DEF Follows, b, q, e

LEMMA FollowsStroke ==
  ASSUME NEW s \in Seq(Plain), NEW r \in States, NEW e \in Stroking,
         Follows(s, r), GapsFit(s)
  PROVE  Follows(Append(s, e), CompileStep(r, e))
<1> DEFINE b == Append(s, e)
           n == Len(s)
           f == Clock(s)
           g == Clock(b)
           q == CompileStep(r, e)
           a == r.actions
           p == r.pending
           c == a \o ActionsOf(e, p)
<1>1. e \in Plain /\ DelayOf(e) = 0
  BY PlainEvents, DelayType
<1>2. n \in Nat /\ a \in Seq(Actions)
  BY LenProperties DEF States
<1>3. \A k \in 0 .. n : f[k] \in Nat
  BY DelayType, ClockType
<1>4. p \in 0 .. (DelayLimit - 1)
  BY PendingFits
<1>5. q.actions = c /\ q.pending = 0
  <2>1. q = [actions |-> c, pending |-> 0, overflow |-> r.overflow]
    BY StrokeStep
  <2> HIDE DEF q, c
  <2> QED BY <2>1
<1>6. /\ b \in Seq(Plain) /\ Len(b) = n + 1 /\ g[n + 1] = f[n] + 0
  BY <1>1, AppendProperties, ClockAppend
<1>7. ScriptTimeline(b) = ScriptTimeline(s) \o StrokesAt(e, f[n])
  BY <1>1, TimelineAppend
<1>8. MacroTimeline(a) = ScriptTimeline(s) /\ Clock(a)[Len(a)] + p = f[n]
  BY DEF Follows
<1> HIDE DEF q
<1>9. /\ MacroTimeline(c) = MacroTimeline(a) \o StrokesAt(e, Clock(a)[Len(a)] + p)
      /\ Clock(c)[Len(c)] = Clock(a)[Len(a)] + p
  BY <1>2, <1>4, MacroTimelineStep
<1> HIDE DEF a, b, c, f, g, n, p
<1>10. MacroTimeline(c) = ScriptTimeline(b)
  BY <1>7, <1>8, <1>9
<1>11. f[n] \in Nat
  BY <1>2, <1>3
<1>12. Clock(c)[Len(c)] + 0 = g[n + 1]
  BY <1>6, <1>8, <1>9, <1>11
<1>13. /\ n + 2 \in 1 .. Len(b) + 1 /\ \A k \in n + 2 .. Len(b) : FALSE
       /\ (n + 2) - 1 = n + 1
  BY <1>2, <1>6
<1>14. 0 = g[n + 1] - g[n + 1]
  BY <1>6, <1>11
<1>15. /\ n + 2 \in 1 .. Len(b) + 1 /\ \A k \in n + 2 .. Len(b) : Has(b[k], "delay")
       /\ q.pending = Clock(b)[Len(b)] - Clock(b)[(n + 2) - 1]
  BY <1>5, <1>6, <1>13, <1>14 DEF g
<1>16. MacroTimeline(q.actions) = ScriptTimeline(b)
  BY <1>5, <1>10
<1>17. Clock(q.actions)[Len(q.actions)] + q.pending = Clock(b)[Len(b)]
  BY <1>5, <1>6, <1>12 DEF g
<1> QED BY <1>15, <1>16, <1>17 DEF Follows, b, q

LEMMA TimelinesAgree ==
  ASSUME NEW s \in Seq(Plain), GapsFit(s)
  PROVE  Follows(s, Run(s))
<1> DEFINE G == {t \in Seq(Plain) : GapsFit(t) => Follows(t, Run(t))}
<1>1. <<>> \in G
  BY FollowsNone, RunNone, EmptySeq
<1>2. ASSUME NEW t \in Seq(Plain), NEW e \in Plain, t \in G PROVE Append(t, e) \in G
  <2>1. Append(t, e) \in Seq(Plain) /\ Run(Append(t, e)) = CompileStep(Run(t), e) /\ Run(t) \in States
    BY AppendProperties, RunAppend, RunType
  <2>2. ASSUME GapsFit(Append(t, e)) PROVE Follows(Append(t, e), CompileStep(Run(t), e))
    <3>1. GapsFit(t)
      BY <2>2, GapsOfFront
    <3>2. Follows(t, Run(t))
      BY <1>2, <3>1
    <3>3. ASSUME NEW d \in Nat, e = [delay |-> d]
          PROVE  Follows(Append(t, e), CompileStep(Run(t), e))
      <4> DEFINE r == Run(t)
      <4>1. r \in States /\ Follows(t, r) /\ GapsFit(Append(t, [delay |-> d]))
        BY <2>1, <2>2, <3>2, <3>3
      <4> HIDE DEF r
      <4>2. Follows(Append(t, [delay |-> d]), CompileStep(r, [delay |-> d]))
        BY <4>1, FollowsDelay
      <4> QED BY <3>3, <4>2 DEF r
    <3>4. ASSUME e \in Stroking PROVE Follows(Append(t, e), CompileStep(Run(t), e))
      BY <2>1, <3>1, <3>2, <3>4, FollowsStroke
    <3> QED BY <3>3, <3>4, PlainForms
  <2> QED BY <2>1, <2>2
<1> HIDE DEF G
<1>3. s \in G
  BY <1>1, <1>2, ListInduction
<1> QED BY <1>3 DEF G

(* A macro plays the strokes of its block at the times the block gives:    *)
(* delays add up and reach the right stroke, and chords stay chords, for   *)
(* blocks of any length and typed text of any length.                      *)
THEOREM SameTimelineHolds == Spec => []SameTimeline
<1>1. MacroInv => SameTimeline
  <2> SUFFICES ASSUME MacroInv, Accepted(script), GapsFit(Expanded(script))
               PROVE  MacroTimeline(Compiled(script).actions) = ScriptTimeline(Expanded(script))
    BY DEF SameTimeline
  <2>1. Expanded(script) \in Seq(Plain)
    BY AcceptedIs, ExpandedIs DEF MacroInv
  <2>2. Follows(Expanded(script), Run(Expanded(script)))
    BY <2>1, TimelinesAgree
  <2> QED BY <2>2 DEF Follows, Compiled
<1> QED BY <1>1, MacroInit, MacroNext, PTL DEF Spec

-----------------------------------------------------------------------------
(* What a keyboard types *)

Chars == DOMAIN Characters
Sound(events) == Played(Run(events).actions)

(* Waiting is not heard; an event with one stroke plays one action.        *)
LEMMA SoundOfDelay ==
  ASSUME NEW s \in Seq(Plain), NEW d \in Nat
  PROVE  Sound(Append(s, [delay |-> d])) = Sound(s)
<1> DEFINE e == [delay |-> d]
           r == Run(s)
<1>1. r \in States /\ e \in Plain
  BY RunType, PlainEvents
<1>2. Run(Append(s, e)) = CompileStep(r, e)
  BY <1>1, RunAppend
<1>3. CompileStep(r, e) = [actions |-> r.actions, pending |-> (r.pending + d) % WordLimit,
                           overflow |-> r.overflow \/ r.pending + d >= WordLimit]
  BY <1>1, DelayStep
<1> HIDE DEF e, r
<1>4. CompileStep(r, e).actions = r.actions
  BY <1>3
<1> QED BY <1>2, <1>4 DEF Sound, e, r

Plays1(e, stroke, a) ==
  a \in Actions /\ a.edge = EdgeOf(e) /\ a.kind = stroke.kind /\ a.key = stroke.key

LEMMA SoundOfStroke ==
  ASSUME NEW s \in Seq(Plain), NEW e \in Stroking, NEW stroke, Strokes(NameIn(e)) = <<stroke>>
  PROVE  \E a : Plays1(e, stroke, a) /\ Sound(s \o <<Tick, e>>) = PlayStep(Sound(s), a)
<1> DEFINE t == Append(s, Tick)
           r == Run(t)
           p == r.pending
           l == ActionsOf(e, p)
           a == l[1]
           st == Strokes(NameIn(e))
<1>1. Tick \in Plain /\ e \in Plain
  BY PlainEvents
<1>2. t \in Seq(Plain) /\ t = s \o <<Tick>>
  BY <1>1, AppendProperties, AppendIsConcat
<1>3. s \o <<Tick, e>> = Append(t, e)
  <2>1. <<Tick>> \in Seq(Plain) /\ <<e>> \in Seq(Plain) /\ <<Tick>> \o <<e>> = <<Tick, e>>
    BY <1>1, PairConcat
  <2> HIDE DEF t
  <2>2. Append(t, e) = t \o <<e>>
    BY <1>1, <1>2, AppendIsConcat
  <2>3. (s \o <<Tick>>) \o <<e>> = s \o (<<Tick>> \o <<e>>)
    BY <2>1, ConcatAssociative
  <2> QED BY <1>2, <2>1, <2>2, <2>3
<1>4. Sound(t) = Sound(s)
  BY 1 \in Nat, SoundOfDelay DEF Tick
<1> HIDE DEF t
<1>5. r \in States
  BY <1>2, RunType
<1>6. Run(Append(t, e)) = CompileStep(r, e)
  BY <1>1, <1>2, RunAppend
<1> HIDE DEF r
<1>7. p \in Nat /\ r.actions \in Seq(Actions)
  BY <1>5, Words DEF States
<1>8. CompileStep(r, e) = [actions |-> r.actions \o l, pending |-> 0, overflow |-> r.overflow]
  BY <1>5, StrokeStep
<1> HIDE DEF p
<1>9. /\ l \in Seq(Actions) /\ Len(l) = Len(st)
      /\ \A k \in 1 .. Len(st) : l[k] = ActionAt(e, p, k)
  BY <1>7, ActionsOfType
<1>10. st = <<stroke>>
  OBVIOUS
<1> HIDE DEF st, l
<1>11. Len(st) = 1 /\ st[1] = stroke
  BY <1>10
<1>12. a = ActionAt(e, p, 1) /\ a \in Actions /\ Len(l) = 1
  <2>1. 1 \in 1 .. Len(st) /\ 1 \in 1 .. Len(l)
    BY <1>9, <1>11
  <2> QED BY <1>9, <1>11, <2>1, ElementOfSeq
<1>13. ActionAt(e, p, 1) = [edge |-> EdgeOf(e), kind |-> st[1].kind, key |-> st[1].key,
                            delay |-> p % DelayLimit]
  BY DEF ActionAt, st
<1>14. Plays1(e, stroke, a)
  <2>1. a.edge = EdgeOf(e) /\ a.kind = st[1].kind /\ a.key = st[1].key
    <3> HIDE DEF a
    <3> QED BY <1>12, <1>13
  <2> QED BY <1>11, <1>12, <2>1 DEF Plays1
<1> HIDE DEF a
<1>15. l = <<a>>
  BY <1>9, <1>12 DEF a
<1>16. CompileStep(r, e).actions = Append(r.actions, a)
  <2>1. Append(r.actions, a) = r.actions \o <<a>>
    BY <1>7, <1>12, AppendIsConcat
  <2>2. CompileStep(r, e).actions = r.actions \o l
    BY <1>8
  <2> QED BY <1>15, <2>1, <2>2
<1>17. Played(Append(r.actions, a)) = PlayStep(Played(r.actions), a)
  BY <1>7, <1>12, PlayAppend
<1>18. Sound(s \o <<Tick, e>>) = PlayStep(Sound(t), a)
  BY <1>3, <1>6, <1>16, <1>17 DEF Sound, r
<1> QED BY <1>4, <1>14, <1>18

(* The three kinds of action that typed text is made of.                   *)
LEMMA PlayShift ==
  ASSUME NEW b \in BOOLEAN, NEW t, NEW a, a.kind = "ModifyKey", a.key = FirstModifier + 1
  PROVE  PlayStep([shift |-> b, text |-> t], a) = [shift |-> a.edge = "Down", text |-> t]
BY DEF PlayStep

LEMMA PlayUp ==
  ASSUME NEW b \in BOOLEAN, NEW t, NEW a, a.kind = "NormalKey", a.edge = "Up"
  PROVE  PlayStep([shift |-> b, text |-> t], a) = [shift |-> b, text |-> t]
BY DEF PlayStep

LEMMA PlayDown ==
  ASSUME NEW t, NEW c \in Chars, NEW a,
         a.kind = "NormalKey", a.edge = "Down", a.key = Codes(c)
  PROVE  PlayStep([shift |-> Characters[c].shift, text |-> t], a)
           = [shift |-> Characters[c].shift, text |-> Append(t, c)]
<1> DEFINE state == [shift |-> Characters[c].shift, text |-> t]
           chars == {d \in DOMAIN Characters : Codes(d) = a.key /\ Characters[d].shift = state.shift}
<1>1. state.shift = Characters[c].shift /\ state.text = t
  OBVIOUS
<1>2. ASSUME NEW d \in chars PROVE d = c
  <2>1. d \in Chars /\ Codes(d) = Codes(c) /\ Characters[d].shift = Characters[c].shift
    BY <1>1 DEF Chars
  <2>2. Characters[d] \in [symbol : Symbols, shift : BOOLEAN] /\ Characters[c] \in [symbol : Symbols, shift : BOOLEAN]
    BY <2>1, DocumentAssumption DEF Chars
  <2>3. Characters[d].symbol = Characters[c].symbol
    BY <2>1, <2>2, DocumentAssumption DEF Codes
  <2>4. Characters[d] = Characters[c]
    BY <2>1, <2>2, <2>3
  <2> QED BY <2>1, <2>4, DocumentAssumption DEF Chars
<1>3. chars = {c}
  <2>1. c \in chars
    BY <1>1 DEF Chars
  <2> QED BY <1>2, <2>1
<1>4. (CHOOSE d \in chars : TRUE) = c /\ chars # {}
  <2> HIDE DEF chars
  <2> QED BY <1>3
<1>5. PlayStep(state, a) = [state EXCEPT !.text = Append(@, CHOOSE d \in chars : TRUE)]
  <2> HIDE DEF state
  <2> QED BY <1>4 DEF PlayStep
<1>6. PlayStep(state, a) = [shift |-> Characters[c].shift, text |-> Append(t, c)]
  <2> HIDE DEF chars
  <2> QED BY <1>4, <1>5
<1> QED BY <1>6

(* A tap types its character if Shift is as the character wants it.        *)
LEMMA SoundOfTap ==
  ASSUME NEW s \in Seq(Plain), NEW t, NEW c \in Chars,
         Sound(s) = [shift |-> Characters[c].shift, text |-> t]
  PROVE  Sound(s \o Tap({Characters[c].symbol})) = [shift |-> Characters[c].shift, text |-> Append(t, c)]
<1> DEFINE n == {Characters[c].symbol}
           p == [press |-> n]
           r == [release |-> n]
           x == <<Tick, p>>
           y == <<Tick, r>>
           stroke == [kind |-> "NormalKey", key |-> Codes(c)]
           b == Characters[c].shift
<1>1. n \in Names /\ b \in BOOLEAN /\ Strokes(n) = <<stroke>>
  BY Letter, KeyStroke DEF Chars, Codes
<1>2. p \in Stroking /\ r \in Stroking /\ Tick \in Plain /\ p \in Plain /\ r \in Plain
  BY <1>1, PlainEvents
<1>3. NameIn(p) = n /\ EdgeOf(p) = "Down" /\ NameIn(r) = n /\ EdgeOf(r) = "Up"
  BY Forms
<1>4. Tap(n) = <<Tick, p, Tick, r>>
  BY DEF Tap
<1>5. stroke.kind = "NormalKey" /\ stroke.key = Codes(c)
  OBVIOUS
<1> HIDE DEF n, p, r, stroke, b
<1>6. x \in Seq(Plain) /\ y \in Seq(Plain)
  BY <1>2
<1>7. Tap(n) = x \o y
  <2>1. Len(x) = 2 /\ x[1] = Tick /\ x[2] = p /\ Len(y) = 2 /\ y[1] = Tick /\ y[2] = r
    OBVIOUS
  <2>2. Tap(n) \in Seq(Plain) /\ Len(Tap(n)) = 4
        /\ Tap(n)[1] = Tick /\ Tap(n)[2] = p /\ Tap(n)[3] = Tick /\ Tap(n)[4] = r
    BY <1>2, <1>4
  <2> HIDE DEF x, y
  <2>3. x \o y \in Seq(Plain) /\ Len(x \o y) = 4
        /\ (x \o y)[1] = Tick /\ (x \o y)[2] = p /\ (x \o y)[3] = Tick /\ (x \o y)[4] = r
    <3>1. /\ x \o y \in Seq(Plain) /\ Len(x \o y) = Len(x) + Len(y)
          /\ \A i \in 1 .. Len(x) + Len(y) : (x \o y)[i] = IF i <= Len(x) THEN x[i] ELSE y[i - Len(x)]
      BY <1>6, ConcatProperties
    <3>2. /\ Len(x \o y) = 4
          /\ \A i \in 1 .. 4 : (x \o y)[i] = IF i <= 2 THEN x[i] ELSE y[i - 2]
      BY <2>1, <3>1
    <3>3. (x \o y)[1] = x[1] /\ (x \o y)[2] = x[2] /\ (x \o y)[3] = y[1] /\ (x \o y)[4] = y[2]
      BY <3>2
    <3> QED BY <2>1, <3>1, <3>2, <3>3
  <2>4. \A i \in 1 .. 4 : Tap(n)[i] = (x \o y)[i]
    <3>1. \A i \in 1 .. 4 : i = 1 \/ i = 2 \/ i = 3 \/ i = 4
      OBVIOUS
    <3> QED BY <2>2, <2>3, <3>1
  <2> QED BY <2>2, <2>3, <2>4, SeqEqual
<1>8. PICK a : Plays1(p, stroke, a) /\ Sound(s \o x) = PlayStep(Sound(s), a)
  BY <1>1, <1>2, <1>3, SoundOfStroke
<1>9. s \o x \in Seq(Plain)
  BY <1>6, ConcatProperties
<1>10. PICK d : Plays1(r, stroke, d) /\ Sound((s \o x) \o y) = PlayStep(Sound(s \o x), d)
  BY <1>1, <1>2, <1>3, <1>9, SoundOfStroke
<1> HIDE DEF x, y
<1>11. (s \o x) \o y = s \o Tap(n)
  BY <1>6, <1>7, ConcatAssociative
<1>12. Sound(s \o x) = [shift |-> Characters[c].shift, text |-> Append(t, c)]
  <2>1. a.kind = "NormalKey" /\ a.edge = "Down" /\ a.key = Codes(c)
    BY <1>3, <1>5, <1>8 DEF Plays1
  <2> QED BY <1>8, <2>1, PlayDown
<1>13. Sound((s \o x) \o y) = [shift |-> b, text |-> Append(t, c)]
  <2>1. d.kind = "NormalKey" /\ d.edge = "Up"
    BY <1>3, <1>5, <1>10 DEF Plays1
  <2>2. Sound(s \o x) = [shift |-> b, text |-> Append(t, c)]
    BY <1>12 DEF b
  <2>3. PlayStep([shift |-> b, text |-> Append(t, c)], d) = [shift |-> b, text |-> Append(t, c)]
    BY <1>1, <2>1, PlayUp
  <2> QED BY <1>10, <2>2, <2>3
<1> QED BY <1>11, <1>13 DEF b, n

(* Shift goes down and up again.                                           *)
LEMMA SoundOfShift ==
  ASSUME NEW s \in Seq(Plain), NEW b \in BOOLEAN, NEW t, Sound(s) = [shift |-> b, text |-> t]
  PROVE  /\ Sound(s \o <<Tick, [press |-> {"LShift"}]>>) = [shift |-> TRUE, text |-> t]
         /\ Sound(s \o <<Tick, [release |-> {"LShift"}]>>) = [shift |-> FALSE, text |-> t]
<1> DEFINE n == {"LShift"}
           p == [press |-> n]
           r == [release |-> n]
           stroke == [kind |-> "ModifyKey", key |-> FirstModifier + 1]
<1>1. n \in Names /\ Strokes(n) = <<stroke>>
  <2>1. Modifiers[2] = "LShift" /\ 2 \in 1 .. 8 /\ FirstModifier + 2 - 1 = FirstModifier + 1
    BY DocumentAssumption, Bits
  <2>2. /\ Strokes({Modifiers[2]}) = <<[kind |-> "ModifyKey", key |-> FirstModifier + 2 - 1]>>
        /\ {Modifiers[2]} \in Names
    BY <2>1, ModifierStroke
  <2> QED BY <2>1, <2>2
<1>2. p \in Stroking /\ r \in Stroking
  BY <1>1, PlainEvents
<1>3. NameIn(p) = n /\ EdgeOf(p) = "Down" /\ NameIn(r) = n /\ EdgeOf(r) = "Up"
  BY Forms
<1>4. stroke.kind = "ModifyKey" /\ stroke.key = FirstModifier + 1
  OBVIOUS
<1> HIDE DEF n, p, r, stroke
<1>5. PICK a : Plays1(p, stroke, a) /\ Sound(s \o <<Tick, p>>) = PlayStep(Sound(s), a)
  BY <1>1, <1>2, <1>3, SoundOfStroke
<1>6. PICK d : Plays1(r, stroke, d) /\ Sound(s \o <<Tick, r>>) = PlayStep(Sound(s), d)
  BY <1>1, <1>2, <1>3, SoundOfStroke
<1>7. a.kind = "ModifyKey" /\ a.key = FirstModifier + 1 /\ a.edge = "Down"
  BY <1>3, <1>4, <1>5 DEF Plays1
<1>8. d.kind = "ModifyKey" /\ d.key = FirstModifier + 1 /\ d.edge = "Up"
  BY <1>3, <1>4, <1>6 DEF Plays1
<1>9. Sound(s \o <<Tick, p>>) = [shift |-> TRUE, text |-> t]
  <2>1. PlayStep([shift |-> b, text |-> t], a) = [shift |-> a.edge = "Down", text |-> t]
    BY <1>7, PlayShift
  <2>2. (a.edge = "Down") = TRUE
    BY <1>7
  <2> QED BY <1>5, <2>1, <2>2
<1>10. Sound(s \o <<Tick, r>>) = [shift |-> FALSE, text |-> t]
  <2>1. PlayStep([shift |-> b, text |-> t], d) = [shift |-> d.edge = "Down", text |-> t]
    BY <1>8, PlayShift
  <2>2. (d.edge = "Down") = FALSE
    BY <1>8
  <2> QED BY <1>6, <2>1, <2>2
<1> QED BY <1>9, <1>10 DEF n, p, r

LEMMA SoundOfKeystrokes ==
  ASSUME NEW s \in Seq(Plain), NEW t, NEW c \in Chars,
         Sound(s) = [shift |-> FALSE, text |-> t]
  PROVE  Sound(s \o Keystrokes(c)) = [shift |-> FALSE, text |-> Append(t, c)]
<1> DEFINE tap == Tap({Characters[c].symbol})
           p == [press |-> {"LShift"}]
           r == [release |-> {"LShift"}]
           x == <<Tick, p>>
           y == <<Tick, r>>
           b == Characters[c].shift
<1>1. b \in BOOLEAN /\ tap \in Seq(Plain) /\ Tick \in Plain /\ p \in Plain /\ r \in Plain
  BY Letter, TapType, PlainEvents DEF Chars
<1>2. Keystrokes(c) = IF b THEN x \o tap \o y ELSE tap
  BY DEF Keystrokes
<1>3. x \in Seq(Plain) /\ y \in Seq(Plain)
  <2> HIDE DEF p, r
  <2> QED BY <1>1
<1>4. CASE b = FALSE
  <2>1. Sound(s) = [shift |-> Characters[c].shift, text |-> t]
    BY <1>4
  <2>2. Sound(s \o tap) = [shift |-> Characters[c].shift, text |-> Append(t, c)]
    BY <2>1, SoundOfTap
  <2> HIDE DEF tap, x, y
  <2> QED BY <1>2, <1>4, <2>2
<1>5. CASE b = TRUE
  <2>1. Sound(s \o x) = [shift |-> TRUE, text |-> t]
    BY SoundOfShift
  <2>2. s \o x \in Seq(Plain)
    BY <1>3, ConcatProperties
  <2> DEFINE u == s \o x
  <2>3. u \in Seq(Plain) /\ Sound(u) = [shift |-> Characters[c].shift, text |-> t]
    BY <1>5, <2>1, <2>2
  <2> HIDE DEF u, x
  <2>4. Sound(u \o tap) = [shift |-> Characters[c].shift, text |-> Append(t, c)]
    BY <2>3, SoundOfTap
  <2>5. u \o tap \in Seq(Plain)
    BY <1>1, <2>3, ConcatProperties
  <2>6. Sound((u \o tap) \o y) = [shift |-> FALSE, text |-> Append(t, c)]
    <3> DEFINE v == u \o tap
               z == Append(t, c)
    <3>1. v \in Seq(Plain) /\ Sound(v) = [shift |-> TRUE, text |-> z]
      BY <1>5, <2>4, <2>5
    <3> HIDE DEF v, z
    <3>2. Sound(v \o y) = [shift |-> FALSE, text |-> z]
      BY <3>1, SoundOfShift
    <3> QED BY <3>2 DEF v, z
  <2> HIDE DEF tap, y
  <2>7. (u \o tap) \o y = s \o (x \o tap \o y)
    <3>1. x \o tap \in Seq(Plain)
      BY <1>1, <1>3, ConcatProperties
    <3>2. u \o tap = s \o (x \o tap)
      BY <1>1, <1>3, ConcatAssociative DEF u
    <3>3. (s \o (x \o tap)) \o y = s \o ((x \o tap) \o y)
      <4> DEFINE z == x \o tap
      <4>1. z \in Seq(Plain) /\ y \in Seq(Plain)
        BY <1>3, <3>1 DEF y
      <4> HIDE DEF z
      <4>2. (s \o z) \o y = s \o (z \o y)
        BY <4>1, ConcatAssociative
      <4> QED BY <4>2 DEF z
    <3> QED BY <3>2, <3>3
  <2> QED BY <1>2, <1>5, <2>6, <2>7
<1> QED BY <1>1, <1>4, <1>5

LEMMA SoundOfTyping ==
  ASSUME NEW s \in Seq(Plain), NEW x \in Seq(Chars), Sound(s) = [shift |-> FALSE, text |-> x],
         NEW t \in Seq(Chars)
  PROVE  Sound(s \o Typing(t)) = [shift |-> FALSE, text |-> x \o t]
<1> DEFINE G == {u \in Seq(Chars) : Sound(s \o Typing(u)) = [shift |-> FALSE, text |-> x \o u]}
<1>1. <<>> \in G
  <2>1. Typing(<<>>) = <<>> /\ s \o <<>> = s /\ x \o <<>> = x
    BY TypingIs, ConcatEmptySeq
  <2> QED BY <2>1, EmptySeq
<1>2. ASSUME NEW u \in Seq(Chars), NEW c \in Chars, u \in G PROVE Append(u, c) \in G
  <2>1. Typing(Append(u, c)) = Typing(u) \o Keystrokes(c) /\ Typing(u) \in Seq(Plain)
        /\ Keystrokes(c) \in Seq(Plain)
    BY TypingIs, KeystrokesType DEF Chars
  <2>2. (s \o Typing(u)) \o Keystrokes(c) = s \o (Typing(u) \o Keystrokes(c))
    BY <2>1, ConcatAssociative
  <2> DEFINE v == s \o Typing(u)
             z == x \o u
  <2>3. v \in Seq(Plain) /\ Sound(v) = [shift |-> FALSE, text |-> z]
    BY <1>2, <2>1, ConcatProperties
  <2>4. z \in Seq(Chars)
    BY ConcatProperties
  <2> HIDE DEF v, z
  <2>5. Sound(v \o Keystrokes(c)) = [shift |-> FALSE, text |-> Append(z, c)]
    BY <2>3, SoundOfKeystrokes
  <2>6. Append(z, c) = x \o Append(u, c)
    <3>1. <<c>> \in Seq(Chars) /\ Append(u, c) = u \o <<c>> /\ Append(z, c) = z \o <<c>>
      BY <2>4, AppendIsConcat
    <3>2. (x \o u) \o <<c>> = x \o (u \o <<c>>)
      BY <3>1, ConcatAssociative
    <3> QED BY <3>1, <3>2 DEF z
  <2>7. Append(u, c) \in Seq(Chars)
    BY AppendProperties
  <2>8. Sound(s \o Typing(Append(u, c))) = [shift |-> FALSE, text |-> x \o Append(u, c)]
    BY <2>1, <2>2, <2>5, <2>6 DEF v
  <2> QED BY <2>7, <2>8
<1> HIDE DEF G
<1>3. t \in G
  BY <1>1, <1>2, ListInduction
<1> QED BY <1>3 DEF G

LEMMA TextIs ==
  /\ TextOf(<<>>) = <<>>
  /\ \A s \in Seq(Accepts) : TextOf(s) \in Seq(Chars)
  /\ \A s \in Seq(Accepts), d \in Nat : TextOf(Append(s, [delay |-> d])) = TextOf(s)
  /\ \A s \in Seq(Accepts), t \in Seq(Chars) : TextOf(Append(s, [type |-> t])) = TextOf(s) \o t
<1> DEFINE In(e) == IF Has(e, "type") THEN e.type ELSE <<>>
           f == [e \in Accepts |-> In(e)]
<1>1. ASSUME NEW t \in Seq(Chars) PROVE [type |-> t] \in Accepts /\ In([type |-> t]) = t
  <2> DEFINE e == [type |-> t]
  <2>1. e \in Accepts /\ Has(e, "type") /\ e.type = t
    BY Forms DEF Accepts, Chars
  <2> HIDE DEF e
  <2>2. In(e) = t
    BY <2>1
  <2> QED BY <2>1, <2>2 DEF e
<1>2. ASSUME NEW e \in Plain PROVE In(e) = <<>>
  <2>1. ASSUME NEW d \in Nat, e = [delay |-> d] PROVE ~Has(e, "type")
    BY <2>1, Forms
  <2>2. ~Has(e, "type")
    BY <2>1, PlainForms, StrokingForms
  <2> QED BY <2>2
<1>3. ASSUME NEW e \in Accepts PROVE In(e) \in Seq(Chars)
  <2>1. e \in Plain \/ \E t \in Seq(Chars) : e = [type |-> t]
    BY DEF Accepts, Chars
  <2>2. <<>> \in Seq(Chars)
    BY EmptySeq
  <2> HIDE DEF In
  <2> QED BY <1>1, <1>2, <2>1, <2>2
<1>4. \A s : TextOf(s) = FlattenSeq([i \in DOMAIN s |-> In(s[i])])
  BY DEF TextOf
<1> HIDE DEF In
<1>5. f \in [Accepts -> Seq(Chars)] /\ \A e \in Accepts : f[e] = In(e)
  BY <1>3
<1>6. ASSUME NEW s \in Seq(Accepts) PROVE TextOf(s) = Mapped(f, s)
  <2>1. \A k \in DOMAIN s : s[k] \in Accepts
    BY LenProperties, ElementOfSeq
  <2>2. [k \in DOMAIN s |-> In(s[k])] = [k \in DOMAIN s |-> f[s[k]]]
    BY <2>1
  <2> QED BY <1>4, <2>2 DEF Mapped
<1> HIDE DEF f
<1>7. ASSUME NEW s \in Seq(Accepts), NEW e \in Accepts PROVE TextOf(Append(s, e)) = TextOf(s) \o In(e)
  <2>1. Append(s, e) \in Seq(Accepts)
    BY AppendProperties
  <2>2. Mapped(f, Append(s, e)) = Mapped(f, s) \o f[e]
    BY <1>5, MappedAppend
  <2> QED BY <1>5, <1>6, <2>1, <2>2
<1>8. TextOf(<<>>) = <<>>
  <2>1. <<>> \in Seq(Accepts)
    BY EmptySeq
  <2> QED BY <1>6, <2>1, MappedNone
<1>9. \A s \in Seq(Accepts) : TextOf(s) \in Seq(Chars)
  BY <1>5, <1>6, MappedType
<1>10. ASSUME NEW s \in Seq(Accepts), NEW d \in Nat PROVE TextOf(Append(s, [delay |-> d])) = TextOf(s)
  <2>1. [delay |-> d] \in Plain /\ [delay |-> d] \in Accepts
    BY PlainEvents
  <2>2. TextOf(s) \o <<>> = TextOf(s)
    BY <1>9, ConcatEmptySeq
  <2>3. In([delay |-> d]) = <<>>
    BY <1>2, <2>1
  <2> QED BY <1>7, <2>1, <2>2, <2>3
<1>11. ASSUME NEW s \in Seq(Accepts), NEW t \in Seq(Chars)
       PROVE TextOf(Append(s, [type |-> t])) = TextOf(s) \o t
  BY <1>1, <1>7
<1> QED BY <1>8, <1>9, <1>10, <1>11

(* Blocks of typed text and delays.                                        *)
Spoken == [delay : Nat] \union [type : Seq(Chars)]

LEMMA SoundOfScript ==
  ASSUME NEW s \in Seq(Spoken)
  PROVE  Sound(Expanded(s)) = [shift |-> FALSE, text |-> TextOf(s)]
<1> DEFINE G == {u \in Seq(Spoken) : Sound(Expanded(u)) = [shift |-> FALSE, text |-> TextOf(u)]}
<1>0. Spoken \subseteq Accepts
  BY DEF Spoken, Accepts, Plain, Chars
<1>1. <<>> \in G
  <2>1. Sound(<<>>) = Silence
    BY RunNone, PlayNone DEF Sound, Start
  <2> QED BY <2>1, ExpandedIs, TextIs, EmptySeq DEF Silence
<1>2. ASSUME NEW u \in Seq(Spoken), NEW e \in Spoken, u \in G PROVE Append(u, e) \in G
  <2>1. u \in Seq(Accepts) /\ e \in Accepts
    BY <1>0, SeqMonotonic
  <2>2. Expanded(u) \in Seq(Plain) /\ TextOf(u) \in Seq(Chars)
    BY <2>1, ExpandedIs, TextIs
  <2>3. Sound(Expanded(u)) = [shift |-> FALSE, text |-> TextOf(u)]
    BY <1>2
  <2>4. ASSUME NEW d \in Nat, e = [delay |-> d]
        PROVE  Sound(Expanded(Append(u, e))) = [shift |-> FALSE, text |-> TextOf(Append(u, e))]
    <3>1. [delay |-> d] \in Plain
      BY PlainEvents
    <3>2. Expanded(Append(u, [delay |-> d])) = Append(Expanded(u), [delay |-> d])
      BY <2>1, <3>1, ExpandedIs
    <3>3. Sound(Append(Expanded(u), [delay |-> d])) = Sound(Expanded(u))
      BY <2>2, SoundOfDelay
    <3>4. TextOf(Append(u, [delay |-> d])) = TextOf(u)
      BY <2>1, TextIs
    <3> QED BY <2>3, <2>4, <3>2, <3>3, <3>4
  <2>5. ASSUME NEW t \in Seq(Chars), e = [type |-> t]
        PROVE  Sound(Expanded(Append(u, e))) = [shift |-> FALSE, text |-> TextOf(Append(u, e))]
    <3>1. Has(e, "type") /\ e.type = t
      BY <2>5, Forms
    <3>2. Steps(e) = Typing(t)
      BY <3>1 DEF Steps
    <3>3. Expanded(Append(u, e)) = Expanded(u) \o Typing(t)
      BY <2>1, <3>2, ExpandedIs
    <3>4. Sound(Expanded(u) \o Typing(t)) = [shift |-> FALSE, text |-> TextOf(u) \o t]
      BY <2>2, <2>3, SoundOfTyping
    <3>5. TextOf(Append(u, [type |-> t])) = TextOf(u) \o t
      BY <2>1, TextIs
    <3> QED BY <2>5, <3>3, <3>4, <3>5
  <2>6. (\E d \in Nat : e = [delay |-> d]) \/ \E t \in Seq(Chars) : e = [type |-> t]
    BY DEF Spoken
  <2>7. Append(u, e) \in Seq(Spoken)
    BY AppendProperties
  <2> QED BY <2>4, <2>5, <2>6, <2>7
<1> HIDE DEF G
<1>3. s \in G
  BY <1>1, <1>2, ListInduction
<1> QED BY <1>3 DEF G

(* A block of typed text and delays types its text, character by           *)
(* character, and leaves Shift as it was, for texts of any length.         *)
THEOREM TypedTextAppearsHolds == Spec => []TypedTextAppears
<1>1. MacroInv => TypedTextAppears
  <2> SUFFICES ASSUME MacroInv, Accepted(script),
                      \A i \in DOMAIN script : Has(script[i], "type") \/ Has(script[i], "delay")
               PROVE  Played(Compiled(script).actions) = [shift |-> FALSE, text |-> TextOf(script)]
    BY DEF TypedTextAppears
  <2>1. script \in Seq(Accepts) /\ IsList(script)
    BY AcceptedIs DEF MacroInv, IsScript
  <2>2. ASSUME NEW i \in DOMAIN script PROVE script[i] \in Spoken
    <3> DEFINE e == script[i]
    <3>1. e \in Accepts
      BY <2>1, LenProperties, ElementOfSeq
    <3>2. Has(e, "type") \/ Has(e, "delay")
      OBVIOUS
    <3> HIDE DEF e
    <3>3. e \notin Stroking
      BY <3>2, StrokingForms
    <3>4. e \in [delay : Nat] \/ e \in [type : Seq(Chars)]
      BY <3>1, <3>3 DEF Accepts, Plain, Chars
    <3> QED BY <3>4 DEF Spoken, e
  <2>3. script \in Seq(Spoken)
    BY <2>1, <2>2, ListIs
  <2> QED BY <2>3, SoundOfScript DEF Sound, Compiled
<1> QED BY <1>1, MacroInit, MacroNext, PTL DEF Spec
=============================================================================
