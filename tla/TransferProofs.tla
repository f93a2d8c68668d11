---------------------------- MODULE TransferProofs ----------------------------
(***************************************************************************)
(* Proofs about Transfer, for letters of any number of lines of any length. *)
(***************************************************************************)
EXTENDS Transfer, SequenceTheorems, WellFoundedInduction, TLAPS

-----------------------------------------------------------------------------
(* Induction without an induction theorem: of the numbers for which         *)
(* something fails there is a least one.                                    *)

LEMMA NoLeastFailure ==
  ASSUME NEW n \in Nat, NEW T, T \subseteq 0 .. n, 0 \notin T,
         \A k \in 1 .. n : k \in T => k - 1 \in T
  PROVE  T = {}
<1> SUFFICES ASSUME T # {}
             PROVE  FALSE
  OBVIOUS
<1>1. T \subseteq Nat
  OBVIOUS
<1>2. PICK x \in T : \A y \in T : ~(<<y, x>> \in OpToRel(<, Nat))
  BY <1>1, NatLessThanWellFounded, WFMin
<1>3. x \in 1 .. n
  OBVIOUS
<1>4. x - 1 \in T
  BY <1>3
<1>5. <<x - 1, x>> \in OpToRel(<, Nat)
  <2>1. OpToRel(<, Nat) = {ss \in Nat \X Nat : ss[1] < ss[2]}
    BY Zenon DEF OpToRel
  <2>2. ASSUME NEW y \in Nat, y < x
        PROVE  <<y, x>> \in OpToRel(<, Nat)
    <3>1. x \in Nat
      BY <1>3
    <3>2. QED
      BY <2>1, <2>2, <3>1
  <2>3. x - 1 \in Nat /\ x - 1 < x
    BY <1>3
  <2>4. QED
    BY <2>2, <2>3, Zenon
<1>6. QED
  BY <1>2, <1>4, <1>5

-----------------------------------------------------------------------------
(* FlattenSeq. *)

\* Concatenation under a name, for what only needs the facts below.
Cat(a, b) == a \o b

LEMMA CatAssociative ==
  ASSUME NEW S, NEW a \in Seq(S), NEW b \in Seq(S), NEW c \in Seq(S)
  PROVE  Cat(Cat(a, b), c) = Cat(a, Cat(b, c))
BY ConcatAssociative DEF Cat

LEMMA CatType ==
  ASSUME NEW S, NEW a \in Seq(S), NEW b \in Seq(S)
  PROVE  Cat(a, b) \in Seq(S)
BY DEF Cat

LEMMA CatEmpty ==
  ASSUME NEW S, NEW a \in Seq(S)
  PROVE  Cat(a, <<>>) = a /\ Cat(<<>>, a) = a
BY ConcatEmptySeq DEF Cat

\* F[k] is start and then the first k sequences of s.
Joins(S, F, start, s) ==
  /\ \A k \in 0 .. Len(s) : F[k] \in Seq(S)
  /\ F[0] = start
  /\ \A k \in 1 .. Len(s) : F[k] = Cat(F[k - 1], s[k])

LEMMA JoinsExist ==
  ASSUME NEW S, NEW s \in Seq(Seq(S)), NEW start \in Seq(S)
  PROVE  \E F : Joins(S, F, start, s)
<1> DEFINE Upto(k, F) == /\ F[0] = start
                         /\ \A i \in 1 .. k : F[i] = Cat(F[i - 1], s[i])
           None == {k \in 0 .. Len(s) : \A F \in [0 .. k -> Seq(S)] : ~Upto(k, F)}
<1>1. 0 \notin None
  <2>1. [i \in 0 .. 0 |-> start] \in [0 .. 0 -> Seq(S)]
    OBVIOUS
  <2>2. Upto(0, [i \in 0 .. 0 |-> start])
    OBVIOUS
  <2>3. QED
    BY <2>1, <2>2, Zenon DEF None
<1>2. ASSUME NEW k \in 1 .. Len(s), k \in None
      PROVE  k - 1 \in None
  <2> SUFFICES ASSUME NEW F \in [0 .. k - 1 -> Seq(S)], Upto(k - 1, F)
               PROVE  FALSE
    <3>1. k - 1 \in 0 .. Len(s)
      OBVIOUS
    <3>2. QED
      BY <3>1, Zenon DEF None
  <2> DEFINE G == [i \in 0 .. k |-> IF i = k THEN Cat(F[k - 1], s[k]) ELSE F[i]]
  <2>1. Cat(F[k - 1], s[k]) \in Seq(S)
    BY CatType
  <2>2. G \in [0 .. k -> Seq(S)]
    BY <2>1
  <2>3. Upto(k, G)
    <3>a. k \in Nat /\ 0 \in 0 .. k /\ 0 # k
      OBVIOUS
    <3>b. F[0] = start /\ \A i \in 1 .. k - 1 : F[i] = Cat(F[i - 1], s[i])
      OBVIOUS
    <3>c. G[k] = Cat(F[k - 1], s[k])
      <4>1. k \in 0 .. k
        BY <3>a
      <4>2. QED
        BY <4>1, Zenon
    <3>d. \A i \in 0 .. k : i # k => G[i] = F[i]
      OBVIOUS
    <3>1. G[0] = start
      BY <3>a, <3>b, <3>d
    <3>2. ASSUME NEW i \in 1 .. k
          PROVE  G[i] = Cat(G[i - 1], s[i])
      <4> HIDE DEF G
      <4>1. i - 1 \in 0 .. k /\ i - 1 # k /\ i \in 0 .. k /\ (i # k => i \in 1 .. k - 1)
        BY <3>a
      <4>2. G[i - 1] = F[i - 1]
        BY <4>1, <3>d, Zenon
      <4>3. CASE i = k
        BY <4>2, <4>3, <3>c, Zenon
      <4>4. CASE i # k
        BY <4>1, <4>2, <4>4, <3>b, <3>d, Zenon
      <4>5. QED
        BY <4>3, <4>4
    <3>3. QED
      BY <3>1, <3>2
  <2>4. \A H \in [0 .. k -> Seq(S)] : ~Upto(k, H)
    BY <1>2, Zenon DEF None
  <2>5. QED
    BY <2>2, <2>3, <2>4, Zenon
<1>3. None = {}
  <2>1. None \subseteq 0 .. Len(s)
    BY Zenon DEF None
  <2>n. Len(s) \in Nat
    OBVIOUS
  <2> HIDE DEF None
  <2>2. QED
    BY <2>1, <2>n, <1>1, <1>2, NoLeastFailure
<1>4. Len(s) \in 0 .. Len(s)
  OBVIOUS
<1>5. PICK F \in [0 .. Len(s) -> Seq(S)] : Upto(Len(s), F)
  BY <1>3, <1>4
<1>6. QED
  BY <1>5, Zenon DEF Joins

\* Beginning with something else than nothing puts it in front.
LEMMA JoinsAfter ==
  ASSUME NEW S, NEW s \in Seq(Seq(S)), NEW start \in Seq(S),
         NEW F, Joins(S, F, <<>>, s), NEW G, Joins(S, G, start, s)
  PROVE  \A k \in 0 .. Len(s) : G[k] = Cat(start, F[k])
<1> DEFINE Wrong == {k \in 0 .. Len(s) : G[k] # Cat(start, F[k])}
<1>1. 0 \notin Wrong
  <2>1. Cat(start, <<>>) = start
    BY CatEmpty
  <2>2. QED
    BY <2>1 DEF Joins
<1>2. ASSUME NEW k \in 1 .. Len(s), k - 1 \notin Wrong
      PROVE  k \notin Wrong
  <2>1. k - 1 \in 0 .. Len(s) /\ k \in 0 .. Len(s) /\ s[k] \in Seq(S)
    OBVIOUS
  <2>2. G[k - 1] = Cat(start, F[k - 1])
    BY <1>2, <2>1
  <2>3. F[k - 1] \in Seq(S)
    BY <2>1, Zenon DEF Joins
  <2>4. G[k] = Cat(G[k - 1], s[k]) /\ F[k] = Cat(F[k - 1], s[k])
    BY Zenon DEF Joins
  <2>5. QED
    BY <2>1, <2>2, <2>3, <2>4, CatAssociative
<1>3. Wrong = {}
  <2>1. Wrong \subseteq 0 .. Len(s) /\ Len(s) \in Nat
    OBVIOUS
  <2> HIDE DEF Wrong
  <2>2. QED
    BY <2>1, <1>1, <1>2, NoLeastFailure
<1>4. QED
  BY <1>3

LEMMA FlattenJoins ==
  ASSUME NEW S, NEW s \in Seq(Seq(S))
  PROVE  \E F : Joins(S, F, <<>>, s) /\ F[Len(s)] = FlattenSeq(s)
<1> DEFINE n == Len(s)
<1>n. n \in Nat
  OBVIOUS
<1>1. <<>> \in Seq(S)
  BY EmptySeq
<1>2. PICK F : Joins(S, F, <<>>, s)
  BY <1>1, JoinsExist
<1>3. CASE n = 0
  <2>1. s = <<>> /\ FlattenSeq(s) = s
    BY <1>3 DEF FlattenSeq
  <2>2. F[n] = <<>>
    BY <1>2, <1>3 DEF Joins
  <2>3. QED
    BY <1>2, <2>1, <2>2
<1>4. CASE n # 0
  <2> DEFINE Step(f) == [i \in 1 .. n |-> IF i = 1 THEN s[i] ELSE Cat(f[i - 1], s[i])]
             flatten == CHOOSE f : f = Step(f)
             G == [i \in 1 .. n |-> F[i]]
  <2>1. FlattenSeq(s) = flatten[n]
    BY <1>4 DEF FlattenSeq, Cat
  <2>2. F[1] = s[1]
    <3>a. 1 \in 1 .. Len(s) /\ 1 - 1 = 0
      BY <1>4, <1>n
    <3>1. F[1] = Cat(F[1 - 1], s[1]) /\ F[0] = <<>>
      BY <3>a, <1>2, Zenon DEF Joins
    <3>2. s[1] \in Seq(S)
      BY <1>4, <1>n
    <3>3. QED
      BY <3>a, <3>1, <3>2, CatEmpty
  <2>3. \A i \in 1 .. n : i # 1 => F[i] = Cat(F[i - 1], s[i]) /\ i - 1 \in 1 .. n
    <3>1. \A i \in 1 .. n : i # 1 => i - 1 \in 1 .. n
      BY <1>n
    <3>2. \A i \in 1 .. n : F[i] = Cat(F[i - 1], s[i])
      BY <1>2, Zenon DEF Joins
    <3>3. QED
      BY <3>1, <3>2, Zenon
  <2>4. G = Step(G)
    BY <2>2, <2>3
  <2>5. flatten = Step(flatten)
    BY <2>4, Zenon
  <2> DEFINE Wrong == {k \in 0 .. n : k # 0 /\ flatten[k] # F[k]}
  <2> HIDE DEF flatten
  <2>6. 0 \notin Wrong
    OBVIOUS
  <2>7. ASSUME NEW k \in 1 .. n, k - 1 \notin Wrong
        PROVE  k \notin Wrong
    <3>1. flatten[k] = IF k = 1 THEN s[k] ELSE Cat(flatten[k - 1], s[k])
      BY <2>5
    <3>2. CASE k = 1
      BY <3>1, <3>2, <2>2
    <3>3. CASE k # 1
      <4>1. flatten[k - 1] = F[k - 1]
        BY <3>3, <2>7
      <4>2. QED
        BY <4>1, <3>1, <3>3, <2>3
    <3>4. QED
      BY <3>2, <3>3
  <2>8. Wrong = {}
    <3>1. Wrong \subseteq 0 .. n /\ n \in Nat
      BY <1>n
    <3> HIDE DEF Wrong
    <3>2. QED
      BY <3>1, <2>6, <2>7, NoLeastFailure
  <2>9. flatten[n] = F[n]
    BY <2>8, <1>4, <1>n
  <2>10. QED
    BY <1>2, <2>1, <2>9
<1>5. QED
  BY <1>3, <1>4

LEMMA FlattenType ==
  ASSUME NEW S, NEW s \in Seq(Seq(S))
  PROVE  FlattenSeq(s) \in Seq(S)
<1>1. PICK F : Joins(S, F, <<>>, s) /\ F[Len(s)] = FlattenSeq(s)
  BY FlattenJoins
<1>2. Len(s) \in 0 .. Len(s)
  OBVIOUS
<1>3. QED
  BY <1>1, <1>2, Zenon DEF Joins

LEMMA FlattenConcat ==
  ASSUME NEW S, NEW a \in Seq(Seq(S)), NEW b \in Seq(Seq(S))
  PROVE  FlattenSeq(Cat(a, b)) = Cat(FlattenSeq(a), FlattenSeq(b))
<1> DEFINE m == Len(a)
           n == Len(b)
           ab == Cat(a, b)
<1>1. ab \in Seq(Seq(S)) /\ Len(ab) = m + n
  BY DEF Cat
<1>2. m \in Nat /\ n \in Nat
  OBVIOUS
<1>3. \A k \in 1 .. m : ab[k] = a[k]
  BY DEF Cat
<1>4. \A k \in 1 .. n : ab[m + k] = b[k]
  BY DEF Cat
<1> HIDE DEF ab
<1>5. PICK A : Joins(S, A, <<>>, a) /\ A[m] = FlattenSeq(a)
  BY FlattenJoins
<1>6. PICK B : Joins(S, B, <<>>, b) /\ B[n] = FlattenSeq(b)
  BY FlattenJoins
<1>7. PICK F : Joins(S, F, <<>>, ab) /\ F[m + n] = FlattenSeq(ab)
  BY <1>1, FlattenJoins
<1> HIDE DEF m, n
<1>t. /\ \A k \in 0 .. m : A[k] \in Seq(S)
      /\ \A k \in 0 .. n : B[k] \in Seq(S)
      /\ \A k \in 0 .. m + n : F[k] \in Seq(S)
  BY <1>1, <1>5, <1>6, <1>7, Zenon DEF Joins, m, n
<1>8. F[0] = <<>> /\ \A k \in 1 .. m + n : F[k] = Cat(F[k - 1], ab[k])
  BY <1>1, <1>7, Zenon DEF Joins
<1>9. m \in 0 .. m /\ n \in 0 .. n
  BY <1>2
<1>10. F[m] = FlattenSeq(a)
  <2>1. /\ \A k \in 1 .. m : k \in 1 .. m + n
        /\ \A k \in 0 .. m : k \in 0 .. m + n
    BY <1>2
  <2>2. Joins(S, F, <<>>, a)
    BY <1>3, <1>8, <1>t, <2>1, Zenon DEF Joins, m
  <2>3. <<>> \in Seq(S)
    BY EmptySeq
  <2>4. F[m] = Cat(<<>>, A[m])
    <3>1. PICK empty \in Seq(S) : empty = <<>>
      BY <2>3
    <3>2. Joins(S, F, empty, a)
      BY <2>2, <3>1, Zenon
    <3>3. \A k \in 0 .. Len(a) : F[k] = Cat(empty, A[k])
      BY <1>5, <3>2, JoinsAfter
    <3>4. QED
      BY <1>9, <3>1, <3>3 DEF m
  <2>5. Cat(<<>>, A[m]) = A[m]
    BY <1>9, <1>t, CatEmpty
  <2>6. QED
    BY <1>5, <2>4, <2>5
<1>11. F[m + n] = Cat(F[m], B[n])
  <2> DEFINE G == [k \in 0 .. n |-> F[m + k]]
  <2>1. G[0] = F[m]
    BY <1>2
  <2>2. ASSUME NEW k \in 1 .. n
        PROVE  G[k] = Cat(G[k - 1], b[k])
    <3>1. m + k \in 1 .. m + n /\ (m + k) - 1 = m + (k - 1) /\ k - 1 \in 0 .. n /\ k \in 0 .. n
      BY <1>2
    <3>2. F[m + k] = Cat(F[(m + k) - 1], ab[m + k])
      BY <1>8, <3>1, Zenon
    <3>3. G[k] = F[m + k] /\ G[k - 1] = F[m + (k - 1)]
      BY <3>1, Zenon
    <3>4. QED
      BY <1>4, <3>1, <3>2, <3>3
  <2>3. G[n] = F[m + n]
    BY <1>9
  <2>t. \A k \in 0 .. n : G[k] \in Seq(S)
    <3>1. \A k \in 0 .. n : m + k \in 0 .. m + n
      BY <1>2
    <3>2. QED
      BY <1>t, <3>1
  <2> HIDE DEF G
  <2>4. Joins(S, G, F[m], b)
    BY <2>1, <2>2, <2>t, Zenon DEF Joins, n
  <2>5. F[m] \in Seq(S)
    <3>1. m \in 0 .. m + n
      BY <1>2
    <3>2. QED
      BY <1>t, <3>1
  <2>6. G[n] = Cat(F[m], B[n])
    <3>1. \A k \in 0 .. Len(b) : G[k] = Cat(F[m], B[k])
      BY <1>6, <2>4, <2>5, JoinsAfter
    <3>2. QED
      BY <1>9, <3>1 DEF n
  <2>7. QED
    BY <2>3, <2>6
<1>12. QED
  BY <1>6, <1>7, <1>10, <1>11 DEF ab

LEMMA FlattenBlank ==
  ASSUME NEW S, NEW s \in Seq(Seq(S)), \A k \in 1 .. Len(s) : s[k] = <<>>
  PROVE  FlattenSeq(s) = <<>>
<1> DEFINE n == Len(s)
<1>1. n \in Nat
  OBVIOUS
<1>2. PICK F : Joins(S, F, <<>>, s) /\ F[n] = FlattenSeq(s)
  BY FlattenJoins
<1>t. \A k \in 0 .. n : F[k] \in Seq(S)
  BY <1>2, Zenon DEF Joins
<1>3. F[0] = <<>> /\ \A k \in 1 .. n : F[k] = Cat(F[k - 1], <<>>)
  BY <1>2, Zenon DEF Joins
<1> HIDE DEF n
<1> DEFINE Wrong == {k \in 0 .. n : F[k] # <<>>}
<1>4. 0 \notin Wrong
  BY <1>3
<1>5. ASSUME NEW k \in 1 .. n, k - 1 \notin Wrong
      PROVE  k \notin Wrong
  <2>1. k - 1 \in 0 .. n
    BY <1>1
  <2>2. F[k - 1] = <<>>
    BY <1>5, <2>1
  <2>3. Cat(F[k - 1], <<>>) = F[k - 1]
    BY <1>t, <2>1, CatEmpty
  <2>4. QED
    BY <1>3, <2>2, <2>3
<1>6. Wrong = {}
  <2>1. Wrong \subseteq 0 .. n
    OBVIOUS
  <2> HIDE DEF Wrong
  <2>2. QED
    BY <1>1, <2>1, <1>4, <1>5, NoLeastFailure
<1>7. n \in 0 .. n
  BY <1>1
<1>8. QED
  BY <1>2, <1>6, <1>7

LEMMA FlattenOne ==
  ASSUME NEW S, NEW s \in Seq(Seq(S)), Len(s) = 1
  PROVE  FlattenSeq(s) = s[1]
<1>1. PICK F : Joins(S, F, <<>>, s) /\ F[1] = FlattenSeq(s)
  BY FlattenJoins
<1>a. 1 \in 1 .. Len(s) /\ 1 - 1 = 0
  OBVIOUS
<1>2. 1 \in 1 .. Len(s) /\ 1 - 1 = 0 /\ s[1] \in Seq(S)
  BY <1>a, ElementOfSeq
<1>3. F[1] = Cat(F[1 - 1], s[1]) /\ F[0] = <<>>
  BY <1>1, <1>2, Zenon DEF Joins
<1>4. Cat(<<>>, s[1]) = s[1]
  BY <1>2, CatEmpty
<1>5. QED
  BY <1>1, <1>2, <1>3, <1>4

-----------------------------------------------------------------------------
(* Text. *)

Piece(b) == IF b \in {"cr", "lf", "dot"} THEN <<>> ELSE <<b>>

Pieces(s) == [k \in DOMAIN s |-> Piece(s[k])]

LEMMA TextOfPieces ==
  ASSUME NEW s
  PROVE  Text(s) = FlattenSeq(Pieces(s))
BY DEF Text, Pieces, Piece

LEMMA PieceType ==
  ASSUME NEW b \in Bytes
  PROVE  Piece(b) \in Seq(Bytes)
<1>1. <<>> \in Seq(Bytes) /\ <<b>> \in Seq(Bytes)
  OBVIOUS
<1>2. QED
  BY <1>1 DEF Piece

LEMMA PiecesType ==
  ASSUME NEW s \in Seq(Bytes)
  PROVE  /\ Pieces(s) \in Seq(Seq(Bytes))
         /\ Len(Pieces(s)) = Len(s)
         /\ \A k \in 1 .. Len(s) : Pieces(s)[k] = Piece(s[k])
<1>1. Pieces(s) = [k \in 1 .. Len(s) |-> Piece(s[k])]
  BY DEF Pieces
<1>2. \A k \in 1 .. Len(s) : Piece(s[k]) \in Seq(Bytes)
  BY PieceType, ElementOfSeq
<1>3. Len(s) \in Nat
  OBVIOUS
<1>4. QED
  BY <1>1, <1>2, <1>3

LEMMA TextType ==
  ASSUME NEW s \in Seq(Bytes)
  PROVE  Text(s) \in Seq(Bytes)
BY TextOfPieces, PiecesType, FlattenType

LEMMA TextConcat ==
  ASSUME NEW s \in Seq(Bytes), NEW t \in Seq(Bytes)
  PROVE  Text(Cat(s, t)) = Cat(Text(s), Text(t))
<1> DEFINE st == Cat(s, t)
           pieces == Cat(Pieces(s), Pieces(t))
<1>1. st \in Seq(Bytes) /\ Len(st) = Len(s) + Len(t)
  BY DEF Cat
<1>2. \A k \in 1 .. Len(s) + Len(t) :
        st[k] = IF k <= Len(s) THEN s[k] ELSE t[k - Len(s)]
  BY DEF Cat
<1> HIDE DEF st
<1>3. /\ Pieces(s) \in Seq(Seq(Bytes)) /\ Len(Pieces(s)) = Len(s)
      /\ Pieces(t) \in Seq(Seq(Bytes)) /\ Len(Pieces(t)) = Len(t)
      /\ Pieces(st) \in Seq(Seq(Bytes)) /\ Len(Pieces(st)) = Len(s) + Len(t)
  BY <1>1, PiecesType
<1>4. PICK a \in Seq(Seq(Bytes)), b \in Seq(Seq(Bytes)) : a = Pieces(s) /\ b = Pieces(t)
  BY <1>3
<1>5. /\ pieces \in Seq(Seq(Bytes)) /\ Len(pieces) = Len(s) + Len(t)
      /\ \A k \in 1 .. Len(s) + Len(t) :
           pieces[k] = IF k <= Len(s) THEN Pieces(s)[k] ELSE Pieces(t)[k - Len(s)]
  <2>1. /\ Cat(a, b) \in Seq(Seq(Bytes)) /\ Len(Cat(a, b)) = Len(a) + Len(b)
        /\ \A k \in 1 .. Len(a) + Len(b) :
             Cat(a, b)[k] = IF k <= Len(a) THEN a[k] ELSE b[k - Len(a)]
    BY DEF Cat
  <2>2. QED
    BY <1>3, <1>4, <2>1
<1> HIDE DEF pieces
<1>6. \A k \in 1 .. Len(s) + Len(t) : Pieces(st)[k] = pieces[k]
  <2> TAKE k \in 1 .. Len(s) + Len(t)
  <2>1. Pieces(st)[k] = Piece(st[k])
    BY <1>1, PiecesType
  <2>2. CASE k <= Len(s)
    <3>1. k \in 1 .. Len(s)
      BY <2>2
    <3>2. Pieces(s)[k] = Piece(s[k])
      BY <3>1, PiecesType
    <3>3. st[k] = s[k] /\ pieces[k] = Pieces(s)[k]
      BY <1>2, <1>5, <2>2
    <3>4. QED
      BY <2>1, <3>2, <3>3
  <2>3. CASE ~(k <= Len(s))
    <3>1. k - Len(s) \in 1 .. Len(t)
      BY <2>3
    <3>2. Pieces(t)[k - Len(s)] = Piece(t[k - Len(s)])
      BY <3>1, PiecesType
    <3>3. st[k] = t[k - Len(s)] /\ pieces[k] = Pieces(t)[k - Len(s)]
      BY <1>2, <1>5, <2>3
    <3>4. QED
      BY <2>1, <3>2, <3>3
  <2>4. QED
    BY <2>2, <2>3
<1>7. Pieces(st) = pieces
  <2>1. PICK c \in Seq(Seq(Bytes)), d \in Seq(Seq(Bytes)) : c = Pieces(st) /\ d = pieces
    BY <1>3, <1>5
  <2>2. Len(c) = Len(d) /\ \A k \in 1 .. Len(c) : c[k] = d[k]
    BY <1>3, <1>5, <1>6, <2>1
  <2>3. QED
    BY <2>1, <2>2, SeqEqual
<1>8. FlattenSeq(pieces) = Cat(FlattenSeq(Pieces(s)), FlattenSeq(Pieces(t)))
  BY <1>3, FlattenConcat DEF pieces
<1>9. QED
  BY <1>7, <1>8, TextOfPieces DEF st

LEMMA TextOfMarks ==
  ASSUME NEW s \in Seq(Bytes), \A k \in DOMAIN s : s[k] \in {"cr", "lf", "dot"}
  PROVE  Text(s) = <<>>
<1>1. \A k \in 1 .. Len(s) : Piece(s[k]) = <<>>
  BY DEF Piece
<1>2. /\ Pieces(s) \in Seq(Seq(Bytes)) /\ Len(Pieces(s)) = Len(s)
      /\ \A k \in 1 .. Len(s) : Pieces(s)[k] = <<>>
  BY <1>1, PiecesType
<1>3. QED
  BY <1>2, TextOfPieces, FlattenBlank

-----------------------------------------------------------------------------
(* What is written, and what TCP makes of it. *)

LEMMA NextLine ==
  ASSUME NEW S, NEW s \in Seq(Seq(S)), NEW k \in 1 .. Len(s)
  PROVE  FlattenSeq(SubSeq(s, 1, k)) = Cat(FlattenSeq(SubSeq(s, 1, k - 1)), s[k])
<1>1. PICK a \in Seq(Seq(S)), b \in Seq(Seq(S)) :
        a = SubSeq(s, 1, k - 1) /\ b = SubSeq(s, k, k)
  <2>1. SubSeq(s, 1, k - 1) \in Seq(Seq(S))
    <3>1. \A i \in 1 .. k - 1 : s[i] \in Seq(S)
      OBVIOUS
    <3>2. QED
      BY <3>1, SubSeqProperties
  <2>2. SubSeq(s, k, k) \in Seq(Seq(S))
    <3>1. \A i \in k .. k : s[i] \in Seq(S)
      OBVIOUS
    <3>2. QED
      BY <3>1, SubSeqProperties
  <2>3. QED
    BY <2>1, <2>2
<1>2. Len(b) = 1 /\ b[1] = s[k]
  BY <1>1
<1>3. SubSeq(s, 1, k) = Cat(a, b)
  <2>1. /\ 1 \in 1 .. Len(s) + 1 /\ k - 1 \in 1 - 1 .. Len(s) /\ k \in k - 1 .. Len(s)
        /\ (k - 1) + 1 = k
    OBVIOUS
  <2>2. SubSeq(s, 1, k - 1) \o SubSeq(s, (k - 1) + 1, k) = SubSeq(s, 1, k)
    BY <2>1, ConcatAdjacentSubSeq
  <2>3. QED
    BY <1>1, <2>1, <2>2 DEF Cat
<1>4. FlattenSeq(Cat(a, b)) = Cat(FlattenSeq(a), FlattenSeq(b))
  BY FlattenConcat
<1>5. FlattenSeq(b) = s[k]
  BY <1>2, FlattenOne
<1>6. QED
  BY <1>1, <1>3, <1>4, <1>5

LEMMA Cut ==
  ASSUME NEW w \in Seq(Bytes), NEW n \in 1 .. Len(w)
  PROVE  /\ SubSeq(w, 1, n) \in Seq(Bytes)
         /\ SubSeq(w, n + 1, Len(w)) \in Seq(Bytes)
         /\ w = Cat(SubSeq(w, 1, n), SubSeq(w, n + 1, Len(w)))
         /\ Len(SubSeq(w, 1, n)) = n
         /\ Len(SubSeq(w, n + 1, Len(w))) = Len(w) - n
         /\ \A p \in 1 .. n : SubSeq(w, 1, n)[p] = w[p]
         /\ \A p \in 1 .. Len(w) - n : SubSeq(w, n + 1, Len(w))[p] = w[n + p]
<1>1. /\ SubSeq(w, 1, n) \in Seq(Bytes) /\ Len(SubSeq(w, 1, n)) = n
      /\ \A p \in 1 .. n : SubSeq(w, 1, n)[p] = w[p]
  OBVIOUS
<1>2. /\ SubSeq(w, n + 1, Len(w)) \in Seq(Bytes)
      /\ Len(SubSeq(w, n + 1, Len(w))) = Len(w) - n
      /\ \A p \in 1 .. Len(w) - n : SubSeq(w, n + 1, Len(w))[p] = w[n + p]
  OBVIOUS
<1>3. w = Cat(SubSeq(w, 1, n), SubSeq(w, n + 1, Len(w)))
  <2>1. /\ 1 \in 1 .. Len(w) + 1 /\ n \in 1 - 1 .. Len(w) /\ Len(w) \in n .. Len(w)
    OBVIOUS
  <2>2. SubSeq(w, 1, n) \o SubSeq(w, n + 1, Len(w)) = SubSeq(w, 1, Len(w))
    BY <2>1, ConcatAdjacentSubSeq
  <2>3. SubSeq(w, 1, Len(w)) = w
    BY SubSeqFull
  <2>4. QED
    BY <2>2, <2>3 DEF Cat
<1>4. QED
  BY <1>1, <1>2, <1>3, Zenon

-----------------------------------------------------------------------------
(* The kind of a chunk. *)

NoQuit(s)     == \A p \in DOMAIN s : s[p] # "quit"
NoDot(s)      == \A p \in DOMAIN s : s[p] # "dot"
OnlyBreaks(s) == \A p \in DOMAIN s : s[p] \in {"cr", "lf"}
OnlyMarks(s)  == \A p \in DOMAIN s : s[p] \in {"cr", "lf", "dot"}

LEMMA QuitHasQuit ==
  ASSUME NEW c \in Seq(Bytes), NoQuit(c)
  PROVE  ~ \E t \in Tails : c = <<"quit">> \o t
<1> SUFFICES ASSUME NEW t \in Tails, c = <<"quit">> \o t
             PROVE  FALSE
  OBVIOUS
<1>1. t \in Seq(Bytes)
  BY DEF Tails, Bytes
<1>2. <<"quit">> \in Seq(Bytes)
  BY DEF Bytes
<1>3. Len(c) >= 1 /\ c[1] = "quit"
  BY <1>1, <1>2
<1>4. QED
  BY <1>3 DEF NoQuit

LEMMA DotHasDot ==
  ASSUME NEW c \in Seq(Bytes), NEW h \in {<<>>, <<"cr">>, <<"lf">>}, NEW t \in Tails,
         c = h \o <<"dot">> \o t
  PROVE  ~NoDot(c) /\ OnlyMarks(c)
<1> DEFINE Marks == {"cr", "lf", "dot"}
<1>1. h \in Seq(Marks) /\ <<"dot">> \in Seq(Marks) /\ Len(<<"dot">>) = 1
  OBVIOUS
<1>2. t \in Seq(Marks)
  BY DEF Tails
<1>3. PICK u : u = h \o <<"dot">>
  OBVIOUS
<1>4. u \in Seq(Marks) /\ Len(u) >= 1 /\ u[Len(u)] = "dot"
  BY <1>1, <1>3
<1>5. c = u \o t
  BY <1>3
<1>6. c \in Seq(Marks) /\ Len(u) \in 1 .. Len(c) /\ c[Len(u)] = "dot"
  BY <1>2, <1>4, <1>5
<1>7. DOMAIN c = 1 .. Len(c) /\ \A p \in 1 .. Len(c) : c[p] \in Marks
  BY <1>6
<1>8. QED
  BY <1>6, <1>7, Zenon DEF NoDot, OnlyMarks

LEMMA EndHasDot ==
  ASSUME NEW c \in Seq(Bytes), Ends(c)
  PROVE  ~NoDot(c)
<1>1. End \in Seq(Bytes) /\ Len(End) = 5 /\ End[3] = "dot"
  BY DEF End, Bytes
<1>2. IsPrefix(Reverse(End), Reverse(c))
  BY DEF Ends, IsSuffix
<1>3. Len(c) >= 5 /\ Reverse(End)[3] = Reverse(c)[3]
  BY <1>1, <1>2 DEF IsPrefix, Reverse
<1>4. Reverse(End)[3] = "dot" /\ Reverse(c)[3] = c[Len(c) - 2]
  BY <1>1, <1>3 DEF Reverse
<1>5. Len(c) - 2 \in DOMAIN c
  BY <1>3
<1>6. QED
  BY <1>3, <1>4, <1>5 DEF NoDot

LEMMA KindOf ==
  ASSUME NEW c \in Seq(Bytes), NoQuit(c)
  PROVE  /\ Kind(c) \in {"DOT", "TEXT_END", "TEXT"}
         /\ NoDot(c) => Kind(c) = "TEXT"
         /\ Kind(c) = "DOT" => OnlyMarks(c)
<1> DEFINE isQuit == \E t \in Tails : c = <<"quit">> \o t
           isDot == \E h \in {<<>>, <<"cr">>, <<"lf">>}, t \in Tails : c = h \o <<"dot">> \o t
<1>1. ~isQuit
  BY QuitHasQuit
<1>2. isDot => ~NoDot(c) /\ OnlyMarks(c)
  BY DotHasDot
<1>3. Ends(c) => ~NoDot(c)
  BY EndHasDot
<1>4. Kind(c) = CASE isQuit -> "QUIT" [] isDot -> "DOT" [] Ends(c) -> "TEXT_END" [] OTHER -> "TEXT"
  BY Zenon DEF Kind
<1> HIDE DEF isQuit, isDot
<1>5. QED
  BY <1>1, <1>2, <1>3, <1>4

-----------------------------------------------------------------------------
(* The bytes on the wire: a dot can only be that of the end. *)

DotLast(s) ==
  \A p \in DOMAIN s : s[p] = "dot" => \A q \in DOMAIN s : q > p => s[q] \in {"cr", "lf"}

LEMMA WireGrows ==
  ASSUME NEW w \in Seq(Bytes), NoQuit(w), NoDot(w),
         NEW l \in Seq(Bytes), NoQuit(l), DotLast(l)
  PROVE  /\ Cat(w, l) \in Seq(Bytes)
         /\ NoQuit(Cat(w, l))
         /\ DotLast(Cat(w, l))
         /\ NoDot(l) => NoDot(Cat(w, l))
<1>1. PICK wl : wl = Cat(w, l)
  OBVIOUS
<1>2. /\ wl \in Seq(Bytes)
      /\ DOMAIN wl = 1 .. Len(w) + Len(l) /\ DOMAIN w = 1 .. Len(w) /\ DOMAIN l = 1 .. Len(l)
      /\ \A p \in 1 .. Len(w) + Len(l) :
           wl[p] = IF p <= Len(w) THEN w[p] ELSE l[p - Len(w)]
  BY <1>1 DEF Cat
<1>3. \A p \in DOMAIN wl : \/ p \in DOMAIN w /\ wl[p] = w[p]
                           \/ p - Len(w) \in DOMAIN l /\ wl[p] = l[p - Len(w)]
  BY <1>2
<1>4. NoQuit(wl)
  BY <1>3, Zenon DEF NoQuit
<1>5. NoDot(l) => NoDot(wl)
  BY <1>3, Zenon DEF NoDot
<1>6. ASSUME NEW p \in DOMAIN wl, wl[p] = "dot", NEW q \in DOMAIN wl, q > p
      PROVE  wl[q] \in {"cr", "lf"}
  <2>1. p - Len(w) \in DOMAIN l /\ wl[p] = l[p - Len(w)]
    BY <1>3, <1>6, Zenon DEF NoDot
  <2>2. q - Len(w) \in DOMAIN l /\ q - Len(w) > p - Len(w) /\ wl[q] = l[q - Len(w)]
    BY <1>2, <1>6, <2>1
  <2>3. QED
    BY <1>6, <2>1, <2>2, Zenon DEF DotLast
<1>7. QED
  BY <1>1, <1>2, <1>4, <1>5, <1>6, Zenon DEF DotLast

LEMMA WireCut ==
  ASSUME NEW c \in Seq(Bytes), NEW r \in Seq(Bytes), NEW w, w = Cat(c, r)
  PROVE  /\ NoQuit(w) => NoQuit(c) /\ NoQuit(r)
         /\ NoDot(w) => NoDot(c) /\ NoDot(r)
         /\ OnlyBreaks(w) => OnlyBreaks(c) /\ OnlyBreaks(r)
         /\ DotLast(w) => DotLast(r) /\ (NoDot(c) \/ OnlyBreaks(r))
<1> DEFINE n == Len(c)
<1>1. /\ w \in Seq(Bytes) /\ n \in Nat /\ Len(r) = Len(w) - n
      /\ \A p \in 1 .. n : c[p] = w[p]
      /\ \A p \in 1 .. Len(w) - n : r[p] = w[n + p]
  BY DEF Cat
<1>2. DOMAIN c = 1 .. n /\ DOMAIN r = 1 .. Len(w) - n /\ DOMAIN w = 1 .. Len(w)
  BY <1>1
<1>l. Len(w) \in Nat /\ n <= Len(w)
  BY <1>1 DEF Cat
<1> HIDE DEF n
<1>3. /\ \A p \in DOMAIN c : p \in DOMAIN w /\ c[p] = w[p]
      /\ \A p \in DOMAIN r : n + p \in DOMAIN w /\ r[p] = w[n + p]
  <2>1. \A p \in 1 .. n : p \in 1 .. Len(w)
    BY <1>1, <1>l
  <2>2. \A p \in 1 .. Len(w) - n : n + p \in 1 .. Len(w)
    BY <1>1, <1>l
  <2>3. QED
    BY <1>1, <1>2, <2>1, <2>2, Zenon
<1>4. \A p \in DOMAIN c, q \in DOMAIN r : n + q > p
  BY <1>1, <1>2, <1>l
<1>5. \A p, q \in DOMAIN r : q > p => n + q > n + p
  BY <1>1, <1>2, <1>l
<1>6. NoQuit(w) => NoQuit(c) /\ NoQuit(r)
  BY <1>3, Zenon DEF NoQuit
<1>7. NoDot(w) => NoDot(c) /\ NoDot(r)
  BY <1>3, Zenon DEF NoDot
<1>8. OnlyBreaks(w) => OnlyBreaks(c) /\ OnlyBreaks(r)
  BY <1>3, Zenon DEF OnlyBreaks
<1>9. ASSUME DotLast(w)
      PROVE  DotLast(r)
  <2>1. ASSUME NEW p \in DOMAIN r, r[p] = "dot", NEW q \in DOMAIN r, q > p
        PROVE  r[q] \in {"cr", "lf"}
    <3>1. n + p \in DOMAIN w /\ n + q \in DOMAIN w /\ w[n + p] = "dot" /\ r[q] = w[n + q]
      BY <1>3, <2>1, Zenon
    <3>2. n + q > n + p
      BY <1>5, <2>1, Zenon
    <3>3. w[n + q] \in {"cr", "lf"}
      BY <1>9, <3>1, <3>2, Zenon DEF DotLast
    <3>4. QED
      BY <3>1, <3>3
  <2>2. QED
    BY <2>1, Zenon DEF DotLast
<1>10. ASSUME DotLast(w), ~NoDot(c)
       PROVE  OnlyBreaks(r)
  <2>1. PICK p \in DOMAIN c : c[p] = "dot"
    BY <1>10 DEF NoDot
  <2>2. QED
    BY <1>3, <1>4, <1>10, <2>1, Zenon DEF DotLast, OnlyBreaks
<1>11. QED
  BY <1>6, <1>7, <1>8, <1>9, <1>10

LEMMA BreaksAreMarks ==
  ASSUME NEW s, OnlyBreaks(s)
  PROVE  NoDot(s) /\ OnlyMarks(s)
BY DEF OnlyBreaks, NoDot, OnlyMarks

LEMMA NoTextInMarks ==
  ASSUME NEW s \in Seq(Bytes), OnlyMarks(s)
  PROVE  Text(s) = <<>>
BY TextOfMarks DEF OnlyMarks

\* What is stored of a chunk is its text.
LEMMA TextOfStored ==
  ASSUME NEW b \in Seq(Bytes), NEW c \in Seq(Bytes)
  PROVE  /\ b \o c \o <<"cr", "lf">> \in Seq(Bytes)
         /\ Text(b \o c \o <<"cr", "lf">>) = Cat(Text(b), Text(c))
<1>a. <<"cr", "lf">> \in Seq(Bytes)
  BY DEF Bytes
<1>1. PICK t \in Seq(Bytes) : t = <<"cr", "lf">>
  BY <1>a, Zenon
<1>2. Text(t) = <<>>
  <2>1. \A p \in DOMAIN t : t[p] \in {"cr", "lf", "dot"}
    BY <1>1
  <2>2. QED
    BY <2>1, TextOfMarks
<1>3. Cat(b, c) \in Seq(Bytes) /\ Text(Cat(b, c)) = Cat(Text(b), Text(c))
  BY CatType, TextConcat
<1>4. /\ Cat(Cat(b, c), t) \in Seq(Bytes)
      /\ Text(Cat(Cat(b, c), t)) = Cat(Text(Cat(b, c)), Text(t))
  BY <1>3, CatType, TextConcat
<1>5. Cat(Text(Cat(b, c)), <<>>) = Text(Cat(b, c))
  BY <1>3, TextType, CatEmpty
<1>6. Cat(Cat(b, c), t) = b \o c \o <<"cr", "lf">>
  BY <1>1, Zenon DEF Cat
<1>7. QED
  BY <1>2, <1>3, <1>4, <1>5, <1>6

-----------------------------------------------------------------------------
(* Types. *)

Codes == {"221", "250", "421", "500"}

Types ==
  /\ letter \in Seq(Seq(Bytes))
  /\ sent \in 0 .. Len(letter) + 1
  /\ wire \in Seq(Bytes)
  /\ body \in Seq(Bytes)
  /\ state \in {"expect_data_recv", "expect_mail", "disconnected", "exited"}
  /\ replies \in Seq(Codes)
  /\ outcome \in {"", "accepted", "refused", "failed"}
  /\ taken \in Seq(Bytes)
  /\ short \in BOOLEAN

LEMMA EndType == End \in Seq(Bytes)
BY DEF End, Bytes

LEMMA LineWritten ==
  ASSUME NEW l \in Seq(Bytes)
  PROVE  l \o <<"lf">> \in Seq(Bytes)
BY DEF Bytes

LEMMA WritesType ==
  ASSUME letter \in Seq(Seq(Bytes)), NEW k \in 1 .. Len(letter) + 1
  PROVE  Writes(k) \in Seq(Bytes)
<1>1. CASE k <= Len(letter)
  <2>1. letter[k] \in Seq(Bytes)
    BY <1>1
  <2>2. QED
    BY <1>1, <2>1, LineWritten DEF Writes
<1>2. CASE ~(k <= Len(letter))
  BY <1>2, EndType DEF Writes
<1>3. QED
  BY <1>1, <1>2

LEMMA AppendCode ==
  ASSUME NEW s \in Seq(Codes), NEW c \in Codes
  PROVE  Append(s, c) \in Seq(Codes)
OBVIOUS

LEMMA LinesCounted ==
  \A l \in Seq(Seq(Bytes)) :
    /\ Len(l) \in Nat
    /\ 0 \in 0 .. Len(l) + 1
    /\ \A k \in 0 .. Len(l) + 1 : k <= Len(l) => k + 1 \in 1 .. Len(l) + 1 /\ k + 1 \in 0 .. Len(l) + 1
OBVIOUS

LEMMA InitTyped == Init => Types
<1> SUFFICES ASSUME Init
             PROVE  Types
  OBVIOUS
<1>1. letter \in Seq(Seq(Bytes \ {"lf"}) \ {<<>>})
  BY LetterAssumption DEF Init
<1>2. Seq(Bytes \ {"lf"}) \ {<<>>} \subseteq Seq(Bytes)
  OBVIOUS
<1>3. letter \in Seq(Seq(Bytes))
  BY <1>1, <1>2, SeqMonotonic
<1>4. <<>> \in Seq(Bytes) /\ <<>> \in Seq(Codes)
  BY EmptySeq
<1>5. sent \in 0 .. Len(letter) + 1
  BY <1>3, LinesCounted DEF Init
<1>6. QED
  BY <1>3, <1>4, <1>5, Zenon DEF Init, Types

\* What write() takes of what it is given.
LEMMA Prefix ==
  ASSUME NEW s \in Seq(Bytes), NEW n \in 0 .. Len(s), NEW l, l = SubSeq(s, 1, n)
  PROVE  /\ l \in Seq(Bytes)
         /\ n = Len(s) => l = s
         /\ NoQuit(s) => NoQuit(l)
         /\ NoDot(s) => NoDot(l)
         /\ OnlyMarks(s) => OnlyMarks(l)
         /\ DotLast(s) => DotLast(l)
<1>1. \A k \in 1 .. n : s[k] \in Bytes
  OBVIOUS
<1>2. l \in Seq(Bytes) /\ \A p \in DOMAIN l : p \in DOMAIN s /\ l[p] = s[p]
  BY <1>1
<1>3. n = Len(s) => l = s
  BY SubSeqFull
<1>4. NoQuit(s) => NoQuit(l)
  BY <1>2, Zenon DEF NoQuit
<1>5. NoDot(s) => NoDot(l)
  BY <1>2, Zenon DEF NoDot
<1>6. OnlyMarks(s) => OnlyMarks(l)
  BY <1>2, Zenon DEF OnlyMarks
<1>7. DotLast(s) => DotLast(l)
  BY <1>2, Zenon DEF DotLast
<1>8. QED
  BY <1>2, <1>3, <1>4, <1>5, <1>6, <1>7

\* One write().
LEMMA SendEffect ==
  ASSUME Types, send_msg_body
  PROVE  /\ sent' = sent + 1 /\ sent' \in 1 .. Len(letter) + 1 /\ sent \in 0 .. Len(letter)
         /\ UNCHANGED <<letter, state, body, replies>>
         /\ outcome' \in {outcome, "failed"}
         /\ Writes(sent') \in Seq(Bytes)
         /\ \E n \in 0 .. Len(Writes(sent')), l \in Seq(Bytes) :
              /\ l = SubSeq(Writes(sent'), 1, n)
              /\ wire'  = IF Up THEN Cat(wire, l) ELSE wire
              /\ taken' = IF Up /\ sent < Len(letter) THEN Cat(taken, l) ELSE taken
              /\ short' = (short \/ n < Len(Writes(sent')))
<1>1. /\ sent' = sent + 1 /\ sent' \in 1 .. Len(letter) + 1 /\ sent \in 0 .. Len(letter)
      /\ UNCHANGED <<letter, state, body, replies>>
  <2>1. letter \in Seq(Seq(Bytes)) /\ sent \in 0 .. Len(letter) + 1 /\ Len(letter) \in Nat
    BY LinesCounted, Zenon DEF Types
  <2>2. sent <= Len(letter) /\ sent' = sent + 1 /\ UNCHANGED <<letter, state, body, replies>>
    BY DEF send_msg_body
  <2>3. QED
    BY <2>1, <2>2
<1>2. Writes(sent') \in Seq(Bytes)
  BY <1>1, WritesType DEF Types
<1>3. PICK n \in 0 .. Len(Writes(sent')) :
         /\ Put(SubSeq(Writes(sent'), 1, n))
         /\ short' = (short \/ n < Len(Writes(sent')))
         /\ outcome' = IF n = 0 /\ sent = Len(letter) THEN "failed" ELSE outcome
  BY Zenon DEF send_msg_body
<1>4. PICK l \in Seq(Bytes) : l = SubSeq(Writes(sent'), 1, n)
  BY <1>2, Prefix
<1>5. /\ wire'  = IF Up THEN Cat(wire, l) ELSE wire
      /\ taken' = IF Up /\ sent < Len(letter) THEN Cat(taken, l) ELSE taken
  BY <1>3, <1>4, Zenon DEF Put, Cat
<1>6. outcome' \in {outcome, "failed"}
  BY <1>3
<1>7. QED
  BY <1>1, <1>2, <1>3, <1>4, <1>5, <1>6, Zenon

LEMMA SendTyped ==
  ASSUME Types, send_msg_body
  PROVE  Types'
<1>1. /\ sent' \in 0 .. Len(letter) + 1 /\ UNCHANGED <<letter, state, body, replies>>
      /\ outcome' \in {outcome, "failed"}
  BY SendEffect
<1>2. PICK n \in 0 .. Len(Writes(sent')), l \in Seq(Bytes) :
         /\ wire'  = IF Up THEN Cat(wire, l) ELSE wire
         /\ taken' = IF Up /\ sent < Len(letter) THEN Cat(taken, l) ELSE taken
         /\ short' = (short \/ n < Len(Writes(sent')))
  BY SendEffect, Zenon
<1>3. wire \in Seq(Bytes) /\ taken \in Seq(Bytes)
  BY Zenon DEF Types
<1>4. wire' \in Seq(Bytes) /\ taken' \in Seq(Bytes)
  BY <1>2, <1>3, CatType
<1>5. short' \in BOOLEAN
  BY <1>2, Zenon
<1>6. outcome' \in {"", "accepted", "refused", "failed"}
  BY <1>1, Zenon DEF Types
<1>7. QED
  BY <1>1, <1>4, <1>5, <1>6, Zenon DEF Types

LEMMA CheckTyped ==
  ASSUME Types, check_server_code
  PROVE  Types'
<1>1. replies' \in Seq(Codes)
  <2>1. replies \in Seq(Codes) /\ (replies # <<>> => Tail(replies) \in Seq(Codes))
    BY HeadTailProperties DEF Types
  <2>2. replies' = replies \/ (replies # <<>> /\ replies' = Tail(replies))
    BY DEF check_server_code
  <2>3. QED
    BY <2>1, <2>2
<1>2. outcome' \in {"accepted", "refused"}
  BY DEF check_server_code
<1>3. QED
  BY <1>1, <1>2, Zenon DEF Types, check_server_code

\* A chunk is of one of four kinds; these are the branches of the server.
LEMMA Kinds ==
  ASSUME NEW c
  PROVE  Kind(c) \in {"QUIT", "DOT", "TEXT_END", "TEXT"}
<1> DEFINE isQuit == \E t \in Tails : c = <<"quit">> \o t
           isDot == \E h \in {<<>>, <<"cr">>, <<"lf">>}, t \in Tails : c = h \o <<"dot">> \o t
<1>1. Kind(c) = CASE isQuit -> "QUIT" [] isDot -> "DOT" [] Ends(c) -> "TEXT_END" [] OTHER -> "TEXT"
  BY Zenon DEF Kind
<1> HIDE DEF isQuit, isDot
<1>2. QED
  BY <1>1

LEMMA Received ==
  ASSUME NEW chunk, receive(chunk)
  PROVE  /\ state = "expect_data_recv"
         /\ \/ /\ Kind(chunk) = "QUIT" /\ state' = "exited"
               /\ body' = body /\ replies' = replies
            \/ /\ Kind(chunk) = "DOT" /\ state' = "expect_mail"
               /\ body' = body /\ replies' = Append(replies, "250")
            \/ /\ Kind(chunk) = "TEXT_END" /\ state' = "expect_mail"
               /\ body' = Stored(chunk) /\ replies' = Append(replies, "250")
            \/ /\ Kind(chunk) = "TEXT" /\ state' = state
               /\ body' = Stored(chunk) /\ replies' = replies
<1>1. PICK kind \in {"QUIT", "DOT", "TEXT_END", "TEXT"} : kind = Kind(chunk)
  BY Kinds
<1>2. QED
  BY <1>1 DEF receive

LEMMA Misread ==
  ASSUME NEW chunk, misread(chunk)
  PROVE  /\ state = "expect_mail" /\ body' = body
         /\ \/ /\ Kind(chunk) = "QUIT" /\ state' = "disconnected"
               /\ replies' = Append(replies, "221")
            \/ Kind(chunk) = "DOT" /\ state' = "exited" /\ replies' = replies
            \/ /\ Kind(chunk) \in {"TEXT_END", "TEXT"} /\ state' = state
               /\ replies' = Append(replies, "500")
<1>1. PICK kind \in {"QUIT", "DOT", "TEXT_END", "TEXT"} : kind = Kind(chunk)
  BY Kinds
<1>2. QED
  BY <1>1 DEF misread

LEMMA ReceiveTyped ==
  ASSUME Types, NEW chunk \in Seq(Bytes), receive(chunk) \/ misread(chunk)
  PROVE  /\ body' \in Seq(Bytes)
         /\ state' \in {"expect_data_recv", "expect_mail", "disconnected", "exited"}
         /\ replies' \in Seq(Codes)
<1>1. body \in Seq(Bytes) /\ Stored(chunk) \in Seq(Bytes)
  BY TextOfStored DEF Types, Stored
<1>2. /\ replies \in Seq(Codes)
      /\ Append(replies, "250") \in Seq(Codes)
      /\ Append(replies, "221") \in Seq(Codes)
      /\ Append(replies, "500") \in Seq(Codes)
  BY AppendCode DEF Types, Codes
<1>3. CASE receive(chunk)
  BY <1>1, <1>2, <1>3, Received, Zenon
<1>4. CASE misread(chunk)
  BY <1>1, <1>2, <1>4, Misread, Zenon
<1>5. QED
  BY <1>3, <1>4

LEMMA RecvTyped ==
  ASSUME Types, conn_recv
  PROVE  Types'
<1>1. PICK n \in 1 .. Len(wire) :
        /\ receive(SubSeq(wire, 1, n)) \/ misread(SubSeq(wire, 1, n))
        /\ wire' = SubSeq(wire, n + 1, Len(wire))
        /\ UNCHANGED client
  BY DEF conn_recv
<1>2. wire \in Seq(Bytes)
  BY Zenon DEF Types
<1>3. SubSeq(wire, 1, n) \in Seq(Bytes) /\ wire' \in Seq(Bytes)
  BY <1>1, <1>2, Cut
<1>4. /\ body' \in Seq(Bytes)
      /\ state' \in {"expect_data_recv", "expect_mail", "disconnected", "exited"}
      /\ replies' \in Seq(Codes)
  BY <1>1, <1>3, ReceiveTyped
<1>5. UNCHANGED client
  BY <1>1
<1>6. QED
  BY <1>3, <1>4, <1>5, Zenon DEF Types, client

LEMMA TimeTyped ==
  ASSUME Types, time_out
  PROVE  Types'
<1>1. replies' \in Seq(Codes)
  BY AppendCode DEF time_out, Types, Codes
<1>2. state' \in {"expect_data_recv", "expect_mail", "disconnected", "exited"}
  BY DEF time_out
<1>3. UNCHANGED client /\ wire' = wire /\ body' = body
  BY DEF time_out
<1>4. QED
  BY <1>1, <1>2, <1>3, Zenon DEF Types, client

LEMMA NextTyped ==
  ASSUME Types, [Next]_vars
  PROVE  Types'
<1>1. CASE UNCHANGED vars
  BY <1>1, Zenon DEF Types, vars, client
<1>2. QED
  BY <1>1, SendTyped, CheckTyped, RecvTyped, TimeTyped, Zenon DEF Next

-----------------------------------------------------------------------------
(* The invariant of a letter without dots and commands. *)

\* The lines given to write().
LinesUpTo(k) == FlattenSeq(SubSeq(letter, 1, k))
Written == LinesUpTo(IF sent <= Len(letter) THEN sent ELSE Len(letter))

Agreed == \E k \in DOMAIN replies : replies[k] = "250"

\* Before the end is written there is no dot, and so no end to be found.
NoEndYet == sent <= Len(letter) => NoDot(wire) /\ state # "expect_mail"

\* What was found is the end of the letter; at most a line break is left of it.
EndFound == state = "expect_mail" => OnlyBreaks(wire)

\* Nothing that write() took is lost or doubled on the way.
Conserved == Up => Cat(Text(body), Text(wire)) = Text(taken)

\* It took everything, if it always took what it was given.
Whole == Up /\ ~short => Text(taken) = Text(Written)

\* Once the server has answered 250, everything is there and stays as it is.
Told ==
  Agreed \/ outcome = "accepted" => /\ state # "expect_data_recv"
                                    /\ ~(sent <= Len(letter))
                                    /\ Text(body) = Text(taken)
                                    /\ ~short => Text(body) = Text(Lines)

Delivery ==
  /\ NoQuit(wire) /\ DotLast(wire)
  /\ NoEndYet
  /\ EndFound
  /\ Conserved
  /\ Whole
  /\ Told

IInv == Types /\ (Quiet => Delivery)

LEMMA QuietLines ==
  ASSUME Quiet, NEW k \in DOMAIN letter
  PROVE  NoQuit(letter[k]) /\ NoDot(letter[k])
BY Zenon DEF Quiet, ToSet, NoQuit, NoDot

LEMMA TextOfLine ==
  ASSUME NEW l \in Seq(Bytes)
  PROVE  Text(l \o <<"lf">>) = Text(l)
<1>a. <<"lf">> \in Seq(Bytes)
  BY DEF Bytes
<1>1. PICK t \in Seq(Bytes) : t = <<"lf">>
  BY <1>a, Zenon
<1>2. \A p \in DOMAIN t : t[p] \in {"cr", "lf", "dot"}
  BY <1>1
<1>3. Text(t) = <<>>
  BY <1>2, TextOfMarks
<1>4. Text(Cat(l, t)) = Cat(Text(l), Text(t)) /\ Text(l) \in Seq(Bytes)
  BY TextConcat, TextType
<1>5. Cat(Text(l), <<>>) = Text(l)
  BY <1>4, CatEmpty
<1>6. QED
  BY <1>1, <1>3, <1>4, <1>5 DEF Cat

\* A write of a line.
LEMMA WritesLine ==
  ASSUME letter \in Seq(Seq(Bytes)), Quiet, NEW k \in 1 .. Len(letter)
  PROVE  /\ NoQuit(Writes(k)) /\ NoDot(Writes(k)) /\ DotLast(Writes(k))
         /\ Text(Writes(k)) = Text(letter[k])
<1>1. k \in DOMAIN letter /\ letter[k] \in Seq(Bytes)
  OBVIOUS
<1>2. PICK l \in Seq(Bytes) : l = letter[k]
  BY <1>1
<1>3. NoQuit(l) /\ NoDot(l)
  BY <1>1, <1>2, QuietLines
<1>4. Writes(k) = l \o <<"lf">>
  BY <1>2 DEF Writes
<1>5. \A p \in DOMAIN (l \o <<"lf">>) :
        \/ (l \o <<"lf">>)[p] = "lf"
        \/ p \in DOMAIN l /\ (l \o <<"lf">>)[p] = l[p]
  OBVIOUS
<1>6. NoQuit(Writes(k)) /\ NoDot(Writes(k))
  BY <1>3, <1>4, <1>5 DEF NoQuit, NoDot
<1>7. DotLast(Writes(k))
  BY <1>6 DEF NoDot, DotLast
<1>8. Text(Writes(k)) = Text(l)
  BY <1>4, TextOfLine
<1>9. QED
  BY <1>2, <1>6, <1>7, <1>8

\* The write of the end.
LEMMA WritesEnd ==
  NoQuit(End) /\ DotLast(End) /\ OnlyMarks(End)
<1>1. \A p \in DOMAIN End : End[p] \in {"cr", "lf", "dot"}
  BY DEF End
<1>2. OnlyMarks(End)
  BY <1>1 DEF OnlyMarks
<1>3. NoQuit(End)
  BY <1>1 DEF NoQuit
<1>4. DotLast(End)
  <2>1. DOMAIN End = 1 .. 5
    BY DEF End
  <2>2. \A p \in 1 .. 5 : End[p] = "dot" => p = 3
    BY DEF End
  <2>3. \A q \in 1 .. 5 : q > 3 => End[q] \in {"cr", "lf"}
    BY DEF End
  <2>4. QED
    BY <2>1, <2>2, <2>3 DEF DotLast
<1>5. QED
  BY <1>2, <1>3, <1>4

LEMMA AllLines ==
  ASSUME letter \in Seq(Seq(Bytes))
  PROVE  /\ LinesUpTo(0) = <<>>
         /\ LinesUpTo(Len(letter)) = Lines
         /\ \A k \in 1 .. Len(letter) :
              /\ LinesUpTo(k - 1) \in Seq(Bytes)
              /\ LinesUpTo(k) = Cat(LinesUpTo(k - 1), letter[k])
<1>1. LinesUpTo(0) = <<>>
  <2>1. SubSeq(letter, 1, 0) = <<>>
    BY SubSeqEmpty
  <2>2. FlattenSeq(<<>>) = <<>>
    BY DEF FlattenSeq
  <2>3. QED
    BY <2>1, <2>2 DEF LinesUpTo
<1>2. LinesUpTo(Len(letter)) = Lines
  BY SubSeqFull DEF LinesUpTo, Lines
<1>3. ASSUME NEW k \in 1 .. Len(letter)
      PROVE  /\ LinesUpTo(k - 1) \in Seq(Bytes)
             /\ LinesUpTo(k) = Cat(LinesUpTo(k - 1), letter[k])
  <2>1. SubSeq(letter, 1, k - 1) \in Seq(Seq(Bytes))
    <3>1. \A i \in 1 .. k - 1 : letter[i] \in Seq(Bytes)
      OBVIOUS
    <3>2. QED
      BY <3>1, SubSeqProperties
  <2>2. FlattenSeq(SubSeq(letter, 1, k - 1)) \in Seq(Bytes)
    BY <2>1, FlattenType
  <2>3. FlattenSeq(SubSeq(letter, 1, k)) = Cat(FlattenSeq(SubSeq(letter, 1, k - 1)), letter[k])
    BY NextLine
  <2>4. QED
    BY <2>2, <2>3 DEF LinesUpTo
<1>4. QED
  BY <1>1, <1>2, <1>3

LEMMA NothingWritten ==
  /\ NoQuit(<<>>) /\ NoDot(<<>>) /\ DotLast(<<>>)
  /\ ~ \E k \in DOMAIN <<>> : <<>>[k] = "250"
<1>1. DOMAIN <<>> = {}
  OBVIOUS
<1>2. QED
  BY <1>1, Zenon DEF NoQuit, NoDot, DotLast

LEMMA InitDelivery ==
  ASSUME Init, Types
  PROVE  Delivery
<1>1. letter \in Seq(Seq(Bytes)) /\ Len(letter) \in Nat
  BY LinesCounted, Zenon DEF Types
<1>2. /\ wire = <<>> /\ body = <<>> /\ sent = 0 /\ replies = <<>> /\ outcome = ""
      /\ taken = <<>>
  BY DEF Init
<1>3. state = "expect_data_recv"
  BY DEF Init
<1>4. NoQuit(wire) /\ DotLast(wire)
  BY <1>2, NothingWritten, Zenon
<1>5. NoEndYet
  <2>1. NoDot(wire)
    BY <1>2, NothingWritten, Zenon
  <2>2. QED
    BY <1>3, <2>1 DEF NoEndYet
<1>6. EndFound
  BY <1>3 DEF EndFound
<1>7. Conserved /\ Whole
  <2>1. Written = LinesUpTo(0)
    <3>a. \A k \in Nat : 0 <= k
      OBVIOUS
    <3>1. sent <= Len(letter)
      BY <1>1, <1>2, <3>a, Zenon
    <3>2. QED
      BY <1>2, <3>1, Zenon DEF Written
  <2>2. Written = <<>>
    BY <1>1, <2>1, AllLines
  <2>3. PICK empty \in Seq(Bytes) : empty = <<>>
    BY EmptySeq
  <2>4. \A k \in DOMAIN empty : empty[k] \in {"cr", "lf", "dot"}
    BY <2>3
  <2>5. Text(empty) = empty
    BY <2>3, <2>4, TextOfMarks
  <2>6. Cat(empty, empty) = empty
    BY <2>3, CatEmpty
  <2>7. QED
    BY <1>2, <2>2, <2>3, <2>5, <2>6, Zenon DEF Conserved, Whole
<1>8. Told
  <2>1. ~Agreed
    BY <1>2, NothingWritten, Zenon DEF Agreed
  <2>2. outcome # "accepted"
    BY <1>2
  <2>3. QED
    BY <2>1, <2>2 DEF Told
<1>9. QED
  BY <1>4, <1>5, <1>6, <1>7, <1>8 DEF Delivery

\* One more piece on the wire is one more piece of text.
LEMMA TextGrows ==
  ASSUME NEW b \in Seq(Bytes), NEW w \in Seq(Bytes), NEW l \in Seq(Bytes)
  PROVE  Cat(Text(b), Text(Cat(w, l))) = Cat(Cat(Text(b), Text(w)), Text(l))
<1>1. Text(Cat(w, l)) = Cat(Text(w), Text(l))
  BY TextConcat
<1>2. Text(b) \in Seq(Bytes) /\ Text(w) \in Seq(Bytes) /\ Text(l) \in Seq(Bytes)
  BY TextType
<1>3. QED
  BY <1>1, <1>2, CatAssociative

LEMMA SendDelivery ==
  ASSUME Types, Quiet, Delivery, send_msg_body
  PROVE  Delivery'
<1>1. /\ letter' = letter /\ state' = state /\ body' = body /\ replies' = replies
      /\ outcome' \in {outcome, "failed"} /\ (Up' <=> Up)
  BY SendEffect DEF Up
<1>2. /\ letter \in Seq(Seq(Bytes)) /\ Len(letter) \in Nat
      /\ wire \in Seq(Bytes) /\ body \in Seq(Bytes) /\ taken \in Seq(Bytes)
      /\ sent \in 0 .. Len(letter) /\ sent' = sent + 1 /\ sent' \in 1 .. Len(letter) + 1
  BY SendEffect, LinesCounted, Zenon DEF Types
<1>3. NoDot(wire) /\ NoQuit(wire) /\ DotLast(wire) /\ state # "expect_mail"
  BY <1>2 DEF Delivery, NoEndYet
<1>4. PICK given \in Seq(Bytes) : given = Writes(sent')
  BY SendEffect
<1>5. PICK n \in 0 .. Len(given), l \in Seq(Bytes) :
         /\ l = SubSeq(given, 1, n)
         /\ wire'  = IF Up THEN Cat(wire, l) ELSE wire
         /\ taken' = IF Up /\ sent < Len(letter) THEN Cat(taken, l) ELSE taken
         /\ short' = (short \/ n < Len(given))
  BY <1>4, SendEffect, Zenon
<1>6. /\ NoQuit(l) /\ DotLast(l)
      /\ sent' <= Len(letter) => NoDot(l)
      /\ ~(sent' <= Len(letter)) => Text(l) = <<>>
  <2>1. CASE sent' <= Len(letter)
    <3>1. sent' \in 1 .. Len(letter)
      BY <1>2, <2>1
    <3>2. NoQuit(given) /\ NoDot(given) /\ DotLast(given)
      BY <1>2, <1>4, <3>1, WritesLine
    <3>3. QED
      BY <1>5, <2>1, <3>2, Prefix
  <2>2. CASE ~(sent' <= Len(letter))
    <3>1. given = End
      BY <1>4, <2>2 DEF Writes
    <3>2. NoQuit(given) /\ DotLast(given) /\ OnlyMarks(given)
      BY <3>1, WritesEnd
    <3>3. NoQuit(l) /\ DotLast(l) /\ OnlyMarks(l)
      BY <1>5, <3>2, Prefix
    <3>4. QED
      BY <2>2, <3>3, NoTextInMarks
  <2>3. QED
    BY <2>1, <2>2
<1>7. /\ NoQuit(wire') /\ DotLast(wire')
      /\ sent' <= Len(letter) => NoDot(wire')
  BY <1>2, <1>3, <1>5, <1>6, WireGrows
<1>8. NoEndYet' /\ EndFound'
  BY <1>1, <1>3, <1>7 DEF NoEndYet, EndFound
<1>9. Text(taken) \in Seq(Bytes) /\ Cat(Text(taken), <<>>) = Text(taken)
  BY <1>2, TextType, CatEmpty
<1>10. Up => Text(taken') = Cat(Text(taken), Text(l))
  <2>1. CASE sent < Len(letter)
    BY <1>2, <1>5, <2>1, TextConcat
  <2>2. CASE ~(sent < Len(letter))
    <3>1. ~(sent' <= Len(letter))
      BY <1>2, <2>2
    <3>2. taken' = taken
      BY <1>5, <2>2
    <3>3. QED
      BY <1>6, <1>9, <3>1, <3>2
  <2>3. QED
    BY <2>1, <2>2
<1>11. Conserved'
  <2> SUFFICES ASSUME Up
               PROVE  Cat(Text(body), Text(wire')) = Text(taken')
    BY <1>1 DEF Conserved
  <2>1. Cat(Text(body), Text(wire')) = Cat(Text(taken), Text(l))
    <3>1. wire' = Cat(wire, l)
      BY <1>5
    <3>2. Cat(Text(body), Text(wire)) = Text(taken)
      BY Zenon DEF Delivery, Conserved
    <3>3. Cat(Text(body), Text(Cat(wire, l))) = Cat(Cat(Text(body), Text(wire)), Text(l))
      BY <1>2, TextGrows
    <3>4. QED
      BY <3>1, <3>2, <3>3
  <2>2. QED
    BY <1>10, <2>1
<1>12. Whole'
  <2> SUFFICES ASSUME Up, ~short'
               PROVE  Text(taken') = Text(Written')
    BY <1>1 DEF Whole
  <2>1. ~short /\ n = Len(given)
    <3>1. ~short /\ ~(n < Len(given))
      BY <1>5, Zenon
    <3>2. Len(given) \in Nat /\ n \in 0 .. Len(given)
      OBVIOUS
    <3>3. QED
      BY <3>1, <3>2
  <2>2. l = given
    BY <1>5, <2>1, Prefix
  <2>3. Text(taken) = Text(Written) /\ Written = LinesUpTo(sent)
    BY <1>2, <2>1 DEF Delivery, Whole, Written
  <2>4. CASE sent' <= Len(letter)
    <3>1. sent' \in 1 .. Len(letter) /\ sent' - 1 = sent
      BY <1>2, <2>4
    <3>2. LinesUpTo(sent) \in Seq(Bytes) /\ LinesUpTo(sent') = Cat(LinesUpTo(sent), letter[sent'])
      BY <1>2, <3>1, AllLines
    <3>3. Written' = LinesUpTo(sent')
      BY <1>1, <2>4 DEF Written, LinesUpTo
    <3>4. letter[sent'] \in Seq(Bytes)
      BY <1>2, <3>1
    <3>5. Text(Written') = Cat(Text(Written), Text(letter[sent']))
      BY <2>3, <3>2, <3>3, <3>4, TextConcat
    <3>6. Text(l) = Text(letter[sent'])
      BY <1>2, <1>4, <2>2, <3>1, WritesLine
    <3>7. QED
      BY <1>10, <2>3, <3>5, <3>6
  <2>5. CASE ~(sent' <= Len(letter))
    <3>1. sent = Len(letter)
      BY <1>2, <2>5
    <3>2. Written' = LinesUpTo(Len(letter))
      BY <1>1, <2>5 DEF Written, LinesUpTo
    <3>3. Text(taken') = Text(taken)
      BY <1>6, <1>9, <1>10, <2>5
    <3>4. QED
      BY <2>3, <3>1, <3>2, <3>3
  <2>6. QED
    BY <2>4, <2>5
<1>13. Told'
  <2>1. sent <= Len(letter)
    BY <1>2
  <2>2. ~Agreed /\ outcome # "accepted"
    BY <2>1, Zenon DEF Delivery, Told
  <2>3. ~Agreed' /\ outcome' # "accepted"
    BY <1>1, <2>2 DEF Agreed
  <2>4. QED
    BY <2>3, Zenon DEF Told
<1>14. QED
  BY <1>7, <1>8, <1>11, <1>12, <1>13 DEF Delivery

LEMMA Answers ==
  ASSUME NEW s \in Seq(Codes), NEW c \in Codes, c # "250",
         NEW k \in DOMAIN Append(s, c), Append(s, c)[k] = "250"
  PROVE  k \in DOMAIN s /\ s[k] = "250"
<1>1. /\ DOMAIN Append(s, c) = 1 .. Len(s) + 1 /\ DOMAIN s = 1 .. Len(s)
      /\ Append(s, c)[Len(s) + 1] = c
      /\ \A i \in 1 .. Len(s) : Append(s, c)[i] = s[i]
  OBVIOUS
<1>2. k # Len(s) + 1
  BY <1>1, Zenon
<1>3. k \in 1 .. Len(s)
  BY <1>1, <1>2
<1>4. QED
  BY <1>1, <1>3, Zenon

\* Another code does not tell the client that the letter is stored.
LEMMA NotAgreed ==
  ASSUME Types, NEW c \in Codes, c # "250", replies' = Append(replies, c), Agreed'
  PROVE  Agreed
<1>1. PICK s \in Seq(Codes) : s = replies
  BY DEF Types
<1>2. PICK k \in DOMAIN Append(s, c) : Append(s, c)[k] = "250"
  BY <1>1 DEF Agreed
<1>3. k \in DOMAIN s /\ s[k] = "250"
  BY <1>2, Answers
<1>4. QED
  BY <1>1, <1>3 DEF Agreed

LEMMA CheckDelivery ==
  ASSUME Types, Delivery, check_server_code
  PROVE  Delivery'
<1>1. /\ letter' = letter /\ state' = state /\ body' = body
      /\ sent' = sent /\ wire' = wire /\ taken' = taken /\ short' = short
  BY DEF check_server_code
<1>2. PICK s \in Seq(Codes) : s = replies
  BY DEF Types
<1>3. s # <<>> => /\ 1 \in DOMAIN s /\ Head(s) = s[1]
                  /\ \A k \in DOMAIN Tail(s) : k + 1 \in DOMAIN s /\ Tail(s)[k] = s[k + 1]
  OBVIOUS
<1>4. /\ outcome' = "accepted" => s # <<>> /\ Head(s) = "250"
      /\ s = <<>> => replies' = s
      /\ s # <<>> => replies' = Tail(s)
  BY <1>2 DEF check_server_code
<1>5. outcome' = "accepted" => Agreed
  BY <1>2, <1>3, <1>4, Zenon DEF Agreed
<1>6. Agreed' => Agreed
  <2> SUFFICES ASSUME NEW k \in DOMAIN replies', replies'[k] = "250"
               PROVE  Agreed
    BY DEF Agreed
  <2>1. CASE s = <<>>
    BY <1>2, <1>4, <2>1, Zenon DEF Agreed
  <2>2. CASE s # <<>>
    BY <1>2, <1>3, <1>4, <2>2, Zenon DEF Agreed
  <2>3. QED
    BY <2>1, <2>2
<1>7. Told'
  BY <1>1, <1>5, <1>6, Zenon DEF Delivery, Told, Lines
<1>8. NoEndYet' /\ EndFound' /\ Conserved' /\ Whole'
  BY <1>1, Zenon DEF Delivery, NoEndYet, EndFound, Conserved, Whole, Up, Written, LinesUpTo
<1>9. QED
  BY <1>1, <1>7, <1>8 DEF Delivery

LEMMA TimeDelivery ==
  ASSUME Types, Delivery, time_out
  PROVE  Delivery'
<1>1. /\ letter' = letter /\ body' = body /\ sent' = sent
      /\ wire' = wire /\ outcome' = outcome /\ taken' = taken /\ short' = short
  BY DEF time_out, client
<1>2. state' = "disconnected" /\ replies' = Append(replies, "421")
  BY DEF time_out
<1>3. Agreed' => Agreed
  BY <1>2, NotAgreed DEF Codes
<1>4. state' # "expect_mail" /\ state' # "expect_data_recv" /\ ~Up'
  BY <1>2 DEF Up
<1>5. Told'
  BY <1>1, <1>3, <1>4, Zenon DEF Delivery, Told, Lines
<1>6. NoEndYet' /\ EndFound' /\ Conserved' /\ Whole'
  BY <1>1, <1>4, Zenon DEF Delivery, NoEndYet, EndFound, Conserved, Whole
<1>7. QED
  BY <1>1, <1>5, <1>6 DEF Delivery

\* A chunk of the letter or of the rest of its end.
LEMMA RecvDelivery ==
  ASSUME Types, Quiet, Delivery, conn_recv
  PROVE  Delivery'
<1>1. PICK n \in 1 .. Len(wire) :
        /\ receive(SubSeq(wire, 1, n)) \/ misread(SubSeq(wire, 1, n))
        /\ wire' = SubSeq(wire, n + 1, Len(wire))
        /\ UNCHANGED client
  BY DEF conn_recv
<1>2. PICK c : c = SubSeq(wire, 1, n)
  OBVIOUS
<1>3. /\ letter' = letter /\ sent' = sent /\ outcome' = outcome
      /\ taken' = taken /\ short' = short
  BY <1>1 DEF client
<1>4. /\ letter \in Seq(Seq(Bytes)) /\ wire \in Seq(Bytes) /\ body \in Seq(Bytes)
      /\ sent \in 0 .. Len(letter) + 1 /\ taken \in Seq(Bytes)
  BY Zenon DEF Types
<1>5. /\ c \in Seq(Bytes) /\ wire' \in Seq(Bytes)
      /\ wire = Cat(c, wire')
  BY <1>1, <1>2, <1>4, Cut
<1>6. /\ NoQuit(c) /\ NoQuit(wire') /\ DotLast(wire')
      /\ NoDot(wire) => NoDot(c) /\ NoDot(wire')
      /\ OnlyBreaks(wire) => OnlyBreaks(c) /\ OnlyBreaks(wire')
      /\ NoDot(c) \/ OnlyBreaks(wire')
  <2>1. NoQuit(wire) /\ DotLast(wire)
    BY Zenon DEF Delivery
  <2>2. /\ NoQuit(wire) => NoQuit(c) /\ NoQuit(wire')
        /\ NoDot(wire) => NoDot(c) /\ NoDot(wire')
        /\ OnlyBreaks(wire) => OnlyBreaks(c) /\ OnlyBreaks(wire')
        /\ DotLast(wire) => DotLast(wire') /\ (NoDot(c) \/ OnlyBreaks(wire'))
    BY <1>5, WireCut
  <2>3. QED
    BY <2>1, <2>2, Zenon
<1>7. /\ Kind(c) \in {"DOT", "TEXT_END", "TEXT"}
      /\ NoDot(c) => Kind(c) = "TEXT"
      /\ Kind(c) = "DOT" => OnlyMarks(c)
  BY <1>5, <1>6, KindOf
<1>8. Text(wire) = Cat(Text(c), Text(wire'))
  BY <1>5, TextConcat
<1>9. /\ Text(body) \in Seq(Bytes) /\ Text(c) \in Seq(Bytes) /\ Text(wire') \in Seq(Bytes)
  BY <1>4, <1>5, TextType
<1>10. Written' = Written
  BY <1>3 DEF Written, LinesUpTo
<1>14. Up => Whole'
  BY <1>3, <1>10, Zenon DEF Delivery, Whole
<1>11. CASE receive(c)
  <2>1. /\ state = "expect_data_recv"
        /\ \/ /\ Kind(c) = "DOT" /\ state' = "expect_mail"
              /\ body' = body /\ replies' = Append(replies, "250")
           \/ /\ Kind(c) = "TEXT_END" /\ state' = "expect_mail"
              /\ body' = Stored(c) /\ replies' = Append(replies, "250")
           \/ /\ Kind(c) = "TEXT" /\ state' = state
              /\ body' = Stored(c) /\ replies' = replies
    BY <1>7, <1>11, Received
  <2>2. state' = "expect_mail" => ~NoDot(c) /\ OnlyBreaks(wire') /\ ~(sent <= Len(letter))
    <3>1. state' = "expect_mail" => Kind(c) # "TEXT"
      BY <2>1
    <3>2. QED
      BY <1>6, <1>7, <3>1, Zenon DEF Delivery, NoEndYet
  <2>3. NoEndYet' /\ EndFound'
    <3>1. sent <= Len(letter) => NoDot(wire')
      BY <1>6, Zenon DEF Delivery, NoEndYet
    <3>2. QED
      BY <1>3, <2>2, <3>1, Zenon DEF NoEndYet, EndFound
  <2>4. Cat(Text(body'), Text(wire')) = Cat(Text(body), Text(wire))
    <3>1. CASE Kind(c) = "DOT"
      <4>1. Text(c) = <<>>
        BY <1>5, <1>7, <3>1, NoTextInMarks
      <4>2. Cat(<<>>, Text(wire')) = Text(wire')
        BY <1>9, CatEmpty
      <4>3. body' = body
        BY <2>1, <3>1
      <4>4. QED
        BY <1>8, <4>1, <4>2, <4>3
    <3>2. CASE Kind(c) # "DOT"
      <4>1. body' = Stored(c)
        BY <2>1, <3>2
      <4>2. Text(body') = Cat(Text(body), Text(c))
        BY <1>4, <1>5, <4>1, TextOfStored DEF Stored
      <4>3. Cat(Cat(Text(body), Text(c)), Text(wire')) = Cat(Text(body), Cat(Text(c), Text(wire')))
        BY <1>9, CatAssociative
      <4>4. QED
        BY <1>8, <4>2, <4>3
    <3>3. QED
      BY <3>1, <3>2
  <2>0. Up
    BY <2>1 DEF Up
  <2>5. Cat(Text(body'), Text(wire')) = Text(taken)
    BY <2>0, <2>4 DEF Delivery, Conserved
  <2>6. Conserved' /\ Whole'
    BY <1>3, <1>14, <2>0, <2>5, Zenon DEF Conserved
  <2>7. ~Agreed /\ outcome # "accepted"
    BY <2>1, Zenon DEF Delivery, Told
  <2>8. Told'
    <3>1. CASE state' = "expect_mail"
      <4>1. ~short => Text(taken) = Text(Lines)
        <5>1. Written = Lines
          BY <1>4, <2>2, <3>1, AllLines, Zenon DEF Written
        <5>2. QED
          BY <2>0, <5>1, Zenon DEF Delivery, Whole
      <4>2. Text(wire') = <<>>
        BY <1>5, <2>2, <3>1, BreaksAreMarks, NoTextInMarks
      <4>3. Text(body') \in Seq(Bytes)
        <5>1. body' = body \/ body' = Stored(c)
          BY <2>1
        <5>2. body' \in Seq(Bytes)
          BY <1>4, <1>5, <5>1, TextOfStored DEF Stored
        <5>3. QED
          BY <5>2, TextType
      <4>4. Text(body') = Text(taken)
        BY <2>5, <4>2, <4>3, CatEmpty
      <4>5. QED
        BY <1>3, <2>2, <3>1, <4>1, <4>4 DEF Told, Lines
    <3>2. CASE state' # "expect_mail"
      <4>1. replies' = replies
        BY <2>1, <3>2
      <4>2. QED
        BY <1>3, <2>7, <4>1, Zenon DEF Told, Agreed
    <3>3. QED
      BY <3>1, <3>2
  <2>9. QED
    BY <1>6, <2>3, <2>6, <2>8 DEF Delivery
<1>12. CASE misread(c)
  <2>1. state = "expect_mail" /\ body' = body
    BY <1>12, Misread
  <2>2. OnlyBreaks(wire) /\ OnlyBreaks(c) /\ OnlyBreaks(wire')
    BY <1>6, <2>1 DEF Delivery, EndFound
  <2>3. Kind(c) = "TEXT"
    BY <1>7, <2>2, BreaksAreMarks
  <2>4. state' = state /\ replies' = Append(replies, "500")
    BY <1>12, <2>3, Misread
  <2>5. NoDot(wire') /\ Text(wire) = <<>> /\ Text(wire') = <<>>
    BY <1>4, <1>5, <2>2, BreaksAreMarks, NoTextInMarks
  <2>6. ~(sent <= Len(letter))
    BY <2>1, Zenon DEF Delivery, NoEndYet
  <2>7. NoEndYet' /\ EndFound'
    BY <1>3, <2>2, <2>6, Zenon DEF NoEndYet, EndFound
  <2>8. Conserved' /\ Whole'
    <3>1. Up
      BY <2>1 DEF Up
    <3>2. QED
      BY <1>3, <1>14, <2>1, <2>5, <3>1, Zenon DEF Delivery, Conserved
  <2>9. Agreed' => Agreed
    BY <2>4, NotAgreed DEF Codes
  <2>10. Told'
    BY <1>3, <2>1, <2>4, <2>9, Zenon DEF Delivery, Told, Lines
  <2>11. QED
    BY <1>6, <2>7, <2>8, <2>10 DEF Delivery
<1>13. QED
  BY <1>1, <1>2, <1>11, <1>12

-----------------------------------------------------------------------------
(* Theorems. *)

LEMMA InitInvariant == Init => IInv
BY InitTyped, InitDelivery DEF IInv

LEMMA NextInvariant == IInv /\ [Next]_vars => IInv'
<1> SUFFICES ASSUME IInv, [Next]_vars
             PROVE  IInv'
  OBVIOUS
<1>1. Types /\ Types'
  BY NextTyped DEF IInv
<1>2. letter' = letter
  BY Zenon DEF Next, send_msg_body, check_server_code, conn_recv, time_out, vars, client
<1>3. Quiet' => Quiet
  BY <1>2, Zenon DEF Quiet
<1>4. ASSUME Quiet
      PROVE  Delivery'
  <2>1. Delivery
    BY <1>4 DEF IInv
  <2>2. CASE UNCHANGED vars
    <3>1. /\ letter' = letter /\ sent' = sent /\ wire' = wire /\ state' = state
          /\ body' = body /\ replies' = replies /\ outcome' = outcome
          /\ taken' = taken /\ short' = short
      BY <2>2 DEF vars, client
    <3>2. QED
      BY <2>1, <3>1, Zenon DEF Delivery, NoEndYet, EndFound, Conserved, Whole, Told, Up, Agreed,
         Written, LinesUpTo, Lines
  <2>3. CASE Next
    BY <1>1, <1>4, <2>1, <2>3, SendDelivery, CheckDelivery, RecvDelivery, TimeDelivery, Zenon
       DEF Next
  <2>4. QED
    BY <2>2, <2>3
<1>5. QED
  BY <1>1, <1>3, <1>4 DEF IInv

\* A letter without dots and lines that are commands is never cut short: when
\* the server takes the end for found and answers 250 (process_data_recv(),
\* process_data_end()), every line was given to write() and at most a line break
\* is left to be read as a command, wherever TCP cuts it and whatever write()
\* did not take.
THEOREM EndIsTheEnd == Spec => []NotCutShort
<1>1. IInv => NotCutShort
  <2> SUFFICES ASSUME IInv, Quiet, state = "expect_mail"
               PROVE  sent = Len(letter) + 1 /\ ToSet(wire) \subseteq {"cr", "lf"}
    BY DEF NotCutShort
  <2>1. ~(sent <= Len(letter)) /\ OnlyBreaks(wire)
    BY DEF IInv, Delivery, NoEndYet, EndFound
  <2>2. sent \in 0 .. Len(letter) + 1 /\ Len(letter) \in Nat
    BY LinesCounted, Zenon DEF IInv, Types
  <2>3. sent = Len(letter) + 1
    BY <2>1, <2>2
  <2>4. ToSet(wire) \subseteq {"cr", "lf"}
    BY <2>1 DEF OnlyBreaks, ToSet
  <2>5. QED
    BY <2>3, <2>4
<1>2. QED
  BY <1>1, InitInvariant, NextInvariant, PTL DEF Spec

\* What the client counts as accepted (check_server_code()) is stored with all
\* of the text that write() took, in order and once, for letters of any length
\* and any chunks; and with the whole text if write() always took all.
THEOREM StoredWhole == Spec => []AcceptedIsStored
<1>1. IInv => AcceptedIsStored
  BY Zenon DEF IInv, Delivery, Told, AcceptedIsStored
<1>2. QED
  BY <1>1, InitInvariant, NextInvariant, PTL DEF Spec

\* While the connection is up, what process_data_recv() has stored and what
\* is still on its way are together the text that write() took so far, and that
\* is the text of the lines as long as it took all: no cut loses, doubles or
\* reorders a byte of text, of an end that was cut and is not seen as well.
THEOREM NoTextLost == Spec => [](Quiet => Conserved /\ Whole)
<1>1. IInv => (Quiet => Conserved /\ Whole)
  BY DEF IInv, Delivery
<1>2. QED
  BY <1>1, InitInvariant, NextInvariant, PTL DEF Spec
=============================================================================
