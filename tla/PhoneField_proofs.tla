-------------------------- MODULE PhoneField_proofs --------------------------
(***************************************************************************)
(* What holds of the field of a telephone number whatever the digits are   *)
(* and however long a number gets.                                         *)
(*                                                                         *)
(* The conversions of PhoneField join pieces of one character or a few.    *)
(* What they do is shown by induction over the characters, with sets in    *)
(* the place of predicates: the set of the sequences that something holds  *)
(* of has all of them if it has the empty one and each that is one longer  *)
(* than a member.                                                          *)
(***************************************************************************)
EXTENDS PhoneField, SequenceTheorems, NaturalsInduction, WellFoundedInduction, TLAPS

-----------------------------------------------------------------------------
(* Induction *)

LEMMA InductionOnNumbers ==
    ASSUME NEW T \in SUBSET Nat, 0 \in T, \A n \in T : n + 1 \in T
    PROVE  T = Nat
<1> SUFFICES ASSUME Nat \ T # {} PROVE FALSE
  OBVIOUS
<1> DEFINE S == Nat \ T
           R == OpToRel(<, Nat)
<1>1. \E x \in S : \A y \in S : ~ (<<y, x>> \in R)
  BY NatLessThanWellFounded, WFMin
<1>2. \A x, y \in S : y < x => <<y, x>> \in R
  BY DEF OpToRel
<1> HIDE DEF R
<1>3. PICK x \in S : \A y \in S : ~ (<<y, x>> \in R)
  BY <1>1
<1>4. x \in Nat /\ x # 0 /\ x \notin T
  BY <1>3
<1>5. x - 1 \in Nat /\ x - 1 < x /\ (x - 1) + 1 = x
  BY <1>4
<1>6. x - 1 \notin S
  BY <1>2, <1>3, <1>5
<1>7. x - 1 \in T
  BY <1>5, <1>6
<1> QED
  BY <1>4, <1>5, <1>7

LEMMA InductionOnSequences ==
    ASSUME NEW S, NEW T \in SUBSET Seq(S), << >> \in T,
           \A s \in T, c \in S : Append(s, c) \in T
    PROVE  T = Seq(S)
<1> DEFINE L == {n \in Nat : \A s \in Seq(S) : Len(s) = n => s \in T}
<1>1. 0 \in L
  BY EmptySeq
<1>2. ASSUME NEW n \in L, NEW s \in Seq(S), Len(s) = n + 1
      PROVE  s \in T
  <2>1. s # << >> /\ n \in Nat
    BY <1>2
  <2>2. PICK r \in Seq(S), c \in S : s = Append(r, c)
    BY <2>1, SequenceEmptyOrAppend
  <2>3. Len(r) \in Nat /\ Len(s) = Len(r) + 1
    BY <2>2, AppendProperties, LenProperties
  <2>4. r \in T
    BY <1>2, <2>1, <2>3
  <2> QED
    BY <2>2, <2>4
<1>3. ASSUME NEW n \in L PROVE n + 1 \in L
  <2>1. n + 1 \in Nat
    OBVIOUS
  <2>2. \A s \in Seq(S) : Len(s) = n + 1 => s \in T
    BY <1>2
  <2> QED
    BY <2>1, <2>2
<1> HIDE DEF L
<1>4. L = Nat
  <2>1. L \in SUBSET Nat
    BY DEF L
  <2> QED
    BY <1>1, <1>3, <2>1, InductionOnNumbers
<1>5. ASSUME NEW s \in Seq(S) PROVE s \in T
  <2>1. Len(s) \in L
    BY <1>4, LenProperties
  <2> QED
    BY <2>1 DEF L
<1> QED
  BY <1>5

-----------------------------------------------------------------------------
(* Joining pieces *)

\* What FlattenSeq looks up its result in: the pieces joined up to each one.
Joined(f, ps, n) ==
    f = [i \in 1..n |-> IF i = 1 THEN ps[i] ELSE f[i - 1] \o ps[i]]

LEMMA PiecesCanBeJoined ==
    ASSUME NEW ps, NEW n \in Nat
    PROVE  \E f : Joined(f, ps, n)
<1> DEFINE T == {m \in Nat : \E f : Joined(f, ps, m)}
<1>1. 0 \in T
  <2> DEFINE e == [i \in 1..0 |-> << >>]
  <2>1. e = [i \in 1..0 |-> IF i = 1 THEN ps[i] ELSE e[i - 1] \o ps[i]]
    OBVIOUS
  <2> QED
    BY <2>1 DEF Joined
<1>2. ASSUME NEW m \in T PROVE m + 1 \in T
  <2>1. m \in Nat
    OBVIOUS
  <2>2. PICK f : Joined(f, ps, m)
    OBVIOUS
  <2> DEFINE g == [i \in 1..(m + 1) |->
                     IF i = m + 1 THEN (IF i = 1 THEN ps[i] ELSE f[m] \o ps[i]) ELSE f[i]]
             h == [i \in 1..(m + 1) |-> IF i = 1 THEN ps[i] ELSE g[i - 1] \o ps[i]]
  <2>3. ASSUME NEW i \in 1..(m + 1) PROVE g[i] = h[i]
    <3>1. i \in Nat /\ i >= 1 /\ i <= m + 1
      BY <2>1
    <3>2. CASE i = m + 1
      <4>1. i # 1 => i - 1 = m /\ m \in 1..(m + 1) /\ m # m + 1
        BY <2>1, <3>2
      <4>2. i # 1 => g[i - 1] = f[m]
        BY <4>1
      <4> QED
        BY <3>2, <4>2
    <3>3. CASE i # m + 1
      <4>1. i \in 1..m /\ g[i] = f[i]
        BY <2>1, <3>1, <3>3
      <4>2. f[i] = IF i = 1 THEN ps[i] ELSE f[i - 1] \o ps[i]
        BY <2>2, <4>1 DEF Joined
      <4>3. i # 1 => i - 1 \in 1..(m + 1) /\ i - 1 # m + 1
        BY <2>1, <3>1
      <4>4. i # 1 => g[i - 1] = f[i - 1]
        BY <4>3
      <4> QED
        BY <4>1, <4>2, <4>4
    <3> QED
      BY <3>2, <3>3
  <2>4. g = h
    BY <2>3
  <2>5. Joined(g, ps, m + 1)
    BY <2>4 DEF Joined
  <2> QED
    BY <2>1, <2>5
<1>3. T = Nat
  <2>1. T \in SUBSET Nat
    OBVIOUS
  <2> HIDE DEF T
  <2> QED
    BY <1>1, <1>2, <2>1, InductionOnNumbers
<1> QED
  BY <1>3

\* The pieces up to n decide what they are joined to.
LEMMA JoinedAlike ==
    ASSUME NEW ps, NEW qs, NEW f, NEW g, NEW n \in Nat, NEW m \in Nat, n <= m,
           Joined(f, ps, n), Joined(g, qs, m), \A i \in 1..n : ps[i] = qs[i]
    PROVE  \A i \in 1..n : f[i] = g[i]
<1> DEFINE T == {k \in Nat : k \in 1..n => f[k] = g[k]}
<1>1. 0 \in T
  OBVIOUS
<1>2. ASSUME NEW k \in T, k + 1 \in 1..n PROVE f[k + 1] = g[k + 1]
  <2>1. k \in Nat /\ k + 1 \in 1..m /\ (k + 1) - 1 = k
    BY <1>2
  <2>2. f[k + 1] = IF k + 1 = 1 THEN ps[k + 1] ELSE f[(k + 1) - 1] \o ps[k + 1]
    BY <1>2 DEF Joined
  <2>3. g[k + 1] = IF k + 1 = 1 THEN qs[k + 1] ELSE g[(k + 1) - 1] \o qs[k + 1]
    BY <2>1 DEF Joined
  <2>4. ps[k + 1] = qs[k + 1]
    BY <1>2
  <2>5. k + 1 # 1 => k \in 1..n
    BY <1>2, <2>1
  <2>6. k + 1 # 1 => f[k] = g[k]
    BY <2>5, <1>2
  <2> QED
    BY <2>1, <2>2, <2>3, <2>4, <2>6
<1>3. T = Nat
  <2>1. T \in SUBSET Nat /\ \A k \in T : k + 1 \in T
    BY <1>2
  <2> HIDE DEF T
  <2> QED
    BY <1>1, <2>1, InductionOnNumbers
<1> QED
  BY <1>3

LEMMA JoinedAreSequences ==
    ASSUME NEW S, NEW ps, NEW f, NEW n \in Nat, Joined(f, ps, n),
           \A i \in 1..n : ps[i] \in Seq(S)
    PROVE  \A i \in 1..n : f[i] \in Seq(S)
<1> DEFINE T == {k \in Nat : k \in 1..n => f[k] \in Seq(S)}
<1>1. 0 \in T
  OBVIOUS
<1>2. ASSUME NEW k \in T, k + 1 \in 1..n PROVE f[k + 1] \in Seq(S)
  <2>1. k \in Nat /\ (k + 1) - 1 = k
    BY <1>2
  <2>2. f[k + 1] = IF k + 1 = 1 THEN ps[k + 1] ELSE f[(k + 1) - 1] \o ps[k + 1]
    BY <1>2 DEF Joined
  <2>3. ps[k + 1] \in Seq(S)
    BY <1>2
  <2>4. k + 1 # 1 => f[k] \in Seq(S)
    BY <1>2, <2>1
  <2> QED
    BY <2>1, <2>2, <2>3, <2>4, ConcatProperties
<1>3. T = Nat
  <2>1. T \in SUBSET Nat /\ \A k \in T : k + 1 \in T
    BY <1>2
  <2> HIDE DEF T
  <2> QED
    BY <1>1, <2>1, InductionOnNumbers
<1> QED
  BY <1>3

\* FlattenSeq of a sequence that is not empty.
LEMMA FlattenIsJoined ==
    ASSUME NEW ps, Len(ps) \in Nat \ {0}
    PROVE  \E f : Joined(f, ps, Len(ps)) /\ FlattenSeq(ps) = f[Len(ps)]
<1> DEFINE f == CHOOSE g : Joined(g, ps, Len(ps))
<1>1. FlattenSeq(ps) = f[Len(ps)]
  BY DEF FlattenSeq, Joined
<1>2. Joined(f, ps, Len(ps))
  BY PiecesCanBeJoined
<1> QED
  BY <1>1, <1>2

LEMMA FlattenNothing == FlattenSeq(<< >>) = << >>
  BY DEF FlattenSeq

\* One more piece is joined to what the others give.
LEMMA FlattenOneMore ==
    ASSUME NEW S, NEW ps \in Seq(Seq(S)), NEW p \in Seq(S)
    PROVE  /\ FlattenSeq(ps) \in Seq(S)
           /\ FlattenSeq(Append(ps, p)) = FlattenSeq(ps) \o p
<1> DEFINE qs == Append(ps, p)
           n == Len(ps)
<1>1. /\ n \in Nat /\ Len(qs) = n + 1 /\ qs[n + 1] = p
      /\ \A i \in 1..n : ps[i] = qs[i] /\ ps[i] \in Seq(S)
  BY AppendProperties, LenProperties, ElementOfSeq
<1> HIDE DEF qs, n
<1>2. PICK g : Joined(g, qs, n + 1) /\ FlattenSeq(qs) = g[n + 1]
  BY <1>1, FlattenIsJoined
<1>3. g[n + 1] = IF n + 1 = 1 THEN p ELSE g[(n + 1) - 1] \o p
  <2>1. n + 1 \in 1..(n + 1)
    BY <1>1
  <2>2. g[n + 1] = IF n + 1 = 1 THEN qs[n + 1] ELSE g[(n + 1) - 1] \o qs[n + 1]
    BY <1>2, <2>1 DEF Joined
  <2> QED
    BY <1>1, <2>2
<1>4. CASE n = 0
  <2>1. ps = << >>
    BY <1>4, EmptySeq DEF n
  <2>2. FlattenSeq(ps) = << >>
    BY <2>1, FlattenNothing
  <2> QED
    BY <1>2, <1>3, <1>4, <2>2, ConcatEmptySeq DEF qs
<1>5. CASE n # 0
  <2>1. PICK f : Joined(f, ps, n) /\ FlattenSeq(ps) = f[n]
    BY <1>1, <1>5, FlattenIsJoined DEF n
  <2>2. \A i \in 1..n : f[i] = g[i]
    <3>1. n \in Nat /\ n + 1 \in Nat /\ n <= n + 1
      BY <1>1
    <3>3. \A i \in 1..n : ps[i] = qs[i]
      BY <1>1
    <3>2. Joined(f, ps, n) /\ Joined(g, qs, n + 1)
      BY <1>2, <2>1
    <3> QED
      BY <3>1, <3>2, <3>3, JoinedAlike
  <2>3. \A i \in 1..n : f[i] \in Seq(S)
    BY <1>1, <2>1, JoinedAreSequences
  <2>4. n \in 1..n /\ n + 1 # 1 /\ (n + 1) - 1 = n
    BY <1>1, <1>5
  <2> QED
    BY <1>2, <1>3, <2>1, <2>2, <2>3, <2>4 DEF qs
<1> QED
  BY <1>4, <1>5

-----------------------------------------------------------------------------
(* The characters that are kept *)

Key == Digit \cup {"+"}
Char == Digit \cup {"+"} \cup Separator

LEMMA Characters ==
    /\ Key \subseteq Char /\ Separator \subseteq Char
    /\ \A c \in Char : Kept(c) <=> c \in Key
    /\ "+" \in Key
  BY FieldAssumption DEF Key, Char, Kept, Separator, Space, Dash, Opening, Closing

LEMMA KeptNothing == KeptIn(<< >>) = << >>
<1>1. [i \in DOMAIN << >> |-> IF Kept(<< >>[i]) THEN <<<< >>[i]>> ELSE << >>] = << >>
  OBVIOUS
<1> QED
  BY <1>1, FlattenNothing DEF KeptIn

LEMMA KeptOneMore ==
    ASSUME NEW S, NEW s \in Seq(S), NEW c \in S
    PROVE  /\ KeptIn(s) \in Seq(S)
           /\ KeptIn(Append(s, c)) = KeptIn(s) \o (IF Kept(c) THEN <<c>> ELSE << >>)
<1> DEFINE Piece(x) == IF Kept(x) THEN <<x>> ELSE << >>
           ps == [i \in DOMAIN s |-> Piece(s[i])]
           t == Append(s, c)
           qs == [i \in DOMAIN t |-> Piece(t[i])]
<1>1. \A x \in S : Piece(x) \in Seq(S)
  OBVIOUS
<1>2. /\ Len(s) \in Nat /\ DOMAIN s = 1..Len(s) /\ DOMAIN t = 1..(Len(s) + 1)
      /\ \A i \in 1..Len(s) : s[i] \in S /\ t[i] = s[i]
      /\ t[Len(s) + 1] = c
  BY AppendProperties, LenProperties, ElementOfSeq
<1> HIDE DEF Piece, t
<1>3. ps \in Seq(Seq(S)) /\ Len(ps) = Len(s)
  BY <1>1, <1>2
<1>4. qs \in Seq(Seq(S)) /\ Len(qs) = Len(s) + 1
  <2>1. \A i \in 1..(Len(s) + 1) : t[i] \in S
    BY <1>2
  <2>2. \A i \in 1..(Len(s) + 1) : qs[i] \in Seq(S)
    BY <1>1, <1>2, <2>1
  <2>3. qs \in [1..(Len(s) + 1) -> Seq(S)] /\ Len(s) + 1 \in Nat
    BY <1>2, <2>2
  <2> QED
    BY <1>2, <2>3
<1>5. qs = Append(ps, Piece(c))
  <2>1. /\ Append(ps, Piece(c)) \in Seq(Seq(S))
        /\ Len(Append(ps, Piece(c))) = Len(s) + 1
        /\ \A i \in 1..Len(s) : Append(ps, Piece(c))[i] = ps[i]
        /\ Append(ps, Piece(c))[Len(s) + 1] = Piece(c)
    BY <1>1, <1>3, AppendProperties
  <2>2. \A i \in 1..(Len(s) + 1) : qs[i] = Append(ps, Piece(c))[i]
    <3>1. \A i \in 1..Len(s) : qs[i] = ps[i]
      BY <1>2
    <3>2. qs[Len(s) + 1] = Piece(c)
      BY <1>2
    <3>3. \A i \in 1..(Len(s) + 1) : i \in 1..Len(s) \/ i = Len(s) + 1
      BY <1>2
    <3> HIDE DEF qs, ps
    <3> QED
      BY <2>1, <3>1, <3>2, <3>3
  <2> HIDE DEF qs, ps
  <2> QED
    BY <1>4, <2>1, <2>2, SeqEqual
<1>6. KeptIn(s) = FlattenSeq(ps) /\ KeptIn(t) = FlattenSeq(qs)
  BY DEF KeptIn, Piece
<1> HIDE DEF ps, qs
<1>7. FlattenSeq(ps) \in Seq(S) /\ FlattenSeq(Append(ps, Piece(c))) = FlattenSeq(ps) \o Piece(c)
  BY <1>1, <1>3, FlattenOneMore
<1>8. KeptIn(t) = KeptIn(s) \o Piece(c)
  BY <1>5, <1>6, <1>7
<1> QED
  BY <1>6, <1>7, <1>8 DEF Piece, t

LEMMA KeptOfOne ==
    ASSUME NEW c
    PROVE  KeptIn(<<c>>) = IF Kept(c) THEN <<c>> ELSE << >>
<1> DEFINE p == IF Kept(c) THEN <<c>> ELSE << >>
<1>1. << >> \in Seq({c}) /\ c \in {c}
  BY EmptySeq
<1>2. <<c>> = Append(<< >>, c) /\ <<c>> \in Seq({c})
  OBVIOUS
<1>3. p \in Seq({c})
  BY <1>1, <1>2
<1>4. KeptIn(Append(<< >>, c)) = KeptIn(<< >>) \o p
  BY <1>1, KeptOneMore
<1> HIDE DEF p
<1>5. KeptIn(<<c>>) = p
  BY <1>4, <1>2, <1>3, KeptNothing, ConcatEmptySeq
<1> QED
  BY <1>5 DEF p

LEMMA Associative == \A S : \A s, t, u \in Seq(S) : (s \o t) \o u = s \o (t \o u)
  BY ConcatAssociative

\* What is kept of two sequences one behind the other.
LEMMA KeptOfBoth ==
    ASSUME NEW S, NEW s \in Seq(S), NEW t \in Seq(S)
    PROVE  KeptIn(s \o t) = KeptIn(s) \o KeptIn(t)
<1> DEFINE T == {x \in Seq(S) : KeptIn(s \o x) = KeptIn(s) \o KeptIn(x)}
<1>0. KeptIn(s) \in Seq(S)
  <2>1. CASE s = << >>
    BY <2>1, KeptNothing, EmptySeq
  <2>2. CASE s # << >>
    <3>1. PICK c \in S : TRUE
      BY <2>2, SequenceEmptyOrAppend
    <3> QED
      BY <3>1, KeptOneMore
  <2> QED
    BY <2>1, <2>2
<1>1. << >> \in T
  BY <1>0, KeptNothing, ConcatEmptySeq, EmptySeq
<1>2. ASSUME NEW u \in Seq(S), NEW c \in S, KeptIn(s \o u) = KeptIn(s) \o KeptIn(u)
      PROVE  KeptIn(s \o Append(u, c)) = KeptIn(s) \o KeptIn(Append(u, c))
  <2> DEFINE p == IF Kept(c) THEN <<c>> ELSE << >>
  <2>1. u \in Seq(S) /\ p \in Seq(S) /\ <<c>> \in Seq(S)
    OBVIOUS
  <2> HIDE DEF p
  <2>2. KeptIn(u) \in Seq(S) /\ KeptIn(Append(u, c)) = KeptIn(u) \o p
    BY <2>1, KeptOneMore DEF p
  <2>3. s \o u \in Seq(S) /\ s \o Append(u, c) = Append(s \o u, c)
    <3>1. s \o u \in Seq(S)
      BY <2>1, ConcatProperties
    <3>2. Append(u, c) = u \o <<c>> /\ Append(s \o u, c) = (s \o u) \o <<c>>
      BY <2>1, <3>1, AppendIsConcat
    <3> QED
      BY <2>1, <3>1, <3>2, ConcatAssociative
  <2>4. KeptIn(s \o Append(u, c)) = KeptIn(s \o u) \o p
    BY <2>3, KeptOneMore DEF p
  <2>5. KeptIn(s \o u) = KeptIn(s) \o KeptIn(u)
    BY <1>2
  <2>6. (KeptIn(s) \o KeptIn(u)) \o p = KeptIn(s) \o (KeptIn(u) \o p)
    <3>1. PICK x \in Seq(S), y \in Seq(S), z \in Seq(S) : x = KeptIn(s) /\ y = KeptIn(u) /\ z = p
      BY <1>0, <2>1, <2>2
    <3>2. (x \o y) \o z = x \o (y \o z)
      BY Associative, SMTT(60)
    <3> QED
      BY <3>1, <3>2
  <2> QED
    BY <2>2, <2>4, <2>5, <2>6
<1>3. T \in SUBSET Seq(S)
  OBVIOUS
<1>5. \A x \in T, c \in S : Append(x, c) \in T
  BY <1>2, AppendProperties
<1> HIDE DEF T
<1>4. T = Seq(S)
  BY <1>1, <1>3, <1>5, InductionOnSequences
<1> QED
  BY <1>4 DEF T

\* What is kept belongs to a number.
LEMMA KeptAreKeys ==
    ASSUME NEW s \in Seq(Char)
    PROVE  KeptIn(s) \in Seq(Key)
<1> DEFINE T == {u \in Seq(Char) : KeptIn(u) \in Seq(Key)}
<1>1. << >> \in T
  BY KeptNothing, EmptySeq
<1>2. ASSUME NEW u \in T, NEW c \in Char PROVE Append(u, c) \in T
  <2> DEFINE p == IF Kept(c) THEN <<c>> ELSE << >>
  <2>1. p \in Seq(Key)
    BY Characters
  <2> HIDE DEF p
  <2>2. KeptIn(Append(u, c)) = KeptIn(u) \o p
    BY KeptOneMore DEF p
  <2>3. KeptIn(u) \in Seq(Key) /\ Append(u, c) \in Seq(Char)
    BY AppendProperties
  <2> QED
    BY <2>1, <2>2, <2>3, ConcatProperties
<1>3. T \in SUBSET Seq(Char)
  OBVIOUS
<1> HIDE DEF T
<1>4. T = Seq(Char)
  BY <1>1, <1>2, <1>3, InductionOnSequences
<1> QED
  BY <1>4 DEF T

\* A number is kept as it is.
LEMMA KeysAreKept ==
    ASSUME NEW s \in Seq(Key)
    PROVE  KeptIn(s) = s
<1> DEFINE T == {u \in Seq(Key) : KeptIn(u) = u}
<1>1. << >> \in T
  BY KeptNothing, EmptySeq
<1>2. ASSUME NEW u \in T, NEW c \in Key PROVE Append(u, c) \in T
  <2>1. Kept(c) /\ u \in Seq(Key) /\ KeptIn(u) = u
    BY Characters
  <2>2. KeptIn(Append(u, c)) = u \o <<c>>
    BY <2>1, KeptOneMore
  <2> QED
    BY <2>1, <2>2, AppendProperties, AppendIsConcat
<1>3. T \in SUBSET Seq(Key)
  OBVIOUS
<1> HIDE DEF T
<1>4. T = Seq(Key)
  BY <1>1, <1>2, <1>3, InductionOnSequences
<1> QED
  BY <1>4 DEF T

-----------------------------------------------------------------------------
(* What the field shows of a number *)

\* The characters that stand for n of a number.
Spread(n) ==
    n + (IF n >= 3 THEN 2 ELSE 0) + (IF n >= 6 THEN 2 ELSE 0)
      + (IF n >= 9 THEN 1 ELSE 0) + (IF n >= 11 THEN 1 ELSE 0)

LEMMA SpreadGrows == \A n \in Nat : Spread(n) \in Nat /\ Spread(n) >= n
  BY DEF Spread

LEMMA NothingKeptBefore ==
    ASSUME NEW i \in Nat
    PROVE  /\ Before(i) \in Seq(Char)
           /\ KeptIn(Before(i)) = << >>
           /\ Len(Before(i)) = IF i = 3 \/ i = 6 THEN 2
                               ELSE IF i = 9 \/ i = 11 THEN 1 ELSE 0
<1>1. {Space, Dash, Closing, Opening} \subseteq Char
  BY DEF Char, Separator
<1>2. ASSUME NEW c \in Separator PROVE KeptIn(<<c>>) = << >>
  BY KeptOfOne DEF Kept
<1>3. ASSUME NEW a \in Separator, NEW c \in Separator
      PROVE  KeptIn(<<a, c>>) = << >>
  <2>1. <<a>> \in Seq(Separator) /\ ~ Kept(c)
    BY DEF Kept
  <2>2. KeptIn(Append(<<a>>, c)) = KeptIn(<<a>>) \o << >>
    BY <2>1, KeptOneMore
  <2>3. << >> \o << >> = << >>
    BY ConcatEmptySeq, EmptySeq
  <2>4. <<a, c>> = Append(<<a>>, c)
    OBVIOUS
  <2> QED
    BY <1>2, <2>2, <2>3, <2>4
<1>4. CASE i = 3
  <2>1. Before(i) = <<Space, Opening>>
    BY <1>4 DEF Before
  <2>2. KeptIn(<<Space, Opening>>) = << >>
    BY <1>3 DEF Separator
  <2>3. <<Space, Opening>> \in Seq(Char)
    BY <1>1
  <2>4. Len(<<Space, Opening>>) = 2
    OBVIOUS
  <2> QED
    BY <1>4, <2>1, <2>2, <2>3, <2>4
<1>5. CASE i = 6
  <2>1. Before(i) = <<Closing, Space>>
    BY <1>5 DEF Before
  <2>2. KeptIn(<<Closing, Space>>) = << >>
    BY <1>3 DEF Separator
  <2>3. <<Closing, Space>> \in Seq(Char)
    BY <1>1
  <2>4. Len(<<Closing, Space>>) = 2
    OBVIOUS
  <2> QED
    BY <1>5, <2>1, <2>2, <2>3, <2>4
<1>6. CASE i \in {9, 11}
  <2>1. Before(i) = <<Dash>>
    BY <1>6 DEF Before
  <2>2. KeptIn(<<Dash>>) = << >>
    BY <1>2 DEF Separator
  <2> QED
    BY <1>1, <1>6, <2>1, <2>2
<1>7. CASE i # 3 /\ i # 6 /\ i \notin {9, 11}
  <2>1. Before(i) = << >>
    BY <1>7 DEF Before
  <2> QED
    BY <1>7, <2>1, KeptNothing, EmptySeq
<1> QED
  BY <1>4, <1>5, <1>6, <1>7

LEMMA GroupedNothing == Grouped(<< >>) = << >>
<1>1. [i \in DOMAIN << >> |-> Before(i) \o <<<< >>[i]>>] = << >>
  OBVIOUS
<1> QED
  BY <1>1, FlattenNothing DEF Grouped

LEMMA GroupedOneMore ==
    ASSUME NEW s \in Seq(Char), NEW c \in Char
    PROVE  /\ Grouped(s) \in Seq(Char)
           /\ Grouped(Append(s, c)) = Grouped(s) \o (Before(Len(s) + 1) \o <<c>>)
<1> DEFINE Piece(i, x) == Before(i) \o <<x>>
           ps == [i \in DOMAIN s |-> Piece(i, s[i])]
           t == Append(s, c)
           qs == [i \in DOMAIN t |-> Piece(i, t[i])]
           last == Piece(Len(s) + 1, c)
<1>1. \A i \in Nat, x \in Char : Piece(i, x) \in Seq(Char)
  <2>1. \A i \in Nat : Before(i) \in Seq(Char)
    BY NothingKeptBefore
  <2>2. \A x \in Char : <<x>> \in Seq(Char)
    OBVIOUS
  <2> QED
    BY <2>1, <2>2, ConcatProperties
<1>2. /\ Len(s) \in Nat /\ DOMAIN s = 1..Len(s) /\ DOMAIN t = 1..(Len(s) + 1)
      /\ \A i \in 1..Len(s) : s[i] \in Char /\ t[i] = s[i]
      /\ t[Len(s) + 1] = c
  BY AppendProperties, LenProperties, ElementOfSeq
<1> HIDE DEF Piece, t
<1>3. ps \in Seq(Seq(Char)) /\ Len(ps) = Len(s)
  <2>1. \A i \in 1..Len(s) : ps[i] \in Seq(Char)
    BY <1>1, <1>2
  <2>2. ps \in [1..Len(s) -> Seq(Char)]
    BY <1>2, <2>1
  <2> QED
    BY <1>2, <2>2
<1>4. qs \in Seq(Seq(Char)) /\ Len(qs) = Len(s) + 1
  <2>1. \A i \in 1..(Len(s) + 1) : t[i] \in Char /\ i \in Nat
    BY <1>2
  <2>2. \A i \in 1..(Len(s) + 1) : qs[i] \in Seq(Char)
    BY <1>1, <1>2, <2>1
  <2>3. qs \in [1..(Len(s) + 1) -> Seq(Char)] /\ Len(s) + 1 \in Nat
    BY <1>2, <2>2
  <2> QED
    BY <1>2, <2>3
<1>5. last \in Seq(Char)
  <2>1. Len(s) + 1 \in Nat
    BY <1>2
  <2> QED
    BY <1>1, <2>1
<1>6. qs = Append(ps, last)
  <2>1. /\ Append(ps, last) \in Seq(Seq(Char))
        /\ Len(Append(ps, last)) = Len(s) + 1
        /\ \A i \in 1..Len(s) : Append(ps, last)[i] = ps[i]
        /\ Append(ps, last)[Len(s) + 1] = last
    BY <1>5, <1>3, AppendProperties
  <2>2. \A i \in 1..(Len(s) + 1) : qs[i] = Append(ps, last)[i]
    <3>1. \A i \in 1..Len(s) : qs[i] = ps[i]
      BY <1>2
    <3>2. qs[Len(s) + 1] = last
      BY <1>2
    <3>3. \A i \in 1..(Len(s) + 1) : i \in 1..Len(s) \/ i = Len(s) + 1
      BY <1>2
    <3> HIDE DEF qs, ps, last
    <3> QED
      BY <2>1, <3>1, <3>2, <3>3
  <2> HIDE DEF qs, ps, last
  <2> QED
    BY <1>4, <2>1, <2>2, SeqEqual
<1>7. Grouped(s) = FlattenSeq(ps) /\ Grouped(t) = FlattenSeq(qs)
  BY DEF Grouped, Piece
<1> HIDE DEF ps, qs, last
<1>8. FlattenSeq(ps) \in Seq(Char) /\ FlattenSeq(Append(ps, last)) = FlattenSeq(ps) \o last
  BY <1>5, <1>3, FlattenOneMore
<1>9. Grouped(t) = Grouped(s) \o last
  BY <1>6, <1>7, <1>8
<1> QED
  BY <1>7, <1>8, <1>9 DEF Piece, t, last

\* The number is in what is shown of it, and its first two characters are the
\* first two there.
LEMMA GroupedKeepsAll ==
    ASSUME NEW s \in Seq(Key)
    PROVE  /\ Grouped(s) \in Seq(Char)
           /\ KeptIn(Grouped(s)) = s
           /\ Len(Grouped(s)) = Spread(Len(s))
           /\ \A i \in 1..Len(s) : i <= 2 => Grouped(s)[i] = s[i]
<1> DEFINE T == {u \in Seq(Key) :
                    /\ Grouped(u) \in Seq(Char)
                    /\ KeptIn(Grouped(u)) = u
                    /\ Len(Grouped(u)) = Spread(Len(u))
                    /\ \A i \in 1..Len(u) : i <= 2 => Grouped(u)[i] = u[i]}
<1>1. << >> \in T
  <2>1. Len(<< >>) = 0 /\ Spread(0) = 0 /\ << >> \in Seq(Key) /\ << >> \in Seq(Char)
    BY EmptySeq DEF Spread
  <2> QED
    BY <2>1, KeptNothing, GroupedNothing
<1>2. ASSUME NEW u \in T, NEW c \in Key PROVE Append(u, c) \in T
  <2>1. /\ u \in Seq(Key) /\ u \in Seq(Char) /\ c \in Char /\ Kept(c)
        /\ Grouped(u) \in Seq(Char) /\ KeptIn(Grouped(u)) = u
        /\ Len(Grouped(u)) = Spread(Len(u))
        /\ \A i \in 1..Len(u) : i <= 2 => Grouped(u)[i] = u[i]
    BY Characters, SeqMonotonic
  <2> DEFINE n == Len(u)
             b == Before(n + 1)
             v == Append(u, c)
             G == Grouped(v)
  <2>2. /\ n \in Nat /\ v \in Seq(Key) /\ Len(v) = n + 1 /\ v = u \o <<c>>
        /\ \A i \in 1..n : v[i] = u[i]
        /\ v[n + 1] = c
    BY <2>1, AppendProperties, AppendIsConcat, LenProperties
  <2>3. /\ b \in Seq(Char) /\ KeptIn(b) = << >>
        /\ Len(b) = IF n + 1 = 3 \/ n + 1 = 6 THEN 2
                    ELSE IF n + 1 = 9 \/ n + 1 = 11 THEN 1 ELSE 0
    <3>1. n + 1 \in Nat
      BY <2>2
    <3> QED
      BY <3>1, NothingKeptBefore
  <2>4. G = Grouped(u) \o (b \o <<c>>)
    BY <2>1, GroupedOneMore
  <2> HIDE DEF n, b, v, G
  <2>5. <<c>> \in Seq(Char) /\ Len(<<c>>) = 1 /\ <<c>>[1] = c
    BY <2>1
  <2>6. /\ b \o <<c>> \in Seq(Char) /\ Len(b \o <<c>>) = Len(b) + 1
        /\ (b \o <<c>>)[Len(b) + 1] = c
    <3>1. \A i \in 1..(Len(b) + 1) : (b \o <<c>>)[i] = IF i <= Len(b) THEN b[i] ELSE <<c>>[i - Len(b)]
      BY <2>3, <2>5, ConcatProperties
    <3>2. Len(b) \in Nat
      BY <2>3
    <3>3. Len(b) + 1 \in 1..(Len(b) + 1) /\ ~ (Len(b) + 1 <= Len(b)) /\ (Len(b) + 1) - Len(b) = 1
      BY <3>2
    <3> QED
      BY <2>3, <2>5, <3>1, <3>3, ConcatProperties
  <2>7. KeptIn(b \o <<c>>) = <<c>>
    <3>1. KeptIn(b \o <<c>>) = KeptIn(b) \o KeptIn(<<c>>)
      BY <2>3, <2>5, KeptOfBoth
    <3> QED
      BY <2>1, <2>3, <2>5, <3>1, KeptOfOne, ConcatEmptySeq
  <2>8. G \in Seq(Char) /\ KeptIn(G) = v
    <3>1. KeptIn(G) = KeptIn(Grouped(u)) \o KeptIn(b \o <<c>>)
      BY <2>1, <2>4, <2>6, KeptOfBoth
    <3> QED
      BY <2>1, <2>2, <2>4, <2>6, <2>7, <3>1, ConcatProperties
  <2>9. /\ Len(G) = Spread(n) + Len(b) + 1
        /\ \A i \in 1..Spread(n) : G[i] = Grouped(u)[i]
        /\ G[Spread(n) + Len(b) + 1] = c
        /\ Spread(n) \in Nat /\ Spread(n) >= n
    <3>1. Spread(n) \in Nat /\ Spread(n) >= n /\ Len(Grouped(u)) = Spread(n) /\ Len(b) \in Nat
      <4>1. n \in Nat /\ Len(Grouped(u)) = Spread(n) /\ Len(b) \in Nat
        BY <2>1, <2>2, <2>3 DEF n
      <4> QED
        BY <4>1 DEF Spread
    <3>2. /\ Len(G) = Spread(n) + (Len(b) + 1)
          /\ \A i \in 1..(Spread(n) + (Len(b) + 1)) :
                G[i] = IF i <= Spread(n) THEN Grouped(u)[i] ELSE (b \o <<c>>)[i - Spread(n)]
      <4>1. PICK g \in Seq(Char) : g = Grouped(u)
        BY <2>1
      <4>2. PICK h \in Seq(Char) : h = b \o <<c>>
        BY <2>6
      <4>3. /\ Len(g \o h) = Len(g) + Len(h)
            /\ \A i \in 1..(Len(g) + Len(h)) :
                  (g \o h)[i] = IF i <= Len(g) THEN g[i] ELSE h[i - Len(g)]
        BY ConcatProperties
      <4>4. Len(g) = Spread(n) /\ Len(h) = Len(b) + 1 /\ G = g \o h
        BY <2>4, <2>6, <3>1, <4>1, <4>2
      <4> QED
        BY <4>1, <4>2, <4>3, <4>4
    <3>3. \A i \in 1..Spread(n) : i \in 1..(Spread(n) + (Len(b) + 1)) /\ i <= Spread(n)
      BY <3>1
    <3>4. /\ Spread(n) + Len(b) + 1 \in 1..(Spread(n) + (Len(b) + 1))
          /\ ~ (Spread(n) + Len(b) + 1 <= Spread(n))
          /\ (Spread(n) + Len(b) + 1) - Spread(n) = Len(b) + 1
          /\ Spread(n) + (Len(b) + 1) = Spread(n) + Len(b) + 1
      BY <3>1
    <3> QED
      BY <2>6, <3>1, <3>2, <3>3, <3>4
  <2>10. Len(G) = Spread(Len(v))
    <3>1. Len(G) = Spread(n) + Len(b) + 1 /\ n \in Nat /\ Len(v) = n + 1
      BY <2>2, <2>9
    <3> QED
      BY <2>3, <3>1 DEF Spread
  <2>11. ASSUME NEW i \in 1..Len(v), i <= 2 PROVE G[i] = v[i]
    <3>1. CASE i \in 1..n
      <4>1. i \in 1..Spread(n) /\ i \in 1..Len(u)
        BY <2>2, <2>9, <3>1 DEF n
      <4> QED
        BY <2>1, <2>2, <2>9, <2>11, <3>1, <4>1
    <3>2. CASE i = n + 1
      <4>1. Spread(n) = n /\ Len(b) = 0 /\ Spread(n) + Len(b) + 1 = n + 1
        BY <2>2, <2>3, <2>11, <3>2 DEF Spread
      <4> QED
        BY <2>2, <2>9, <3>2, <4>1
    <3> QED
      BY <2>2, <3>1, <3>2
  <2> QED
    BY <2>2, <2>8, <2>10, <2>11 DEF v, G
<1>3. T \in SUBSET Seq(Key)
  OBVIOUS
<1> HIDE DEF T
<1>4. T = Seq(Key)
  BY <1>1, <1>2, <1>3, InductionOnSequences
<1> QED
  BY <1>4 DEF T

-----------------------------------------------------------------------------
(* A sequence taken apart *)

LEMMA ApartBefore ==
    ASSUME NEW S, NEW t \in Seq(S), NEW p \in 1..(Len(t) + 1)
    PROVE  /\ SubSeq(t, 1, p - 1) \in Seq(S) /\ SubSeq(t, p, Len(t)) \in Seq(S)
           /\ t = SubSeq(t, 1, p - 1) \o SubSeq(t, p, Len(t))
           /\ Len(SubSeq(t, 1, p - 1)) = p - 1
           /\ p > 1 => t # << >> /\ SubSeq(t, 1, p - 1)[1] = t[1]
           /\ p = 1 => SubSeq(t, 1, p - 1) = << >> /\ SubSeq(t, p, Len(t)) = t
<1>1. Len(t) \in Nat /\ p \in Nat /\ 1 <= p /\ p <= Len(t) + 1
  BY LenProperties
<1>2. /\ 1 \in Int /\ p - 1 \in Int /\ p \in Int /\ Len(t) \in Int
      /\ \A i \in 1..(p - 1) : t[i] \in S
      /\ \A i \in p..Len(t) : t[i] \in S
  BY <1>1, ElementOfSeq
<1>3. /\ SubSeq(t, 1, p - 1) \in Seq(S)
      /\ Len(SubSeq(t, 1, p - 1)) = IF 1 <= p - 1 THEN (p - 1) - 1 + 1 ELSE 0
      /\ \A i \in 1..((p - 1) - 1 + 1) : SubSeq(t, 1, p - 1)[i] = t[1 + i - 1]
  BY <1>2, SubSeqProperties
<1>4. SubSeq(t, p, Len(t)) \in Seq(S)
  BY <1>2, SubSeqProperties
<1>5. SubSeq(t, 1, p - 1) \o SubSeq(t, p, Len(t)) = t
  <2>1. 1 \in 1..(Len(t) + 1) /\ p - 1 \in (1 - 1)..Len(t) /\ Len(t) \in (p - 1)..Len(t)
    BY <1>1
  <2>2. SubSeq(t, 1, p - 1) \o SubSeq(t, (p - 1) + 1, Len(t)) = SubSeq(t, 1, Len(t))
    BY <2>1, ConcatAdjacentSubSeq
  <2>3. (p - 1) + 1 = p
    BY <1>1
  <2> QED
    BY <2>2, <2>3, SubSeqFull
<1>6. Len(SubSeq(t, 1, p - 1)) = p - 1
  BY <1>1, <1>3
<1>7. ASSUME p > 1 PROVE t # << >> /\ SubSeq(t, 1, p - 1)[1] = t[1]
  <2>1. 1 \in 1..((p - 1) - 1 + 1) /\ 1 + 1 - 1 = 1 /\ Len(t) # 0
    BY <1>1, <1>7
  <2> QED
    BY <1>3, <2>1
<1>8. ASSUME p = 1 PROVE SubSeq(t, 1, p - 1) = << >> /\ SubSeq(t, p, Len(t)) = t
  BY <1>3, <1>6, <1>8, SubSeqFull
<1> QED
  BY <1>3, <1>4, <1>5, <1>6, <1>7, <1>8

LEMMA ApartAt ==
    ASSUME NEW S, NEW t \in Seq(S), NEW p \in 1..Len(t)
    PROVE  /\ SubSeq(t, 1, p - 1) \in Seq(S) /\ t[p] \in S
           /\ SubSeq(t, p + 1, Len(t)) \in Seq(S)
           /\ SubSeq(t, 1, p) \in Seq(S)
           /\ SubSeq(t, 1, p) = SubSeq(t, 1, p - 1) \o <<t[p]>>
           /\ t = SubSeq(t, 1, p) \o SubSeq(t, p + 1, Len(t))
           /\ p > 1 => SubSeq(t, 1, p - 1) # << >> /\ SubSeq(t, 1, p - 1)[1] = t[1]
           /\ p = 1 => SubSeq(t, 1, p - 1) = << >>
<1>1. Len(t) \in Nat /\ p \in Nat /\ 1 <= p /\ p <= Len(t)
  BY LenProperties
<1>2. /\ p \in 1..(Len(t) + 1) /\ p + 1 \in 1..(Len(t) + 1) /\ (p + 1) - 1 = p
      /\ 1 \in 1..Len(t) /\ p \in 1..Len(t)
  BY <1>1
<1>3. /\ SubSeq(t, 1, p - 1) \in Seq(S) /\ Len(SubSeq(t, 1, p - 1)) = p - 1
      /\ p > 1 => SubSeq(t, 1, p - 1)[1] = t[1]
      /\ p = 1 => SubSeq(t, 1, p - 1) = << >>
  BY <1>2, ApartBefore
<1>4. /\ SubSeq(t, 1, p) \in Seq(S) /\ SubSeq(t, p + 1, Len(t)) \in Seq(S)
      /\ t = SubSeq(t, 1, p) \o SubSeq(t, p + 1, Len(t))
  <2>1. /\ SubSeq(t, 1, (p + 1) - 1) \in Seq(S) /\ SubSeq(t, p + 1, Len(t)) \in Seq(S)
        /\ t = SubSeq(t, 1, (p + 1) - 1) \o SubSeq(t, p + 1, Len(t))
    BY <1>2, ApartBefore
  <2> QED
    BY <1>2, <2>1
<1>5. SubSeq(t, 1, p) = SubSeq(t, 1, p - 1) \o <<t[p]>>
  <2>1. p \in 1..Len(t)
    OBVIOUS
  <2> QED
    BY <1>2, <2>1, SubSeqRecursiveSecond
<1>6. t[p] \in S
  BY ElementOfSeq
<1>7. p > 1 => SubSeq(t, 1, p - 1) # << >>
  BY <1>1, <1>3, EmptySeq
<1> QED
  BY <1>3, <1>4, <1>5, <1>6, <1>7

\* Two parts are found again where they were put together.
LEMMA PartsOfBoth ==
    ASSUME NEW S, NEW a \in Seq(S), NEW b \in Seq(S)
    PROVE  /\ SubSeq(a \o b, 1, Len(a)) = a
           /\ SubSeq(a \o b, Len(a) + 1, Len(a \o b)) = b
           /\ Len(a) \in Nat /\ Len(b) \in Nat /\ Len(a \o b) = Len(a) + Len(b)
<1> DEFINE s == a \o b
<1>1. /\ s \in Seq(S) /\ Len(s) = Len(a) + Len(b) /\ Len(a) \in Nat /\ Len(b) \in Nat
      /\ \A i \in 1..(Len(a) + Len(b)) : s[i] = IF i <= Len(a) THEN a[i] ELSE b[i - Len(a)]
  BY ConcatProperties, LenProperties
<1> HIDE DEF s
<1>2. SubSeq(s, 1, Len(a)) = a
  <2>1. 1 \in Int /\ Len(a) \in Int /\ \A i \in 1..Len(a) : s[i] = a[i] /\ s[i] \in S
    BY <1>1, ElementOfSeq
  <2>2. /\ SubSeq(s, 1, Len(a)) \in Seq(S)
        /\ Len(SubSeq(s, 1, Len(a))) = IF 1 <= Len(a) THEN Len(a) - 1 + 1 ELSE 0
        /\ \A i \in 1..(Len(a) - 1 + 1) : SubSeq(s, 1, Len(a))[i] = s[1 + i - 1]
    BY <2>1, SubSeqProperties
  <2>3. Len(SubSeq(s, 1, Len(a))) = Len(a) /\ Len(a) - 1 + 1 = Len(a)
    BY <1>1, <2>2
  <2>4. \A i \in 1..Len(a) : SubSeq(s, 1, Len(a))[i] = a[i]
    <3>1. \A i \in 1..Len(a) : i \in 1..(Len(a) - 1 + 1) /\ 1 + i - 1 = i
      BY <1>1
    <3> QED
      BY <2>1, <2>2, <3>1
  <2> QED
    BY <2>2, <2>3, <2>4, SeqEqual
<1>3. SubSeq(s, Len(a) + 1, Len(s)) = b
  <2>1. Len(a) + 1 \in Int /\ Len(s) \in Int /\ \A i \in (Len(a) + 1)..Len(s) : s[i] \in S
    BY <1>1, ElementOfSeq
  <2>2. /\ SubSeq(s, Len(a) + 1, Len(s)) \in Seq(S)
        /\ Len(SubSeq(s, Len(a) + 1, Len(s))) =
              IF Len(a) + 1 <= Len(s) THEN Len(s) - (Len(a) + 1) + 1 ELSE 0
        /\ \A i \in 1..(Len(s) - (Len(a) + 1) + 1) :
              SubSeq(s, Len(a) + 1, Len(s))[i] = s[(Len(a) + 1) + i - 1]
    BY <2>1, SubSeqProperties
  <2>3. Len(SubSeq(s, Len(a) + 1, Len(s))) = Len(b) /\ Len(s) - (Len(a) + 1) + 1 = Len(b)
    BY <1>1, <2>2
  <2>4. \A i \in 1..Len(b) : SubSeq(s, Len(a) + 1, Len(s))[i] = b[i]
    <3>1. \A i \in 1..Len(b) : /\ (Len(a) + 1) + i - 1 = Len(a) + i
                               /\ Len(a) + i \in 1..(Len(a) + Len(b))
                               /\ ~ (Len(a) + i <= Len(a)) /\ (Len(a) + i) - Len(a) = i
      BY <1>1
    <3> QED
      BY <1>1, <2>2, <2>3, <3>1
  <2> QED
    BY <2>2, <2>3, <2>4, SeqEqual
<1> QED
  BY <1>1, <1>2, <1>3 DEF s

\* A character put between two parts.
LEMMA InsertBetween ==
    ASSUME NEW S, NEW a \in Seq(S), NEW b \in Seq(S), NEW c
    PROVE  InsertAt(a \o b, Len(a) + 1, c) = a \o <<c>> \o b
<1>1. /\ SubSeq(a \o b, 1, Len(a)) = a
      /\ SubSeq(a \o b, Len(a) + 1, Len(a \o b)) = b
      /\ (Len(a) + 1) - 1 = Len(a)
  BY PartsOfBoth
<1> QED
  BY <1>1 DEF InsertAt

\* A character taken out from between two parts.
LEMMA RemoveBetween ==
    ASSUME NEW S, NEW a \in Seq(S), NEW b \in Seq(S), NEW c \in S
    PROVE  RemoveAt((a \o <<c>>) \o b, Len(a) + 1) = a \o b
<1> DEFINE m == a \o <<c>>
           s == m \o b
<1>1. <<c>> \in Seq(S) /\ Len(<<c>>) = 1
  OBVIOUS
<1>2. m \in Seq(S) /\ Len(m) = Len(a) + 1 /\ Len(a) \in Nat
  BY <1>1, ConcatProperties, LenProperties
<1>3. m \o b = a \o (<<c>> \o b) /\ <<c>> \o b \in Seq(S)
  BY <1>1, ConcatAssociative, ConcatProperties
<1> HIDE DEF m
<1>4. SubSeq(s, 1, Len(a)) = a
  BY <1>3, PartsOfBoth
<1>5. SubSeq(s, Len(m) + 1, Len(s)) = b
  BY <1>2, PartsOfBoth
<1> HIDE DEF s
<1>6. RemoveAt(s, Len(a) + 1) = SubSeq(s, 1, (Len(a) + 1) - 1) \o SubSeq(s, (Len(a) + 1) + 1, Len(s))
  BY DEF RemoveAt
<1>7. (Len(a) + 1) - 1 = Len(a) /\ (Len(a) + 1) + 1 = Len(m) + 1
  BY <1>2
<1> QED
  BY <1>4, <1>5, <1>6, <1>7 DEF s, m

-----------------------------------------------------------------------------
(* The number that is read from a text *)

LEMMA FirstOfOneMore ==
    ASSUME NEW S, NEW c \in S, NEW r \in Seq(S)
    PROVE  /\ <<c>> \in Seq(S) /\ <<c>> \o r \in Seq(S)
           /\ <<c>> \o r # << >>
           /\ (<<c>> \o r)[1] = c /\ Head(<<c>> \o r) = c
<1>1. <<c>> \in Seq(S) /\ Len(<<c>>) = 1 /\ <<c>>[1] = c
  OBVIOUS
<1>2. /\ <<c>> \o r \in Seq(S) /\ Len(<<c>> \o r) = Len(<<c>>) + Len(r)
      /\ \A i \in 1..(Len(<<c>>) + Len(r)) :
            (<<c>> \o r)[i] = IF i <= Len(<<c>>) THEN <<c>>[i] ELSE r[i - Len(<<c>>)]
  BY <1>1, ConcatProperties
<1>3. Len(r) \in Nat /\ 1 \in 1..(1 + Len(r))
  BY LenProperties
<1>4. (<<c>> \o r)[1] = c /\ Len(<<c>> \o r) # 0
  BY <1>1, <1>2, <1>3
<1> QED
  BY <1>1, <1>2, <1>4, EmptySeq DEF Head

\* A number begins with a plus: the first character is one, or gets one.
LEMMA StripOfOneMore ==
    ASSUME NEW c \in Char, NEW r \in Seq(Char)
    PROVE  Strip(<<c>> \o r) = WithPlus(c) \o KeptIn(r)
<1>1. <<c>> \in Seq(Char) /\ Head(<<c>> \o r) = c
  BY FirstOfOneMore
<1>2. /\ KeptIn(<<c>> \o r) = KeptIn(<<c>>) \o KeptIn(r)
      /\ KeptIn(<<c>>) \in Seq(Key) /\ KeptIn(r) \in Seq(Key)
  BY <1>1, KeptOfBoth, KeptAreKeys
<1>3. <<"+">> \in Seq(Key)
  BY Characters
<1>4. CASE c = "+"
  <2>1. KeptIn(<<c>>) = <<"+">>
    BY <1>4, KeptOfOne, Characters
  <2>2. Strip(<<c>> \o r) = << >> \o (<<"+">> \o KeptIn(r))
    BY <1>1, <1>2, <1>4, <2>1 DEF Strip
  <2>3. <<"+">> \o KeptIn(r) \in Seq(Key)
    BY <1>2, <1>3, ConcatProperties
  <2> QED
    BY <1>4, <2>2, <2>3, ConcatEmptySeq DEF WithPlus
<1>5. CASE c # "+"
  <2>1. Strip(<<c>> \o r) = <<"+">> \o (KeptIn(<<c>>) \o KeptIn(r))
    BY <1>1, <1>2, <1>5 DEF Strip
  <2>2. <<"+">> \o (KeptIn(<<c>>) \o KeptIn(r)) = (<<"+">> \o KeptIn(<<c>>)) \o KeptIn(r)
    BY <1>2, <1>3, Associative
  <2> QED
    BY <1>5, <2>1, <2>2 DEF WithPlus
<1> QED
  BY <1>4, <1>5

LEMMA OneThenOthers ==
    ASSUME NEW S, NEW s \in Seq(S), s # << >>
    PROVE  \E r \in Seq(S) : s[1] \in S /\ s = <<s[1]>> \o r /\ Head(s) = s[1]
<1>1. Len(s) \in Nat /\ Len(s) >= 1
  BY EmptySeq
<1>2. 1 \in 1..Len(s) /\ Len(s) \in 1..Len(s)
  BY <1>1
<1>3. SubSeq(s, 1, Len(s)) = <<s[1]>> \o SubSeq(s, 1 + 1, Len(s))
  BY <1>2, SubSeqRecursiveFirst
<1>4. SubSeq(s, 1 + 1, Len(s)) \in Seq(S) /\ s[1] \in S
  BY <1>2, ApartAt
<1>5. SubSeq(s, 1, Len(s)) = s
  BY SubSeqFull
<1>6. s[1] \in S /\ s = <<s[1]>> \o SubSeq(s, 1 + 1, Len(s)) /\ Head(s) = s[1]
  BY <1>3, <1>4, <1>5 DEF Head
<1> WITNESS SubSeq(s, 1 + 1, Len(s)) \in Seq(S)
<1> QED
  BY <1>6

LEMMA StripBegins ==
    ASSUME NEW e \in Seq(Char), e # << >>
    PROVE  /\ Strip(e) \in Seq(Key) /\ Strip(e) # << >> /\ Strip(e)[1] = "+"
           /\ e[1] = "+" => Strip(e) = KeptIn(e)
           /\ e[1] # "+" => Strip(e) = <<"+">> \o KeptIn(e)
<1>1. PICK r \in Seq(Char) : e[1] \in Char /\ e = <<e[1]>> \o r /\ Head(e) = e[1]
  BY OneThenOthers
<1>2. KeptIn(e) \in Seq(Key) /\ KeptIn(r) \in Seq(Key) /\ << >> \in Seq(Key)
  BY KeptAreKeys, EmptySeq
<1>3. e[1] = "+" => Strip(e) = KeptIn(e)
  BY <1>1, <1>2, ConcatEmptySeq DEF Strip
<1>4. e[1] # "+" => Strip(e) = <<"+">> \o KeptIn(e)
  BY <1>1 DEF Strip
<1>5. CASE e[1] = "+"
  <2>1. Strip(e) = <<"+">> \o KeptIn(r)
    BY <1>1, <1>5, StripOfOneMore DEF WithPlus
  <2> QED
    BY <1>2, <1>3, <1>5, <2>1, Characters, FirstOfOneMore
<1>6. CASE e[1] # "+"
  <2>1. "+" \in Key
    BY Characters
  <2>2. /\ <<"+">> \o KeptIn(e) \in Seq(Key) /\ <<"+">> \o KeptIn(e) # << >>
        /\ (<<"+">> \o KeptIn(e))[1] = "+"
    BY <1>2, <2>1, FirstOfOneMore
  <2> QED
    BY <1>3, <1>4, <1>6, <2>2
<1> QED
  BY <1>3, <1>4, <1>5, <1>6

\* What is shown of a number is read as that number.
LEMMA ShownIsRead ==
    ASSUME NEW n \in Seq(Key), n # << >>, n[1] = "+"
    PROVE  /\ Grouped(n) \in Seq(Char) /\ Grouped(n) # << >> /\ Grouped(n)[1] = "+"
           /\ Strip(Grouped(n)) = n /\ Strip(n) = n
<1>1. /\ Grouped(n) \in Seq(Char) /\ KeptIn(Grouped(n)) = n
      /\ Len(Grouped(n)) = Spread(Len(n))
      /\ \A i \in 1..Len(n) : i <= 2 => Grouped(n)[i] = n[i]
  BY GroupedKeepsAll
<1>2. Len(n) \in Nat /\ Len(n) >= 1 /\ 1 \in 1..Len(n)
  BY EmptySeq
<1>3. Grouped(n)[1] = "+" /\ Len(Grouped(n)) # 0
  <2>1. 1 <= 2
    OBVIOUS
  <2>2. Grouped(n)[1] = n[1]
    BY <1>1, <1>2, <2>1
  <2>3. PICK m \in Nat : m = Len(n) /\ m >= 1
    BY <1>2
  <2>4. Spread(m) # 0
    BY <2>3, SpreadGrows
  <2> QED
    BY <1>1, <2>2, <2>3, <2>4
<1>4. Grouped(n) # << >>
  BY <1>3, EmptySeq
<1>5. n \in Seq(Char) /\ KeptIn(n) = n
  BY KeysAreKept, Characters, SeqMonotonic
<1> QED
  BY <1>1, <1>3, <1>4, <1>5, StripBegins

-----------------------------------------------------------------------------
(* The field *)

\* After an edit the field shows the number that the hand has made of it; there
\* is no other memory of the number than that text.
Showing ==
    /\ number \in Seq(Key) /\ Len(number) <= MaxKept
    /\ \/ number = << >> /\ text = << >>
       \/ number # << >> /\ number[1] = "+" /\ text = Grouped(number)

LEMMA ShowingInit == Init => Showing
<1> SUFFICES ASSUME Init PROVE Showing
  OBVIOUS
<1>1. number = << >> /\ text = << >> /\ number \in Seq(Key) /\ Len(number) = 0
  BY EmptySeq DEF Init
<1> QED
  <2>1. MaxKept \in Nat
    BY FieldAssumption, Zenon
  <2>2. 0 <= MaxKept
    BY <2>1
  <2> QED
    BY <1>1, <2>2 DEF Showing

LEMMA WhatIsShown ==
    ASSUME Showing
    PROVE  /\ number \in Seq(Key) /\ text \in Seq(Char)
           /\ KeptIn(text) = number
           /\ text = << >> <=> number = << >>
           /\ text # << >> => text[1] = "+" /\ number[1] = "+" /\ text = Grouped(number)
<1>1. CASE number = << >> /\ text = << >>
  BY <1>1, KeptNothing, EmptySeq
<1>2. CASE number # << >> /\ number[1] = "+" /\ text = Grouped(number)
  <2>1. number \in Seq(Key)
    BY DEF Showing
  <2>2. /\ Grouped(number) \in Seq(Char) /\ Grouped(number) # << >>
        /\ Grouped(number)[1] = "+"
    BY <1>2, <2>1, ShownIsRead
  <2>3. KeptIn(Grouped(number)) = number
    BY <2>1, GroupedKeepsAll
  <2> QED
    BY <1>2, <2>1, <2>2, <2>3
<1> QED
  BY <1>1, <1>2 DEF Showing

\* A text that is not empty, and the number it stands for, make a field.
LEMMA ShowingAfter ==
    ASSUME NEW e \in Seq(Char), e # << >>,
           text' = EditingChanged(e), number' = Strip(e), Len(number') <= MaxKept
    PROVE  Showing'
<1>1. Strip(e) \in Seq(Key) /\ Strip(e) # << >> /\ Strip(e)[1] = "+"
  BY StripBegins
<1>2. text' = Grouped(Strip(e))
  BY DEF EditingChanged, WorkWithPhone
<1> QED
  BY <1>1, <1>2 DEF Showing

LEMMA ShowingTypeChar ==
    ASSUME Showing, NEW p \in 1..(Len(text) + 1), NEW c \in Digit \cup {"+", Dash, Space},
           TypeChar(p, c)
    PROVE  Showing'
<1> DEFINE a == SubSeq(text, 1, p - 1)
           b == SubSeq(text, p, Len(text))
           e == InsertAt(text, p, c)
<1>1. /\ number \in Seq(Key) /\ text \in Seq(Char) /\ KeptIn(text) = number
      /\ text # << >> => text[1] = "+"
  BY WhatIsShown
<1>2. /\ a \in Seq(Char) /\ b \in Seq(Char) /\ text = a \o b
      /\ p > 1 => text # << >> /\ a[1] = text[1] /\ Len(a) = p - 1
      /\ p = 1 => a = << >> /\ b = text
  <2>1. PICK t \in Seq(Char) : t = text
    BY <1>1
  <2>2. PICK q \in 1..(Len(t) + 1) : q = p
    BY <2>1
  <2>3. /\ SubSeq(t, 1, q - 1) \in Seq(Char) /\ SubSeq(t, q, Len(t)) \in Seq(Char)
        /\ t = SubSeq(t, 1, q - 1) \o SubSeq(t, q, Len(t))
        /\ Len(SubSeq(t, 1, q - 1)) = q - 1
        /\ q > 1 => t # << >> /\ SubSeq(t, 1, q - 1)[1] = t[1]
        /\ q = 1 => SubSeq(t, 1, q - 1) = << >> /\ SubSeq(t, q, Len(t)) = t
    BY ApartBefore
  <2> QED
    BY <2>1, <2>2, <2>3
<1>3. c \in Char /\ <<c>> \in Seq(Char)
  BY DEF Char, Separator
<1>4. /\ text' = EditingChanged(e) /\ Len(number') <= MaxKept
      /\ number' = IF p = 1 THEN WithPlus(c) \o number
                   ELSE IF Kept(c) THEN InsertAt(number, KeptUpTo(p - 1) + 1, c)
                   ELSE number
  BY DEF TypeChar
<1>5. e = (a \o <<c>>) \o b
  BY DEF InsertAt
<1>6. KeptUpTo(p - 1) = Len(KeptIn(a))
  BY DEF KeptUpTo
<1>7. p \in Nat /\ p >= 1
  BY <1>1, LenProperties
<1> HIDE DEF a, b, e
<1>8. CASE p = 1
  <2>1. a \o <<c>> = <<c>> /\ b = text
    BY <1>2, <1>3, <1>8, ConcatEmptySeq
  <2>2. e = <<c>> \o text
    BY <1>5, <2>1
  <2>3. e \in Seq(Char) /\ e # << >>
    BY <1>1, <1>3, <2>2, FirstOfOneMore
  <2>4. Strip(e) = WithPlus(c) \o KeptIn(text)
    BY <1>1, <1>3, <2>2, StripOfOneMore
  <2>5. Strip(e) = number'
    BY <1>1, <1>4, <1>8, <2>4
  <2> QED
    BY <1>4, <2>3, <2>5, ShowingAfter
<1>9. CASE p # 1
  <2>1. p > 1 /\ a[1] = "+" /\ a # << >>
    <3>1. p > 1
      BY <1>7, <1>9
    <3>2. Len(a) # 0
      BY <1>2, <1>7, <3>1
    <3> QED
      BY <1>1, <1>2, <3>1, <3>2, EmptySeq
  <2>2. PICK r \in Seq(Char) : a = <<"+">> \o r
    <3>1. a \in Seq(Char) /\ a # << >>
      BY <1>2, <2>1
    <3>2. \E r \in Seq(Char) : a[1] \in Char /\ a = <<a[1]>> \o r /\ Head(a) = a[1]
      BY <3>1, OneThenOthers
    <3> QED
      BY <2>1, <3>2
  <2>3. e \in Seq(Char) /\ e # << >> /\ e[1] = "+"
    <3>1. "+" \in Char /\ r \o <<c>> \in Seq(Char)
      BY <1>3, Characters, ConcatProperties
    <3>2. (r \o <<c>>) \o b \in Seq(Char)
      BY <1>2, <3>1, ConcatProperties
    <3>3. e = <<"+">> \o ((r \o <<c>>) \o b)
      <4>1. <<"+">> \in Seq(Char)
        BY <3>1
      <4>2. (<<"+">> \o r) \o <<c>> = <<"+">> \o (r \o <<c>>)
        BY <1>3, <4>1, Associative
      <4>3. (<<"+">> \o (r \o <<c>>)) \o b = <<"+">> \o ((r \o <<c>>) \o b)
        <5>1. PICK x \in Seq(Char), y \in Seq(Char), z \in Seq(Char) :
                  x = <<"+">> /\ y = r \o <<c>> /\ z = b
          BY <1>2, <3>1, <4>1
        <5>2. (x \o y) \o z = x \o (y \o z)
          BY Associative, SMTT(60)
        <5> QED
          BY <5>1, <5>2
      <4> QED
        BY <1>5, <2>2, <4>2, <4>3
    <3> QED
      BY <3>1, <3>2, <3>3, FirstOfOneMore
  <2>4. Strip(e) = KeptIn(e)
    BY <2>3, StripBegins
  <2>5. /\ KeptIn(e) = (KeptIn(a) \o KeptIn(<<c>>)) \o KeptIn(b)
        /\ KeptIn(a) \in Seq(Key) /\ KeptIn(b) \in Seq(Key)
    <3>1. a \o <<c>> \in Seq(Char)
      BY <1>2, <1>3, ConcatProperties
    <3>2. KeptIn(a \o <<c>>) = KeptIn(a) \o KeptIn(<<c>>)
      BY <1>2, <1>3, KeptOfBoth
    <3>3. KeptIn((a \o <<c>>) \o b) = KeptIn(a \o <<c>>) \o KeptIn(b)
      BY <1>2, <3>1, KeptOfBoth
    <3> QED
      BY <1>2, <1>5, <3>2, <3>3, KeptAreKeys
  <2>6. number = KeptIn(a) \o KeptIn(b)
    BY <1>1, <1>2, KeptOfBoth
  <2>7. Strip(e) = number'
    <3>1. CASE Kept(c)
      <4>1. number' = InsertAt(KeptIn(a) \o KeptIn(b), Len(KeptIn(a)) + 1, c)
        BY <1>4, <1>6, <1>9, <2>6, <3>1
      <4>2. number' = KeptIn(a) \o <<c>> \o KeptIn(b)
        BY <2>5, <4>1, InsertBetween
      <4> QED
        BY <2>4, <2>5, <3>1, <4>2, KeptOfOne
    <3>2. CASE ~ Kept(c)
      <4>1. KeptIn(a) \o << >> = KeptIn(a)
        BY <2>5, ConcatEmptySeq
      <4> QED
        BY <1>4, <1>9, <2>4, <2>5, <2>6, <3>2, <4>1, KeptOfOne
    <3> QED
      BY <3>1, <3>2
  <2> QED
    BY <1>4, <2>3, <2>7, ShowingAfter
<1> QED
  BY <1>8, <1>9

\* A text that is emptied had the plus only, and the plus comes back.
LEMMA ShowingRemoveLast ==
    ASSUME Showing, NEW p \in DOMAIN text, RemoveChar(p), RemoveAt(text, p) = << >>
    PROVE  Showing'
<1>1. /\ number \in Seq(Key) /\ text \in Seq(Char) /\ KeptIn(text) = number
      /\ text # << >> => text[1] = "+" /\ number[1] = "+" /\ text = Grouped(number)
  BY WhatIsShown
<1>2. PICK t \in Seq(Char) : t = text
  BY <1>1
<1>3. PICK q \in 1..Len(t) : q = p
  BY <1>2, LenProperties
<1>4. /\ SubSeq(t, 1, q - 1) \in Seq(Char) /\ t[q] \in Char
      /\ SubSeq(t, q + 1, Len(t)) \in Seq(Char)
      /\ SubSeq(t, 1, q) = SubSeq(t, 1, q - 1) \o <<t[q]>>
      /\ t = SubSeq(t, 1, q) \o SubSeq(t, q + 1, Len(t))
      /\ q > 1 => SubSeq(t, 1, q - 1) # << >>
      /\ q = 1 => SubSeq(t, 1, q - 1) = << >>
  BY ApartAt
<1>5. SubSeq(t, 1, q - 1) = << >> /\ SubSeq(t, q + 1, Len(t)) = << >>
  <2>1. SubSeq(t, 1, q - 1) \o SubSeq(t, q + 1, Len(t)) = << >>
    BY <1>2, <1>3 DEF RemoveAt
  <2> QED
    BY <1>4, <2>1, ConcatEqualIffEmpty
<1>6. q = 1 /\ t = <<t[1]>>
  <2>1. q \in Nat /\ q >= 1
    BY LenProperties
  <2>2. q = 1
    <3>1. q = 1 \/ q > 1
      BY <2>1
    <3> QED
      BY <1>4, <1>5, <3>1
  <2>3. <<t[q]>> \in Seq(Char)
    BY <1>4
  <2>4. t = (<< >> \o <<t[q]>>) \o << >>
    BY <1>4, <1>5
  <2> QED
    BY <2>2, <2>3, <2>4, ConcatEmptySeq
<1>7. text = <<"+">> /\ p = 1 /\ text[1] = "+"
  <2>1. t # << >>
    BY <1>6
  <2> QED
    BY <1>1, <1>2, <1>3, <1>6, <2>1
<1>8. number = <<"+">> /\ text = Grouped(number)
  <2>1. Kept("+") /\ "+" \in Key
    BY Characters
  <2>2. KeptIn(<<"+">>) = <<"+">>
    BY <2>1, KeptOfOne
  <2> QED
    BY <1>1, <1>7, <2>2
<1>9. text' = <<"+">> /\ number' = number
  <2>1. Kept(text[p]) /\ Len(number) = 1
    BY <1>7, <1>8, Characters
  <2> QED
    BY <1>7, <2>1 DEF RemoveChar, EditingChanged
<1> QED
  BY <1>7, <1>8, <1>9 DEF Showing

LEMMA ShowingRemoveChar ==
    ASSUME Showing, NEW p \in DOMAIN text, RemoveChar(p), RemoveAt(text, p) # << >>
    PROVE  Showing'
<1> DEFINE a == SubSeq(text, 1, p - 1)
           b == SubSeq(text, p + 1, Len(text))
           c == text[p]
           e == RemoveAt(text, p)
<1>1. /\ number \in Seq(Key) /\ text \in Seq(Char) /\ KeptIn(text) = number
      /\ text # << >> => text[1] = "+" /\ number[1] = "+" /\ text = Grouped(number)
      /\ text = << >> <=> number = << >>
  BY WhatIsShown
<1>2. /\ a \in Seq(Char) /\ b \in Seq(Char) /\ c \in Char
      /\ SubSeq(text, 1, p) = a \o <<c>>
      /\ text = (a \o <<c>>) \o b
      /\ p > 1 => a # << >> /\ a[1] = text[1]
      /\ p = 1 => a = << >>
      /\ p \in Nat /\ p >= 1 /\ text # << >>
  <2>1. PICK t \in Seq(Char) : t = text
    BY <1>1
  <2>2. PICK q \in 1..Len(t) : q = p
    BY <2>1, LenProperties
  <2>3. /\ SubSeq(t, 1, q - 1) \in Seq(Char) /\ t[q] \in Char
        /\ SubSeq(t, q + 1, Len(t)) \in Seq(Char)
        /\ SubSeq(t, 1, q) \in Seq(Char)
        /\ SubSeq(t, 1, q) = SubSeq(t, 1, q - 1) \o <<t[q]>>
        /\ t = SubSeq(t, 1, q) \o SubSeq(t, q + 1, Len(t))
        /\ q > 1 => SubSeq(t, 1, q - 1) # << >> /\ SubSeq(t, 1, q - 1)[1] = t[1]
        /\ q = 1 => SubSeq(t, 1, q - 1) = << >>
    BY ApartAt
  <2>4. q \in Nat /\ q >= 1 /\ Len(t) # 0
    BY LenProperties
  <2>5. t # << >>
    BY <2>4, EmptySeq
  <2> QED
    BY <2>1, <2>2, <2>3, <2>4, <2>5
<1>3. /\ text' = EditingChanged(e)
      /\ number' = IF ~ Kept(c) THEN number
                   ELSE IF p = 1 /\ (Len(number) = 1 \/ number[2] # "+") THEN number
                   ELSE RemoveAt(number, KeptUpTo(p))
  BY DEF RemoveChar
<1>4. e = a \o b /\ e \in Seq(Char) /\ e # << >>
  BY <1>2, ConcatProperties DEF RemoveAt
<1>5. KeptUpTo(p) = Len(KeptIn(a \o <<c>>))
  BY <1>2 DEF KeptUpTo
<1> HIDE DEF a, b, c, e
<1>6. /\ KeptIn(a) \in Seq(Key) /\ KeptIn(b) \in Seq(Key) /\ KeptIn(e) = KeptIn(a) \o KeptIn(b)
      /\ KeptIn(a \o <<c>>) = KeptIn(a) \o KeptIn(<<c>>)
      /\ number = (KeptIn(a) \o KeptIn(<<c>>)) \o KeptIn(b)
  <2>1. <<c>> \in Seq(Char) /\ a \o <<c>> \in Seq(Char)
    BY <1>2, ConcatProperties
  <2>2. KeptIn(a \o <<c>>) = KeptIn(a) \o KeptIn(<<c>>)
    BY <1>2, <2>1, KeptOfBoth
  <2>3. KeptIn((a \o <<c>>) \o b) = KeptIn(a \o <<c>>) \o KeptIn(b)
    BY <1>2, <2>1, KeptOfBoth
  <2>4. KeptIn(a \o b) = KeptIn(a) \o KeptIn(b)
    BY <1>2, KeptOfBoth
  <2> QED
    BY <1>1, <1>2, <1>4, <2>2, <2>3, <2>4, KeptAreKeys
\* What is left when a character of the number goes.
<1>7. ASSUME Kept(c)
      PROVE  /\ RemoveAt(number, KeptUpTo(p)) = KeptIn(a) \o KeptIn(b)
             /\ Len(KeptIn(a) \o KeptIn(b)) + 1 = Len(number)
             /\ Len(number) \in Nat
  <2>1. KeptIn(<<c>>) = <<c>> /\ c \in Key /\ <<c>> \in Seq(Key) /\ Len(<<c>>) = 1
    BY <1>2, <1>7, KeptOfOne, Characters
  <2>2. /\ Len(KeptIn(a)) \in Nat /\ Len(KeptIn(b)) \in Nat
        /\ Len(KeptIn(a) \o <<c>>) = Len(KeptIn(a)) + 1
        /\ KeptIn(a) \o <<c>> \in Seq(Key)
    BY <1>6, <2>1, ConcatProperties, LenProperties
  <2>3. /\ Len((KeptIn(a) \o <<c>>) \o KeptIn(b)) = Len(KeptIn(a)) + 1 + Len(KeptIn(b))
        /\ Len(KeptIn(a) \o KeptIn(b)) = Len(KeptIn(a)) + Len(KeptIn(b))
    BY <1>6, <2>2, ConcatProperties
  <2>4. KeptUpTo(p) = Len(KeptIn(a)) + 1
    BY <1>5, <1>6, <2>1, <2>2
  <2>5. RemoveAt((KeptIn(a) \o <<c>>) \o KeptIn(b), Len(KeptIn(a)) + 1) = KeptIn(a) \o KeptIn(b)
    BY <1>6, <2>1, RemoveBetween
  <2>6. number = (KeptIn(a) \o <<c>>) \o KeptIn(b)
    BY <1>6, <2>1
  <2>7. RemoveAt(number, KeptUpTo(p)) = KeptIn(a) \o KeptIn(b)
    BY <2>4, <2>5, <2>6
  <2>8. Len(number) = Len(KeptIn(a)) + 1 + Len(KeptIn(b))
    BY <2>3, <2>6
  <2>9. Len(KeptIn(a) \o KeptIn(b)) + 1 = Len(number) /\ Len(number) \in Nat
    BY <2>2, <2>3, <2>8
  <2> QED
    BY <2>7, <2>9
<1>8. Len(number) <= MaxKept /\ MaxKept \in Nat
  <2>1. MaxKept \in Nat
    BY FieldAssumption, Zenon
  <2> QED
    BY <2>1 DEF Showing
<1>9. CASE p > 1
  <2>1. e[1] = "+"
    <3>1. a # << >> /\ a[1] = "+"
      BY <1>1, <1>2, <1>9
    <3>2. PICK r \in Seq(Char) : a = <<"+">> \o r
      <4>1. \E r \in Seq(Char) : a[1] \in Char /\ a = <<a[1]>> \o r /\ Head(a) = a[1]
        BY <1>2, <3>1, OneThenOthers
      <4> QED
        BY <3>1, <4>1
    <3>3. "+" \in Char /\ <<"+">> \in Seq(Char)
      BY Characters
    <3>4. e = <<"+">> \o (r \o b) /\ r \o b \in Seq(Char)
      <4>1. PICK x \in Seq(Char), z \in Seq(Char) : x = <<"+">> /\ z = b
        BY <1>2, <3>3
      <4>2. (x \o r) \o z = x \o (r \o z) /\ r \o z \in Seq(Char)
        BY ConcatAssociative, ConcatProperties
      <4> QED
        BY <1>4, <3>2, <4>1, <4>2
    <3> QED
      BY <3>3, <3>4, FirstOfOneMore
  <2>2. Strip(e) = KeptIn(a) \o KeptIn(b)
    BY <1>4, <1>6, <2>1, StripBegins
  <2>3. CASE Kept(c)
    <3>1. number' = Strip(e) /\ Len(number') <= MaxKept
      BY <1>3, <1>7, <1>8, <1>9, <2>2, <2>3
    <3> QED
      BY <1>3, <1>4, <3>1, ShowingAfter
  <2>4. CASE ~ Kept(c)
    <3>1. KeptIn(<<c>>) = << >> /\ KeptIn(a) \o << >> = KeptIn(a)
      BY <1>6, <2>4, KeptOfOne, ConcatEmptySeq
    <3>2. number' = Strip(e) /\ Len(number') <= MaxKept
      BY <1>3, <1>6, <1>8, <2>2, <2>4, <3>1
    <3> QED
      BY <1>3, <1>4, <3>2, ShowingAfter
  <2> QED
    BY <2>3, <2>4
<1>10. CASE p = 1
  <2>1. a = << >> /\ e = b /\ c = "+" /\ Kept(c)
    <3>1. a = << >> /\ c = "+"
      BY <1>1, <1>2, <1>10 DEF c
    <3> QED
      BY <1>2, <1>4, <3>1, ConcatEmptySeq, Characters
  <2>2. number = <<"+">> \o KeptIn(b) /\ KeptIn(e) = KeptIn(b)
    <3>1. KeptIn(a) = << >> /\ KeptIn(<<c>>) = <<"+">>
      BY <2>1, KeptNothing, KeptOfOne
    <3>2. <<"+">> \in Seq(Key)
      BY Characters
    <3> QED
      BY <1>6, <2>1, <3>1, <3>2, ConcatEmptySeq
  \* The text goes on with the second character of the number.
  <2>3. Len(number) # 1 /\ e[1] = number[2]
    <3>1. PICK n \in Seq(Key) : n = number
      BY <1>1
    <3>2. /\ Grouped(n) = text /\ n # << >> /\ Len(n) \in Nat /\ Len(n) # 0
      BY <1>1, <1>2, <3>1, EmptySeq
    <3>3. /\ Len(Grouped(n)) = Spread(Len(n))
          /\ \A i \in 1..Len(n) : i <= 2 => Grouped(n)[i] = n[i]
      BY GroupedKeepsAll
    <3>4. text = <<c>> \o e /\ <<c>> \in Seq(Char) /\ Len(<<c>>) = 1
      BY <1>2, <2>1, ConcatEmptySeq
    <3>5. /\ Len(text) = 1 + Len(e)
          /\ \A i \in 1..(1 + Len(e)) : text[i] = IF i <= 1 THEN <<c>>[i] ELSE e[i - 1]
          /\ Len(e) \in Nat /\ Len(e) # 0
      BY <1>4, <3>4, ConcatProperties, EmptySeq
    <3>6. Len(n) # 1
      <4>1. Spread(1) = 1
        BY DEF Spread
      <4>2. Len(Grouped(n)) # 1
        BY <3>2, <3>5
      <4> QED
        BY <3>3, <4>1, <4>2
    <3>7. 2 \in 1..Len(n) /\ 2 <= 2 /\ 2 \in 1..(1 + Len(e)) /\ ~ (2 <= 1) /\ 2 - 1 = 1
      BY <3>2, <3>5, <3>6
    <3>8. text[2] = n[2] /\ text[2] = e[1]
      BY <3>2, <3>3, <3>5, <3>7
    <3> QED
      BY <3>1, <3>6, <3>8
  <2>4. CASE number[2] = "+"
    <3>1. Strip(e) = KeptIn(b)
      BY <1>4, <2>2, <2>3, <2>4, StripBegins
    <3>2. number' = RemoveAt(number, KeptUpTo(p))
      BY <1>3, <2>1, <2>3, <2>4
    <3>3. KeptIn(a) \o KeptIn(b) = KeptIn(b)
      BY <1>6, <2>1, KeptNothing, ConcatEmptySeq
    <3>4. number' = Strip(e) /\ Len(number') <= MaxKept
      BY <1>7, <1>8, <2>1, <3>1, <3>2, <3>3
    <3> QED
      BY <1>3, <1>4, <3>4, ShowingAfter
  <2>5. CASE number[2] # "+"
    <3>1. Strip(e) = <<"+">> \o KeptIn(b)
      BY <1>4, <2>2, <2>3, <2>5, StripBegins
    <3>2. number' = Strip(e) /\ Len(number') <= MaxKept
      BY <1>3, <1>8, <1>10, <2>1, <2>2, <2>5, <3>1
    <3> QED
      BY <1>3, <1>4, <3>2, ShowingAfter
  <2> QED
    BY <2>4, <2>5
<1> QED
  BY <1>2, <1>9, <1>10

\* The invariant that the properties follow from.
THEOREM FieldShowsNumber == Spec => []Showing
<1>1. Init => Showing
  BY ShowingInit
<1>2. Showing /\ [Next]_vars => Showing'
  <2> SUFFICES ASSUME Showing, [Next]_vars PROVE Showing'
    OBVIOUS
  <2>1. ASSUME NEW p \in 1..(Len(text) + 1), NEW c \in Digit \cup {"+", Dash, Space},
               TypeChar(p, c)
        PROVE  Showing'
    BY <2>1, ShowingTypeChar
  <2>2. ASSUME NEW p \in DOMAIN text, RemoveChar(p)
        PROVE  Showing'
    BY <2>2, ShowingRemoveLast, ShowingRemoveChar
  <2>3. CASE UNCHANGED vars
    BY <2>3 DEF Showing, vars
  <2> QED
    BY <2>1, <2>2, <2>3 DEF Next
<1> QED
  BY <1>1, <1>2, PTL DEF Spec

-----------------------------------------------------------------------------
(* The properties *)

\* The loop of workWithPhone over 1...st.count always has something to run over:
\* the field is empty until the first edit and begins with a plus from then on.
THEOREM FieldTypeCorrect == Spec => []TypeOK
<1>1. ASSUME Showing PROVE TypeOK
  <2>1. /\ number \in Seq(Key) /\ text \in Seq(Char) /\ (text = << >> <=> number = << >>)
        /\ text # << >> => text[1] = "+" /\ number[1] = "+"
    BY <1>1, WhatIsShown
  <2>2. Len(number) <= MaxKept
    BY <1>1 DEF Showing
  <2> QED
    BY <2>1, <2>2 DEF TypeOK, Key, Char
<1> QED
  BY <1>1, FieldShowsNumber, PTL

\* The number that is read from the field is the one the hand has made of it, edit
\* by edit, wherever in the text the edits are; what Firebase is sent is that
\* number, and the account screen shows it as the field did.
THEOREM FieldFollowsTheHand == Spec => []FieldFollowsHand
<1>1. ASSUME Showing PROVE FieldFollowsHand
  <2>1. /\ number \in Seq(Key) /\ (text = << >> <=> number = << >>)
        /\ text # << >> => number[1] = "+" /\ text = Grouped(number)
    BY <1>1, WhatIsShown
  <2>2. CASE text = << >>
    BY <2>1, <2>2 DEF FieldFollowsHand, GetRealPhone, LabelText
  <2>3. CASE text # << >>
    <3>1. number # << >> /\ number[1] = "+" /\ text = Grouped(number)
      BY <2>1, <2>3
    <3>2. Strip(Grouped(number)) = number /\ Strip(number) = number
      BY <2>1, <3>1, ShownIsRead
    <3> QED
      BY <2>3, <3>1, <3>2 DEF FieldFollowsHand, GetRealPhone, LabelText, WorkWithPhone
  <2> QED
    BY <2>2, <2>3
<1> QED
  BY <1>1, FieldShowsNumber, PTL

\* A text without its last character is put into shape as the number without its
\* last one: workWithPhone ends no text with a separator, so removing from the
\* end never gets stuck.
THEOREM RemovingEnds == Spec => []RemovingGetsAhead
<1>1. ASSUME Showing, Len(number) > 1
      PROVE  GetRealPhone(EditingChanged(Front(text))) = Front(number)
  <2>1. /\ number \in Seq(Key) /\ (text = << >> <=> number = << >>)
        /\ text # << >> => number[1] = "+" /\ text = Grouped(number)
    BY <1>1, WhatIsShown
  <2>2. number # << >>
    <3>1. Len(number) # 0
      BY <1>1
    <3> QED
      BY <3>1, EmptySeq
  <2>3. number[1] = "+" /\ text = Grouped(number)
    BY <2>1, <2>2
  <2>4. PICK s \in Seq(Key), c \in Key : number = Append(s, c)
    BY <2>1, <2>2, SequenceEmptyOrAppend
  <2>5. s \in Seq(Char) /\ c \in Char /\ <<c>> \in Seq(Char) /\ Len(<<c>>) = 1
    BY Characters, SeqMonotonic
  <2>6. /\ Len(s) \in Nat /\ Len(number) = Len(s) + 1
        /\ \A i \in 1..Len(s) : number[i] = s[i]
    BY <2>4, AppendProperties, LenProperties
  <2>7. s # << >> /\ s[1] = "+"
    <3>1. 1 \in 1..Len(s) /\ Len(s) # 0
      BY <1>1, <2>6
    <3>2. s # << >>
      BY <3>1, EmptySeq
    <3> QED
      BY <2>3, <2>6, <3>1, <3>2
  <2> DEFINE g == Grouped(s)
             b == Before(Len(s) + 1)
             e == g \o b
  <2>8. g \in Seq(Char) /\ g # << >> /\ g[1] = "+" /\ KeptIn(g) = s /\ Strip(g) = s
    BY <2>7, ShownIsRead, GroupedKeepsAll
  <2>9. b \in Seq(Char) /\ KeptIn(b) = << >>
    <3>1. Len(s) + 1 \in Nat
      BY <2>6
    <3> QED
      BY <3>1, NothingKeptBefore
  <2>10. text = g \o (b \o <<c>>)
    BY <2>3, <2>4, <2>5, GroupedOneMore
  <2> HIDE DEF g, b
  <2>11. e \in Seq(Char) /\ text = e \o <<c>>
    BY <2>5, <2>8, <2>9, <2>10, ConcatProperties, ConcatAssociative
  <2>12. e # << >> /\ e[1] = "+"
    <3>1. /\ Len(g) \in Nat /\ Len(b) \in Nat /\ Len(g) # 0 /\ Len(e) = Len(g) + Len(b)
          /\ \A i \in 1..(Len(g) + Len(b)) : e[i] = IF i <= Len(g) THEN g[i] ELSE b[i - Len(g)]
      BY <2>8, <2>9, ConcatProperties, EmptySeq
    <3>2. 1 \in 1..(Len(g) + Len(b)) /\ 1 <= Len(g) /\ Len(e) # 0
      BY <3>1
    <3> QED
      BY <2>8, <2>11, <3>1, <3>2, EmptySeq
  <2>13. KeptIn(e) = s
    <3>1. KeptIn(g \o b) = KeptIn(g) \o KeptIn(b)
      BY <2>8, <2>9, KeptOfBoth
    <3> QED
      BY <2>8, <2>9, <3>1, ConcatEmptySeq
  <2> HIDE DEF e
  <2>14. Front(text) = e
    <3>1. SubSeq(e \o <<c>>, 1, Len(e)) = e /\ Len(e \o <<c>>) = Len(e) + Len(<<c>>) /\ Len(e) \in Nat
      BY <2>5, <2>11, PartsOfBoth
    <3>2. Len(text) - 1 = Len(e)
      BY <2>5, <2>11, <3>1
    <3> QED
      BY <2>11, <3>1, <3>2 DEF Front
  <2>15. Front(number) = s
    <3>1. number = s \o <<c>> /\ <<c>> \in Seq(Key)
      BY <2>4, AppendIsConcat
    <3>2. SubSeq(s \o <<c>>, 1, Len(s)) = s
      BY <3>1, PartsOfBoth
    <3>3. Len(number) - 1 = Len(s)
      BY <2>6
    <3> QED
      BY <3>1, <3>2, <3>3 DEF Front
  <2>16. EditingChanged(e) = Grouped(s)
    <3>1. Strip(e) = s
      BY <2>11, <2>12, <2>13, StripBegins
    <3> QED
      BY <2>12, <3>1 DEF EditingChanged, WorkWithPhone
  <2> QED
    BY <2>8, <2>14, <2>15, <2>16 DEF GetRealPhone, g
<1> QED
  BY <1>1, FieldShowsNumber, PTL DEF RemovingGetsAhead

\* The border of the field stands for a number of eleven digits and its plus, and
\* for no other length: eighteen characters are shown of twelve and of nothing else.
THEOREM BorderIsForEleven == Spec => []MarkedIsComplete
<1>1. \A n \in Nat : Spread(n) = 18 <=> n = 12
  BY DEF Spread
<1>2. ASSUME Showing PROVE MarkedIsComplete
  <2>1. /\ number \in Seq(Key) /\ (text = << >> <=> number = << >>)
        /\ text # << >> => text = Grouped(number)
    BY <1>2, WhatIsShown
  <2>2. Len(number) \in Nat
    BY <2>1, LenProperties
  <2>3. CASE text = << >>
    <3>1. Len(text) = 0 /\ Len(number) = 0
      BY <2>1, <2>3, EmptySeq
    <3> QED
      BY <3>1 DEF MarkedIsComplete, Marked
  <2>4. CASE text # << >>
    <3>1. Len(text) = Spread(Len(number))
      BY <2>1, <2>4, GroupedKeepsAll
    <3> QED
      BY <1>1, <2>2, <3>1 DEF MarkedIsComplete, Marked
  <2> QED
    BY <2>3, <2>4
<1> QED
  BY <1>2, FieldShowsNumber, PTL

\* Not only edits of one character: whatever text is pasted into the field, putting
\* it into shape does not change the number that is read from it, and a text in
\* shape stays as it is.
THEOREM AnyTextIsRead ==
    \A e \in Seq(Char) : e # << >> =>
        /\ GetRealPhone(EditingChanged(e)) = GetRealPhone(e)
        /\ EditingChanged(EditingChanged(e)) = EditingChanged(e)
<1> SUFFICES ASSUME NEW e \in Seq(Char), e # << >>
             PROVE  /\ GetRealPhone(EditingChanged(e)) = GetRealPhone(e)
                    /\ EditingChanged(EditingChanged(e)) = EditingChanged(e)
  OBVIOUS
<1>1. PICK n \in Seq(Key) : n = Strip(e) /\ n # << >> /\ n[1] = "+"
  BY StripBegins
<1>2. EditingChanged(e) = Grouped(n) /\ GetRealPhone(e) = n
  BY <1>1 DEF EditingChanged, WorkWithPhone, GetRealPhone
<1>3. Grouped(n) # << >> /\ Strip(Grouped(n)) = n
  BY <1>1, ShownIsRead
<1> QED
  BY <1>2, <1>3 DEF EditingChanged, WorkWithPhone, GetRealPhone

=============================================================================
