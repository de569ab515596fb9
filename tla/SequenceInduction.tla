-------------------------- MODULE SequenceInduction --------------------------
(***************************************************************************)
(* Induction over the natural numbers, in the form of the smallest member  *)
(* of a set of them, and what it proves of FlattenSeq: the library defines *)
(* that recursively, and the provers unfold no recursion of themselves.    *)
(***************************************************************************)
EXTENDS Integers, Sequences, SequencesExt, SequenceTheorems,
        WellFoundedInduction, TLAPS

Below == {p \in Nat \X Nat : p[1] < p[2]}

\* A set of natural numbers that is not empty has a smallest member.
LEMMA Smallest ==
    ASSUME NEW T, T \subseteq Nat, T # {}
    PROVE  \E n \in T : \A m \in T : n <= m
<1>1. IsWellFoundedOn(Below, Nat)
  BY NatLessThanWellFounded DEF OpToRel, Below
<1>2. PICK n \in T : \A m \in T : ~ (<<m, n>> \in Below)
  BY ONLY <1>1, T \subseteq Nat, T # {}, WFMin
<1>3. \A m \in T : ~ (m < n)
  BY <1>2 DEF Below
<1> QED  BY <1>3

-----------------------------------------------------------------------------
(* FlattenSeq.                                                             *)

\* f[i] is the concatenation of the first i members of ps, as FlattenSeq
\* computes it.
Flattens(f, ps, n) ==
    \A i \in 1 .. n : f[i] = IF i = 1 THEN ps[i] ELSE f[i - 1] \o ps[i]

\* There is a function that flattens every prefix of a sequence of sequences.
LEMMA FlattenExists ==
    ASSUME NEW S, NEW ps \in Seq(Seq(S)), NEW k \in 0 .. Len(ps)
    PROVE  \E f \in [1 .. k -> Seq(S)] : Flattens(f, ps, k)
<1> DEFINE Good(n) == \E f \in [1 .. n -> Seq(S)] : Flattens(f, ps, n)
           Bad == {n \in 0 .. Len(ps) : ~ Good(n)}
<1> SUFFICES Bad = {}
  OBVIOUS
<1> SUFFICES ASSUME Bad # {}
             PROVE  FALSE
  OBVIOUS
<1>1. PICK n \in Bad : \A m \in Bad : n <= m
  <2>1. Bad \subseteq Nat
    OBVIOUS
  <2> HIDE DEF Bad
  <2> QED  BY <2>1, Smallest
<1>2. n # 0
  <2>1. [i \in 1 .. 0 |-> <<>>] \in [1 .. 0 -> Seq(S)]
    OBVIOUS
  <2>2. Flattens([i \in 1 .. 0 |-> <<>>], ps, 0)
    BY DEF Flattens
  <2> QED  BY <2>1, <2>2
<1>3. n \in Nat /\ n - 1 \in 0 .. Len(ps) /\ ~(n <= n - 1) /\ n \in 1 .. Len(ps)
  BY <1>2
<1>4. PICK f \in [1 .. n - 1 -> Seq(S)] : Flattens(f, ps, n - 1)
  BY <1>1, <1>3
<1> DEFINE last == IF n = 1 THEN ps[1] ELSE f[n - 1] \o ps[n]
           g == [i \in 1 .. n |-> IF i = n THEN last ELSE f[i]]
<1>5. last \in Seq(S)
  <2>1. ps[n] \in Seq(S)
    BY <1>3, ElementOfSeq
  <2>2. n # 1 => f[n - 1] \in Seq(S)
    BY <1>3
  <2> QED  BY <2>1, <2>2, ConcatProperties
<1>6. g \in [1 .. n -> Seq(S)]
  BY <1>3, <1>5
<1>7. Flattens(g, ps, n)
  <2> SUFFICES ASSUME NEW i \in 1 .. n
               PROVE  g[i] = IF i = 1 THEN ps[i] ELSE g[i - 1] \o ps[i]
    BY DEF Flattens
  <2>1. CASE i = n
    <3>1. i # 1 => g[i - 1] = f[i - 1]
      BY <1>3, <2>1
    <3> QED  BY <2>1, <3>1
  <2>2. CASE i # n
    <3>1. i \in 1 .. n - 1 /\ g[i] = f[i] /\ (i # 1 => g[i - 1] = f[i - 1])
      BY <1>3, <2>2
    <3> QED  BY <3>1, <1>4 DEF Flattens
  <2> QED  BY <2>1, <2>2
<1> QED  BY <1>6, <1>7

\* Two such functions are equal.
LEMMA FlattenUnique ==
    ASSUME NEW ps, NEW n \in Nat, NEW f, NEW g,
           Flattens(f, ps, n), Flattens(g, ps, n), NEW j \in 1 .. n
    PROVE  f[j] = g[j]
<1> DEFINE Bad == {i \in 1 .. n : f[i] # g[i]}
<1> SUFFICES ASSUME Bad # {}
             PROVE  FALSE
  OBVIOUS
<1>1. PICK i \in Bad : \A m \in Bad : i <= m
  <2>1. Bad \subseteq Nat
    OBVIOUS
  <2> HIDE DEF Bad
  <2> QED  BY <2>1, Smallest
<1>2. i # 1
  BY DEF Flattens
<1>3. i - 1 \in 1 .. n /\ ~(i <= i - 1)
  BY <1>2
<1>4. f[i - 1] = g[i - 1]
  BY <1>1, <1>3
<1> QED  BY <1>2, <1>4 DEF Flattens

\* So any of them tells what FlattenSeq is.
LEMMA FlattenIs ==
    ASSUME NEW S, NEW ps \in Seq(Seq(S)), ps # <<>>, NEW g,
           Flattens(g, ps, Len(ps))
    PROVE  FlattenSeq(ps) = g[Len(ps)]
<1> DEFINE n == Len(ps)
           Equal(f) == f = [i \in 1 .. n |->
                               IF i = 1 THEN ps[i] ELSE f[i - 1] \o ps[i]]
<1>1. n \in Nat \ {0}
  BY EmptySeq
<1>2. \E f : Equal(f)
  <2> HIDE DEF n
  <2>1. PICK f \in [1 .. n -> Seq(S)] : Flattens(f, ps, n)
    <3>1. n \in 0 .. Len(ps)
      BY <1>1 DEF n
    <3> QED  BY <3>1, FlattenExists
  <2>2. f = [i \in 1 .. n |-> f[i]]
    BY <2>1
  <2>3. [i \in 1 .. n |-> f[i]] =
            [i \in 1 .. n |-> IF i = 1 THEN ps[i] ELSE f[i - 1] \o ps[i]]
    BY <2>1 DEF Flattens
  <2>4. Equal(f)
    BY <2>2, <2>3
  <2> QED  BY <2>4
<1>3. Equal(CHOOSE f : Equal(f))
  BY <1>2
<1>4. \A f : Equal(f) => Flattens(f, ps, n)
  BY DEF Flattens
<1>5. (CHOOSE f : Equal(f))[n] = g[n]
  <2> HIDE DEF Equal
  <2>1. Flattens(CHOOSE f : Equal(f), ps, n)
    BY <1>3, <1>4
  <2> QED  BY <1>1, <2>1, FlattenUnique
<1> QED  BY <1>1, <1>5 DEF FlattenSeq

\* Flattening yields a sequence, and what is appended comes last.
THEOREM FlattenAppend ==
    ASSUME NEW S, NEW ps \in Seq(Seq(S)), NEW b \in Seq(S)
    PROVE  /\ FlattenSeq(ps) \in Seq(S)
           /\ FlattenSeq(Append(ps, b)) = FlattenSeq(ps) \o b
<1> DEFINE n == Len(ps)
<1>1. PICK f \in [1 .. n -> Seq(S)] : Flattens(f, ps, n)
  <2>1. n \in 0 .. Len(ps)
    BY LenProperties
  <2> QED  BY <2>1, FlattenExists
<1>2. FlattenSeq(ps) = IF ps = <<>> THEN <<>> ELSE f[n]
  <2>1. CASE ps = <<>>
    BY <2>1 DEF FlattenSeq
  <2>2. CASE ps # <<>>
    BY <1>1, <2>2, FlattenIs
  <2> QED  BY <2>1, <2>2
<1>3. n \in Nat /\ (ps # <<>> => n # 0) /\ (ps = <<>> => n = 0)
  BY EmptySeq, LenProperties
<1>4. FlattenSeq(ps) \in Seq(S)
  <2>1. <<>> \in Seq(S)
    BY EmptySeq
  <2>2. ps # <<>> => n \in 1 .. n
    BY <1>3
  <2> HIDE DEF n
  <2> QED  BY <1>1, <1>2, <2>1, <2>2
<1> DEFINE qs == Append(ps, b)
           g == [i \in 1 .. n + 1 |-> IF i = n + 1 THEN FlattenSeq(ps) \o b
                                      ELSE f[i]]
<1>5. /\ qs \in Seq(Seq(S)) /\ Len(qs) = n + 1 /\ qs # <<>>
      /\ \A i \in 1 .. n : qs[i] = ps[i]
      /\ qs[n + 1] = b
  BY <1>3, AppendProperties
<1>6. Flattens(g, qs, n + 1)
  <2> SUFFICES ASSUME NEW i \in 1 .. n + 1
               PROVE  g[i] = IF i = 1 THEN qs[i] ELSE g[i - 1] \o qs[i]
    BY DEF Flattens
  <2>1. CASE i = n + 1
    <3>1. CASE n = 0
      <4>1. FlattenSeq(ps) = <<>>
        BY <1>2, <1>3, <3>1
      <4>2. <<>> \o b = b
        BY ConcatEmptySeq
      <4> QED  BY <2>1, <3>1, <4>1, <4>2, <1>5
    <3>2. CASE n # 0
      <4>1. FlattenSeq(ps) = f[n] /\ g[n] = f[n]
        BY <1>2, <1>3, <3>2
      <4>2. i - 1 = n /\ i # 1 /\ qs[i] = b /\ g[i] = FlattenSeq(ps) \o b
        BY <2>1, <3>2, <1>5, <1>3
      <4> QED  BY <4>1, <4>2
    <3> QED  BY <3>1, <3>2
  <2>2. CASE i # n + 1
    <3>1. i \in 1 .. n /\ g[i] = f[i] /\ qs[i] = ps[i]
          /\ (i # 1 => g[i - 1] = f[i - 1])
      BY <2>2, <1>3, <1>5
    <3> QED  BY <3>1, <1>1 DEF Flattens
  <2> QED  BY <2>1, <2>2
<1>7. FlattenSeq(qs) = g[n + 1]
  <2> HIDE DEF qs, g
  <2> QED  BY <1>5, <1>6, FlattenIs
<1> QED  BY <1>3, <1>4, <1>7
=============================================================================
