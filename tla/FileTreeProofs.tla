--------------------------- MODULE FileTreeProofs ---------------------------
(***************************************************************************)
(* What system calls do to a tree, proved for trees and paths of any size: *)
(* they change nothing that is not under the path they are given, and what *)
(* they leave is a tree again; what cleaning makes of a path, and packing  *)
(* and unpacking of a directory.                                           *)
(***************************************************************************)
EXTENDS FileTree, SequenceTheorems, TLAPS

Induction == INSTANCE SequenceInduction

Path == Seq(STRING)

\* A tree from whose paths one can tell what they are under.
IsTree(t) == Root \in DOMAIN t /\ DOMAIN t \subseteq Path

\* What differs between two trees is under a directory.
Apart(t, u, dir) ==
    \A p \in DOMAIN t \union DOMAIN u :
        \/ Under(p, dir)
        \/ p \in DOMAIN t /\ p \in DOMAIN u /\ u[p] = t[p]

-----------------------------------------------------------------------------
(* Paths.                                                                  *)

\* One path after another is a path.
LEMMA Joined ==
    ASSUME NEW p \in Path, NEW q \in Path
    PROVE  p \o q \in Path
  BY ConcatProperties DEF Path

\* The first names of a path.
LEMMA Cut ==
    ASSUME NEW p \in Path, NEW n \in 0 .. Len(p)
    PROVE  /\ SubSeq(p, 1, n) \in Path
           /\ Len(SubSeq(p, 1, n)) = n
           /\ \A i \in 1 .. n : SubSeq(p, 1, n)[i] = p[i]
<1>1. \A i \in 1 .. n : p[i] \in STRING
  BY DEF Path
<1>. QED
  BY <1>1, SubSeqProperties DEF Path

\* What it means to lie under a directory, name by name.
LEMMA UnderMeans ==
    ASSUME NEW p \in Path, NEW dir \in Path
    PROVE  Under(p, dir) <=> /\ Len(dir) <= Len(p)
                             /\ \A i \in 1 .. Len(dir) : p[i] = dir[i]
<1>1. CASE Len(dir) <= Len(p)
  <2>1. Len(dir) \in 0 .. Len(p)
    BY <1>1 DEF Path
  <2>2. /\ SubSeq(p, 1, Len(dir)) \in Path
        /\ Len(SubSeq(p, 1, Len(dir))) = Len(dir)
        /\ \A i \in 1 .. Len(dir) : SubSeq(p, 1, Len(dir))[i] = p[i]
    BY <2>1, Cut
  <2>3. ASSUME \A i \in 1 .. Len(dir) : p[i] = dir[i]
        PROVE  SubSeq(p, 1, Len(dir)) = dir
    BY <2>2, <2>3, SeqEqual DEF Path
  <2>. QED
    BY <1>1, <2>2, <2>3 DEF Under
<1>. QED
  BY <1>1 DEF Under

\* What lies under a directory lies under the directories of that one.
LEMMA UnderTransitive ==
    ASSUME NEW p \in Path, NEW q \in Path, NEW dir \in Path,
           Under(p, q), Under(q, dir)
    PROVE  Under(p, dir)
<1>1. Len(dir) <= Len(q) /\ Len(q) <= Len(p)
  BY DEF Under
<1>2. Len(dir) \in Nat /\ Len(q) \in Nat /\ Len(p) \in Nat
  BY DEF Path
<1>3. \A i \in 1 .. Len(dir) : p[i] = dir[i]
  BY <1>1, <1>2, UnderMeans
<1>. QED
  BY <1>1, <1>2, <1>3, UnderMeans

\* A path that was joined to a directory lies under it.
LEMMA UnderJoined ==
    ASSUME NEW dir \in Path, NEW r \in Path
    PROVE  Under(dir \o r, dir)
<1>1. /\ dir \o r \in Path /\ Len(dir \o r) = Len(dir) + Len(r)
      /\ \A i \in 1 .. Len(dir) + Len(r) :
             (dir \o r)[i] = IF i <= Len(dir) THEN dir[i] ELSE r[i - Len(dir)]
  BY ConcatProperties DEF Path
<1>2. Len(dir) \in Nat /\ Len(r) \in Nat
  BY DEF Path
<1>3. \A i \in 1 .. Len(dir) : (dir \o r)[i] = dir[i]
  BY <1>1, <1>2
<1>4. Len(dir) <= Len(dir \o r)
  BY <1>1, <1>2
<1>. QED
  BY ONLY <1>1, <1>3, <1>4, dir \in Path, UnderMeans

\* A path lies under itself.
LEMMA UnderItself ==
    ASSUME NEW p \in Path
    PROVE  Under(p, p)
  BY UnderMeans DEF Path

\* The directory and the home of a workspace, and where they lie.
LEMMA Places ==
    ASSUME NEW w \in Ids
    PROVE  /\ Place(w) \in Path /\ Len(Place(w)) = Len(Root) + 1
           /\ Home(w) \in Path /\ Len(Home(w)) = Len(Root) + 2
           /\ Under(Place(w), Root) /\ Under(Home(w), Place(w))
<1>1. /\ <<w>> \in Path /\ Len(<<w>>) = 1
      /\ <<"home">> \in Path /\ Len(<<"home">>) = 1
      /\ Root \in Path /\ Len(Root) \in Nat
  <2>1. w \in STRING /\ "home" \in STRING /\ Root \in Seq(STRING)
    BY TreeAssumption
  <2>2. \A S : \A n \in S : <<n>> \in Seq(S) /\ Len(<<n>>) = 1
    OBVIOUS
  <2>. QED
    BY <2>1, <2>2 DEF Path
<1>2. Place(w) \in Path /\ Len(Place(w)) = Len(Root) + 1
  BY <1>1, ConcatProperties DEF Place, Path
<1>3. Home(w) \in Path /\ Len(Home(w)) = Len(Root) + 2
  BY <1>1, <1>2, ConcatProperties DEF Home, Path
<1>4. Under(Place(w), Root) /\ Under(Home(w), Place(w))
  BY <1>1, <1>2, UnderJoined DEF Place, Home
<1>. QED
  BY <1>2, <1>3, <1>4

\* The parent of a path longer than dir that is under dir.
LEMMA ParentUnder ==
    ASSUME NEW p \in Path, NEW dir \in Path,
           Under(p, dir), Len(dir) < Len(p)
    PROVE  /\ SubSeq(p, 1, Len(p) - 1) \in Path
           /\ Under(SubSeq(p, 1, Len(p) - 1), dir)
<1>  DEFINE q == SubSeq(p, 1, Len(p) - 1)
<1>1. Len(p) - 1 \in 0 .. Len(p) /\ Len(dir) \in Nat /\ Len(p) \in Nat
  BY DEF Path
<1>2. /\ q \in Path /\ Len(q) = Len(p) - 1
      /\ \A i \in 1 .. Len(p) - 1 : q[i] = p[i]
  BY <1>1, Cut
<1>3. \A i \in 1 .. Len(dir) : p[i] = dir[i]
  BY UnderMeans
<1>4. Len(dir) <= Len(q) /\ \A i \in 1 .. Len(dir) : q[i] = dir[i]
  BY <1>1, <1>2, <1>3
<1>. QED
  BY <1>2, <1>4, UnderMeans

-----------------------------------------------------------------------------
(* Trees.                                                                  *)

\* Changes under one directory, one after the other.
LEMMA ApartTransitive ==
    ASSUME NEW t, NEW u, NEW v, NEW dir, Apart(t, u, dir), Apart(u, v, dir)
    PROVE  Apart(t, v, dir)
  BY DEF Apart

\* The directories on the way to a path in a workspace are the root, and
\* directories in the workspace.
LEMMA PlacePrefixes ==
    ASSUME NEW w \in Ids, NEW p \in Path, Under(p, Place(w)),
           NEW q \in Prefixes(p)
    PROVE  q = Root \/ Under(q, Place(w))
<1>1. Root \in Path /\ Place(w) \in Path /\ Len(Place(w)) = Len(Root) + 1
  BY TreeAssumption, Places DEF Path
<1>2. Len(Root) \in Nat /\ Len(p) \in Nat /\ Len(Root) + 1 <= Len(p)
  BY <1>1 DEF Path, Under
<1>3. PICK n \in Len(Root) .. Len(p) : q = SubSeq(p, 1, n)
  BY DEF Prefixes
<1>4. q \in Path /\ Len(q) = n /\ \A i \in 1 .. n : q[i] = p[i]
  BY <1>2, <1>3, Cut
<1>5. CASE n = Len(Root)
  <2>1. Under(p, Root)
    BY <1>1, Places, UnderTransitive
  <2>. QED
    BY <1>3, <1>5, <2>1 DEF Under
<1>6. CASE n > Len(Root)
  <2>1. \A i \in 1 .. Len(Place(w)) : p[i] = Place(w)[i]
    BY <1>1, UnderMeans
  <2>2. /\ Len(Place(w)) <= Len(q)
        /\ \A i \in 1 .. Len(Place(w)) : q[i] = Place(w)[i]
    BY <1>1, <1>2, <1>4, <1>6, <2>1
  <2>. QED
    BY <1>1, <1>4, <2>2, UnderMeans
<1>. QED
  BY <1>2, <1>5, <1>6

\* What is made on the way to a path is in a directory above which nothing is
\* missing.
LEMMA CreateDirsApart ==
    ASSUME NEW t, NEW dir, NEW p,
           \A q \in Prefixes(p) : Under(q, dir) \/ q \in DOMAIN t
    PROVE  Apart(t, CreateDirs(t, p), dir)
  BY DEF CreateDirs, Apart

\* Removal changes what lies under its path.
LEMMA RemoveApart ==
    ASSUME NEW t, DOMAIN t \subseteq Path, NEW dir \in Path,
           NEW p \in Path, Under(p, dir)
    PROVE  Apart(t, Remove(t, p), dir)
<1>1. \A q \in Path : Under(q, p) => Under(q, dir)
  BY UnderTransitive
<1>. QED
  BY <1>1 DEF Remove, Apart

\* So does replacement.
LEMMA ReplaceApart ==
    ASSUME NEW t, DOMAIN t \subseteq Path, NEW dir \in Path,
           NEW p \in Path, Under(p, dir), NEW new, DOMAIN new \subseteq Path
    PROVE  Apart(t, Replace(t, p, new), dir)
<1>1. \A q \in Path : Under(q, p) => Under(q, dir)
  BY UnderTransitive
<1>2. \A r \in DOMAIN new : p \o r \in Path /\ Under(p \o r, p)
  BY Joined, UnderJoined
<1>. QED
  BY <1>1, <1>2 DEF Replace, Apart

\* What an archive holds is unpacked at paths again.
LEMMA UnpackedPaths ==
    ASSUME NEW ar, DOMAIN ar \subseteq Path
    PROVE  DOMAIN Unpacked(ar) \subseteq Path
<1>1. ASSUME NEW p \in Path, NEW q \in Path, Under(q, p)
      PROVE  From(q, p) \in Path
  <2>1. Len(p) \in Nat /\ Len(q) \in Nat
    BY DEF Path
  <2>2. \A i \in Len(p) + 1 .. Len(q) : q[i] \in STRING
    BY <2>1 DEF Path
  <2>. QED
    BY <2>1, <2>2, SubSeqProperties DEF From, Path
<1>2. \A p \in Path : DOMAIN Subtree(ar, p) \subseteq Path
  BY <1>1 DEF Subtree
<1>3. ASSUME NEW top, top \subseteq DOMAIN ar, top # {}
      PROVE  (CHOOSE r \in top : TRUE) \in Path
  BY <1>3
<1>. QED
  BY <1>2, <1>3 DEF Unpacked

-----------------------------------------------------------------------------
(* What is left of a path that is cleaned, however long it is.             *)

\* Paths without "." and "..".
Clear == {p \in Path : \A i \in 1 .. Len(p) : p[i] \notin {".", ".."}}

\* What the next name does to what has been cleaned.
Cleaned(q, name) ==
    CASE name = "."  -> q
      [] name = ".." -> IF q = <<>> THEN <<>> ELSE SubSeq(q, 1, Len(q) - 1)
      [] OTHER       -> Append(q, name)

\* c[n] is what has been cleaned after n names, as Clean computes it.
Cleans(c, p, n) ==
    \A i \in 0 .. n : c[i] = IF i = 0 THEN <<>> ELSE Cleaned(c[i - 1], p[i])

\* A name leaves a path clear, ...
LEMMA CleanedClear ==
    ASSUME NEW q \in Clear, NEW name \in STRING
    PROVE  Cleaned(q, name) \in Clear
<1>1. q \in Path /\ Len(q) \in Nat /\ (q # <<>> => Len(q) - 1 \in 0 .. Len(q))
  BY EmptySeq DEF Clear, Path
<1>2. CASE name \notin {".", ".."}
  <2>1. /\ Append(q, name) \in Path /\ Len(Append(q, name)) = Len(q) + 1
        /\ \A i \in 1 .. Len(q) : Append(q, name)[i] = q[i]
        /\ Append(q, name)[Len(q) + 1] = name
    <3>1. q \in Seq(STRING) /\ name \in STRING
      BY <1>1 DEF Path
    <3>2. \A S : \A s \in Seq(S), e \in S :
              /\ Append(s, e) \in Seq(S) /\ Len(Append(s, e)) = Len(s) + 1
              /\ \A i \in 1 .. Len(s) : Append(s, e)[i] = s[i]
              /\ Append(s, e)[Len(s) + 1] = e
      BY AppendProperties
    <3> QED  BY <3>1, <3>2 DEF Path
  <2>2. \A i \in 1 .. Len(q) + 1 : i \in 1 .. Len(q) \/ i = Len(q) + 1
    BY <1>1
  <2>3. Append(q, name) \in Clear
    BY <1>2, <2>1, <2>2 DEF Clear
  <2> QED  BY <1>2, <2>3 DEF Cleaned
<1>3. CASE name = ".." /\ q # <<>>
  <2> DEFINE r == SubSeq(q, 1, Len(q) - 1)
  <2>1. r \in Path /\ Len(r) = Len(q) - 1 /\ \A i \in 1 .. Len(q) - 1 : r[i] = q[i]
    BY <1>1, <1>3, Cut
  <2>2. \A i \in 1 .. Len(q) : q[i] \notin {".", ".."}
    BY DEF Clear
  <2> HIDE DEF r
  <2>3. r \in Clear
    BY <1>1, <2>1, <2>2 DEF Clear
  <2> QED  BY <1>3, <2>3 DEF Cleaned, r
<1>4. CASE name = "." \/ (name = ".." /\ q = <<>>)
  BY <1>4 DEF Cleaned
<1> QED  BY <1>2, <1>3, <1>4

\* ... and so do any number of them: there is a function that computes the path.
LEMMA CleansExists ==
    ASSUME NEW p \in Path, NEW k \in 0 .. Len(p)
    PROVE  \E c \in [0 .. k -> Clear] : Cleans(c, p, k)
<1> DEFINE Good(n) == \E c \in [0 .. n -> Clear] : Cleans(c, p, n)
           Bad == {n \in 0 .. Len(p) : ~ Good(n)}
<1> SUFFICES Bad = {}
  OBVIOUS
<1> SUFFICES ASSUME Bad # {}
             PROVE  FALSE
  OBVIOUS
<1>1. PICK n \in Bad : \A m \in Bad : n <= m
  <2>1. Bad \subseteq Nat
    OBVIOUS
  <2> HIDE DEF Bad
  <2> QED  BY <2>1, Induction!Smallest
<1>2. n # 0
  <2>1. <<>> \in Clear
    BY EmptySeq DEF Clear, Path
  <2>2. /\ [i \in 0 .. 0 |-> <<>>] \in [0 .. 0 -> Clear]
        /\ Cleans([i \in 0 .. 0 |-> <<>>], p, 0)
    BY <2>1 DEF Cleans
  <2> QED  BY <2>2
<1>3. n \in Nat /\ n - 1 \in 0 .. Len(p) /\ ~(n <= n - 1) /\ n \in 1 .. Len(p)
  BY <1>2
<1>4. PICK c \in [0 .. n - 1 -> Clear] : Cleans(c, p, n - 1)
  BY <1>1, <1>3
<1> DEFINE d == [i \in 0 .. n |-> IF i = n THEN Cleaned(c[n - 1], p[n]) ELSE c[i]]
<1>5. Cleaned(c[n - 1], p[n]) \in Clear
  <2>1. p[n] \in STRING
    BY <1>3, ElementOfSeq DEF Path
  <2>2. c[n - 1] \in Clear
    BY <1>3, <1>4
  <2> QED  BY <2>1, <2>2, CleanedClear
<1>6. d \in [0 .. n -> Clear]
  BY <1>3, <1>5
<1>7. Cleans(d, p, n)
  <2> SUFFICES ASSUME NEW i \in 0 .. n
               PROVE  d[i] = IF i = 0 THEN <<>> ELSE Cleaned(d[i - 1], p[i])
    BY DEF Cleans
  <2>1. CASE i = n
    <3>1. d[n] = Cleaned(c[n - 1], p[n]) /\ d[n - 1] = c[n - 1]
      BY <1>3
    <3> QED  BY <1>2, <2>1, <3>1
  <2>2. CASE i # n
    <3>1. i \in 0 .. n - 1 /\ d[i] = c[i] /\ (i # 0 => d[i - 1] = c[i - 1])
      BY <1>3, <2>2
    <3> QED  BY <1>4, <3>1 DEF Cleans
  <2> QED  BY <2>1, <2>2
<1> QED  BY <1>6, <1>7

\* Two functions that clean a path are equal.
LEMMA CleansUnique ==
    ASSUME NEW p, NEW n \in Nat, NEW c, NEW d, Cleans(c, p, n), Cleans(d, p, n),
           NEW j \in 0 .. n
    PROVE  c[j] = d[j]
<1> DEFINE Bad == {i \in 0 .. n : c[i] # d[i]}
<1> SUFFICES ASSUME Bad # {}
             PROVE  FALSE
  OBVIOUS
<1>1. PICK i \in Bad : \A m \in Bad : i <= m
  <2>1. Bad \subseteq Nat
    OBVIOUS
  <2> HIDE DEF Bad
  <2> QED  BY <2>1, Induction!Smallest
<1>2. i # 0
  BY DEF Cleans
<1>3. i - 1 \in 0 .. n /\ ~(i <= i - 1)
  BY <1>2
<1>4. c[i - 1] = d[i - 1]
  BY <1>1, <1>3
<1> QED  BY <1>2, <1>4 DEF Cleans

\* So any of them tells what Clean is.
LEMMA CleanIs ==
    ASSUME NEW p \in Path, NEW d, Cleans(d, p, Len(p))
    PROVE  Clean(p) = d[Len(p)]
<1> DEFINE n == Len(p)
           Equal(c) == c = [i \in 0 .. n |->
                               IF i = 0 THEN <<>>
                               ELSE CASE p[i] = "."  -> c[i - 1]
                                      [] p[i] = ".." ->
                                             IF c[i - 1] = <<>> THEN <<>>
                                             ELSE SubSeq(c[i - 1], 1, Len(c[i - 1]) - 1)
                                      [] OTHER       -> Append(c[i - 1], p[i])]
<1>1. n \in Nat
  BY DEF Path
<1>2. \E c : Equal(c)
  <2>1. PICK c \in [0 .. n -> Clear] : Cleans(c, p, n)
    BY <1>1, CleansExists
  <2>2. c = [i \in 0 .. n |-> c[i]]
    BY <2>1
  <2>3. Equal(c)
    BY <2>1, <2>2 DEF Cleans, Cleaned
  <2> QED  BY <2>3
<1>3. Equal(CHOOSE c : Equal(c))
  BY <1>2
<1>4. \A c : Equal(c) => Cleans(c, p, n)
  BY DEF Cleans, Cleaned
<1>5. (CHOOSE c : Equal(c))[n] = d[n]
  <2> HIDE DEF Equal
  <2>1. Cleans(CHOOSE c : Equal(c), p, n)
    BY <1>3, <1>4
  <2> QED  BY <1>1, <2>1, CleansUnique
<1> QED  BY <1>5 DEF Clean

\* No "." and no ".." is left in a path that was cleaned, ...
THEOREM CleanLeavesNoDots ==
    ASSUME NEW p \in Path
    PROVE  Clean(p) \in Clear
<1>1. Len(p) \in 0 .. Len(p)
  BY DEF Path
<1>2. PICK c \in [0 .. Len(p) -> Clear] : Cleans(c, p, Len(p))
  BY <1>1, CleansExists
<1> QED  BY <1>1, <1>2, CleanIs

\* ... and one that has none is left alone.
THEOREM CleanOfClear ==
    ASSUME NEW p \in Clear
    PROVE  Clean(p) = p
<1> DEFINE c == [i \in 0 .. Len(p) |-> SubSeq(p, 1, i)]
<1>1. p \in Path /\ Len(p) \in Nat
  BY DEF Clear, Path
<1>2. Cleans(c, p, Len(p))
  <2> SUFFICES ASSUME NEW i \in 0 .. Len(p)
               PROVE  c[i] = IF i = 0 THEN <<>> ELSE Cleaned(c[i - 1], p[i])
    BY DEF Cleans
  <2>1. CASE i = 0
    BY <1>1, <2>1, SubSeqEmpty
  <2>2. CASE i # 0
    <3>1. /\ i \in 1 .. Len(p) /\ i - 1 \in 0 .. Len(p)
          /\ c[i - 1] = SubSeq(p, 1, i - 1) /\ c[i] = SubSeq(p, 1, i)
      BY <1>1, <2>2
    <3>2. p[i] \in STRING /\ p[i] \notin {".", ".."}
      BY <1>1, <3>1, ElementOfSeq DEF Clear, Path
    <3>3. Cleaned(c[i - 1], p[i]) = Append(c[i - 1], p[i])
      BY <3>2 DEF Cleaned
    <3> DEFINE q == SubSeq(p, 1, i - 1)
               r == SubSeq(p, 1, i)
    <3>4. /\ q \in Path /\ Len(q) = i - 1 /\ \A j \in 1 .. i - 1 : q[j] = p[j]
          /\ r \in Path /\ Len(r) = i /\ \A j \in 1 .. i : r[j] = p[j]
      BY <1>1, <3>1, Cut
    <3> HIDE DEF q, r
    <3>5. /\ Append(q, p[i]) \in Path /\ Len(Append(q, p[i])) = i
          /\ \A j \in 1 .. i - 1 : Append(q, p[i])[j] = q[j]
          /\ Append(q, p[i])[i] = p[i]
      BY <3>1, <3>2, <3>4, AppendProperties DEF Path
    <3>6. \A j \in 1 .. i : Append(q, p[i])[j] = r[j]
      BY <3>1, <3>4, <3>5
    <3>7. Append(q, p[i]) = r
      BY <3>4, <3>5, <3>6, SeqEqual DEF Path
    <3> QED  BY <2>2, <3>1, <3>3, <3>7 DEF q, r
  <2> QED  BY <2>1, <2>2
<1>3. Clean(p) = SubSeq(p, 1, Len(p))
  BY <1>1, <1>2, CleanIs
<1>4. Len(p) \in 0 .. Len(p)
  BY <1>1
<1> QED  BY <1>1, <1>3, <1>4, Cut, SeqEqual DEF Path

-----------------------------------------------------------------------------
(* Paths taken apart and joined.                                           *)

\* What was taken off a path and put on it again.
LEMMA FromJoined ==
    ASSUME NEW dir \in Path, NEW r \in Path
    PROVE  From(dir \o r, dir) = r
<1> DEFINE p == dir \o r
           q == From(p, dir)
<1>1. /\ p \in Path /\ Len(p) = Len(dir) + Len(r)
      /\ Len(dir) \in Nat /\ Len(r) \in Nat
      /\ \A i \in 1 .. Len(p) :
             p[i] = IF i <= Len(dir) THEN dir[i] ELSE r[i - Len(dir)]
  BY ConcatProperties DEF Path
<1>2. \A i \in 1 .. Len(r) : p[Len(dir) + i] = r[i] /\ r[i] \in STRING
  BY <1>1, ElementOfSeq DEF Path
<1>3. \A i \in Len(dir) + 1 .. Len(p) : p[i] \in STRING
  BY <1>1, ElementOfSeq DEF Path
<1> HIDE DEF p
<1>4. /\ q \in Path /\ Len(q) = Len(r)
      /\ \A i \in 1 .. Len(r) : q[i] = p[Len(dir) + i]
  <2>1. /\ SubSeq(p, Len(dir) + 1, Len(p)) \in Seq(STRING)
        /\ Len(SubSeq(p, Len(dir) + 1, Len(p))) =
               IF Len(dir) + 1 <= Len(p) THEN Len(p) - (Len(dir) + 1) + 1 ELSE 0
        /\ \A i \in 1 .. Len(p) - (Len(dir) + 1) + 1 :
               SubSeq(p, Len(dir) + 1, Len(p))[i] = p[Len(dir) + 1 + i - 1]
    BY <1>1, <1>3, SubSeqProperties
  <2> QED  BY <1>1, <2>1 DEF From, Path
<1> HIDE DEF q
<1>5. q = r
  BY <1>1, <1>2, <1>4, SeqEqual DEF Path
<1> QED  BY <1>5 DEF p, q

\* A path under a directory is the directory and the rest of it.
LEMMA JoinedFrom ==
    ASSUME NEW p \in Path, NEW dir \in Path, Under(p, dir)
    PROVE  From(p, dir) \in Path /\ dir \o From(p, dir) = p
<1> DEFINE q == From(p, dir)
           j == dir \o q
<1>1. /\ Len(dir) \in Nat /\ Len(p) \in Nat /\ Len(dir) <= Len(p)
      /\ \A i \in 1 .. Len(dir) : p[i] = dir[i]
  BY UnderMeans DEF Under, Path
<1>2. /\ q \in Path /\ Len(q) = Len(p) - Len(dir)
      /\ \A i \in 1 .. Len(q) : q[i] = p[Len(dir) + i]
  <2>1. \A i \in Len(dir) + 1 .. Len(p) : p[i] \in STRING
    BY <1>1, ElementOfSeq DEF Path
  <2>2. /\ SubSeq(p, Len(dir) + 1, Len(p)) \in Seq(STRING)
        /\ Len(SubSeq(p, Len(dir) + 1, Len(p))) =
               IF Len(dir) + 1 <= Len(p) THEN Len(p) - (Len(dir) + 1) + 1 ELSE 0
        /\ \A i \in 1 .. Len(p) - (Len(dir) + 1) + 1 :
               SubSeq(p, Len(dir) + 1, Len(p))[i] = p[Len(dir) + 1 + i - 1]
    BY <1>1, <2>1, SubSeqProperties
  <2> QED  BY <1>1, <2>2 DEF From, Path
<1> HIDE DEF q
<1>3. /\ j \in Path /\ Len(j) = Len(dir) + Len(q)
      /\ \A i \in 1 .. Len(dir) + Len(q) :
             j[i] = IF i <= Len(dir) THEN dir[i] ELSE q[i - Len(dir)]
  BY <1>2, ConcatProperties DEF Path
<1> HIDE DEF j
<1>4. ASSUME NEW i \in 1 .. Len(p)
      PROVE  j[i] = p[i]
  <2>1. CASE i <= Len(dir)
    BY <1>1, <1>2, <1>3, <2>1
  <2>2. CASE i > Len(dir)
    <3>1. i - Len(dir) \in 1 .. Len(q) /\ Len(dir) + (i - Len(dir)) = i
      BY <1>1, <1>2, <2>2
    <3>2. q[i - Len(dir)] = p[i]
      BY <1>2, <3>1
    <3> QED  BY <1>1, <1>2, <1>3, <2>2, <3>2
  <2> QED  BY <1>1, <2>1, <2>2
<1>5. j = p
  BY <1>1, <1>2, <1>3, <1>4, SeqEqual DEF Path
<1> QED  BY <1>2, <1>5 DEF q, j

\* The parent of what is below a directory.
LEMMA ParentIs ==
    ASSUME NEW p \in Path, p # <<>>
    PROVE  /\ Parent(p) \in Path /\ Len(p) \in Nat \ {0}
           /\ Len(Parent(p)) = Len(p) - 1
           /\ \A i \in 1 .. Len(p) - 1 : Parent(p)[i] = p[i]
           /\ Under(p, Parent(p))
<1>1. Len(p) \in Nat \ {0} /\ Len(p) - 1 \in 0 .. Len(p)
  BY EmptySeq DEF Path
<1>2. /\ Parent(p) \in Path /\ Len(Parent(p)) = Len(p) - 1
      /\ \A i \in 1 .. Len(p) - 1 : Parent(p)[i] = p[i]
  BY <1>1, Cut DEF Parent
<1>3. Under(p, Parent(p))
  BY <1>1, <1>2, UnderMeans
<1> QED  BY <1>1, <1>2, <1>3

\* The parent of a joined path is the joined parent.
LEMMA ParentJoined ==
    ASSUME NEW dir \in Path, NEW r \in Path, r # <<>>
    PROVE  Parent(dir \o r) = dir \o Parent(r)
<1> DEFINE p == dir \o r
           q == Parent(r)
           j == dir \o q
<1>1. /\ p \in Path /\ Len(p) = Len(dir) + Len(r)
      /\ Len(dir) \in Nat /\ Len(r) \in Nat \ {0}
      /\ \A i \in 1 .. Len(dir) + Len(r) :
             p[i] = IF i <= Len(dir) THEN dir[i] ELSE r[i - Len(dir)]
  BY ConcatProperties, EmptySeq DEF Path
<1>2. /\ q \in Path /\ Len(q) = Len(r) - 1
      /\ \A i \in 1 .. Len(r) - 1 : q[i] = r[i]
  BY ParentIs
<1> HIDE DEF p, q
<1>3. /\ j \in Path /\ Len(j) = Len(dir) + Len(q)
      /\ \A i \in 1 .. Len(dir) + Len(q) :
             j[i] = IF i <= Len(dir) THEN dir[i] ELSE q[i - Len(dir)]
  BY <1>2, ConcatProperties DEF Path
<1>4. p # <<>>
  BY <1>1, EmptySeq DEF Path
<1>5. /\ Parent(p) \in Path /\ Len(Parent(p)) = Len(p) - 1
      /\ \A i \in 1 .. Len(p) - 1 : Parent(p)[i] = p[i]
  BY <1>1, <1>4, ParentIs
<1> HIDE DEF j
<1>6. ASSUME NEW i \in 1 .. Len(j)
      PROVE  Parent(p)[i] = j[i]
  <2>1. /\ i \in 1 .. Len(dir) + Len(r) /\ i \in 1 .. Len(p) - 1
        /\ i \in 1 .. Len(dir) + Len(q)
    BY <1>1, <1>2, <1>3
  <2>2. CASE i <= Len(dir)
    BY <1>1, <1>3, <1>5, <2>1, <2>2
  <2>3. CASE ~(i <= Len(dir))
    <3>1. i - Len(dir) \in 1 .. Len(r) - 1
      BY <1>1, <1>2, <2>1, <2>3
    <3>2. p[i] = r[i - Len(dir)] /\ j[i] = q[i - Len(dir)]
      BY <1>1, <1>3, <2>1, <2>3
    <3> QED  BY <1>2, <1>5, <2>1, <3>1, <3>2
  <2> QED  BY <2>2, <2>3
<1>7. Parent(p) = j
  BY <1>1, <1>2, <1>3, <1>5, <1>6, SeqEqual DEF Path
<1> QED  BY <1>7 DEF p, q, j

-----------------------------------------------------------------------------
(* Trees that stand.                                                       *)

\* A tree: all of it is below Root, and in a directory.
Upright(t) ==
    /\ IsTree(t)
    /\ \A p \in DOMAIN t :
           /\ Under(p, Root) /\ t[p] \in Contents \union {Dir}
           /\ p # Root => IsDir(t, Parent(p))

\* What is below Root, and not it.
LEMMA BelowRoot ==
    ASSUME NEW p \in Path, Under(p, Root)
    PROVE  /\ Len(Root) \in Nat /\ Len(p) \in Nat /\ Len(Root) <= Len(p)
           /\ p # Root => Len(Root) < Len(p) /\ p # <<>>
<1>1. /\ Root \in Path /\ Len(Root) \in Nat /\ Len(p) \in Nat
      /\ Len(Root) <= Len(p) /\ \A i \in 1 .. Len(Root) : p[i] = Root[i]
  BY TreeAssumption, UnderMeans DEF Under, Path
<1>2. Len(Root) = Len(p) => p = Root
  BY <1>1, SeqEqual DEF Path
<1>3. Len(Root) < Len(p) => p # <<>>
  BY <1>1, EmptySeq
<1> QED  BY <1>1, <1>2, <1>3

\* create_dir_all leaves a tree, in which the directory is.
LEMMA CreateDirsUpright ==
    ASSUME NEW t, Upright(t), NEW p \in Path, Under(p, Root), ~Blocked(t, p)
    PROVE  Upright(CreateDirs(t, p)) /\ IsDir(CreateDirs(t, p), p)
<1> DEFINE u == CreateDirs(t, p)
<1>1. /\ Len(Root) \in Nat /\ Len(p) \in Nat /\ Len(Root) <= Len(p)
      /\ Root \in Path /\ \A i \in 1 .. Len(Root) : p[i] = Root[i]
  BY BelowRoot, TreeAssumption, UnderMeans DEF Path
<1>2. ASSUME NEW n \in Len(Root) .. Len(p)
      PROVE  /\ SubSeq(p, 1, n) \in Path /\ Under(SubSeq(p, 1, n), Root)
             /\ Under(p, SubSeq(p, 1, n))
             /\ SubSeq(p, 1, n) # Root =>
                    /\ n - 1 \in Len(Root) .. Len(p)
                    /\ Parent(SubSeq(p, 1, n)) = SubSeq(p, 1, n - 1)
  <2> DEFINE q == SubSeq(p, 1, n)
             r == SubSeq(p, 1, n - 1)
  <2>1. /\ q \in Path /\ Len(q) = n /\ \A i \in 1 .. n : q[i] = p[i]
    BY <1>1, Cut
  <2> HIDE DEF q
  <2>2. Under(q, Root) /\ Under(p, q)
    BY <1>1, <2>1, UnderMeans
  <2>3. ASSUME q # Root
        PROVE  n - 1 \in Len(Root) .. Len(p) /\ Parent(q) = r
    <3>1. n > Len(Root) /\ q # <<>>
      BY <2>1, <2>2, <2>3, BelowRoot
    <3>2. n - 1 \in 0 .. Len(p) /\ n - 1 \in Len(Root) .. Len(p)
      BY <1>1, <3>1
    <3>3. /\ r \in Path /\ Len(r) = n - 1 /\ \A i \in 1 .. n - 1 : r[i] = p[i]
      BY <3>2, Cut
    <3>4. /\ Parent(q) \in Path /\ Len(Parent(q)) = n - 1
          /\ \A i \in 1 .. n - 1 : Parent(q)[i] = q[i]
      BY <2>1, <3>1, ParentIs
    <3> HIDE DEF r
    <3>5. \A i \in 1 .. n - 1 : Parent(q)[i] = r[i]
      BY <1>1, <2>1, <3>3, <3>4
    <3> QED  BY <3>2, <3>3, <3>4, <3>5, SeqEqual DEF Path
  <2> QED  BY <2>1, <2>2, <2>3 DEF q, r
<1>3. DOMAIN u = DOMAIN t \union Prefixes(p)
  BY DEF CreateDirs
<1>4. ASSUME NEW q \in Prefixes(p)
      PROVE  /\ q \in Path /\ Under(q, Root) /\ IsDir(u, q)
             /\ q # Root => Parent(q) \in Prefixes(p)
  <2>1. PICK n \in Len(Root) .. Len(p) : q = SubSeq(p, 1, n)
    BY DEF Prefixes
  <2>2. q \in DOMAIN t => t[q] = Dir
    BY <1>2, <2>1 DEF Blocked
  <2>3. u[q] = Dir
    BY <2>2 DEF CreateDirs
  <2> QED  BY <1>2, <1>3, <2>1, <2>3 DEF Prefixes, IsDir, Exists
<1>5. \A q \in DOMAIN t : u[q] = t[q]
  BY DEF CreateDirs
<1>6. ASSUME NEW q \in DOMAIN t
      PROVE  /\ q \in Path /\ Under(q, Root) /\ u[q] \in Contents \union {Dir}
             /\ q # Root => IsDir(u, Parent(q))
  BY <1>3, <1>5, <1>6 DEF Upright, IsTree, IsDir, Exists
<1>7. p \in Prefixes(p)
  <2>1. Len(p) \in Len(Root) .. Len(p) /\ Len(p) \in 0 .. Len(p)
    BY <1>1
  <2>2. SubSeq(p, 1, Len(p)) = p
    BY <2>1, Cut, SeqEqual DEF Path
  <2> QED  BY <2>1, <2>2 DEF Prefixes
<1>8. Root \in DOMAIN u /\ DOMAIN u \subseteq Path
  BY <1>3, <1>4, <1>6 DEF Upright, IsTree
<1> HIDE DEF u
<1>9. Upright(u) /\ IsDir(u, p)
  BY <1>3, <1>4, <1>6, <1>7, <1>8 DEF Upright, IsTree, IsDir, Exists
<1> QED  BY <1>9 DEF u

\* Nothing is missing above what is in a tree.
LEMMA Above ==
    ASSUME NEW t, Upright(t), NEW p \in DOMAIN t,
           NEW q \in Path, Under(p, q), Under(q, Root)
    PROVE  q \in DOMAIN t
<1> DEFINE Heads == {n \in Nat : /\ Len(q) <= n /\ n <= Len(p)
                                 /\ SubSeq(p, 1, n) \in DOMAIN t}
<1>1. /\ p \in Path /\ Len(p) \in Nat /\ Len(q) \in Nat /\ Len(q) <= Len(p)
      /\ Len(Root) \in Nat /\ Len(Root) <= Len(q) /\ Root \in Path
      /\ q = SubSeq(p, 1, Len(q))
  BY BelowRoot, TreeAssumption DEF Upright, IsTree, Under, Path
<1>2. SubSeq(p, 1, Len(p)) = p
  BY <1>1, SubSeqProperties DEF Path
<1>0. \A n : n \in Heads <=> /\ n \in Nat /\ Len(q) <= n /\ n <= Len(p)
                             /\ SubSeq(p, 1, n) \in DOMAIN t
  OBVIOUS
<1> HIDE DEF Heads
<1>3. Heads \subseteq Nat /\ Len(p) \in Heads
  <2>1. Len(p) <= Len(p)
    BY ONLY <1>1
  <2> QED  BY <1>0, <1>1, <1>2, <2>1, Zenon
<1>4. PICK n \in Heads : \A m \in Heads : n <= m
  BY <1>3, Induction!Smallest
<1>5. CASE n = Len(q)
  BY <1>0, <1>1, <1>4, <1>5, Zenon
<1>6. CASE n # Len(q)
  <2> DEFINE h == SubSeq(p, 1, n)
             g == SubSeq(p, 1, n - 1)
  <2>1. /\ n \in 0 .. Len(p) /\ n - 1 \in 0 .. Len(p) /\ n - 1 \in Nat
        /\ Len(q) <= n - 1 /\ n - 1 <= Len(p) /\ n > Len(Root) /\ h \in DOMAIN t
    <3>1. n \in Nat /\ Len(q) <= n /\ n <= Len(p) /\ h \in DOMAIN t
      BY <1>0, <1>4, Zenon
    <3>2. \A k, l, m, o \in Nat :
              k <= m /\ m <= l /\ m # k /\ o <= k
                  => /\ m \in 0 .. l /\ m - 1 \in 0 .. l /\ m - 1 \in Nat
                     /\ k <= m - 1 /\ m - 1 <= l /\ m > o
      OBVIOUS
    <3> QED  BY ONLY <1>1, <1>6, <3>1, <3>2, Zenon
  <2>2. /\ h \in Path /\ Len(h) = n /\ \A i \in 1 .. n : h[i] = p[i]
        /\ g \in Path /\ Len(g) = n - 1 /\ \A i \in 1 .. n - 1 : g[i] = p[i]
    <3>1. ASSUME NEW m \in 0 .. Len(p)
          PROVE  /\ SubSeq(p, 1, m) \in Path /\ Len(SubSeq(p, 1, m)) = m
                 /\ \A i \in 1 .. m : SubSeq(p, 1, m)[i] = p[i]
      BY ONLY <1>1, <3>1, Cut
    <3> QED  BY ONLY <2>1, <3>1 DEF h, g
  <2> HIDE DEF h, g
  <2>3. h # Root /\ h # <<>>
    BY <1>1, <2>1, <2>2, EmptySeq
  <2>4. /\ Parent(h) \in Path /\ Len(Parent(h)) = n - 1
        /\ \A i \in 1 .. n - 1 : Parent(h)[i] = h[i]
    BY <2>2, <2>3, ParentIs
  <2>5. \A i \in 1 .. n - 1 : Parent(h)[i] = g[i]
    BY <2>1, <2>2, <2>4
  <2>6. Parent(h) = g
    BY <2>2, <2>4, <2>5, SeqEqual DEF Path
  <2>7. g \in DOMAIN t
    BY <2>1, <2>3, <2>6 DEF Upright, IsDir, Exists
  <2>8. n - 1 \in Heads
    BY <1>0, <2>1, <2>7, Zenon DEF g
  <2>9. ~(n <= n - 1)
    BY <2>1
  <2> QED  BY <1>4, <2>8, <2>9
<1> QED  BY <1>5, <1>6

\* Nothing is missing above a directory that is there, so that directories on
\* the way to a path below it are below it, or there.
LEMMA PrefixesBelow ==
    ASSUME NEW t, Upright(t), NEW dir \in DOMAIN t,
           NEW p \in Path, Under(p, dir), NEW q \in Prefixes(p)
    PROVE  Under(q, dir) \/ q \in DOMAIN t
<1>1. /\ dir \in Path /\ Root \in Path /\ Under(dir, Root)
      /\ Len(dir) \in Nat /\ Len(p) \in Nat /\ Len(Root) \in Nat
      /\ Len(Root) <= Len(dir) /\ Len(dir) <= Len(p)
  BY BelowRoot, TreeAssumption DEF Upright, IsTree, Under, Path
<1>2. PICK n \in Len(Root) .. Len(p) : q = SubSeq(p, 1, n)
  BY DEF Prefixes
<1>3. q \in Path /\ Len(q) = n /\ \A i \in 1 .. n : q[i] = p[i]
  BY <1>1, <1>2, Cut
<1>4. /\ \A i \in 1 .. Len(dir) : p[i] = dir[i]
      /\ \A i \in 1 .. Len(Root) : dir[i] = Root[i]
  BY <1>1, UnderMeans
<1>5. CASE Len(dir) <= n
  <2>1. \A i \in 1 .. Len(dir) : q[i] = dir[i]
    BY <1>1, <1>3, <1>4, <1>5
  <2> QED  BY <1>1, <1>3, <1>5, <2>1, UnderMeans
<1>6. CASE ~(Len(dir) <= n)
  <2>1. \A i \in 1 .. n : dir[i] = q[i]
    BY <1>1, <1>3, <1>4, <1>6
  <2>2. \A i \in 1 .. Len(Root) : q[i] = Root[i]
    BY <1>1, <1>3, <1>4, <1>6
  <2>3. Under(dir, q) /\ Under(q, Root)
    BY <1>1, <1>3, <1>6, <2>1, <2>2, UnderMeans
  <2> QED  BY <1>3, <2>3, Above
<1> QED  BY <1>5, <1>6

\* A path that goes through a link leads to a place below the destination of
\* the link, which is there.
LEMMA ThroughLink ==
    ASSUME NEW t, Upright(t), NEW p \in Path, p # <<>>,
           LinksTo(t, Parent(p)) # {}, ~ParentFails(t, p)
    PROVE  \E q \in LinksTo(t, Parent(p)) :
               /\ Points[t[q]] \in DOMAIN t
               /\ Spot(t, p) \in Path /\ Spot(t, p) # Root
               /\ Under(Spot(t, p), Points[t[q]])
               /\ Parent(Spot(t, p)) \in Path
               /\ Under(Parent(Spot(t, p)), Points[t[q]])
<1> DEFINE links == LinksTo(t, Parent(p))
           q == CHOOSE q \in links : TRUE
           dir == Points[t[q]]
           r == From(p, q)
<1>1. q \in links /\ Spot(t, p) = dir \o r
  BY DEF Spot, Follow
<1> HIDE DEF q
<1>2. q \in DOMAIN t /\ t[q] \in Links /\ Under(Parent(p), q)
  BY <1>1 DEF LinksTo
<1>3. dir \in DOMAIN t
  BY <1>1 DEF ParentFails, IsDir, Exists
<1>4. q \in Path /\ dir \in Path /\ Under(dir, Root)
  BY <1>2, <1>3 DEF Upright, IsTree
<1>5. /\ Parent(p) \in Path /\ Len(p) \in Nat \ {0}
      /\ Len(Parent(p)) = Len(p) - 1 /\ Under(p, Parent(p))
  BY ParentIs
<1>6. Under(p, q) /\ Len(q) <= Len(p) - 1 /\ Len(q) \in Nat
  BY <1>2, <1>4, <1>5, UnderTransitive DEF Under, Path
<1>7. r \in Path /\ q \o r = p
  BY <1>4, <1>6, JoinedFrom
<1> HIDE DEF dir, r, links
<1>8. r # <<>>
  <2>1. r = <<>> => p = q
    BY <1>4, <1>7, ConcatEmptySeq DEF Path
  <2> QED  BY <1>5, <1>6, <2>1
<1>9. /\ Parent(dir \o r) = dir \o Parent(r) /\ Parent(r) \in Path
      /\ Len(r) \in Nat \ {0}
  BY <1>4, <1>7, <1>8, ParentJoined, ParentIs
<1>10. /\ dir \o r \in Path /\ Under(dir \o r, dir)
       /\ dir \o Parent(r) \in Path /\ Under(dir \o Parent(r), dir)
  BY <1>4, <1>7, <1>9, Joined, UnderJoined
<1>11. dir \o r # Root
  <2>1. Len(dir \o r) = Len(dir) + Len(r)
    BY <1>4, <1>7, ConcatProperties DEF Path
  <2>2. Len(Root) \in Nat /\ Len(dir) \in Nat /\ Len(Root) <= Len(dir)
    BY <1>4, BelowRoot
  <2> QED  BY <1>9, <2>1, <2>2
<1> QED  BY <1>1, <1>3, <1>9, <1>10, <1>11 DEF dir, links

\* What is outside of p has its parent outside of p.
LEMMA ParentOutside ==
    ASSUME NEW p \in Path, NEW q \in Path, q # <<>>, ~Under(q, p)
    PROVE  ~Under(Parent(q), p)
  BY ParentIs, UnderTransitive

\* remove_dir_all and remove_file leave a tree.
LEMMA RemoveUpright ==
    ASSUME NEW t, Upright(t), NEW p \in Path, Under(p, Root), p # Root
    PROVE  Upright(Remove(t, p))
<1> DEFINE u == Remove(t, p)
<1>1. /\ DOMAIN u = {r \in DOMAIN t : ~Under(r, p)}
      /\ \A r \in DOMAIN u : u[r] = t[r]
  BY DEF Remove
<1>2. ~Under(Root, p)
  BY BelowRoot DEF Under
<1>3. ASSUME NEW q \in DOMAIN u, q # Root
      PROVE  IsDir(u, Parent(q))
  <2>1. q \in Path /\ Under(q, Root) /\ IsDir(t, Parent(q)) /\ ~Under(q, p)
    BY <1>1, <1>3 DEF Upright, IsTree
  <2>2. ~Under(Parent(q), p)
    BY <1>3, <2>1, BelowRoot, ParentOutside
  <2> QED  BY <1>1, <2>1, <2>2 DEF IsDir, Exists
<1> HIDE DEF u
<1>4. Upright(u)
  BY <1>1, <1>2, <1>3 DEF Upright, IsTree
<1> QED  BY <1>4 DEF u

\* So does putting something where the directory above it is.
LEMMA ReplaceUpright ==
    ASSUME NEW t, Upright(t), NEW p \in Path, Under(p, Root), p # Root,
           IsDir(t, Parent(p)), NEW new, Grown(new)
    PROVE  Upright(Replace(t, p, new))
<1> DEFINE u == Replace(t, p, new)
<1>1. /\ DOMAIN u = {r \in DOMAIN t : ~Under(r, p)} \union {p \o r : r \in DOMAIN new}
      /\ \A q \in DOMAIN u : u[q] = IF Under(q, p) THEN new[From(q, p)] ELSE t[q]
  BY DEF Replace
<1>2. ~Under(Root, p) /\ Root \in Path /\ p # <<>>
  BY BelowRoot, TreeAssumption DEF Under, Path
<1>3. ASSUME NEW r \in DOMAIN new
      PROVE  /\ r \in Path /\ p \o r \in Path /\ Under(p \o r, p)
             /\ Under(p \o r, Root) /\ p \o r \in DOMAIN u /\ u[p \o r] = new[r]
  <2>1. r \in Path
    BY DEF Grown, Path
  <2>2. p \o r \in Path /\ Under(p \o r, p) /\ From(p \o r, p) = r
    BY <2>1, Joined, UnderJoined, FromJoined
  <2>3. Under(p \o r, Root)
    BY <1>2, <2>2, UnderTransitive
  <2>4. p \o r \in DOMAIN u
    BY <1>1
  <2> QED  BY <1>1, <2>1, <2>2, <2>3, <2>4
<1>4. ASSUME NEW q \in DOMAIN t, ~Under(q, p)
      PROVE  /\ q \in Path /\ q \in DOMAIN u /\ u[q] = t[q]
             /\ q # <<>> => ~Under(Parent(q), p)
  <2>1. q \in Path
    BY DEF Upright, IsTree
  <2> QED  BY <1>1, <1>4, <2>1, ParentOutside
<1>5. ASSUME NEW r \in DOMAIN new
      PROVE  IsDir(u, Parent(p \o r))
  <2>1. CASE r = <<>>
    <3>1. p \o r = p
      BY <2>1, ConcatEmptySeq DEF Path
    <3>2. ~Under(Parent(p), p)
      BY <1>2, ParentIs DEF Under
    <3> QED  BY <1>4, <3>1, <3>2 DEF IsDir, Exists
  <2>2. CASE r # <<>>
    <3>1. Parent(p \o r) = p \o Parent(r)
      BY <1>3, <2>2, ParentJoined
    <3>2. Parent(r) \in DOMAIN new /\ new[Parent(r)] = Dir
      BY <2>2 DEF Grown, IsDir, Exists
    <3> QED  BY <1>3, <3>1, <3>2 DEF IsDir, Exists
  <2> QED  BY <2>1, <2>2
<1>6. ASSUME NEW q \in DOMAIN t, ~Under(q, p), q # Root
      PROVE  IsDir(u, Parent(q))
  <2>1. q # <<>> /\ IsDir(t, Parent(q))
    BY <1>4, <1>6, BelowRoot DEF Upright
  <2>2. Parent(q) \in DOMAIN t /\ t[Parent(q)] = Dir
    BY <2>1 DEF IsDir, Exists
  <2>3. ~Under(Parent(q), p)
    BY <1>4, <1>6, <2>1
  <2>4. Parent(q) \in DOMAIN u /\ u[Parent(q)] = t[Parent(q)]
    BY <1>4, <2>2, <2>3
  <2> QED  BY <2>2, <2>4 DEF IsDir, Exists
<1>7. Root \in DOMAIN u /\ DOMAIN u \subseteq Path
  <2>1. Root \in DOMAIN t /\ ~Under(Root, p)
    BY <1>2 DEF Upright, IsTree
  <2>2. Root \in DOMAIN u
    BY <1>1, <2>1
  <2>3. DOMAIN u \subseteq Path
    BY <1>1, <1>3, <1>4
  <2> QED  BY <2>2, <2>3
<1>8. ASSUME NEW q \in DOMAIN u
      PROVE  /\ Under(q, Root) /\ u[q] \in Contents \union {Dir}
             /\ q # Root => IsDir(u, Parent(q))
  <2>1. CASE q \in DOMAIN t /\ ~Under(q, p)
    BY <1>4, <1>6, <2>1 DEF Upright
  <2>2. CASE \E r \in DOMAIN new : q = p \o r
    BY <1>3, <1>5, <2>2 DEF Grown
  <2> QED  BY <1>1, <2>1, <2>2
<1> HIDE DEF u
<1>9. Upright(u)
  BY <1>7, <1>8 DEF Upright, IsTree
<1> QED  BY <1>9 DEF u

\* What can be put in a place holds in itself what can be put in one.
LEMMA SubtreeGrown ==
    ASSUME NEW t, DOMAIN t \subseteq Path, NEW p \in DOMAIN t,
           \A q \in DOMAIN t : /\ t[q] \in Contents \union {Dir}
                               /\ q # p /\ Under(q, p) => IsDir(t, Parent(q))
    PROVE  Grown(Subtree(t, p))
<1> DEFINE u == Subtree(t, p)
<1>1. /\ DOMAIN u = {From(q, p) : q \in {s \in DOMAIN t : Under(s, p)}}
      /\ \A r \in DOMAIN u : u[r] = t[p \o r]
  BY DEF Subtree
<1>2. p \in Path /\ <<>> \in Path /\ p \o <<>> = p
  BY EmptySeq, ConcatEmptySeq DEF Path
<1>3. \A r \in Path : p \o r \in DOMAIN t => r \in DOMAIN u
  BY <1>1, <1>2, Joined, UnderJoined, FromJoined
<1>4. \A r \in DOMAIN u : r \in Path /\ p \o r \in DOMAIN t /\ Under(p \o r, p)
  BY <1>1, <1>2, JoinedFrom
<1>5. ASSUME NEW r \in DOMAIN u, r # <<>>
      PROVE  IsDir(u, Parent(r))
  <2>1. r \in Path /\ p \o r \in DOMAIN t /\ Under(p \o r, p) /\ Parent(r) \in Path
    BY <1>4, <1>5, ParentIs
  <2>2. p \o r # p
    <3>1. From(p \o r, p) = r /\ From(p \o <<>>, p) = <<>>
      BY <1>2, <2>1, FromJoined
    <3> QED  BY <1>2, <1>5, <3>1
  <2>3. IsDir(t, Parent(p \o r)) /\ Parent(p \o r) = p \o Parent(r)
    BY <1>2, <1>5, <2>1, <2>2, ParentJoined
  <2> QED  BY <1>1, <1>3, <2>1, <2>3 DEF IsDir, Exists
<1>6. <<>> \in DOMAIN u
  BY <1>2, <1>3
<1>7. \A r \in DOMAIN u : u[r] \in Contents \union {Dir}
  BY <1>1, <1>4
<1>8. DOMAIN u \subseteq Seq(STRING)
  BY <1>4 DEF Path
<1> HIDE DEF u
<1>9. Grown(u)
  BY <1>5, <1>6, <1>7, <1>8 DEF Grown
<1> QED  BY <1>9 DEF u

\* An archive can be put in a place, with or without its root.
LEMMA UnpackedGrown ==
    ASSUME NEW ar, Grown(ar)
    PROVE  Grown(Unpacked(ar))
<1>1. ASSUME NEW p \in DOMAIN ar
      PROVE  Grown(Subtree(ar, p))
  <2>1. DOMAIN ar \subseteq Path
    BY DEF Grown, Path
  <2>2. ASSUME NEW q \in DOMAIN ar, q # p, Under(q, p)
        PROVE  q # <<>>
    <3>1. q \in Path /\ p \in Path
      BY <2>1
    <3>2. q = <<>> => Len(p) = 0 /\ Len(q) = 0
      BY <2>2, <3>1, EmptySeq DEF Under, Path
    <3>3. q = <<>> => p = <<>>
      BY <3>1, <3>2, EmptySeq DEF Path
    <3> QED  BY <2>2, <3>3
  <2>3. \A q \in DOMAIN ar : /\ ar[q] \in Contents \union {Dir}
                             /\ q # p /\ Under(q, p) => IsDir(ar, Parent(q))
    BY <2>2 DEF Grown
  <2> QED  BY <2>1, <2>3, SubtreeGrown
<1>2. ASSUME NEW top, top \subseteq DOMAIN ar, top # {}
      PROVE  (CHOOSE r \in top : TRUE) \in DOMAIN ar
  BY <1>2
<1> QED  BY <1>1, <1>2 DEF Unpacked

\* A single file can be put in a place.
LEMMA FileGrown ==
    ASSUME NEW c \in Contents
    PROVE  Grown(File(c))
<1>1. /\ DOMAIN File(c) = {<<>>} /\ File(c)[<<>>] = c
      /\ <<>> \in Seq(STRING)
  BY EmptySeq DEF File
<1> HIDE DEF File
<1> QED  BY <1>1 DEF Grown

\* A directory that is packed and unpacked again is what it was.
LEMMA PackedUnpacked ==
    ASSUME NEW t, DOMAIN t \subseteq Path, NEW p \in DOMAIN t, p # <<>>,
           t[p] = Dir
    PROVE  Unpacked(Packed(t, p)) = Subtree(t, p)
<1> DEFINE name == <<p[Len(p)]>>
           sub == Subtree(t, p)
           ar == Packed(t, p)
<1>1. name \in Path /\ Len(name) = 1 /\ name # <<>>
  <2>1. p \in Path /\ Len(p) \in 1 .. Len(p)
    BY EmptySeq DEF Path
  <2>2. p[Len(p)] \in STRING
    BY <2>1, ElementOfSeq DEF Path
  <2>3. \A S : \A n \in S : <<n>> \in Seq(S) /\ Len(<<n>>) = 1 /\ <<n>> # <<>>
    OBVIOUS
  <2> QED  BY <2>2, <2>3 DEF Path
<1>2. /\ DOMAIN sub = {From(q, p) : q \in {s \in DOMAIN t : Under(s, p)}}
      /\ \A r \in DOMAIN sub : r \in Path /\ sub[r] = t[p \o r]
      /\ <<>> \in DOMAIN sub /\ sub[<<>>] = Dir
  <2>1. p \in Path /\ <<>> \in Path /\ p \o <<>> = p
    BY EmptySeq, ConcatEmptySeq DEF Path
  <2>2. /\ DOMAIN sub = {From(q, p) : q \in {s \in DOMAIN t : Under(s, p)}}
        /\ \A r \in DOMAIN sub : sub[r] = t[p \o r]
    BY DEF Subtree
  <2>3. \A r \in DOMAIN sub : r \in Path
    BY <2>1, <2>2, JoinedFrom
  <2>4. Under(p, p) /\ From(p, p) = <<>>
    BY <2>1, UnderItself, FromJoined
  <2>5. <<>> \in DOMAIN sub
    BY <2>2, <2>4
  <2>6. sub[<<>>] = Dir
    BY <2>1, <2>2, <2>5
  <2> QED  BY <2>2, <2>3, <2>5, <2>6
<1>3. /\ DOMAIN ar = {<<>>} \union {name \o q : q \in DOMAIN sub}
      /\ \A r \in DOMAIN ar : ar[r] = IF r = <<>> THEN Dir ELSE sub[Tail(r)]
  BY DEF Packed
<1> HIDE DEF name, sub, ar
<1>4. ASSUME NEW q \in Path
      PROVE  /\ name \o q \in Path /\ name \o q # <<>> /\ Tail(name \o q) = q
             /\ Len(name \o q) = 1 + Len(q) /\ Len(q) \in Nat
             /\ Under(name \o q, name) /\ From(name \o q, name) = q
  <2>1. /\ name \o q \in Path /\ Len(name \o q) = 1 + Len(q) /\ Len(q) \in Nat
        /\ \A i \in 1 .. 1 + Len(q) :
               (name \o q)[i] = IF i <= 1 THEN name[i] ELSE q[i - 1]
    <3>1. name \in Seq(STRING) /\ q \in Seq(STRING) /\ Len(q) \in Nat
      BY <1>1 DEF Path
    <3>2. /\ name \o q \in Seq(STRING) /\ Len(name \o q) = Len(name) + Len(q)
          /\ \A i \in 1 .. Len(name) + Len(q) :
                 (name \o q)[i] = IF i <= Len(name) THEN name[i] ELSE q[i - Len(name)]
      BY <3>1, ConcatProperties
    <3> QED  BY <1>1, <3>1, <3>2 DEF Path
  <2>2. name \o q # <<>>
    BY <2>1, EmptySeq DEF Path
  <2>3. /\ Tail(name \o q) \in Path /\ Len(Tail(name \o q)) = Len(q)
        /\ \A i \in 1 .. Len(q) : Tail(name \o q)[i] = (name \o q)[i + 1]
    BY <2>1, <2>2, HeadTailProperties DEF Path
  <2>4. \A i \in 1 .. Len(q) : Tail(name \o q)[i] = q[i]
    BY <2>1, <2>3
  <2>5. Tail(name \o q) = q
    BY <2>1, <2>3, <2>4, SeqEqual DEF Path
  <2> QED  BY <1>1, <2>1, <2>2, <2>5, UnderJoined, FromJoined
<1>5. name \in DOMAIN ar /\ ar[name] = Dir
  <2>1. <<>> \in Path /\ name \o <<>> = name
    BY <1>1, EmptySeq, ConcatEmptySeq DEF Path
  <2> QED  BY <1>1, <1>2, <1>3, <1>4, <2>1
<1>6. {r \in DOMAIN ar : Len(r) = 1} = {name}
  <2>1. ASSUME NEW r \in DOMAIN ar, Len(r) = 1
        PROVE  r = name
    <3>1. r # <<>>
      BY <2>1, EmptySeq
    <3>2. PICK q \in DOMAIN sub : r = name \o q
      BY <1>3, <3>1
    <3>3. q \in Path /\ Len(q) = 0
      BY <1>2, <1>4, <2>1, <3>2
    <3>4. q = <<>>
      BY <3>3, EmptySeq DEF Path
    <3> QED  BY <1>1, <3>2, <3>4, ConcatEmptySeq DEF Path
  <2> QED  BY <1>1, <1>5, <2>1
<1>7. Unpacked(ar) = Subtree(ar, name)
  BY <1>5, <1>6 DEF Unpacked
<1>8. {From(q, name) : q \in {s \in DOMAIN ar : Under(s, name)}} = DOMAIN sub
  <2>1. ~Under(<<>>, name)
    BY <1>1, EmptySeq DEF Under
  <2>2. \A q \in DOMAIN sub : /\ name \o q \in DOMAIN ar
                             /\ Under(name \o q, name)
                             /\ From(name \o q, name) = q
    BY <1>2, <1>3, <1>4
  <2>3. ASSUME NEW s \in DOMAIN ar, Under(s, name)
        PROVE  From(s, name) \in DOMAIN sub
    <3>1. PICK q \in DOMAIN sub : s = name \o q
      BY <1>3, <2>1, <2>3
    <3> QED  BY <2>2, <3>1
  <2> QED  BY <2>2, <2>3
<1>9. \A r \in DOMAIN sub : ar[name \o r] = sub[r]
  BY <1>2, <1>3, <1>4
<1>10. Subtree(ar, name) = [r \in DOMAIN sub |-> sub[r]]
  BY <1>8, <1>9 DEF Subtree
<1>11. sub = [r \in DOMAIN sub |-> sub[r]]
  BY DEF sub, Subtree
<1> QED  BY <1>7, <1>10, <1>11 DEF sub, ar
=============================================================================
