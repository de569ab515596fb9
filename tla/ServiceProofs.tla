--------------------------- MODULE ServiceProofs ----------------------------
(***************************************************************************)
(* Proofs about the RPCs one after the other: dates, limits and workspaces,*)
(* for any requests, configurations and numbers of calls.                  *)
(***************************************************************************)
EXTENDS Service, CivilDateProofs, FileTreeProofs

-----------------------------------------------------------------------------
(* Dates: calls leave the calendar alone.                                  *)

\* An object is filed under the right day, whenever it is uploaded.
THEOREM ServiceDates == Spec => []DateRight
<1>  DEFINE Inv == day \in Nat /\ DateRight
<1>1. Init => Inv
  BY Epoch DEF Init, DateInit, DateRight
<1>2. Inv /\ [Next]_vars => Inv'
  <2>  SUFFICES ASSUME Inv, [Next]_vars PROVE Inv'
    OBVIOUS
  <2>1. [Midnight]_<<day, date>>
    BY DEF Next, Call, NewDay, vars
  <2>. QED
    BY <2>1, DateStep
<1>. QED
  BY <1>1, <1>2, PTL DEF Spec

-----------------------------------------------------------------------------
(* Limits.                                                                 *)

\* The configuration in use is one that Config::validate accepts.
ConfigOK == settings \in Settings /\ Valid(settings)

\* What a request and the tool layer ask for are numbers.
Asked == [Fields -> Nat]

\* What call_tool asks for are numbers, as in any request.
LEMMA ToolAsksNumbers ==
    ASSUME ConfigOK, NEW args, NEW timeout \in Timeouts
    PROVE  ToolAsks(args, timeout, settings) \in Asked
<1>1. settings.heavy \in [Caps -> Nat]
  BY SettingsAssumption DEF ConfigOK
<1>2. timeout \in Nat /\ Number(args.timeout_seconds) \in Nat
  BY RequestAssumption DEF Number
<1>3. \A f \in Fields : f # "timeout_seconds" => f \in Caps
  BY DEF Fields
<1>. QED
  BY <1>1, <1>2, <1>3 DEF ToolAsks, Asked

\* Zero is replaced by the default, and no conversion makes a limit vanish.
LEMMA ContainerIsCapped ==
    ASSUME ConfigOK, NEW asked \in Asked
    PROVE  LET c == ContainerFor(asked, settings)
           IN  /\ c.user > 0
               /\ \A f \in Fields : c.limits[f] > 0 \/ settings.default[f] = 0
<1>  DEFINE p == OrDefault(asked, settings)
            c == ContainerFor(asked, settings)
<1>1. settings.default \in [Fields -> Nat] /\ settings.agent_uid \in Nat
  BY SettingsAssumption DEF ConfigOK
<1>2. p \in [Fields -> Nat]
  BY <1>1 DEF OrDefault, Asked
<1>3. \A f \in Fields : p[f] > 0 \/ settings.default[f] = 0
  BY <1>1 DEF OrDefault, Asked
<1>4. c.user > 0
  BY <1>1 DEF ConfigOK, Valid, ContainerFor
<1>5. c.limits = [p EXCEPT !["memory_bytes"] = Memory(p["memory_bytes"])]
  BY DEF ContainerFor
<1>6. "memory_bytes" \in Fields
  BY DEF Fields, Caps
<1>7. p["memory_bytes"] > 0 => Memory(p["memory_bytes"]) > 0
  BY <1>2, <1>6, SettingsAssumption DEF Memory
<1>  HIDE DEF p, c
<1>8. \A f \in Fields : c.limits[f] > 0 \/ settings.default[f] = 0
  BY <1>2, <1>3, <1>5, <1>6, <1>7
<1>. QED
  BY <1>4, <1>8 DEF c

\* A step leaves no container, or one for numbers that were asked for.
LEMMA LatestContainer ==
    ASSUME ConfigOK, [Next]_vars
    PROVE  \/ last' = last
           \/ last'.container = NoContainer
           \/ \E asked \in Asked :
                  last'.container = ContainerFor(asked, settings)
<1>1. CASE \E w \in Ids \union Strangers : Call(w)
  <2>  PICK w \in Ids \union Strangers : Call(w)
    BY <1>1
  <2>1. ASSUME NEW asked \in Asked, NEW cmd, NEW allowed,
               Execute(w, asked, cmd, allowed)
        PROVE  \/ last'.container = NoContainer
               \/ last'.container = ContainerFor(asked, settings)
    BY <2>1 DEF Execute, Called
  <2>2. CASE \E cmd \in Commands, asked \in Limits \union {WithTime(NoLimits, 0)} :
                 Exec(w, asked, cmd)
    <3>1. Limits \union {WithTime(NoLimits, 0)} \subseteq Asked
      BY RequestAssumption DEF WithTime, NoLimits, Asked
    <3>. QED
      BY <2>1, <2>2, <3>1 DEF Exec
  <2>3. CASE \E cmd \in Commands, args \in ShellArgs, t \in Timeouts :
                 CallShell(w, args, t, cmd)
    <3>  PICK cmd \in Commands, args \in ShellArgs, t \in Timeouts :
                 CallShell(w, args, t, cmd)
      BY <2>3
    <3>1. ToolAsks(args, t, settings) \in Asked
      BY ToolAsksNumbers
    <3>. QED
      BY <2>1, <3>1 DEF CallShell, Called
  <2>4. ASSUME NEW rel, NEW c, Fetch(w, rel, c)
        PROVE  last'.container = NoContainer
    BY <2>4 DEF Fetch, Called
  <2>5. ASSUME NEW rel, NEW new, Import(w, rel, new)
        PROVE  last'.container = NoContainer
    BY <2>5 DEF Import, Called
  <2>6. CASE \E rel \in RelPaths :
                 \/ \E c \in Contents \ Links : ImportRaw(w, rel, c) \/ Fetch(w, rel, c)
                 \/ \E ar \in Archives : ImportTarGz(w, rel, ar)
    BY <2>4, <2>5, <2>6 DEF ImportRaw, ImportTarGz
  <2>7. CASE Delete(w)
    BY <2>7 DEF Delete, Called
  <2>8. CASE CallOther(w)
    BY <2>8 DEF CallOther, Called
  <2>9. CASE \E args, rel : CallDeliver(w, args, rel)
    BY <2>9 DEF CallDeliver, Called
  <2>. QED
    BY <2>2, <2>3, <2>6, <2>7, <2>8, <2>9 DEF Call, Change, Ask
<1>2. CASE NewDay \/ UNCHANGED vars
  BY <1>2 DEF NewDay, vars
<1>. QED
  BY <1>1, <1>2 DEF Next

\* Whatever a client or a tool asks for, of any configuration that is valid: no
\* limit vanishes whose default is not 0.  Config::validate accepts a default of
\* 0, and Docker takes it for no limit.
THEOREM ContainersCapped == Spec => []Capped
<1>  DEFINE Inv == ConfigOK /\ Capped
<1>1. Init => Inv
  BY DEF Init, ConfigOK, Capped, Called
<1>2. Inv /\ [Next]_vars => Inv'
  <2>  SUFFICES ASSUME Inv, [Next]_vars PROVE Inv'
    OBVIOUS
  <2>1. settings' = settings
    BY DEF Next, Call, NewDay, vars
  <2>2. ConfigOK'
    BY <2>1 DEF ConfigOK, Valid
  <2>3. Capped'
    <3>1. CASE last' = last
      BY <2>1, <3>1 DEF Capped
    <3>2. CASE last'.container = NoContainer
      BY <3>2 DEF Capped, NoContainer
    <3>3. ASSUME NEW asked \in Asked,
                 last'.container = ContainerFor(asked, settings)
          PROVE  Capped'
      BY <2>1, <3>3, ContainerIsCapped DEF Capped
    <3>. QED
      BY <3>1, <3>2, <3>3, LatestContainer
  <2>. QED
    BY <2>2, <2>3
<1>. QED
  BY <1>1, <1>2, PTL DEF Spec

-----------------------------------------------------------------------------
(* Workspaces.                                                             *)

\* What a request leads to is a path, with neither "." nor ".." in it.
LEMMA TargetIsClear ==
    ASSUME NEW w \in Ids, NEW rel \in RelPaths
    PROVE  Target(w, rel) \in Clear /\ Target(w, rel) \in Path
<1>1. rel.names \in Path /\ Home(w) \in Path
  BY RequestAssumption, Places DEF Path
<1>2. Join(Home(w), rel) \in Path
  BY <1>1, Joined DEF Join
<1>. QED
  BY <1>2, CleanLeavesNoDots DEF Target, Clear

\* A path in a workspace is below the root, and so is its parent.
LEMMA InWorkspace ==
    ASSUME NEW w \in Ids, NEW p \in Path, Under(p, Home(w))
    PROVE  /\ Under(p, Root) /\ p # Root /\ p # <<>>
           /\ Under(p, Place(w))
           /\ Parent(p) \in Path /\ Under(Parent(p), Root)
           /\ Under(Parent(p), Place(w))
<1>1. /\ Root \in Path /\ Len(Root) \in Nat /\ Len(p) \in Nat
      /\ Place(w) \in Path /\ Len(Place(w)) = Len(Root) + 1
      /\ Home(w) \in Path /\ Len(Home(w)) = Len(Root) + 2
      /\ Under(Place(w), Root) /\ Under(Home(w), Place(w))
  BY Places, TreeAssumption DEF Path
<1>2. Under(p, Place(w)) /\ Under(p, Root)
  BY <1>1, UnderTransitive
<1>3. Len(Place(w)) < Len(p) /\ Len(Root) < Len(p)
  BY <1>1 DEF Under
<1>4. /\ Parent(p) \in Path /\ Under(Parent(p), Root)
      /\ Under(Parent(p), Place(w))
  BY <1>1, <1>2, <1>3, ParentUnder DEF Parent
<1>5. p # Root /\ p # <<>>
  BY <1>1, <1>3, EmptySeq
<1>. QED
  BY <1>2, <1>4, <1>5

\* What differs between two trees is what a call on w may change.
Within(t, u, w) ==
    \A p \in DOMAIN t \union DOMAIN u :
        \/ p \in DOMAIN t /\ p \in DOMAIN u /\ u[p] = t[p]
        \/ Owns(w, p)

\* A tree again, that differs only in what a call on w may change.
Stays(t, u, w) == Upright(u) /\ Within(t, u, w)

\* One change after the other.
LEMMA WithinTransitive ==
    ASSUME NEW t, NEW u, NEW v, NEW w, Within(t, u, w), Within(u, v, w)
    PROVE  Within(t, v, w)
  BY DEF Within

\* Changes below the directory of a workspace, or below the destination of one
\* of its links.
LEMMA ApartWithin ==
    ASSUME NEW t, NEW u, NEW w \in Ids, NEW dir, Apart(t, u, dir),
           \/ dir = Place(w)
           \/ \E q \in LinksBelow(fs, Home(w)) : dir = Points[fs[q]]
    PROVE  Within(t, u, w)
  BY DEF Apart, Within, Owns

\* ensure_home makes nothing but directories, the home directory among them.
LEMMA EnsuredStays ==
    ASSUME NEW w, Upright(fs)
    PROVE  /\ Stays(fs, Ensured(w), w)
           /\ DOMAIN fs \subseteq DOMAIN Ensured(w)
           /\ \A q \in DOMAIN Ensured(w) :
                  IF q \in DOMAIN fs THEN Ensured(w)[q] = fs[q]
                  ELSE Ensured(w)[q] = Dir
<1>1. CASE HomeFails(w)
  BY <1>1 DEF Ensured, Stays, Within
<1>2. CASE ~HomeFails(w)
  <2>1. w \in Ids /\ ~Blocked(fs, Home(w)) /\ Ensured(w) = CreateDirs(fs, Home(w))
    BY <1>2 DEF HomeFails, Ensured
  <2>2. /\ Home(w) \in Path /\ Under(Home(w), Place(w)) /\ Under(Home(w), Root)
        /\ Root \in DOMAIN fs
    <3>1. Root \in Path
      BY TreeAssumption DEF Path
    <3>. QED
      BY <2>1, <3>1, Places, UnderTransitive DEF Upright, IsTree
  <2>3. Upright(Ensured(w))
    BY <2>1, <2>2, CreateDirsUpright
  <2>4. Apart(fs, Ensured(w), Place(w))
    BY <2>1, <2>2, PlacePrefixes, CreateDirsApart
  <2>5. Within(fs, Ensured(w), w)
    BY <2>1, <2>4, ApartWithin
  <2>. QED
    BY <2>1, <2>3, <2>5 DEF Stays, CreateDirs
<1>. QED
  BY <1>1, <1>2

\* Where a call on w may write: below a directory above which nothing is
\* missing, that of w or one that a link in its home leads to.
LEMMA WrittenPlace ==
    ASSUME NEW w, NEW rel \in RelPaths, Reachable(w, rel), Upright(fs)
    PROVE  /\ w \in Ids
           /\ Written(w, rel) \in Path /\ Parent(Written(w, rel)) \in Path
           /\ Written(w, rel) # Root
           /\ \E dir \in Path :
                  /\ \/ dir = Place(w)
                     \/ \E q \in LinksBelow(fs, Home(w)) : dir = Points[fs[q]]
                  /\ Under(dir, Root)
                  /\ Under(Written(w, rel), dir)
                  /\ Under(Parent(Written(w, rel)), dir)
                  /\ \A q \in Prefixes(Parent(Written(w, rel))) :
                         Under(q, dir) \/ q \in DOMAIN Ensured(w)
<1>  DEFINE t == Target(w, rel)
            E == Ensured(w)
            s == Written(w, rel)
<1>1. w \in Ids /\ t \in Path /\ Under(t, Home(w)) /\ ~ParentFails(E, t)
  BY TargetIsClear DEF Reachable, Resolves
<1>2. /\ Under(t, Root) /\ t # Root /\ t # <<>>
      /\ Under(t, Place(w)) /\ Parent(t) \in Path /\ Under(Parent(t), Place(w))
  BY <1>1, InWorkspace
<1>3. /\ Upright(E)
      /\ \A q \in DOMAIN E : IF q \in DOMAIN fs THEN E[q] = fs[q] ELSE E[q] = Dir
  BY EnsuredStays DEF Stays
<1>4. /\ Place(w) \in Path /\ Under(Place(w), Root) /\ Root \in DOMAIN E
      /\ DOMAIN E \subseteq Path
  BY <1>1, <1>3, Places DEF Upright, IsTree
<1>  HIDE DEF t, E
<1>5. s = Spot(E, t)
  BY DEF Written, t, E
<1>  HIDE DEF s
<1>6. CASE LinksTo(E, Parent(t)) = {}
  <2>1. s = t
    BY <1>5, <1>6 DEF Spot, Follow
  <2>2. \A q \in Prefixes(Parent(t)) : Under(q, Place(w)) \/ q \in DOMAIN E
    BY <1>1, <1>2, <1>4, PlacePrefixes
  <2>. QED
    BY <1>1, <1>2, <1>4, <2>1, <2>2 DEF s, E
<1>7. CASE LinksTo(E, Parent(t)) # {}
  <2>1. PICK q \in LinksTo(E, Parent(t)) :
                 /\ Points[E[q]] \in DOMAIN E
                 /\ s \in Path /\ s # Root /\ Under(s, Points[E[q]])
                 /\ Parent(s) \in Path /\ Under(Parent(s), Points[E[q]])
    BY <1>1, <1>2, <1>3, <1>5, <1>7, ThroughLink
  <2>2. q \in DOMAIN E /\ E[q] \in Links /\ Under(Parent(t), q) /\ q \in Path
    BY <1>4, <2>1 DEF LinksTo
  <2>3. q \in DOMAIN fs /\ fs[q] = E[q] /\ fs[q] # Dir
    BY <1>3, <2>2, TreeAssumption
  <2>4. Under(q, Home(w))
    <3>1. ~Under(Home(w), q)
      BY <1>1, <2>3 DEF Reachable, HomeFails, Blocked
    <3>2. Under(t, Parent(t))
      BY <1>1, <1>2, ParentIs
    <3>3. Under(t, q) /\ Home(w) \in Path
      BY <1>1, <1>2, <2>2, <3>2, UnderTransitive, Places
    <3>4. Len(q) \in Nat /\ Len(Home(w)) \in Nat
      BY <2>2, <3>3 DEF Path
    <3>5. /\ \A i \in 1 .. Len(q) : t[i] = q[i]
          /\ \A i \in 1 .. Len(Home(w)) : t[i] = Home(w)[i]
      BY <1>1, <2>2, <3>3, UnderMeans
    <3>6. Len(Home(w)) <= Len(q)
      <4>1. Len(q) <= Len(Home(w)) => \A i \in 1 .. Len(q) : Home(w)[i] = q[i]
        BY <3>4, <3>5
      <4>. QED
        BY <2>2, <3>1, <3>3, <3>4, <4>1, UnderMeans
    <3>7. \A i \in 1 .. Len(Home(w)) : q[i] = Home(w)[i]
      BY <3>4, <3>5, <3>6
    <3>. QED
      BY <2>2, <3>3, <3>6, <3>7, UnderMeans
  <2>5. q \in LinksBelow(fs, Home(w))
    BY <2>2, <2>3, <2>4 DEF LinksBelow
  <2>6. \A p \in Prefixes(Parent(s)) : Under(p, Points[E[q]]) \/ p \in DOMAIN E
    BY <1>3, <2>1, PrefixesBelow
  <2>7. Points[E[q]] \in Path /\ Under(Points[E[q]], Root)
    BY <1>3, <1>4, <2>1 DEF Upright
  <2>. QED
    BY <1>1, <2>1, <2>3, <2>5, <2>6, <2>7 DEF s, E
<1>. QED
  BY <1>6, <1>7

\* What a call on w makes there, and what it then puts in its place.
LEMMA WrittenStays ==
    ASSUME NEW w, NEW rel \in RelPaths, Reachable(w, rel), Upright(fs)
    PROVE  /\ Stays(fs, WithParent(w, rel), w)
           /\ \A new : Grown(new) =>
                  Stays(fs, Replace(WithParent(w, rel), Written(w, rel), new), w)
<1>  DEFINE s == Written(w, rel)
            E == Ensured(w)
            u == WithParent(w, rel)
<1>1. w \in Ids /\ s \in Path /\ s # Root /\ Parent(s) \in Path
  BY WrittenPlace
<1>2. PICK dir \in Path :
          /\ \/ dir = Place(w)
             \/ \E q \in LinksBelow(fs, Home(w)) : dir = Points[fs[q]]
          /\ Under(dir, Root) /\ Under(s, dir) /\ Under(Parent(s), dir)
          /\ \A q \in Prefixes(Parent(s)) : Under(q, dir) \/ q \in DOMAIN E
  BY WrittenPlace
<1>3. Root \in Path
  BY TreeAssumption DEF Path
<1>4. Under(s, Root) /\ Under(Parent(s), Root)
  BY <1>1, <1>2, <1>3, UnderTransitive
<1>5. Upright(E) /\ Within(fs, E, w)
  BY EnsuredStays DEF Stays
<1>6. ~Blocked(E, Parent(s)) /\ u = CreateDirs(E, Parent(s))
  BY DEF Reachable, ParentFails, WithParent, Written
<1>  HIDE DEF s, E, u
<1>7. Upright(u) /\ IsDir(u, Parent(s))
  BY <1>1, <1>4, <1>5, <1>6, CreateDirsUpright
<1>8. Within(fs, u, w)
  <2>1. Apart(E, u, dir)
    BY <1>2, <1>6, CreateDirsApart
  <2>. QED
    BY <1>1, <1>2, <1>5, <2>1, ApartWithin, WithinTransitive
<1>9. ASSUME NEW new, Grown(new)
      PROVE  Stays(fs, Replace(u, s, new), w)
  <2>1. Upright(Replace(u, s, new))
    BY <1>1, <1>4, <1>7, <1>9, ReplaceUpright
  <2>2. DOMAIN u \subseteq Path /\ DOMAIN new \subseteq Path
    BY <1>7, <1>9 DEF Upright, IsTree, Grown, Path
  <2>3. Apart(u, Replace(u, s, new), dir)
    BY <1>1, <1>2, <2>2, ReplaceApart
  <2>4. Within(u, Replace(u, s, new), w)
    BY <1>1, <1>2, <2>3, ApartWithin
  <2>. QED
    BY <1>8, <2>1, <2>4, WithinTransitive DEF Stays
<1>. QED
  BY <1>7, <1>8, <1>9 DEF Stays, s, u

\* A command works below the home directory.
LEMMA RunStays ==
    ASSUME NEW w \in Ids, NEW t, Upright(t), NEW cmd \in Commands
    PROVE  Stays(t, Run(t, w, cmd), w)
<1>  DEFINE p == Home(w) \o cmd.path
            u == CreateDirs(t, Parent(p))
            v == Replace(u, p, File(cmd.content))
<1>1. cmd.path \in Path /\ cmd.content \in Contents /\ Home(w) \in Path
  BY RequestAssumption, Places DEF Path
<1>2. p \in Path /\ Under(p, Home(w))
  BY <1>1, Joined, UnderJoined
<1>3. /\ Under(p, Root) /\ p # Root /\ Under(p, Place(w))
      /\ Parent(p) \in Path /\ Under(Parent(p), Root)
      /\ Under(Parent(p), Place(w)) /\ Place(w) \in Path
      /\ DOMAIN t \subseteq Path /\ Root \in DOMAIN t
  BY <1>2, InWorkspace, Places DEF Upright, IsTree
<1>4. \/ Run(t, w, cmd) = Remove(t, p) \/ Run(t, w, cmd) = t
      \/ ~Blocked(t, Parent(p)) /\ Run(t, w, cmd) = v
  BY DEF Run
<1>  HIDE DEF p, u, v
<1>5. Stays(t, Remove(t, p), w)
  <2>1. Upright(Remove(t, p))
    BY <1>2, <1>3, RemoveUpright
  <2>2. Apart(t, Remove(t, p), Place(w))
    BY <1>2, <1>3, RemoveApart
  <2>. QED
    BY <2>1, <2>2, ApartWithin DEF Stays
<1>6. ASSUME ~Blocked(t, Parent(p))
      PROVE  Stays(t, v, w)
  <2>1. Upright(u) /\ IsDir(u, Parent(p)) /\ Grown(File(cmd.content))
    BY <1>1, <1>3, <1>6, CreateDirsUpright, FileGrown DEF u
  <2>2. Upright(v)
    BY <1>2, <1>3, <2>1, ReplaceUpright DEF v
  <2>3. Apart(t, u, Place(w))
    BY <1>3, PlacePrefixes, CreateDirsApart DEF u
  <2>4. DOMAIN u \subseteq Path /\ DOMAIN File(cmd.content) \subseteq Path
    BY <2>1 DEF Upright, IsTree, Grown, Path
  <2>5. Apart(u, v, Place(w))
    BY <1>2, <1>3, <2>4, ReplaceApart DEF v
  <2>. QED
    BY <2>2, <2>3, <2>5, ApartTransitive, ApartWithin DEF Stays
<1>7. Stays(t, t, w)
  BY DEF Stays, Within
<1>. QED
  BY <1>4, <1>5, <1>6, <1>7

\* Every call leaves a tree, and all else alone.
LEMMA CallStays ==
    ASSUME NEW w, Call(w), Upright(fs)
    PROVE  Stays(fs, fs', w)
<1>1. ASSUME fs' = fs
      PROVE  Stays(fs, fs', w)
  BY <1>1 DEF Stays, Within
<1>2. ASSUME NEW rel \in RelPaths, NEW new, Grown(new), Import(w, rel, new)
      PROVE  Stays(fs, fs', w)
  BY <1>2, WrittenStays, EnsuredStays DEF Import
<1>3. ASSUME NEW rel \in RelPaths, NEW c \in Contents, Fetch(w, rel, c)
      PROVE  Stays(fs, fs', w)
  BY <1>3, WrittenStays, EnsuredStays, FileGrown DEF Fetch
<1>4. ASSUME NEW cmd \in Commands, NEW asked, NEW allowed,
             Execute(w, asked, cmd, allowed)
      PROVE  Stays(fs, fs', w)
  <2>1. CASE ~HomeFails(w) /\ fs' = Run(Ensured(w), w, cmd)
    <3>1. w \in Ids
      BY <2>1 DEF HomeFails
    <3>. QED
      BY <2>1, <3>1, EnsuredStays, RunStays, WithinTransitive DEF Stays
  <2>. QED
    BY <1>1, <1>4, <2>1 DEF Execute
<1>5. CASE Delete(w)
  <2>1. ASSUME w \in Ids
        PROVE  Stays(fs, Remove(fs, Place(w)), w)
    <3>1. /\ Place(w) \in Path /\ Under(Place(w), Root)
          /\ Len(Place(w)) = Len(Root) + 1 /\ Len(Root) \in Nat
      BY <2>1, Places, TreeAssumption
    <3>2. Place(w) # Root
      BY <3>1
    <3>3. Upright(Remove(fs, Place(w)))
      BY <3>1, <3>2, RemoveUpright
    <3>4. Apart(fs, Remove(fs, Place(w)), Place(w))
      BY <3>1, UnderItself, RemoveApart DEF Upright, IsTree
    <3>. QED
      BY <2>1, <3>3, <3>4, ApartWithin DEF Stays
  <2>. QED
    BY <1>1, <1>5, <2>1 DEF Delete
<1>6. CASE \E rel \in RelPaths, c \in Contents \ Links :
               ImportRaw(w, rel, c) \/ Fetch(w, rel, c)
  BY <1>2, <1>3, <1>6, FileGrown DEF ImportRaw
<1>7. CASE \E rel \in RelPaths, ar \in Archives : ImportTarGz(w, rel, ar)
  BY <1>2, <1>7, RequestAssumption, UnpackedGrown DEF ImportTarGz
<1>8. CASE \E cmd \in Commands : \E asked : Exec(w, asked, cmd)
  BY <1>4, <1>8 DEF Exec
<1>9. CASE \E cmd \in Commands, args \in ShellArgs, t \in Timeouts :
               CallShell(w, args, t, cmd)
  BY <1>1, <1>4, <1>9 DEF CallShell
<1>10. CASE CallOther(w) \/ \E args, rel : CallDeliver(w, args, rel)
  BY <1>1, <1>10 DEF CallOther, CallDeliver
<1>. QED
  BY <1>5, <1>6, <1>7, <1>8, <1>9, <1>10 DEF Call, Change, Ask

\* The latest call is the one of this step.
LEMMA CallNamesWorkspace ==
    ASSUME NEW w, Call(w)
    PROVE  last'.ws = w
<1>1. \A reply : Called(w, reply).ws = w
  BY DEF Called
<1>2. \A reply, a : [Called(w, reply) EXCEPT !.allowed = a].ws = w
  BY DEF Called
<1>3. \A c, a : [Called(w, "ok") EXCEPT !.container = c, !.allowed = a].ws = w
  BY DEF Called
<1>4. ASSUME NEW asked, NEW cmd, NEW a, Execute(w, asked, cmd, a)
      PROVE  last'.ws = w
  BY <1>2, <1>3, <1>4 DEF Execute
<1>5. CASE \E rel, new : Import(w, rel, new)
  BY <1>1, <1>5 DEF Import
<1>6. CASE \E rel, c : Fetch(w, rel, c)
  BY <1>1, <1>6 DEF Fetch
<1>7. CASE Delete(w) \/ CallOther(w)
  BY <1>1, <1>7 DEF Delete, CallOther
<1>8. CASE \E args, rel : CallDeliver(w, args, rel)
  BY <1>2, <1>8 DEF CallDeliver
<1>9. CASE \E args, t, cmd : CallShell(w, args, t, cmd)
  BY <1>2, <1>4, <1>9 DEF CallShell
<1>10. CASE \E cmd, asked : Exec(w, asked, cmd)
  BY <1>4, <1>10 DEF Exec
<1>. QED
  BY <1>5, <1>6, <1>7, <1>8, <1>9, <1>10
     DEF Call, Change, Ask, ImportRaw, ImportTarGz

\* What is remembered of a call.
Replies == {"ok", "failed", "invalid_argument", "is_error"}

LastOK ==
    /\ last.ws \in Ids \union Strangers \union {"none"}
    /\ last.reply \in Replies
    /\ last.allowed \in BOOLEAN
    /\ last.allowed => last.reply # "invalid_argument"

\* Where the two texts that describe a tool agree on a parameter.
LEMMA SameKinds ==
    ASSUME NEW p \in {"command", "env", "heavy", "path", "compress", "label"}
    PROVE  SchemaKinds[p] = DecodedKinds[p]
<1>1. /\ SchemaKinds["command"] = {"string"} /\ DecodedKinds["command"] = {"string"}
      /\ SchemaKinds["path"] = {"string"} /\ DecodedKinds["path"] = {"string"}
      /\ SchemaKinds["label"] = {"string"} /\ DecodedKinds["label"] = {"string"}
      /\ SchemaKinds["env"] = {"strings"} /\ DecodedKinds["env"] = {"strings"}
  BY DEF SchemaKinds, DecodedKinds
<1>2. SchemaKinds["heavy"] = Booleans /\ SchemaKinds["compress"] = Booleans
  BY DEF SchemaKinds
<1>3. DecodedKinds["heavy"] = Booleans /\ DecodedKinds["compress"] = Booleans
  BY DEF DecodedKinds
<1>. QED
  BY <1>1, <1>2, <1>3

\* Arguments that a schema allows are decoded, and the same call says so.
LEMMA AllowedDecodes ==
    ASSUME NEW tool \in {"execute_shell", "deliver"}, NEW args, Allowed(tool, args),
           tool = "execute_shell" => args.timeout_seconds \notin NotU32
    PROVE  Decodes(tool, args)
<1>1. CASE tool = "execute_shell"
  <2>1. /\ Parameters[tool] = {"command", "timeout_seconds", "env", "heavy"}
        /\ "command" \in Required[tool]
    BY <1>1 DEF Parameters, Required
  <2>2. ASSUME NEW p \in Parameters[tool]
        PROVE  \/ args[p] \in DecodedKinds[p]
               \/ args[p] = "absent" /\ p \in HasDefault
    <3>1. \/ args[p] \in SchemaKinds[p]
          \/ args[p] = "absent" /\ p \notin Required[tool]
      BY <2>2 DEF Allowed
    <3>2. CASE p = "timeout_seconds"
      <4>1. SchemaKinds[p] = {"one"} \union NotU32
        BY <3>2 DEF SchemaKinds
      <4>2. DecodedKinds[p] = {"zero", "one"} /\ p \in HasDefault
        BY <3>2 DEF DecodedKinds, HasDefault
      <4>3. args[p] \notin NotU32
        BY <1>1, <3>2
      <4>. QED
        BY <3>1, <4>1, <4>2, <4>3
    <3>3. CASE p \in {"command", "env", "heavy"}
      <4>1. SchemaKinds[p] = DecodedKinds[p]
        BY <3>3, SameKinds
      <4>2. p = "command" \/ p \in HasDefault
        BY <3>3 DEF HasDefault
      <4>. QED
        BY <2>1, <3>1, <4>1, <4>2
    <3>. QED
      BY <2>1, <2>2, <3>2, <3>3
  <2>. QED
    BY <2>2 DEF Decodes
<1>2. CASE tool = "deliver"
  <2>1. /\ Parameters[tool] = {"path", "compress", "label"}
        /\ "path" \in Required[tool]
    BY <1>2 DEF Parameters, Required
  <2>2. ASSUME NEW p \in Parameters[tool]
        PROVE  \/ args[p] \in DecodedKinds[p]
               \/ args[p] = "absent" /\ p \in HasDefault
    <3>1. \/ args[p] \in SchemaKinds[p]
          \/ args[p] = "absent" /\ p \notin Required[tool]
      BY <2>2 DEF Allowed
    <3>2. SchemaKinds[p] = DecodedKinds[p]
      BY <2>1, <2>2, SameKinds
    <3>3. p = "path" \/ p \in HasDefault
      BY <2>1, <2>2 DEF HasDefault
    <3>. QED
      BY <2>1, <3>1, <3>2, <3>3
  <2>. QED
    BY <2>2 DEF Decodes
<1>. QED
  BY <1>1, <1>2

\* What each call remembers of itself.
LEMMA CallRemembered ==
    ASSUME NEW w \in Ids \union Strangers, Call(w)
    PROVE  LastOK'
<1>0. last'.ws = w
  BY CallNamesWorkspace
<1>1. ASSUME NEW reply \in Replies, last' = Called(w, reply)
      PROVE  last'.reply \in Replies /\ last'.allowed = FALSE
  BY <1>1 DEF Called
<1>2. ASSUME NEW reply \in Replies, NEW a \in BOOLEAN,
             last' = [Called(w, reply) EXCEPT !.allowed = a]
      PROVE  last'.reply = reply /\ last'.allowed = a
  BY <1>2 DEF Called
<1>3. ASSUME NEW asked, NEW cmd, NEW a \in BOOLEAN, Execute(w, asked, cmd, a)
      PROVE  last'.reply \in {"ok", "failed"} /\ last'.allowed \in BOOLEAN
  <2>1. ASSUME NEW c, last' = [Called(w, "ok") EXCEPT !.container = c, !.allowed = a]
        PROVE  last'.reply = "ok" /\ last'.allowed = a
    BY <2>1 DEF Called
  <2>. QED
    BY <1>2, <1>3, <2>1 DEF Execute, Replies
<1>4. CASE \E rel, new : Import(w, rel, new)
  BY <1>0, <1>1, <1>4 DEF Import, Replies, LastOK
<1>5. CASE \E rel, c : Fetch(w, rel, c)
  BY <1>0, <1>1, <1>5 DEF Fetch, Replies, LastOK
<1>6. CASE Delete(w) \/ CallOther(w)
  BY <1>0, <1>1, <1>6 DEF Delete, CallOther, Replies, LastOK
<1>7. CASE \E cmd, asked : Exec(w, asked, cmd)
  BY <1>0, <1>3, <1>7 DEF Exec, Replies, LastOK
<1>8. ASSUME NEW args, NEW t, NEW cmd, CallShell(w, args, t, cmd)
      PROVE  LastOK'
  <2>  DEFINE a == /\ Allowed("execute_shell", args)
                   /\ args.timeout_seconds \notin NotU32
  <2>1. a \in BOOLEAN /\ (a => Decodes("execute_shell", args))
    BY AllowedDecodes DEF Allowed
  <2>2. \/ Execute(w, ToolAsks(args, t, settings), cmd, a)
        \/ /\ ~Decodes("execute_shell", args)
           /\ last' = [Called(w, "invalid_argument") EXCEPT !.allowed = a]
    BY <1>8 DEF CallShell
  <2>  HIDE DEF a
  <2>. QED
    BY <1>0, <1>2, <1>3, <2>1, <2>2 DEF Replies, LastOK
<1>9. ASSUME NEW args, NEW rel, CallDeliver(w, args, rel)
      PROVE  LastOK'
  <2>  DEFINE a == Allowed("deliver", args)
  <2>1. a \in BOOLEAN /\ (a => Decodes("deliver", args))
    BY AllowedDecodes DEF Allowed
  <2>2. PICK reply \in DeliverReplies(w, args, rel) :
                 last' = [Called(w, reply) EXCEPT !.allowed = a]
    BY <1>9 DEF CallDeliver
  <2>3. reply \in Replies /\ (a => reply # "invalid_argument")
    BY <2>1 DEF DeliverReplies, Replies
  <2>  HIDE DEF a
  <2>. QED
    BY <1>0, <1>2, <2>1, <2>2, <2>3 DEF LastOK
<1>. QED
  BY <1>4, <1>5, <1>6, <1>7, <1>8, <1>9
     DEF Call, Change, Ask, ImportRaw, ImportTarGz

\* What holds between calls.
ServiceInv == Upright(fs) /\ LastOK /\ settings \in Settings /\ day \in Nat

\* The invariant holds from the start, through every call.
LEMMA ServiceInvKept == Spec => []ServiceInv
<1>1. Init => ServiceInv
  <2>  SUFFICES ASSUME Init PROVE ServiceInv
    OBVIOUS
  <2>1. Root \in Path /\ DOMAIN fs = {Root} /\ fs[Root] = Dir
    BY TreeAssumption DEF Init, Path
  <2>2. Upright(fs)
    BY <2>1, UnderItself DEF Upright, IsTree
  <2>3. LastOK
    BY DEF Init, Called, LastOK, Replies
  <2>4. settings \in Settings /\ day \in Nat
    BY DEF Init, DateInit
  <2>. QED
    BY <2>2, <2>3, <2>4 DEF ServiceInv
<1>2. ServiceInv /\ [Next]_vars => ServiceInv'
  <2>  SUFFICES ASSUME ServiceInv, [Next]_vars PROVE ServiceInv'
    OBVIOUS
  <2>1. ASSUME NEW w \in Ids \union Strangers, Call(w)
        PROVE  ServiceInv'
    <3>1. settings' = settings /\ day' = day
      BY <2>1 DEF Call
    <3>2. Upright(fs)' /\ LastOK'
      BY <2>1, CallStays, CallRemembered
         DEF ServiceInv, Stays, Upright, IsTree, IsDir, Exists
    <3>. QED
      BY <3>1, <3>2 DEF ServiceInv
  <2>2. CASE NewDay \/ UNCHANGED vars
    <3>1. UNCHANGED <<fs, settings, last>> /\ (day' = day \/ day' = day + 1)
      BY <2>2 DEF NewDay, Midnight, vars
    <3>2. Upright(fs)' = Upright(fs) /\ LastOK' = LastOK
      BY <3>1 DEF Upright, IsTree, IsDir, Exists, LastOK
    <3>. QED
      BY <3>1, <3>2 DEF ServiceInv
  <2>. QED
    BY <2>1, <2>2 DEF Next
<1>. QED
  BY <1>1, <1>2, PTL DEF Spec

\* Whatever is imported, fetched, run and deleted, whatever the paths, what is
\* below the root is a tree: everything is in a directory, and nothing is left
\* below a file or a directory that was removed.
THEOREM ServiceTypes == Spec => []ServiceTypeOK
<1>1. ServiceInv => ServiceTypeOK
  BY DEF ServiceInv, ServiceTypeOK, Upright, IsTree, LastOK, Replies
<1>. QED
  BY <1>1, ServiceInvKept, PTL

\* Any directory of any workspace, exported and imported, is the same again,
\* unless there are links in it.
THEOREM RoundTrips == Spec => []RoundTrip
<1>1. ServiceInv => RoundTrip
  <2>  SUFFICES ASSUME ServiceInv, NEW w \in Ids, NEW p \in DOMAIN fs,
                       Under(p, Home(w)), fs[p] = Dir, LinksBelow(fs, p) = {}
                PROVE  Unpacked(Packed(fs, p)) = Subtree(fs, p)
    BY DEF RoundTrip
  <2>1. DOMAIN fs \subseteq Path /\ p \in Path
    BY DEF ServiceInv, Upright, IsTree
  <2>2. p # <<>>
    BY <2>1, InWorkspace, BelowRoot
  <2>. QED
    BY <2>1, <2>2, PackedUnpacked
<1>. QED
  BY <1>1, ServiceInvKept, PTL

\* No arguments that the schema of a tool allows are refused by its struct,
\* but for a timeout beyond u32, or written like 1.0.
THEOREM SchemasAccepted == Spec => []SchemaAccepted
<1>1. ServiceInv => SchemaAccepted
  BY DEF ServiceInv, LastOK, SchemaAccepted
<1>. QED
  BY <1>1, ServiceInvKept, PTL

\* No sequence of calls, whatever their paths, archives and commands, changes
\* anything but the workspaces it names and what is below the destinations of
\* links that commands left in them.
THEOREM WorkspacesStayApart == Spec => WorkspacesApart
<1>1. ASSUME ServiceInv, [Next]_vars
      PROVE  [\A p \in DOMAIN fs \union DOMAIN fs' :
                 \/ /\ p \in DOMAIN fs /\ p \in DOMAIN fs'
                    /\ fs'[p] = fs[p]
                 \/ Owns(last'.ws, p)]_vars
  <2>1. ASSUME NEW w, Call(w)
        PROVE  \A p \in DOMAIN fs \union DOMAIN fs' :
                   \/ /\ p \in DOMAIN fs /\ p \in DOMAIN fs'
                      /\ fs'[p] = fs[p]
                   \/ Owns(last'.ws, p)
    <3>1. last'.ws = w
      BY <2>1, CallNamesWorkspace
    <3>2. Within(fs, fs', w)
      BY <1>1, <2>1, CallStays DEF ServiceInv, Stays
    <3>. QED
      BY <3>1, <3>2 DEF Within
  <2>2. CASE NewDay \/ UNCHANGED vars
    BY <2>2 DEF NewDay, vars
  <2>. QED
    BY <1>1, <2>1, <2>2 DEF Next
<1>. QED
  BY <1>1, ServiceInvKept, PTL DEF Spec, WorkspacesApart
=============================================================================
