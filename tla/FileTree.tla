------------------------------ MODULE FileTree ------------------------------
(***************************************************************************)
(* Paths and trees: what resolve_path (src/src/workspace.rs) makes of the  *)
(* path in a request, and what whole system calls and archives             *)
(* (src/src/service/archive.rs) do to a tree when nobody interferes.       *)
(*                                                                         *)
(* A path is a sequence of names.  A tree is a function from paths to Dir, *)
(* the content of a file, or a symbolic link.                              *)
(***************************************************************************)
EXTENDS Integers, Sequences, FiniteSets

CONSTANTS
    Root,     \* workspace.root
    Ids,      \* workspace ids that validate_workspace_id accepts
    Contents, \* contents of files, and links
    Links,    \* those that are links
    Points    \* the absolute path that each link holds

Dir == "dir"

ASSUME TreeAssumption ==
    /\ Root \in Seq(STRING) /\ Ids \union {"home"} \subseteq STRING
    /\ Dir \notin Contents
    /\ Links \subseteq Contents /\ Points \in [Links -> Seq(STRING)]

-----------------------------------------------------------------------------
(* Paths.                                                                  *)

\* Path::starts_with.
Under(p, dir) == Len(dir) <= Len(p) /\ SubSeq(p, 1, Len(dir)) = dir

From(p, dir) == SubSeq(p, Len(dir) + 1, Len(p))

Prefixes(p) == {SubSeq(p, 1, n) : n \in Len(Root) .. Len(p)}

Parent(p) == SubSeq(p, 1, Len(p) - 1)

Place(w) == Root \o <<w>>
Home(w)  == Place(w) \o <<"home">>

\* PathClean::clean of an absolute path: "." goes, ".." takes its parent along.
Clean(p) ==
    LET c[n \in 0 .. Len(p)] ==
            IF n = 0 THEN <<>>
            ELSE CASE p[n] = "."  -> c[n - 1]
                   [] p[n] = ".." -> IF c[n - 1] = <<>> THEN <<>>
                                     ELSE SubSeq(c[n - 1], 1, Len(c[n - 1]) - 1)
                   [] OTHER       -> Append(c[n - 1], p[n])
    IN  c[Len(p)]

\* Path::join: an absolute path takes the place of the other one.
Join(dir, rel) == IF rel.absolute THEN rel.names ELSE dir \o rel.names

Target(w, rel) == Clean(Join(Home(w), rel))

\* Seeded defect: the path is compared before it is cleaned.
ResolvesUncleaned(w, rel) == w \in Ids /\ Under(Join(Home(w), rel), Home(w))

\* resolve_path returns the target, or an error.
Resolves(w, rel) == w \in Ids /\ Under(Target(w, rel), Home(w))

-----------------------------------------------------------------------------
(* Trees.                                                                  *)

\* A file, or a link, is in the way of a directory at p.
Blocked(tree, p) ==
    \E q \in DOMAIN tree : Under(p, q) /\ tree[q] # Dir

Exists(tree, p) == p \in DOMAIN tree
IsDir(tree, p)  == Exists(tree, p) /\ tree[p] = Dir

\* The links that a path goes through, its last name included, and those that
\* lie below it.
LinksTo(tree, p)    == {q \in DOMAIN tree : tree[q] \in Links /\ Under(p, q)}
LinksBelow(tree, p) == {q \in DOMAIN tree : tree[q] \in Links /\ Under(q, p)}

\* Where the host gets from one of these links, or to the path itself.
Follow(tree, p, links) ==
    IF links = {} THEN p
    ELSE LET q == CHOOSE q \in links : TRUE
         IN  Points[tree[q]] \o From(p, q)

\* System calls on the last name of a path, and calls on what that leads to.
Spot(tree, p) == Follow(tree, p, LinksTo(tree, Parent(p)))
Led(tree, p)  == Follow(tree, p, LinksTo(tree, p))

\* ELOOP: of the 40 links that Linux follows in a path, a tree here has one.
Loops(tree, p) == LinksTo(tree, Led(tree, p)) # {}

\* create_dir_all makes what is missing, but nothing that a link leads to.
ParentFails(tree, p) ==
    \/ Blocked(tree, Parent(Spot(tree, p)))
    \/ \E q \in LinksTo(tree, Parent(p)) : ~IsDir(tree, Points[tree[q]])

\* Of a link, metadata says what it leads to; what is put in its place takes
\* the place of the link, unless it is a directory and that is missing.
TargetFails(tree, p, new) ==
    /\ Spot(tree, p) \in DOMAIN tree /\ tree[Spot(tree, p)] \in Links
    /\ Loops(tree, p) \/ (new[<<>>] = Dir /\ ~Exists(tree, Led(tree, p)))

\* create_dir_all, where nothing is in the way.
CreateDirs(tree, p) ==
    [q \in DOMAIN tree \union Prefixes(p) |->
        IF q \in DOMAIN tree THEN tree[q] ELSE Dir]

\* remove_dir_all or remove_file.
Remove(tree, p) == [q \in {r \in DOMAIN tree : ~Under(r, p)} |-> tree[q]]

Subtree(tree, p) ==
    [r \in {From(q, p) : q \in {s \in DOMAIN tree : Under(s, p)}} |-> tree[p \o r]]

\* Seeded defect: what is at p is not removed first.
ReplaceOver(tree, p, new) ==
    [q \in DOMAIN tree \union {p \o r : r \in DOMAIN new} |->
        IF q \in {p \o r : r \in DOMAIN new} THEN new[From(q, p)] ELSE tree[q]]

\* What is at p is removed, and new put in its place.
Replace(tree, p, new) ==
    [q \in {r \in DOMAIN tree : ~Under(r, p)} \union {p \o r : r \in DOMAIN new} |->
        IF Under(q, p) THEN new[From(q, p)] ELSE tree[q]]

File(c) == [r \in {<<>>} |-> c]

\* What can be put in a place: something, and all that is in it.
Grown(new) ==
    /\ <<>> \in DOMAIN new /\ DOMAIN new \subseteq Seq(STRING)
    /\ \A r \in DOMAIN new :
           /\ new[r] \in Contents \union {Dir}
           /\ r # <<>> => IsDir(new, Parent(r))

-----------------------------------------------------------------------------
(* Archives: trees, whose root stands for the archive itself.              *)

\* Seeded defect: the entries of a directory are packed without their root.
PackedBare(tree, p) == Subtree(tree, p)

\* tar_gz_into_temp: everything under the last name of the path.
Packed(tree, p) ==
    LET name == <<p[Len(p)]>>
        sub  == Subtree(tree, p)
    IN  [r \in {<<>>} \union {name \o q : q \in DOMAIN sub} |->
            IF r = <<>> THEN Dir ELSE sub[Tail(r)]]

\* extract_archive_and_replace: a single directory becomes the target itself.
Unpacked(archive) ==
    LET top == {r \in DOMAIN archive : Len(r) = 1}
    IN  IF \E r \in top : top = {r} /\ archive[r] = Dir
        THEN Subtree(archive, CHOOSE r \in top : TRUE)
        ELSE archive
=============================================================================
