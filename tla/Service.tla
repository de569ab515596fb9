------------------------------ MODULE Service -------------------------------
(***************************************************************************)
(* The RPCs one after the other, each as a whole: what a long sequence of  *)
(* calls does to the trees of all workspaces, with paths of any shape, what*)
(* containers they lead to, and under what date they file objects.  Calls  *)
(* here meet no failures of their surroundings and no other calls; modules *)
(* Exec, Upload and Workspace take each of them apart.                     *)
(***************************************************************************)
EXTENDS FileTree, ToolRequests, CivilDate

CONSTANTS
    Strangers,   \* workspace ids that validate_workspace_id refuses
    RelPaths,    \* paths in requests
    Archives,    \* archives that clients import
    Commands,    \* what commands do to the tree they see
    Limits,      \* limits and timeouts in ExecRequests
    Timeouts,    \* timeouts in CallToolRequests
    ShellArgs,   \* arguments of execute_shell
    DeliverArgs, \* arguments of deliver
    ChangeDays,  \* bound: the days on which clients change trees
    AskDays,     \* bound: the days on which they ask for all kinds of things
    LastDay      \* bound: the last day

\* The names in a path are strings, whatever their number; unpacking makes the
\* directories above an entry of an archive that the archive itself has not,
\* and refuses links.
ASSUME RequestAssumption ==
    /\ Ids \intersect Strangers = {}
    /\ Limits \subseteq [Fields -> Nat] /\ Timeouts \subseteq Nat
    /\ \A rel \in RelPaths : rel.names \in Seq(STRING)
    /\ \A ar \in Archives : Grown(ar) /\ \A r \in DOMAIN ar : ar[r] \notin Links
    /\ \A cmd \in Commands : /\ cmd.path \in Seq(STRING) \ {<<>>}
                             /\ cmd.content \in Contents
                             /\ cmd.does = "link" <=> cmd.content \in Links
    /\ LastDay \in Nat

VARIABLES
    fs,        \* the tree below and with Root
    settings,  \* configuration of the sandbox
    last       \* history: workspace, reply, container of the latest call

vars == <<fs, settings, last, day, date>>

NoContainer == [user |-> -1, limits |-> NoLimits]

Called(w, reply) ==
    [ws |-> w, reply |-> reply, container |-> NoContainer, allowed |-> FALSE]

\* A process starts with a valid configuration, and ensure_root.
Init ==
    /\ settings \in {s \in Settings : Valid(s)}
    /\ fs = [p \in {Root} |-> Dir]
    /\ last = Called("none", "ok")
    /\ DateInit

-----------------------------------------------------------------------------
\* ensure_home refuses an id, or has its directory, or meets a file.
HomeFails(w) == w \notin Ids \/ Blocked(fs, Home(w))
Ensured(w)   == IF HomeFails(w) THEN fs ELSE CreateDirs(fs, Home(w))

\* A path leads to a place where an import or a fetch can write.  resolve_path
\* knows names only: a link on the way is followed after it, by the host.
Reachable(w, rel) ==
    /\ ~HomeFails(w)
    /\ Resolves(w, rel)
    /\ ~ParentFails(Ensured(w), Target(w, rel))

Written(w, rel) == Spot(Ensured(w), Target(w, rel))

WithParent(w, rel) == CreateDirs(Ensured(w), Parent(Written(w, rel)))

\* ImportWorkspaceObject: of a file, or of an archive that is unpacked.  What
\* an archive that cannot be put in its place leaves beside it is left out.
Import(w, rel, new) ==
    \/ /\ Reachable(w, rel) /\ ~TargetFails(Ensured(w), Target(w, rel), new)
       /\ fs' = Replace(WithParent(w, rel), Written(w, rel), new)
       /\ last' = Called(w, "ok")
    \/ /\ Reachable(w, rel) /\ TargetFails(Ensured(w), Target(w, rel), new)
       /\ fs' = WithParent(w, rel)
       /\ last' = Called(w, "failed")
    \/ /\ ~Reachable(w, rel)
       /\ fs' = Ensured(w)
       /\ last' = Called(w, "failed")

ImportRaw(w, rel, c)    == Import(w, rel, File(c))
ImportTarGz(w, rel, ar) == Import(w, rel, Unpacked(ar))

\* FetchIntoWorkspace of a body that fits: remove_file, then File::create,
\* neither of which does anything to a directory; remove_file removes a link.
Fetch(w, rel, c) ==
    \/ /\ Reachable(w, rel) /\ ~IsDir(Ensured(w), Written(w, rel))
       /\ fs' = Replace(WithParent(w, rel), Written(w, rel), File(c))
       /\ last' = Called(w, "ok")
    \/ /\ Reachable(w, rel) /\ IsDir(Ensured(w), Written(w, rel))
       /\ fs' = WithParent(w, rel)
       /\ last' = Called(w, "failed")
    \/ /\ ~Reachable(w, rel)
       /\ fs' = Ensured(w)
       /\ last' = Called(w, "failed")

\* DeleteWorkspace: remove_dir_all neither takes a file nor follows a link.
Delete(w) ==
    LET deletes == w \in Ids /\ (Exists(fs, Place(w)) => IsDir(fs, Place(w))) IN
    \/ deletes /\ fs' = Remove(fs, Place(w)) /\ last' = Called(w, "ok")
    \/ ~deletes /\ fs' = fs /\ last' = Called(w, "failed")

\* A command sees the home directory, which it cannot remove, and writes a
\* file into it, makes a link there, which takes no place but an empty one, or
\* removes something.  Links hold paths of the host: in a container they lead
\* nowhere, so that nothing is written through them.
Run(tree, w, cmd) ==
    LET p == Home(w) \o cmd.path
        taken == IF cmd.does = "link" THEN Exists(tree, p)
                 ELSE IsDir(tree, p) \/ LinksTo(tree, p) # {}
    IN  IF cmd.does = "remove" THEN Remove(tree, p)
        ELSE IF Blocked(tree, Parent(p)) \/ taken THEN tree
        ELSE Replace(CreateDirs(tree, Parent(p)), p, File(cmd.content))

\* do_exec_oneshot.
Execute(w, asked, cmd, allowed) ==
    \/ /\ ~HomeFails(w)
       /\ fs' = Run(Ensured(w), w, cmd)
       /\ last' = [Called(w, "ok") EXCEPT
                      !.container = ContainerFor(asked, settings),
                      !.allowed = allowed]
    \/ /\ HomeFails(w)
       /\ fs' = fs
       /\ last' = [Called(w, "failed") EXCEPT !.allowed = allowed]

\* Exec and ExecStream.
Exec(w, asked, cmd) == Execute(w, asked, cmd, FALSE)

\* CallTool of execute_shell.
CallShell(w, args, timeout, cmd) ==
    LET allowed == /\ Allowed("execute_shell", args)
                   /\ args.timeout_seconds \notin NotU32 IN
    \/ /\ Decodes("execute_shell", args)
       /\ Execute(w, ToolAsks(args, timeout, settings), cmd, allowed)
    \/ /\ ~Decodes("execute_shell", args)
       /\ last' = [Called(w, "invalid_argument") EXCEPT !.allowed = allowed]
       /\ fs' = fs

\* CallTool of deliver: do_upload reads what is there, and creates nothing.
\* An archive of a directory fails if a link in it leads nowhere.
DeliverReplies(w, args, rel) ==
    LET t == Target(w, rel) IN
    IF ~Decodes("deliver", args) THEN {"invalid_argument"}
    ELSE IF ~Resolves(w, rel) \/ Loops(fs, t) \/ ~Exists(fs, Led(fs, t))
         THEN {"failed"}
    ELSE IF LinksBelow(fs, Led(fs, t)) # {} THEN {"ok", "failed"}
    ELSE {"ok"}

CallDeliver(w, args, rel) ==
    /\ \E reply \in DeliverReplies(w, args, rel) :
           last' = [Called(w, reply) EXCEPT
                       !.allowed = Allowed("deliver", args)]
    /\ fs' = fs

\* CallTool of a tool that the host has to provide, or that there is not.
CallOther(w) == last' = Called(w, "is_error") /\ fs' = fs

\* Calls that change trees.  A command asks for the limits there are.
Change(w) ==
    \/ \E rel \in RelPaths :
           \/ \E c \in Contents \ Links : ImportRaw(w, rel, c) \/ Fetch(w, rel, c)
           \/ \E ar \in Archives : ImportTarGz(w, rel, ar)
    \/ Delete(w)
    \/ \E cmd \in Commands : Exec(w, WithTime(NoLimits, 0), cmd)

\* Calls that matter for what they ask for.
Ask(w) ==
    \/ \E cmd \in Commands :
           \/ \E asked \in Limits : Exec(w, asked, cmd)
           \/ \E args \in ShellArgs, t \in Timeouts : CallShell(w, args, t, cmd)
    \/ \E args \in DeliverArgs, rel \in RelPaths : CallDeliver(w, args, rel)
    \/ CallOther(w)

Call(w) ==
    /\ \/ day \in ChangeDays /\ Change(w)
       \/ day \in AskDays /\ Ask(w)
    /\ UNCHANGED <<settings, day, date>>

NewDay == day < LastDay /\ Midnight /\ UNCHANGED <<fs, settings, last>>

Next ==
    \/ \E w \in Ids \union Strangers : Call(w)
    \/ NewDay

Spec == Init /\ [][Next]_vars

-----------------------------------------------------------------------------
\* Whatever calls did, the tree is one: what is in a directory has a
\* directory above it, and nothing is left below a file or a removed entry.
ServiceTypeOK ==
    /\ Root \in DOMAIN fs
    /\ \A p \in DOMAIN fs :
           /\ fs[p] \in Contents \union {Dir}
           /\ p # Root => IsDir(fs, Parent(p))
    /\ settings \in Settings
    /\ last.ws \in Ids \union Strangers \union {"none"}
    /\ last.reply \in {"ok", "failed", "invalid_argument", "is_error"}
    /\ last.allowed \in BOOLEAN
    /\ day \in Nat

\* What a call on w may change: the directory of w, and what links lead to
\* that commands made in the home directory of w.
Owns(w, p) ==
    /\ w \in Ids
    /\ \/ Under(p, Place(w))
       \/ \E q \in LinksBelow(fs, Home(w)) : Under(p, Points[fs[q]])

\* What a call changes is below the directory of the workspace it names,
\* whatever path it gives: resolve_path cleans it, with ".." in it, with names
\* that lead back, or absolute, before it compares (workspace.rs:86).  It
\* compares names, and does not ask the file system: where a command left a
\* link in that workspace, what is below the destination of the link may change
\* too, whosever it is.  Nothing else does, and no link of another workspace
\* has a part in it.
WorkspacesApart ==
    [][\A p \in DOMAIN fs \union DOMAIN fs' :
           \/ /\ p \in DOMAIN fs /\ p \in DOMAIN fs'
              /\ fs'[p] = fs[p]
           \/ Owns(last'.ws, p)]_vars

\* A directory that is exported and imported elsewhere is the same there: the
\* root that tar_gz_into_temp puts around it is what
\* extract_archive_and_replace strips, even if it holds a single directory.
\* Of a link, append_dir_all packs what it leads to: directories with links in
\* them are excepted.
RoundTrip ==
    \A w \in Ids :
        \A p \in {q \in DOMAIN fs : Under(q, Home(w)) /\ fs[q] = Dir} :
            LinksBelow(fs, p) = {} => Unpacked(Packed(fs, p)) = Subtree(fs, p)

\* To Docker, a limit of 0 or less is none.  A container has all of its limits,
\* its call has some time, and its user is not root: also with the heavy tier,
\* or with numbers beyond the types they are converted to.  Excepted is a limit
\* whose default the operator set to 0, which Config::validate accepts.
Capped ==
    last.container # NoContainer =>
        /\ last.container.user > 0
        /\ \A f \in Fields :
               last.container.limits[f] > 0 \/ settings.default[f] = 0

\* Arguments that a tool's schema allows are decoded by its struct, but for
\* timeouts beyond u32, which the schema does not exclude, and timeouts written
\* like 1.0, which JSON Schema counts among the integers and serde does not.
SchemaAccepted == last.allowed => last.reply # "invalid_argument"

-----------------------------------------------------------------------------
\* workspace.rs:17: "Layout: `{root}/{workspace_id}/home/` - bind-mounted as
\* `/home/agent` inside the container."
HomeStaysDir ==
    \A w \in Ids : Exists(fs, Place(w)) => IsDir(fs, Home(w))
=============================================================================
