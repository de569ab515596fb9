----------------------------- MODULE MCService ------------------------------
(***************************************************************************)
(* Service on small instances: two workspaces, paths of every shape two    *)
(* names deep, archives of every shape.                                    *)
(***************************************************************************)
EXTENDS Service, TLC

TheRoot == <<"srv">>

\* A link to what another workspace keeps in its home directory.
ThePoints == "shared" :> <<"srv", "w2", "home">>

Rel(names) == [absolute |-> FALSE, names |-> names]

\* "", "a/b", "./b/../a", "../../w2/home/a", and an absolute path.
ThePaths ==
    {Rel(<<>>), Rel(<<"a", "b">>), Rel(<<".", "b", "..", "a">>),
     Rel(<<"..", "..", "w2", "home", "a">>),
     [absolute |-> TRUE, names |-> <<"srv", "w1", "home", "a">>]}

\* An empty archive, one with a single file, a single directory, and both.
TheArchives ==
    { <<>> :> "dir",
      (<<>> :> "dir") @@ (<<"b">> :> "x"),
      (<<>> :> "dir") @@ (<<"b">> :> "dir") @@ (<<"b", "b">> :> "x"),
      (<<>> :> "dir") @@ (<<"b">> :> "x") @@ (<<"a">> :> "dir") }

TheCommands ==
    {[does |-> "write", path |-> <<"a", "b">>, content |-> "x"],
     [does |-> "link", path |-> <<"a">>, content |-> "shared"],
     [does |-> "remove", path |-> <<"a">>, content |-> "x"]}

\* What is shipped; an operator who sets no limit on processes and leaves the
\* heavy tier at 0; two that are refused.
Setting(default, heavy, uid, complete) ==
    [default |-> default, heavy |-> heavy, agent_uid |-> uid,
     complete |-> complete]

TheSettings ==
    {Setting(ShippedDefault, ShippedHeavy, 1000, TRUE),
     Setting([ShippedDefault EXCEPT !.pids = 0], NoLimits, 1000, TRUE),
     Setting(ShippedDefault, ShippedHeavy, 0, TRUE),
     Setting(ShippedDefault, ShippedHeavy, 1000, FALSE)}

\* None; some; more memory than fits into an i64.
TheLimits ==
    {WithTime(NoLimits, 0), WithTime(Tier(1, 0, 0, 0), 1),
     WithTime(Tier(0, 12, 0, 1), 0)}

\* Only the required arguments, and one of them missing, added or of another
\* kind.
Shell   == [command |-> "string", timeout_seconds |-> "absent",
            env |-> "absent", heavy |-> "absent"]
TheShellArgs ==
    {Shell, [Shell EXCEPT !.command = "absent"], [Shell EXCEPT !.env = "strings"]}
    \union {[Shell EXCEPT !.timeout_seconds = k] : k \in {"one"} \union NotU32}
    \union {[Shell EXCEPT !.heavy = "true"]}

Deliver == [path |-> "string", compress |-> "absent", label |-> "absent"]
TheDeliverArgs ==
    {Deliver, [Deliver EXCEPT !.path = "absent"],
     [Deliver EXCEPT !.compress = "true"], [Deliver EXCEPT !.label = "string"]}
=============================================================================
