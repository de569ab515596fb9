---------------------------- MODULE ToolRequests ----------------------------
(***************************************************************************)
(* From a request to a container: the limits it gets                       *)
(* (build_exec_params in src/src/service.rs, create_container in           *)
(* src/src/runtime.rs, the tiers of src/src/config.rs), and the arguments  *)
(* of the tools (src/src/tools.rs), which are described to their users by  *)
(* one text, a JSON schema, and decoded by another, a struct.              *)
(***************************************************************************)
EXTENDS Integers

CONSTANTS
    MaxI64,    \* i64::MAX, scaled down; memory_bytes is a u64, the rest u32
    Settings   \* configurations of the sandbox

Caps == {"cpu_millis", "memory_bytes", "pids", "tmpfs_bytes"}
Fields == Caps \union {"timeout_seconds"}

ASSUME SettingsAssumption ==
    /\ MaxI64 \in Nat \ {0}
    /\ \A s \in Settings :
           /\ s.default \in [Fields -> Nat]
           /\ s.heavy \in [Caps -> Nat]
           /\ s.agent_uid \in Nat
           /\ s.complete \in BOOLEAN

Tier(cpu, memory, pids, tmpfs) ==
    [cpu_millis |-> cpu, memory_bytes |-> memory, pids |-> pids,
     tmpfs_bytes |-> tmpfs]

WithTime(tier, seconds) ==
    [f \in Fields |-> IF f \in Caps THEN tier[f] ELSE seconds]

\* What a configuration that says nothing gets, in units of a core, a GiB, 128
\* processes, a GiB and 100 seconds.
ShippedDefault == WithTime(Tier(2, 2, 2, 1), 3)
ShippedHeavy   == Tier(4, 8, 4, 2)

\* Config::validate.  "complete" is what it asks of other sections: an
\* absolute root, an image, an endpoint and a bucket.
Valid(s) == s.complete /\ s.agent_uid # 0

NoLimits == [f \in Caps |-> 0]

\* A field of a request that is zero, or missing, means the default.
OrDefault(asked, s) ==
    [f \in Fields |-> IF asked[f] = 0 THEN s.default[f] ELSE asked[f]]

\* Seeded defect: the bits of the u64 are taken for an i64.
MemoryWrapped(bytes) ==
    IF bytes > MaxI64 THEN bytes - 2 * (MaxI64 + 1) ELSE bytes

\* i64::try_from(memory_bytes).unwrap_or(i64::MAX)
Memory(bytes) == IF bytes > MaxI64 THEN MaxI64 ELSE bytes

\* What create_container asks of the daemon, and the deadline of the call.
ContainerFor(asked, s) ==
    LET p == OrDefault(asked, s)
    IN  [user |-> s.agent_uid,
         limits |-> [p EXCEPT !.memory_bytes = Memory(p.memory_bytes)]]

-----------------------------------------------------------------------------
(* Tools.  An argument is given by the kind of its value, and what of it   *)
(* matters: 1 and 0, a number beyond u32, or 1 written as 1.0.             *)

Parameters ==
    [execute_shell |-> {"command", "timeout_seconds", "env", "heavy"},
     deliver       |-> {"path", "compress", "label"}]

Booleans == {"true", "false"}

\* The schemas: EXECUTE_SHELL_SCHEMA and DELIVER_SCHEMA.
Required == [execute_shell |-> {"command"}, deliver |-> {"path"}]

\* Integers to JSON Schema that serde takes for no u32.
NotU32 == {"beyond u32", "one point zero"}

SchemaKinds ==
    [command |-> {"string"}, timeout_seconds |-> {"one"} \union NotU32,
     env |-> {"strings"}, heavy |-> Booleans,
     path |-> {"string"}, compress |-> Booleans, label |-> {"string"}]

\* Seeded defect: the attribute of one field was forgotten.
HasDefaultButOne == {"timeout_seconds", "env", "compress", "label"}

\* The structs: ExecuteShellArgs and DeliverArgs.
HasDefault == {"timeout_seconds", "env", "heavy", "compress", "label"}

DecodedKinds ==
    [command |-> {"string"}, timeout_seconds |-> {"zero", "one"},
     env |-> {"strings"}, heavy |-> Booleans,
     path |-> {"string"}, compress |-> Booleans, label |-> {"string"}]

Allowed(tool, args) ==
    \A p \in Parameters[tool] :
        \/ args[p] \in SchemaKinds[p]
        \/ args[p] = "absent" /\ p \notin Required[tool]

Decodes(tool, args) ==
    \A p \in Parameters[tool] :
        \/ args[p] \in DecodedKinds[p]
        \/ args[p] = "absent" /\ p \in HasDefault

Number(kind) == IF kind = "one" THEN 1 ELSE 0

\* call_tool: the limits and the timeout it puts into its ExecRequest.
ToolAsks(args, timeout, s) ==
    [f \in Fields |->
        IF f = "timeout_seconds"
        THEN IF timeout > 0 THEN timeout ELSE Number(args.timeout_seconds)
        ELSE IF args.heavy = "true" THEN s.heavy[f] ELSE 0]
=============================================================================
