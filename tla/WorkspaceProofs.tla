-------------------------- MODULE WorkspaceProofs ---------------------------
(***************************************************************************)
(* Proofs about module Workspace, for any finite set of calls of any kind, *)
(* whichever of them may be dropped or meet faults, and any bounds.        *)
(***************************************************************************)
EXTENDS Workspace, SequenceTheorems, TLAPS

Step(c) == Progress(c) \/ Outside(c)

\* The entries of a directory: no name is there twice.
EntrySets == {es \in SUBSET (Names \X Owners) :
                  \A e, f \in es : e[1] = f[1] => e = f}

\* What list_files and delete_workspace may find in the home directory.
Paths == {<<"target">>} \union ({"staging", "expand"} \X Calls)

\* What may be listed, or packed.
Found == Paths \union (Names \X Owners)

\* What a file is made of: blocks, or, of an archive, what was packed.
Contents == (Owners \X Nat) \union SUBSET Found

Phases == {"idle", "done", "ensuring", "owning", "parenting", "staging",
           "receiving", "reparenting", "checking", "unlinking", "opening",
           "clearing", "expanding", "unpacking", "sweeping", "renaming",
           "making", "moving", "requesting", "removing", "creating",
           "writing", "permitting", "looking", "sizing", "hashing",
           "digesting", "offering", "streaming", "packing", "adding",
           "reading", "listing", "deleting", "emptying"}

\* The phase p belongs to what a call does.
Fits(o, p) ==
    /\ p \in {"ensuring", "owning", "parenting"} => o \in Writers
    /\ p \in {"staging", "receiving", "reparenting", "checking", "unlinking",
              "opening", "clearing"} => o \in Imports
    /\ p \in {"expanding", "unpacking", "sweeping"} => o \in Archives
    /\ p = "renaming" => o \in {"raw", "wrapped"}
    /\ p \in {"making", "moving"} => o = "flat"
    /\ p \in {"requesting", "removing", "creating", "writing", "permitting"}
       => o = "fetch"
    /\ p \in {"looking", "sizing", "hashing", "digesting", "offering",
              "streaming"} => o \in Exports
    /\ p \in {"packing", "adding"} => o = "pack"
    /\ p \in {"reading", "listing"} => o = "list"
    /\ p \in {"deleting", "emptying"} => o = "delete"

\* The types of what is on disk, ...
DiskTypes ==
    /\ home \in {"absent", "server", "agent"}
    /\ target \in [type : {"none", "file", "dir"}, ino : Owners,
                   entries : EntrySets]
    /\ target.type # "dir" => target.entries = {}
    /\ data \in [Owners -> Seq(Contents)]
    /\ \A i \in Owners : Len(data[i]) <= MaxBody
    /\ staging \in [Calls -> BOOLEAN]
    /\ expand \in [Calls -> SUBSET Unpacked]
    /\ home = "absent" =>
           /\ target.type = "none"
           /\ \A c \in Calls : ~staging[c] /\ expand[c] = {}

\* ... of the control of the calls, ...
ControlTypes ==
    /\ temp \in [Calls -> {"none", "present", "removed"}]
    /\ op \in [Calls -> Ops]
    /\ pc \in [Calls -> Phases]
    /\ \A c \in Calls : Fits(op[c], pc[c])
    /\ result \in [Calls -> {"none", "ok", "failed", "dropped", "crashed"}]
    /\ \A c \in Calls : (pc[c] = "done") = (result[c] # "none")
    /\ gone \in [Calls -> BOOLEAN]
    /\ restarts \in Nat

\* ... and of what they read.
ReadTypes ==
    /\ fd \in [Calls -> Owners]
    /\ off \in [Calls -> Nat]
    /\ \A c \in Calls : off[c] <= MaxBody
    /\ todo \in [Calls -> SUBSET (Names \union Paths)]
    /\ size \in [Calls -> Nat]
    /\ digest \in [Calls -> Seq(Contents)]
    /\ out \in [Calls -> Seq(Contents)]
    /\ found \in [Calls -> SUBSET Found]

\* The history: calls that are under way have met, and to meet is mutual.
Met ==
    /\ seen \in [Calls -> SUBSET Calls]
    /\ \A c \in Calls : pc[c] = "idle" => seen[c] = {} /\ ~gone[c]
    /\ \A c, d \in Calls : d \in seen[c] => c \in seen[d]
    /\ \A c, d \in Calls : Active(c) /\ Active(d) /\ c # d => d \in seen[c]

TypesInv == DiskTypes /\ ControlTypes /\ ReadTypes /\ Met

-----------------------------------------------------------------------------
(* Types.                                                                  *)

\* What ending a call does.
LEMMA EndIs ==
    ASSUME ControlTypes, NEW c \in Calls, NEW r \in {"ok", "failed", "dropped"},
           End(c, r)
    PROVE  /\ pc'[c] = "done"
           /\ result'[c] \in {r, "dropped"}
           /\ result'[c] = IF gone[c] THEN "dropped" ELSE r
           /\ pc' \in [Calls -> Phases] /\ \A v \in Calls \ {c} : pc'[v] = pc[v]
           /\ result' \in [Calls -> {"none", "ok", "failed", "dropped", "crashed"}]
           /\ \A v \in Calls \ {c} : result'[v] = result[v]
           /\ temp' \in [Calls -> {"none", "present", "removed"}]
           /\ \A v \in Calls \ {c} : temp'[v] = temp[v]
           /\ c \notin MayFault =>
                 temp'[c] = IF pc[c] \notin Packing /\ temp[c] = "present"
                            THEN "removed" ELSE temp[c]
<1>1. "done" \in Phases
  BY DEF Phases
<1> HIDE DEF Phases
<1> QED  BY <1>1 DEF End, ControlTypes

\* A call goes on, or its client has gone and it ends.
LEMMA GotoIs ==
    ASSUME ControlTypes, NEW c \in Calls, NEW p, Goto(c, p)
    PROVE  \/ pc' = [pc EXCEPT ![c] = p] /\ UNCHANGED <<result, temp>>
           \/ /\ gone[c] /\ End(c, "dropped")
              /\ ~(pc[c] \in Job(c) /\ p \in Job(c))
BY DEF Goto

\* What a step does to the control of its call.
Goes(c) ==
    \/ \E r \in {"ok", "failed", "dropped"} : End(c, r)
    \/ \E p \in Phases \ {"idle", "done"} :
           /\ Fits(op[c], p)
           /\ pc' = [pc EXCEPT ![c] = p]
           /\ result' = result
           /\ \/ temp' = temp
              \/ pc[c] = "looking" /\ temp' = [temp EXCEPT ![c] = "present"]
    \/ UNCHANGED ctlVars

\* A call that goes on does so to a phase that fits, or ends.
LEMMA GotoGoes ==
    ASSUME ControlTypes, NEW c \in Calls, NEW p \in Phases \ {"idle", "done"},
           Fits(op[c], p), Goto(c, p)
    PROVE  Goes(c)
BY GotoIs DEF Goes

\* Where a call goes on when the parent of the target is there, ...
LEMMA ParentGoes ==
    ASSUME ControlTypes, NEW c \in Calls, CreateParent(c)
    PROVE  \/ pc[c] = "parenting" /\ op[c] = "fetch" /\ Goto(c, "removing")
           \/ pc[c] = "parenting" /\ op[c] \in Imports /\ Goto(c, "staging")
           \/ pc[c] = "reparenting" /\ op[c] = "raw" /\ Goto(c, "checking")
           \/ pc[c] = "reparenting" /\ op[c] \in Archives /\ Goto(c, "expanding")
<1> DEFINE p == CASE op[c] = "fetch" -> "removing"
                  [] op[c] \in Imports /\ pc[c] = "parenting" -> "staging"
                  [] op[c] = "raw" /\ pc[c] = "reparenting" -> "checking"
                  [] op[c] \in Archives /\ pc[c] = "reparenting" -> "expanding"
<1>1. /\ Goto(c, p) /\ pc[c] \in {"parenting", "reparenting"}
      /\ Fits(op[c], pc[c])
  BY DEF CreateParent, ControlTypes
<1>2. /\ op[c] = "fetch" => pc[c] = "parenting"
      /\ op[c] = "fetch" \/ op[c] \in Imports
  BY <1>1 DEF Fits, Imports, Archives, Writers
<1>3. /\ op[c] = "fetch" => p = "removing"
      /\ op[c] \in Imports /\ pc[c] = "parenting" => p = "staging"
      /\ op[c] = "raw" /\ pc[c] = "reparenting" => p = "checking"
      /\ op[c] \in Archives /\ pc[c] = "reparenting" => p = "expanding"
  BY <1>2 DEF Imports, Archives
<1> HIDE DEF p
<1> QED  BY <1>1, <1>2, <1>3 DEF Imports

\* ... and when it has looked at what is at the path.
LEMMA CheckGoes ==
    ASSUME DiskTypes, NEW c \in Calls, Check(c)
    PROVE  \/ target.type = "none" /\ Goto(c, Placing(c))
           \/ target.type = "file" /\ Goto(c, "unlinking")
           \/ target.type = "dir" /\ Goto(c, "opening")
<1>1. target.type \in {"none", "file", "dir"}
  BY DEF DiskTypes
<1> QED  BY <1>1 DEF Check

\* Every step but Crash moves the control of one call, which has not ended.
LEMMA StepControl ==
    ASSUME ControlTypes, DiskTypes, NEW c \in Calls, Step(c)
    PROVE  /\ Goes(c) /\ pc[c] # "done"
           /\ op' = op /\ restarts' = restarts
           /\ \/ gone' = gone
              \/ /\ gone' = [gone EXCEPT ![c] = TRUE]
                 /\ Active(c) /\ UNCHANGED ctlVars
<1> USE DEF histVars, restVars, ctlVars, diskVars, openVars, readVars
<1>0. /\ op[c] \in Ops /\ pc[c] \in Phases /\ Fits(op[c], pc[c])
      /\ Ops \subseteq Writers \union Exports \union {"list", "delete"}
  BY WorkspaceAssumption DEF ControlTypes
<1>a. ASSUME NEW r \in {"ok", "failed", "dropped"}, End(c, r) PROVE Goes(c)
  BY <1>a DEF Goes
<1>1. CASE Start(c)
  <2>1. Fits(op[c], First(c)) /\ First(c) \in Phases \ {"idle", "done"}
    BY <1>0 DEF First, Fits, Phases, Writers, Exports, Imports, Archives
  <2> QED  BY <1>1, <1>a, <2>1, GotoGoes DEF Start
<1>2. CASE EnsureHome(c)
  <2>1. Fits(op[c], "owning") /\ "owning" \in Phases \ {"idle", "done"}
    BY <1>0, <1>2 DEF EnsureHome, Fits, Phases
  <2> QED  BY <1>2, <2>1, GotoGoes DEF EnsureHome
<1>3. CASE Own(c)
  <2>1. Fits(op[c], IF op[c] = "fetch" THEN "requesting" ELSE "parenting")
    BY <1>0, <1>3 DEF Own, Fits
  <2>2. (IF op[c] = "fetch" THEN "requesting" ELSE "parenting") \in Phases \ {"idle", "done"}
    BY DEF Phases
  <2> QED  BY <1>3, <1>a, <2>1, <2>2, GotoGoes DEF Own
<1>4. CASE CreateParent(c)
  <2>1. \E p \in {"removing", "staging", "checking", "expanding"} :
           Goto(c, p) /\ Fits(op[c], p)
    BY <1>4, ParentGoes DEF Fits, Imports
  <2>2. {"removing", "staging", "checking", "expanding"} \subseteq Phases \ {"idle", "done"}
    BY DEF Phases
  <2> QED  BY <1>4, <2>1, <2>2, GotoGoes DEF CreateParent
<1>5. CASE Stage(c)
  <2>1. Fits(op[c], "receiving") /\ "receiving" \in Phases \ {"idle", "done"}
    BY <1>0, <1>5 DEF Stage, Fits, Phases
  <2> QED  BY <1>5, <1>a, <2>1, GotoGoes DEF Stage
<1>6. CASE Received(c)
  <2>1. Fits(op[c], "reparenting") /\ "reparenting" \in Phases \ {"idle", "done"}
    BY <1>0, <1>6 DEF Received, Fits, Phases
  <2> QED  BY <1>6, <1>a, <2>1, GotoGoes DEF Received
<1>7. CASE MakeExpand(c)
  <2>1. Fits(op[c], "unpacking") /\ "unpacking" \in Phases \ {"idle", "done"}
    BY <1>0, <1>7 DEF MakeExpand, Fits, Phases
  <2> QED  BY <1>7, <1>a, <2>1, GotoGoes DEF MakeExpand
<1>8. CASE Unpack(c)
  <2>1. Fits(op[c], "checking") /\ "checking" \in Phases \ {"idle", "done"}
    BY <1>0, <1>8 DEF Unpack, Fits, Phases, Imports, Archives
  <2> QED  BY <1>8, <1>a, <2>1, GotoGoes DEF Unpack
<1>b. ASSUME op[c] \in Imports
      PROVE  /\ \A p \in {"unlinking", "opening", "clearing", Placing(c)} :
                    Fits(op[c], p) /\ p \in Phases \ {"idle", "done"}
             /\ Placing(c) \in {"making", "renaming"}
  BY <1>b DEF Fits, Phases, Placing, Imports, Archives
<1>9. CASE Check(c)
  <2>1. op[c] \in Imports
    BY <1>0, <1>9 DEF Check, Fits
  <2> QED  BY <1>9, <1>b, <2>1, CheckGoes, GotoGoes DEF Check
<1>10. CASE Unlink(c) \/ ClearDir(c)
  <2>1. op[c] \in Imports
    BY <1>0, <1>10 DEF Unlink, ClearDir, Fits
  <2> QED  BY <1>10, <1>a, <1>b, <2>1, GotoGoes DEF Unlink, ClearDir
<1>11. CASE OpenDir(c)
  <2>1. Fits(op[c], "clearing") /\ "clearing" \in Phases \ {"idle", "done"}
    BY <1>0, <1>11 DEF OpenDir, Fits, Phases
  <2> QED  BY <1>11, <1>a, <2>1, GotoGoes DEF OpenDir
<1>12. CASE ClearEntry(c)
  BY <1>12 DEF ClearEntry, Goes
<1>13. CASE Rename(c)
  <2>1. "sweeping" \in Phases \ {"idle", "done"} /\ pc[c] # "done"
    BY <1>13 DEF Rename, Phases
  <2>2. CASE RenameDir(c)
    <3>1. Fits(op[c], "sweeping")
      BY <2>2 DEF RenameDir, Fits, Archives
    <3> QED  BY <1>13, <2>1, <2>2, <3>1, GotoGoes DEF Rename, RenameDir
  <2> QED  BY <1>13, <1>a, <2>1, <2>2 DEF Rename, RenameFile
<1>14. CASE MakeDir(c)
  <2>1. Fits(op[c], "moving") /\ "moving" \in Phases \ {"idle", "done"}
    BY <1>0, <1>14 DEF MakeDir, Fits, Phases
  <2> QED  BY <1>14, <1>a, <2>1, GotoGoes DEF MakeDir
<1>15. CASE Move(c)
  <2>1. Fits(op[c], "sweeping") /\ "sweeping" \in Phases \ {"idle", "done"}
    BY <1>0, <1>15 DEF Move, Fits, Phases, Archives
  <2>2. /\ pc[c] = "moving" /\ op' = op /\ restarts' = restarts /\ gone' = gone
        /\ UNCHANGED ctlVars \/ Goto(c, "sweeping") \/ End(c, "failed")
    BY <1>15 DEF Move
  <2> QED  BY <1>a, <2>1, <2>2, GotoGoes DEF Goes
<1>16. CASE Sweep(c) \/ ReceiveFails(c) \/ FetchFails(c) \/ Permit(c)
            \/ ListEnds(c) \/ DeleteHome(c) \/ DiskFails(c)
  <2>1. /\ pc[c] # "done" /\ op' = op /\ restarts' = restarts /\ gone' = gone
        /\ \E r \in {"ok", "failed", "dropped"} : End(c, r)
    BY <1>16 DEF Sweep, ReceiveFails, FetchFails, Permit, ListEnds, DeleteHome,
                 DiskFails, Faulty
  <2> QED  BY <1>a, <2>1
<1>17. CASE FetchRemoves(c)
  <2>1. Fits(op[c], "creating") /\ "creating" \in Phases \ {"idle", "done"}
    BY <1>0, <1>17 DEF FetchRemoves, Fits, Phases
  <2> QED  BY <1>17, <1>a, <2>1, GotoGoes DEF FetchRemoves
<1>18. CASE FetchCreates(c)
  <2>1. Fits(op[c], "writing") /\ "writing" \in Phases \ {"idle", "done"}
    BY <1>0, <1>18 DEF FetchCreates, Fits, Phases
  <2> QED  BY <1>18, <1>a, <2>1, GotoGoes DEF FetchCreates
<1>19. CASE FetchBegins(c)
  <2>1. Fits(op[c], "parenting") /\ "parenting" \in Phases \ {"idle", "done"}
    BY <1>0, <1>19 DEF FetchBegins, Fits, Phases, Writers
  <2> QED  BY <1>19, <1>a, <2>1, GotoGoes DEF FetchBegins
<1>20. CASE FetchEnds(c)
  <2>1. Fits(op[c], "permitting") /\ "permitting" \in Phases \ {"idle", "done"}
    BY <1>0, <1>20 DEF FetchEnds, Fits, Phases
  <2> QED  BY <1>20, <1>a, <2>1, GotoGoes DEF FetchEnds
<1>21. CASE Size(c)
  <2>1. Fits(op[c], "hashing") /\ "hashing" \in Phases \ {"idle", "done"}
    BY <1>0, <1>21 DEF Size, Fits, Phases
  <2> QED  BY <1>21, <1>a, <2>1, GotoGoes DEF Size
<1>22. CASE ReadDir(c)
  <2>1. Fits(op[c], "listing") /\ "listing" \in Phases \ {"idle", "done"}
    BY <1>0, <1>22 DEF ReadDir, Fits, Phases
  <2> QED  BY <1>22, <1>a, <2>1, GotoGoes DEF ReadDir
<1>23. CASE ListEntry(c)
  <2>1. Fits(op[c], "listing") /\ "listing" \in Phases \ {"idle", "done"}
    BY <1>0, <1>23 DEF ListEntry, Fits, Phases
  <2> QED  BY <1>23, <1>a, <2>1, GotoGoes DEF ListEntry
<1>24. CASE Delete(c)
  <2>1. Fits(op[c], "emptying") /\ "emptying" \in Phases \ {"idle", "done"}
    BY <1>0, <1>24 DEF Delete, Fits, Phases
  <2> QED  BY <1>24, <1>a, <2>1, GotoGoes DEF Delete
<1>25. CASE FetchChunk(c)
  BY <1>25, <1>a DEF FetchChunk, Write, Goes
<1>26. CASE Look(c)
  <2>1. /\ op[c] \in Exports => Fits(op[c], "sizing")
        /\ op[c] = "pack" => Fits(op[c], "packing")
        /\ {"sizing", "packing"} \subseteq Phases \ {"idle", "done"}
        /\ op[c] = "export" => op[c] \in Exports
    BY DEF Fits, Phases, Exports, Packing
  <2>2. CASE End(c, "failed")
    BY <1>26, <1>a, <2>2 DEF Look
  <2>3. CASE op[c] = "export" /\ Goto(c, "sizing")
    BY <1>26, <2>1, <2>3, GotoGoes DEF Look
  <2>4. CASE op[c] = "pack" /\ pc' = [pc EXCEPT ![c] = "packing"]
             /\ temp' = [temp EXCEPT ![c] = "present"] /\ UNCHANGED result
    BY <1>26, <2>1, <2>4 DEF Look, Goes
  <2> QED  BY <1>26, <2>2, <2>3, <2>4 DEF Look
<1>27. CASE Pack(c)
  <2>1. /\ Fits(op[c], "sizing") /\ "sizing" \in Phases \ {"idle", "done"}
        /\ Fits(op[c], "adding") /\ "adding" \in Phases \ {"idle", "done"}
    BY <1>0, <1>27 DEF Pack, PackOpens, PackAdds, PackEnds, Fits, Phases, Exports,
       Packing
  <2> QED  BY <1>27, <1>a, <2>1, GotoGoes DEF Pack, PackOpens, PackAdds, PackEnds
<1>28. CASE HashOpens(c)
  <2>1. Fits(op[c], "digesting") /\ "digesting" \in Phases \ {"idle", "done"}
    BY <1>0, <1>28 DEF HashOpens, Fits, Phases
  <2> QED  BY <1>28, <1>a, <2>1, GotoGoes DEF HashOpens, OpenSource
<1>29. CASE Hash(c)
  <2>1. /\ Fits(op[c], "digesting") /\ "digesting" \in Phases \ {"idle", "done"}
        /\ Fits(op[c], "offering") /\ "offering" \in Phases \ {"idle", "done"}
    BY <1>0, <1>29 DEF Hash, Fits, Phases
  <2> QED  BY <1>29, <1>a, <2>1, GotoGoes DEF Hash
<1>30. CASE StreamOpens(c)
  <2>1. Fits(op[c], "streaming") /\ "streaming" \in Phases \ {"idle", "done"}
    BY <1>0, <1>30 DEF StreamOpens, Fits, Phases
  <2> QED  BY <1>30, <1>a, <2>1, GotoGoes DEF StreamOpens, OpenSource
<1>31. CASE Stream(c)
  BY <1>31, <1>a DEF Stream, Goes
<1>32. CASE DeleteEntry(c)
  BY <1>32 DEF DeleteEntry, Goes
<1>33. CASE Drop(c)
  BY <1>33, <1>a DEF Drop, Goes, Active
<1> QED  BY <1>1, <1>2, <1>3, <1>4, <1>5, <1>6, <1>7, <1>8, <1>9, <1>10,
            <1>11, <1>12, <1>13, <1>14, <1>15, <1>16, <1>17, <1>18, <1>19,
            <1>20, <1>21, <1>22, <1>23, <1>24, <1>25, <1>26, <1>27, <1>28,
            <1>29, <1>30, <1>31, <1>32, <1>33
         DEF Step, Progress, Outside

\* Every step keeps the types of the control variables, ...
LEMMA ControlStep ==
    ASSUME ControlTypes, DiskTypes, [Next]_vars
    PROVE  ControlTypes'
<1> USE DEF histVars, restVars, ctlVars, diskVars, openVars, readVars
<1>1. CASE Rest \/ UNCHANGED vars
  BY <1>1 DEF Rest, vars, ControlTypes
<1>2. CASE Crash
  <2>1. pc' \in [Calls -> Phases]
    BY <1>2 DEF Crash, ControlTypes, Phases
  <2>2. ASSUME NEW v \in Calls
        PROVE  Fits(op'[v], pc'[v])
    BY <1>2, <2>2 DEF Crash, ControlTypes, Fits
  <2>3. ASSUME NEW v \in Calls
        PROVE  (pc'[v] = "done") = (result'[v] # "none")
    BY <1>2, <2>3 DEF Crash, ControlTypes, Active
  <2>4. result' \in [Calls -> {"none", "ok", "failed", "dropped", "crashed"}]
    BY <1>2 DEF Crash, ControlTypes
  <2> QED  BY <1>2, <2>1, <2>2, <2>3, <2>4 DEF Crash, ControlTypes
<1>3. ASSUME NEW c \in Calls, Step(c)
      PROVE  ControlTypes'
  <2>1. /\ Goes(c) /\ pc[c] # "done" /\ op' = op /\ restarts' = restarts
        /\ gone' = gone \/ gone' = [gone EXCEPT ![c] = TRUE]
    BY <1>3, StepControl
  <2>2. gone' \in [Calls -> BOOLEAN]
    BY <2>1 DEF ControlTypes
  <2>3. CASE \E r \in {"ok", "failed", "dropped"} : End(c, r)
    <3>1. PICK r \in {"ok", "failed", "dropped"} : End(c, r)
      BY <2>3
    <3>2. /\ pc'[c] = "done" /\ result'[c] \in {r, "dropped"}
          /\ pc' \in [Calls -> Phases] /\ \A v \in Calls \ {c} : pc'[v] = pc[v]
          /\ result' \in [Calls -> {"none", "ok", "failed", "dropped", "crashed"}]
          /\ \A v \in Calls \ {c} : result'[v] = result[v]
          /\ temp' \in [Calls -> {"none", "present", "removed"}]
      BY <3>1, EndIs
    <3>3. Fits(op[c], "done")
      BY DEF Fits
    <3> QED  BY <2>1, <2>2, <3>2, <3>3 DEF ControlTypes
  <2>4. ASSUME NEW p \in Phases \ {"idle", "done"}, Fits(op[c], p),
               pc' = [pc EXCEPT ![c] = p], result' = result,
               \/ temp' = temp
               \/ temp' = [temp EXCEPT ![c] = "present"]
        PROVE  ControlTypes'
    BY <2>1, <2>2, <2>4 DEF ControlTypes
  <2>5. CASE UNCHANGED ctlVars
    BY <2>1, <2>2, <2>5 DEF ControlTypes
  <2> QED  BY <2>1, <2>3, <2>4, <2>5 DEF Goes
<1> QED  BY <1>1, <1>2, <1>3 DEF Next, Step

\* What an entry set becomes when a name is removed from it, or put there.
LEMMA EntrySetsClosed ==
    /\ {} \in EntrySets
    /\ \A i \in Owners : Names \X {i} \in EntrySets
    /\ \A es \in EntrySets, n \in Names :
           {e \in es : e[1] # n} \in EntrySets
    /\ \A es \in EntrySets, n \in Names, i \in Owners :
           {e \in es : e[1] # n} \union {<<n, i>>} \in EntrySets
BY DEF EntrySets

\* What the fields of an entry are.
LEMMA EntryForms ==
    /\ NoEntry.type = "none" /\ NoEntry.entries = {} /\ NoEntry.ino = old
    /\ \A i : File(i).type = "file" /\ File(i).entries = {} /\ File(i).ino = i
    /\ \A i, es : Dir(i, es).type = "dir" /\ Dir(i, es).entries = es
                  /\ Dir(i, es).ino = i
BY DEF NoEntry, File, Dir

EntryTypes == [type : {"none", "file", "dir"}, ino : Owners, entries : EntrySets]

\* Entries that are made are entries.
LEMMA EntryFormsTyped ==
    /\ NoEntry \in EntryTypes
    /\ \A i \in Owners : File(i) \in EntryTypes
    /\ \A i \in Owners, es \in EntrySets : Dir(i, es) \in EntryTypes
BY EntrySetsClosed DEF NoEntry, File, Dir, EntryTypes, Owners

\* What FetchCreates and FetchChunk write.
LEMMA BodyTyped ==
    ASSUME NEW c \in Owners
    PROVE  /\ Body(c) \in Seq(Contents) /\ Len(Body(c)) = MaxBody
           /\ \A n \in 0 .. MaxBody :
                 /\ SubSeq(Body(c), 1, n) \in Seq(Contents)
                 /\ Len(SubSeq(Body(c), 1, n)) = n
<1>1. MaxBody \in Nat
  BY WorkspaceAssumption
<1>2. \A n \in 1 .. MaxBody : <<c, n>> \in Contents
  BY <1>1 DEF Contents
<1>3. Body(c) \in Seq(Contents) /\ Len(Body(c)) = MaxBody
  BY <1>1, <1>2, SeqDef DEF Body
<1> HIDE DEF Body
<1> QED  BY <1>1, <1>3, SubSeqProperties

\* A write within the limit leaves a file within the limit.
LEMMA WriteTyped ==
    ASSUME NEW s \in Seq(Contents), Len(s) <= MaxBody,
           NEW n \in Nat, n < MaxBody, NEW b \in Contents
    PROVE  /\ WriteAt(s, n, b) \in Seq(Contents)
           /\ Len(WriteAt(s, n, b)) <= MaxBody
<1>1. MaxBody \in Nat /\ Len(s) \in Nat
  BY WorkspaceAssumption, LenProperties
<1>2. PICK m \in Nat : m <= MaxBody /\ m = IF n < Len(s) THEN Len(s) ELSE n + 1
  BY <1>1
<1>3. \A i \in 1 .. m : i # n + 1 /\ i <= Len(s) => s[i] \in Contents
  BY <1>1, <1>2, ElementOfSeq
<1>4. <<old, 0>> \in Contents
  BY DEF Contents, Owners
<1>5. WriteAt(s, n, b) \in [1 .. m -> Contents]
  BY <1>2, <1>3, <1>4 DEF WriteAt
<1> QED  BY <1>2, <1>5, SeqDef

-----------------------------------------------------------------------------
(* Which steps change what.                                                *)

\* Which steps change which part of the disk, and of what is read.
LEMMA StepChanges ==
    ASSUME NEW c \in Calls, Step(c)
    PROVE  /\ \/ home' = home \/ EnsureHome(c) \/ Own(c)
              \/ CreateParent(c) \/ MakeExpand(c) \/ MakeDir(c)
              \/ DeleteHome(c)
           /\ \/ target' = target \/ Unlink(c) \/ ClearEntry(c)
              \/ ClearDir(c) \/ Rename(c) \/ MakeDir(c) \/ Move(c)
              \/ FetchRemoves(c) \/ FetchCreates(c) \/ DeleteEntry(c)
           /\ \/ data' = data \/ Received(c) \/ FetchCreates(c)
              \/ FetchChunk(c) \/ PackEnds(c)
           /\ \/ staging' = staging \/ Stage(c) \/ ReceiveFails(c)
              \/ Rename(c) \/ Sweep(c) \/ DeleteEntry(c)
           /\ \/ expand' = expand \/ MakeExpand(c) \/ Unpack(c)
              \/ Rename(c) \/ Move(c) \/ Sweep(c) \/ DeleteEntry(c)
           /\ \/ fd' = fd \/ OpenDir(c) \/ FetchCreates(c) \/ HashOpens(c)
              \/ StreamOpens(c)
           /\ \/ off' = off \/ FetchChunk(c) \/ HashOpens(c) \/ Hash(c)
              \/ StreamOpens(c) \/ Stream(c)
           /\ \/ todo' = todo \/ OpenDir(c) \/ ClearEntry(c) \/ ReadDir(c)
              \/ ListEntry(c) \/ Delete(c) \/ DeleteEntry(c)
              \/ PackOpens(c) \/ PackAdds(c)
           /\ \/ size' = size \/ Size(c)
           /\ \/ digest' = digest \/ Hash(c)
           /\ \/ out' = out \/ Stream(c)
           /\ \/ found' = found \/ ListEntry(c) \/ PackAdds(c)
           /\ \/ seen' = seen \/ Start(c)
<1> USE DEF histVars, restVars, ctlVars, diskVars, openVars, readVars
<1>1. CASE \/ Start(c) \/ Check(c) \/ FetchBegins(c) \/ FetchFails(c)
           \/ FetchEnds(c) \/ Permit(c) \/ Look(c) \/ ListEnds(c) \/ Drop(c)
           \/ DiskFails(c)
  BY <1>1 DEF Start, Check, FetchBegins, FetchFails, FetchEnds, Permit, Look,
              ListEnds, Drop, DiskFails
<1>2. CASE \/ EnsureHome(c) \/ Own(c) \/ CreateParent(c) \/ Stage(c)
           \/ Received(c) \/ ReceiveFails(c) \/ MakeExpand(c) \/ Unpack(c)
           \/ MakeDir(c) \/ DeleteHome(c)
  BY <1>2 DEF EnsureHome, Own, CreateParent, Stage, Received, ReceiveFails,
              MakeExpand, Unpack, MakeDir, DeleteHome
<1>3. CASE \/ Unlink(c) \/ OpenDir(c) \/ ClearEntry(c) \/ ClearDir(c)
           \/ Rename(c) \/ Move(c) \/ Sweep(c) \/ FetchRemoves(c)
  BY <1>3 DEF Unlink, OpenDir, ClearEntry, ClearDir, Rename, Move, Sweep,
              FetchRemoves
<1>4. CASE \/ FetchCreates(c) \/ FetchChunk(c) \/ Pack(c) \/ Size(c)
           \/ HashOpens(c) \/ Hash(c) \/ StreamOpens(c) \/ Stream(c)
  BY <1>4 DEF FetchCreates, FetchChunk, Pack, PackOpens, PackAdds, PackEnds,
              Size, HashOpens, Hash, StreamOpens, Stream, OpenSource
<1>5. CASE \/ ReadDir(c) \/ ListEntry(c) \/ Delete(c) \/ DeleteEntry(c)
  BY <1>5 DEF ReadDir, ListEntry, Delete, DeleteEntry
<1> QED  BY <1>1, <1>2, <1>3, <1>4, <1>5 DEF Step, Progress, Outside

-----------------------------------------------------------------------------

\* What is at the path stays an entry, ...
LEMMA TargetStep ==
    ASSUME TypesInv, NEW c \in Calls, Step(c)
    PROVE  /\ target' \in EntryTypes
           /\ target'.type # "dir" => target'.entries = {}
<1>0. /\ target \in EntryTypes /\ (target.type # "dir" => target.entries = {})
      /\ c \in Owners
  BY DEF TypesInv, DiskTypes, EntryTypes, Owners
<1> HIDE DEF TypesInv
<1>1. CASE target' \in {target, NoEntry, File(c)}
  BY <1>0, <1>1, EntryForms, EntryFormsTyped
<1>2. CASE ClearEntry(c)
  <2>1. PICK n \in todo[c] :
           target' = IF IsDir /\ target.ino = fd[c]
                     THEN [target EXCEPT !.entries = {e \in @ : e[1] # n}]
                     ELSE target
    BY <1>2 DEF ClearEntry
  <2>2. {e \in target.entries : e[1] # n} \in EntrySets
    BY <1>0 DEF EntryTypes, EntrySets
  <2>3. ASSUME IsDir
        PROVE  [target EXCEPT !.entries = {e \in @ : e[1] # n}] \in EntryTypes
    BY <1>0, <2>2 DEF EntryTypes
  <2>4. CASE IsDir /\ target.ino = fd[c]
    BY <1>0, <2>1, <2>3, <2>4 DEF IsDir, EntryTypes
  <2> QED  BY <1>0, <2>1, <2>4
<1>3. CASE Rename(c)
  <2>1. Names \X {c} \in EntrySets
    BY <1>0, EntrySetsClosed
  <2> QED  BY <1>0, <1>1, <1>3, <2>1, EntryForms, EntryFormsTyped
           DEF Rename, RenameFile, RenameDir
<1>4. CASE MakeDir(c)
  BY <1>0, <1>4, EntrySetsClosed, EntryForms, EntryFormsTyped DEF MakeDir
<1>5. CASE Move(c)
  <2>1. ASSUME NEW n \in expand[c] \ {"."}, MoveEntry(c, n)
        PROVE  target' \in EntryTypes /\ target'.type = "dir"
    <3>1. n \in Names
      BY DEF TypesInv, DiskTypes, Unpacked
    <3>2. {e \in target.entries : e[1] # n} \union {<<n, c>>} \in EntrySets
      BY <1>0, <3>1, EntrySetsClosed DEF EntryTypes
    <3> QED  BY <1>0, <2>1, <3>2 DEF MoveEntry, IsDir, EntryTypes
  <2> QED  BY <1>0, <1>5, <2>1 DEF Move
<1>6. CASE \/ Unlink(c) \/ ClearDir(c) \/ FetchRemoves(c) \/ FetchCreates(c)
           \/ DeleteEntry(c)
  BY <1>1, <1>6 DEF Unlink, ClearDir, FetchRemoves, FetchCreates, DeleteEntry
<1> QED  BY <1>1, <1>2, <1>3, <1>4, <1>5, <1>6, StepChanges

\* ... what is in files stays within the limit, ...
LEMMA DataStep ==
    ASSUME TypesInv, NEW c \in Calls, Step(c)
    PROVE  /\ data' \in [Owners -> Seq(Contents)]
           /\ \A i \in Owners : Len(data'[i]) <= MaxBody
<1>0. /\ data \in [Owners -> Seq(Contents)] /\ c \in Owners
      /\ \A i \in Owners : Len(data[i]) <= MaxBody
      /\ MaxBody \in Nat \ {0}
  BY WorkspaceAssumption DEF TypesInv, DiskTypes, Owners
<1>1. ASSUME NEW i, NEW s \in Seq(Contents), Len(s) <= MaxBody,
             data' = [data EXCEPT ![i] = s]
      PROVE  /\ data' \in [Owners -> Seq(Contents)]
             /\ \A j \in Owners : Len(data'[j]) <= MaxBody
  BY <1>0, <1>1
<1>2. CASE Received(c)
  <2>1. data' = [data EXCEPT ![c] = Body(c)]
    BY <1>2 DEF Received
  <2> QED  BY <1>0, <1>1, <2>1, BodyTyped
<1>3. CASE FetchCreates(c)
  <2>1. <<>> \in Seq(Contents) /\ Len(<<>>) <= MaxBody
    BY <1>0, EmptySeq
  <2>2. data' = data \/ \E i : data' = [data EXCEPT ![i] = <<>>]
    BY <1>3 DEF FetchCreates
  <2> QED  BY <1>0, <1>1, <2>1, <2>2
<1>4. CASE FetchChunk(c)
  <2>1. CASE data' = data
    BY <1>0, <2>1
  <2>2. CASE off[c] < MaxBody /\ Write(c)
    <3>1. /\ fd[c] \in Owners /\ off[c] \in Nat
      BY DEF TypesInv, ReadTypes
    <3>2. <<c, off[c] + 1>> \in Contents
      BY <1>0, <3>1 DEF Contents
    <3> DEFINE s == WriteAt(data[fd[c]], off[c], <<c, off[c] + 1>>)
    <3>3. s \in Seq(Contents) /\ Len(s) <= MaxBody
      BY <1>0, <2>2, <3>1, <3>2, WriteTyped
    <3>4. data' = [data EXCEPT ![fd[c]] = s]
      BY <2>2 DEF Write
    <3> HIDE DEF s
    <3> QED  BY <1>1, <3>3, <3>4
  <2> QED  BY <1>4, <2>1, <2>2 DEF FetchChunk
<1>5. CASE PackEnds(c)
  <2>3. <<found[c]>> \in Seq(Contents) /\ Len(<<found[c]>>) <= MaxBody
    <3>1. found[c] \in Contents
      BY DEF TypesInv, ReadTypes, Contents
    <3>2. \A S : \A x \in S : <<x>> \in Seq(S) /\ Len(<<x>>) = 1
      OBVIOUS
    <3> QED  BY <1>0, <3>1, <3>2
  <2>4. <<>> \in Seq(Contents) /\ Len(<<>>) <= MaxBody
    BY <1>0, EmptySeq
  <2>5. \/ data' = [data EXCEPT ![c] = <<found[c]>>]
        \/ data' = [data EXCEPT ![c] = <<>>]
    BY <1>5 DEF PackEnds
  <2> QED  BY <1>0, <1>1, <2>3, <2>4, <2>5
<1> QED  BY <1>0, <1>2, <1>3, <1>4, <1>5, StepChanges

\* ... staging files ...
LEMMA StagingStep ==
    ASSUME TypesInv, NEW c \in Calls, Step(c)
    PROVE  /\ staging' \in [Calls -> BOOLEAN]
           /\ \A v \in Calls \ {c} : staging'[v] => staging[v]
           /\ staging'[c] => staging[c] \/ (Stage(c) /\ home # "absent")
<1>0. staging \in [Calls -> BOOLEAN]
  BY DEF TypesInv, DiskTypes
<1>1. CASE Stage(c)
  BY <1>0, <1>1 DEF Stage
<1>2. CASE ReceiveFails(c)
  <2>1. PICK left \in BOOLEAN : staging' = [staging EXCEPT ![c] = @ /\ left]
    BY <1>2 DEF ReceiveFails
  <2> QED  BY <1>0, <2>1, Zenon
<1>3. CASE Rename(c) \/ Sweep(c)
  BY <1>0, <1>3 DEF Rename, RenameFile, RenameDir, Sweep
<1>4. CASE DeleteEntry(c)
  <2>1. PICK e : staging' = [d \in Calls |-> staging[d] /\ e # <<"staging", d>>]
    BY <1>4 DEF DeleteEntry
  <2>2. \A d \in Calls : (staging[d] /\ e # <<"staging", d>>) \in BOOLEAN
    OBVIOUS
  <2> QED  BY <1>0, <2>1, <2>2, Zenon
<1> QED  BY <1>0, <1>1, <1>2, <1>3, <1>4, StepChanges

\* ... and extraction directories stay what they are.
LEMMA ExpandStep ==
    ASSUME TypesInv, NEW c \in Calls, Step(c)
    PROVE  /\ expand' \in [Calls -> SUBSET Unpacked]
           /\ \A v \in Calls \ {c} : expand'[v] \in {expand[v], {}}
           /\ expand'[c] # {} => expand[c] # {} \/ MakeExpand(c)
<1>0. expand \in [Calls -> SUBSET Unpacked]
  BY DEF TypesInv, DiskTypes
<1>1. CASE MakeExpand(c)
  BY <1>0, <1>1 DEF MakeExpand, Unpacked
<1>2. CASE Unpack(c)
  <2>1. CASE UNCHANGED expand
    BY <1>0, <2>1
  <2>2. CASE expand[c] # {} /\ expand' = [expand EXCEPT ![c] = Unpacked]
    BY <1>0, <2>2
  <2>3. CASE expand[c] # {} /\ \E ns \in SUBSET Names :
                 expand' = [expand EXCEPT ![c] = ns \union {"."}]
    BY <1>0, <2>3 DEF Unpacked
  <2> QED  BY <1>2, <2>1, <2>2, <2>3 DEF Unpack
<1>3. CASE Rename(c)
  <2>1. CASE RenameDir(c)
    <3>1. expand[c] = Unpacked /\ "." \in Unpacked
      BY <2>1 DEF RenameDir, Renamable, Archives, Unpacked
    <3> QED  BY <1>0, <2>1, <3>1 DEF RenameDir
  <2> QED  BY <1>0, <1>3, <2>1 DEF Rename, RenameFile
<1>4. CASE Move(c)
  <2>1. ASSUME NEW n \in expand[c] \ {"."}, MoveEntry(c, n)
        PROVE  expand' = [expand EXCEPT ![c] = @ \ {n}] /\ expand[c] # {}
    BY <2>1 DEF MoveEntry
  <2> QED  BY <1>0, <1>4, <2>1 DEF Move
<1>5. CASE Sweep(c)
  BY <1>0, <1>5 DEF Sweep
<1>6. CASE DeleteEntry(c)
  <2>1. PICK e : expand' = [d \in Calls |-> IF e = <<"expand", d>> THEN {} ELSE expand[d]]
    BY <1>6 DEF DeleteEntry
  <2> QED  BY <1>0, <2>1
<1> QED  BY <1>0, <1>1, <1>2, <1>3, <1>4, <1>5, <1>6, StepChanges

\* Nothing is without a home.
LEMMA HomeStep ==
    ASSUME TypesInv, NEW c \in Calls, Step(c)
    PROVE  /\ home' \in {"absent", "server", "agent"}
           /\ home' = "absent" =>
                  /\ target'.type = "none"
                  /\ \A d \in Calls : ~staging'[d] /\ expand'[d] = {}
<1>0. /\ home \in {"absent", "server", "agent"}
      /\ home = "absent" =>
             /\ target.type = "none"
             /\ \A d \in Calls : ~staging[d] /\ expand[d] = {}
  BY DEF TypesInv, DiskTypes
<1>1. /\ home' \in {"absent", "server", "agent"}
      /\ home' = "absent" => home = "absent" \/ DeleteHome(c)
  BY <1>0, StepChanges DEF EnsureHome, Own, CreateParent, MakeExpand, MakeDir,
                           DeleteHome, CreateHome
<1>2. CASE DeleteHome(c) /\ home' = "absent"
  <2>1. /\ Entries = {} \/ home = "absent"
        /\ UNCHANGED <<target, staging, expand>>
    BY <1>2 DEF DeleteHome
  <2>2. ASSUME Entries = {}
        PROVE  /\ target.type = "none"
               /\ \A d \in Calls : ~staging[d] /\ expand[d] = {}
    <3>1. target.type = "none"
      <4>1. <<"target">> \notin Entries
        BY <2>2
      <4> QED  BY <4>1 DEF Entries
    <3>2. ASSUME NEW d \in Calls
          PROVE  ~staging[d] /\ expand[d] = {}
      <4>1. <<"staging", d>> \notin Entries /\ <<"expand", d>> \notin Entries
        BY <2>2
      <4> QED  BY <4>1 DEF Entries
    <3> QED  BY <3>1, <3>2
  <2> QED  BY <1>0, <1>1, <1>2, <2>1, <2>2 DEF DeleteHome
<1>3. CASE home = "absent" /\ home' = "absent"
  <2>1. ASSUME NEW d \in Calls
        PROVE  ~staging'[d] /\ expand'[d] = {}
    <3>1. ~MakeExpand(c)
      BY <1>3 DEF MakeExpand, CreateHome
    <3> QED  BY <1>0, <1>3, <3>1, StagingStep, ExpandStep
  <2>2. target'.type = "none"
    <3>1. CASE target' \in {target, NoEntry}
      BY <1>0, <1>3, <3>1, EntryForms
    <3>2. ~IsDir /\ ~staging[c] /\ expand[c] = {} /\ Unpacked # {}
      BY <1>0, <1>3 DEF IsDir, Unpacked
    <3>3. ~MakeDir(c) \/ target' = target
      BY <1>3, <3>2 DEF MakeDir
    <3> QED  BY <1>3, <3>1, <3>2, <3>3, StepChanges
             DEF Unlink, ClearEntry, ClearDir, Rename, RenameFile, RenameDir,
                 Renamable, Move, FetchRemoves, FetchCreates, DeleteEntry
  <2> QED  BY <1>1, <2>1, <2>2
<1> QED  BY <1>0, <1>1, <1>2, <1>3

\* What a call reads and lists is of the right kind, and only it changes that.
LEMMA ReadStep ==
    ASSUME TypesInv, NEW c \in Calls, Step(c)
    PROVE  /\ ReadTypes'
           /\ \A v \in Calls \ {c} :
                 /\ fd'[v] = fd[v] /\ off'[v] = off[v] /\ todo'[v] = todo[v]
                 /\ size'[v] = size[v] /\ digest'[v] = digest[v]
                 /\ out'[v] = out[v] /\ found'[v] = found[v]
<1>0. /\ ReadTypes /\ target.ino \in Owners /\ c \in Owners
      /\ \A i \in Owners : data[i] \in Seq(Contents) /\ Len(data[i]) \in Nat
                           /\ Len(data[i]) <= MaxBody
      /\ MaxBody \in Nat \ {0}
  BY LenProperties, WorkspaceAssumption DEF TypesInv, DiskTypes, Owners
<1>s. Source(c) \in Owners
  BY <1>0 DEF Source
<1>1. /\ fd' \in [Calls -> Owners]
      /\ \A v \in Calls \ {c} : fd'[v] = fd[v]
  <2>1. CASE FetchCreates(c)
    <3>1. target'.ino \in Owners
      BY TargetStep DEF EntryTypes
    <3> QED  BY <1>0, <2>1, <3>1 DEF FetchCreates, ReadTypes
  <2>2. CASE OpenDir(c) \/ HashOpens(c) \/ StreamOpens(c)
    BY <1>0, <1>s, <2>2 DEF OpenDir, HashOpens, StreamOpens, OpenSource, ReadTypes
  <2> QED  BY <1>0, <2>1, <2>2, StepChanges DEF ReadTypes
<1>2. /\ off' \in [Calls -> Nat] /\ \A v \in Calls : off'[v] <= MaxBody
      /\ \A v \in Calls \ {c} : off'[v] = off[v]
  <2>0. /\ off \in [Calls -> Nat] /\ \A v \in Calls : off[v] <= MaxBody
        /\ fd[c] \in Owners
    BY <1>0 DEF ReadTypes
  <2>1. \/ off' = off
        \/ off' = [off EXCEPT ![c] = 0]
        \/ off[c] < MaxBody /\ off' = [off EXCEPT ![c] = @ + 1]
    <3>1. CASE FetchChunk(c)
      BY <3>1 DEF FetchChunk, Write
    <3>2. CASE HashOpens(c) \/ StreamOpens(c)
      BY <3>2 DEF HashOpens, StreamOpens, OpenSource
    <3>3. CASE Hash(c) \/ Stream(c)
      <4>1. off' = off \/ (off' = [off EXCEPT ![c] = @ + 1] /\ ~AtEnd(c))
        BY <3>3 DEF Hash, Stream, ReadOn
      <4> QED  BY <1>0, <2>0, <4>1 DEF AtEnd
    <3> QED  BY <3>1, <3>2, <3>3, StepChanges
  <2> QED  BY <1>0, <2>0, <2>1
<1>3. /\ todo' \in [Calls -> SUBSET (Names \union Paths)]
      /\ \A v \in Calls \ {c} : todo'[v] = todo[v]
  <2>1. Entries \subseteq Paths
    BY DEF Entries, Paths
  <2>2. {e[1] : e \in target.entries} \subseteq Names
    BY DEF TypesInv, DiskTypes, EntrySets
  <2>3. CASE OpenDir(c) \/ PackOpens(c)
    BY <1>0, <2>2, <2>3 DEF OpenDir, PackOpens, ReadTypes
  <2>4. CASE ReadDir(c) \/ Delete(c)
    BY <1>0, <2>1, <2>4 DEF ReadDir, Delete, ReadTypes
  <2>5. CASE ClearEntry(c) \/ ListEntry(c) \/ DeleteEntry(c) \/ PackAdds(c)
    <3>1. PICK n : todo' = [todo EXCEPT ![c] = @ \ {n}]
      BY <2>5 DEF ClearEntry, ListEntry, DeleteEntry, PackAdds
    <3> QED  BY <1>0, <3>1 DEF ReadTypes
  <2> QED  BY <1>0, <2>3, <2>4, <2>5, StepChanges DEF ReadTypes
<1>4. /\ size' \in [Calls -> Nat] /\ \A v \in Calls \ {c} : size'[v] = size[v]
  <2>1. Len(data[Source(c)]) \in Nat
    BY <1>0, <1>s
  <2> QED  BY <1>0, <2>1, StepChanges DEF Size, ReadTypes
<1>5. ASSUME NEW f, NEW g, f \in [Calls -> Seq(Contents)],
             g = f \/ (~AtEnd(c) /\ g = [f EXCEPT ![c] = Append(@, data[fd[c]][off[c] + 1])])
      PROVE  /\ g \in [Calls -> Seq(Contents)]
             /\ \A v \in Calls \ {c} : g[v] = f[v]
  <2>0. off[c] \in Nat /\ fd[c] \in Owners
    BY <1>0 DEF ReadTypes
  <2>1. ASSUME ~AtEnd(c)
        PROVE  Append(f[c], data[fd[c]][off[c] + 1]) \in Seq(Contents)
    <3>1. off[c] + 1 \in 1 .. Len(data[fd[c]])
      BY <1>0, <2>0, <2>1 DEF AtEnd
    <3>2. data[fd[c]][off[c] + 1] \in Contents
      BY <1>0, <2>0, <3>1, ElementOfSeq
    <3> QED  BY <1>5, <3>2, AppendProperties
  <2> QED  BY <1>5, <2>1
<1>6. /\ digest' \in [Calls -> Seq(Contents)]
      /\ \A v \in Calls \ {c} : digest'[v] = digest[v]
  BY <1>0, <1>5, StepChanges DEF Hash, ReadOn, ReadTypes
<1>7. /\ out' \in [Calls -> Seq(Contents)]
      /\ \A v \in Calls \ {c} : out'[v] = out[v]
  BY <1>0, <1>5, StepChanges DEF Stream, ReadOn, ReadTypes
<1>8. /\ found' \in [Calls -> SUBSET Found]
      /\ \A v \in Calls \ {c} : found'[v] = found[v]
  <2>1. Entries \subseteq Found /\ target.entries \subseteq Found
    BY DEF Entries, Paths, Found, TypesInv, DiskTypes, EntrySets
  <2>2. found' = found \/ \E e \in Found : found' = [found EXCEPT ![c] = @ \union {e}]
    BY <2>1, StepChanges DEF ListEntry, PackAdds
  <2> QED  BY <1>0, <2>2 DEF ReadTypes
<1> QED  BY <1>1, <1>2, <1>3, <1>4, <1>6, <1>7, <1>8 DEF ReadTypes

\* What a step does to the control of the call that takes it, and of others.
LEMMA ControlFrame ==
    ASSUME TypesInv, NEW c \in Calls, Step(c)
    PROVE  /\ op' = op /\ pc[c] # "done"
           /\ \A v \in Calls \ {c} :
                 /\ pc'[v] = pc[v] /\ result'[v] = result[v]
                 /\ temp'[v] = temp[v] /\ gone'[v] = gone[v]
<1>0. ControlTypes /\ DiskTypes
  BY DEF TypesInv
<1>1. /\ Goes(c) /\ pc[c] # "done" /\ op' = op
      /\ gone' = gone \/ gone' = [gone EXCEPT ![c] = TRUE]
  BY <1>0, StepControl
<1>2. \A v \in Calls \ {c} : gone'[v] = gone[v]
  BY <1>0, <1>1 DEF ControlTypes
<1>3. CASE \E r \in {"ok", "failed", "dropped"} : End(c, r)
  BY <1>0, <1>1, <1>2, <1>3, EndIs
<1>4. CASE UNCHANGED ctlVars
  BY <1>1, <1>2, <1>4 DEF ctlVars
<1>5. ASSUME NEW p \in Phases \ {"idle", "done"},
             pc' = [pc EXCEPT ![c] = p], result' = result,
             \/ temp' = temp
             \/ temp' = [temp EXCEPT ![c] = "present"]
      PROVE  /\ pc'[c] # "idle"
             /\ \A v \in Calls \ {c} :
                   /\ pc'[v] = pc[v] /\ result'[v] = result[v]
                   /\ temp'[v] = temp[v] /\ gone'[v] = gone[v]
  BY <1>0, <1>2, <1>5 DEF ControlTypes
<1> QED  BY <1>1, <1>3, <1>4, <1>5 DEF Goes

\* Where an idle call stands: only Start is open to it, which meets the calls
\* that are under way, or ends it.
LEMMA StartStep ==
    ASSUME TypesInv, NEW c \in Calls, Step(c)
    PROVE  \/ pc[c] # "idle" /\ pc'[c] # "idle" /\ seen' = seen
           \/ /\ Start(c) /\ pc[c] = "idle" /\ ~gone[c] /\ gone' = gone
              /\ \/ pc'[c] = "done" /\ seen' = seen
                 \/ /\ pc'[c] # "idle"
                    /\ seen' = [d \in Calls |->
                          IF d = c THEN {e \in Calls : Active(e)}
                          ELSE IF Active(d) THEN seen[d] \union {c} ELSE seen[d]]
<1>0. /\ pc[c] \in Phases /\ Fits(op[c], pc[c]) /\ ControlTypes /\ DiskTypes
      /\ (pc[c] = "idle" => ~gone[c])
  BY DEF TypesInv, ControlTypes, Met
<1>1. Goes(c)
  BY <1>0, StepControl
<1>2. pc[c] = "idle" => Start(c)
  <2> USE DEF Step, Progress, Outside
  <2>1. ASSUME pc[c] = "idle",
               \/ EnsureHome(c) \/ Own(c) \/ CreateParent(c) \/ Stage(c)
               \/ MakeExpand(c) \/ Unpack(c) \/ Check(c) \/ Unlink(c) \/ OpenDir(c)
               \/ ClearEntry(c) \/ ClearDir(c) \/ Rename(c) \/ MakeDir(c) \/ Move(c)
               \/ Sweep(c)
        PROVE  FALSE
    BY <2>1 DEF EnsureHome, Own, CreateParent, Stage, MakeExpand, Unpack, Check,
           Unlink, OpenDir, ClearEntry, ClearDir, Rename, MakeDir, Move, Sweep
  <2>2. ASSUME pc[c] = "idle",
               \/ FetchRemoves(c) \/ FetchCreates(c) \/ Permit(c) \/ Look(c)
               \/ Pack(c) \/ Size(c) \/ HashOpens(c) \/ Hash(c)
               \/ ReadDir(c) \/ ListEntry(c) \/ ListEnds(c) \/ Delete(c)
               \/ DeleteEntry(c) \/ DeleteHome(c)
               \/ Received(c) \/ ReceiveFails(c) \/ FetchBegins(c)
               \/ FetchFails(c) \/ FetchChunk(c) \/ FetchEnds(c)
               \/ StreamOpens(c) \/ Stream(c) \/ Drop(c) \/ DiskFails(c)
        PROVE  FALSE
    BY <2>2 DEF FetchRemoves, FetchCreates, Permit, Look, Pack, Size, HashOpens,
           Hash, ReadDir, ListEntry, ListEnds, Delete, DeleteEntry, DeleteHome,
           PackOpens, PackAdds, PackEnds, Received, ReceiveFails, FetchBegins,
           FetchFails, FetchChunk, FetchEnds, StreamOpens, Stream, Drop, DiskFails, Active, Faulty
  <2> QED  BY <2>1, <2>2
<1>3. pc[c] # "idle" => pc'[c] # "idle"
  <2>1. CASE \E r \in {"ok", "failed", "dropped"} : End(c, r)
    BY <1>0, <2>1, EndIs
  <2>2. CASE UNCHANGED ctlVars
    BY <2>2 DEF ctlVars
  <2>3. ASSUME NEW p \in Phases \ {"idle", "done"}, pc' = [pc EXCEPT ![c] = p]
        PROVE  pc'[c] # "idle"
    BY <1>0, <2>3 DEF ControlTypes
  <2> QED  BY <1>1, <2>1, <2>2, <2>3 DEF Goes
<1>4. ASSUME Start(c)
      PROVE  /\ pc[c] = "idle" /\ ~gone[c] /\ gone' = gone
             /\ \/ pc'[c] = "done" /\ seen' = seen
                \/ /\ pc'[c] # "idle"
                   /\ seen' = [d \in Calls |->
                         IF d = c THEN {e \in Calls : Active(e)}
                         ELSE IF Active(d) THEN seen[d] \union {c} ELSE seen[d]]
  <2>1. pc[c] = "idle" /\ ~gone[c] /\ gone' = gone
    BY <1>0, <1>4 DEF Start
  <2>2. CASE Goto(c, First(c))
    <3>1. First(c) # "idle"
      BY WorkspaceAssumption, <1>0 DEF First, ControlTypes
    <3>2. pc'[c] # "idle"
      BY <1>0, <2>1, <2>2, <3>1 DEF Goto, ControlTypes
    <3> QED  BY <1>4, <2>1, <3>2, <1>0, EndIs DEF Start
  <2>3. CASE End(c, "failed") /\ seen' = seen
    BY <1>0, <2>1, <2>3, EndIs
  <2> QED  BY <1>4, <2>1, <2>2, <2>3 DEF Start
<1> QED  BY <1>2, <1>3, <1>4, StepChanges

\* The history stays mutual: a call that begins meets all that are under way.
LEMMA MetStep ==
    ASSUME TypesInv, NEW c \in Calls, Step(c)
    PROVE  Met'
<1>0. Met
  BY DEF TypesInv
<1>1. /\ \A v \in Calls \ {c} : pc'[v] = pc[v] /\ gone'[v] = gone[v]
      /\ pc[c] # "done"
  BY ControlFrame
<1>2. CASE pc[c] # "idle" /\ pc'[c] # "idle" /\ seen' = seen
  <2>1. pc[c] # "done"
    BY StepControl DEF TypesInv
  <2>2. \A v \in Calls : Active(v)' => Active(v)
    BY <1>1, <1>2, <2>1 DEF Active
  <2> QED  BY <1>0, <1>1, <1>2, <2>2 DEF Met
<1>3. CASE pc[c] = "idle" /\ pc'[c] = "done" /\ seen' = seen
  <2>1. \A v \in Calls : Active(v)' => Active(v)
    BY <1>1, <1>3 DEF Active
  <2> QED  BY <1>0, <1>1, <1>3, <2>1 DEF Met
<1>4. CASE /\ pc[c] = "idle" /\ pc'[c] # "idle"
           /\ seen' = [d \in Calls |->
                 IF d = c THEN {e \in Calls : Active(e)}
                 ELSE IF Active(d) THEN seen[d] \union {c} ELSE seen[d]]
  <2>1. \A v \in Calls \ {c} : Active(v)' = Active(v)
    BY <1>1, <1>4 DEF Active
  <2>2. seen[c] = {} /\ ~Active(c)
    BY <1>0, <1>4 DEF Met, Active
  <2>3. seen' \in [Calls -> SUBSET Calls]
    BY <1>0, <1>4 DEF Met
  <2>4. ASSUME NEW v \in Calls, pc'[v] = "idle"
        PROVE  seen'[v] = {} /\ ~gone'[v]
    BY <1>0, <1>1, <1>4, <2>4 DEF Met, Active
  <2>5. ASSUME NEW v \in Calls, NEW d \in Calls, d \in seen'[v]
        PROVE  v \in seen'[d]
    <3>1. v = c => d # c /\ Active(d)
      BY <1>4, <2>2, <2>5
    <3>2. v # c /\ d = c => Active(v)
      BY <1>0, <1>4, <2>2, <2>5 DEF Met
    <3> QED  BY <1>0, <1>4, <2>5, <3>1, <3>2 DEF Met
  <2>6. ASSUME NEW v \in Calls, NEW d \in Calls, Active(v)', Active(d)', v # d
        PROVE  d \in seen'[v]
    <3>1. (v # c => Active(v)) /\ (d # c => Active(d))
      BY <2>1, <2>6
    <3> QED  BY <1>0, <1>4, <2>6, <3>1 DEF Met
  <2> QED  BY <2>3, <2>4, <2>5, <2>6 DEF Met
<1> QED  BY <1>2, <1>3, <1>4, StartStep

\* The types hold initially, ...
LEMMA TypesInit == Init => TypesInv
<1> SUFFICES ASSUME Init
             PROVE  TypesInv
  OBVIOUS
<1>1. DiskTypes
  <2>1. /\ target \in EntryTypes
        /\ target.type # "dir" => target.entries = {}
        /\ home \in {"absent", "server", "agent"}
        /\ home = "absent" => target.type = "none"
    <3>1. old \in Owners
      BY DEF Owners
    <3> QED  BY <3>1, EntrySetsClosed, EntryForms, EntryFormsTyped DEF Init
  <2>2. data \in [Owners -> Seq(Contents)] /\ \A i \in Owners : Len(data[i]) <= MaxBody
    <3>1. <<>> \in Seq(Contents) /\ Len(<<>>) <= MaxBody /\ MaxBody \in Nat
      BY EmptySeq, WorkspaceAssumption
    <3>2. Body(old) \in Seq(Contents) /\ Len(Body(old)) = MaxBody
      BY BodyTyped DEF Owners
    <3> QED  BY <3>1, <3>2 DEF Init
  <2> QED  BY <2>1, <2>2 DEF Init, DiskTypes, EntryTypes
<1>2. ControlTypes
  <2>1. "idle" \in Phases
    BY DEF Phases
  <2> HIDE DEF Phases
  <2> QED  BY <2>1 DEF Init, ControlTypes, Fits
<1>3. ReadTypes
  <2>1. <<>> \in Seq(Contents) /\ old \in Owners
    BY EmptySeq DEF Owners
  <2> QED  BY <2>1, WorkspaceAssumption DEF Init, ReadTypes
<1>4. Met
  BY DEF Init, Met, Active
<1> QED  BY <1>1, <1>2, <1>3, <1>4 DEF TypesInv

\* ... every step keeps them, ...
LEMMA TypesStep == TypesInv /\ [Next]_vars => TypesInv'
<1> SUFFICES ASSUME TypesInv, [Next]_vars
             PROVE  TypesInv'
  OBVIOUS
<1>0. ControlTypes'
  BY ControlStep DEF TypesInv
<1>1. CASE Rest \/ Crash \/ UNCHANGED vars
  <2>1. UNCHANGED <<diskVars, openVars, readVars, gone, seen>>
    BY <1>1 DEF Rest, Crash, vars, restVars, histVars
  <2>2. DiskTypes' /\ ReadTypes'
    BY <2>1 DEF TypesInv, DiskTypes, ReadTypes, diskVars, openVars, readVars
  <2>3. \A v \in Calls : (Active(v)' => Active(v)) /\ (pc'[v] = "idle" => pc[v] = "idle")
    BY <1>1 DEF Rest, Crash, vars, ctlVars, Active
  <2>4. Met'
    BY <2>1, <2>3 DEF TypesInv, Met
  <2> QED  BY <1>0, <2>2, <2>4 DEF TypesInv
<1>2. ASSUME NEW c \in Calls, Step(c)
      PROVE  TypesInv'
  <2>1. DiskTypes'
    BY <1>2, TargetStep, DataStep, StagingStep, ExpandStep, HomeStep
       DEF DiskTypes, EntryTypes
  <2> QED  BY <1>0, <1>2, <2>1, ReadStep, MetStep DEF TypesInv
<1> QED  BY <1>1, <1>2 DEF Next, Step

\* ... and so they always hold.
LEMMA TypesKept == Spec => []TypesInv
BY TypesInit, TypesStep, PTL DEF Spec

\* Type correctness, for any calls and bounds, and what the file system keeps
\* to: nothing is without a home, no name is twice in a directory, and no file
\* exceeds the limit.
THEOREM WorkspaceTypes == Spec => []WorkspaceTypeOK
<1>1. TypesInv => WorkspaceTypeOK
  <2> SUFFICES ASSUME TypesInv
               PROVE  WorkspaceTypeOK
    OBVIOUS
  <2>1. home = "absent" => Entries = {}
    BY DEF TypesInv, DiskTypes, Entries
  <2>2. /\ target.type \in {"none", "file", "dir"} /\ target.ino \in Owners
        /\ target.entries \subseteq Names \X Owners
        /\ \A e, f \in target.entries : e[1] = f[1] => e = f
    BY DEF TypesInv, DiskTypes, EntrySets
  <2>3. off \in [Calls -> 0 .. MaxBody]
    BY WorkspaceAssumption DEF TypesInv, ReadTypes
  <2> QED  BY <2>1, <2>2, <2>3
           DEF TypesInv, DiskTypes, ControlTypes, ReadTypes, Met, WorkspaceTypeOK
<1> QED  BY TypesKept, <1>1, PTL

-----------------------------------------------------------------------------
(* How a call goes on, and how it ends.                                    *)

\* q may come after p.
Follows(p, q) ==
    /\ q \in {"ensuring", "looking", "reading", "deleting"} => p = "idle"
    /\ q = "owning" => p = "ensuring"
    /\ q = "requesting" => p = "owning"
    /\ q = "parenting" => p \in {"owning", "requesting"}
    /\ q = "staging" => p = "parenting"
    /\ q = "receiving" => p = "staging"
    /\ q = "reparenting" => p = "receiving"
    /\ q = "expanding" => p = "reparenting"
    /\ q = "unpacking" => p = "expanding"
    /\ q = "checking" => p \in {"reparenting", "unpacking"}
    /\ q \in {"unlinking", "opening"} => p = "checking"
    /\ q = "clearing" => p = "opening"
    /\ q \in {"renaming", "making"} => p \in {"checking", "unlinking", "clearing"}
    /\ q = "moving" => p = "making"
    /\ q = "sweeping" => p \in {"renaming", "moving"}
    /\ q = "removing" => p = "parenting"
    /\ q = "creating" => p = "removing"
    /\ q = "writing" => p = "creating"
    /\ q = "permitting" => p = "writing"
    /\ q = "packing" => p = "looking"
    /\ q = "adding" => p \in {"packing", "adding"}
    /\ q = "sizing" => p \in {"looking", "adding"}
    /\ q = "hashing" => p = "sizing"
    /\ q = "digesting" => p = "hashing"
    /\ q = "offering" => p = "digesting"
    /\ q = "streaming" => p = "offering"
    /\ q = "listing" => p = "reading"
    /\ q = "emptying" => p = "deleting"
    /\ q # "idle"

\* A call that goes on moves to a phase that follows its own.
LEMMA StepMoves ==
    ASSUME TypesInv, NEW c \in Calls, Step(c)
    PROVE  \/ pc'[c] = "done"
           \/ result'[c] = result[c] /\ pc'[c] = pc[c]
           \/ result'[c] = result[c] /\ Follows(pc[c], pc'[c])
<1> USE DEF histVars, restVars, ctlVars, diskVars, openVars, readVars
<1>0. ControlTypes /\ DiskTypes /\ pc[c] \in Phases /\ op[c] \in Ops
  BY DEF TypesInv, ControlTypes
<1>1. CASE \E r \in {"ok", "failed", "dropped"} : End(c, r)
  BY <1>0, <1>1, EndIs
<1>2. CASE UNCHANGED ctlVars
  BY <1>2
<1>n. ASSUME \A r \in {"ok", "failed", "dropped"} : ~End(c, r)
      PROVE  /\ \A p : Goto(c, p) => pc'[c] = p /\ result' = result
             /\ ~Drop(c) \/ UNCHANGED ctlVars
  BY <1>0, <1>n DEF Goto, Drop, ControlTypes
<1>3. ASSUME NEW p, result' = result, pc'[c] = p, Follows(pc[c], p)
      PROVE  result'[c] = result[c] /\ Follows(pc[c], pc'[c])
  BY <1>3
<1>4. ASSUME \A r \in {"ok", "failed", "dropped"} : ~End(c, r),
             ~UNCHANGED ctlVars
      PROVE  \/ result'[c] = result[c] /\ pc'[c] = pc[c]
             \/ result'[c] = result[c] /\ Follows(pc[c], pc'[c])
  <2>0. (\A p : Goto(c, p) => pc'[c] = p /\ result' = result) /\ ~Drop(c)
    BY <1>4, <1>n
  <2>1. CASE Start(c)
    <3>1. pc[c] = "idle" /\ Goto(c, First(c))
      BY <1>4, <2>1 DEF Start
    <3>2. First(c) \in {"ensuring", "looking", "reading", "deleting"}
      BY <1>0, WorkspaceAssumption DEF First
    <3> QED  BY <2>0, <3>1, <3>2 DEF Follows
  <2>2. CASE EnsureHome(c)
    <3>1. pc[c] = "ensuring" /\ Goto(c, "owning")
      BY <1>4, <2>2 DEF EnsureHome
    <3> QED  BY <2>0, <3>1 DEF Follows
  <2>3. CASE Own(c)
    <3>1. pc[c] = "owning" /\ (Goto(c, "requesting") \/ Goto(c, "parenting"))
      BY <1>4, <2>3 DEF Own
    <3> QED  BY <2>0, <3>1 DEF Follows
  <2>4. CASE CreateParent(c)
    BY <1>0, <2>0, <2>4, ParentGoes DEF Follows
  <2>5. CASE Stage(c)
    <3>1. pc[c] = "staging" /\ Goto(c, "receiving")
      BY <1>4, <2>5 DEF Stage
    <3> QED  BY <2>0, <3>1 DEF Follows
  <2>6. CASE Received(c)
    <3>1. pc[c] = "receiving" /\ Goto(c, "reparenting")
      BY <1>4, <2>6 DEF Received
    <3> QED  BY <2>0, <3>1 DEF Follows
  <2>7. CASE MakeExpand(c)
    <3>1. pc[c] = "expanding" /\ Goto(c, "unpacking")
      BY <1>4, <2>7 DEF MakeExpand
    <3> QED  BY <2>0, <3>1 DEF Follows
  <2>8. CASE Unpack(c)
    <3>1. pc[c] = "unpacking" /\ Goto(c, "checking")
      BY <1>4, <2>8 DEF Unpack
    <3> QED  BY <2>0, <3>1 DEF Follows
  <2>9. CASE Check(c)
    <3>1. /\ pc[c] = "checking"
          /\ \E p \in {"unlinking", "opening", "renaming", "making"} : Goto(c, p)
      BY <1>0, <2>9, CheckGoes DEF Placing, Check
    <3> QED  BY <2>0, <3>1 DEF Follows
  <2>10. CASE Unlink(c)
    <3>1. pc[c] = "unlinking" /\ Goto(c, Placing(c))
      BY <1>4, <2>10 DEF Unlink
    <3> QED  BY <2>0, <3>1 DEF Follows, Placing
  <2>11. CASE ClearDir(c)
    <3>1. pc[c] = "clearing" /\ Goto(c, Placing(c))
      BY <1>4, <2>11 DEF ClearDir
    <3> QED  BY <2>0, <3>1 DEF Follows, Placing
  <2>12. CASE OpenDir(c)
    <3>1. pc[c] = "opening" /\ Goto(c, "clearing")
      BY <1>4, <2>12 DEF OpenDir
    <3> QED  BY <2>0, <3>1 DEF Follows
  <2>13. CASE Rename(c)
    <3>1. pc[c] = "renaming" /\ Goto(c, "sweeping")
      BY <1>4, <2>13 DEF Rename, RenameFile, RenameDir
    <3> QED  BY <2>0, <3>1 DEF Follows
  <2>14. CASE MakeDir(c)
    <3>1. pc[c] = "making" /\ Goto(c, "moving")
      BY <1>4, <2>14 DEF MakeDir
    <3> QED  BY <2>0, <3>1 DEF Follows
  <2>15. CASE Move(c)
    <3>1. pc[c] = "moving" /\ Goto(c, "sweeping")
      BY <1>4, <2>15 DEF Move
    <3> QED  BY <2>0, <3>1 DEF Follows
  <2>16. CASE FetchBegins(c)
    <3>1. pc[c] = "requesting" /\ Goto(c, "parenting")
      BY <1>4, <2>16 DEF FetchBegins
    <3> QED  BY <2>0, <3>1 DEF Follows
  <2>17. CASE FetchRemoves(c)
    <3>1. pc[c] = "removing" /\ Goto(c, "creating")
      BY <1>4, <2>17 DEF FetchRemoves
    <3> QED  BY <2>0, <3>1 DEF Follows
  <2>18. CASE FetchCreates(c)
    <3>1. pc[c] = "creating" /\ Goto(c, "writing")
      BY <1>4, <2>18 DEF FetchCreates
    <3> QED  BY <2>0, <3>1 DEF Follows
  <2>19. CASE FetchEnds(c)
    <3>1. pc[c] = "writing" /\ Goto(c, "permitting")
      BY <1>4, <2>19 DEF FetchEnds
    <3> QED  BY <2>0, <3>1 DEF Follows
  <2>20. CASE Look(c)
    <3>1. pc[c] = "looking" /\ result' = result /\ pc'[c] \in {"sizing", "packing"}
      BY <1>0, <1>4, <2>0, <2>20 DEF Look, ControlTypes
    <3> QED  BY <3>1 DEF Follows
  <2>21. CASE Pack(c)
    <3>1. \/ pc[c] \in Packing /\ Goto(c, "adding")
          \/ pc[c] = "adding" /\ Goto(c, "sizing")
      BY <1>4, <2>21 DEF Pack, PackOpens, PackAdds, PackEnds, Packing
    <3> QED  BY <2>0, <3>1 DEF Follows, Packing
  <2>22. CASE Size(c)
    <3>1. pc[c] = "sizing" /\ Goto(c, "hashing")
      BY <1>4, <2>22 DEF Size
    <3> QED  BY <2>0, <3>1 DEF Follows
  <2>23. CASE HashOpens(c)
    <3>1. pc[c] = "hashing" /\ Goto(c, "digesting")
      BY <1>4, <2>23 DEF HashOpens, OpenSource
    <3> QED  BY <2>0, <3>1 DEF Follows
  <2>24. CASE Hash(c)
    <3>1. /\ pc[c] = "digesting"
          /\ Goto(c, "digesting") \/ Goto(c, "offering")
      BY <2>24 DEF Hash
    <3> QED  BY <2>0, <3>1 DEF Follows
  <2>25. CASE StreamOpens(c)
    <3>1. pc[c] = "offering" /\ Goto(c, "streaming")
      BY <1>4, <2>25 DEF StreamOpens, OpenSource
    <3> QED  BY <2>0, <3>1 DEF Follows
  <2>26. CASE ReadDir(c)
    <3>1. pc[c] = "reading" /\ Goto(c, "listing")
      BY <1>4, <2>26 DEF ReadDir
    <3> QED  BY <2>0, <3>1 DEF Follows
  <2>27. CASE ListEntry(c)
    <3>1. pc[c] = "listing" /\ Goto(c, "listing")
      BY <1>4, <2>27 DEF ListEntry
    <3> QED  BY <2>0, <3>1
  <2>28. CASE Delete(c)
    <3>1. pc[c] = "deleting" /\ Goto(c, "emptying")
      BY <1>4, <2>28 DEF Delete
    <3> QED  BY <2>0, <3>1 DEF Follows
  <2>29. CASE \/ ReceiveFails(c) \/ ClearEntry(c) \/ Sweep(c) \/ FetchFails(c)
              \/ FetchChunk(c) \/ Permit(c) \/ Stream(c) \/ ListEnds(c)
              \/ DeleteEntry(c) \/ DeleteHome(c) \/ DiskFails(c)
    BY <1>4, <2>29 DEF ReceiveFails, ClearEntry, Sweep, FetchFails, FetchChunk,
       Write, Permit, Stream, ListEnds, DeleteEntry, DeleteHome, DiskFails
  <2> QED  BY <2>0, <2>1, <2>2, <2>3, <2>4, <2>5, <2>6, <2>7, <2>8, <2>9, <2>10, <2>11,
              <2>12, <2>13, <2>14, <2>15, <2>16, <2>17, <2>18, <2>19, <2>20, <2>21,
              <2>22, <2>23, <2>24, <2>25, <2>26, <2>27, <2>28, <2>29
           DEF Step, Progress, Outside
<1> QED  BY <1>1, <1>2, <1>4

\* The steps that end a call without an error.
Completes(c) ==
    \/ Rename(c) /\ RenameFile(c)
    \/ Sweep(c)
    \/ Permit(c) /\ target.type # "none"
    \/ Stream(c) /\ AtEnd(c)
    \/ ReadDir(c) /\ home = "absent"
    \/ ListEnds(c)
    \/ Delete(c) /\ home = "absent"
    \/ DeleteHome(c) /\ Entries = {}

\* Which step ends a call without an error, and which drops it.
LEMMA StepEnds ==
    ASSUME TypesInv, NEW c \in Calls, Step(c), pc'[c] = "done"
    PROVE  /\ result'[c] = "ok" => Completes(c)
           /\ result'[c] = "ok" =>
                 \/ RenameFile(c) \/ Sweep(c)
                 \/ Permit(c) /\ target.type # "none"
                 \/ op[c] \notin Writers
           /\ result'[c] = "dropped" => gone[c] \/ (Drop(c) /\ pc[c] \in Parked)
           /\ gone[c] => result'[c] = "dropped"
           /\ result'[c] \in {"ok", "failed", "dropped"}
           /\ gone' = gone
           /\ c \notin MayFault =>
                 temp'[c] = IF pc[c] \notin Packing /\ temp[c] = "present"
                            THEN "removed" ELSE temp[c]
<1> USE DEF histVars, restVars, ctlVars, diskVars, openVars, readVars
<1>0. /\ ControlTypes /\ DiskTypes /\ Fits(op[c], pc[c]) /\ op[c] \in Ops
      /\ pc[c] # "done"
  BY StepControl DEF TypesInv, ControlTypes
<1>1. /\ gone' = gone /\ \E r \in {"ok", "failed", "dropped"} : End(c, r)
  <2>1. Goes(c) /\ (gone' = gone \/ UNCHANGED ctlVars)
    BY <1>0, StepControl
  <2>2. ~UNCHANGED ctlVars
    BY <1>0
  <2>3. ASSUME NEW p \in Phases \ {"idle", "done"}, pc' = [pc EXCEPT ![c] = p]
        PROVE  FALSE
    BY <1>0, <2>3 DEF ControlTypes
  <2> QED  BY <2>1, <2>2, <2>3 DEF Goes
<1>2. \A r \in {"ok", "failed", "dropped"} :
         End(c, r) => result'[c] = IF gone[c] THEN "dropped" ELSE r
  BY <1>0, EndIs
<1>3. ASSUME ~gone[c], ~End(c, "failed")
      PROVE  \/ End(c, "ok") /\ Completes(c)
             \/ Drop(c) /\ pc[c] \in Parked
  <2>1. \A p : p # "done" => ~Goto(c, p)
    BY <1>0, <1>3 DEF Goto, ControlTypes
  <2>2. ~UNCHANGED ctlVars
    BY <1>0
  <2>3. CASE \/ Start(c) \/ EnsureHome(c) \/ Own(c) \/ Stage(c) \/ Received(c)
             \/ ReceiveFails(c) \/ MakeExpand(c) \/ Unpack(c)
    <3>1. First(c) # "done"
      BY <1>0, WorkspaceAssumption DEF First
    <3> QED  BY <1>3, <2>1, <2>3, <3>1 DEF Start, EnsureHome, Own, Stage,
                Received, ReceiveFails, MakeExpand, Unpack
  <2>4. CASE CreateParent(c) \/ Check(c)
    BY <1>0, <2>1, <2>4, ParentGoes, CheckGoes DEF Placing
  <2>5. CASE \/ Unlink(c) \/ OpenDir(c) \/ ClearEntry(c) \/ ClearDir(c)
             \/ MakeDir(c) \/ Move(c)
    <3>1. Placing(c) # "done"
      BY DEF Placing
    <3> QED  BY <1>3, <2>1, <2>2, <2>5, <3>1 DEF Unlink, OpenDir, ClearEntry,
                ClearDir, MakeDir, Move
  <2>6. CASE Rename(c) \/ Sweep(c)
    BY <1>3, <2>1, <2>6 DEF Rename, RenameFile, RenameDir, Sweep, Completes
  <2>7. CASE \/ FetchBegins(c) \/ FetchFails(c) \/ FetchRemoves(c)
             \/ FetchCreates(c) \/ FetchChunk(c) \/ FetchEnds(c) \/ Permit(c)
    BY <1>3, <2>1, <2>2, <2>7 DEF FetchBegins, FetchFails, FetchRemoves,
       FetchCreates, FetchChunk, Write, FetchEnds, Permit, Completes
  <2>8. CASE \/ Look(c) \/ Pack(c) \/ Size(c) \/ HashOpens(c) \/ Hash(c)
             \/ StreamOpens(c) \/ Stream(c)
    <3>1. ~Look(c) \/ End(c, "failed")
      BY <1>0, <2>1 DEF Look, ControlTypes
    <3> QED  BY <1>3, <2>1, <2>2, <2>8, <3>1 DEF Pack, PackOpens, PackAdds,
                PackEnds, Size, HashOpens, Hash, StreamOpens, Stream, OpenSource,
                Completes
  <2>9. CASE \/ ReadDir(c) \/ ListEntry(c) \/ ListEnds(c) \/ Delete(c)
             \/ DeleteEntry(c) \/ DeleteHome(c)
    BY <1>3, <2>1, <2>2, <2>9 DEF ReadDir, ListEntry, ListEnds, Delete,
       DeleteEntry, DeleteHome, Completes
  <2>10. CASE Drop(c) \/ DiskFails(c)
    BY <1>0, <1>3, <2>2, <2>10 DEF Drop, DiskFails
  <2> QED  BY <2>3, <2>4, <2>5, <2>6, <2>7, <2>8, <2>9, <2>10
           DEF Step, Progress, Outside
<1>4. CASE gone[c]
  BY <1>0, <1>1, <1>2, <1>4, EndIs
<1>5. CASE End(c, "failed") /\ ~gone[c]
  BY <1>0, <1>1, <1>2, <1>5, EndIs
<1>6. CASE ~End(c, "failed") /\ ~gone[c]
  <2>0. Completes(c) => \/ RenameFile(c) \/ Sweep(c)
                        \/ Permit(c) /\ target.type # "none"
                        \/ op[c] \notin Writers
    BY <1>0 DEF Completes, Stream, ReadDir, ListEnds, Delete, DeleteHome, Fits,
       Writers, Imports, Archives, Exports
  <2>1. result'[c] \in {"ok", "dropped"}
    BY <1>1, <1>2, <1>6
  <2>2. result'[c] = "dropped" => ~End(c, "ok")
    BY <1>2, <1>6
  <2>3. /\ result'[c] = "ok" => End(c, "ok")
        /\ result'[c] = "dropped" => End(c, "dropped")
    BY <1>1, <1>2, <1>6
  <2>4. CASE result'[c] = "ok"
    <3>1. ~Drop(c)
      BY <1>0, <1>2, <1>6, <2>4 DEF Drop
    <3> QED  BY <1>0, <1>1, <1>3, <1>6, <2>0, <2>3, <2>4, <3>1, EndIs
  <2>5. CASE result'[c] = "dropped"
    BY <1>0, <1>1, <1>3, <1>6, <2>2, <2>3, <2>5, EndIs
  <2> QED  BY <2>1, <2>4, <2>5
<1> QED  BY <1>4, <1>5, <1>6

\* The step of a call in each of its phases, if nothing goes wrong.
LEMMA StepAt ==
    ASSUME TypesInv, NEW c \in Calls, Step(c), ~Drop(c), ~DiskFails(c)
    PROVE  /\ pc[c] = "idle" => Start(c)
           /\ pc[c] = "ensuring" => EnsureHome(c)
           /\ pc[c] = "owning" => Own(c)
           /\ pc[c] = "parenting" => CreateParent(c)
           /\ pc[c] = "staging" => Stage(c)
           /\ pc[c] = "receiving" => Received(c) \/ ReceiveFails(c)
           /\ pc[c] = "reparenting" => CreateParent(c)
           /\ pc[c] = "expanding" => MakeExpand(c)
           /\ pc[c] = "unpacking" => Unpack(c)
           /\ pc[c] = "checking" => Check(c)
           /\ pc[c] = "unlinking" => Unlink(c)
           /\ pc[c] = "opening" => OpenDir(c)
           /\ pc[c] = "clearing" => ClearEntry(c) \/ ClearDir(c)
           /\ pc[c] = "renaming" => Rename(c)
           /\ pc[c] = "making" => MakeDir(c)
           /\ pc[c] = "moving" => Move(c)
           /\ pc[c] = "sweeping" => Sweep(c)
           /\ pc[c] = "requesting" => FetchBegins(c) \/ FetchFails(c)
           /\ pc[c] = "removing" => FetchRemoves(c)
           /\ pc[c] = "creating" => FetchCreates(c)
           /\ pc[c] = "writing" => FetchFails(c) \/ FetchChunk(c) \/ FetchEnds(c)
           /\ pc[c] = "permitting" => Permit(c)
           /\ pc[c] = "looking" => Look(c)
           /\ pc[c] = "packing" => PackOpens(c)
           /\ pc[c] = "adding" => PackAdds(c) \/ PackEnds(c)
           /\ pc[c] = "sizing" => Size(c)
           /\ pc[c] = "hashing" => HashOpens(c)
           /\ pc[c] = "digesting" => Hash(c)
           /\ pc[c] = "offering" => StreamOpens(c)
           /\ pc[c] = "streaming" => Stream(c)
           /\ pc[c] = "reading" => ReadDir(c)
           /\ pc[c] = "listing" => ListEntry(c) \/ ListEnds(c)
           /\ pc[c] = "deleting" => Delete(c)
           /\ pc[c] = "emptying" => DeleteEntry(c) \/ DeleteHome(c)
<1>1. CASE \/ Start(c) \/ EnsureHome(c) \/ Own(c) \/ CreateParent(c)
          \/ Stage(c) \/ Received(c) \/ ReceiveFails(c)
          \/ MakeExpand(c) \/ Unpack(c)
  BY <1>1 DEF Start, EnsureHome, Own, CreateParent, Stage, Received,
             ReceiveFails, MakeExpand, Unpack
<1>2. CASE \/ Check(c) \/ Unlink(c) \/ OpenDir(c) \/ ClearEntry(c)
          \/ ClearDir(c) \/ Rename(c) \/ MakeDir(c) \/ Move(c)
  BY <1>2 DEF Check, Unlink, OpenDir, ClearEntry, ClearDir, Rename, MakeDir,
             Move
<1>3. CASE \/ Sweep(c) \/ FetchBegins(c) \/ FetchFails(c)
          \/ FetchRemoves(c) \/ FetchCreates(c) \/ FetchChunk(c)
          \/ FetchEnds(c) \/ Permit(c)
  BY <1>3 DEF Sweep, FetchBegins, FetchFails, FetchRemoves, FetchCreates,
             FetchChunk, FetchEnds, Permit
<1>4. CASE \/ Look(c) \/ Pack(c) \/ Size(c) \/ HashOpens(c) \/ Hash(c)
          \/ StreamOpens(c) \/ Stream(c) \/ ReadDir(c) \/ ListEntry(c)
          \/ ListEnds(c) \/ Delete(c) \/ DeleteEntry(c)
          \/ DeleteHome(c)
  BY <1>4 DEF Look, Pack, PackOpens, PackAdds, PackEnds, Size, HashOpens, Hash,
             StreamOpens, Stream, ReadDir, ListEntry, ListEnds, Delete, DeleteEntry, DeleteHome
<1> QED  BY <1>1, <1>2, <1>3, <1>4 DEF Step, Progress, Outside

\* What a crash does to a call.
LEMMA CrashIs ==
    ASSUME TypesInv, Crash, NEW v \in Calls
    PROVE  /\ UNCHANGED <<diskVars, temp, openVars, readVars, op, gone, seen>>
           /\ \/ Active(v) /\ pc'[v] = "done" /\ result'[v] = "crashed"
              \/ ~Active(v) /\ pc'[v] = pc[v] /\ result'[v] = result[v]
BY DEF Crash, TypesInv, ControlTypes

\* What is known of what a call does and where it is.
LEMMA Fitting ==
    ASSUME TypesInv, NEW c \in Calls
    PROVE  Fits(op[c], pc[c]) /\ op[c] \in Ops /\ pc[c] \in Phases
BY DEF TypesInv, ControlTypes

-----------------------------------------------------------------------------
(* Directories of more than one archive.                                   *)

\* The phases in which an import has seen the path empty, ...
Replacing == {"renaming", "making", "moving"}

\* ... so that whatever is there has come since.
MixInv ==
    /\ MixHasCause
    /\ \A c \in Calls :
          pc[c] \in Replacing =>
              \A e \in target.entries : e[2] \in seen[c] \union {c}

\* Calls that have met, have met.
LEMMA SeenGrows ==
    ASSUME TypesInv, NEW c \in Calls, Step(c), NEW v \in Calls
    PROVE  seen[v] \subseteq seen'[v]
<1>1. seen[c] = {} \/ pc[c] # "idle"
  BY DEF TypesInv, Met
<1> QED  BY <1>1, StartStep DEF TypesInv, Met

\* An entry that a step finds or puts in the target.
LEMMA EntriesStep ==
    ASSUME TypesInv, NEW c \in Calls, Step(c)
    PROVE  \/ target'.entries \subseteq target.entries
           \/ target'.entries = Names \X {c} /\ pc[c] = "renaming"
           \/ /\ pc[c] = "moving" /\ pc'[c] = "moving"
              /\ \A e \in target'.entries : e \in target.entries \/ e[2] = c
<1>0. target \in EntryTypes
  BY DEF TypesInv, DiskTypes, EntryTypes
<1>1. CASE target' \in {target, NoEntry, File(c)}
  BY <1>1, EntryForms
<1>2. CASE ClearEntry(c)
  <2>1. PICK n \in todo[c] :
           target' = IF IsDir /\ target.ino = fd[c]
                     THEN [target EXCEPT !.entries = {e \in @ : e[1] # n}]
                     ELSE target
    BY <1>2 DEF ClearEntry
  <2> QED  BY <1>0, <2>1 DEF EntryTypes
<1>3. CASE Rename(c)
  BY <1>1, <1>3, EntryForms DEF Rename, RenameFile, RenameDir
<1>4. CASE MakeDir(c)
  BY <1>4, EntryForms DEF MakeDir
<1>5. CASE Move(c)
  <2>1. ASSUME NEW n \in expand[c] \ {"."}, MoveEntry(c, n), UNCHANGED ctlVars,
               pc[c] = "moving"
        PROVE  /\ pc[c] = "moving" /\ pc'[c] = "moving"
               /\ \A e \in target'.entries : e \in target.entries \/ e[2] = c
    BY <1>0, <2>1 DEF MoveEntry, EntryTypes, ctlVars
  <2> QED  BY <1>5, <2>1 DEF Move
<1>6. CASE \/ Unlink(c) \/ ClearDir(c) \/ FetchRemoves(c) \/ FetchCreates(c)
           \/ DeleteEntry(c)
  BY <1>1, <1>6 DEF Unlink, ClearDir, FetchRemoves, FetchCreates, DeleteEntry
<1> QED  BY <1>1, <1>2, <1>3, <1>4, <1>5, <1>6, StepChanges

\* An import begins to replace when there is nothing at the path.
LEMMA ReplaceStep ==
    ASSUME TypesInv, NEW c \in Calls, Step(c), pc'[c] \in Replacing,
           pc[c] \notin Replacing
    PROVE  target'.entries = {}
<1> USE DEF histVars, restVars, ctlVars, diskVars, openVars, readVars
<1>1. pc[c] \in {"checking", "unlinking", "clearing"}
  BY StepMoves DEF Follows, Replacing
<1>2. target.type \in {"none", "file"} => target.entries = {}
  BY DEF TypesInv, DiskTypes
<1>3. CASE Check(c)
  <2>1. ~Goto(c, "unlinking") /\ ~Goto(c, "opening")
    BY <1>1, StepControl DEF Goto, End, Replacing, TypesInv, ControlTypes
  <2> QED  BY <1>2, <1>3, <2>1, CheckGoes DEF Check, TypesInv
<1>4. CASE Unlink(c) \/ ClearDir(c)
  <2>1. ~End(c, "failed")
    BY EndIs DEF TypesInv, Replacing
  <2> QED  BY <1>4, <2>1, EntryForms DEF Unlink, ClearDir
<1>5. CASE ClearEntry(c) \/ DiskFails(c) \/ Drop(c)
  <2>1. ~End(c, "failed") /\ ~End(c, "dropped")
    BY EndIs DEF TypesInv, Replacing
  <2> QED  BY <1>5, <2>1 DEF ClearEntry, DiskFails, Drop
<1> QED  BY <1>1, <1>3, <1>4, <1>5, StepAt

\* Entries of two archives come together only while both imports run.
LEMMA MixStep == TypesInv /\ MixInv /\ [Next]_vars => MixInv'
<1> SUFFICES ASSUME TypesInv, MixInv, [Next]_vars
             PROVE  MixInv'
  OBVIOUS
<1>1. CASE Rest \/ UNCHANGED vars
  BY <1>1 DEF Rest, vars, restVars, histVars, ctlVars, diskVars, MixInv, MixHasCause
<1>2. CASE Crash
  <2>1. target' = target /\ seen' = seen
    BY <1>2 DEF Crash, diskVars
  <2>2. \A v \in Calls : pc'[v] \in Replacing => pc'[v] = pc[v]
    BY <1>2, CrashIs DEF Replacing
  <2> QED  BY <2>1, <2>2 DEF MixInv, MixHasCause
<1>3. ASSUME NEW c \in Calls, Step(c)
      PROVE  MixInv'
  <2>0. \A v \in Calls : seen[v] \subseteq seen'[v] /\ seen[v] \subseteq Calls
    BY <1>3, SeenGrows DEF TypesInv, Met
  <2>1. ASSUME NEW v \in Calls, pc'[v] \in Replacing, NEW e \in target'.entries
        PROVE  e[2] \in seen'[v] \union {v}
    <3>1. CASE v = c /\ pc[c] \notin Replacing
      BY <1>3, <2>1, <3>1, ReplaceStep
    <3>2. CASE v = c /\ pc[c] \in Replacing
      <4>1. e \in target.entries \/ e[2] = c
        BY <1>3, <2>1, EntriesStep
      <4> QED  BY <2>0, <3>2, <4>1 DEF MixInv
    <3>3. CASE v # c
      <4>1. pc[v] \in Replacing
        BY <1>3, <2>1, <3>3, ControlFrame
      <4>2. CASE e \in target.entries
        BY <2>0, <4>1, <4>2 DEF MixInv
      <4>3. CASE e \notin target.entries
        <5>1. e[2] = c /\ pc[c] \in {"renaming", "moving"}
          BY <1>3, <2>1, <4>3, EntriesStep
        <5>2. c \in seen[v]
          BY <3>3, <4>1, <5>1 DEF TypesInv, Met, Active, Replacing
        <5> QED  BY <2>0, <5>1, <5>2
      <4> QED  BY <4>2, <4>3
    <3> QED  BY <3>1, <3>2, <3>3
  <2>2. ASSUME NEW e \in target'.entries, NEW f \in target'.entries, e[2] # f[2]
        PROVE  {e[2], f[2]} \subseteq Calls /\ f[2] \in seen'[e[2]]
    <3>1. CASE e \in target.entries /\ f \in target.entries
      BY <2>0, <2>2, <3>1 DEF MixInv, MixHasCause
    <3>2. ASSUME NEW g \in target'.entries, NEW h \in target'.entries,
                 g[2] # h[2], g \notin target.entries
          PROVE  h[2] \in seen[c] /\ g[2] = c
      <4>1. pc[c] = "moving" /\ g[2] = c /\ h \in target.entries
        BY <1>3, <3>2, EntriesStep
      <4> QED  BY <3>2, <4>1 DEF MixInv, Replacing
    <3>3. CASE e \notin target.entries
      <4>1. f[2] \in seen[c] /\ e[2] = c
        BY <2>2, <3>2, <3>3
      <4> QED  BY <2>0, <4>1
    <3>4. CASE f \notin target.entries
      <4>1. e[2] \in seen[c] /\ f[2] = c
        BY <2>2, <3>2, <3>4
      <4>2. c \in seen[e[2]]
        BY <2>0, <4>1 DEF TypesInv, Met
      <4> QED  BY <2>0, <4>1, <4>2
    <3> QED  BY <3>1, <3>3, <3>4
  <2> QED  BY <2>1, <2>2 DEF MixInv, MixHasCause
<1> QED  BY <1>1, <1>2, <1>3 DEF Next, Step

\* Entries of two archives are in one directory only if their imports ran at
\* the same time, of any number of imports: the path was empty when each of
\* them began to put its entries there.
THEOREM MixesExplained == Spec => []MixHasCause
<1>1. Init => MixInv
  BY DEF Init, MixInv, MixHasCause, NoEntry, File, Dir, Replacing
<1>2. TypesInv /\ MixInv /\ [Next]_vars => MixInv'
  BY MixStep
<1>3. MixInv => MixHasCause
  BY DEF MixInv
<1> QED  BY TypesKept, <1>1, <1>2, <1>3, PTL DEF Spec

-----------------------------------------------------------------------------
(* Whose the home directory is.                                            *)

Deleted(c) == \E d \in seen[c] : op[d] = "delete"

\* The call explains that the home directory is the server's.
Blamed(c) ==
    /\ op[c] \in Writers
    /\ \/ pc[c] = "owning"
       \/ Done(c, "dropped") \/ Done(c, "crashed")
       \/ Done(c, "failed") /\ c \in MayFault
       \/ Deleted(c)

\* A call that has created the home directory finds it there, unless it met
\* a deletion.
HomeInv ==
    /\ home = "server" => \E c \in Calls : Blamed(c)
    /\ \A c \in Calls :
          /\ Active(c) /\ op[c] \in Writers /\ pc[c] # "ensuring"
          /\ home = "absent"
          => Deleted(c)

\* What explains it does so from then on, but for the chown itself.
LEMMA BlameKept ==
    ASSUME TypesInv, NEW c \in Calls, Step(c), NEW v \in Calls, Blamed(v),
           home' = "server"
    PROVE  Blamed(v)'
<1> USE DEF histVars, restVars, ctlVars, diskVars, openVars, readVars
<1>0. op' = op /\ seen[v] \subseteq seen'[v]
  BY ControlFrame, SeenGrows
<1>1. CASE Deleted(v)
  BY <1>0, <1>1 DEF Blamed, Deleted
<1>2. CASE v # c
  BY <1>0, <1>2, ControlFrame DEF Blamed, Done, Deleted
<1>3. CASE v = c /\ ~Deleted(c)
  <2>1. pc[c] = "owning"
    BY <1>3, ControlFrame DEF Blamed, Done
  <2>2. CASE Own(c)
    <3>1. \/ home # "absent" /\ home' = "agent"
          \/ home = "absent" /\ home' = home
      BY <2>2 DEF Own
    <3> QED  BY <3>1
  <2>3. CASE Drop(c)
    <3>1. pc'[c] = pc[c] \/ (pc'[c] = "done" /\ result'[c] = "dropped")
      BY <2>3, EndIs DEF Drop, TypesInv
    <3> QED  BY <1>0, <1>3, <2>1, <3>1 DEF Blamed, Done
  <2>4. CASE DiskFails(c)
    <3>1. pc'[c] = "done" /\ result'[c] \in {"failed", "dropped"} /\ c \in MayFault
      BY <2>4, EndIs DEF DiskFails, TypesInv
    <3> QED  BY <1>0, <1>3, <3>1 DEF Blamed, Done
  <2> QED  BY <2>1, <2>2, <2>3, <2>4, StepAt
<1> QED  BY <1>1, <1>2, <1>3

\* A home that is the server's has a call to blame for it after every step.
LEMMA HomeInvStep == TypesInv /\ HomeInv /\ [Next]_vars => HomeInv'
<1> SUFFICES ASSUME TypesInv, HomeInv, [Next]_vars
             PROVE  HomeInv'
  OBVIOUS
<1> USE DEF histVars, restVars, ctlVars, diskVars, openVars, readVars
<1>1. CASE Rest \/ UNCHANGED vars
  BY <1>1 DEF Rest, vars, HomeInv, Blamed, Deleted, Done, Active
<1>2. CASE Crash
  <2>1. home' = home /\ op' = op /\ seen' = seen
    BY <1>2 DEF Crash
  <2>2. \A v \in Calls : Active(v)' => FALSE
    BY <1>2, CrashIs DEF Active
  <2>3. \A v \in Calls : Blamed(v) => Blamed(v)'
    BY <1>2, <2>1, CrashIs DEF Blamed, Deleted, Done, Active
  <2> QED  BY <2>1, <2>2, <2>3 DEF HomeInv
<1>3. ASSUME NEW c \in Calls, Step(c)
      PROVE  HomeInv'
  <2>0. op' = op /\ pc[c] # "done" /\ Fits(op[c], pc[c])
        /\ \A v \in Calls : seen[v] \subseteq seen'[v]
    BY <1>3, ControlFrame, SeenGrows, Fitting
  <2>1. ASSUME home' = "server"
        PROVE  \E v \in Calls : Blamed(v)'
    <3>1. CASE home = "server"
      BY <1>3, <2>1, <3>1, BlameKept DEF HomeInv
    <3>2. CASE home # "server"
      <4>1. /\ home = "absent"
            /\ EnsureHome(c) \/ CreateParent(c) \/ MakeExpand(c) \/ MakeDir(c)
        BY <1>3, <2>1, <3>2, StepChanges DEF EnsureHome, Own, CreateParent,
           MakeExpand, MakeDir, DeleteHome, CreateHome
      <4>2. CASE EnsureHome(c)
        <5>1. pc'[c] = "owning" \/ (pc'[c] = "done" /\ result'[c] = "dropped")
          BY <4>2, GotoIs, EndIs DEF EnsureHome, TypesInv, ControlTypes
        <5>2. op[c] \in Writers
          BY <2>0, <4>2 DEF EnsureHome, Fits
        <5> QED  BY <2>0, <5>1, <5>2 DEF Blamed, Done
      <4>3. CASE CreateParent(c) \/ MakeExpand(c) \/ MakeDir(c)
        <5>1. Active(c) /\ op[c] \in Writers /\ pc[c] # "ensuring"
          BY <2>0, <4>3 DEF CreateParent, MakeExpand, MakeDir, Fits, Active,
             Writers, Imports, Archives
        <5>2. Deleted(c)
          BY <4>1, <5>1 DEF HomeInv
        <5> QED  BY <2>0, <5>1, <5>2 DEF Blamed, Deleted
      <4> QED  BY <4>1, <4>2, <4>3
    <3> QED  BY <3>1, <3>2
  <2>2. ASSUME NEW v \in Calls, Active(v)', op'[v] \in Writers,
               pc'[v] # "ensuring", home' = "absent"
        PROVE  Deleted(v)'
    <3>1. CASE DeleteHome(c) /\ home # "absent"
      <4>1. op[c] = "delete" /\ pc[c] = "emptying" /\ Active(c)
        BY <2>0, <3>1 DEF DeleteHome, Fits, Active
      <4>2. v # c
        BY <2>0, <2>2, <4>1 DEF Writers, Imports, Archives
      <4>3. Active(v)
        BY <1>3, <2>2, <4>2, ControlFrame DEF Active
      <4>4. c \in seen[v]
        BY <4>1, <4>2, <4>3 DEF TypesInv, Met
      <4> QED  BY <2>0, <4>1, <4>4 DEF Deleted
    <3>2. CASE home = "absent"
      <4>1. Active(v) /\ pc[v] # "ensuring"
        <5>1. CASE v # c
          BY <1>3, <2>2, <5>1, ControlFrame DEF Active
        <5>2. CASE v = c /\ pc[c] = "idle"
          <6>0. op[c] \in Writers
            BY <2>0, <2>2, <5>2
          <6>5. First(c) = "ensuring"
            BY <6>0 DEF First, Writers, Imports, Archives, Exports
          <6>1. Goto(c, "ensuring") \/ End(c, "failed")
            BY <1>3, <5>2, <6>5, StepAt DEF Start, Drop, DiskFails, Active,
               Faulty
          <6>2. pc'[c] \in {"ensuring", "done"}
            BY <6>1, GotoIs, EndIs DEF TypesInv, ControlTypes
          <6> QED  BY <2>2, <5>2, <6>2 DEF Active
        <5>3. CASE v = c /\ pc[c] = "ensuring"
          <6>1. ~EnsureHome(c)
            BY <2>2, <3>2 DEF EnsureHome, CreateHome
          <6>2. Drop(c) \/ DiskFails(c)
            BY <1>3, <5>3, <6>1, StepAt
          <6>3. pc'[c] \in {"ensuring", "done"}
            BY <5>3, <6>2, EndIs DEF Drop, DiskFails, TypesInv
          <6> QED  BY <2>2, <5>3, <6>3 DEF Active
        <5> QED  BY <2>0, <5>1, <5>2, <5>3 DEF Active
      <4> QED  BY <2>0, <2>2, <3>2, <4>1 DEF HomeInv, Deleted
    <3>3. home = "absent" \/ DeleteHome(c)
      BY <1>3, <2>2, StepChanges DEF EnsureHome, Own, CreateParent,
         MakeExpand, MakeDir, DeleteHome, CreateHome
    <3> QED  BY <3>1, <3>2, <3>3
  <2> QED  BY <2>1, <2>2 DEF HomeInv
<1> QED  BY <1>1, <1>2, <1>3 DEF Next, Step

\* The home directory is given to the user of the container, unless a call was
\* dropped, killed or failed first, or met a deletion.
THEOREM HomeExplained == Spec => []HomeOwned
<1>1. Init => HomeInv
  BY DEF Init, HomeInv, Active
<1>2. TypesInv /\ HomeInv /\ [Next]_vars => HomeInv'
  BY HomeInvStep
<1>3. HomeInv => HomeOwned
  BY DEF HomeInv, HomeOwned, Blamed, Deleted
<1> QED  BY TypesKept, <1>1, <1>2, <1>3, PTL DEF Spec

-----------------------------------------------------------------------------
(* Nothing is lost.                                                        *)

NoDeletion == \A c \in Calls : op[c] # "delete"

\* Nobody deletes the workspace, and no call has been dropped, killed or hit
\* by a fault.
Clean ==
    \A c \in Calls : /\ op[c] # "delete" /\ ~gone[c]
                     /\ result[c] \notin {"dropped", "crashed"}
                     /\ result[c] = "failed" => c \notin MayFault

\* The call has put something at the path, ...
Put(c) == pc[c] \in {"moving", "sweeping"} \/ (op[c] \in Writers /\ Done(c, "ok"))

\* ... or its next step does so, unless something is there.
PutsNext(c) == pc[c] \in {"renaming", "making", "creating"}

\* The phases in which an import holds its staging file, ...
Staged == {"receiving", "reparenting", "checking", "unlinking", "opening",
           "clearing", "renaming"}

\* ... and in which an archive is unpacked and nothing of it moved.
Expanded == {"checking", "unlinking", "opening", "clearing", "renaming", "making"}

\* What a call is about to put there is still whole.
Kept(c) ==
    /\ gone[c] /\ pc[c] = "done" => result[c] \in {"dropped", "crashed"}
    /\ NoDeletion =>
        /\ op[c] = "raw" /\ pc[c] \in Staged => staging[c]
        /\ op[c] \in Archives /\ pc[c] \in Expanded => expand[c] = Unpacked

\* Once something has been put at the path, something is there, or a call that
\* has just removed it puts something there next.
LostInv ==
    Clean /\ (\E c \in Calls : Put(c))
      => target.type # "none" \/ \E c \in Calls : PutsNext(c)

\* A step keeps what its own call is about to put there, ...
LEMMA KeptOwnStep ==
    ASSUME TypesInv, NEW c \in Calls, Kept(c), Step(c)
    PROVE  Kept(c)'
<1> USE DEF histVars, restVars, ctlVars, diskVars, openVars, readVars
<1>0. /\ op' = op /\ pc[c] # "done" /\ ControlTypes /\ Fits(op[c], pc[c])
      /\ pc[c] \in Phases
      /\ staging \in [Calls -> BOOLEAN] /\ expand \in [Calls -> SUBSET Unpacked]
  BY ControlFrame, Fitting DEF TypesInv, DiskTypes
<1>1. ASSUME gone'[c], pc'[c] = "done"
      PROVE  result'[c] \in {"dropped", "crashed"}
  BY <1>1, StepEnds
<1>2. ASSUME NoDeletion, op[c] = "raw", pc'[c] \in Staged
      PROVE  staging'[c]
  <2>1. CASE pc[c] \in Staged
    <3>1. staging[c]
      BY <1>2, <2>1 DEF Kept
    <3>2. CASE ReceiveFails(c)
      <4>1. pc'[c] = "done"
        BY <1>0, <3>2, EndIs DEF ReceiveFails
      <4> QED  BY <1>2, <4>1 DEF Staged
    <3>3. CASE Rename(c)
      <4>1. ~RenameFile(c)
        BY <1>0, <1>2, EndIs DEF RenameFile, Staged
      <4> QED  BY <1>2, <3>1, <3>3, <4>1 DEF Rename, RenameDir
    <3>4. ~Stage(c) /\ ~Sweep(c) /\ ~DeleteEntry(c)
      BY <2>1 DEF Stage, Sweep, DeleteEntry, Staged
    <3> QED  BY <3>1, <3>2, <3>3, <3>4, StepChanges
  <2>2. CASE pc[c] \notin Staged
    <3>1. pc[c] = "staging" /\ pc'[c] = "receiving"
      BY <1>0, <1>2, <2>2, StepMoves DEF Follows, Staged, Archives, Fits
    <3>2. Stage(c)
      BY <3>1, StepAt, <1>0, EndIs DEF Drop, DiskFails
    <3>3. ~End(c, "failed")
      BY <1>0, <3>1, EndIs
    <3> QED  BY <1>0, <3>2, <3>3 DEF Stage
  <2> QED  BY <2>1, <2>2
<1>3. ASSUME NoDeletion, op[c] \in Archives, pc'[c] \in Expanded
      PROVE  expand'[c] = Unpacked
  <2>1. CASE pc[c] \in Expanded
    <3>1. expand[c] = Unpacked
      BY <1>3, <2>1 DEF Kept
    <3>2. CASE Rename(c)
      <4>1. ~RenameDir(c)
        <5>1. ASSUME Goto(c, "sweeping")
              PROVE  FALSE
          BY <1>0, <1>3, <5>1, GotoIs, EndIs DEF Expanded, ControlTypes
        <5> QED  BY <5>1 DEF RenameDir
      <4> QED  BY <1>3, <3>1, <3>2, <4>1 DEF Rename, RenameFile
    <3>3. ~MakeExpand(c) /\ ~Unpack(c) /\ ~Move(c) /\ ~Sweep(c) /\ ~DeleteEntry(c)
      BY <2>1 DEF MakeExpand, Unpack, Move, Sweep, DeleteEntry, Expanded
    <3> QED  BY <3>1, <3>2, <3>3, StepChanges
  <2>2. CASE pc[c] \notin Expanded
    <3>0. pc[c] \in {"reparenting", "unpacking"} /\ pc'[c] = "checking"
      BY <1>0, <1>3, <2>2, StepMoves DEF Follows, Expanded, Archives, Fits
    <3>1. pc[c] = "unpacking"
      <4>1. ASSUME pc[c] = "reparenting"
            PROVE  FALSE
        <5>1. CreateParent(c)
          BY <3>0, <4>1, StepAt, <1>0, EndIs DEF Drop, DiskFails
        <5>2. Goto(c, "expanding")
          BY <1>0, <1>3, <4>1, <5>1, ParentGoes DEF Archives
        <5> QED  BY <1>0, <3>0, <5>2, GotoIs, EndIs DEF ControlTypes
      <4> QED  BY <3>0, <4>1
    <3>2. Unpack(c)
      BY <3>0, <3>1, StepAt, <1>0, EndIs DEF Drop, DiskFails
    <3>3. ~End(c, "failed")
      BY <1>0, <3>0, EndIs
    <3> QED  BY <1>0, <3>2, <3>3 DEF Unpack
  <2> QED  BY <2>1, <2>2
<1> QED  BY <1>0, <1>1, <1>2, <1>3 DEF Kept, NoDeletion

\* ... and so does any step.
LEMMA KeptStep ==
    TypesInv /\ (\A v \in Calls : Kept(v)) /\ [Next]_vars
        => \A v \in Calls : Kept(v)'
<1> SUFFICES ASSUME TypesInv, \A v \in Calls : Kept(v), [Next]_vars,
                    NEW v \in Calls
             PROVE  Kept(v)'
  OBVIOUS
<1> USE DEF histVars, restVars, ctlVars, diskVars, openVars, readVars
<1>1. CASE Rest \/ UNCHANGED vars
  BY <1>1 DEF Rest, vars, Kept, NoDeletion
<1>2. CASE Crash
  <2>1. UNCHANGED <<op, gone, staging, expand>>
    BY <1>2 DEF Crash
  <2>2. \/ pc'[v] = "done" /\ result'[v] = "crashed"
        \/ pc'[v] = pc[v] /\ result'[v] = result[v]
    BY <1>2, CrashIs
  <2> QED  BY <2>1, <2>2 DEF Kept, NoDeletion, Staged, Expanded
<1>3. ASSUME NEW c \in Calls, Step(c)
      PROVE  Kept(v)'
  <2>1. CASE v = c
    BY <1>3, <2>1, KeptOwnStep
  <2>2. CASE v # c
    <3>1. pc'[v] = pc[v] /\ result'[v] = result[v] /\ gone'[v] = gone[v] /\ op' = op
      BY <1>3, <2>2, ControlFrame
    <3>2. NoDeletion => ~DeleteEntry(c)
      BY <1>3, Fitting DEF NoDeletion, DeleteEntry, Fits
    <3>3. ~DeleteEntry(c) => staging'[v] = staging[v] /\ expand'[v] = expand[v]
      <4>1. staging \in [Calls -> BOOLEAN] /\ expand \in [Calls -> SUBSET Unpacked]
        BY DEF TypesInv, DiskTypes
      <4>2. ~DeleteEntry(c) => staging'[v] = staging[v]
        BY <1>3, <2>2, <4>1, StepChanges
           DEF Stage, ReceiveFails, Rename, RenameFile, RenameDir, Sweep
      <4>3. ~DeleteEntry(c) => expand'[v] = expand[v]
        BY <1>3, <2>2, <4>1, StepChanges
           DEF MakeExpand, Unpack, Rename, RenameFile, RenameDir, Move,
               MoveEntry, Sweep
      <4> QED  BY <4>2, <4>3
    <3> QED  BY <3>1, <3>2, <3>3 DEF Kept, NoDeletion
  <2> QED  BY <2>1, <2>2
<1> QED  BY <1>1, <1>2, <1>3 DEF Next, Step

\* A step after which all is clean was taken from such a state, and went on.
LEMMA CleanStep ==
    ASSUME TypesInv, NEW c \in Calls, Step(c), Clean'
    PROVE  /\ Clean /\ ~Drop(c) /\ ~DiskFails(c) /\ ~DeleteEntry(c)
           /\ \A p : Goto(c, p) => pc'[c] = p
<1>0. /\ ControlTypes /\ op' = op /\ pc[c] # "done" /\ result[c] = "none"
      /\ \A v \in Calls \ {c} : gone'[v] = gone[v] /\ result'[v] = result[v]
      /\ gone[c] => gone'[c]
  BY ControlFrame, StepControl DEF TypesInv, ControlTypes
<1>1. Clean /\ ~gone'[c] /\ ~gone[c]
  BY <1>0 DEF Clean
<1>2. ~Drop(c)
  BY <1>0, <1>1, EndIs DEF Drop, Clean, ControlTypes
<1>3. ~DiskFails(c)
  BY <1>0, <1>1, EndIs DEF DiskFails, Clean
<1>4. ~DeleteEntry(c)
  BY <1>1, Fitting DEF Clean, DeleteEntry, Fits
<1>5. \A p : Goto(c, p) => pc'[c] = p
  BY <1>0, <1>1 DEF Goto, ControlTypes
<1> QED  BY <1>1, <1>2, <1>3, <1>4, <1>5

\* What is put at the path is there, ...
LEMMA PutIsThere ==
    ASSUME TypesInv, HomeInv, NEW c \in Calls, Kept(c), Step(c), Clean',
           PutsNext(c)
    PROVE  target'.type # "none"
<1> USE DEF histVars, restVars, ctlVars, diskVars, openVars, readVars
<1>0. /\ Fits(op[c], pc[c]) /\ op[c] # "delete" /\ NoDeletion
      /\ ~Drop(c) /\ ~DiskFails(c)
      /\ target.type \in {"none", "file", "dir"}
      /\ target.type # "dir" => target.entries = {}
  BY CleanStep, Fitting DEF Clean, NoDeletion, TypesInv, DiskTypes
<1>1. CASE pc[c] = "renaming"
  <2>1. Rename(c)
    BY <1>0, <1>1, StepAt
  <2>2. op[c] = "raw" => staging[c]
    BY <1>0, <1>1 DEF Kept, Staged
  <2>3. op[c] = "wrapped" => expand[c] = Unpacked
    BY <1>0, <1>1 DEF Kept, Expanded, Archives
  <2>4. op[c] \in {"raw", "wrapped"}
    BY <1>0, <1>1 DEF Fits
  <2>5. CASE ~Renamable(c) /\ target' = target
    BY <1>0, <2>2, <2>3, <2>4, <2>5 DEF Renamable, IsDir
  <2> QED  BY <2>1, <2>5, EntryForms DEF Rename, RenameFile, RenameDir
<1>2. CASE pc[c] = "making"
  <2>1. MakeDir(c)
    BY <1>0, <1>2, StepAt
  <2>2. expand[c] = Unpacked /\ Unpacked # {}
    BY <1>0, <1>2 DEF Kept, Expanded, Fits, Archives, Unpacked
  <2> QED  BY <1>0, <2>1, <2>2, EntryForms DEF MakeDir, IsDir
<1>3. CASE pc[c] = "creating"
  <2>1. FetchCreates(c)
    BY <1>0, <1>3, StepAt
  <2>2. op[c] \in Writers /\ Active(c)
    BY <1>0, <1>3 DEF Fits, Writers, Active
  <2>3. home # "absent"
    BY <1>0, <1>3, <2>2 DEF HomeInv, Deleted, NoDeletion, TypesInv, Met
  <2> QED  BY <1>0, <2>1, <2>3, EntryForms DEF FetchCreates, IsDir
<1> QED  BY <1>1, <1>2, <1>3 DEF PutsNext

\* ... and what a call removes, it replaces next.
LEMMA LostStep ==
    ASSUME TypesInv, HomeInv, \A v \in Calls : Kept(v), LostInv,
           NEW c \in Calls, Step(c)
    PROVE  LostInv'
<1> SUFFICES ASSUME Clean', NEW v \in Calls, Put(v)'
             PROVE  target'.type # "none" \/ \E w \in Calls : PutsNext(w)'
  BY DEF LostInv
<1> USE DEF histVars, restVars, ctlVars, diskVars, openVars, readVars
<1>0. /\ Clean /\ ~Drop(c) /\ ~DiskFails(c) /\ ~DeleteEntry(c)
      /\ \A p : Goto(c, p) => pc'[c] = p
      /\ Fits(op[c], pc[c]) /\ op' = op /\ pc[c] # "done"
      /\ \A w \in Calls \ {c} : pc'[w] = pc[w] /\ result'[w] = result[w]
  BY CleanStep, Fitting, ControlFrame
<1>1. ASSUME target.type # "none"
      PROVE  target'.type # "none" \/ PutsNext(c)'
  <2>1. CASE Unlink(c) \/ ClearDir(c)
    BY <1>0, <1>1, <2>1 DEF Unlink, ClearDir, Placing, PutsNext
  <2>2. CASE FetchRemoves(c)
    BY <1>0, <2>2 DEF FetchRemoves, PutsNext
  <2>3. CASE ClearEntry(c)
    BY <1>1, <2>3 DEF ClearEntry, IsDir
  <2>4. CASE Rename(c)
    BY <1>1, <2>4, EntryForms DEF Rename, RenameFile, RenameDir
  <2>5. CASE MakeDir(c)
    BY <1>1, <2>5, EntryForms DEF MakeDir
  <2>6. CASE Move(c)
    <3>1. ASSUME NEW n \in expand[c] \ {"."}, MoveEntry(c, n)
          PROVE  target'.type # "none"
      BY <1>1, <3>1 DEF MoveEntry, TypesInv, DiskTypes
    <3> QED  BY <1>1, <2>6, <3>1 DEF Move
  <2>7. CASE FetchCreates(c)
    BY <1>1, <2>7, EntryForms DEF FetchCreates
  <2> QED  BY <1>0, <1>1, <2>1, <2>2, <2>3, <2>4, <2>5, <2>6, <2>7, StepChanges
<1>2. CASE \E w \in Calls : Put(w)
  <2>1. target.type # "none" \/ \E w \in Calls : PutsNext(w)
    BY <1>0, <1>2 DEF LostInv
  <2>2. ASSUME NEW w \in Calls, PutsNext(w)
        PROVE  target'.type # "none" \/ PutsNext(w)'
    BY <1>0, <2>2, PutIsThere DEF PutsNext
  <2> QED  BY <1>1, <2>1, <2>2
<1>3. CASE ~\E w \in Calls : Put(w)
  <2>1. v = c
    BY <1>0, <1>3 DEF Put, Done
  <2>2. CASE pc'[c] \in {"moving", "sweeping"}
    <3>1. PutsNext(c)
      BY <1>3, <2>2, StepMoves DEF Follows, Put, PutsNext
    <3> QED  BY <3>1, PutIsThere
  <2>3. CASE op[c] \in Writers /\ pc'[c] = "done" /\ result'[c] = "ok"
    <3>1. RenameFile(c) \/ Sweep(c) \/ (Permit(c) /\ target.type # "none")
      BY <2>3, StepEnds
    <3>2. ~Sweep(c)
      BY <1>3 DEF Sweep, Put
    <3> QED  BY <3>1, <3>2, EntryForms DEF RenameFile, Permit
  <2> QED  BY <1>0, <2>1, <2>2, <2>3 DEF Put, Done
<1> QED  BY <1>2, <1>3

\* A workspace in which calls that replace the target fail because of one
\* another is never left with nothing at the path, once there was something.
THEOREM NothingIsLost == Spec => []NothingLost
<1> DEFINE KInv == \A v \in Calls : Kept(v)
<1> USE DEF histVars, restVars, ctlVars, diskVars, openVars, readVars
<1>1. Init => HomeInv /\ KInv /\ LostInv
  <2> SUFFICES ASSUME Init
               PROVE  HomeInv /\ KInv /\ LostInv
    OBVIOUS
  <2>1. \A v \in Calls : pc[v] = "idle"
    BY DEF Init
  <2>2. HomeInv
    BY <2>1 DEF Init, HomeInv, Active
  <2> QED  BY <2>1, <2>2 DEF Kept, LostInv, Put, Done, Staged, Expanded
<1>2. TypesInv /\ HomeInv /\ KInv /\ LostInv /\ [Next]_vars
      => HomeInv' /\ KInv' /\ LostInv'
  <2> SUFFICES ASSUME TypesInv, HomeInv, KInv, LostInv, [Next]_vars
               PROVE  HomeInv' /\ KInv' /\ LostInv'
    OBVIOUS
  <2>1. HomeInv' /\ KInv'
    BY HomeInvStep, KeptStep
  <2>2. CASE Rest \/ UNCHANGED vars
    BY <2>1, <2>2 DEF Rest, vars, LostInv, Clean, Put, PutsNext, Done
  <2>3. CASE Crash
    <3>1. op' = op /\ gone' = gone /\ target' = target
      BY <2>3 DEF Crash
    <3>2. ASSUME Clean'
          PROVE  Clean /\ \A v \in Calls : pc'[v] = pc[v] /\ result'[v] = result[v]
      BY <2>3, <3>1, <3>2, CrashIs DEF Clean
    <3> QED  BY <2>1, <3>1, <3>2 DEF LostInv, Put, PutsNext, Done
  <2>4. ASSUME NEW c \in Calls, Step(c)
        PROVE  LostInv'
    BY <2>4, LostStep
  <2> QED  BY <2>1, <2>2, <2>3, <2>4 DEF Next, Step
<1>3. TypesInv /\ KInv /\ LostInv => NothingLost
  <2> SUFFICES ASSUME TypesInv, KInv, LostInv,
                      \A v \in Calls : /\ pc[v] = "done" /\ op[v] # "delete"
                                       /\ result[v] \notin {"dropped", "crashed"}
                                       /\ result[v] = "failed" => v \notin MayFault,
                      NEW c \in Calls, op[c] \in Writers, result[c] = "ok"
               PROVE  target.type # "none"
    BY DEF NothingLost
  <2>1. Clean
    BY DEF Clean, Kept
  <2>2. Put(c)
    BY DEF Put, Done
  <2> QED  BY <2>1, <2>2 DEF LostInv, PutsNext
<1> HIDE DEF KInv
<1> QED  BY TypesKept, <1>1, <1>2, <1>3, PTL DEF Spec

-----------------------------------------------------------------------------
(* What is in a file.                                                      *)

\* Which steps write to which file, ...
LEMMA DataFrame ==
    ASSUME TypesInv, NEW c \in Calls, Step(c), NEW i \in Owners
    PROVE  \/ data'[i] = data[i]
           \/ Received(c) /\ i = c
           \/ FetchCreates(c) /\ i = target'.ino
           \/ FetchChunk(c) /\ i = fd[c]
           \/ PackEnds(c) /\ i = c
<1>0. data \in [Owners -> Seq(Contents)] /\ c \in Owners
  BY DEF TypesInv, DiskTypes, Owners
<1>1. Received(c) /\ i # c => data'[i] = data[i]
  BY <1>0 DEF Received
<1>2. FetchCreates(c) /\ i # target'.ino => data'[i] = data[i]
  BY <1>0 DEF FetchCreates
<1>3. FetchChunk(c) /\ i # fd[c] => data'[i] = data[i]
  BY <1>0 DEF FetchChunk, Write
<1>4. PackEnds(c) /\ i # c => data'[i] = data[i]
  BY <1>0 DEF PackEnds
<1> QED  BY <1>1, <1>2, <1>3, <1>4, StepChanges

\* ... which put a file at the path, ...
LEMMA FileAtPath ==
    ASSUME TypesInv, NEW c \in Calls, Step(c), target'.type = "file"
    PROVE  \/ target' = target
           \/ target' = File(c) /\ Rename(c) /\ RenameFile(c)
           \/ target' = File(c) /\ FetchCreates(c)
<1>1. CASE ClearEntry(c)
  BY <1>1 DEF ClearEntry, IsDir
<1>2. CASE Rename(c)
  BY <1>2, EntryForms DEF Rename, RenameDir, RenameFile
<1>3. CASE MakeDir(c)
  BY <1>3, EntryForms DEF MakeDir, IsDir
<1>4. CASE Move(c)
  <2>1. ASSUME NEW n \in expand[c] \ {"."}, MoveEntry(c, n)
        PROVE  FALSE
    BY <2>1 DEF MoveEntry, IsDir
  <2> QED  BY <1>4, <2>1 DEF Move
<1>5. CASE \/ Unlink(c) \/ ClearDir(c) \/ FetchRemoves(c) \/ FetchCreates(c)
           \/ DeleteEntry(c)
  BY <1>5, EntryForms DEF Unlink, ClearDir, FetchRemoves, FetchCreates,
     DeleteEntry
<1> QED  BY <1>1, <1>2, <1>3, <1>4, <1>5, StepChanges

\* ... and what a fetch has open.
LEMMA FetchFrame ==
    ASSUME TypesInv, NEW c \in Calls, Step(c), NEW v \in Calls, op[v] = "fetch"
    PROVE  /\ \/ fd'[v] = fd[v]
              \/ v = c /\ FetchCreates(c) /\ fd'[c] = target'.ino
           /\ off'[v] = off[v] \/ (v = c /\ FetchChunk(c))
<1>0. /\ Fits(op[c], pc[c]) /\ fd \in [Calls -> Owners]
      /\ v # c => fd'[v] = fd[v] /\ off'[v] = off[v]
  BY Fitting, ReadStep DEF TypesInv, ReadTypes
<1>1. op[c] = "fetch" => ~OpenDir(c) /\ ~HashOpens(c) /\ ~StreamOpens(c)
                         /\ ~Hash(c) /\ ~Stream(c)
  BY <1>0 DEF OpenDir, HashOpens, StreamOpens, Hash, Stream, Fits, Imports,
     Archives, Exports
<1>2. FetchCreates(c) => fd' = fd \/ fd'[c] = target'.ino
  BY <1>0 DEF FetchCreates
<1> QED  BY <1>0, <1>1, <1>2, StepChanges

\* The first n blocks of a body, ...
LEMMA Prefix ==
    ASSUME NEW i \in Owners, NEW n \in 0 .. MaxBody
    PROVE  /\ SubSeq(Body(i), 1, n) \in Seq(Contents)
           /\ Len(SubSeq(Body(i), 1, n)) = n
           /\ \A k \in 1 .. n : SubSeq(Body(i), 1, n)[k] = <<i, k>>
<1>1. MaxBody \in Nat
  BY WorkspaceAssumption
<1>2. \A k \in 1 .. n : Body(i)[k] = <<i, k>>
  BY <1>1 DEF Body
<1>3. \A k \in 1 .. n : Body(i)[k] \in Contents
  BY <1>1, <1>2 DEF Contents
<1> HIDE DEF Body
<1> DEFINE s == Body(i)
<1>4. \A k \in 1 .. n : s[k] \in Contents
  BY <1>3
<1> HIDE DEF s
<1>5. /\ SubSeq(s, 1, n) \in Seq(Contents)
      /\ Len(SubSeq(s, 1, n)) = IF 1 <= n THEN n - 1 + 1 ELSE 0
      /\ \A k \in 1 .. n - 1 + 1 : SubSeq(s, 1, n)[k] = s[1 + k - 1]
  BY <1>1, <1>4, SubSeqProperties
<1>6. \A k \in 1 .. n : SubSeq(s, 1, n)[k] = s[k]
  BY <1>1, <1>5
<1>7. Len(SubSeq(s, 1, n)) = n
  BY <1>1, <1>5
<1> USE DEF s
<1> QED  BY <1>2, <1>5, <1>6, <1>7

\* ... of which there may be none, or all, ...
LEMMA PrefixEnds ==
    ASSUME NEW i \in Owners
    PROVE  /\ SubSeq(Body(i), 1, 0) = <<>>
           /\ SubSeq(Body(i), 1, MaxBody) = Body(i)
<1>1. MaxBody \in Nat
  BY WorkspaceAssumption
<1>2. SubSeq(Body(i), 1, 0) = <<>>
  BY SubSeqEmpty
<1>3. \A k \in 1 .. MaxBody : Body(i)[k] = <<i, k>>
  BY DEF Body
<1>4. /\ SubSeq(Body(i), 1, MaxBody) \in Seq(Contents)
      /\ Len(SubSeq(Body(i), 1, MaxBody)) = MaxBody
      /\ \A k \in 1 .. MaxBody : SubSeq(Body(i), 1, MaxBody)[k] = <<i, k>>
  BY <1>1, Prefix
<1>5. Body(i) \in Seq(Contents) /\ Len(Body(i)) = MaxBody
  BY BodyTyped
<1> HIDE DEF Body
<1> QED  BY <1>2, <1>3, <1>4, <1>5, SeqEqual

\* ... and to which writing at the end adds one.
LEMMA PrefixGrows ==
    ASSUME NEW i \in Owners, NEW n \in 0 .. MaxBody, n < MaxBody
    PROVE  WriteAt(SubSeq(Body(i), 1, n), n, <<i, n + 1>>)
               = SubSeq(Body(i), 1, n + 1)
<1>0. MaxBody \in Nat /\ n \in Nat /\ n + 1 \in 0 .. MaxBody
  BY WorkspaceAssumption
<1> DEFINE s == SubSeq(Body(i), 1, n)
           t == SubSeq(Body(i), 1, n + 1)
           w == WriteAt(s, n, <<i, n + 1>>)
<1>1. s \in Seq(Contents) /\ Len(s) = n /\ \A k \in 1 .. n : s[k] = <<i, k>>
  BY <1>0, Prefix
<1>2. t \in Seq(Contents) /\ Len(t) = n + 1 /\ \A k \in 1 .. n + 1 : t[k] = <<i, k>>
  BY <1>0, Prefix
<1> HIDE DEF s, t
<1>3. w = [k \in 1 .. n + 1 |-> IF k = n + 1 THEN <<i, n + 1>>
                                ELSE IF k <= Len(s) THEN s[k] ELSE <<old, 0>>]
  BY <1>0, <1>1 DEF WriteAt
<1> HIDE DEF w
<1>4. ASSUME NEW k \in 1 .. n + 1
      PROVE  w[k] = <<i, k>>
  <2>1. CASE k = n + 1
    BY <1>3, <2>1
  <2>2. CASE k # n + 1
    <3>1. k \in 1 .. n /\ k <= Len(s)
      BY <1>0, <1>1, <2>2
    <3> QED  BY <1>1, <1>3, <2>2, <3>1
  <2> QED  BY <2>1, <2>2
<1>5. \A k \in 1 .. n + 1 : <<i, k>> \in Contents
  BY <1>0 DEF Contents
<1>6. w \in [1 .. n + 1 -> Contents]
  BY <1>3, <1>4, <1>5
<1>7. w \in Seq(Contents) /\ Len(w) = n + 1
  BY <1>0, <1>6, SeqDef
<1>8. w = t
  BY <1>2, <1>4, <1>7, SeqEqual
<1> QED  BY <1>8 DEF w, s, t

-----------------------------------------------------------------------------
(* Torn files.                                                             *)

\* What is not a file of a call that writes one was there before.
IsFileOf(i) == i = old \/ op[i] \in {"raw", "fetch"}

\* Nobody can see the staging file of a call, or has it open.
Hidden(c) ==
    /\ target.type = "file" => target.ino # c
    /\ \A d \in Calls : op[d] = "fetch" => fd[d] # c

\* Which files can be seen.
FilesInv ==
    /\ target.type = "file" => IsFileOf(target.ino)
    /\ \A c \in Calls : op[c] = "fetch" => IsFileOf(fd[c])
    /\ \A c \in Calls : op[c] = "raw" /\ pc[c] # "done" => Hidden(c)

\* The phases of a fetch that has the file open, ...
Open == {"writing", "permitting"}

\* ... and of an import of a file that has it all.
Filled == {"reparenting", "checking", "unlinking", "opening", "clearing",
           "renaming"}

Overlapped(c) == \E d \in seen[c] : op[d] \in Writers

\* What is in the files of the calls that are under way.
BodyInv(c) ==
    /\ op[c] = "raw" /\ pc[c] \in Filled => data[c] = Body(c)
    /\ op[c] = "fetch" /\ pc[c] \notin Open \union {"done"} => off[c] = 0
    /\ op[c] = "fetch" /\ pc[c] \in Open =>
           data[fd[c]] = SubSeq(Body(c), 1, off[c]) \/ Overlapped(c)

\* A fetch is to blame for what is in the file.
TornBy(c, i) ==
    /\ op[c] = "fetch" /\ fd[c] = i /\ pc[c] \in Open \union {"done"}
    /\ ~Done(c, "ok") \/ Overlapped(c)

TornInv ==
    target.type = "file" =>
        Whole(target.ino) \/ \E c \in Calls : TornBy(c, target.ino)

\* What ends stays hidden until it does.
LEMMA FilesStep ==
    ASSUME TypesInv, FilesInv, NEW c \in Calls, Step(c)
    PROVE  FilesInv'
<1>0. op' = op /\ pc[c] # "done" /\ Fits(op[c], pc[c])
      /\ \A v \in Calls \ {c} : pc'[v] = pc[v]
  BY ControlFrame, Fitting
<1>1. ASSUME target'.type = "file"
      PROVE  IsFileOf(target'.ino)
  <2>1. RenameFile(c) \/ FetchCreates(c) => op[c] \in {"raw", "fetch"}
    BY <1>0 DEF RenameFile, FetchCreates, Fits
  <2> QED  BY <1>1, <2>1, FileAtPath, EntryForms DEF FilesInv, IsFileOf
<1>2. FetchCreates(c) => target'.type = "file" \/ fd' = fd
  BY EntryForms DEF FetchCreates
<1>3. ASSUME NEW v \in Calls, op[v] = "fetch"
      PROVE  IsFileOf(fd'[v])
  BY <1>1, <1>2, <1>3, FetchFrame DEF FilesInv
<1>4. ASSUME NEW v \in Calls, op[v] = "raw", pc'[v] # "done"
      PROVE  /\ target'.type = "file" => target'.ino # v
             /\ \A d \in Calls : op[d] = "fetch" => fd'[d] # v
  <2>1. Hidden(v)
    BY <1>0, <1>4 DEF FilesInv
  <2>2. ASSUME target'.type = "file"
        PROVE  target'.ino # v
    <3>1. CASE target' = target
      BY <2>1, <2>2, <3>1 DEF Hidden
    <3>2. CASE target' = File(c) /\ RenameFile(c)
      <4>1. pc'[c] = "done"
        BY <3>2, EndIs DEF RenameFile, TypesInv
      <4> QED  BY <1>4, <3>2, <4>1, EntryForms
    <3>3. CASE target' = File(c) /\ FetchCreates(c)
      BY <1>0, <1>4, <3>3, EntryForms DEF FetchCreates, Fits
    <3> QED  BY <2>2, <3>1, <3>2, <3>3, FileAtPath
  <2>3. ASSUME NEW d \in Calls, op[d] = "fetch"
        PROVE  fd'[d] # v
    BY <1>2, <2>1, <2>2, <2>3, FetchFrame DEF Hidden
  <2> QED  BY <2>2, <2>3
<1> QED  BY <1>0, <1>1, <1>3, <1>4 DEF FilesInv, IsFileOf, Hidden

\* A file that is whole, or written by one fetch, is not written by others.
LEMMA BodyOthersStep ==
    ASSUME TypesInv, FilesInv, NEW c \in Calls, Step(c),
           NEW v \in Calls \ {c}, BodyInv(v)
    PROVE  BodyInv(v)'
<1>0. /\ op' = op /\ pc[c] # "done" /\ Fits(op[c], pc[c]) /\ pc'[v] = pc[v]
      /\ seen[v] \subseteq seen'[v] /\ v \in Owners /\ c \in Owners /\ c # old
      /\ fd'[v] = fd[v] /\ off'[v] = off[v] /\ fd[v] \in Owners
  BY WorkspaceAssumption, ControlFrame, Fitting, SeenGrows, ReadStep
     DEF Owners, TypesInv, ReadTypes
<1>1. ASSUME op[v] = "raw", pc[v] \in Filled
      PROVE  data'[v] = data[v]
  <2>1. Hidden(v) /\ Hidden(v)'
    BY <1>0, <1>1, FilesStep DEF FilesInv, Filled
  <2>2. FetchCreates(c) => target'.ino # v \/ data' = data
    BY <2>1, EntryForms DEF FetchCreates, Hidden
  <2>3. FetchChunk(c) => fd[c] # v
    BY <1>0, <2>1 DEF FetchChunk, Hidden, Fits
  <2> QED  BY <1>0, <2>2, <2>3, DataFrame
<1>2. ASSUME op[v] = "fetch", pc[v] \in Open
      PROVE  data'[fd[v]] = data[fd[v]] \/ Overlapped(v)'
  <2>1. IsFileOf(fd[v]) /\ (op[c] = "raw" => fd[v] # c)
    BY <1>0, <1>2 DEF FilesInv, Hidden
  <2>2. ~(Received(c) /\ fd[v] = c) /\ ~(PackEnds(c) /\ fd[v] = c)
    BY <1>0, <2>1 DEF IsFileOf, Received, PackEnds, Fits, Imports, Archives
  <2>3. ASSUME FetchCreates(c) \/ FetchChunk(c)
        PROVE  Overlapped(v)'
    <3>1. op[c] \in Writers /\ Active(c) /\ Active(v)
      BY <1>0, <1>2, <2>3 DEF FetchCreates, FetchChunk, Fits, Writers, Active, Open
    <3>2. c \in seen[v]
      BY <1>0, <3>1 DEF TypesInv, Met
    <3> QED  BY <1>0, <3>1, <3>2 DEF Overlapped
  <2> QED  BY <1>0, <2>2, <2>3, DataFrame
<1>3. Overlapped(v) => Overlapped(v)'
  BY <1>0 DEF Overlapped
<1> QED  BY <1>0, <1>1, <1>2, <1>3 DEF BodyInv

\* What the call itself writes is its body.
LEMMA BodyOwnStep ==
    ASSUME TypesInv, FilesInv, NEW c \in Calls, Step(c), BodyInv(c)
    PROVE  BodyInv(c)'
<1> USE DEF histVars, restVars, ctlVars, diskVars, openVars, readVars
<1>0. /\ op' = op /\ pc[c] # "done" /\ Fits(op[c], pc[c]) /\ ControlTypes
      /\ seen[c] \subseteq seen'[c] /\ c \in Owners /\ c # old
      /\ fd[c] \in Owners /\ off \in [Calls -> Nat] /\ MaxBody \in Nat
      /\ off[c] <= MaxBody /\ pc[c] \in Phases
      /\ data \in [Owners -> Seq(Contents)]
  BY WorkspaceAssumption, ControlFrame, Fitting, SeenGrows
     DEF Owners, TypesInv, ReadTypes, DiskTypes
<1>1. ASSUME op[c] = "raw", pc'[c] \in Filled
      PROVE  data'[c] = Body(c)
  <2>1. CASE pc[c] \in Filled
    <3>1. data[c] = Body(c)
      BY <1>1, <2>1 DEF BodyInv
    <3>2. ~Received(c) /\ ~FetchCreates(c) /\ ~FetchChunk(c) /\ ~PackEnds(c)
      BY <2>1 DEF Received, FetchCreates, FetchChunk, PackEnds, Filled
    <3> QED  BY <1>0, <3>1, <3>2, DataFrame
  <2>2. CASE pc[c] \notin Filled
    <3>1. pc[c] = "receiving" /\ pc'[c] # "done"
      BY <1>0, <1>1, <2>2, StepMoves DEF Follows, Filled, Fits, Archives
    <3>2. Received(c)
      BY <1>0, <1>1, <2>2, <3>1, StepAt, EndIs DEF Drop, DiskFails, ReceiveFails
    <3> QED  BY <1>0, <3>2 DEF Received
  <2> QED  BY <2>1, <2>2
<1>2. ASSUME op[c] = "fetch", pc'[c] \notin Open \union {"done"}
      PROVE  off'[c] = 0
  <2>1. pc[c] \notin Open
    <3>1. pc'[c] \in Phases
      <4>1. [Next]_vars
        BY DEF Next, Step
      <4> QED  BY <4>1, ControlStep DEF TypesInv, ControlTypes
    <3> QED  BY <1>2, <3>1, StepMoves DEF Follows, Open, Phases
  <2>2. off[c] = 0
    BY <1>0, <1>2, <2>1 DEF BodyInv
  <2>3. ~FetchChunk(c)
    BY <2>1 DEF FetchChunk, Open
  <2> QED  BY <1>2, <2>2, <2>3, FetchFrame
<1>3. ASSUME op[c] = "fetch", pc'[c] \in Open
      PROVE  data'[fd'[c]] = SubSeq(Body(c), 1, off'[c]) \/ Overlapped(c)'
  <2>1. CASE pc[c] = "creating"
    <3>1. FetchCreates(c) /\ ~End(c, "failed") /\ off[c] = 0
      BY <1>0, <1>3, <2>1, StepAt, EndIs DEF Drop, DiskFails, BodyInv, Open
    <3>2. data' = [data EXCEPT ![target'.ino] = <<>>] /\ fd'[c] = target'.ino
          /\ off' = off
      BY <1>0, <3>1 DEF FetchCreates, TypesInv, ReadTypes
    <3>3. fd'[c] \in Owners
      BY ReadStep DEF ReadTypes
    <3> QED  BY <1>0, <3>1, <3>2, <3>3, PrefixEnds
  <2>2. CASE pc[c] \in Open
    <3>1. data[fd[c]] = SubSeq(Body(c), 1, off[c]) \/ Overlapped(c)
      BY <1>3, <2>2 DEF BodyInv
    <3>2. fd'[c] = fd[c]
      BY <1>3, <2>2, FetchFrame DEF FetchCreates, Open
    <3>3. CASE FetchChunk(c) /\ data[fd[c]] = SubSeq(Body(c), 1, off[c])
      <4>1. ~End(c, "failed")
        BY <1>0, <1>3, EndIs DEF Open
      <4>2. /\ off[c] < MaxBody /\ off'[c] = off[c] + 1
            /\ data'[fd[c]] = WriteAt(data[fd[c]], off[c], <<c, off[c] + 1>>)
        BY <1>0, <3>3, <4>1 DEF FetchChunk, Write
      <4>3. off[c] \in 0 .. MaxBody
        BY <1>0
      <4> QED  BY <1>0, <3>2, <3>3, <4>2, <4>3, PrefixGrows
    <3>4. CASE ~FetchChunk(c) /\ data[fd[c]] = SubSeq(Body(c), 1, off[c])
      <4>1. ~Received(c) /\ ~FetchCreates(c) /\ ~PackEnds(c)
        BY <2>2 DEF Received, FetchCreates, PackEnds, Open
      <4>2. data'[fd[c]] = data[fd[c]] /\ off'[c] = off[c]
        BY <1>0, <1>3, <3>4, <4>1, DataFrame, FetchFrame
      <4> QED  BY <3>2, <3>4, <4>2
    <3>5. Overlapped(c) => Overlapped(c)'
      BY <1>0 DEF Overlapped
    <3> QED  BY <3>1, <3>3, <3>4, <3>5
  <2> QED  BY <1>3, <2>1, <2>2, StepMoves DEF Follows, Open
<1> QED  BY <1>0, <1>1, <1>2, <1>3 DEF BodyInv

\* A file at the path that is neither whole nor torn by a fetch to blame stays
\* what it is, or its fetch ends, and has written all of it.
LEMMA TornStep ==
    ASSUME TypesInv, FilesInv, TornInv, \A v \in Calls : BodyInv(v),
           NEW c \in Calls, Step(c)
    PROVE  TornInv'
<1> SUFFICES ASSUME target'.type = "file"
             PROVE  \/ Whole(target.ino)'
                    \/ \E v \in Calls : TornBy(v, target.ino)'
  BY DEF TornInv
<1> USE DEF histVars, restVars, ctlVars, diskVars, openVars, readVars
<1>0. /\ op' = op /\ pc[c] # "done" /\ Fits(op[c], pc[c]) /\ ControlTypes
      /\ \A v \in Calls : seen[v] \subseteq seen'[v]
      /\ \A v \in Calls \ {c} : pc'[v] = pc[v] /\ result'[v] = result[v]
                                /\ fd'[v] = fd[v] /\ off'[v] = off[v]
      /\ c \in Owners /\ c # old /\ MaxBody \in Nat
      /\ fd \in [Calls -> Owners] /\ off \in [Calls -> Nat]
      /\ off[c] <= MaxBody
      /\ data \in [Owners -> Seq(Contents)]
      /\ target.ino \in Owners
  <2>1. /\ op' = op /\ pc[c] # "done" /\ Fits(op[c], pc[c]) /\ ControlTypes
        /\ \A v \in Calls : seen[v] \subseteq seen'[v]
        /\ \A v \in Calls \ {c} : pc'[v] = pc[v] /\ result'[v] = result[v]
    BY ControlFrame, Fitting, SeenGrows DEF TypesInv
  <2>2. \A v \in Calls \ {c} : fd'[v] = fd[v] /\ off'[v] = off[v]
    BY ReadStep
  <2>3. /\ c \in Owners /\ c # old /\ MaxBody \in Nat
        /\ fd \in [Calls -> Owners] /\ off \in [Calls -> Nat]
        /\ off[c] <= MaxBody /\ target.ino \in Owners
        /\ data \in [Owners -> Seq(Contents)]
    BY WorkspaceAssumption DEF Owners, TypesInv, ReadTypes, DiskTypes
  <2> QED  BY <2>1, <2>2, <2>3
<1>1. CASE FetchCreates(c) /\ (data' # data \/ target' # target)
  <2>1. op[c] = "fetch" /\ fd'[c] = target'.ino
    BY <1>0, <1>1 DEF FetchCreates, Fits
  <2>2. /\ pc'[c] = "writing" \/ (pc'[c] = "done" /\ result'[c] = "dropped")
    BY <1>0, <1>1, GotoIs, EndIs DEF FetchCreates, ControlTypes
  <2>3. TornBy(c, target.ino)'
    BY <1>0, <2>1, <2>2 DEF TornBy, Done, Open
  <2> QED  BY <2>3
<1>2. CASE FetchChunk(c) /\ fd[c] = target'.ino
  <2>1. op[c] = "fetch" /\ fd'[c] = target'.ino
    BY <1>0, <1>2 DEF FetchChunk, Fits
  <2>2. /\ pc'[c] = "writing" \/ (pc'[c] = "done" /\ result'[c] # "ok")
    BY <1>0, <1>2, EndIs DEF FetchChunk, Write
  <2>3. TornBy(c, target.ino)'
    BY <1>0, <2>1, <2>2 DEF TornBy, Done, Open
  <2> QED  BY <2>3
<1>3. CASE Rename(c) /\ RenameFile(c) /\ target' = File(c)
  <2>1. data'[c] = Body(c) /\ target'.ino = c
    BY <1>3, EntryForms DEF Rename, RenameFile, BodyInv, Filled
  <2>2. data'[c] = SubSeq(Body(c), 1, MaxBody)
    BY <1>0, <2>1, PrefixEnds
  <2>3. \E n \in 0 .. MaxBody :
           data'[c] = SubSeq(Body(c), 1, n) /\ n = MaxBody
    BY <1>0, <2>2
  <2>4. Whole(target.ino)'
    BY <1>0, <2>1, <2>3 DEF Whole
  <2> QED  BY <2>4
<1>4. CASE /\ target' = target
           /\ data' = data \/ ~FetchCreates(c)
           /\ ~(FetchChunk(c) /\ fd[c] = target'.ino)
  <2>1. data'[target.ino] = data[target.ino]
    <3>1. PackEnds(c) \/ Received(c) => target.ino # c
      BY <1>0, <1>4 DEF FilesInv, Hidden, IsFileOf, PackEnds, Received, Fits,
         Imports, Archives
    <3> QED  BY <1>0, <1>4, <3>1, DataFrame
  <2>2. CASE Whole(target.ino)
    <3>1. PICK j \in Owners, n \in 0 .. MaxBody :
              /\ data[target.ino] = SubSeq(Body(j), 1, n)
              /\ n = MaxBody \/ (j # old /\ n = off[j] /\ Done(j, "ok"))
      BY <2>2 DEF Whole
    <3>2. j # old /\ Done(j, "ok") => off'[j] = off[j] /\ Done(j, "ok")'
      BY <1>0 DEF Done, Owners
    <3>3. Whole(target.ino)'
      BY <1>4, <2>1, <3>1, <3>2 DEF Whole
    <3> QED  BY <3>3
  <2>3. ASSUME NEW v \in Calls, TornBy(v, target.ino)
        PROVE  \/ Whole(target.ino)'
               \/ \E w \in Calls : TornBy(w, target.ino)'
    <3>1. Overlapped(v) => Overlapped(v)'
      BY <1>0 DEF Overlapped
    <3>2. CASE v # c
      <4>1. TornBy(v, target.ino)'
        BY <1>0, <1>4, <2>3, <3>1, <3>2 DEF TornBy, Done
      <4> QED  BY <4>1
    <3>3. CASE v = c
      <4>1. op[c] = "fetch" /\ pc[c] \in Open /\ fd[c] = target.ino
        BY <1>0, <2>3, <3>3 DEF TornBy
      <4>2. fd'[c] = fd[c] /\ pc'[c] \in Open \union {"done"}
        <5>1. [Next]_vars
          BY DEF Next, Step
        <5>2. pc'[c] \in Phases
          BY <5>1, ControlStep DEF TypesInv, ControlTypes
        <5>3. pc'[c] \in Open \union {"done"}
          BY <4>1, <5>2, StepMoves DEF Follows, Open, Phases
        <5> QED  BY <4>1, <5>3, FetchFrame DEF FetchCreates, Open
      <4>3. CASE Done(c, "ok")' /\ ~Overlapped(c)'
        <5>1. data[fd[c]] = SubSeq(Body(c), 1, off[c])
          BY <3>1, <3>3, <4>1, <4>3 DEF BodyInv
        <5>2. Permit(c)
          <6>1. op[c] \in Writers /\ op[c] # "raw"
            BY <4>1 DEF Writers
          <6>2. RenameFile(c) \/ Sweep(c) \/ Permit(c)
            BY <4>3, <6>1, StepEnds DEF Done
          <6> QED  BY <4>1, <6>2 DEF RenameFile, Sweep, Open
        <5>3. off'[c] = off[c] /\ off[c] \in 0 .. MaxBody
          BY <1>0, <5>2 DEF Permit
        <5>4. Whole(target.ino)'
          BY <1>0, <1>4, <2>1, <4>1, <4>3, <5>1, <5>3 DEF Whole
        <5> QED  BY <5>4
      <4>4. CASE ~Done(c, "ok")' \/ Overlapped(c)'
        <5>1. TornBy(c, target.ino)'
          BY <1>0, <1>4, <4>1, <4>2, <4>4 DEF TornBy
        <5> QED  BY <5>1
      <4> QED  BY <4>3, <4>4 DEF Done, Overlapped
    <3> QED  BY <3>2, <3>3
  <2> QED  BY <1>4, <2>2, <2>3 DEF TornInv
<1> QED  BY <1>1, <1>2, <1>3, <1>4, FileAtPath

\* What is in the files of the calls that are under way, and at the path, is
\* what one of them sent, but for what a fetch is to blame for.
LEMMA BodiesKept ==
    Spec => [](FilesInv /\ (\A v \in Calls : BodyInv(v)) /\ TornInv)
<1> DEFINE BInv == \A v \in Calls : BodyInv(v)
<1> USE DEF histVars, restVars, ctlVars, diskVars, openVars, readVars
<1>1. Init => FilesInv /\ BInv /\ TornInv
  <2> SUFFICES ASSUME Init
               PROVE  FilesInv /\ BInv /\ TornInv
    OBVIOUS
  <2>1. /\ \A v \in Calls : pc[v] = "idle" /\ fd[v] = old /\ off[v] = 0 /\ v # old
        /\ target.type = "file" => target.ino = old
        /\ data[old] = Body(old) /\ old \in Owners
    BY WorkspaceAssumption, EntryForms DEF Init, Owners
  <2>2. MaxBody \in 0 .. MaxBody /\ data[old] = SubSeq(Body(old), 1, MaxBody)
    BY <2>1, WorkspaceAssumption, PrefixEnds
  <2>3. Whole(old)
    BY <2>1, <2>2 DEF Whole
  <2> QED  BY <2>1, <2>3
           DEF FilesInv, IsFileOf, Hidden, BodyInv, Filled, Open, TornInv
<1>2. TypesInv /\ FilesInv /\ BInv /\ TornInv /\ [Next]_vars
      => FilesInv' /\ BInv' /\ TornInv'
  <2> SUFFICES ASSUME TypesInv, FilesInv, BInv, TornInv, [Next]_vars
               PROVE  FilesInv' /\ BInv' /\ TornInv'
    OBVIOUS
  <2>1. CASE Rest \/ UNCHANGED vars
    <3>1. UNCHANGED vars
      BY <2>1 DEF Rest
    <3>2. FilesInv'
      BY <3>1 DEF vars, FilesInv, IsFileOf, Hidden
    <3>3. BInv'
      BY <3>1 DEF vars, BodyInv, Overlapped
    <3>4. TornInv'
      BY <3>1 DEF vars, TornInv, TornBy, Whole, Done, Overlapped
    <3> QED  BY <3>2, <3>3, <3>4
  <2>2. CASE Crash
    <3>1. /\ UNCHANGED <<target, data, fd, off, op, seen>>
          /\ \A v \in Calls :
                \/ pc[v] # "done" /\ pc'[v] = "done" /\ result'[v] = "crashed"
                \/ pc'[v] = pc[v] /\ result'[v] = result[v]
      BY <2>2, CrashIs DEF Crash, Active
    <3>2. FilesInv'
      BY <3>1 DEF FilesInv, IsFileOf, Hidden
    <3>3. ASSUME NEW v \in Calls
          PROVE  BodyInv(v)'
      BY <3>1 DEF BodyInv, Overlapped, Filled, Open
    <3>4. \A v \in Calls : Done(v, "ok") => Done(v, "ok")'
      BY <3>1 DEF Done
    <3>5. \A i \in Owners : Whole(i) => Whole(i)'
      <4> SUFFICES ASSUME NEW i \in Owners, Whole(i)
                   PROVE  Whole(i)'
        OBVIOUS
      <4>1. PICK j \in Owners, n \in 0 .. MaxBody :
                /\ data[i] = SubSeq(Body(j), 1, n)
                /\ n = MaxBody \/ (j # old /\ n = off[j] /\ Done(j, "ok"))
        BY DEF Whole
      <4>2. j # old /\ Done(j, "ok") => Done(j, "ok")'
        BY <3>4 DEF Owners
      <4> QED  BY <3>1, <4>1, <4>2 DEF Whole
    <3>6. \A v \in Calls, i \in Owners : TornBy(v, i) => TornBy(v, i)'
      BY <3>1 DEF TornBy, Done, Overlapped
    <3>7. target.ino \in Owners
      BY DEF TypesInv, DiskTypes
    <3>8. TornInv'
      BY <3>1, <3>5, <3>6, <3>7 DEF TornInv
    <3> QED  BY <3>2, <3>3, <3>8
  <2>3. ASSUME NEW c \in Calls, Step(c)
        PROVE  FilesInv' /\ BInv' /\ TornInv'
    <3>1. FilesInv'
      BY <2>3, FilesStep
    <3>2. ASSUME NEW v \in Calls
          PROVE  BodyInv(v)'
      BY <2>3, BodyOwnStep, BodyOthersStep
    <3>3. TornInv'
      BY <2>3, TornStep
    <3> QED  BY <3>1, <3>2, <3>3
  <2> QED  BY <2>1, <2>2, <2>3 DEF Next, Step
<1> HIDE DEF BInv
<1> QED
  <2>1. Spec => [](FilesInv /\ BInv /\ TornInv)
    BY TypesKept, <1>1, <1>2, PTL DEF Spec
  <2> QED  BY <2>1 DEF BInv

\* A file at the path holds what one call sent, whole, unless a fetch is
\* writing to it, has failed, or met another call that writes.
THEOREM TearsExplained == Spec => []TornHasCause
<1>1. TornInv => TornHasCause
  BY DEF TornInv, TornHasCause, TornBy, Overlapped
<1> QED  BY BodiesKept, <1>1, PTL

-----------------------------------------------------------------------------
(* What is exported.                                                       *)

\* Reading on adds a block to what was read.
LEMMA ReadsOn ==
    ASSUME NEW S, NEW s \in Seq(S), NEW n \in Nat
    PROVE  /\ SubSeq(s, 1, 0) = <<>>
           /\ SubSeq(s, 1, Len(s)) = s
           /\ n < Len(s) =>
                  Append(SubSeq(s, 1, n), s[n + 1]) = SubSeq(s, 1, n + 1)
<1>0. Len(s) \in Nat /\ \A k \in 1 .. Len(s) : s[k] \in S
  BY LenProperties, ElementOfSeq
<1>1. ASSUME NEW m \in Nat, m <= Len(s)
      PROVE  /\ SubSeq(s, 1, m) \in Seq(S) /\ Len(SubSeq(s, 1, m)) = m
             /\ \A k \in 1 .. m : SubSeq(s, 1, m)[k] = s[k]
  <2>1. \A k \in 1 .. m : s[k] \in S
    BY <1>0, <1>1
  <2>2. /\ SubSeq(s, 1, m) \in Seq(S)
        /\ Len(SubSeq(s, 1, m)) = IF 1 <= m THEN m - 1 + 1 ELSE 0
        /\ \A k \in 1 .. m - 1 + 1 : SubSeq(s, 1, m)[k] = s[1 + k - 1]
    BY <2>1, SubSeqProperties
  <2> QED  BY <2>2
<1>2. SubSeq(s, 1, 0) = <<>>
  BY SubSeqEmpty
<1>3. SubSeq(s, 1, Len(s)) = s
  <2>1. /\ SubSeq(s, 1, Len(s)) \in Seq(S) /\ Len(SubSeq(s, 1, Len(s))) = Len(s)
        /\ \A k \in 1 .. Len(s) : SubSeq(s, 1, Len(s))[k] = s[k]
    BY <1>0, <1>1
  <2> QED  BY <2>1, SeqEqual
<1>4. ASSUME n < Len(s)
      PROVE  Append(SubSeq(s, 1, n), s[n + 1]) = SubSeq(s, 1, n + 1)
  <2> DEFINE u == SubSeq(s, 1, n)
             v == SubSeq(s, 1, n + 1)
             w == Append(u, s[n + 1])
  <2>1. u \in Seq(S) /\ Len(u) = n /\ \A k \in 1 .. n : u[k] = s[k]
    BY <1>0, <1>1, <1>4
  <2>2. v \in Seq(S) /\ Len(v) = n + 1 /\ \A k \in 1 .. n + 1 : v[k] = s[k]
    BY <1>0, <1>1, <1>4
  <2>3. s[n + 1] \in S
    BY <1>0, <1>4
  <2> HIDE DEF u, v
  <2>4. /\ w \in Seq(S) /\ Len(w) = n + 1
        /\ \A k \in 1 .. n : w[k] = u[k]
        /\ w[n + 1] = s[n + 1]
    BY <2>1, <2>3, AppendProperties
  <2> HIDE DEF w
  <2>5. \A k \in 1 .. n + 1 : w[k] = v[k]
    <3>1. \A k \in 1 .. n + 1 : k \in 1 .. n \/ k = n + 1
      OBVIOUS
    <3> QED  BY <2>1, <2>2, <2>4, <3>1
  <2>6. w = v
    BY <2>2, <2>4, <2>5, SeqEqual
  <2> QED  BY <2>6 DEF w, u, v
<1> QED  BY <1>2, <1>3, <1>4

\* A file that may be seen: imports rename theirs when it is whole.
Published(i) == i = old \/ (op[i] = "raw" /\ pc[i] = "done") \/ op[i] = "fetch"

PubInv == target.type = "file" => Published(target.ino)

MetFetch(c) == \E d \in seen[c] : op[d] = "fetch"

\* The call has read the first blocks of a file, and they are what var holds.
ReadSoFar(c, var) ==
    /\ Published(fd[c])
    /\ off[c] <= Len(data[fd[c]])
    /\ var[c] = SubSeq(data[fd[c]], 1, off[c])

\* What an export that met no fetch has hashed and streamed.
ExportInv(c) ==
    op[c] = "export" /\ ~MetFetch(c) =>
        /\ pc[c] \in {"idle", "looking", "sizing", "hashing"} => digest[c] = <<>>
        /\ pc[c] \in {"idle", "looking", "sizing", "hashing", "digesting",
                      "offering"} => out[c] = <<>>
        /\ pc[c] = "digesting" => ReadSoFar(c, digest)
        /\ pc[c] \in {"offering", "streaming"} =>
               \E i \in Owners : Published(i) /\ digest[c] = data[i]
        /\ pc[c] = "streaming" => ReadSoFar(c, out)

\* No step makes a file invisible, ...
LEMMA PubStep ==
    ASSUME TypesInv, PubInv, NEW c \in Calls, Step(c)
    PROVE  /\ PubInv'
           /\ \A i \in Owners : Published(i) => Published(i)'
<1>0. /\ op' = op /\ pc[c] # "done" /\ Fits(op[c], pc[c])
      /\ \A v \in Calls \ {c} : pc'[v] = pc[v]
  BY ControlFrame, Fitting
<1>1. \A i \in Owners : Published(i) => Published(i)'
  BY <1>0 DEF Published, Owners
<1>2. ASSUME target'.type = "file"
      PROVE  Published(target.ino)'
  <2>1. CASE target' = target
    <3>1. target.ino \in Owners /\ Published(target.ino)
      BY <1>2, <2>1 DEF PubInv, TypesInv, DiskTypes
    <3>2. Published(target.ino)'
      BY <1>0, <2>1, <3>1 DEF Published, Owners
    <3> QED  BY <3>2
  <2>2. CASE target' = File(c) /\ Rename(c) /\ RenameFile(c)
    <3>1. pc'[c] = "done"
      BY <2>2, EndIs DEF RenameFile, TypesInv
    <3>2. op[c] = "raw" /\ target'.ino = c
      BY <2>2, EntryForms DEF RenameFile
    <3> QED  BY <1>0, <3>1, <3>2 DEF Published
  <2>3. CASE target' = File(c) /\ FetchCreates(c)
    BY <1>0, <2>3, EntryForms DEF Published, FetchCreates, Fits
  <2> QED  BY <1>2, <2>1, <2>2, <2>3, FileAtPath
<1> QED  BY <1>1, <1>2 DEF PubInv

\* ... and only a fetch writes to one that can be seen.
LEMMA PublishedFrame ==
    ASSUME TypesInv, NEW c \in Calls, Step(c), NEW v \in Calls, Active(v),
           op[v] = "export", ~MetFetch(v), NEW i \in Owners, Published(i)
    PROVE  data'[i] = data[i]
<1>0. Fits(op[c], pc[c]) /\ pc[c] # "done" /\ c # old
  BY WorkspaceAssumption, ControlFrame, Fitting
<1>1. ~FetchCreates(c) /\ ~FetchChunk(c)
  <2>1. ASSUME FetchCreates(c) \/ FetchChunk(c)
        PROVE  FALSE
    <3>1. op[c] = "fetch" /\ Active(c)
      BY <1>0, <2>1 DEF FetchCreates, FetchChunk, Fits, Active
    <3>2. c \in seen[v]
      BY <3>1 DEF TypesInv, Met
    <3> QED  BY <3>1, <3>2 DEF MetFetch
  <2> QED  BY <2>1
<1>2. i = c => ~Received(c) /\ ~PackEnds(c)
  BY <1>0 DEF Published, Received, PackEnds, Fits, Imports, Archives
<1> QED  BY <1>1, <1>2, DataFrame

\* The steps of other calls change nothing of that, ...
LEMMA ExportOthersStep ==
    ASSUME TypesInv, PubInv, NEW c \in Calls, Step(c),
           NEW v \in Calls \ {c}, ExportInv(v)
    PROVE  ExportInv(v)'
<1> SUFFICES ASSUME op'[v] = "export", ~MetFetch(v)'
             PROVE  ExportInv(v)'
  BY DEF ExportInv
<1>0. /\ op' = op /\ pc'[v] = pc[v] /\ seen[v] \subseteq seen'[v]
      /\ fd'[v] = fd[v] /\ off'[v] = off[v] /\ fd[v] \in Owners
      /\ digest'[v] = digest[v] /\ out'[v] = out[v]
  BY ControlFrame, SeenGrows, ReadStep DEF TypesInv, ReadTypes
<1>1. op[v] = "export" /\ ~MetFetch(v)
  BY <1>0 DEF MetFetch
<1>2. \A i \in Owners :
         Published(i) => Published(i)' /\ (Active(v) => data'[i] = data[i])
  BY <1>1, PubStep, PublishedFrame
<1>3. ASSUME Active(v), ReadSoFar(v, digest)
      PROVE  ReadSoFar(v, digest)'
  <2>1. Published(fd[v])'
    BY <1>0, <1>2, <1>3 DEF ReadSoFar, Published
  <2> QED  BY <1>0, <1>2, <1>3, <2>1 DEF ReadSoFar
<1>4. ASSUME Active(v), ReadSoFar(v, out)
      PROVE  ReadSoFar(v, out)'
  <2>1. Published(fd[v])'
    BY <1>0, <1>2, <1>4 DEF ReadSoFar, Published
  <2> QED  BY <1>0, <1>2, <1>4, <2>1 DEF ReadSoFar
<1>5. Active(v) = (pc[v] \notin {"idle", "done"})
  BY DEF Active
<1> QED  BY <1>0, <1>1, <1>2, <1>3, <1>4, <1>5 DEF ExportInv

\* ... and its own read on, in a file that nobody writes to.
LEMMA ExportOwnStep ==
    ASSUME TypesInv, PubInv, NEW c \in Calls, Step(c), ExportInv(c)
    PROVE  ExportInv(c)'
<1> SUFFICES ASSUME op'[c] = "export", ~MetFetch(c)', pc'[c] # "done"
             PROVE  ExportInv(c)'
  BY DEF ExportInv
<1> USE DEF histVars, restVars, ctlVars, diskVars, openVars, readVars
<1>0. /\ op' = op /\ seen[c] \subseteq seen'[c] /\ ControlTypes
      /\ Fits(op[c], pc[c]) /\ pc[c] # "done"
  BY ControlFrame, SeenGrows, Fitting DEF TypesInv
<1>1. op[c] = "export" /\ ~MetFetch(c)
  BY <1>0 DEF MetFetch
<1>2. /\ pc[c] \in {"idle", "looking", "sizing", "hashing"} => digest[c] = <<>>
      /\ pc[c] \in {"idle", "looking", "sizing", "hashing", "digesting",
                    "offering"} => out[c] = <<>>
      /\ pc[c] = "digesting" => ReadSoFar(c, digest)
      /\ pc[c] \in {"offering", "streaming"} =>
             \E i \in Owners : Published(i) /\ digest[c] = data[i]
      /\ pc[c] = "streaming" => ReadSoFar(c, out)
  BY <1>1 DEF ExportInv
<1>3. /\ \A i \in Owners : Published(i) => Published(i)'
      /\ target.ino \in Owners /\ c \in Owners
      /\ fd \in [Calls -> Owners] /\ off \in [Calls -> Nat]
      /\ digest \in [Calls -> Seq(Contents)] /\ out \in [Calls -> Seq(Contents)]
      /\ data \in [Owners -> Seq(Contents)]
      /\ \A i \in Owners : Len(data[i]) \in Nat
  BY PubStep, LenProperties DEF TypesInv, ReadTypes, DiskTypes, Owners
<1>4. /\ \A r \in {"ok", "failed", "dropped"} : ~End(c, r)
      /\ \A p : Goto(c, p) => pc'[c] = p
  BY <1>0, GotoIs, EndIs DEF ControlTypes
<1>5. data' = data
  <2>1. ~Received(c) /\ ~FetchCreates(c) /\ ~FetchChunk(c) /\ ~PackEnds(c)
    BY <1>0, <1>1 DEF Received, FetchCreates, FetchChunk, PackEnds, Fits, Imports,
       Archives
  <2> QED  BY <2>1, StepChanges
<1>6. \A i : data[i] = data'[i]
  BY <1>5
<1>7. CASE Drop(c)
  <2>1. UNCHANGED <<pc, digest, out, fd, off, data>>
    BY <1>4, <1>7 DEF Drop
  <2>2. Published(fd[c]) => Published(fd[c])'
    BY <1>3, <2>1 DEF Published
  <2> QED  BY <1>2, <1>3, <2>1, <2>2 DEF ExportInv, ReadSoFar
<1>8. CASE DiskFails(c)
  BY <1>4, <1>8 DEF DiskFails
<1>9. CASE Start(c) \/ Look(c) \/ Size(c)
  <2>1. digest' = digest /\ out' = out
    BY <1>9 DEF Start, Look, Size
  <2>2. /\ pc[c] \in {"idle", "looking", "sizing"}
        /\ pc'[c] \in {"looking", "sizing", "hashing"}
    BY <1>1, <1>4, <1>9 DEF Start, Look, Size, First, Writers, Imports,
       Archives, Exports
  <2> QED  BY <1>2, <2>1, <2>2 DEF ExportInv
<1>10. CASE HashOpens(c) \/ StreamOpens(c)
  <2>1. \/ pc[c] = "hashing" /\ pc'[c] = "digesting"
        \/ pc[c] = "offering" /\ pc'[c] = "streaming"
    BY <1>4, <1>10 DEF HashOpens, StreamOpens, OpenSource
  <2>2. /\ target.type = "file" /\ digest' = digest /\ out' = out
        /\ fd'[c] = target.ino /\ off'[c] = 0
    BY <1>1, <1>3, <1>4, <1>10
       DEF HashOpens, StreamOpens, OpenSource, Readable, Source
  <2>3. Published(fd[c])'
    BY <1>3, <2>2 DEF PubInv, Published
  <2>4. SubSeq(data[target.ino], 1, 0) = <<>>
    BY <1>3, ReadsOn
  <2>5. /\ off'[c] <= Len(data'[fd'[c]])
        /\ SubSeq(data'[fd'[c]], 1, off'[c]) = <<>>
    BY <1>3, <1>5, <2>2, <2>4
  <2>6. CASE pc[c] = "hashing" /\ pc'[c] = "digesting"
    <3>1. digest'[c] = <<>> /\ out'[c] = <<>>
      BY <1>2, <2>2, <2>6
    <3> QED  BY <2>3, <2>5, <2>6, <3>1 DEF ExportInv, ReadSoFar
  <2>7. CASE pc[c] = "offering" /\ pc'[c] = "streaming"
    <3>1. /\ out'[c] = <<>>
          /\ \E i \in Owners : Published(i)' /\ digest'[c] = data'[i]
      BY <1>2, <1>3, <1>5, <2>2, <2>7
    <3> QED  BY <2>3, <2>5, <2>7, <3>1 DEF ExportInv, ReadSoFar
  <2> QED  BY <2>1, <2>6, <2>7
<1>11. CASE Hash(c)
  <2>1. pc[c] = "digesting" /\ fd' = fd /\ out' = out /\ ReadSoFar(c, digest)
    BY <1>2, <1>11 DEF Hash
  <2>2. Published(fd[c])' /\ out'[c] = <<>>
    BY <1>2, <1>3, <2>1 DEF ReadSoFar, Published
  <2> DEFINE s == data[fd[c]]
  <2>3. s \in Seq(Contents) /\ off[c] \in Nat /\ fd[c] \in Owners
    BY <1>3
  <2>4. off[c] <= Len(s) /\ digest[c] = SubSeq(s, 1, off[c]) /\ Len(s) \in Nat
    BY <1>3, <2>1, <2>3 DEF ReadSoFar
  <2>5. CASE ReadOn(c, digest) /\ Goto(c, "digesting")
    <3>1. /\ off[c] < Len(s) /\ off'[c] = off[c] + 1 /\ pc'[c] = "digesting"
          /\ digest'[c] = Append(digest[c], s[off[c] + 1])
      BY <1>3, <1>4, <2>3, <2>4, <2>5 DEF ReadOn, AtEnd
    <3>2. digest'[c] = SubSeq(s, 1, off[c] + 1)
      BY <2>3, <2>4, <3>1, ReadsOn
    <3>3. off'[c] <= Len(s)
      BY <2>3, <2>4, <3>1
    <3> QED  BY <1>5, <2>1, <2>2, <3>1, <3>2, <3>3 DEF ExportInv, ReadSoFar
  <2>6. CASE AtEnd(c) /\ Goto(c, "offering") /\ UNCHANGED <<off, digest>>
    <3>1. off[c] = Len(s) /\ pc'[c] = "offering"
      BY <1>4, <2>3, <2>4, <2>6 DEF AtEnd
    <3>2. digest'[c] = s
      BY <2>3, <2>4, <2>6, <3>1, ReadsOn
    <3>3. \E i \in Owners : Published(i)' /\ digest'[c] = data'[i]
      BY <1>5, <2>1, <2>2, <2>3, <3>2 DEF Published
    <3> QED  BY <2>2, <3>1, <3>3 DEF ExportInv
  <2> QED  BY <1>11, <2>5, <2>6 DEF Hash
<1>12. CASE Stream(c)
  <2>1. pc[c] = "streaming" /\ fd' = fd /\ digest' = digest /\ ReadSoFar(c, out)
    BY <1>2, <1>12 DEF Stream
  <2>2. /\ Published(fd[c])'
        /\ \E i \in Owners : Published(i)' /\ digest'[c] = data'[i]
    BY <1>2, <1>3, <1>5, <2>1 DEF ReadSoFar, Published
  <2> DEFINE s == data[fd[c]]
  <2>3. s \in Seq(Contents) /\ off[c] \in Nat /\ fd[c] \in Owners
    BY <1>3
  <2>4. off[c] <= Len(s) /\ out[c] = SubSeq(s, 1, off[c]) /\ Len(s) \in Nat
    BY <1>3, <2>1, <2>3 DEF ReadSoFar
  <2>5. /\ off[c] < Len(s) /\ off'[c] = off[c] + 1 /\ pc'[c] = "streaming"
        /\ out'[c] = Append(out[c], s[off[c] + 1])
    BY <1>3, <1>4, <1>12, <2>1, <2>3, <2>4 DEF Stream, ReadOn, AtEnd
  <2>6. out'[c] = SubSeq(s, 1, off[c] + 1)
    BY <2>3, <2>4, <2>5, ReadsOn
  <2>7. off'[c] <= Len(s)
    BY <2>3, <2>4, <2>5
  <2> QED  BY <1>5, <2>1, <2>2, <2>5, <2>6, <2>7 DEF ExportInv, ReadSoFar
<1>13. pc[c] \in {"idle", "looking", "sizing", "hashing", "digesting",
                  "offering", "streaming"}
  BY <1>0, <1>1, Fitting DEF Fits, Phases, Writers, Imports, Archives, Exports
<1> QED  BY <1>7, <1>8, <1>9, <1>10, <1>11, <1>12, <1>13, StepAt

\* An export that met no fetch has streamed one file, whole, and the hash in
\* its header is that of one file, whole, however often imports replaced the
\* file at the path meanwhile.
THEOREM ExportsAreWhole == Spec => ExportFromOneFile
<1> DEFINE EInv == \A v \in Calls : ExportInv(v)
           FromOneFile == \A c \in Calls :
               /\ Ends(c) /\ result'[c] = "ok" /\ op[c] = "export"
               /\ \A d \in seen[c] : op[d] # "fetch"
               => /\ \E i \in Owners : out[c] = data[i]
                  /\ \E i \in Owners : digest[c] = data[i]
<1> USE DEF histVars, restVars, ctlVars, diskVars, openVars, readVars
<1>1. Init => PubInv /\ EInv
  BY EntryForms DEF Init, PubInv, Published, ExportInv
<1>2. TypesInv /\ PubInv /\ EInv /\ [Next]_vars => PubInv' /\ EInv'
  <2> SUFFICES ASSUME TypesInv, PubInv, EInv, [Next]_vars
               PROVE  PubInv' /\ EInv'
    OBVIOUS
  <2>0. target.ino \in Owners
    BY DEF TypesInv, DiskTypes
  <2>1. CASE Rest \/ UNCHANGED vars
    <3>1. UNCHANGED vars
      BY <2>1 DEF Rest
    <3>2. PubInv' /\ EInv'
      BY <3>1 DEF vars, PubInv, Published, ExportInv, MetFetch, ReadSoFar
    <3> QED  BY <3>2
  <2>2. CASE Crash
    <3>1. /\ UNCHANGED <<target, data, fd, off, digest, out, op, seen>>
          /\ \A v \in Calls : pc'[v] = pc[v] \/ pc'[v] = "done"
      BY <2>2, CrashIs DEF Crash
    <3>2. \A v \in Calls : pc[v] \in {"idle", "done"} => pc'[v] = pc[v]
      BY <2>2, CrashIs DEF Active
    <3>3. PubInv'
      BY <2>0, <3>1, <3>2 DEF PubInv, Published, Owners
    <3>4. ASSUME NEW v \in Calls
          PROVE  ExportInv(v)'
      <4>1. CASE pc'[v] = "done"
        BY <4>1 DEF ExportInv
      <4>2. CASE pc[v] = "idle" /\ pc'[v] = "idle"
        BY <3>1, <4>2 DEF ExportInv, MetFetch
      <4>3. CASE Active(v)
        <5>1. pc'[v] = "done"
          BY <2>2, <4>3, CrashIs
        <5> QED  BY <5>1 DEF ExportInv
      <4> QED  BY <3>2, <4>1, <4>2, <4>3 DEF Active
    <3> QED  BY <3>3, <3>4
  <2>3. ASSUME NEW c \in Calls, Step(c)
        PROVE  PubInv' /\ EInv'
    <3>1. ASSUME NEW v \in Calls
          PROVE  ExportInv(v)'
      BY <2>3, ExportOwnStep, ExportOthersStep
    <3> QED  BY <2>3, <3>1, PubStep
  <2> QED  BY <2>1, <2>2, <2>3 DEF Next, Step
<1>3. ASSUME TypesInv, EInv, Next
      PROVE  FromOneFile
  <2> SUFFICES ASSUME NEW c \in Calls, Ends(c), result'[c] = "ok",
                      op[c] = "export", \A d \in seen[c] : op[d] # "fetch"
               PROVE  /\ \E i \in Owners : out[c] = data[i]
                      /\ \E i \in Owners : digest[c] = data[i]
    OBVIOUS
  <2>1. Step(c)
    <3>1. ~Crash
      BY CrashIs, <1>3 DEF Ends, Active
    <3>2. ~Rest
      BY DEF Rest, Ends
    <3>3. \A d \in Calls : Step(d) => d = c
      BY <1>3, ControlFrame DEF Ends
    <3> QED  BY <1>3, <3>1, <3>2, <3>3 DEF Next, Step
  <2>2. pc[c] = "streaming" /\ AtEnd(c)
    <3>1. Completes(c) /\ Fits(op[c], pc[c])
      BY <1>3, <2>1, StepEnds, Fitting DEF Ends
    <3> QED  BY <3>1 DEF Completes, Rename, Sweep, Permit, Stream, ReadDir,
                ListEnds, Delete, DeleteHome, Fits, Archives
  <2>3. ~MetFetch(c)
    BY DEF MetFetch
  <2>4. /\ ReadSoFar(c, out)
        /\ \E i \in Owners : digest[c] = data[i]
    BY <1>3, <2>2, <2>3 DEF ExportInv
  <2>5. /\ fd[c] \in Owners /\ off[c] \in Nat
        /\ data[fd[c]] \in Seq(Contents) /\ Len(data[fd[c]]) \in Nat
    BY <1>3, LenProperties DEF TypesInv, DiskTypes, ReadTypes
  <2>6. off[c] = Len(data[fd[c]]) /\ out[c] = SubSeq(data[fd[c]], 1, off[c])
    BY <2>2, <2>4, <2>5 DEF ReadSoFar, AtEnd
  <2>7. out[c] = data[fd[c]]
    BY <2>5, <2>6, ReadsOn
  <2> QED  BY <2>4, <2>5, <2>7
<1>4. TypesInv /\ EInv /\ [Next]_vars => [FromOneFile]_vars
  BY <1>3
<1> HIDE DEF EInv
<1> QED  BY TypesKept, <1>1, <1>2, <1>4, PTL DEF Spec, ExportFromOneFile

-----------------------------------------------------------------------------
(* A call that is alone.                                                   *)

\* What is nowhere is represented in one way.
NoneInv == target.type = "none" => target = NoEntry

\* The phases of a call that writes after it has seen to the home directory.
Owned == {"parenting", "staging", "receiving", "reparenting", "expanding",
          "unpacking", "checking", "unlinking", "opening", "clearing",
          "renaming", "making", "moving", "sweeping", "requesting",
          "removing", "creating", "writing", "permitting"}

HomeReady(c) ==
    /\ pc[c] = "owning" => home # "absent"
    /\ pc[c] \in Owned => home = "agent"

\* What an import is to put at the path, ...
PieceReady(c) ==
    /\ op[c] = "raw" /\ pc[c] \in Staged => staging[c]
    /\ op[c] \in Archives =>
           /\ pc[c] \in {"receiving", "reparenting", "expanding", "unpacking"}
              => staging[c]
           /\ pc[c] = "unpacking" => expand[c] = {"."}
           /\ pc[c] \in Expanded => expand[c] = Unpacked
           /\ pc[c] = "moving" => "." \in expand[c]

\* ... and what is there before, meanwhile, and when it has done so.
PathReady(c) ==
    /\ pc[c] = "unlinking" => target.type = "file"
    /\ pc[c] \in {"opening", "clearing"} => target.type = "dir"
    /\ pc[c] = "clearing" =>
           fd[c] = target.ino /\ \A e \in target.entries : e[1] \in todo[c]
    /\ pc[c] \in {"renaming", "making"} => target.type = "none"
    /\ pc[c] = "moving" =>
           target = Dir(c, {n \in Names : n \notin expand[c]} \X {c})
    /\ pc[c] = "sweeping" => target = Dir(c, Names \X {c})
    /\ pc[c] \in Open => target.type = "file" /\ fd[c] = target.ino

\* The phases in which an export knows what it reads, ...
Reading == {"sizing", "hashing", "digesting", "offering", "streaming"}

\* ... of which it has read the first blocks.
Prefixed(c, var) ==
    /\ fd[c] = Source(c) /\ off[c] <= Len(data[Source(c)])
    /\ var[c] = SubSeq(data[Source(c)], 1, off[c])

\* The archive holds the directory, unless a fault cut it short.
Packed(c) == data[c] = <<target.entries>> \/ (c \in MayFault /\ data[c] = <<>>)

ExportReady(c) ==
    /\ pc[c] \in {"idle", "looking", "packing"} => found[c] = {}
    /\ pc[c] \in {"idle", "looking", "packing", "adding", "sizing", "hashing"}
       => digest[c] = <<>>
    /\ pc[c] \in {"idle", "looking", "packing", "adding", "sizing", "hashing",
                  "digesting", "offering"} => out[c] = <<>>
    /\ pc[c] \in {"packing", "adding"} => IsDir /\ temp[c] = "present"
    /\ pc[c] = "adding" =>
           /\ \A n \in todo[c] : \E e \in target.entries : e[1] = n
           /\ found[c] = {e \in target.entries : e[1] \notin todo[c]}
    /\ pc[c] \in Reading =>
           /\ op[c] = "export" => target.type = "file"
           /\ op[c] = "pack" => Packed(c) /\ temp[c] = "present"
    /\ pc[c] \in Reading \ {"sizing"} => size[c] = Len(data[Source(c)])
    /\ pc[c] = "digesting" => Prefixed(c, digest)
    /\ pc[c] \in {"offering", "streaming"} => digest[c] = data[Source(c)]
    /\ pc[c] = "streaming" => Prefixed(c, out)

\* What is listed, and what is still to be.
EntriesReady(c) ==
    /\ pc[c] \in {"idle", "reading"} => found[c] = {}
    /\ pc[c] = "listing" => found[c] \union todo[c] = Entries
    /\ pc[c] = "emptying" => Entries \subseteq todo[c]

\* Whatever was there before, a call that is alone finds what it has left.
AloneInv(c) ==
    pc[c] # "done" /\ Alone(c) =>
        /\ HomeReady(c) /\ PieceReady(c) /\ PathReady(c)
        /\ ExportReady(c) /\ EntriesReady(c)

\* A target that is removed is NoEntry.
LEMMA NoneStep ==
    ASSUME TypesInv, NoneInv, NEW c \in Calls, Step(c)
    PROVE  NoneInv'
<1>1. ASSUME ClearEntry(c), target'.type = "none"
      PROVE  target' = target
  BY <1>1 DEF ClearEntry, IsDir
<1>2. CASE Rename(c)
  BY <1>2, EntryForms DEF Rename, RenameDir, RenameFile, NoneInv
<1>3. CASE MakeDir(c)
  BY <1>3, EntryForms DEF MakeDir, NoneInv
<1>4. CASE Move(c)
  <2>1. ASSUME NEW n \in expand[c] \ {"."}, MoveEntry(c, n)
        PROVE  target'.type # "none"
    BY <2>1 DEF MoveEntry, IsDir
  <2> QED  BY <1>4, <2>1 DEF Move, NoneInv
<1>5. CASE \/ Unlink(c) \/ ClearDir(c) \/ FetchRemoves(c) \/ FetchCreates(c)
           \/ DeleteEntry(c)
  <2>1. target' \in {target, NoEntry, File(c)}
    BY <1>5 DEF Unlink, ClearDir, FetchRemoves, FetchCreates, DeleteEntry
  <2> QED  BY <2>1, EntryForms DEF NoneInv
<1> QED  BY <1>1, <1>2, <1>3, <1>4, <1>5, StepChanges DEF NoneInv

\* Nobody else is under way, and who begins or is refused changes nothing.
LEMMA AloneOthersStep ==
    ASSUME TypesInv, NEW c \in Calls, Step(c), NEW v \in Calls \ {c}, AloneInv(v)
    PROVE  AloneInv(v)'
<1> SUFFICES ASSUME pc'[v] # "done", seen'[v] = {}
             PROVE  /\ HomeReady(v)' /\ PieceReady(v)' /\ PathReady(v)'
                    /\ ExportReady(v)' /\ EntriesReady(v)'
  BY DEF AloneInv, Alone
<1> USE DEF histVars, restVars, ctlVars, diskVars, openVars, readVars
<1>0. /\ op' = op /\ pc'[v] = pc[v] /\ temp'[v] = temp[v]
      /\ fd'[v] = fd[v] /\ off'[v] = off[v] /\ todo'[v] = todo[v]
      /\ size'[v] = size[v] /\ digest'[v] = digest[v] /\ out'[v] = out[v]
      /\ found'[v] = found[v] /\ seen[v] = {}
  BY ControlFrame, ReadStep, SeenGrows
<1>1. HomeReady(v) /\ PieceReady(v) /\ PathReady(v) /\ ExportReady(v) /\ EntriesReady(v)
  BY <1>0 DEF AloneInv, Alone
<1>2. CASE pc[v] = "idle"
  BY <1>0, <1>1, <1>2 DEF HomeReady, PieceReady, PathReady, ExportReady, EntriesReady,
     Owned, Staged, Expanded, Open, Reading
<1>3. CASE Active(v)
  <2>1. ~Active(c)
    BY <1>0, <1>3 DEF TypesInv, Met
  <2>2. pc[c] = "idle" /\ ~Drop(c) /\ ~DiskFails(c)
    BY <2>1, ControlFrame DEF Active, Drop, DiskFails, Faulty
  <2>3. Start(c)
    BY <2>2, StepAt
  <2>4. UNCHANGED <<home, target, data, staging, expand>>
    BY <2>3 DEF Start
  <2>5. HomeReady(v)' /\ PieceReady(v)' /\ PathReady(v)'
    BY <1>0, <1>1, <2>4 DEF HomeReady, PieceReady, PathReady
  <2>6. ExportReady(v)' /\ EntriesReady(v)'
    BY <1>0, <1>1, <2>4 DEF ExportReady, EntriesReady, Prefixed, Packed, IsDir,
       Source, Entries
  <2> QED  BY <2>5, <2>6
<1> QED  BY <1>0, <1>2, <1>3 DEF Active

\* What is known of a step after which its call goes on.
LEMMA GoesOn ==
    ASSUME TypesInv, NEW c \in Calls, Step(c), pc'[c] # "done"
    PROVE  /\ \A r \in {"ok", "failed", "dropped"} : ~End(c, r)
           /\ \A p : Goto(c, p) => /\ pc'[c] = p
                                   /\ pc' = [pc EXCEPT ![c] = p]
                                   /\ UNCHANGED <<result, temp>>
           /\ ~DiskFails(c)
           /\ Drop(c) => UNCHANGED <<diskVars, ctlVars, openVars, readVars, op>>
<1> USE DEF histVars, restVars, ctlVars, diskVars, openVars, readVars
<1>0. ControlTypes
  BY DEF TypesInv
<1>1. \A r \in {"ok", "failed", "dropped"} : ~End(c, r)
  BY <1>0, EndIs
<1>2. \A p : Goto(c, p) => pc' = [pc EXCEPT ![c] = p] /\ UNCHANGED <<result, temp>>
  BY <1>1 DEF Goto
<1>3. \A p : Goto(c, p) => pc'[c] = p
  BY <1>0, <1>2 DEF ControlTypes
<1> QED  BY <1>1, <1>2, <1>3 DEF DiskFails, Drop

\* A call that is alone still has its home, ...
LEMMA HomeReadyStep ==
    ASSUME TypesInv, NEW c \in Calls, Step(c), HomeReady(c), pc'[c] # "done"
    PROVE  HomeReady(c)'
<1> USE DEF histVars, restVars, ctlVars, diskVars, openVars, readVars
<1>1. CASE Drop(c)
  BY <1>1, GoesOn DEF HomeReady
<1>2. CASE ~Drop(c) /\ pc'[c] = "owning"
  <2>1. pc[c] \in {"ensuring", "owning"}
    BY <1>2, StepMoves DEF Follows
  <2>2. EnsureHome(c) \/ Own(c)
    BY <1>2, <2>1, StepAt, GoesOn
  <2>3. home' # "absent"
    BY <2>2, GoesOn DEF EnsureHome, Own, CreateHome
  <2> QED  BY <1>2, <2>3 DEF HomeReady, Owned
<1>3. CASE ~Drop(c) /\ pc'[c] \in Owned
  <2>1. pc[c] \in Owned \/ pc[c] = "owning"
    BY <1>3, StepMoves DEF Follows, Owned
  <2>2. CASE pc[c] = "owning"
    <3>1. Own(c)
      BY <1>3, <2>2, StepAt, GoesOn
    <3>2. home' = "agent"
      BY <3>1, GoesOn DEF Own
    <3> QED  BY <1>3, <3>2 DEF HomeReady, Owned
  <2>3. CASE pc[c] \in Owned
    <3>1. home = "agent"
      BY <2>3 DEF HomeReady
    <3>2. ~EnsureHome(c) /\ ~Own(c) /\ ~DeleteHome(c)
      BY <2>3 DEF EnsureHome, Own, DeleteHome, Owned
    <3>3. home' = "agent"
      BY <3>1, <3>2, StepChanges DEF CreateParent, MakeExpand, MakeDir, CreateHome
    <3> QED  BY <1>3, <3>3 DEF HomeReady, Owned
  <2> QED  BY <2>1, <2>2, <2>3
<1> QED  BY <1>1, <1>2, <1>3 DEF HomeReady

\* ... what it is to put at the path, ...
LEMMA PieceReadyStep ==
    ASSUME TypesInv, NEW c \in Calls, Step(c), PieceReady(c), pc'[c] # "done"
    PROVE  PieceReady(c)'
<1> USE DEF histVars, restVars, ctlVars, diskVars, openVars, readVars
<1> DEFINE Busy == Staged \union Expanded \union {"expanding", "unpacking", "moving"}
<1>0. /\ op' = op /\ Fits(op[c], pc[c]) /\ ControlTypes
      /\ staging \in [Calls -> BOOLEAN] /\ expand \in [Calls -> SUBSET Unpacked]
      /\ "." \in Unpacked
      /\ \A p : Goto(c, p) => pc'[c] = p
      /\ \A r \in {"ok", "failed", "dropped"} : ~End(c, r)
  BY ControlFrame, Fitting, GoesOn DEF TypesInv, DiskTypes, Unpacked
<1>1. CASE Drop(c)
  BY <1>1, GoesOn DEF PieceReady
<1>2. CASE pc'[c] \notin Busy
  BY <1>2 DEF PieceReady, Staged, Expanded
<1>3. CASE ~Drop(c) /\ pc'[c] \in Busy
  <2>1. pc[c] \in Busy \union {"staging"}
    BY <1>3, StepMoves DEF Follows, Staged, Expanded
  <2>2. CASE Stage(c)
    <3>1. staging'[c] /\ pc'[c] = "receiving"
      BY <1>0, <2>2 DEF Stage
    <3> QED  BY <3>1 DEF PieceReady, Expanded
  <2>3. CASE Received(c)
    <3>1. /\ staging' = staging /\ pc[c] = "receiving" /\ pc'[c] = "reparenting"
      BY <1>0, <2>3 DEF Received
    <3> QED  BY <1>0, <3>1 DEF PieceReady, Staged, Expanded
  <2>4. CASE CreateParent(c) /\ pc[c] = "reparenting"
    <3>1. /\ staging' = staging
          /\ \/ op[c] = "raw" /\ pc'[c] = "checking"
             \/ op[c] \in Archives /\ pc'[c] = "expanding"
      BY <1>0, <2>4, ParentGoes DEF CreateParent
    <3> QED  BY <1>0, <2>4, <3>1 DEF PieceReady, Staged, Expanded, Archives
  <2>5. CASE MakeExpand(c)
    <3>1. /\ staging' = staging /\ pc[c] = "expanding" /\ pc'[c] = "unpacking"
          /\ expand'[c] = {"."}
      BY <1>0, <2>5 DEF MakeExpand
    <3> QED  BY <1>0, <3>1 DEF PieceReady, Staged, Expanded
  <2>6. CASE Unpack(c)
    <3>1. /\ pc[c] = "unpacking" /\ pc'[c] = "checking" /\ expand'[c] = Unpacked
      BY <1>0, <2>6 DEF Unpack
    <3>2. op[c] \in Archives
      BY <1>0, <3>1 DEF Fits
    <3> QED  BY <1>0, <3>1, <3>2 DEF PieceReady, Archives
  <2>7. CASE \/ Check(c) \/ Unlink(c) \/ OpenDir(c) \/ ClearEntry(c) \/ ClearDir(c)
    <3>1. /\ staging' = staging /\ expand' = expand
          /\ pc[c] \in {"checking", "unlinking", "opening", "clearing"}
      BY <2>7 DEF Check, Unlink, OpenDir, ClearEntry, ClearDir
    <3>2. \/ pc'[c] \in {"unlinking", "opening", "clearing"}
          \/ pc'[c] = "renaming" /\ op[c] # "flat"
          \/ pc'[c] = "making" /\ op[c] = "flat"
      <4>1. pc'[c] \in {"unlinking", "opening", "clearing", Placing(c)}
        BY <1>0, <2>7, CheckGoes
           DEF Check, Unlink, OpenDir, ClearEntry, ClearDir, TypesInv
      <4> QED  BY <4>1 DEF Placing
    <3> QED  BY <1>0, <3>1, <3>2 DEF PieceReady, Staged, Expanded, Archives
  <2>8. CASE Rename(c)
    <3>1. pc'[c] = "sweeping"
      BY <1>0, <2>8 DEF Rename, RenameFile, RenameDir
    <3> QED  BY <3>1 DEF PieceReady, Staged, Expanded
  <2>9. CASE MakeDir(c)
    <3>1. /\ pc[c] = "making" /\ pc'[c] = "moving" /\ expand' = expand
      BY <1>0, <2>9 DEF MakeDir
    <3> QED  BY <1>0, <3>1 DEF PieceReady, Staged, Expanded
  <2>10. CASE Move(c) /\ pc'[c] = "moving"
    <3>1. /\ pc[c] = "moving"
          /\ \E n \in expand[c] \ {"."} : expand' = [expand EXCEPT ![c] = @ \ {n}]
      BY <1>0, <2>10 DEF Move, MoveEntry
    <3>2. op[c] \in Archives
      BY <1>0, <3>1 DEF Fits, Archives
    <3>3. "." \in expand[c]
      BY <3>1, <3>2 DEF PieceReady
    <3>4. "." \in expand'[c]
      BY <1>0, <3>1, <3>3
    <3> QED  BY <2>10, <3>4 DEF PieceReady, Staged, Expanded
  <2>11. CASE pc[c] = "receiving" /\ ReceiveFails(c)
    BY <1>0, <2>11 DEF ReceiveFails
  <2>12. ~DiskFails(c)
    BY GoesOn
  <2>13. pc[c] = "moving" => pc'[c] = "moving"
    BY <1>3, StepMoves DEF Follows, Staged, Expanded
  <2> QED  BY <1>3, <2>1, <2>2, <2>3, <2>4, <2>5, <2>6, <2>7, <2>8, <2>9,
              <2>10, <2>11, <2>12, <2>13, StepAt DEF Staged, Expanded
<1> QED  BY <1>1, <1>2, <1>3

\* ... what it found or put there, ...
LEMMA PathReadyStep ==
    ASSUME TypesInv, NEW c \in Calls, Step(c), PieceReady(c), PathReady(c),
           pc'[c] # "done"
    PROVE  PathReady(c)'
<1> USE DEF histVars, restVars, ctlVars, diskVars, openVars, readVars
<1> DEFINE Late == {"unlinking", "opening", "clearing", "renaming", "making",
                    "moving", "sweeping", "writing", "permitting"}
<1>0. /\ op' = op /\ Fits(op[c], pc[c]) /\ ControlTypes
      /\ expand \in [Calls -> SUBSET Unpacked]
      /\ fd \in [Calls -> Owners] /\ todo \in [Calls -> SUBSET (Names \union Paths)]
      /\ target \in EntryTypes
      /\ \A p : Goto(c, p) => pc'[c] = p
      /\ \A r \in {"ok", "failed", "dropped"} : ~End(c, r)
  BY ControlFrame, Fitting, GoesOn DEF TypesInv, DiskTypes, ReadTypes, EntryTypes
<1>1. CASE Drop(c)
  BY <1>1, GoesOn DEF PathReady
<1>2. CASE pc'[c] \notin Late
  BY <1>2 DEF PathReady, Open
<1>3. CASE ~Drop(c) /\ pc'[c] \in Late
  <2>1. pc[c] \in (Late \ {"sweeping", "permitting"}) \union {"checking", "creating"}
    <3>1. pc[c] \notin {"sweeping", "permitting"}
      BY <1>0, <1>3, StepAt, GoesOn DEF Sweep, Permit
    <3> QED  BY <1>3, <3>1, StepMoves DEF Follows
  <2>2. CASE Check(c)
    <3>1. target' = target
      BY <2>2 DEF Check
    <3>2. \/ target.type = "none" /\ pc'[c] \in {"renaming", "making"}
          \/ target.type = "file" /\ pc'[c] = "unlinking"
          \/ target.type = "dir" /\ pc'[c] = "opening"
      BY <1>0, <2>2, CheckGoes DEF Placing, TypesInv
    <3> QED  BY <3>1, <3>2 DEF PathReady, Open
  <2>3. CASE Unlink(c) \/ (ClearDir(c) /\ todo[c] = {})
    <3>1. target' = NoEntry /\ pc'[c] \in {"renaming", "making"}
      BY <1>0, <2>3 DEF Unlink, ClearDir, Placing
    <3> QED  BY <3>1, EntryForms DEF PathReady, Open
  <2>4. CASE OpenDir(c)
    <3>1. /\ target' = target /\ target.type = "dir" /\ pc'[c] = "clearing"
          /\ fd'[c] = target.ino /\ todo'[c] = {e[1] : e \in target.entries}
      BY <1>0, <2>4 DEF OpenDir, IsDir
    <3> QED  BY <3>1 DEF PathReady, Open
  <2>5. CASE ClearEntry(c)
    <3>1. /\ pc[c] = "clearing" /\ pc'[c] = "clearing" /\ fd' = fd
      BY <2>5 DEF ClearEntry
    <3>2. target.type = "dir" /\ fd[c] = target.ino
          /\ \A e \in target.entries : e[1] \in todo[c]
      BY <3>1 DEF PathReady
    <3>3. PICK n \in todo[c] :
             /\ todo'[c] = todo[c] \ {n}
             /\ target' = [target EXCEPT !.entries = {e \in @ : e[1] # n}]
      BY <1>0, <2>5, <3>2 DEF ClearEntry, IsDir
    <3>4. /\ target'.type = "dir" /\ target'.ino = target.ino
          /\ target'.entries = {e \in target.entries : e[1] # n}
      BY <1>0, <3>2, <3>3 DEF EntryTypes
    <3> QED  BY <3>1, <3>2, <3>3, <3>4 DEF PathReady, Open
  <2>6. CASE Rename(c)
    <3>1. target' = Dir(c, Names \X {c}) /\ pc'[c] = "sweeping"
      BY <1>0, <2>6 DEF Rename, RenameFile, RenameDir
    <3> QED  BY <3>1 DEF PathReady, Open
  <2>7. CASE MakeDir(c)
    <3>1. /\ target' = Dir(c, {}) /\ pc'[c] = "moving" /\ expand' = expand
      BY <1>0, <2>7 DEF MakeDir, PathReady, IsDir
    <3>2. expand[c] = Unpacked
      BY <1>0, <2>7 DEF MakeDir, PieceReady, Fits, Archives, Expanded
    <3>3. {n \in Names : n \notin expand[c]} \X {c} = {}
      BY <3>2 DEF Unpacked
    <3> QED  BY <3>1, <3>3 DEF PathReady, Open
  <2>8. CASE Move(c)
    <3>1. pc[c] = "moving"
      BY <2>8 DEF Move
    <3>2. /\ target = Dir(c, {n \in Names : n \notin expand[c]} \X {c})
          /\ "." \in expand[c] /\ IsDir
      BY <1>0, <3>1, EntryForms DEF PathReady, PieceReady, Fits, Archives, IsDir
    <3>3. ASSUME NEW n \in expand[c] \ {"."}, MoveEntry(c, n), pc' = pc
          PROVE  PathReady(c)'
      <4>1. n \in Names
        BY <1>0 DEF Unpacked
      <4> DEFINE es == {m \in Names : m \notin expand[c]} \X {c}
                 fs == {m \in Names : m \notin expand'[c]} \X {c}
      <4>2. expand'[c] = expand[c] \ {n}
        BY <1>0, <3>3 DEF MoveEntry
      <4>3. {e \in es : e[1] # n} \union {<<n, c>>} = fs
        BY <4>1, <4>2
      <4>4. target = Dir(c, es)
        BY <3>2
      <4>5. target' = [target EXCEPT !.entries =
                          {e \in @ : e[1] # n} \union {<<n, c>>}]
        BY <3>3 DEF MoveEntry
      <4> HIDE DEF es, fs
      <4>6. target' = Dir(c, fs)
        BY <4>3, <4>4, <4>5 DEF Dir
      <4>7. pc'[c] = "moving"
        BY <3>1, <3>3
      <4> QED  BY <4>6, <4>7 DEF PathReady, Open, fs
    <3>4. CASE expand[c] = {"."} /\ Goto(c, "sweeping") /\ UNCHANGED <<target, expand>>
      <4>1. {n \in Names : n \notin expand[c]} = Names
        BY <3>4, WorkspaceAssumption
      <4>2. target' = Dir(c, Names \X {c}) /\ pc'[c] = "sweeping"
        BY <1>0, <3>2, <3>4, <4>1
      <4> QED  BY <4>2 DEF PathReady, Open
    <3> QED  BY <1>0, <2>8, <3>2, <3>3, <3>4 DEF Move
  <2>9. CASE FetchCreates(c)
    <3>1. /\ target'.type = "file" /\ fd'[c] = target'.ino /\ pc'[c] = "writing"
      BY <1>0, <2>9, EntryForms DEF FetchCreates
    <3> QED  BY <3>1 DEF PathReady
  <2>10. CASE FetchChunk(c) \/ FetchEnds(c)
    <3>1. /\ target' = target /\ fd' = fd /\ pc[c] = "writing"
          /\ pc'[c] \in {"writing", "permitting"}
      BY <1>0, <2>10 DEF FetchChunk, Write, FetchEnds
    <3> QED  BY <3>1 DEF PathReady, Open
  <2>11. ~DiskFails(c) /\ ~FetchFails(c)
    BY <1>0, GoesOn DEF FetchFails
  <2>12. ClearDir(c) => todo[c] = {}
    BY DEF ClearDir
  <2> QED  BY <1>3, <2>1, <2>2, <2>3, <2>4, <2>5, <2>6, <2>7, <2>8, <2>9,
              <2>10, <2>11, <2>12, StepAt
<1> QED  BY <1>1, <1>2, <1>3

\* ... what it has read of its source, ...
LEMMA ExportReadyStep ==
    ASSUME TypesInv, NEW c \in Calls, Step(c), ExportReady(c), pc'[c] # "done"
    PROVE  ExportReady(c)'
<1> USE DEF histVars, restVars, ctlVars, diskVars, openVars, readVars
<1> DEFINE Busy == {"looking", "packing", "adding"} \union Reading
<1>0. /\ op' = op /\ Fits(op[c], pc[c]) /\ ControlTypes
      /\ fd \in [Calls -> Owners] /\ off \in [Calls -> Nat] /\ c \in Owners
      /\ size \in [Calls -> Nat] /\ temp \in [Calls -> {"none", "present", "removed"}]
      /\ digest \in [Calls -> Seq(Contents)] /\ out \in [Calls -> Seq(Contents)]
      /\ data \in [Owners -> Seq(Contents)] /\ Source(c) \in Owners
      /\ data[Source(c)] \in Seq(Contents) /\ Len(data[Source(c)]) \in Nat
      /\ todo \in [Calls -> SUBSET (Names \union Paths)]
      /\ found \in [Calls -> SUBSET Found]
      /\ \A p : Goto(c, p) => pc'[c] = p /\ temp' = temp
      /\ \A r \in {"ok", "failed", "dropped"} : ~End(c, r)
  <2>1. /\ fd \in [Calls -> Owners] /\ off \in [Calls -> Nat] /\ c \in Owners
        /\ size \in [Calls -> Nat] /\ temp \in [Calls -> {"none", "present", "removed"}]
        /\ digest \in [Calls -> Seq(Contents)] /\ out \in [Calls -> Seq(Contents)]
        /\ data \in [Owners -> Seq(Contents)] /\ Source(c) \in Owners
    BY DEF TypesInv, DiskTypes, ControlTypes, ReadTypes, Owners, Source
  <2>2. data[Source(c)] \in Seq(Contents) /\ Len(data[Source(c)]) \in Nat
    BY <2>1, LenProperties
  <2>3. /\ todo \in [Calls -> SUBSET (Names \union Paths)]
        /\ found \in [Calls -> SUBSET Found]
    BY DEF TypesInv, ReadTypes
  <2> QED  BY <2>1, <2>2, <2>3, ControlFrame, Fitting, GoesOn DEF TypesInv
<1>1. CASE Drop(c)
  BY <1>1, GoesOn DEF ExportReady, Prefixed, Packed, IsDir, Source
<1>2. CASE pc'[c] \notin Busy
  <2>1. pc'[c] # "idle"
    BY StartStep
  <2> QED  BY <1>2, <2>1 DEF ExportReady, Reading
<1>3. CASE ~Drop(c) /\ pc'[c] \in Busy
  <2>1. pc[c] \in Busy \union {"idle"}
    BY <1>3, StepMoves DEF Follows, Reading
  <2>2. op[c] \in Exports /\ ~DiskFails(c)
    <3>1. CASE pc[c] = "idle"
      <4>1. Start(c) /\ pc'[c] = First(c)
        BY <1>0, <1>3, <3>1, StepAt, GoesOn DEF Start
      <4> QED  BY <1>0, <1>3, <4>1, GoesOn, Fitting, WorkspaceAssumption
               DEF First, Reading
    <3> QED  BY <1>0, <2>1, <3>1, GoesOn DEF Fits, Reading, Exports
  <2>3. CASE Start(c) /\ pc[c] = "idle"
    <3>1. pc'[c] = "looking" /\ digest' = digest /\ out' = out /\ found' = found
      BY <1>0, <2>2, <2>3 DEF Start, First, Writers, Imports, Archives, Exports
    <3>2. digest[c] = <<>> /\ out[c] = <<>> /\ found[c] = {}
      BY <2>3 DEF ExportReady
    <3> QED  BY <3>1, <3>2 DEF ExportReady, Reading
  <2>4. CASE Look(c)
    <3>1. /\ pc[c] = "looking" /\ target' = target /\ digest' = digest /\ out' = out
          /\ found' = found
          /\ \/ op[c] = "export" /\ target.type = "file" /\ pc'[c] = "sizing"
             \/ /\ op[c] = "pack" /\ pc'[c] = "packing" /\ temp'[c] = "present"
                /\ IsDir
      BY <1>0, <2>4 DEF Look, ControlTypes
    <3>2. digest[c] = <<>> /\ out[c] = <<>> /\ found[c] = {}
      BY <3>1 DEF ExportReady
    <3> QED  BY <1>0, <3>1, <3>2 DEF ExportReady, Reading, IsDir
  <2>5. CASE Pack(c)
    <3>0. /\ pc[c] \in {"packing", "adding"} /\ op[c] = "pack" /\ temp' = temp
          /\ target' = target /\ digest' = digest /\ out' = out
          /\ digest[c] = <<>> /\ out[c] = <<>> /\ temp[c] = "present" /\ IsDir
      BY <1>0, <2>5 DEF Pack, PackOpens, PackAdds, PackEnds, Fits, ExportReady
    <3>1. CASE PackOpens(c)
      <4>1. /\ pc'[c] = "adding" /\ found' = found /\ found[c] = {}
            /\ todo'[c] = {e[1] : e \in target.entries}
        BY <1>0, <3>1 DEF PackOpens, ExportReady
      <4> QED  BY <3>0, <4>1 DEF ExportReady, Reading, IsDir
    <3>2. CASE PackAdds(c)
      <4>0. pc[c] = "adding" /\ pc'[c] = "adding"
        BY <1>0, <3>2 DEF PackAdds
      <4>1. PICK n \in todo[c], e \in target.entries :
               /\ e[1] = n /\ found'[c] = found[c] \union {e}
               /\ todo'[c] = todo[c] \ {n}
        BY <1>0, <3>2 DEF PackAdds
      <4>2. \A f \in target.entries : f[1] = n => f = e
        BY <4>1 DEF TypesInv, DiskTypes, EntrySets
      <4>3. /\ \A m \in todo[c] : \E f \in target.entries : f[1] = m
            /\ found[c] = {f \in target.entries : f[1] \notin todo[c]}
        BY <4>0 DEF ExportReady
      <4>4. found'[c] = {f \in target.entries : f[1] \notin todo'[c]}
        BY <4>1, <4>2, <4>3
      <4> QED  BY <3>0, <4>0, <4>1, <4>3, <4>4 DEF ExportReady, Reading, IsDir
    <3>3. CASE PackEnds(c)
      <4>1. /\ pc[c] = "adding" /\ pc'[c] = "sizing" /\ todo[c] = {}
            /\ \/ data'[c] = <<found[c]>>
               \/ c \in MayFault /\ data'[c] = <<>>
        BY <1>0, <3>3 DEF PackEnds
      <4>2. found[c] = target.entries
        BY <4>1 DEF ExportReady
      <4> QED  BY <1>0, <3>0, <4>1, <4>2 DEF ExportReady, Reading, Packed, IsDir
    <3> QED  BY <2>5, <3>1, <3>2, <3>3 DEF Pack
  <2>6. CASE pc[c] \in Reading
    <3>1. /\ target' = target /\ data' = data /\ Source(c)' = Source(c)
          /\ op'[c] = "export" => target'.type = "file"
          /\ op'[c] = "pack" => Packed(c)' /\ temp[c] = "present"
      <4>1. UNCHANGED diskVars
        BY <1>0, <2>2, <2>6, GoesOn, StepAt
           DEF Size, HashOpens, Hash, StreamOpens, Stream, OpenSource, Drop, Reading
      <4> QED  BY <1>0, <2>6, <4>1 DEF ExportReady, Source, Packed
    <3>2. temp' = temp
      BY <1>0, <2>6, GoesOn, StepAt
         DEF Size, HashOpens, Hash, StreamOpens, Stream, OpenSource, ReadOn, Reading
    <3> DEFINE s == data[Source(c)]
    <3>3. CASE pc[c] = "sizing"
      <4>1. Size(c) /\ digest[c] = <<>> /\ out[c] = <<>>
        BY <1>3, <2>2, <3>3, StepAt DEF ExportReady
      <4>2. /\ pc'[c] = "hashing" /\ size'[c] = Len(s)
            /\ digest' = digest /\ out' = out
        BY <1>0, <4>1 DEF Size
      <4> QED  BY <3>1, <3>2, <4>1, <4>2 DEF ExportReady, Reading
    <3>4. CASE pc[c] = "hashing"
      <4>1. /\ HashOpens(c) /\ digest[c] = <<>> /\ out[c] = <<>> /\ size[c] = Len(s)
        BY <1>3, <2>2, <3>4, StepAt DEF ExportReady, Reading
      <4>2. /\ pc'[c] = "digesting" /\ fd'[c] = Source(c) /\ off'[c] = 0
            /\ UNCHANGED <<size, digest, out>>
        BY <1>0, <4>1 DEF HashOpens, OpenSource
      <4>3. SubSeq(s, 1, 0) = <<>>
        BY <1>0, ReadsOn
      <4>4. Prefixed(c, digest)'
        BY <1>0, <3>1, <4>1, <4>2, <4>3 DEF Prefixed
      <4> QED  BY <3>1, <3>2, <4>1, <4>2, <4>4 DEF ExportReady, Reading
    <3>5. CASE pc[c] = "digesting"
      <4>1. Hash(c) /\ Prefixed(c, digest) /\ out[c] = <<>> /\ size[c] = Len(s)
        BY <1>3, <2>2, <3>5, StepAt DEF ExportReady, Reading
      <4>2. UNCHANGED <<fd, size, out>>
        BY <4>1 DEF Hash
      <4>3. CASE ReadOn(c, digest) /\ Goto(c, "digesting")
        <5>1. /\ off[c] < Len(s) /\ off'[c] = off[c] + 1 /\ pc'[c] = "digesting"
              /\ digest'[c] = Append(digest[c], s[off[c] + 1])
          BY <1>0, <4>1, <4>3 DEF ReadOn, AtEnd, Prefixed
        <5>2. digest'[c] = SubSeq(s, 1, off[c] + 1)
          <6>1. /\ s \in Seq(Contents) /\ off[c] \in Nat /\ off[c] < Len(s)
                /\ digest[c] = SubSeq(s, 1, off[c])
                /\ digest'[c] = Append(digest[c], s[off[c] + 1])
            BY <1>0, <4>1, <5>1 DEF Prefixed
          <6> HIDE DEF s
          <6> QED  BY <6>1, ReadsOn
        <5>3. off'[c] <= Len(s)
          BY <1>0, <5>1
        <5>4. Prefixed(c, digest)'
          BY <3>1, <4>1, <4>2, <5>1, <5>2, <5>3 DEF Prefixed
        <5> QED  BY <3>1, <3>2, <4>1, <4>2, <5>1, <5>4 DEF ExportReady, Reading
      <4>4. CASE AtEnd(c) /\ Goto(c, "offering") /\ UNCHANGED <<off, digest>>
        <5>1. off[c] = Len(s) /\ pc'[c] = "offering"
          BY <1>0, <4>1, <4>4 DEF AtEnd, Prefixed
        <5>2. digest'[c] = s
          BY <1>0, <4>1, <4>4, <5>1, ReadsOn DEF Prefixed
        <5> QED  BY <3>1, <3>2, <4>1, <4>2, <5>1, <5>2 DEF ExportReady, Reading
      <4> QED  BY <4>1, <4>3, <4>4 DEF Hash
    <3>6. CASE pc[c] = "offering"
      <4>1. StreamOpens(c) /\ digest[c] = s /\ out[c] = <<>> /\ size[c] = Len(s)
        BY <1>3, <2>2, <3>6, StepAt DEF ExportReady, Reading
      <4>2. /\ pc'[c] = "streaming" /\ fd'[c] = Source(c) /\ off'[c] = 0
            /\ UNCHANGED <<size, digest, out>>
        BY <1>0, <4>1 DEF StreamOpens, OpenSource
      <4>3. SubSeq(s, 1, 0) = <<>>
        BY <1>0, ReadsOn
      <4>4. Prefixed(c, out)'
        BY <1>0, <3>1, <4>1, <4>2, <4>3 DEF Prefixed
      <4> QED  BY <3>1, <3>2, <4>1, <4>2, <4>4 DEF ExportReady, Reading
    <3>7. CASE pc[c] = "streaming"
      <4>1. Stream(c) /\ Prefixed(c, out) /\ digest[c] = s /\ size[c] = Len(s)
        BY <1>3, <2>2, <3>7, StepAt DEF ExportReady, Reading
      <4>2. /\ UNCHANGED <<fd, size, digest>> /\ off[c] < Len(s)
            /\ off'[c] = off[c] + 1 /\ pc'[c] = "streaming"
            /\ out'[c] = Append(out[c], s[off[c] + 1])
        BY <1>0, <4>1 DEF Stream, ReadOn, AtEnd, Prefixed
      <4>3. out'[c] = SubSeq(s, 1, off[c] + 1)
        BY <1>0, <4>1, <4>2, ReadsOn DEF Prefixed
      <4>4. off'[c] <= Len(s)
        BY <1>0, <4>2
      <4>5. Prefixed(c, out)'
        BY <3>1, <4>1, <4>2, <4>3, <4>4 DEF Prefixed
      <4> QED  BY <3>1, <3>2, <4>1, <4>2, <4>5 DEF ExportReady, Reading
    <3> QED  BY <2>6, <3>3, <3>4, <3>5, <3>6, <3>7 DEF Reading
  <2> QED  BY <1>3, <2>1, <2>2, <2>3, <2>4, <2>5, <2>6, StepAt DEF Pack
<1> QED  BY <1>1, <1>2, <1>3

\* ... and the entries it is to list or delete.
LEMMA EntriesReadyStep ==
    ASSUME TypesInv, NEW c \in Calls, Step(c), EntriesReady(c), pc'[c] # "done"
    PROVE  EntriesReady(c)'
<1> USE DEF histVars, restVars, ctlVars, diskVars, openVars, readVars
<1>0. /\ op' = op /\ Fits(op[c], pc[c])
      /\ todo \in [Calls -> SUBSET (Names \union Paths)]
      /\ found \in [Calls -> SUBSET Found]
      /\ \A p : Goto(c, p) => pc'[c] = p
      /\ \A r \in {"ok", "failed", "dropped"} : ~End(c, r)
      /\ pc'[c] # "idle"
  BY ControlFrame, Fitting, GoesOn, StartStep DEF TypesInv, ReadTypes
<1>1. CASE Drop(c)
  BY <1>1, GoesOn DEF EntriesReady, Entries
<1>2. CASE pc'[c] \notin {"reading", "listing", "emptying"}
  BY <1>0, <1>2 DEF EntriesReady
<1>3. CASE ~Drop(c) /\ pc'[c] \in {"reading", "listing", "emptying"}
  <2>1. /\ pc[c] \in {"idle", "reading", "listing", "deleting", "emptying"}
        /\ ~DiskFails(c)
    BY <1>3, StepMoves, GoesOn DEF Follows
  <2>2. CASE Start(c)
    <3>1. found' = found /\ pc[c] = "idle" /\ pc'[c] \in {"reading"}
      <4>1. pc[c] = "idle" /\ found' = found /\ Goto(c, First(c))
        BY <1>0, <2>2 DEF Start
      <4>2. pc'[c] = First(c)
        BY <1>0, <4>1
      <4>3. First(c) \in {"ensuring", "looking", "reading", "deleting"}
        BY WorkspaceAssumption, Fitting DEF First
      <4> QED  BY <1>3, <4>1, <4>2, <4>3
    <3> QED  BY <3>1 DEF EntriesReady
  <2>3. CASE ReadDir(c) \/ Delete(c)
    <3>1. Entries' = Entries /\ todo'[c] = Entries
      BY <1>0, <2>3 DEF ReadDir, Delete, Entries
    <3>2. ReadDir(c) => pc'[c] = "listing" /\ pc[c] = "reading" /\ found' = found
      BY <1>0 DEF ReadDir
    <3>3. Delete(c) => pc'[c] = "emptying"
      BY <1>0 DEF Delete
    <3> QED  BY <2>3, <3>1, <3>2, <3>3 DEF EntriesReady
  <2>4. CASE ListEntry(c)
    <3>1. Entries' = Entries /\ pc[c] = "listing" /\ pc'[c] = "listing"
      BY <1>0, <2>4 DEF ListEntry, Entries
    <3>2. \E e \in todo[c] : todo'[c] = todo[c] \ {e} /\ found'[c] = found[c] \union {e}
      BY <1>0, <2>4 DEF ListEntry
    <3> QED  BY <3>1, <3>2 DEF EntriesReady
  <2>5. CASE DeleteEntry(c)
    <3>1. pc[c] = "emptying" /\ pc'[c] = "emptying"
      BY <2>5 DEF DeleteEntry
    <3>2. PICK e \in todo[c] :
             /\ todo'[c] = todo[c] \ {e}
             /\ target' = IF e[1] = "target" THEN NoEntry ELSE target
             /\ staging' = [d \in Calls |-> staging[d] /\ e # <<"staging", d>>]
             /\ expand' = [d \in Calls |->
                              IF e = <<"expand", d>> THEN {} ELSE expand[d]]
      BY <1>0, <2>5 DEF DeleteEntry
    <3>3. ASSUME NEW x \in Entries'
          PROVE  x \in Entries /\ x # e
      <4>1. CASE x = <<"target">>
        <5>1. target'.type # "none"
          BY <3>3, <4>1 DEF Entries
        <5>2. e[1] # "target" /\ target' = target
          BY <3>2, <5>1, EntryForms
        <5> QED  BY <4>1, <5>1, <5>2 DEF Entries
      <4>2. ASSUME NEW d \in Calls, x = <<"staging", d>>
            PROVE  x \in Entries /\ x # e
        <5>1. staging'[d]
          BY <3>3, <4>2 DEF Entries
        <5>2. staging[d] /\ e # <<"staging", d>>
          BY <3>2, <5>1, Zenon
        <5> QED  BY <4>2, <5>2 DEF Entries
      <4>3. ASSUME NEW d \in Calls, x = <<"expand", d>>
            PROVE  x \in Entries /\ x # e
        <5>1. expand'[d] # {}
          BY <3>3, <4>3 DEF Entries
        <5>2. expand[d] # {} /\ e # <<"expand", d>>
          BY <3>2, <5>1
        <5> QED  BY <4>3, <5>2 DEF Entries
      <4>4. x = <<"target">> \/ \E d \in Calls : x \in {<<"staging", d>>, <<"expand", d>>}
        BY <3>3 DEF Entries
      <4> QED  BY <4>1, <4>2, <4>3, <4>4
    <3>4. Entries \subseteq todo[c]
      BY <3>1 DEF EntriesReady
    <3> QED  BY <3>1, <3>2, <3>3, <3>4 DEF EntriesReady
  <2>6. ~ListEnds(c) /\ ~DeleteHome(c)
    BY <1>0 DEF ListEnds, DeleteHome
  <2> QED  BY <1>3, <2>1, <2>2, <2>3, <2>4, <2>5, <2>6, StepAt
<1> QED  BY <1>1, <1>2, <1>3

\* What holds of a call that is alone holds after its step.
LEMMA AloneOwnStep ==
    ASSUME TypesInv, NEW c \in Calls, Step(c), AloneInv(c)
    PROVE  AloneInv(c)'
<1> SUFFICES ASSUME pc'[c] # "done", seen'[c] = {}
             PROVE  /\ HomeReady(c)' /\ PieceReady(c)' /\ PathReady(c)'
                    /\ ExportReady(c)' /\ EntriesReady(c)'
  BY DEF AloneInv, Alone
<1>1. seen[c] = {} /\ pc[c] # "done"
  BY SeenGrows, ControlFrame
<1>2. HomeReady(c) /\ PieceReady(c) /\ PathReady(c) /\ ExportReady(c) /\ EntriesReady(c)
  BY <1>1 DEF AloneInv, Alone
<1> QED  BY <1>2, HomeReadyStep, PieceReadyStep, PathReadyStep, ExportReadyStep,
            EntriesReadyStep

\* An import that is alone finds what each of its system calls needs, so that
\* without a fault it ends only when it is complete, or dropped; and once its
\* blocking job has begun it is not even dropped.
LEMMA LoneImport ==
    ASSUME TypesInv, NEW c \in Calls, Step(c), AloneInv(c), Alone(c),
           op[c] \in Imports, pc'[c] = "done", c \notin MayFault,
           gone[c] => pc[c] \in Job(c)
    PROVE  (Rename(c) /\ RenameFile(c)) \/ Sweep(c) \/ Drop(c)
<1> USE DEF histVars, restVars, ctlVars, diskVars, openVars, readVars
<1> SUFFICES ASSUME ~(Rename(c) /\ RenameFile(c)), ~Sweep(c), ~Drop(c)
             PROVE  FALSE
  OBVIOUS
<1> DEFINE J == {"expanding", "unpacking", "checking", "unlinking", "opening",
                 "clearing", "renaming", "making", "moving", "sweeping"}
<1>0. /\ Fits(op[c], pc[c]) /\ pc[c] # "done" /\ pc[c] \in Phases /\ ControlTypes
      /\ target.type \in {"none", "file", "dir"}
      /\ target.type # "dir" => target.entries = {}
  BY Fitting, ControlFrame DEF TypesInv, DiskTypes
<1>1. HomeReady(c) /\ PieceReady(c) /\ PathReady(c)
  BY <1>0 DEF AloneInv
<1>g. gone[c] => op[c] \in Archives /\ Job(c) = J /\ pc[c] \in J
  BY <1>0 DEF Job, Packing, Fits, Imports, Archives
<1>2. \A p : p # "done" /\ (p \in J \/ ~gone[c]) => ~Goto(c, p)
  BY <1>0, <1>g DEF Goto, ControlTypes
<1>3. ~UNCHANGED ctlVars
  BY <1>0
<1>4. ~DiskFails(c)
  BY DEF DiskFails
<1>5. pc[c] \in {"idle", "ensuring", "owning", "parenting", "staging",
                 "receiving", "reparenting", "checking", "unlinking",
                 "opening", "clearing", "expanding", "unpacking", "sweeping",
                 "renaming", "making", "moving"}
  BY <1>0 DEF Fits, Phases, Imports, Archives, Exports
<1>6. pc[c] \notin {"idle", "ensuring", "owning"}
  <2>1. First(c) # "done"
    BY DEF First, Writers
  <2> QED  BY <1>0, <1>1, <1>2, <1>4, <1>g, <2>1, StepAt
           DEF Start, EnsureHome, Own, HomeReady
<1>7. pc[c] \notin {"parenting", "reparenting"}
  <2>1. ASSUME CreateParent(c)
        PROVE  FALSE
    BY <1>0, <1>2, <1>g, <2>1, ParentGoes DEF CreateParent, Phases
  <2> QED  BY <1>4, <2>1, StepAt
<1>8. pc[c] \notin {"staging", "receiving", "expanding"}
  BY <1>1, <1>2, <1>4, <1>g, StepAt
     DEF Stage, Received, ReceiveFails, MakeExpand, HomeReady, Owned
<1>9. pc[c] # "unpacking"
  <2>1. ASSUME pc[c] = "unpacking"
        PROVE  staging[c] /\ expand[c] # {}
    BY <1>0, <1>1, <2>1 DEF PieceReady, Fits
  <2> QED  BY <1>2, <1>4, <2>1, StepAt DEF Unpack
<1>10. pc[c] # "checking"
  <2>1. ASSUME Check(c)
        PROVE  FALSE
    BY <1>0, <1>2, <2>1, CheckGoes DEF Check, Placing
  <2> QED  BY <1>4, <2>1, StepAt
<1>11. pc[c] \notin {"unlinking", "opening"}
  BY <1>1, <1>2, <1>4, StepAt DEF Unlink, OpenDir, Placing, PathReady, IsDir
<1>12. pc[c] # "clearing"
  <2>1. ~ClearEntry(c)
    BY <1>0 DEF ClearEntry
  <2>2. ASSUME ClearDir(c)
        PROVE  FALSE
    <3>1. target.type = "dir" /\ target.entries = {}
      BY <1>1, <2>2 DEF ClearDir, PathReady
    <3> QED  BY <1>2, <2>2, <3>1 DEF ClearDir, Placing
  <2> QED  BY <1>4, <2>1, <2>2, StepAt
<1>13. pc[c] # "renaming"
  <2>1. ASSUME pc[c] = "renaming"
        PROVE  Renamable(c)
    BY <1>0, <1>1, <2>1 DEF Renamable, PieceReady, PathReady, IsDir, Fits,
       Archives, Staged, Expanded
  <2> QED  BY <1>2, <1>4, <2>1, StepAt DEF Rename, RenameDir
<1>14. pc[c] # "making"
  <2>1. ASSUME pc[c] = "making"
        PROVE  expand[c] # {} /\ target.type # "file"
    BY <1>0, <1>1, <2>1 DEF PieceReady, PathReady, Fits, Archives, Expanded,
       Unpacked
  <2> QED  BY <1>2, <1>4, <2>1, StepAt DEF MakeDir
<1>15. pc[c] # "moving"
  <2>1. ASSUME pc[c] = "moving"
        PROVE  expand[c] # {} /\ IsDir
    BY <1>0, <1>1, <2>1, EntryForms DEF PieceReady, PathReady, Fits, Archives,
       IsDir
  <2> QED  BY <1>2, <1>3, <1>4, <2>1, StepAt DEF Move
<1>16. pc[c] # "sweeping"
  BY <1>4, StepAt
<1> QED  BY <1>5, <1>6, <1>7, <1>8, <1>9, <1>10, <1>11, <1>12, <1>13, <1>14,
            <1>15, <1>16

\* So it does not fail, ...
LEMMA FailsByFault ==
    ASSUME TypesInv, NEW c \in Calls, Step(c), AloneInv(c), Alone(c),
           op[c] \in Imports, pc'[c] = "done", result'[c] = "failed"
    PROVE  c \in MayFault
<1> SUFFICES ASSUME c \notin MayFault
             PROVE  FALSE
  OBVIOUS
<1>0. ~gone[c] /\ ControlTypes /\ pc[c] # "done"
  BY StepEnds, ControlFrame DEF TypesInv
<1>1. (Rename(c) /\ RenameFile(c)) \/ Sweep(c) \/ Drop(c)
  BY <1>0, LoneImport
<1>2. Drop(c) => End(c, "dropped")
  BY <1>0 DEF Drop, ctlVars
<1>3. End(c, "ok") \/ End(c, "dropped")
  BY <1>1, <1>2 DEF RenameFile, Sweep
<1> QED  BY <1>0, <1>3, EndIs

\* ... and neither does the packing of a directory.
LEMMA LonePack ==
    ASSUME TypesInv, NEW c \in Calls, Step(c), AloneInv(c), Alone(c),
           pc[c] \in Packing, pc'[c] = "done", c \notin MayFault
    PROVE  result'[c] = "dropped"
<1> USE DEF histVars, restVars, ctlVars, diskVars, openVars, readVars
<1> SUFFICES ASSUME ~gone[c]
             PROVE  FALSE
  BY StepEnds
<1>0. ControlTypes /\ pc[c] # "done" /\ ExportReady(c)
  BY DEF TypesInv, Packing, AloneInv
<1>1. \A p : p # "done" => ~Goto(c, p)
  BY <1>0 DEF Goto, ControlTypes
<1>2. ~Drop(c) /\ ~DiskFails(c)
  BY <1>0 DEF Drop, DiskFails, Parked, Packing
<1>3. PackOpens(c) \/ PackAdds(c) \/ PackEnds(c)
  BY <1>2, StepAt DEF Packing
<1> QED  BY <1>0, <1>1, <1>3 DEF PackOpens, PackAdds, PackEnds, ExportReady

\* What a call that is alone has done when it ends without an error.
LEMMA PromiseKept ==
    ASSUME TypesInv, NoneInv, NEW c \in Calls, Step(c), AloneInv(c), BodyInv(c),
           Alone(c), pc'[c] = "done", result'[c] = "ok"
    PROVE  Promise(c)
<1> USE DEF histVars, restVars, ctlVars, diskVars, openVars, readVars
<1>0. /\ Fits(op[c], pc[c]) /\ pc[c] # "done" /\ ControlTypes /\ Completes(c)
      /\ staging \in [Calls -> BOOLEAN] /\ expand \in [Calls -> SUBSET Unpacked]
      /\ ~Overlapped(c)
  BY Fitting, ControlFrame, StepEnds DEF TypesInv, DiskTypes, Overlapped, Alone
<1>1. /\ HomeReady(c) /\ PathReady(c) /\ ExportReady(c) /\ EntriesReady(c)
  BY <1>0 DEF AloneInv
<1>2. Entries = {} \/ home = "absent" => Entries = {} /\ target = NoEntry
  <2>1. ASSUME Entries = {}
        PROVE  target.type = "none"
    <3>1. <<"target">> \notin Entries
      BY <2>1
    <3> QED  BY <3>1 DEF Entries
  <2>2. home = "absent" => Entries = {}
    BY DEF TypesInv, DiskTypes, Entries
  <2> QED  BY <2>1, <2>2 DEF NoneInv
<1>3. CASE Rename(c) /\ RenameFile(c)
  <2>1. /\ op[c] = "raw" /\ pc[c] = "renaming"
        /\ target' = File(c) /\ data' = data /\ home' = home
    BY <1>3 DEF Rename, RenameFile
  <2>2. data[c] = Body(c) /\ home = "agent"
    BY <1>1, <2>1 DEF BodyInv, Filled, HomeReady, Owned
  <2> QED  BY <2>1, <2>2 DEF Promise, Archives
<1>4. CASE Sweep(c)
  <2>1. /\ op[c] \in Archives /\ pc[c] = "sweeping" /\ target' = target
        /\ c \notin MayFault => ~staging'[c] /\ expand'[c] = {}
    BY <1>0, <1>4 DEF Sweep, Fits
  <2>2. target = Dir(c, Names \X {c})
    BY <1>1, <2>1 DEF PathReady
  <2> QED  BY <2>1, <2>2 DEF Promise, Archives
<1>5. CASE Permit(c)
  <2>1. op[c] = "fetch" /\ pc[c] = "permitting" /\ UNCHANGED <<target, data, home>>
    BY <1>0, <1>5 DEF Permit, Fits
  <2>2. /\ target.type = "file" /\ fd[c] = target.ino /\ home = "agent"
        /\ data[fd[c]] = SubSeq(Body(c), 1, off[c])
    BY <1>0, <1>1, <2>1 DEF PathReady, HomeReady, Owned, Open, BodyInv
  <2> QED  BY <2>1, <2>2 DEF Promise, Archives
<1>6. CASE Stream(c) /\ AtEnd(c)
  <2> DEFINE s == data[Source(c)]
  <2>1. s \in Seq(Contents) /\ Len(s) \in Nat /\ off[c] \in Nat
    BY LenProperties DEF TypesInv, DiskTypes, ReadTypes, Source, Owners
  <2>2. pc[c] = "streaming" /\ op[c] \in Exports
    BY <1>0, <1>6 DEF Stream, Fits
  <2>3. /\ size[c] = Len(s) /\ digest[c] = s
        /\ off[c] = Len(s) /\ out[c] = SubSeq(s, 1, off[c])
        /\ op[c] = "pack" => Packed(c) /\ temp[c] = "present"
    BY <1>1, <1>6, <2>1, <2>2 DEF ExportReady, Reading, Prefixed, AtEnd
  <2>4. out[c] = s
    <3> HIDE DEF s
    <3> QED  BY <2>1, <2>3, ReadsOn
  <2>5. CASE op[c] = "export"
    BY <2>3, <2>4, <2>5 DEF Promise, Archives, Source
  <2>6. CASE op[c] = "pack"
    <3>1. c \notin MayFault => temp'[c] = "removed"
      BY <2>2, <2>3, <2>6, StepEnds DEF Packing
    <3> QED  BY <2>3, <2>4, <2>6, <3>1 DEF Promise, Archives, Source, Packed
  <2> QED  BY <2>2, <2>5, <2>6 DEF Exports
<1>7. CASE (ReadDir(c) /\ home = "absent") \/ ListEnds(c)
  <2>1. op[c] = "list"
    BY <1>0, <1>7 DEF ReadDir, ListEnds, Fits
  <2>2. found[c] = Entries
    BY <1>1, <1>2, <1>7 DEF ReadDir, ListEnds, EntriesReady
  <2> QED  BY <2>1, <2>2 DEF Promise, Archives
<1>8. CASE (Delete(c) /\ home = "absent") \/ (DeleteHome(c) /\ Entries = {})
  <2>1. op[c] = "delete" /\ target' = target /\ home' = "absent"
    BY <1>0, <1>8 DEF Delete, DeleteHome, Fits
  <2>2. target = NoEntry
    BY <1>2, <1>8
  <2> QED  BY <2>1, <2>2 DEF Promise, Archives
<1> QED  BY <1>0, <1>3, <1>4, <1>5, <1>6, <1>7, <1>8 DEF Completes

\* All of that holds in every run.
LEMMA AloneKept == Spec => [](NoneInv /\ \A v \in Calls : AloneInv(v))
<1> DEFINE AInv == \A v \in Calls : AloneInv(v)
<1> USE DEF histVars, restVars, ctlVars, diskVars, openVars, readVars
<1>1. Init => NoneInv /\ AInv
  <2> SUFFICES ASSUME Init
               PROVE  NoneInv /\ AInv
    OBVIOUS
  <2>1. NoneInv
    BY EntryForms DEF Init, NoneInv
  <2>2. \A v \in Calls : /\ pc[v] = "idle" /\ found[v] = {}
                         /\ digest[v] = <<>> /\ out[v] = <<>>
    BY DEF Init
  <2>3. AInv
    BY <2>2 DEF AloneInv, HomeReady, PieceReady, PathReady, ExportReady,
       EntriesReady, Owned, Staged, Expanded, Open, Reading
  <2> QED  BY <2>1, <2>3
<1>2. TypesInv /\ NoneInv /\ AInv /\ [Next]_vars => NoneInv' /\ AInv'
  <2> SUFFICES ASSUME TypesInv, NoneInv, AInv, [Next]_vars
               PROVE  NoneInv' /\ AInv'
    OBVIOUS
  <2>1. CASE Rest \/ UNCHANGED vars
    <3>1. UNCHANGED vars
      BY <2>1 DEF Rest
    <3>2. NoneInv'
      BY <3>1 DEF vars, NoneInv
    <3>3. ASSUME NEW v \in Calls
          PROVE  AloneInv(v)'
      <4>1. AloneInv(v)
        OBVIOUS
      <4>2. HomeReady(v)' = HomeReady(v) /\ PieceReady(v)' = PieceReady(v)
            /\ PathReady(v)' = PathReady(v)
        BY <3>1 DEF vars, HomeReady, PieceReady, PathReady
      <4>3. ExportReady(v)' = ExportReady(v) /\ EntriesReady(v)' = EntriesReady(v)
        BY <3>1 DEF vars, ExportReady, EntriesReady, Prefixed, Packed, IsDir,
           Source, Entries
      <4> QED  BY <3>1, <4>1, <4>2, <4>3 DEF vars, AloneInv, Alone
    <3> QED  BY <3>2, <3>3
  <2>2. CASE Crash
    <3>1. UNCHANGED <<diskVars, temp, openVars, readVars, op, seen>>
      BY <2>2 DEF Crash
    <3>2. NoneInv'
      BY <3>1 DEF NoneInv
    <3>3. ASSUME NEW v \in Calls, pc'[v] # "done", seen'[v] = {}
          PROVE  /\ HomeReady(v)' /\ PieceReady(v)' /\ PathReady(v)'
                 /\ ExportReady(v)' /\ EntriesReady(v)'
      <4>1. pc'[v] = pc[v] /\ pc[v] = "idle"
        BY <2>2, <3>3, CrashIs DEF Active
      <4>2. HomeReady(v)' /\ PieceReady(v)' /\ PathReady(v)'
        BY <4>1 DEF HomeReady, PieceReady, PathReady, Owned, Staged, Expanded, Open
      <4>3. ExportReady(v) /\ EntriesReady(v)
        BY <3>1, <3>3, <4>1 DEF AloneInv, Alone
      <4>4. ExportReady(v)' /\ EntriesReady(v)'
        BY <3>1, <4>1, <4>3 DEF ExportReady, EntriesReady, Reading
      <4> QED  BY <4>2, <4>4
    <3>4. AInv'
      BY <3>3 DEF AloneInv, Alone
    <3> QED  BY <3>2, <3>4
  <2>3. ASSUME NEW c \in Calls, Step(c)
        PROVE  NoneInv' /\ AInv'
    <3>1. ASSUME NEW v \in Calls
          PROVE  AloneInv(v)'
      BY <2>3, AloneOwnStep, AloneOthersStep
    <3> QED  BY <2>3, <3>1, NoneStep
  <2> QED  BY <2>1, <2>2, <2>3 DEF Next, Step
<1>3. NoneInv /\ AInv => NoneInv /\ \A v \in Calls : AloneInv(v)
  OBVIOUS
<1> HIDE DEF AInv
<1> QED  BY TypesKept, <1>1, <1>2, <1>3, PTL DEF Spec

\* A call ends by a step of its own, or is killed.
LEMMA EndingStep ==
    ASSUME TypesInv, Next, NEW c \in Calls, Ends(c), result'[c] # "crashed"
    PROVE  Step(c)
<1>1. ~Crash
  BY CrashIs DEF Ends
<1>2. ~Rest
  BY DEF Rest, vars, ctlVars, Ends
<1>3. \A d \in Calls : Step(d) => d = c
  BY ControlFrame DEF Ends
<1> QED  BY <1>1, <1>2, <1>3 DEF Next, Step

\* A call that shared the workspace with no other keeps its promise, and, if
\* it is an import, fails only by a fault, whatever calls before it that
\* failed, were dropped or killed have left in the workspace.
THEOREM AloneExact == Spec => AloneIsExact
<1> DEFINE AInv == \A v \in Calls : AloneInv(v)
           BInv == \A v \in Calls : BodyInv(v)
           Exact == \A c \in Calls :
               Ends(c) /\ Alone(c) =>
                   /\ result'[c] = "ok" => Promise(c)
                   /\ op[c] \in Imports /\ result'[c] = "failed" => c \in MayFault
<1> USE DEF histVars, restVars, ctlVars, diskVars, openVars, readVars
<1>1. ASSUME TypesInv, NoneInv, AInv, BInv, Next
      PROVE  Exact
  <2> SUFFICES ASSUME NEW c \in Calls, Ends(c), Alone(c), result'[c] # "crashed"
               PROVE  /\ result'[c] = "ok" => Promise(c)
                      /\ op[c] \in Imports /\ result'[c] = "failed" => c \in MayFault
    OBVIOUS
  <2>1. Step(c) /\ pc'[c] = "done"
    BY <1>1, EndingStep DEF Ends
  <2> QED  BY <1>1, <2>1, PromiseKept, FailsByFault
<1>2. TypesInv /\ NoneInv /\ AInv /\ BInv /\ [Next]_vars => [Exact]_vars
  BY <1>1
<1>3. Spec => []BInv
  <2>1. FilesInv /\ (\A v \in Calls : BodyInv(v)) /\ TornInv => BInv
    OBVIOUS
  <2> QED  BY BodiesKept, <2>1, PTL
<1>4. Spec => [](NoneInv /\ AInv)
  BY AloneKept
<1> HIDE DEF AInv, BInv
<1> QED  BY TypesKept, <1>2, <1>3, <1>4, PTL DEF Spec, AloneIsExact

-----------------------------------------------------------------------------
(* What is left behind.                                                    *)

\* The phases of an import before it has an extraction directory.
Began == {"idle", "ensuring", "owning", "parenting", "staging", "receiving",
          "reparenting", "expanding"}

\* What a call may have made.
LeftoverInv(c) ==
    /\ staging[c] => op[c] \in Imports
    /\ expand[c] # {} => op[c] \in Archives /\ pc[c] \notin Began

\* The steps of a call keep that.
LEMMA LeftoverOwnStep ==
    ASSUME TypesInv, NEW c \in Calls, LeftoverInv(c), Step(c)
    PROVE  LeftoverInv(c)'
<1> USE DEF histVars, restVars, ctlVars, diskVars, openVars, readVars
<1>0. /\ Fits(op[c], pc[c]) /\ op[c] \in Ops /\ op'[c] = op[c] /\ pc[c] # "done"
      /\ pc'[c] # "idle"
  BY Fitting, ControlFrame, StartStep
<1>1. staging'[c] => op'[c] \in Imports
  BY <1>0, StagingStep DEF LeftoverInv, Stage, Fits
<1>2. expand'[c] # {} => op'[c] \in Archives /\ pc'[c] \notin Began
  <2>1. CASE MakeExpand(c)
    <3>1. pc'[c] \in {"unpacking", "done"} /\ op[c] \in Archives
      BY <1>0, <2>1 DEF MakeExpand, Goto, End, Fits, TypesInv, ControlTypes
    <3> QED  BY <1>0, <3>1 DEF Began
  <2>2. CASE expand[c] # {}
    <3>1. op[c] \in Archives /\ pc[c] \notin Began /\ pc[c] # "requesting"
      BY <1>0, <2>2 DEF LeftoverInv, Fits, Archives
    <3> QED  BY <1>0, <3>1, StepMoves DEF Follows, Began
  <2> QED  BY <2>1, <2>2, ExpandStep
<1> QED  BY <1>1, <1>2 DEF LeftoverInv

\* Nor does another step disturb it.
LEMMA LeftoverStep ==
    ASSUME TypesInv, [Next]_vars, NEW v \in Calls, LeftoverInv(v)
    PROVE  LeftoverInv(v)'
<1>1. CASE Rest \/ UNCHANGED vars
  BY <1>1 DEF Rest, vars, restVars, histVars, ctlVars, diskVars, LeftoverInv
<1>2. CASE Crash
  <2>1. staging' = staging /\ expand' = expand /\ op' = op
    BY <1>2, CrashIs DEF diskVars
  <2> QED  BY <1>2, <2>1, CrashIs DEF LeftoverInv, Began
<1>3. ASSUME NEW c \in Calls, Step(c)
      PROVE  LeftoverInv(v)'
  <2>1. CASE v = c
    BY <1>3, <2>1, LeftoverOwnStep
  <2>2. CASE v # c
    <3>1. /\ op'[v] = op[v] /\ pc'[v] = pc[v]
          /\ staging'[v] => staging[v]
          /\ expand'[v] \in {expand[v], {}}
      BY <1>3, <2>2, ControlFrame, StagingStep, ExpandStep
    <3> QED  BY <3>1 DEF LeftoverInv
  <2> QED  BY <2>1, <2>2
<1> QED  BY <1>1, <1>2, <1>3 DEF Next, Step

\* A step that ends a call and leaves something behind: another call came in
\* the way, or the client went away where the future was still polled.
LEMMA LeavingStep ==
    ASSUME TypesInv, NEW c \in Calls, AloneInv(c), LeftoverInv(c), Step(c),
           pc'[c] = "done", c \notin MayFault
    PROVE  LET disturbed == ~Alone(c) /\ pc[c] # "sweeping" IN
           /\ staging'[c] =>
                  disturbed \/ (result'[c] = "dropped" /\ pc[c] \notin Job(c))
           /\ expand'[c] # {} => disturbed
           /\ temp'[c] = "present" =>
                  /\ pc[c] \in Packing
                  /\ result'[c] = "dropped" \/ ~Alone(c)
<1> USE DEF histVars, restVars, ctlVars, diskVars, openVars, readVars
<1> DEFINE disturbed == ~Alone(c) /\ pc[c] # "sweeping"
<1>0. /\ Fits(op[c], pc[c]) /\ pc[c] \in Phases /\ pc[c] # "done" /\ op[c] \in Ops
      /\ staging \in [Calls -> BOOLEAN] /\ expand \in [Calls -> SUBSET Unpacked]
      /\ gone[c] => result'[c] = "dropped"
      /\ ~DiskFails(c)
  BY Fitting, ControlFrame, StepEnds DEF TypesInv, DiskTypes, DiskFails
<1>1. Drop(c) => result'[c] = "dropped" /\ pc[c] \in Parked /\ UNCHANGED diskVars
  <2>1. ControlTypes
    BY DEF TypesInv
  <2>2. Drop(c) => pc[c] \in Parked /\ End(c, "dropped")
    BY <1>0 DEF Drop
  <2> QED  BY <2>1, <2>2, EndIs DEF Drop
<1>2. Sweep(c) => ~staging'[c] /\ expand'[c] = {}
  BY <1>0 DEF Sweep
<1>3. pc[c] = "sweeping" => Sweep(c)
  BY <1>0, <1>1, StepAt DEF Parked
<1>4. ASSUME staging'[c], ~disturbed, ~(result'[c] = "dropped" /\ pc[c] \notin Job(c))
      PROVE  FALSE
  <2>1. Alone(c)
    BY <1>2, <1>3, <1>4
  <2>2. op[c] \in Imports
    BY <1>0, <1>4, StagingStep DEF LeftoverInv, Stage, Fits
  <2>3. (Rename(c) /\ RenameFile(c)) \/ Sweep(c) \/ Drop(c)
    BY <1>0, <1>4, <2>1, <2>2, LoneImport
  <2>4. ~RenameFile(c)
    BY <1>0, <1>4 DEF RenameFile
  <2>5. Drop(c) => pc[c] \notin Job(c)
    BY <1>1 DEF Parked, Job, Packing
  <2> QED  BY <1>1, <1>2, <1>4, <2>3, <2>4, <2>5
<1>5. ASSUME expand'[c] # {}, ~disturbed
      PROVE  FALSE
  <2>1. Alone(c)
    BY <1>2, <1>3, <1>5
  <2>2. op[c] \in Archives /\ pc[c] \notin Began \ {"expanding"}
    BY <1>0, <1>5, ExpandStep DEF LeftoverInv, MakeExpand, Fits, Began
  <2>3. pc[c] \in Job(c) /\ pc[c] \notin Parked /\ op[c] \in Imports /\ op[c] # "raw"
    BY <1>0, <2>2 DEF Job, Fits, Phases, Began, Parked, Imports, Archives, Exports
  <2>4. (Rename(c) /\ RenameFile(c)) \/ Sweep(c) \/ Drop(c)
    BY <2>1, <2>3, LoneImport
  <2> QED  BY <1>1, <1>2, <1>5, <2>3, <2>4 DEF RenameFile
<1>6. ASSUME temp'[c] = "present"
      PROVE  pc[c] \in Packing /\ (result'[c] = "dropped" \/ ~Alone(c))
  <2>1. pc[c] \in Packing
    BY <1>6, StepEnds
  <2> QED  BY <2>1, LonePack
<1> QED  BY <1>4, <1>5, <1>6

\* Without a fault, and unless the server is killed, a call leaves a staging
\* file only if another came in the way, or its client went away outside the
\* blocking job; an extraction directory only if another came in the way; a
\* temporary archive only if either happened while it was packed.
THEOREM LeftoversExplained == Spec => LeftoverHasCause
<1> DEFINE AInv == \A v \in Calls : AloneInv(v)
           LInv == \A v \in Calls : LeftoverInv(v)
           Explained == \A c \in Calls :
               Ends(c) /\ c \notin MayFault /\ result'[c] # "crashed" =>
                   LET disturbed == ~Alone(c) /\ pc[c] # "sweeping" IN
                   /\ staging'[c] =>
                          disturbed \/ (result'[c] = "dropped" /\ pc[c] \notin Job(c))
                   /\ expand'[c] # {} => disturbed
                   /\ temp'[c] = "present" =>
                          /\ pc[c] \in Packing
                          /\ result'[c] = "dropped" \/ ~Alone(c)
<1>1. Init => LInv
  BY DEF Init, LeftoverInv
<1>2. TypesInv /\ LInv /\ [Next]_vars => LInv'
  BY LeftoverStep
<1>3. ASSUME TypesInv, AInv, LInv, Next
      PROVE  Explained
  <2> SUFFICES ASSUME NEW c \in Calls, Ends(c), c \notin MayFault,
                      result'[c] # "crashed"
               PROVE  LET disturbed == ~Alone(c) /\ pc[c] # "sweeping" IN
                      /\ staging'[c] => \/ disturbed
                                        \/ result'[c] = "dropped" /\ pc[c] \notin Job(c)
                      /\ expand'[c] # {} => disturbed
                      /\ temp'[c] = "present" =>
                             /\ pc[c] \in Packing
                             /\ result'[c] = "dropped" \/ ~Alone(c)
    OBVIOUS
  <2>1. Step(c) /\ pc'[c] = "done"
    BY <1>3, EndingStep DEF Ends
  <2> QED  BY <1>3, <2>1, LeavingStep
<1>4. TypesInv /\ AInv /\ LInv /\ [Next]_vars => [Explained]_vars
  BY <1>3
<1>5. NoneInv /\ AInv => AInv
  OBVIOUS
<1>6. Spec => [](NoneInv /\ AInv)
  BY AloneKept
<1> HIDE DEF AInv, LInv
<1> QED  BY TypesKept, <1>1, <1>2, <1>4, <1>5, <1>6, PTL DEF Spec, LeftoverHasCause
=============================================================================
