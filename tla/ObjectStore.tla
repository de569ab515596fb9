----------------------------- MODULE ObjectStore -----------------------------
(***************************************************************************)
(* What UploadToOSS promises, without saying how: an upload puts one       *)
(* object at most, in a single step, at the key it drew, with the content  *)
(* it hashed, before its call ends; it reports success only after that,    *)
(* and neither the key nor the hash changes any more.  How the content is  *)
(* read, split into parts and sent is left open; module Upload implements  *)
(* it with requests whose replies can be refused or lost.                  *)
(***************************************************************************)
CONSTANTS
    Uploads,   \* the upload calls
    Keys,      \* the keys they can draw
    NoObject   \* where nothing has been stored

VARIABLES
    objects,   \* objects[k]: content of the object with key k
    key,       \* key[u]: the key of upload u
    digest,    \* digest[u]: what it hashed
    status     \* status[u]: nothing stored yet ("open"), "stored", or the end
               \* of the call: "ok", "failed"

storedVars == <<objects, key, digest, status>>

StoreInit ==
    /\ objects = [k \in Keys |-> NoObject]
    /\ status = [u \in Uploads |-> "open"]

\* An upload that has stored nothing may change what it is going to store.
Prepare(u) ==
    /\ status[u] = "open"
    /\ key' = [key EXCEPT ![u] = key'[u]]
    /\ digest' = [digest EXCEPT ![u] = digest'[u]]
    /\ UNCHANGED <<objects, status>>

\* The object is put: all of it, at once.
Writes(u) ==
    /\ status[u] = "open"
    /\ key[u] \in Keys
    /\ objects' = [objects EXCEPT ![key[u]] = digest[u]]

Put(u) ==
    /\ Writes(u)
    /\ status' = [status EXCEPT ![u] = "stored"]
    /\ UNCHANGED <<key, digest>>

Report(u) ==
    /\ status[u] = "stored"
    /\ status' = [status EXCEPT ![u] = "ok"]
    /\ UNCHANGED <<objects, key, digest>>

\* Uploads fail: one, or in a crash several together.  What they had stored
\* stays, and one of them may put its object with its last breath: the reply
\* is lost.
Fail(S) ==
    /\ \A u \in S : status[u] \in {"open", "stored"}
    /\ status' = [u \in Uploads |-> IF u \in S THEN "failed" ELSE status[u]]
    /\ UNCHANGED objects \/ \E u \in S : Writes(u)
    /\ UNCHANGED <<key, digest>>

StoreNext ==
    \/ \E u \in Uploads : Prepare(u) \/ Put(u) \/ Report(u)
    \/ \E S \in SUBSET Uploads : Fail(S)

StoreSpec == StoreInit /\ [][StoreNext]_storedVars
=============================================================================
