---------------------------- MODULE UploadProofs -----------------------------
(***************************************************************************)
(* Proofs about module Upload, for any finite set of calls, whichever of   *)
(* them may be dropped or meet faults, and any bounds.                     *)
(***************************************************************************)
EXTENDS Upload, SequenceInduction

\* The blocks of a payload: those of the source, and headers of archives.
Bytes == Blocks \union {Header(n) : n \in 0 .. MaxLen}

\* The types of the variables with finitely many values for each call, ...
ControlTypes ==
    /\ session \in [Uploads -> {"none", "open", "closed"}]
    /\ pc \in [Uploads -> Phases]
    /\ answer \in [Uploads -> {"none", "done", "refused"}]
    /\ mode \in [Uploads -> {"raw", "archive"}]
    /\ result \in [Uploads -> {"none", "ok", "failed", "refused",
                               "timed_out", "dropped", "crashed"}]
    /\ job \in [Uploads -> {"none", "running", "writing", "done", "failed", "lost"}]
    /\ temp \in [Uploads -> {"none", "present", "removed", "stuck"}]
    /\ key \in [Uploads -> Keys \union {NoKey}]
    /\ sweeper \in [Uploads -> BOOLEAN]
    /\ stray \in [Uploads -> BOOLEAN]

\* ... of the others, ...
DataTypes ==
    /\ file \in Seq(Bytes) /\ file \in Seq(Blocks) /\ Len(file) <= MaxLen
    /\ rewrites \in Nat /\ rewrites <= MaxRewrites
    /\ objects \in [Keys -> Seq(Bytes) \union {NoObject}]
    /\ parts \in [Uploads -> Seq(Seq(Bytes))]
    /\ archive \in [Uploads -> Seq(Bytes)]
    /\ buf \in [Uploads -> Seq(Bytes)]
    /\ digest \in [Uploads -> Seq(Bytes)]
    /\ off \in [Uploads -> Nat]
    /\ size \in [Uploads -> Nat]

\* ... and how much has been read: what is in the buffer and what has been
\* hashed make up the offset.
Lengths(u) ==
    /\ Len(archive[u]) <= MaxLen + 1
    /\ off[u] <= MaxLen + 1 /\ size[u] <= MaxLen + 1
    /\ Len(buf[u]) <= MaxLen + 1 /\ Len(digest[u]) <= MaxLen + 1
    /\ pc[u] \in {"idle", "packing", "keying", "creating"}
       => off[u] = 0 /\ buf[u] = <<>> /\ digest[u] = <<>>
    /\ pc[u] = "reading" => digest[u] = <<>> /\ Len(buf[u]) = off[u]
    /\ pc[u] = "filling" => Len(buf[u]) = off[u] - Len(digest[u])
    /\ pc[u] = "sending" => Len(digest[u]) = off[u]
    /\ job[u] = "writing" => Len(archive[u]) >= 1

TypesInv ==
    /\ ControlTypes
    /\ DataTypes
    /\ \A u \in Uploads : Lengths(u)

-----------------------------------------------------------------------------
(* Types.                                                                  *)

\* A length is a number.
LEMMA LenIs == ASSUME NEW S, NEW s \in Seq(S) PROVE \E n \in Nat : n = Len(s)
BY LenProperties

\* The source holds as many blocks as it is said to.
LEMMA ContentSeq ==
    ASSUME NEW v \in 0 .. MaxRewrites, NEW n \in 0 .. MaxLen
    PROVE  /\ Content(v, n) \in Seq(Blocks) /\ Content(v, n) \in Seq(Bytes)
           /\ Len(Content(v, n)) = n
<1>1. n \in Nat /\ v \in Nat
  OBVIOUS
<1>2. \A i \in 1 .. n : <<v, i>> \in Blocks
  BY UploadAssumption DEF Blocks
<1>3. Content(v, n) \in [1 .. n -> Blocks]
  BY <1>2 DEF Content
<1>4. Content(v, n) \in Seq(Blocks) /\ Len(Content(v, n)) = n
  BY <1>1, <1>3, SeqDef
<1> QED  BY <1>4, SeqMonotonic DEF Bytes

\* A header is a block, and stands alone.
LEMMA HeaderSeq ==
    ASSUME NEW n \in 0 .. MaxLen
    PROVE  /\ Header(n) \in Bytes
           /\ <<Header(n)>> \in Seq(Bytes) /\ Len(<<Header(n)>>) = 1
<1>1. Header(n) \in Bytes
  BY DEF Bytes
<1>2. \A S : \A h \in S : <<h>> \in Seq(S) /\ Len(<<h>>) = 1
  OBVIOUS
<1> QED  BY <1>1, <1>2

\* An archive of a source holds one block more.
LEMMA PackedSeq ==
    ASSUME NEW s \in Seq(Bytes), Len(s) <= MaxLen
    PROVE  /\ Packed(s) \in Seq(Bytes) /\ Len(Packed(s)) = Len(s) + 1
           /\ Packed(s)[1] = Header(Len(s))
           /\ \A i \in 1 .. Len(s) : Packed(s)[i + 1] = s[i]
<1>1. Len(s) \in Nat /\ Len(s) \in 0 .. MaxLen
  BY LenProperties, UploadAssumption
<1> DEFINE h == <<Header(Len(s))>>
<1>2. h \in Seq(Bytes) /\ Len(h) = 1 /\ h[1] = Header(Len(s))
  BY <1>1, HeaderSeq
<1> HIDE DEF h
<1>3. /\ h \o s \in Seq(Bytes) /\ Len(h \o s) = 1 + Len(s)
      /\ \A i \in 1 .. 1 + Len(s) : (h \o s)[i] = IF i <= 1 THEN h[i] ELSE s[i - 1]
  BY <1>2, ConcatProperties
<1>4. (h \o s)[1] = h[1]
  BY <1>1, <1>3
<1>5. ASSUME NEW i \in 1 .. Len(s)
      PROVE  (h \o s)[i + 1] = s[i]
  <2>1. i + 1 \in 1 .. 1 + Len(s) /\ ~(i + 1 <= 1) /\ (i + 1) - 1 = i
    BY <1>1
  <2> QED  BY <1>3, <2>1
<1> QED  BY <1>1, <1>2, <1>3, <1>4, <1>5 DEF Packed, h

\* What the packing job does to the archive.
LEMMA PackTypes ==
    ASSUME ControlTypes, DataTypes, NEW u \in Uploads, Lengths(u), Pack(u)
    PROVE  /\ archive' \in [Uploads -> Seq(Bytes)]
           /\ Len(archive'[u]) <= MaxLen + 1
           /\ job'[u] = "writing" => Len(archive'[u]) >= 1
<1> DEFINE n == Len(archive[u])
<1>1. /\ file \in Seq(Bytes) /\ Len(file) <= MaxLen /\ Len(file) \in Nat
      /\ archive[u] \in Seq(Bytes) /\ n \in Nat /\ MaxLen \in Nat
      /\ <<>> \in Seq(Bytes) /\ Len(<<>>) = 0
  BY LenProperties, EmptySeq, UploadAssumption DEF DataTypes
<1>2. ASSUME NEW a \in Seq(Bytes), archive' = [archive EXCEPT ![u] = a]
      PROVE  archive' \in [Uploads -> Seq(Bytes)] /\ archive'[u] = a
  BY <1>2 DEF DataTypes
<1>3. ASSUME PackOpens(u)
      PROVE  \E a \in Seq(Bytes) : /\ archive' = [archive EXCEPT ![u] = a]
                                   /\ Len(a) = 1
  <2>1. Len(file) \in 0 .. MaxLen
    BY <1>1
  <2> QED  BY <1>3, <2>1, HeaderSeq DEF PackOpens
<1>4. ASSUME PackCopies(u)
      PROVE  \E a \in Seq(Bytes) : /\ archive' = [archive EXCEPT ![u] = a]
                                   /\ Len(a) = n + 1 /\ n + 1 <= MaxLen + 1
  <2>1. n \in 1 .. Len(file)
    BY <1>1, <1>4 DEF PackCopies, Lengths
  <2>2. file[n] \in Bytes
    BY <1>1, <2>1, ElementOfSeq
  <2>3. /\ Append(archive[u], file[n]) \in Seq(Bytes)
        /\ Len(Append(archive[u], file[n])) = n + 1
    BY <1>1, <2>2, AppendProperties
  <2>4. archive' = [archive EXCEPT ![u] = Append(archive[u], file[n])]
    BY <1>4 DEF PackCopies, DataTypes
  <2>5. n + 1 <= MaxLen + 1
    BY <1>1, <2>1
  <2> QED  BY <2>3, <2>4, <2>5
<1>5. ASSUME PackEnds(u)
      PROVE  \E a \in Seq(Bytes) : /\ archive' = [archive EXCEPT ![u] = a]
                                   /\ Len(a) <= MaxLen + 1
  <2>1. PICK a \in Flushed(u) : archive' = [archive EXCEPT ![u] = a]
    BY <1>5 DEF PackEnds
  <2>2. a = archive[u] \/ \E k \in 0 .. n - 1 : a = SubSeq(archive[u], 1, k)
    BY <2>1 DEF Flushed
  <2>3. ASSUME NEW k \in 0 .. n - 1
        PROVE  /\ SubSeq(archive[u], 1, k) \in Seq(Bytes)
               /\ Len(SubSeq(archive[u], 1, k)) <= n
    <3>1. \A i \in 1 .. k : i \in DOMAIN archive[u]
      BY <1>1, LenProperties
    <3>2. /\ SubSeq(archive[u], 1, k) \in Seq(Bytes)
          /\ Len(SubSeq(archive[u], 1, k)) = IF 1 <= k THEN k - 1 + 1 ELSE 0
      BY <1>1, <3>1, SubSeqProperties
    <3> QED  BY <1>1, <3>2
  <2>4. n <= MaxLen + 1
    BY DEF Lengths
  <2>5. a \in Seq(Bytes) /\ Len(a) <= n
    BY <1>1, <2>2, <2>3
  <2>6. Len(a) \in Nat
    BY <2>5, LenProperties
  <2>7. \A i, j, k \in Nat : i <= j /\ j <= k + 1 => i <= k + 1
    OBVIOUS
  <2>8. Len(a) <= MaxLen + 1
    BY <1>1, <2>4, <2>5, <2>6, <2>7, Zenon
  <2> QED  BY <2>1, <2>5, <2>8, Zenon
<1>6. CASE PackOpens(u)
  <2>1. PICK a \in Seq(Bytes) : archive' = [archive EXCEPT ![u] = a] /\ Len(a) = 1
    BY <1>3, <1>6
  <2>2. archive' \in [Uploads -> Seq(Bytes)] /\ archive'[u] = a
    BY <1>2, <2>1
  <2>3. 1 <= MaxLen + 1 /\ 1 >= 1
    BY <1>1
  <2> QED  BY <2>1, <2>2, <2>3, Zenon
<1>7. CASE PackCopies(u)
  <2>1. PICK a \in Seq(Bytes) : /\ archive' = [archive EXCEPT ![u] = a]
                               /\ Len(a) = n + 1 /\ n + 1 <= MaxLen + 1
    BY <1>4, <1>7
  <2>2. archive' \in [Uploads -> Seq(Bytes)] /\ archive'[u] = a
    BY <1>2, <2>1
  <2> QED  BY <1>1, <2>1, <2>2
<1>8. CASE PackEnds(u)
  <2>1. job'[u] # "writing"
    BY <1>8 DEF PackEnds, ControlTypes
  <2>2. PICK a \in Seq(Bytes) : /\ archive' = [archive EXCEPT ![u] = a]
                               /\ Len(a) <= MaxLen + 1
    BY <1>5, <1>8
  <2>3. archive' \in [Uploads -> Seq(Bytes)] /\ archive'[u] = a
    BY <1>2, <2>2
  <2> QED  BY <1>1, <2>1, <2>2, <2>3
<1>9. CASE PackFails(u)
  <2>1. job'[u] # "writing" /\ archive' = [archive EXCEPT ![u] = <<>>]
    BY <1>9 DEF PackFails, ControlTypes
  <2>2. archive' \in [Uploads -> Seq(Bytes)] /\ archive'[u] = <<>>
    BY <1>1, <1>2, <2>1
  <2>3. 0 <= MaxLen + 1
    BY <1>1
  <2> QED  BY <1>1, <2>1, <2>2, <2>3, Zenon
<1> QED  BY <1>6, <1>7, <1>8, <1>9 DEF Pack

\* What is sent is one or the other.
LEMMA PayloadSeq ==
    ASSUME TypesInv, NEW u \in Uploads
    PROVE  /\ Payload(u) \in Seq(Bytes)
           /\ Len(Payload(u)) \in Nat /\ Len(Payload(u)) <= MaxLen + 1
<1>1. /\ file \in Seq(Bytes) /\ Len(file) <= MaxLen
      /\ archive[u] \in Seq(Bytes) /\ Len(archive[u]) <= MaxLen + 1
  BY DEF TypesInv, DataTypes, Lengths
<1>2. Len(file) \in Nat /\ Len(archive[u]) \in Nat /\ MaxLen \in Nat
  BY <1>1, LenProperties, UploadAssumption
<1> QED  BY <1>1, <1>2 DEF Payload

\* The parts of a multipart upload, put together, are blocks.
LEMMA FlattenType ==
    ASSUME NEW ps \in Seq(Seq(Bytes))
    PROVE  FlattenSeq(ps) \in Seq(Bytes)
<1>1. <<>> \in Seq(Bytes)
  BY EmptySeq
<1> QED  BY <1>1, FlattenAppend

\* The invariant holds at first.
LEMMA TypesInit == Init => TypesInv
<1> SUFFICES ASSUME Init
             PROVE  TypesInv
  OBVIOUS
<1>1. ControlTypes
  BY DEF Init, ControlTypes, Phases, Requests
<1>2. DataTypes
  <2>1. file \in Seq(Bytes) /\ file \in Seq(Blocks) /\ Len(file) <= MaxLen
    <3>1. PICK n \in 0 .. MaxLen : file = Content(0, n)
      BY DEF Init
    <3>2. 0 \in 0 .. MaxRewrites
      BY UploadAssumption
    <3> QED  BY <3>1, <3>2, ContentSeq, UploadAssumption
  <2>2. rewrites \in Nat /\ rewrites <= MaxRewrites
    BY UploadAssumption DEF Init
  <2>3. <<>> \in Seq(Bytes) /\ <<>> \in Seq(Seq(Bytes))
    BY EmptySeq
  <2> QED  BY <2>1, <2>2, <2>3 DEF Init, DataTypes
<1>3. ASSUME NEW u \in Uploads
      PROVE  Lengths(u)
  <2>1. Len(<<>>) = 0
    BY EmptySeq
  <2> QED  BY <2>1, UploadAssumption DEF Init, Lengths
<1> QED  BY <1>1, <1>2, <1>3 DEF TypesInv

\* What ending a call does to the control of it.
LEMMA EndTypes ==
    ASSUME ControlTypes, NEW u \in Uploads, NEW r, End(u, r),
           r \in {"ok", "failed", "refused", "timed_out", "dropped", "crashed"}
    PROVE  /\ pc' \in [Uploads -> Phases]
           /\ answer' \in [Uploads -> {"none", "done", "refused"}]
           /\ result' \in [Uploads -> {"none", "ok", "failed", "refused",
                                       "timed_out", "dropped", "crashed"}]
           /\ temp' \in [Uploads -> {"none", "present", "removed", "stuck"}]
<1>1. PICK t \in {"removed", "stuck"} :
          temp' = [temp EXCEPT ![u] =
                      IF Guarded(u, r) /\ @ = "present" THEN t ELSE @]
  BY DEF End, Removed
<1>2. temp' \in [Uploads -> {"none", "present", "removed", "stuck"}]
  BY <1>1 DEF ControlTypes
<1> QED  BY <1>2 DEF End, Goto, ControlTypes, Phases

\* What a request does to the session.
LEMMA EffectTypes ==
    ASSUME ControlTypes, NEW u \in Uploads, Effect(u) \/ UNCHANGED storeVars
    PROVE  session' \in [Uploads -> {"none", "open", "closed"}]
BY DEF Effect, ControlTypes, storeVars

\* Every step keeps the types of the control variables, ...
LEMMA ControlStep == ControlTypes /\ [Next]_uploadVars => ControlTypes'
<1> SUFFICES ASSUME ControlTypes, [Next]_uploadVars
             PROVE  ControlTypes'
  OBVIOUS
<1> USE DEF ctlVars, lateVars, endVars, storeVars, fileVars, headVars,
            streamVars, bodyVars
<1>1. CASE Rewrite \/ Rest \/ UNCHANGED uploadVars
  BY <1>1 DEF Rewrite, Rest, uploadVars, ControlTypes
<1>2. CASE Crash
  <2>1. session' \in [Uploads -> {"none", "open", "closed"}]
    <3>1. CASE UNCHANGED storeVars
      BY <3>1 DEF ControlTypes
    <3>2. ASSUME NEW u \in Uploads, Effect(u)
          PROVE  session' \in [Uploads -> {"none", "open", "closed"}]
      BY <3>2, EffectTypes
    <3> QED  BY <1>2, <3>1, <3>2 DEF Crash
  <2> QED  BY <1>2, <2>1 DEF Crash, ControlTypes, Phases
<1>3. ASSUME NEW u \in Uploads, Step(u)
      PROVE  ControlTypes'
  <2>1. CASE Begin(u)
    BY <2>1 DEF Begin, Goto, ControlTypes, Phases
  <2>2. CASE BeginFails(u) \/ Stored(u) \/ Aborted(u)
    BY <2>2, EndTypes DEF BeginFails, Stored, Aborted, ControlTypes
  <2>3. CASE Pack(u)
    BY <2>3 DEF Pack, PackOpens, PackCopies, PackEnds, PackFails, ControlTypes
  <2>4. CASE Packing(u)
    <3>1. CASE End(u, "failed")
      BY <2>4, <3>1, EndTypes DEF Packing, ControlTypes
    <3>2. CASE Goto(u, "keying") /\ UNCHANGED bodyVars
      BY <2>4, <3>2 DEF Packing, Goto, ControlTypes, Phases
    <3> QED  BY <2>4, <3>1, <3>2 DEF Packing
  <2>5. CASE Key(u)
    <3>1. \A n \in Nonces : <<mode[u], n>> \in Keys
      BY DEF Keys, ControlTypes
    <3>2. key' \in [Uploads -> Keys \union {NoKey}]
      BY <2>5, <3>1 DEF Key, ControlTypes
    <3> HIDE DEF Keys
    <3> QED  BY <2>5, <3>2 DEF Key, Goto, ControlTypes, Phases, Requests
  <2>6. CASE StoreAnswers(u)
    <3>1. session' \in [Uploads -> {"none", "open", "closed"}]
      BY <2>6, EffectTypes DEF StoreAnswers
    <3> QED  BY <2>6, <3>1 DEF StoreAnswers, ControlTypes
  <2>7. CASE Fill(u)
    BY <2>7 DEF Fill, ControlTypes
  <2>8. CASE Put(u) \/ Created(u) \/ SendPart(u) \/ NoMoreParts(u)
    BY <2>8 DEF Put, Created, SendPart, NoMoreParts, Goto, ControlTypes,
                Phases, Requests
  <2>9. CASE PartSent(u)
    BY <2>9 DEF PartSent, Goto, ControlTypes, Phases, Requests
  <2>10. CASE CompleteRefused(u)
    BY <2>10, EndTypes DEF CompleteRefused, ControlTypes
  <2>11. CASE Sweep(u)
    <3>1. sweeper' \in [Uploads -> BOOLEAN] /\ stray' \in [Uploads -> BOOLEAN]
      BY <2>11 DEF Sweep, ControlTypes
    <3>2. session' \in [Uploads -> {"none", "open", "closed"}]
      BY <2>11 DEF Sweep, ControlTypes
    <3> QED  BY <2>11, <3>1, <3>2 DEF Sweep, ControlTypes
  <2>12. CASE StreamFails(u)
    <3>1. session' \in [Uploads -> {"none", "open", "closed"}]
      BY <2>12, EffectTypes DEF StreamFails, MaySettle
    <3> QED  BY <2>12, <3>1 DEF StreamFails, StreamError, Goto, ControlTypes,
                                Phases, Requests
  <2>13. CASE CallFails(u)
    <3>1. session' \in [Uploads -> {"none", "open", "closed"}]
      BY <2>13, EffectTypes DEF CallFails, MaySettle
    <3>2. sweeper' \in [Uploads -> BOOLEAN] /\ stray' \in [Uploads -> BOOLEAN]
      BY <2>13, Zenon DEF CallFails, ControlTypes
    <3> QED  BY <2>13, <3>1, <3>2, EndTypes DEF CallFails, ControlTypes
  <2>14. CASE TimesOut(u) \/ Drop(u)
    <3>1. session' \in [Uploads -> {"none", "open", "closed"}]
      BY <2>14, EffectTypes DEF TimesOut, Drop, MaySettle
    <3> QED  BY <2>14, <3>1, EndTypes DEF TimesOut, Drop, ControlTypes
  <2> QED  BY <1>3, <2>1, <2>2, <2>3, <2>4, <2>5, <2>6, <2>7, <2>8, <2>9,
              <2>10, <2>11, <2>12, <2>13, <2>14 DEF Step
<1> QED  BY <1>1, <1>2, <1>3 DEF Next

\* What a request does to the contents at the store.
LEMMA EffectData ==
    ASSUME TypesInv, NEW u \in Uploads, Effect(u) \/ UNCHANGED storeVars
    PROVE  /\ objects' \in [Keys -> Seq(Bytes) \union {NoObject}]
           /\ parts' \in [Uploads -> Seq(Seq(Bytes))]
<1> USE DEF TypesInv, DataTypes
<1>1. <<>> \in Seq(Seq(Bytes)) /\ buf[u] \in Seq(Bytes)
      /\ parts[u] \in Seq(Seq(Bytes))
  BY EmptySeq
<1>2. /\ Append(parts[u], buf[u]) \in Seq(Seq(Bytes))
      /\ FlattenSeq(parts[u]) \in Seq(Bytes)
  BY <1>1, AppendProperties, FlattenType
<1> HIDE DEF TypesInv
<1>3. CASE UNCHANGED storeVars
  BY <1>3 DEF storeVars, TypesInv
<1>4. CASE Effect(u)
  <2>1. /\ objects \in [Keys -> Seq(Bytes) \union {NoObject}]
        /\ parts \in [Uploads -> Seq(Seq(Bytes))]
    BY DEF TypesInv
  <2> HIDE DEF DataTypes
  <2> QED  BY <1>1, <1>2, <1>4, <2>1 DEF Effect
<1> QED  BY <1>3, <1>4

\* What ending a call does to what it has read.
LEMMA EndData ==
    ASSUME DataTypes, NEW u \in Uploads, NEW r, End(u, r)
    PROVE  off' \in [Uploads -> Nat] /\ buf' \in [Uploads -> Seq(Bytes)]
<1>1. <<>> \in Seq(Bytes)
  BY EmptySeq
<1>2. off \in [Uploads -> Nat] /\ buf \in [Uploads -> Seq(Bytes)]
  BY DEF DataTypes
<1> QED  BY <1>1, <1>2 DEF End

\* ... those of the data, ...
LEMMA DataStep == TypesInv /\ [Next]_uploadVars => DataTypes'
<1> SUFFICES ASSUME TypesInv, [Next]_uploadVars
             PROVE  DataTypes'
  OBVIOUS
<1> USE DEF ctlVars, lateVars, endVars, storeVars, fileVars, headVars,
            streamVars, bodyVars
<1>0. DataTypes /\ <<>> \in Seq(Bytes)
  BY EmptySeq DEF TypesInv
<1>1. CASE Rewrite
  <2>1. rewrites' \in Nat /\ rewrites' <= MaxRewrites
    BY <1>0, <1>1, UploadAssumption DEF Rewrite, DataTypes
  <2>2. PICK n \in 0 .. MaxLen : file' = Content(rewrites', n)
    BY <1>1 DEF Rewrite
  <2>3. rewrites' \in 0 .. MaxRewrites /\ n <= MaxLen
    BY <2>1, UploadAssumption
  <2>4. file' \in Seq(Blocks) /\ file' \in Seq(Bytes) /\ Len(file') <= MaxLen
    BY <2>2, <2>3, ContentSeq
  <2> QED  BY <1>0, <1>1, <2>1, <2>4 DEF Rewrite, DataTypes
<1>2. CASE Rest \/ UNCHANGED uploadVars
  BY <1>0, <1>2 DEF Rest, uploadVars, DataTypes
<1>3. CASE Crash
  <2>1. /\ objects' \in [Keys -> Seq(Bytes) \union {NoObject}]
        /\ parts' \in [Uploads -> Seq(Seq(Bytes))]
    <3>1. CASE UNCHANGED storeVars
      BY <1>0, <3>1 DEF DataTypes
    <3>2. ASSUME NEW u \in Uploads, Effect(u)
          PROVE  /\ objects' \in [Keys -> Seq(Bytes) \union {NoObject}]
                 /\ parts' \in [Uploads -> Seq(Seq(Bytes))]
      BY <3>2, EffectData
    <3> QED  BY <1>3, <3>1, <3>2 DEF Crash
  <2>2. archive' \in [Uploads -> Seq(Bytes)]
    BY <1>0, <1>3 DEF Crash, DataTypes
  <2> QED  BY <1>0, <1>3, <2>1, <2>2 DEF Crash, DataTypes
<1>4. ASSUME NEW u \in Uploads, Step(u)
      PROVE  DataTypes'
  <2>0. /\ buf[u] \in Seq(Bytes) /\ digest[u] \in Seq(Bytes)
        /\ Payload(u) \in Seq(Bytes) /\ Len(Payload(u)) \in Nat
        /\ off[u] \in Nat
    BY <1>0, PayloadSeq DEF DataTypes
  <2>1. CASE Begin(u) \/ BeginFails(u) \/ Packing(u) \/ Created(u)
             \/ NoMoreParts(u) \/ Stored(u) \/ Aborted(u) \/ CompleteRefused(u)
    <3>1. /\ UNCHANGED <<storeVars, fileVars, archive, size, digest>>
          /\ UNCHANGED <<off, buf>> \/ \E r : End(u, r)
      BY <2>1 DEF Begin, BeginFails, Packing, Created, NoMoreParts, Stored,
                  Aborted, CompleteRefused
    <3>2. off' \in [Uploads -> Nat] /\ buf' \in [Uploads -> Seq(Bytes)]
      BY <1>0, <3>1, EndData DEF DataTypes
    <3> QED  BY <1>0, <3>1, <3>2 DEF DataTypes
  <2>2. CASE Pack(u)
    <3>1. archive' \in [Uploads -> Seq(Bytes)]
      BY <1>0, <2>2, PackTypes DEF TypesInv
    <3> QED  BY <1>0, <2>2, <3>1 DEF Pack, DataTypes
  <2>3. CASE Key(u)
    BY <1>0, <2>0, <2>3 DEF Key, DataTypes
  <2>4. CASE StoreAnswers(u)
    BY <1>0, <2>4, EffectData DEF StoreAnswers, DataTypes
  <2>5. CASE Fill(u)
    <3>1. off[u] + 1 \in 1 .. Len(Payload(u))
      BY <2>0, <2>5 DEF Fill, AtEnd
    <3>2. Payload(u)[off[u] + 1] \in Bytes
      BY <2>0, <3>1, ElementOfSeq
    <3>3. Append(buf[u], Payload(u)[off[u] + 1]) \in Seq(Bytes)
      BY <2>0, <3>2, AppendProperties
    <3> QED  BY <1>0, <2>0, <2>5, <3>3 DEF Fill, DataTypes
  <2>6. CASE Put(u)
    BY <1>0, <2>0, <2>6 DEF Put, DataTypes
  <2>7. CASE SendPart(u)
    <3>1. Hashed(u) \in Seq(Bytes)
      BY <2>0, ConcatProperties DEF Hashed
    <3> QED  BY <1>0, <2>7, <3>1 DEF SendPart, DataTypes
  <2>8. CASE PartSent(u)
    BY <1>0, <2>8 DEF PartSent, NextBuffer, DataTypes
  <2>9. CASE Sweep(u)
    <3>1. <<>> \in Seq(Seq(Bytes))
      BY EmptySeq
    <3> QED  BY <1>0, <2>9, <3>1 DEF Sweep, DataTypes
  <2>10. CASE StreamFails(u)
    <3>1. /\ Effect(u) \/ UNCHANGED storeVars
          /\ UNCHANGED <<fileVars, archive, size, digest, off, buf>>
      BY <2>10 DEF StreamFails, StreamError, MaySettle
    <3> QED  BY <1>0, <3>1, EffectData DEF DataTypes
  <2>11. CASE CallFails(u) \/ TimesOut(u) \/ Drop(u)
    <3>1. /\ Effect(u) \/ UNCHANGED storeVars
          /\ UNCHANGED <<fileVars, archive, size, digest>>
          /\ \E r : End(u, r)
      BY <2>11 DEF CallFails, TimesOut, Drop, MaySettle
    <3>2. off' \in [Uploads -> Nat] /\ buf' \in [Uploads -> Seq(Bytes)]
      BY <1>0, <3>1, EndData
    <3> QED  BY <1>0, <3>1, <3>2, EffectData DEF DataTypes
  <2> QED  BY <1>4, <2>1, <2>2, <2>3, <2>4, <2>5, <2>6, <2>7, <2>8, <2>9,
              <2>10, <2>11 DEF Step
<1> QED  BY <1>1, <1>2, <1>3, <1>4 DEF Next

-----------------------------------------------------------------------------
(* Who changes what.                                                       *)

\* All that belongs to one call.
Same(v) ==
    /\ pc'[v] = pc[v] /\ answer'[v] = answer[v]
    /\ result'[v] = result[v] /\ temp'[v] = temp[v]
    /\ session'[v] = session[v] /\ parts'[v] = parts[v]
    /\ mode'[v] = mode[v] /\ key'[v] = key[v] /\ size'[v] = size[v]
    /\ job'[v] = job[v] /\ archive'[v] = archive[v]
    /\ off'[v] = off[v] /\ buf'[v] = buf[v] /\ digest'[v] = digest[v]
    /\ sweeper'[v] = sweeper[v] /\ stray'[v] = stray[v]

\* A call writes nothing that belongs to another one.  (They do meet: in the
\* file they read, and in the object, if they draw the same key.)
LEMMA OthersSame ==
    ASSUME TypesInv, NEW u \in Uploads, Step(u), NEW v \in Uploads, v # u
    PROVE  Same(v)
<1> USE DEF ctlVars, lateVars, endVars, storeVars, fileVars, headVars,
            streamVars, bodyVars, Same
<1>0. ControlTypes /\ DataTypes
  BY DEF TypesInv
<1>1. ASSUME NEW r, End(u, r)
      PROVE  /\ pc'[v] = pc[v] /\ answer'[v] = answer[v]
             /\ off'[v] = off[v] /\ buf'[v] = buf[v]
             /\ result'[v] = result[v] /\ temp'[v] = temp[v]
  BY <1>0, <1>1 DEF End, Goto, ControlTypes, DataTypes
<1>2. ASSUME Effect(u) \/ UNCHANGED storeVars
      PROVE  session'[v] = session[v] /\ parts'[v] = parts[v]
  BY <1>0, <1>2 DEF Effect, ControlTypes, DataTypes
<1>3. CASE Begin(u) \/ Packing(u) \/ Key(u)
  <2>1. CASE Packing(u) /\ End(u, "failed")
    BY <1>1, <2>1 DEF Packing
  <2>2. CASE UNCHANGED bodyVars /\ Packing(u) /\ Goto(u, "keying")
    BY <1>0, <2>2 DEF Packing, Goto, ControlTypes
  <2>3. CASE Begin(u)
    BY <1>0, <2>3 DEF Begin, Goto, ControlTypes
  <2>4. CASE Key(u)
    BY <1>0, <2>4 DEF Key, Goto, ControlTypes, DataTypes
  <2> QED  BY <1>3, <2>1, <2>2, <2>3, <2>4 DEF Packing
<1>4. CASE BeginFails(u) \/ Stored(u) \/ Aborted(u)
  BY <1>1, <1>4 DEF BeginFails, Stored, Aborted
<1>5. CASE Pack(u)
  BY <1>0, <1>5 DEF Pack, PackOpens, PackCopies, PackEnds, PackFails,
                    ControlTypes, DataTypes
<1>6. CASE StoreAnswers(u)
  BY <1>0, <1>2, <1>6 DEF StoreAnswers, ControlTypes, DataTypes
<1>7. CASE Fill(u)
  BY <1>0, <1>7 DEF Fill, ControlTypes, DataTypes
<1>8. CASE Put(u) \/ SendPart(u)
  BY <1>0, <1>8 DEF Put, SendPart, Goto, ControlTypes, DataTypes
<1>9. CASE Created(u) \/ NoMoreParts(u)
  BY <1>0, <1>9 DEF Created, NoMoreParts, Goto, ControlTypes, DataTypes
<1>10. CASE PartSent(u)
  BY <1>0, <1>10 DEF PartSent, Goto, ControlTypes, DataTypes
<1>11. CASE CompleteRefused(u)
  BY <1>0, <1>1, <1>11 DEF CompleteRefused, ControlTypes
<1>12. CASE Sweep(u)
  BY <1>0, <1>12 DEF Sweep, ControlTypes, DataTypes
<1>13. CASE StreamFails(u)
  BY <1>0, <1>2, <1>13 DEF StreamFails, StreamError, MaySettle, Goto,
                          ControlTypes, DataTypes
<1>14. CASE CallFails(u)
  <2>1. sweeper'[v] = sweeper[v] /\ stray'[v] = stray[v]
    BY <1>0, <1>14 DEF CallFails, ControlTypes
  <2> QED  BY <1>1, <1>2, <1>14, <2>1 DEF CallFails, MaySettle
<1>15. CASE TimesOut(u) \/ Drop(u)
  BY <1>1, <1>2, <1>15 DEF TimesOut, Drop, MaySettle
<1> QED  BY <1>3, <1>4, <1>5, <1>6, <1>7, <1>8, <1>9, <1>10, <1>11, <1>12,
            <1>13, <1>14, <1>15 DEF Step

\* A step of a call leaves the source alone, and the plan of the call.
LEMMA StepKeeps ==
    ASSUME NEW u \in Uploads, Step(u)
    PROVE  file' = file /\ rewrites' = rewrites /\ mode' = mode
BY DEF Step, Begin, BeginFails, Pack, Packing, Key, StoreAnswers, Fill, Put,
       Stored, Created, SendPart, NoMoreParts, PartSent, CompleteRefused,
       Aborted, Sweep, StreamFails, CallFails, TimesOut, Drop, fileVars,
       headVars

-----------------------------------------------------------------------------
(* Type correctness.                                                       *)

\* A call that ends has nothing left to read.
LEMMA EndLengths ==
    ASSUME TypesInv, NEW u \in Uploads, NEW r, End(u, r),
           archive'[u] = archive[u], size'[u] = size[u], digest'[u] = digest[u],
           job'[u] = job[u]
    PROVE  Lengths(u)'
<1>1. pc'[u] = "done" /\ off'[u] = 0 /\ buf'[u] = <<>>
  BY DEF TypesInv, ControlTypes, DataTypes, End, Goto
<1>2. Len(<<>>) = 0 /\ MaxLen \in Nat /\ Lengths(u)
  BY EmptySeq, UploadAssumption DEF TypesInv
<1>3. Len(buf'[u]) = 0
  BY <1>1, <1>2
<1> QED  BY ONLY <1>1, <1>2, <1>3, archive'[u] = archive[u],
                 size'[u] = size[u], digest'[u] = digest[u], job'[u] = job[u]
         DEF Lengths

\* ... and what a call has read, whether it takes the step ...
LEMMA LengthsOwnStep ==
    ASSUME TypesInv, NEW u \in Uploads, Step(u)
    PROVE  Lengths(u)'
<1> USE DEF ctlVars, lateVars, endVars, storeVars, fileVars, headVars,
            streamVars, bodyVars
<1>0. /\ Lengths(u) /\ ControlTypes /\ DataTypes
      /\ buf[u] \in Seq(Bytes) /\ digest[u] \in Seq(Bytes)
      /\ off[u] \in Nat /\ size[u] \in Nat /\ MaxLen \in Nat
      /\ Payload(u) \in Seq(Bytes)
      /\ Len(Payload(u)) \in Nat /\ Len(Payload(u)) <= MaxLen + 1
  BY PayloadSeq, UploadAssumption DEF TypesInv, DataTypes
<1>a. /\ Len(buf[u]) \in Nat /\ Len(digest[u]) \in Nat
      /\ Len(<<>>) = 0
      /\ buf[u] = <<>> => Len(buf[u]) = 0
      /\ digest[u] = <<>> => Len(digest[u]) = 0
  BY <1>0, LenProperties, EmptySeq
<1>b. Lengths(u) /\ off[u] \in Nat /\ size[u] \in Nat /\ MaxLen \in Nat
  BY <1>0
<1>1. CASE Begin(u)
  BY <1>0, <1>1 DEF Begin, Goto, ControlTypes, Lengths
<1>2. CASE BeginFails(u) \/ Stored(u) \/ Aborted(u) \/ CompleteRefused(u)
           \/ CallFails(u) \/ TimesOut(u) \/ Drop(u)
  <2>1. /\ \E r : End(u, r)
        /\ archive' = archive /\ size' = size /\ digest' = digest /\ job' = job
    BY <1>2 DEF BeginFails, Stored, Aborted, CompleteRefused, CallFails,
                TimesOut, Drop
  <2> QED  BY <2>1, EndLengths
<1>3. CASE Pack(u)
  <2>1. /\ Len(archive'[u]) <= MaxLen + 1
        /\ job'[u] = "writing" => Len(archive'[u]) >= 1
    BY <1>0, <1>3, PackTypes
  <2> QED  BY <1>0, <1>3, <2>1 DEF Pack, Lengths
<1>4. CASE Packing(u)
  <2>1. CASE End(u, "failed")
    BY <1>4, <2>1, EndLengths DEF Packing
  <2>2. CASE Goto(u, "keying") /\ UNCHANGED bodyVars
    BY <1>0, <1>4, <2>2 DEF Packing, Goto, ControlTypes, Lengths
  <2> QED  BY <1>4, <2>1, <2>2 DEF Packing
<1>5. CASE Key(u)
  <2>1. size'[u] <= MaxLen + 1 /\ pc'[u] \in {"creating", "reading"}
    BY <1>0, <1>5 DEF Key, Goto, ControlTypes, DataTypes
  <2> QED  BY <1>0, <1>a, <1>5, <2>1 DEF Key, Lengths
<1>6. CASE StoreAnswers(u)
  BY <1>0, <1>6 DEF StoreAnswers, Lengths
<1>7. CASE Fill(u)
  <2>1. off[u] + 1 \in 1 .. Len(Payload(u))
    BY <1>0, <1>7 DEF Fill, AtEnd
  <2>2. Payload(u)[off[u] + 1] \in Bytes
    BY <1>0, <2>1, ElementOfSeq
  <2>3. Len(Append(buf[u], Payload(u)[off[u] + 1])) = Len(buf[u]) + 1
    BY <1>0, <2>2, AppendProperties
  <2>4. off'[u] = off[u] + 1 /\ Len(buf'[u]) = Len(buf[u]) + 1
    BY <1>0, <1>7, <2>3 DEF Fill, DataTypes
  <2>5. /\ pc'[u] = pc[u] /\ pc[u] \in {"reading", "filling"}
        /\ archive'[u] = archive[u] /\ size'[u] = size[u] /\ job'[u] = job[u]
        /\ digest'[u] = digest[u]
    BY <1>7 DEF Fill
  <2>6. off[u] + 1 <= MaxLen + 1
    BY <1>0, <2>1
  <2>7. PICK d \in Nat : d = Len(digest[u])
    BY <1>0, LenIs
  <2>8. PICK b \in Nat : b = Len(buf[u])
    BY <1>0, LenIs
  <2>9. pc[u] = "filling" => b = off[u] - d
    BY <1>b, <2>7, <2>8 DEF Lengths
  <2>10. /\ Len(buf'[u]) = b + 1 /\ Len(digest'[u]) = d
         /\ pc[u] = "filling" => b + 1 = off'[u] - d
    <3>1. Len(buf'[u]) = b + 1 /\ Len(digest'[u]) = d
      BY <2>4, <2>5, <2>7, <2>8, Zenon
    <3>2. pc[u] = "filling" => b + 1 = off'[u] - d
      BY <1>b, <2>4, <2>9
    <3> QED  BY <3>1, <3>2
  <2>11. b <= off[u]
    BY <1>b, <2>5, <2>8, <2>9 DEF Lengths
  <2>12. Len(buf'[u]) <= MaxLen + 1 /\ off'[u] <= MaxLen + 1
    BY <1>b, <2>4, <2>6, <2>10, <2>11
  <2>13. pc'[u] = "filling" => Len(buf'[u]) = off'[u] - Len(digest'[u])
    BY ONLY <2>5, <2>10
  <2>14. pc'[u] = "reading" => Len(buf'[u]) = off'[u] /\ digest'[u] = <<>>
    BY ONLY <1>b, <2>4, <2>5 DEF Lengths
  <2> QED  BY ONLY <1>b, <2>5, <2>12, <2>13, <2>14 DEF Lengths
<1>8. CASE Put(u)
  BY <1>0, <1>a, <1>8 DEF Put, Goto, ControlTypes, DataTypes, Lengths
<1>9. CASE Created(u) \/ NoMoreParts(u)
  <2>1. /\ archive'[u] = archive[u] /\ size'[u] = size[u] /\ job'[u] = job[u]
        /\ off'[u] = off[u] /\ buf'[u] = buf[u] /\ digest'[u] = digest[u]
        /\ \/ pc[u] = "creating" /\ pc'[u] = "filling"
           \/ pc[u] = "filling" /\ pc'[u] = "completing"
    BY <1>0, <1>9 DEF Created, NoMoreParts, Goto, ControlTypes
  <2> QED  BY ONLY <1>a, <1>b, <2>1 DEF Lengths
<1>10. CASE SendPart(u)
  <2>1. digest'[u] = digest[u] \o buf[u] /\ off'[u] = off[u] /\ buf'[u] = buf[u]
    BY <1>0, <1>10 DEF SendPart, Hashed, DataTypes
  <2>2. PICK d \in Nat : d = Len(digest[u])
    BY <1>0, LenIs
  <2>3. PICK b \in Nat : b = Len(buf[u])
    BY <1>0, LenIs
  <2>4. b = off[u] - d
    BY <1>b, <1>10, <2>2, <2>3 DEF Lengths, SendPart
  <2>5. Len(digest'[u]) = d + b
    BY <1>0, <2>1, <2>2, <2>3, ConcatProperties
  <2>6. Len(digest'[u]) = off[u]
    BY <1>b, <2>4, <2>5
  <2> QED  BY <1>0, <1>10, <2>1, <2>6 DEF SendPart, Goto, ControlTypes, Lengths
<1>11. CASE PartSent(u)
  <2>1. /\ Len(buf'[u]) = 0 /\ off'[u] = off[u] /\ digest'[u] = digest[u]
        /\ pc'[u] \in {"completing", "filling"} /\ Len(digest[u]) = off[u]
    BY <1>0, <1>a, <1>11
    DEF PartSent, NextBuffer, Goto, ControlTypes, DataTypes, Lengths
  <2> QED  BY <1>0, <1>a, <1>11, <2>1 DEF PartSent, Lengths
<1>12. CASE Sweep(u)
  BY <1>0, <1>12 DEF Sweep, Lengths
<1>13. CASE StreamFails(u)
  BY <1>0, <1>13 DEF StreamFails, StreamError, Goto, ControlTypes, Lengths
<1> QED  BY <1>1, <1>2, <1>3, <1>4, <1>5, <1>6, <1>7, <1>8, <1>9, <1>10,
            <1>11, <1>12, <1>13 DEF Step

\* ... or another does.
LEMMA LengthsStep ==
    TypesInv /\ [Next]_uploadVars => \A u \in Uploads : Lengths(u)'
<1> SUFFICES ASSUME TypesInv, [Next]_uploadVars, NEW v \in Uploads
             PROVE  Lengths(v)'
  OBVIOUS
<1>0. Lengths(v) /\ DataTypes /\ ControlTypes
  BY DEF TypesInv
<1>1. CASE Rewrite \/ Rest \/ UNCHANGED uploadVars
  BY <1>0, <1>1 DEF Rewrite, Rest, Lengths, uploadVars, ctlVars, headVars,
                    streamVars
<1>2. CASE Crash
  <2>1. Len(<<>>) = 0
    BY EmptySeq
  <2>2. /\ archive'[v] \in {archive[v], <<>>} /\ size'[v] = size[v]
        /\ digest'[v] = digest[v] /\ job'[v] # "writing"
        /\ \/ pc'[v] = "done" /\ off'[v] = 0 /\ buf'[v] = <<>>
           \/ pc'[v] = pc[v] /\ off'[v] = off[v] /\ buf'[v] = buf[v]
    BY <1>2 DEF Crash
  <2>3. Len(<<>>) <= MaxLen + 1 /\ 0 <= MaxLen + 1
    BY <2>1, UploadAssumption
  <2> QED  BY ONLY <1>0, <2>1, <2>2, <2>3 DEF Lengths
<1>3. ASSUME NEW u \in Uploads, Step(u)
      PROVE  Lengths(v)'
  <2>1. CASE v = u
    BY <1>3, <2>1, LengthsOwnStep
  <2>2. CASE v # u
    BY <1>0, <1>3, <2>2, OthersSame DEF Same, Lengths
  <2> QED  BY <2>1, <2>2
<1> QED  BY <1>1, <1>2, <1>3 DEF Next

\* So the types are an invariant.
LEMMA TypesKept == Spec => []TypesInv
<1>1. TypesInv /\ [Next]_uploadVars => TypesInv'
  BY ControlStep, DataStep, LengthsStep DEF TypesInv
<1> QED  BY TypesInit, <1>1, PTL DEF Spec

\* Which is more than the type invariant of the module.
LEMMA TypesImply == TypesInv => UploadTypeOK
<1> SUFFICES ASSUME TypesInv
             PROVE  UploadTypeOK
  OBVIOUS
<1>1. DataTypes /\ ControlTypes
  BY DEF TypesInv
<1>2. ASSUME NEW u \in Uploads
      PROVE  {off[u], size[u], Len(buf[u]), Len(digest[u])} \subseteq 0 .. MaxLen + 1
  <2>1. Len(buf[u]) \in Nat /\ Len(digest[u]) \in Nat
    BY <1>1, LenProperties DEF DataTypes
  <2> QED  BY <1>1, <2>1, UploadAssumption DEF TypesInv, DataTypes, Lengths
<1>3. rewrites \in 0 .. MaxRewrites
  BY <1>1, UploadAssumption DEF DataTypes
<1> QED  BY <1>1, <1>2, <1>3 DEF UploadTypeOK, DataTypes, ControlTypes

\* Type correctness, for any bounds: no offset, buffer, size or hash reaches
\* past the end of the longest payload.
THEOREM UploadTypes == Spec => []UploadTypeOK
BY TypesKept, TypesImply, PTL

-----------------------------------------------------------------------------
(* The temporary archive, and the session at the store.                    *)

\* Before a key is drawn.
Unkeyed == {"idle", "packing", "keying"}

\* What holds of the archive of a call, whatever the others do: packing goes
\* from the start of the job to a key, and the archive stays from then on.
ArchiveInv(u) ==
    /\ pc[u] \in Unkeyed => key[u] = NoKey
    /\ pc[u] \notin Unkeyed \union {"done"} => key[u] \in Keys
    /\ mode[u] = "raw" => pc[u] # "packing" /\ job[u] = "none" /\ temp[u] = "none"
    /\ pc[u] = "idle" => job[u] = "none" /\ temp[u] = "none"
    /\ mode[u] = "archive" /\ pc[u] \notin {"idle", "done"}
       => temp[u] = "present"
    /\ mode[u] = "archive" /\ pc[u] \notin {"idle", "packing", "done"}
       => job[u] = "done"
    /\ key[u] # NoKey => job[u] = IF mode[u] = "archive" THEN "done" ELSE "none"
    /\ pc[u] = "done" /\ temp[u] = "present"
       => \/ job[u] = "failed" \/ result[u] = "crashed"
          \/ result[u] = "dropped" /\ key[u] = NoKey

\* What holds of its session at the store.  A session is open at most from
\* the request that opens it to the answer to the one that closes it.
SessionInv(u) ==
    /\ pc[u] \in Unkeyed \union {"reading", "putting"} => session[u] # "open"
    /\ pc[u] \in {"completing", "aborting"} /\ answer[u] = "done"
       => session[u] # "open"
    /\ sweeper[u] => pc[u] = "done"
    /\ session[u] = "open" /\ pc[u] = "done" /\ ~sweeper[u]
       => result[u] \in {"timed_out", "dropped", "crashed"} \/ stray[u]

ControlInv ==
    /\ TypesInv
    /\ \A u \in Uploads : ArchiveInv(u) /\ SessionInv(u)

\* No request names the key of a call that has none.
LEMMA NoKeyIsNone == NoKey \notin Keys
BY DEF NoKey, Keys

\* At first there is neither archive nor session.
LEMMA ControlInit == Init => ControlInv
<1> SUFFICES ASSUME Init, NEW u \in Uploads
             PROVE  ArchiveInv(u) /\ SessionInv(u)
  BY TypesInit DEF ControlInv
<1>1. /\ pc[u] = "idle" /\ key[u] = NoKey /\ job[u] = "none"
      /\ temp[u] = "none" /\ session[u] = "none" /\ sweeper[u] = FALSE
  BY DEF Init
<1> QED  BY <1>1 DEF ArchiveInv, SessionInv, Unkeyed

\* How a call stands when it ends.
LEMMA EndIs ==
    ASSUME ControlTypes, NEW u \in Uploads, NEW r, End(u, r)
    PROVE  /\ pc'[u] = "done" /\ answer'[u] = "none" /\ result'[u] = r
           /\ IF Guarded(u, r) /\ temp[u] = "present"
              THEN temp'[u] \in {"removed", "stuck"} ELSE temp'[u] = temp[u]
<1>1. PICK t \in {"removed", "stuck"} :
          temp' = [temp EXCEPT ![u] =
                      IF Guarded(u, r) /\ @ = "present" THEN t ELSE @]
  BY DEF End, Removed
<1> QED  BY <1>1 DEF End, Goto, ControlTypes

\* A call that ends in a way that is none of the exceptions loses its archive.
LEMMA EndArchive ==
    ASSUME ControlTypes, NEW u \in Uploads, NEW r, End(u, r), r # "crashed",
           ArchiveInv(u), pc[u] # "done",
           mode'[u] = mode[u], key'[u] = key[u], job'[u] = job[u],
           pc[u] = "packing" => job[u] = "failed" \/ r = "dropped"
    PROVE  ArchiveInv(u)'
<1>1. /\ pc'[u] = "done" /\ result'[u] = r
      /\ IF Guarded(u, r) /\ temp[u] = "present"
         THEN temp'[u] \in {"removed", "stuck"} ELSE temp'[u] = temp[u]
  BY EndIs
<1> QED  BY ONLY <1>1, ArchiveInv(u), r # "crashed", pc[u] # "done",
                 mode'[u] = mode[u], key'[u] = key[u], job'[u] = job[u],
                 pc[u] = "packing" => job[u] = "failed" \/ r = "dropped"
         DEF ArchiveInv, Guarded, Unkeyed

\* A call keeps its archive until it ends.
LEMMA ArchiveOwnStep ==
    ASSUME ControlInv, NEW u \in Uploads, Step(u)
    PROVE  ArchiveInv(u)'
<1> USE DEF ctlVars, lateVars, endVars, storeVars, fileVars, headVars,
            streamVars, bodyVars
<1>0. ControlTypes /\ ArchiveInv(u)
  BY DEF ControlInv, TypesInv
<1>1. CASE Begin(u)
  <2>1. /\ pc'[u] \in {"packing", "keying"} /\ key'[u] = key[u]
        /\ mode'[u] = mode[u]
        /\ \/ mode[u] = "archive" /\ pc'[u] = "packing" /\ temp'[u] = "present"
           \/ mode[u] = "raw" /\ pc'[u] = "keying" /\ job'[u] = job[u] /\ temp'[u] = temp[u]
    BY <1>0, <1>1 DEF Begin, Goto, ControlTypes
  <2> QED  BY <1>0, <1>1, <2>1 DEF Begin, ArchiveInv, Unkeyed
<1>2. CASE Packing(u)
  <2>1. CASE job[u] = "failed" /\ End(u, "failed")
    BY <1>0, <1>2, <2>1, EndArchive DEF Packing
  <2>2. CASE job[u] = "done" /\ Goto(u, "keying") /\ UNCHANGED bodyVars
    BY <1>0, <1>2, <2>2 DEF Packing, Goto, ControlTypes, ArchiveInv, Unkeyed
  <2> QED  BY <1>2, <2>1, <2>2 DEF Packing
<1>3. CASE Pack(u)
  <2>1. /\ job[u] \in {"running", "writing"}
        /\ job'[u] \in {"writing", "done", "failed"}
    BY <1>0, <1>3 DEF Pack, PackOpens, PackCopies, PackEnds, PackFails,
                      ControlTypes
  <2> QED  BY <1>0, <1>3, <2>1 DEF Pack, ArchiveInv
<1>4. CASE Key(u)
  <2>1. key'[u] \in Keys
    BY <1>0, <1>4 DEF Key, Keys, ControlTypes
  <2>2. pc'[u] \in {"creating", "reading"}
    BY <1>0, <1>4 DEF Key, Goto, ControlTypes
  <2> QED  BY <1>0, <1>4, <2>1, <2>2 DEF Key, ArchiveInv, Unkeyed, ControlTypes
<1>5. CASE BeginFails(u) \/ Stored(u) \/ Aborted(u) \/ CompleteRefused(u)
           \/ CallFails(u) \/ TimesOut(u) \/ Drop(u)
  <2>1. PICK r : /\ End(u, r) /\ r # "crashed"
                 /\ pc[u] # "done" /\ (pc[u] = "packing" => r = "dropped")
                 /\ UNCHANGED headVars
    BY <1>5, Zenon DEF BeginFails, Stored, Aborted, CompleteRefused, CallFails,
                TimesOut, Drop, Requests, Timed
  <2> QED  BY <1>0, <2>1, EndArchive
<1>6. CASE StoreAnswers(u) \/ Fill(u) \/ Sweep(u)
  BY <1>0, <1>6 DEF StoreAnswers, Fill, Sweep, ArchiveInv
<1>7. CASE Put(u) \/ Created(u) \/ SendPart(u) \/ NoMoreParts(u)
           \/ PartSent(u) \/ StreamFails(u)
  <2>1. /\ pc[u] \notin Unkeyed \union {"done"}
        /\ pc'[u] \notin Unkeyed \union {"done"}
        /\ UNCHANGED headVars /\ temp' = temp
    BY <1>0, <1>7 DEF Put, Created, SendPart, NoMoreParts, PartSent,
                      StreamFails, StreamError, Goto, ControlTypes, Unkeyed
  <2> QED  BY <1>0, <2>1 DEF ArchiveInv, Unkeyed
<1> QED  BY <1>1, <1>2, <1>3, <1>4, <1>5, <1>6, <1>7 DEF Step

\* A call that ends while its session is not open, or for a reason that the
\* invariant names.
LEMMA EndSession ==
    ASSUME ControlTypes, NEW u \in Uploads, NEW r, End(u, r),
           \/ session'[u] # "open" \/ sweeper'[u] \/ stray'[u]
           \/ r \in {"timed_out", "dropped", "crashed"}
    PROVE  SessionInv(u)'
<1>1. pc'[u] = "done" /\ result'[u] = r
  BY EndIs
<1> QED  BY <1>1 DEF SessionInv, Unkeyed

\* A call closes its session, or has an excuse.
LEMMA SessionOwnStep ==
    ASSUME ControlInv, NEW u \in Uploads, Step(u)
    PROVE  SessionInv(u)'
<1> USE DEF ctlVars, lateVars, endVars, storeVars, fileVars, headVars,
            streamVars, bodyVars
<1>0. ControlTypes /\ SessionInv(u)
  BY DEF ControlInv, TypesInv
<1>1. CASE Begin(u) \/ Key(u)
  <2>1. /\ pc[u] \in Unkeyed /\ session' = session /\ sweeper' = sweeper
        /\ pc'[u] \notin {"done", "completing", "aborting"}
    BY <1>0, <1>1 DEF Begin, Key, Goto, ControlTypes, Unkeyed
  <2> QED  BY <1>0, <2>1 DEF SessionInv, Unkeyed
<1>2. CASE Packing(u)
  <2>1. CASE End(u, "failed")
    BY <1>0, <1>2, <2>1, EndSession DEF Packing, SessionInv, Unkeyed
  <2>2. CASE job[u] = "done" /\ Goto(u, "keying") /\ UNCHANGED bodyVars
    BY <1>0, <1>2, <2>2 DEF Packing, Goto, ControlTypes, SessionInv, Unkeyed
  <2> QED  BY <1>2, <2>1, <2>2 DEF Packing
<1>3. CASE BeginFails(u) \/ Stored(u) \/ Aborted(u)
  <2>1. \E r : End(u, r) /\ session'[u] = session[u] /\ session[u] # "open"
    BY <1>0, <1>3 DEF BeginFails, Stored, Aborted, SessionInv, Unkeyed
  <2> QED  BY <1>0, <2>1, EndSession
<1>4. CASE CompleteRefused(u)
  <2>1. sweeper'[u]
    BY <1>0, <1>4 DEF CompleteRefused, ControlTypes
  <2> QED  BY <1>0, <1>4, <2>1, EndSession DEF CompleteRefused
<1>5. CASE Pack(u) \/ Fill(u)
  BY <1>0, <1>5 DEF Pack, Fill, SessionInv
<1>6. CASE StoreAnswers(u)
  <2>1. CASE Effect(u)
    <3>1. \/ pc[u] \in {"completing", "aborting"} /\ session'[u] = "closed"
          \/ pc[u] = "creating"
          \/ pc[u] \in {"putting", "sending"} /\ session'[u] = session[u]
      BY <1>0, <2>1 DEF Effect, ControlTypes
    <3> QED  BY <1>0, <1>6, <3>1 DEF StoreAnswers, SessionInv, Unkeyed
  <2>2. CASE /\ pc[u] = "completing" /\ UNCHANGED storeVars
             /\ answer' = [answer EXCEPT ![u] = "refused"]
    BY <1>0, <1>6, <2>2 DEF StoreAnswers, SessionInv, Unkeyed, ControlTypes
  <2> QED  BY <1>6, <2>1, <2>2 DEF StoreAnswers
<1>7. CASE Put(u) \/ Created(u) \/ SendPart(u) \/ NoMoreParts(u) \/ PartSent(u)
  <2>1. /\ pc'[u] \in {"putting", "filling", "sending", "completing"}
        /\ pc'[u] = "putting" => pc[u] = "reading"
        /\ pc[u] # "done"
        /\ answer'[u] = "none" /\ session' = session /\ sweeper' = sweeper
    BY <1>0, <1>7 DEF Put, Created, SendPart, NoMoreParts, PartSent, Goto,
                      ControlTypes
  <2> QED  BY <1>0, <2>1 DEF SessionInv, Unkeyed
<1>8. CASE Sweep(u)
  <2>1. pc[u] = "done" /\ pc'[u] = pc[u] /\ ~sweeper'[u]
    BY <1>0, <1>8 DEF Sweep, SessionInv, ControlTypes
  <2>2. session'[u] = "closed" \/ stray'[u]
    BY <1>0, <1>8 DEF Sweep, ControlTypes
  <2> QED  BY <2>1, <2>2 DEF SessionInv, Unkeyed
<1>9. CASE StreamFails(u)
  <2>1. /\ pc[u] \in {"filling", "sending"} /\ pc'[u] = "aborting"
        /\ answer'[u] = "none" /\ sweeper' = sweeper
    BY <1>0, <1>9 DEF StreamFails, StreamError, Goto, ControlTypes
  <2> QED  BY <1>0, <2>1 DEF SessionInv, Unkeyed
<1>10. CASE CallFails(u)
  <2>1. CASE pc[u] \in {"keying", "reading", "putting"}
    <3>1. session'[u] = session[u] /\ session[u] # "open"
      BY <1>0, <1>10, <2>1 DEF CallFails, MaySettle, Effect, ControlTypes,
                               SessionInv, Unkeyed
    <3> QED  BY <1>0, <1>10, <3>1, EndSession DEF CallFails
  <2>2. CASE pc[u] = "completing"
    <3>1. sweeper'[u] = TRUE
      BY <1>0, <1>10, <2>2 DEF CallFails, ControlTypes
    <3> QED  BY <1>0, <1>10, <3>1, EndSession DEF CallFails
  <2>3. CASE pc[u] \in {"creating", "aborting"}
    <3>1. stray'[u] = TRUE
      BY <1>0, <1>10, <2>3, Zenon DEF CallFails, ControlTypes
    <3> QED  BY <1>0, <1>10, <3>1, EndSession DEF CallFails
  <2> QED  BY <1>10, <2>1, <2>2, <2>3 DEF CallFails, Requests
<1>11. CASE TimesOut(u) \/ Drop(u)
  <2>1. \E r : End(u, r) /\ r \in {"timed_out", "dropped", "crashed"}
    BY <1>11 DEF TimesOut, Drop
  <2> QED  BY <1>0, <2>1, EndSession
<1> QED  BY <1>1, <1>2, <1>3, <1>4, <1>5, <1>6, <1>7, <1>8, <1>9, <1>10,
            <1>11 DEF Step

\* No step of any call breaks either.
LEMMA ControlInvStep == ControlInv /\ [Next]_uploadVars => ControlInv'
<1> SUFFICES ASSUME ControlInv, [Next]_uploadVars
             PROVE  ControlInv'
  OBVIOUS
<1>0. TypesInv /\ ControlTypes /\ \A u \in Uploads : ArchiveInv(u) /\ SessionInv(u)
  BY DEF ControlInv, TypesInv
<1>1. TypesInv'
  BY <1>0, ControlStep, DataStep, LengthsStep DEF TypesInv
<1> SUFFICES ASSUME NEW v \in Uploads
             PROVE  ArchiveInv(v)' /\ SessionInv(v)'
  BY <1>1 DEF ControlInv
<1>2. CASE Rewrite \/ Rest \/ UNCHANGED uploadVars
  <2>1. UNCHANGED <<ctlVars, endVars, storeVars, headVars>>
    BY <1>2 DEF Rewrite, Rest, uploadVars
  <2> QED  BY <1>0, <2>1 DEF ArchiveInv, SessionInv, ctlVars, endVars, lateVars,
                             storeVars, headVars
<1>3. CASE Crash
  <2>0. ArchiveInv(v) /\ SessionInv(v)
    BY <1>0
  <2>1. /\ temp'[v] = temp[v] /\ mode'[v] = mode[v] /\ key'[v] = key[v]
        /\ job'[v] = IF job[v] \in {"running", "writing"} THEN "lost" ELSE job[v]
        /\ sweeper'[v] = FALSE
        /\ sweeper[v] => stray'[v]
        /\ stray[v] => stray'[v]
        /\ \/ pc[v] \notin {"idle", "done"} /\ pc'[v] = "done" /\ result'[v] = "crashed"
           \/ /\ pc[v] \in {"idle", "done"} /\ pc'[v] = pc[v]
              /\ result'[v] = result[v]
    BY <1>3 DEF Crash
  <2>2. pc[v] \in {"idle", "done"} => session'[v] = session[v]
    <3>1. CASE UNCHANGED storeVars
      BY <3>1 DEF storeVars
    <3>2. ASSUME NEW u \in Uploads, Effect(u), pc[v] \in {"idle", "done"}
          PROVE  session'[v] = session[v]
      <4>1. u # v
        BY <3>2 DEF Effect
      <4> QED  BY <1>0, <3>2, <4>1 DEF Effect, ControlTypes
    <3> QED  BY <1>3, <3>1, <3>2 DEF Crash
  <2>3. ArchiveInv(v)'
    BY ONLY <2>0, <2>1 DEF ArchiveInv, Unkeyed
  <2>4. SessionInv(v)'
    BY ONLY <2>0, <2>1, <2>2 DEF SessionInv, Unkeyed
  <2> QED  BY <2>3, <2>4
<1>4. ASSUME NEW u \in Uploads, Step(u)
      PROVE  ArchiveInv(v)' /\ SessionInv(v)'
  <2>1. CASE v = u
    BY <1>4, <2>1, ArchiveOwnStep, SessionOwnStep
  <2>2. CASE v # u
    <3>1. Same(v)
      BY <1>0, <1>4, <2>2, OthersSame
    <3>2. ArchiveInv(v) /\ SessionInv(v)
      BY <1>0
    <3> QED  BY ONLY <3>1, <3>2 DEF Same, ArchiveInv, SessionInv
  <2> QED  BY <2>1, <2>2
<1> QED  BY <1>2, <1>3, <1>4 DEF Next

\* So both are invariants.
LEMMA ControlKept == Spec => []ControlInv
BY ControlInit, ControlInvStep, PTL DEF Spec

\* A temporary archive is there as long as the call reads it and does not
\* outlive it, but for the three exceptions that TempCleanedUp names, for any
\* number of calls, faults and crashes.
THEOREM ArchivesRemoved == Spec => []TempCleanedUp
<1>1. ControlInv => TempCleanedUp
  BY DEF ControlInv, ArchiveInv, TempCleanedUp
<1> QED  BY <1>1, ControlKept, PTL

\* No error path leaves a multipart session open at the store, unless the
\* request that opened or aborted it is the one that failed.
THEOREM SessionsClosed == Spec => []NothingStranded
<1>1. ControlInv => NothingStranded
  BY DEF ControlInv, SessionInv, NothingStranded
<1> QED  BY <1>1, ControlKept, PTL

-----------------------------------------------------------------------------
(* What is read, hashed and stored.                                        *)

\* Three parts, one after the other.
LEMMA ThreeParts ==
    ASSUME NEW s \in Seq(Bytes), NEW t \in Seq(Bytes), NEW r \in Seq(Bytes)
    PROVE  (s \o t) \o r = s \o (t \o r)
BY ConcatAssociative

\* Reading one more block.
LEMMA ReadOne ==
    ASSUME NEW s \in Seq(Bytes), NEW d \in Seq(Bytes), NEW b \in Seq(Bytes),
           NEW n \in Nat, n < Len(s), d \o b = SubSeq(s, 1, n)
    PROVE  d \o Append(b, s[n + 1]) = SubSeq(s, 1, n + 1)
<1>1. n + 1 \in 1 .. Len(s) /\ 1 \in 1 .. Len(s) /\ n + 1 \in 1 .. n + 1
  BY LenProperties
<1>2. s[n + 1] \in Bytes
  BY <1>1, ElementOfSeq
<1>3. SubSeq(s, 1, n + 1) = SubSeq(s, 1, (n + 1) - 1) \o << s[n + 1] >>
  BY <1>1, SubSeqRecursiveSecond
<1>4. Append(b, s[n + 1]) = b \o << s[n + 1] >>
  BY <1>2, AppendIsConcat
<1>5. << s[n + 1] >> \in Seq(Bytes)
  BY <1>2
<1>6. (d \o b) \o << s[n + 1] >> = d \o (b \o << s[n + 1] >>)
  BY <1>5, ThreeParts, Zenon
<1>7. (n + 1) - 1 = n
  OBVIOUS
<1> QED  BY <1>3, <1>4, <1>6, <1>7

\* Reading to the end.
LEMMA ReadAll ==
    ASSUME NEW s \in Seq(Bytes), NEW n \in Nat, n <= Len(s), n >= Len(s)
    PROVE  SubSeq(s, 1, n) = s
<1>1. Len(s) \in Nat
  BY LenProperties
<1>2. n = Len(s)
  BY <1>1
<1> QED  BY <1>2, SubSeqFull

\* Nothing before or after changes nothing.
LEMMA EmptyConcat ==
    ASSUME NEW s \in Seq(Bytes)
    PROVE  s \o <<>> = s /\ <<>> \o s = s
BY ConcatEmptySeq

\* No parts make an empty object.
LEMMA FlattenEmpty == FlattenSeq(<<>>) = <<>>
BY DEF FlattenSeq

\* Parts that the store accepts, whatever follows them.
Full(ps) == \A i \in DOMAIN ps : Len(ps[i]) >= MinPartSize
FullButLast(ps) == \A i \in DOMAIN ps : i < Len(ps) => Len(ps[i]) >= MinPartSize

\* Of what has been read and hashed, if the payload is stable: a part of it
\* from its start on.
Prefix(u, s) == /\ off[u] <= Len(Payload(u))
                /\ s = SubSeq(Payload(u), 1, off[u])

\* What holds of what a call has read, hashed and sent, phase by phase: the
\* parts at the store, one after the other, are what was hashed, but for the
\* part in flight.
ReadInv(u) ==
    /\ pc[u] \in Unkeyed \union {"reading", "putting", "creating"}
       => parts[u] = <<>>
    /\ pc[u] = "reading" /\ Stable(u) => Prefix(u, buf[u])
    /\ pc[u] = "putting" => digest[u] = buf[u]
    /\ pc[u] = "filling" =>
           /\ FlattenSeq(parts[u]) = digest[u] /\ Full(parts[u])
           /\ Stable(u) => Prefix(u, digest[u] \o buf[u])
    /\ pc[u] = "sending" =>
           /\ answer[u] = "none" => /\ FlattenSeq(parts[u]) \o buf[u] = digest[u]
                                    /\ Full(parts[u])
           /\ answer[u] = "done" => /\ FlattenSeq(parts[u]) = digest[u]
                                    /\ FullButLast(parts[u])
                                    /\ ~(Len(buf[u]) < PartSize) => Full(parts[u])
           /\ Stable(u) => Prefix(u, digest[u])
           /\ Stable(u) /\ Len(buf[u]) < PartSize => AtEnd(u)
    /\ pc[u] = "completing" =>
           /\ answer[u] # "done" => /\ FlattenSeq(parts[u]) = digest[u]
                                    /\ FullButLast(parts[u])
           /\ answer[u] = "refused" => parts[u] = <<>>

\* Phases in which all has been hashed.
Hashing == Unkeyed \union {"reading", "creating", "filling", "sending", "aborting"}

\* What a call reports: the size, and the hash of the whole.
ReportInv(u) ==
    /\ (pc[u] \notin Unkeyed \union {"done"}) \/ result[u] = "ok"
       => key[u] \in Keys /\ (Stable(u) => size[u] = Len(Payload(u)))
    /\ pc[u] \in {"creating", "filling", "sending", "completing"} => size[u] > 0
    /\ (pc[u] \in {"putting", "completing"}) \/ result[u] = "ok"
       => (Stable(u) => digest[u] = Payload(u))
    /\ (pc[u] \in {"putting", "completing"} /\ answer[u] = "done") \/ result[u] = "ok"
       => \/ objects[key[u]] = digest[u]
          \/ \E v \in Uploads \ {u} : key[v] = key[u]
    /\ result[u] # "none" => pc[u] = "done"
    /\ result[u] = "refused" => digest[u] = <<>> /\ rewrites > 0

\* An object is what some call hashed, all of it.
WrittenBy(k, u) ==
    /\ key[u] = k /\ pc[u] \notin Hashing
    /\ objects[k] = digest[u]
    /\ Stable(u) => digest[u] = Payload(u)

ContentInv ==
    /\ ControlInv
    /\ \A u \in Uploads : ReadInv(u) /\ ReportInv(u)
    /\ \A k \in Keys : objects[k] # NoObject => \E u \in Uploads : WrittenBy(k, u)

\* One more part: those before it must be full.
LEMMA AppendFull ==
    ASSUME NEW ps \in Seq(Seq(Bytes)), NEW b \in Seq(Bytes), Full(ps)
    PROVE  /\ FullButLast(Append(ps, b))
           /\ Len(b) >= MinPartSize => Full(Append(ps, b))
<1> DEFINE n == Len(ps)
           qs == Append(ps, b)
<1>1. /\ n \in Nat /\ DOMAIN ps = 1 .. n
      /\ qs \in Seq(Seq(Bytes)) /\ Len(qs) = n + 1
      /\ \A i \in 1 .. n : qs[i] = ps[i]
      /\ qs[n + 1] = b
  BY AppendProperties, LenProperties
<1>2. DOMAIN qs = 1 .. n + 1
  BY <1>1, LenProperties
<1>3. \A i \in 1 .. n : Len(qs[i]) >= MinPartSize
  BY <1>1 DEF Full
<1> HIDE DEF n, qs
<1>4. \A i \in 1 .. n + 1 : i < n + 1 => i \in 1 .. n
  BY <1>1
<1>5. \A i \in 1 .. n + 1 : i = n + 1 \/ i \in 1 .. n
  BY <1>1
<1>6. FullButLast(qs)
  BY <1>1, <1>2, <1>3, <1>4 DEF FullButLast
<1>7. Len(b) >= MinPartSize => Full(qs)
  BY <1>1, <1>2, <1>3, <1>5 DEF Full
<1> QED  BY <1>6, <1>7 DEF qs

\* The store refuses such parts only if there are none.
LEMMA FullAcceptable ==
    ASSUME NEW ps \in Seq(Seq(Bytes)), FullButLast(ps), ~Acceptable(ps)
    PROVE  ps = <<>>
<1>1. Len(ps) \in Nat /\ DOMAIN ps = 1 .. Len(ps)
  BY LenProperties
<1>2. \A i \in 1 .. Len(ps) - 1 : i \in DOMAIN ps /\ i < Len(ps)
  BY <1>1
<1> QED  BY <1>2 DEF FullButLast, Acceptable

\* A full part is not refused for its size.
LEMMA PartSizeEnough == PartSize \in Nat /\ PartSize >= MinPartSize
BY UploadAssumption DEF PartSize

\* A payload that is stable does not change: others rewrite the source only,
\* and an archive that has been written stays as it is.
LEMMA StableKept ==
    ASSUME ControlInv, [Next]_uploadVars, NEW v \in Uploads, Stable(v)',
           job[v] \notin {"running", "writing"}
    PROVE  Stable(v) /\ Payload(v)' = Payload(v)
<1>0. TypesInv /\ ControlTypes /\ DataTypes
  BY DEF ControlInv, TypesInv
<1>1. CASE Rewrite
  <2>1. rewrites' # 0 /\ mode' = mode /\ archive' = archive
    BY <1>0, <1>1 DEF Rewrite, DataTypes, headVars
  <2> QED  BY <2>1 DEF Stable, Payload
<1>2. CASE Rest \/ Crash \/ UNCHANGED uploadVars
  <2>1. UNCHANGED <<file, rewrites, mode>> /\ archive'[v] = archive[v]
    BY <1>2 DEF Rest, Crash, uploadVars, fileVars, headVars
  <2> QED  BY <2>1 DEF Stable, Payload
<1>3. ASSUME NEW u \in Uploads, Step(u)
      PROVE  Stable(v) /\ Payload(v)' = Payload(v)
  <2>1. file' = file /\ rewrites' = rewrites /\ mode' = mode
    BY <1>3, StepKeeps
  <2>2. archive'[v] = archive[v]
    <3>1. CASE v # u
      BY <1>0, <1>3, <3>1, OthersSame DEF Same
    <3>2. CASE v = u
      <4>1. ~ Pack(u)
        BY <3>2 DEF Pack, PackOpens, PackCopies, PackEnds, PackFails
      <4>2. archive' = archive
        BY <1>3, <4>1 DEF Step, Begin, BeginFails, Packing, Key, StoreAnswers,
           Fill, Put, Stored, Created, SendPart, NoMoreParts, PartSent,
           CompleteRefused, Aborted, Sweep, StreamFails, CallFails, TimesOut,
           Drop, headVars
      <4> QED  BY <4>2
    <3> QED  BY <3>1, <3>2
  <2> QED  BY <2>1, <2>2 DEF Stable, Payload
<1> QED  BY <1>1, <1>2, <1>3 DEF Next

\* A key, once drawn, is kept.
LEMMA KeyKept ==
    ASSUME ControlInv, [Next]_uploadVars, NEW v \in Uploads, key[v] # NoKey
    PROVE  key'[v] = key[v]
<1>0. TypesInv /\ ControlTypes /\ ArchiveInv(v)
  BY DEF ControlInv, TypesInv
<1>1. CASE Rewrite \/ Rest \/ Crash \/ UNCHANGED uploadVars
  BY <1>1 DEF Rewrite, Rest, Crash, uploadVars, headVars
<1>2. ASSUME NEW u \in Uploads, Step(u)
      PROVE  key'[v] = key[v]
  <2>1. CASE v # u
    BY <1>0, <1>2, <2>1, OthersSame DEF Same
  <2>2. CASE v = u
    <3>1. ~ Key(u)
      BY <1>0, <2>2 DEF Key, ArchiveInv, Unkeyed
    <3> QED  BY <1>2, <3>1 DEF Step, Begin, BeginFails, Pack, Packing,
           StoreAnswers, Fill, Put, Stored, Created, SendPart, NoMoreParts,
           PartSent, CompleteRefused, Aborted, Sweep, StreamFails, CallFails,
           TimesOut, Drop, headVars
  <2> QED  BY <2>1, <2>2
<1> QED  BY <1>1, <1>2 DEF Next

\* The phases in which a call reads have seen the end of the packing.
LEMMA PackingOver ==
    ASSUME ControlInv, NEW v \in Uploads, key[v] # NoKey \/ pc[v] = "keying"
    PROVE  job[v] \notin {"running", "writing"}
BY DEF ControlInv, ArchiveInv, TypesInv, ControlTypes

\* What a call has read stays so while others take their steps.
LEMMA ReadFrame ==
    ASSUME NEW v, ReadInv(v),
           pc'[v] = pc[v], answer'[v] = answer[v], parts'[v] = parts[v],
           off'[v] = off[v], buf'[v] = buf[v], digest'[v] = digest[v],
           pc[v] \notin Unkeyed \union {"done"} /\ Stable(v)'
           => Stable(v) /\ Payload(v)' = Payload(v)
    PROVE  ReadInv(v)'
BY DEF ReadInv, Prefix, AtEnd, Unkeyed

\* A call that neither reads nor sends is not bound to anything.
LEMMA ReadIdle ==
    ASSUME NEW v,
           \/ pc'[v] \in {"done", "aborting"}
           \/ pc'[v] \in Unkeyed \union {"creating"} /\ parts'[v] = <<>>
    PROVE  ReadInv(v)'
BY DEF ReadInv, Unkeyed

\* The steps of a call keep what it has read a prefix of its payload.
LEMMA ReadOwnStep ==
    ASSUME ContentInv, NEW u \in Uploads, Step(u)
    PROVE  ReadInv(u)'
<1> USE DEF ctlVars, lateVars, endVars, storeVars, fileVars, headVars,
            streamVars, bodyVars
<1> DEFINE P == Payload(u)
<1>0. /\ ControlInv /\ TypesInv /\ ControlTypes /\ DataTypes
      /\ ReadInv(u) /\ ArchiveInv(u) /\ Lengths(u)
  BY DEF ContentInv, ControlInv, TypesInv
<1>a. /\ P \in Seq(Bytes) /\ Len(P) \in Nat /\ off[u] \in Nat
      /\ buf[u] \in Seq(Bytes) /\ digest[u] \in Seq(Bytes)
      /\ parts[u] \in Seq(Seq(Bytes))
  BY <1>0, PayloadSeq DEF DataTypes
<1>b. ASSUME Stable(u)', key[u] # NoKey \/ pc[u] = "keying"
      PROVE  Stable(u) /\ Payload(u)' = P
  BY <1>0, <1>b, StableKept, PackingOver DEF Next
<1>c. pc[u] \notin Unkeyed \union {"done"} => key[u] # NoKey
  BY <1>0, NoKeyIsNone DEF ArchiveInv
<1>d. FlattenSeq(<<>>) = <<>> /\ Full(<<>>)
  BY FlattenEmpty DEF Full
<1>1. CASE BeginFails(u) \/ Stored(u) \/ Aborted(u) \/ CompleteRefused(u)
           \/ CallFails(u) \/ TimesOut(u) \/ Drop(u)
  <2>1. \E r : End(u, r)
    BY <1>1 DEF BeginFails, Stored, Aborted, CompleteRefused, CallFails,
                TimesOut, Drop
  <2> QED  BY <1>0, <2>1, EndIs, ReadIdle
<1>2. CASE Begin(u)
  <2>1. pc'[u] \in Unkeyed /\ parts'[u] = <<>>
    BY <1>0, <1>2 DEF Begin, Goto, ControlTypes, ReadInv, Unkeyed
  <2> QED  BY <2>1, ReadIdle
<1>3. CASE Packing(u)
  <2>1. CASE End(u, "failed")
    BY <1>0, <2>1, EndIs, ReadIdle
  <2>2. CASE Goto(u, "keying")
    <3>1. pc'[u] \in Unkeyed /\ parts'[u] = <<>>
      BY <1>0, <1>3, <2>2 DEF Packing, Goto, ControlTypes, ReadInv, Unkeyed
    <3> QED  BY <3>1, ReadIdle
  <2> QED  BY <1>3, <2>1, <2>2 DEF Packing
<1>4. CASE Pack(u)
  <2>1. pc[u] \in {"packing", "done"} /\ pc'[u] = pc[u] /\ parts'[u] = parts[u]
    BY <1>0, <1>4 DEF Pack, PackOpens, PackCopies, PackEnds, PackFails,
                      ArchiveInv, ControlTypes
  <2> QED  BY <1>0, <2>1, ReadIdle DEF ReadInv, Unkeyed
<1>5. CASE Sweep(u)
  <2>1. pc'[u] = "done"
    BY <1>5 DEF Sweep, ContentInv, ControlInv, SessionInv
  <2> QED  BY <2>1, ReadIdle
<1>6. CASE StreamFails(u)
  <2>1. pc'[u] = "aborting"
    BY <1>0, <1>6 DEF StreamFails, StreamError, Goto, ControlTypes
  <2> QED  BY <2>1, ReadIdle
<1>7. CASE Key(u)
  <2>1. /\ pc[u] = "keying" /\ pc'[u] \in {"creating", "reading"}
        /\ parts'[u] = <<>> /\ off'[u] = 0 /\ buf'[u] = <<>>
    BY <1>0, <1>7 DEF Key, Goto, ControlTypes, ReadInv, Lengths, Unkeyed
  <2>2. SubSeq(P, 1, 0) = <<>> /\ 0 <= Len(P)
    BY <1>a, SubSeqEmpty
  <2>3. Stable(u)' => Prefix(u, buf[u])'
    <3> HIDE DEF P
    <3> QED  BY <1>b, <2>1, <2>2 DEF Prefix
  <2> QED  BY <2>1, <2>3 DEF ReadInv, Unkeyed
<1>8. CASE Created(u)
  <2>1. /\ pc[u] = "creating" /\ pc'[u] = "filling"
        /\ parts'[u] = <<>> /\ off'[u] = 0 /\ buf'[u] = <<>> /\ digest'[u] = <<>>
    BY <1>0, <1>8 DEF Created, Goto, ControlTypes, ReadInv, Lengths
  <2>2. SubSeq(P, 1, 0) = <<>> /\ 0 <= Len(P)
    BY <1>a, SubSeqEmpty
  <2>3. digest'[u] \o buf'[u] = <<>>
    <3>1. <<>> \in Seq(Bytes)
      BY EmptySeq
    <3> QED  BY <2>1, <3>1, EmptyConcat
  <2>4. Stable(u)' => Prefix(u, digest[u] \o buf[u])'
    <3> HIDE DEF P
    <3> QED  BY <1>b, <1>c, <2>1, <2>2, <2>3 DEF Prefix, Unkeyed
  <2> QED  BY <1>d, <2>1, <2>4 DEF ReadInv, Unkeyed
<1>9. CASE Fill(u)
  <2>1. /\ pc'[u] = pc[u] /\ pc[u] \in {"reading", "filling"}
        /\ parts'[u] = parts[u] /\ digest'[u] = digest[u]
        /\ off'[u] = off[u] + 1 /\ buf'[u] = Append(buf[u], P[off[u] + 1])
    BY <1>0, <1>9 DEF Fill, DataTypes
  <2>2. off[u] < Len(P)
    BY <1>a, <1>9 DEF Fill, AtEnd
  <2>3. off[u] + 1 <= Len(P)
    BY <1>a, <2>2
  <2>4. \A d \in Seq(Bytes) : d \o buf[u] = SubSeq(P, 1, off[u])
                              => d \o buf'[u] = SubSeq(P, 1, off'[u])
    <3> HIDE DEF P
    <3> SUFFICES ASSUME NEW d \in Seq(Bytes),
                        d \o buf[u] = SubSeq(P, 1, off[u])
                 PROVE  d \o buf'[u] = SubSeq(P, 1, off'[u])
      OBVIOUS
    <3>1. d \o Append(buf[u], P[off[u] + 1]) = SubSeq(P, 1, off[u] + 1)
      <4>1. /\ P \in Seq(Bytes) /\ buf[u] \in Seq(Bytes) /\ off[u] \in Nat
            /\ off[u] < Len(P)
        BY <1>a, <2>2
      <4> QED  BY <4>1, ReadOne
    <3> QED  BY <2>1, <3>1
  <2>5. <<>> \in Seq(Bytes) /\ <<>> \o buf[u] = buf[u]
    BY <1>a, EmptySeq, EmptyConcat
  <2>6. <<>> \o buf'[u] = buf'[u]
    <3>1. buf'[u] \in Seq(Bytes)
      <4>1. off[u] + 1 \in 1 .. Len(P)
        BY <1>a, <2>2
      <4>2. P[off[u] + 1] \in Bytes
        BY <1>a, <4>1, ElementOfSeq
      <4> QED  BY <1>a, <2>1, <4>2, AppendProperties
    <3> QED  BY <3>1, EmptyConcat
  <2> HIDE DEF P
  <2>7. Stable(u)' => Stable(u) /\ Payload(u)' = P
    BY <1>b, <1>c, <2>1 DEF Unkeyed
  <2>8. pc[u] = "reading" /\ Stable(u)' => Prefix(u, buf[u])'
    <3> SUFFICES ASSUME pc[u] = "reading", Stable(u)'
                 PROVE  Prefix(u, buf[u])'
      OBVIOUS
    <3>1. buf[u] = SubSeq(P, 1, off[u])
      BY <1>0, <2>7 DEF ReadInv, Prefix, P
    <3>2. buf'[u] = SubSeq(P, 1, off'[u])
      BY <2>4, <2>5, <2>6, <3>1
    <3> QED  BY <2>1, <2>3, <2>7, <3>2 DEF Prefix
  <2>9. pc[u] = "filling" /\ Stable(u)' => Prefix(u, digest[u] \o buf[u])'
    <3> SUFFICES ASSUME pc[u] = "filling", Stable(u)'
                 PROVE  Prefix(u, digest[u] \o buf[u])'
      OBVIOUS
    <3>1. digest[u] \o buf[u] = SubSeq(P, 1, off[u])
      BY <1>0, <2>7 DEF ReadInv, Prefix, P
    <3>2. digest'[u] \o buf'[u] = SubSeq(P, 1, off'[u])
      BY <1>a, <2>1, <2>4, <3>1
    <3> QED  BY <2>1, <2>3, <2>7, <3>2 DEF Prefix
  <2> QED  BY <1>0, <2>1, <2>8, <2>9 DEF ReadInv, Unkeyed
<1>10. CASE Put(u)
  <2>1. pc'[u] = "putting" /\ parts'[u] = <<>> /\ digest'[u] = buf'[u]
    BY <1>0, <1>10 DEF Put, Goto, ControlTypes, DataTypes, ReadInv, Unkeyed
  <2> QED  BY <2>1 DEF ReadInv, Unkeyed
<1>11. CASE SendPart(u)
  <2>1. /\ pc[u] = "filling" /\ pc'[u] = "sending" /\ answer'[u] = "none"
        /\ parts'[u] = parts[u] /\ buf'[u] = buf[u] /\ off'[u] = off[u]
        /\ digest'[u] = digest[u] \o buf[u]
    BY <1>0, <1>11 DEF SendPart, Hashed, Goto, ControlTypes, DataTypes
  <2>2. AtEnd(u) \/ Len(buf[u]) = PartSize
    BY <1>11 DEF SendPart
  <2>3. ~(Len(buf[u]) < PartSize) \/ AtEnd(u)
    BY <2>2, PartSizeEnough
  <2> HIDE DEF P
  <2>4. Stable(u)' => Stable(u) /\ Payload(u)' = P
    BY <1>b, <1>c, <2>1 DEF Unkeyed
  <2>5. Stable(u)' => Prefix(u, digest[u])'
    BY <1>0, <2>1, <2>4 DEF ReadInv, Prefix, P
  <2>6. Stable(u)' /\ Len(buf'[u]) < PartSize => AtEnd(u)'
    BY <2>1, <2>3, <2>4 DEF AtEnd, P
  <2> QED  BY <1>0, <2>1, <2>5, <2>6 DEF ReadInv, Unkeyed
<1>12. CASE StoreAnswers(u)
  <2>1. /\ pc'[u] = pc[u] /\ off'[u] = off[u] /\ buf'[u] = buf[u]
        /\ digest'[u] = digest[u] /\ pc[u] \in Requests /\ answer[u] = "none"
    BY <1>12 DEF StoreAnswers, Waiting
  <2>2. Stable(u)' => Stable(u) /\ Payload(u)' = P
    BY <1>b, <1>c, <2>1 DEF Unkeyed, Requests
  <2>3. CASE pc[u] = "sending"
    <3>1. answer'[u] = "done" /\ parts'[u] = Append(parts[u], buf[u])
      BY <1>0, <1>12, <2>3 DEF StoreAnswers, Effect, ControlTypes, DataTypes
    <3>2. FlattenSeq(parts'[u]) = digest'[u]
      BY <1>0, <1>a, <2>1, <2>3, <3>1, FlattenAppend DEF ReadInv
    <3>3. Full(parts[u])
      BY <1>0, <2>1, <2>3 DEF ReadInv
    <3>4. Len(buf[u]) \in Nat
      BY <1>a, LenProperties
    <3>5. ~(Len(buf[u]) < PartSize) => Len(buf[u]) >= MinPartSize
      BY <3>4, PartSizeEnough, UploadAssumption
    <3>6. /\ FullButLast(parts'[u])
          /\ ~(Len(buf[u]) < PartSize) => Full(parts'[u])
      BY <1>a, <3>1, <3>3, <3>5, AppendFull
    <3>7. Stable(u)' => Prefix(u, digest[u])'
      BY <1>0, <2>1, <2>2, <2>3 DEF ReadInv, Prefix
    <3>8. Stable(u)' /\ Len(buf'[u]) < PartSize => AtEnd(u)'
      BY <1>0, <2>1, <2>2, <2>3 DEF ReadInv, AtEnd
    <3> QED  BY <2>1, <2>3, <3>1, <3>2, <3>6, <3>7, <3>8 DEF ReadInv, Unkeyed
  <2>4. CASE pc[u] = "completing"
    <3>1. CASE answer'[u] = "done"
      BY <2>1, <2>4, <3>1 DEF ReadInv, Unkeyed
    <3>2. CASE answer'[u] # "done"
      <4>1. ~Acceptable(parts[u]) /\ parts'[u] = parts[u]
        BY <1>0, <1>12, <3>2 DEF StoreAnswers, ControlTypes
      <4>2. FullButLast(parts[u]) /\ FlattenSeq(parts[u]) = digest[u]
        BY <1>0, <2>1, <2>4 DEF ReadInv
      <4>3. parts[u] = <<>>
        BY <1>a, <4>1, <4>2, FullAcceptable
      <4> QED  BY <2>1, <2>4, <4>1, <4>2, <4>3 DEF ReadInv, Unkeyed
    <3> QED  BY <3>1, <3>2
  <2>5. CASE pc[u] \in {"putting", "creating"}
    <3>1. parts'[u] = parts[u]
      BY <1>12, <2>5 DEF StoreAnswers, Effect
    <3> QED  BY <1>0, <2>1, <2>5, <3>1 DEF ReadInv, Unkeyed
  <2>6. CASE pc[u] = "aborting"
    BY <2>1, <2>6, ReadIdle
  <2> QED  BY <2>1, <2>3, <2>4, <2>5, <2>6 DEF Requests
<1>13. CASE PartSent(u)
  <2>1. /\ pc[u] = "sending" /\ answer[u] = "done" /\ answer'[u] = "none"
        /\ parts'[u] = parts[u] /\ buf'[u] = <<>> /\ off'[u] = off[u]
        /\ digest'[u] = digest[u]
        /\ pc'[u] = IF Len(buf[u]) < PartSize THEN "completing" ELSE "filling"
    BY <1>0, <1>13 DEF PartSent, NextBuffer, Goto, ControlTypes, DataTypes
  <2>2. CASE Len(buf[u]) < PartSize
    BY <1>0, <2>1, <2>2 DEF ReadInv, Unkeyed
  <2>3. CASE ~(Len(buf[u]) < PartSize)
    <3>1. Stable(u)' => Stable(u) /\ Payload(u)' = P
      BY <1>b, <1>c, <2>1 DEF Unkeyed
    <3>2. digest'[u] \o buf'[u] = digest[u]
      BY <1>a, <2>1, EmptyConcat
    <3>3. Stable(u)' => Prefix(u, digest[u] \o buf[u])'
      BY <1>0, <2>1, <3>1, <3>2 DEF ReadInv, Prefix
    <3> QED  BY <1>0, <2>1, <2>3, <3>3 DEF ReadInv, Unkeyed
  <2> QED  BY <2>2, <2>3
<1>14. CASE NoMoreParts(u)
  <2>1. /\ pc[u] = "filling" /\ pc'[u] = "completing" /\ answer'[u] = "none"
        /\ parts'[u] = parts[u] /\ digest'[u] = digest[u]
    BY <1>0, <1>14 DEF NoMoreParts, Goto, ControlTypes
  <2>2. FlattenSeq(parts[u]) = digest[u] /\ Full(parts[u])
    BY <1>0, <2>1 DEF ReadInv
  <2>3. FullButLast(parts[u])
    BY <2>2 DEF Full, FullButLast
  <2> QED  BY <2>1, <2>2, <2>3 DEF ReadInv, Unkeyed
<1> QED  BY <1>1, <1>2, <1>3, <1>4, <1>5, <1>6, <1>7, <1>8, <1>9, <1>10,
            <1>11, <1>12, <1>13, <1>14 DEF Step

\* What the store writes, it writes of one call, and it is what that hashed.
LEMMA StoreWrites ==
    ASSUME ContentInv, NEW u \in Uploads, Waiting(u), Effect(u)
    PROVE  \/ objects' = objects
           \/ /\ pc[u] \in {"putting", "completing"}
              /\ objects' = [objects EXCEPT ![key[u]] = digest[u]]
<1>1. ReadInv(u)
  BY DEF ContentInv
<1>2. answer[u] # "done"
  BY DEF Waiting
<1> QED  BY <1>1, <1>2 DEF Effect, ReadInv

\* So does any step of a call.
LEMMA StepWrites ==
    ASSUME ContentInv, NEW u \in Uploads, Step(u)
    PROVE  \/ objects' = objects
           \/ /\ pc[u] \in {"putting", "completing"}
              /\ objects' = [objects EXCEPT ![key[u]] = digest[u]]
<1>1. objects' = objects \/ (Waiting(u) /\ Effect(u))
  BY DEF Step, Begin, BeginFails, Pack, Packing, Key, StoreAnswers, Fill, Put,
         Stored, Created, SendPart, NoMoreParts, PartSent, CompleteRefused,
         Aborted, Sweep, StreamFails, CallFails, TimesOut, Drop, MaySettle,
         storeVars
<1> QED  BY <1>1, StoreWrites

\* A call that has hashed all neither hashes more nor starts again.
LEMMA SettledKept ==
    ASSUME ContentInv, [Next]_uploadVars, NEW v \in Uploads,
           pc[v] \notin Hashing
    PROVE  pc'[v] \notin Hashing /\ digest'[v] = digest[v]
<1> USE DEF Hashing, Unkeyed
<1>0. TypesInv /\ ControlTypes /\ DataTypes /\ SessionInv(v)
  BY DEF ContentInv, ControlInv, TypesInv
<1>1. CASE Rewrite \/ Rest \/ Crash \/ UNCHANGED uploadVars
  BY <1>1 DEF Rewrite, Rest, Crash, uploadVars, ctlVars, streamVars
<1>2. ASSUME NEW u \in Uploads, Step(u)
      PROVE  pc'[v] \notin Hashing /\ digest'[v] = digest[v]
  <2>1. CASE v # u
    BY <1>0, <1>2, <2>1, OthersSame DEF Same
  <2>2. CASE v = u
    <3>0. pc[u] \in {"putting", "completing", "done"}
      BY <1>0, <2>2 DEF ControlTypes, Phases, Requests
    <3>1. CASE Stored(u) \/ CompleteRefused(u) \/ CallFails(u)
               \/ TimesOut(u) \/ Drop(u)
      <4>1. (\E r : End(u, r)) /\ digest' = digest
        BY <3>1 DEF Stored, CompleteRefused, CallFails, TimesOut, Drop
      <4> QED  BY <1>0, <2>2, <4>1, EndIs
    <3>2. CASE Pack(u) \/ StoreAnswers(u) \/ Sweep(u)
      BY <2>2, <3>2 DEF Pack, StoreAnswers, Sweep, ctlVars, streamVars
    <3> QED  BY <1>2, <2>2, <3>0, <3>1, <3>2 DEF Step, Begin, BeginFails,
                Packing, Key, Fill, Put, Created, SendPart, NoMoreParts,
                PartSent, Aborted, StreamFails
  <2> QED  BY <2>1, <2>2
<1> QED  BY <1>1, <1>2 DEF Next

-----------------------------------------------------------------------------
(* What a call reports.                                                    *)

\* The report of a call stands while others take their steps.
LEMMA ReportFrame ==
    ASSUME NEW v \in Uploads, ReportInv(v),
           pc'[v] = pc[v], answer'[v] = answer[v], result'[v] = result[v],
           key'[v] = key[v], size'[v] = size[v], digest'[v] = digest[v],
           rewrites > 0 => rewrites' > 0,
           key[v] \in Keys /\ Stable(v)' => Stable(v) /\ Payload(v)' = Payload(v),
           key[v] \in Keys =>
               /\ \/ objects'[key[v]] = objects[key[v]]
                  \/ \E w \in Uploads \ {v} : key[w] = key[v]
               /\ \A w \in Uploads : key[w] = key[v] => key'[w] = key[w]
    PROVE  ReportInv(v)'
<1>1. \/ pc[v] \in Unkeyed \/ (pc[v] = "done" /\ result[v] # "ok")
      \/ key[v] \in Keys
  BY DEF ReportInv
<1>2. CASE pc[v] \in Unkeyed \/ (pc[v] = "done" /\ result[v] # "ok")
  BY <1>2 DEF ReportInv, Unkeyed
<1>3. CASE key[v] \in Keys
  BY <1>3 DEF ReportInv
<1> QED  BY <1>1, <1>2, <1>3

\* A call that ends without success has nothing to report.
LEMMA ReportEnd ==
    ASSUME ControlTypes, NEW u \in Uploads, NEW r, End(u, r),
           r \notin {"ok", "refused"}
    PROVE  ReportInv(u)'
<1>1. pc'[u] = "done" /\ result'[u] = r
  BY EndIs
<1> QED  BY <1>1 DEF ReportInv, Unkeyed

\* The steps of a call keep its report.
LEMMA ReportOwnStep ==
    ASSUME ContentInv, NEW u \in Uploads, Step(u)
    PROVE  ReportInv(u)'
<1> USE DEF ctlVars, lateVars, endVars, storeVars, fileVars, headVars,
            streamVars, bodyVars
<1> DEFINE P == Payload(u)
<1>0. /\ ControlInv /\ TypesInv /\ ControlTypes /\ DataTypes
      /\ ReadInv(u) /\ ArchiveInv(u) /\ ReportInv(u)
  BY DEF ContentInv, ControlInv, TypesInv
<1>a. /\ P \in Seq(Bytes) /\ Len(P) \in Nat /\ off[u] \in Nat
      /\ buf[u] \in Seq(Bytes) /\ digest[u] \in Seq(Bytes)
  BY <1>0, PayloadSeq DEF DataTypes
<1>b. ASSUME Stable(u)', key[u] # NoKey \/ pc[u] = "keying"
      PROVE  Stable(u) /\ Payload(u)' = P
  BY <1>0, <1>b, StableKept, PackingOver DEF Next
<1>c. pc[u] \notin Unkeyed \union {"done"} => key[u] # NoKey /\ key[u] \in Keys
  BY <1>0, NoKeyIsNone DEF ArchiveInv
<1>d. pc[u] # "done" => result[u] = "none"
  BY <1>0 DEF ReportInv
<1>1. CASE BeginFails(u) \/ Aborted(u) \/ CallFails(u) \/ TimesOut(u) \/ Drop(u)
  <2>1. \E r : End(u, r) /\ r \notin {"ok", "refused"}
    BY <1>1 DEF BeginFails, Aborted, CallFails, TimesOut, Drop
  <2> QED  BY <1>0, <2>1, ReportEnd
<1>2. CASE Begin(u)
  <2>1. pc'[u] \in Unkeyed /\ result'[u] = "none"
    BY <1>0, <1>d, <1>2 DEF Begin, Goto, ControlTypes, Unkeyed
  <2> QED  BY <2>1 DEF ReportInv, Unkeyed
<1>3. CASE Packing(u)
  <2>1. CASE End(u, "failed")
    BY <1>0, <2>1, ReportEnd
  <2>2. CASE Goto(u, "keying") /\ UNCHANGED bodyVars
    <3>1. pc'[u] \in Unkeyed /\ result'[u] = "none"
      BY <1>0, <1>d, <1>3, <2>2 DEF Packing, Goto, ControlTypes, Unkeyed
    <3> QED  BY <3>1 DEF ReportInv, Unkeyed
  <2> QED  BY <1>3, <2>1, <2>2 DEF Packing
<1>4. CASE Pack(u)
  <2>1. pc[u] \in {"packing", "done"} /\ pc'[u] = pc[u] /\ key[u] \notin Keys
    BY <1>0, <1>4, NoKeyIsNone
    DEF Pack, PackOpens, PackCopies, PackEnds, PackFails, ArchiveInv, ControlTypes
  <2> QED  BY <1>0, <1>4, <2>1 DEF Pack, ReportInv, Unkeyed
<1>5. CASE Sweep(u)
  <2>1. /\ rewrites' = rewrites
        /\ UNCHANGED <<pc, answer, result, key, size, digest, objects>>
    BY <1>5 DEF Sweep
  <2>2. key[u] \in Keys => key[u] # NoKey
    BY NoKeyIsNone
  <2> HIDE DEF P
  <2>3. key[u] \in Keys /\ Stable(u)' => Stable(u) /\ Payload(u)' = Payload(u)
    BY <1>b, <2>2 DEF P
  <2> QED  BY <1>0, <2>1, <2>3, ReportFrame
<1>6. CASE Key(u)
  <2>1. /\ pc[u] = "keying" /\ pc'[u] \in {"creating", "reading"}
        /\ pc'[u] = "creating" => size'[u] > Threshold
        /\ key'[u] \in Keys /\ size'[u] = Len(P) /\ result'[u] = "none"
    BY <1>0, <1>d, <1>6 DEF Key, Keys, Goto, ControlTypes, DataTypes
  <2>2. pc'[u] = "creating" => size'[u] > 0
    BY <1>a, <2>1, UploadAssumption
  <2> QED  BY <1>b, <2>1, <2>2 DEF ReportInv, Unkeyed
<1>7. CASE Fill(u) \/ Created(u) \/ SendPart(u) \/ StreamFails(u)
  <2>1. /\ pc[u] \in {"reading", "creating", "filling", "sending"}
        /\ pc'[u] \in {"reading", "filling", "sending", "aborting"}
        /\ pc[u] = "reading" => pc'[u] = "reading"
        /\ key'[u] = key[u] /\ size'[u] = size[u] /\ result'[u] = "none"
    BY <1>0, <1>d, <1>7 DEF Fill, Created, SendPart, StreamFails, StreamError,
                            Goto, ControlTypes
  <2> QED  BY <1>0, <1>b, <1>c, <2>1 DEF ReportInv, Unkeyed
<1>8. CASE Put(u)
  <2>1. /\ pc[u] = "reading" /\ pc'[u] = "putting" /\ answer'[u] = "none"
        /\ key'[u] = key[u] /\ size'[u] = size[u] /\ result'[u] = "none"
        /\ digest'[u] = buf[u]
    BY <1>0, <1>d, <1>8 DEF Put, Goto, ControlTypes, DataTypes
  <2>2. Stable(u) => buf[u] = P
    BY <1>0, <1>a, <1>8, <2>1, ReadAll DEF Put, AtEnd, ReadInv, Prefix
  <2> QED  BY <1>0, <1>b, <1>c, <2>1, <2>2 DEF ReportInv, Unkeyed
<1>9. CASE PartSent(u) \/ NoMoreParts(u)
  <2>1. /\ pc[u] \in {"sending", "filling"}
        /\ pc'[u] \in {"completing", "filling"} /\ answer'[u] = "none"
        /\ key'[u] = key[u] /\ size'[u] = size[u] /\ result'[u] = "none"
        /\ digest'[u] = digest[u]
    BY <1>0, <1>d, <1>9 DEF PartSent, NoMoreParts, Goto, ControlTypes
  <2>2. Stable(u) /\ pc'[u] = "completing" => AtEnd(u) /\ Prefix(u, digest[u])
    <3>1. CASE NoMoreParts(u)
      BY <1>0, <1>a, <3>1, EmptyConcat DEF NoMoreParts, ReadInv, Prefix
    <3>2. CASE PartSent(u) /\ Len(buf[u]) < PartSize
      BY <1>0, <3>2 DEF PartSent, ReadInv
    <3>3. CASE PartSent(u) /\ ~(Len(buf[u]) < PartSize)
      BY <1>0, <3>3 DEF PartSent, Goto, ControlTypes
    <3> QED  BY <1>9, <3>1, <3>2, <3>3
  <2>3. Stable(u) /\ pc'[u] = "completing" => digest[u] = P
    BY <1>a, <2>2, ReadAll DEF AtEnd, Prefix
  <2> QED  BY <1>0, <1>b, <1>c, <2>1, <2>3 DEF ReportInv, Unkeyed
<1>10. CASE StoreAnswers(u)
  <2>1. /\ pc'[u] = pc[u] /\ pc[u] \in Requests /\ answer[u] = "none"
        /\ key'[u] = key[u] /\ size'[u] = size[u] /\ result'[u] = "none"
        /\ digest'[u] = digest[u]
    BY <1>d, <1>10 DEF StoreAnswers, Waiting, Requests
  <2>2. pc[u] \in {"putting", "completing"} /\ answer'[u] = "done"
        => objects'[key[u]] = digest[u]
    <3> SUFFICES ASSUME pc[u] \in {"putting", "completing"}, answer'[u] = "done"
                 PROVE  objects'[key[u]] = digest[u]
      OBVIOUS
    <3>1. Effect(u)
      BY <1>0, <1>10 DEF StoreAnswers, ControlTypes
    <3>2. key[u] \in Keys
      BY <1>c DEF Unkeyed
    <3> QED  BY <1>0, <2>1, <3>1, <3>2 DEF Effect, ReadInv, DataTypes
  <2> QED  BY <1>0, <1>b, <1>c, <2>1, <2>2 DEF ReportInv, Unkeyed, Requests
<1>11. CASE Stored(u)
  <2>1. /\ pc[u] \in {"putting", "completing"} /\ answer[u] = "done"
        /\ pc'[u] = "done" /\ result'[u] = "ok"
        /\ key' = key /\ size'[u] = size[u]
        /\ digest'[u] = digest[u] /\ objects' = objects
    BY <1>0, <1>11, EndIs DEF Stored
  <2> QED  BY <1>0, <1>b, <1>c, <2>1 DEF ReportInv, Unkeyed
<1>12. CASE CompleteRefused(u)
  <2>1. /\ pc[u] = "completing" /\ answer[u] = "refused"
        /\ pc'[u] = "done" /\ result'[u] = "refused"
        /\ digest'[u] = digest[u] /\ rewrites' = rewrites
    BY <1>0, <1>12, EndIs DEF CompleteRefused
  <2>2. digest[u] = <<>>
    BY <1>0, <2>1, FlattenEmpty DEF ReadInv
  <2>3. ~Stable(u)
    <3> SUFFICES ASSUME Stable(u)
                 PROVE  FALSE
      OBVIOUS
    <3>1. P = <<>> /\ size[u] = Len(P) /\ size[u] > 0
      BY <1>0, <2>1, <2>2 DEF ReportInv, Unkeyed
    <3>2. Len(P) = 0
      BY <3>1, EmptySeq
    <3> QED  BY <3>1, <3>2
  <2>4. rewrites > 0
    BY <1>0, <2>3 DEF Stable, DataTypes
  <2> QED  BY <2>1, <2>2, <2>4 DEF ReportInv, Unkeyed
<1> QED  BY <1>1, <1>2, <1>3, <1>4, <1>5, <1>6, <1>7, <1>8, <1>9, <1>10,
            <1>11, <1>12 DEF Step

-----------------------------------------------------------------------------
(* What is stored.                                                         *)

\* At first nothing is read, stored or reported.
LEMMA ContentInit == Init => ContentInv
<1> SUFFICES ASSUME Init
             PROVE  ContentInv
  OBVIOUS
<1>1. ControlInv
  BY ControlInit
<1>2. ASSUME NEW u \in Uploads
      PROVE  ReadInv(u) /\ ReportInv(u)
  <2>1. pc[u] = "idle" /\ parts[u] = <<>> /\ result[u] = "none"
    BY DEF Init
  <2> QED  BY <2>1 DEF ReadInv, ReportInv, Unkeyed
<1>3. \A k \in Keys : objects[k] = NoObject
  BY DEF Init
<1> QED  BY <1>1, <1>2, <1>3 DEF ContentInv

\* Any step writes one object at most, and it is what one call hashed.
LEMMA NextWrites ==
    ASSUME ContentInv, [Next]_uploadVars
    PROVE  \/ objects' = objects
           \/ \E u \in Uploads :
                 /\ pc[u] \in {"putting", "completing"}
                 /\ objects' = [objects EXCEPT ![key[u]] = digest[u]]
<1>1. CASE Rewrite \/ Rest \/ UNCHANGED uploadVars
  BY <1>1 DEF Rewrite, Rest, uploadVars, storeVars
<1>2. CASE Crash
  <2>1. CASE UNCHANGED storeVars
    BY <2>1 DEF storeVars
  <2>2. ASSUME NEW u \in Uploads, Waiting(u), Effect(u)
        PROVE  \/ objects' = objects
               \/ /\ pc[u] \in {"putting", "completing"}
                  /\ objects' = [objects EXCEPT ![key[u]] = digest[u]]
    BY <2>2, StoreWrites
  <2> QED  BY <1>2, <2>1, <2>2 DEF Crash
<1>3. ASSUME NEW u \in Uploads, Step(u)
      PROVE  \/ objects' = objects
             \/ /\ pc[u] \in {"putting", "completing"}
                /\ objects' = [objects EXCEPT ![key[u]] = digest[u]]
  BY <1>3, StepWrites
<1> QED  BY <1>1, <1>2, <1>3 DEF Next

\* Every step leaves only whole objects.
LEMMA ObjectsStep ==
    ASSUME ContentInv, [Next]_uploadVars, NEW k \in Keys,
           objects'[k] # NoObject
    PROVE  \E u \in Uploads : WrittenBy(k, u)'
<1>0. /\ ControlInv /\ DataTypes
      /\ \A u \in Uploads : ReportInv(u) /\ ArchiveInv(u)
  BY DEF ContentInv, ControlInv, TypesInv
<1>1. ASSUME NEW u \in Uploads, key[u] = k, pc[u] \notin Hashing,
             objects'[k] = digest[u], Stable(u) => digest[u] = Payload(u)
      PROVE  WrittenBy(k, u)'
  <2>1. key[u] # NoKey
    BY <1>1, NoKeyIsNone
  <2>2. key'[u] = k /\ pc'[u] \notin Hashing /\ digest'[u] = digest[u]
    BY <1>0, <1>1, <2>1, KeyKept, SettledKept
  <2>3. Stable(u)' => Stable(u) /\ Payload(u)' = Payload(u)
    BY <1>0, <2>1, StableKept, PackingOver
  <2> QED  BY <1>1, <2>2, <2>3 DEF WrittenBy
<1>2. CASE objects'[k] = objects[k]
  <2>1. PICK u \in Uploads : WrittenBy(k, u)
    BY <1>2 DEF ContentInv
  <2> QED  BY <1>1, <1>2, <2>1 DEF WrittenBy
<1>3. CASE objects'[k] # objects[k]
  <2>1. PICK u \in Uploads :
           /\ pc[u] \in {"putting", "completing"}
           /\ objects' = [objects EXCEPT ![key[u]] = digest[u]]
    BY <1>3, NextWrites
  <2>2. key[u] = k /\ objects'[k] = digest[u]
    BY <1>0, <1>3, <2>1 DEF DataTypes
  <2>3. pc[u] \notin Hashing /\ (Stable(u) => digest[u] = Payload(u))
    BY <1>0, <2>1 DEF ReportInv, Hashing, Unkeyed
  <2> QED  BY <1>1, <2>2, <2>3
<1> QED  BY <1>2, <1>3

\* Every step keeps what is read, stored and reported.
LEMMA ContentInvStep == ContentInv /\ [Next]_uploadVars => ContentInv'
<1> SUFFICES ASSUME ContentInv, [Next]_uploadVars
             PROVE  ContentInv'
  OBVIOUS
<1>0. /\ ControlInv /\ TypesInv /\ ControlTypes /\ DataTypes
      /\ \A u \in Uploads : ReadInv(u) /\ ReportInv(u) /\ ArchiveInv(u)
  BY DEF ContentInv, ControlInv, TypesInv
<1>1. ControlInv'
  BY <1>0, ControlInvStep
<1>2. ASSUME NEW v \in Uploads, [\E u \in Uploads \ {v} : Step(u)]_uploadVars
                                \/ Rewrite \/ Rest
                                \/ (Crash /\ pc[v] \in {"idle", "done"})
      PROVE  ReadInv(v)' /\ ReportInv(v)'
  <2>1. /\ pc'[v] = pc[v] /\ answer'[v] = answer[v] /\ parts'[v] = parts[v]
        /\ off'[v] = off[v] /\ buf'[v] = buf[v] /\ digest'[v] = digest[v]
        /\ result'[v] = result[v] /\ size'[v] = size[v] /\ key'[v] = key[v]
        /\ rewrites > 0 => rewrites' > 0
    <3>1. CASE \E u \in Uploads \ {v} : Step(u)
      BY <1>0, <3>1, OthersSame, StepKeeps DEF Same
    <3>2. CASE Rewrite
      BY <1>0, <3>2 DEF Rewrite, ctlVars, endVars, storeVars, headVars,
                        streamVars, DataTypes
    <3>3. CASE Rest \/ UNCHANGED uploadVars
      BY <3>3 DEF Rest, uploadVars, ctlVars, endVars, storeVars, headVars,
                  fileVars, streamVars
    <3>4. CASE Crash /\ pc[v] \in {"idle", "done"}
      <4>1. parts'[v] = parts[v]
        <5>1. CASE UNCHANGED storeVars
          BY <5>1 DEF storeVars
        <5>2. ASSUME NEW u \in Uploads, Effect(u)
              PROVE  parts'[v] = parts[v]
          <6>1. u # v
            BY <3>4, <5>2 DEF Effect
          <6> QED  BY <1>0, <5>2, <6>1 DEF Effect, DataTypes
        <5> QED  BY <3>4, <5>1, <5>2 DEF Crash
      <4> QED  BY <3>4, <4>1 DEF Crash, headVars, fileVars
    <3> QED  BY <1>2, <3>1, <3>2, <3>3, <3>4
  <2>2. ASSUME Stable(v)', key[v] # NoKey
        PROVE  Stable(v) /\ Payload(v)' = Payload(v)
    BY <1>0, <2>2, StableKept, PackingOver
  <2>3. ReadInv(v)'
    <3>1. pc[v] \notin Unkeyed \union {"done"} => key[v] # NoKey
      BY <1>0, NoKeyIsNone DEF ArchiveInv
    <3> QED  BY <1>0, <2>1, <2>2, <3>1, ReadFrame
  <2>4. key[v] \in Keys => \A w \in Uploads : key[w] = key[v] => key'[w] = key[w]
    BY <1>0, KeyKept, NoKeyIsNone
  <2>5. key[v] \in Keys =>
            \/ objects'[key[v]] = objects[key[v]]
            \/ \E w \in Uploads \ {v} : key[w] = key[v]
            \/ pc[v] \in {"putting", "completing"}
    BY <1>0, NextWrites DEF DataTypes
  <2>6. key[v] \in Keys =>
            \/ objects'[key[v]] = objects[key[v]]
            \/ \E w \in Uploads \ {v} : key[w] = key[v]
    <3>1. CASE \E u \in Uploads \ {v} : Step(u)
      <4>1. PICK u \in Uploads \ {v} : Step(u)
        BY <3>1
      <4> QED  BY <1>0, <4>1, StepWrites DEF DataTypes
    <3>2. CASE Rewrite \/ Rest \/ UNCHANGED uploadVars
      BY <3>2 DEF Rewrite, Rest, uploadVars, storeVars
    <3>3. CASE Crash /\ pc[v] \in {"idle", "done"}
      BY <2>5, <3>3
    <3> QED  BY <1>2, <3>1, <3>2, <3>3
  <2>7. ReportInv(v)'
    <3>1. key[v] \in Keys => key[v] # NoKey
      BY NoKeyIsNone
    <3> QED  BY <1>0, <2>1, <2>2, <2>4, <2>6, <3>1, ReportFrame
  <2> QED  BY <2>3, <2>7
<1>3. ASSUME NEW v \in Uploads, Crash, pc[v] \notin {"idle", "done"}
      PROVE  ReadInv(v)' /\ ReportInv(v)'
  <2>1. pc'[v] = "done" /\ result'[v] = "crashed"
    BY <1>3 DEF Crash
  <2> QED  BY <2>1, ReadIdle DEF ReportInv, Unkeyed
<1>4. ASSUME NEW v \in Uploads
      PROVE  ReadInv(v)' /\ ReportInv(v)'
  <2>1. CASE Step(v)
    BY <2>1, ReadOwnStep, ReportOwnStep
  <2> QED  BY <1>2, <1>3, <2>1 DEF Next
<1>5. ASSUME NEW k \in Keys, objects'[k] # NoObject
      PROVE  \E u \in Uploads : WrittenBy(k, u)'
  BY <1>5, ObjectsStep
<1> QED  BY <1>1, <1>4, <1>5 DEF ContentInv

\* So that is an invariant.
LEMMA ContentKept == Spec => []ContentInv
BY ContentInit, ContentInvStep, PTL DEF Spec

\* What the packing job has written, as long as nobody rewrites the source: a
\* part of the archive from its start on, and at last all of it, unless the
\* end could not be written.
PackInv(u) ==
    rewrites = 0 =>
        /\ job[u] = "writing" =>
               /\ Len(archive[u]) <= Len(file) + 1
               /\ archive[u] = SubSeq(Packed(file), 1, Len(archive[u]))
        /\ job[u] = "done" => archive[u] = Packed(file) \/ u \in MayFault

\* The job keeps to that.
LEMMA PackOwnStep ==
    ASSUME ControlInv, NEW u \in Uploads, PackInv(u), Pack(u)
    PROVE  PackInv(u)'
<1>0. ControlTypes /\ DataTypes /\ Lengths(u)
  BY DEF ControlInv, TypesInv
<1> DEFINE n == Len(archive[u])
           P == Packed(file)
<1>1. /\ file \in Seq(Bytes) /\ Len(file) \in Nat /\ Len(file) <= MaxLen
      /\ archive[u] \in Seq(Bytes) /\ n \in Nat
  BY <1>0, LenProperties DEF DataTypes
<1>2. /\ P \in Seq(Bytes) /\ Len(P) = Len(file) + 1
      /\ P[1] = Header(Len(file))
      /\ \A i \in 1 .. Len(file) : P[i + 1] = file[i]
  BY <1>1, PackedSeq
<1>3. file' = file /\ rewrites' = rewrites
  BY DEF Pack, fileVars
<1> HIDE DEF P
<1>4. P = Packed(file) /\ P = Packed(file)'
  BY <1>3 DEF P, Packed
<1> SUFFICES ASSUME rewrites = 0
             PROVE  PackInv(u)'
  BY <1>3 DEF PackInv
<1>5. CASE PackOpens(u)
  <2>1. job'[u] = "writing" /\ archive'[u] = <<Header(Len(file))>>
    BY <1>0, <1>5 DEF PackOpens, ControlTypes, DataTypes
  <2>2. Len(archive'[u]) = 1
    BY <2>1
  <2>3. SubSeq(P, 1, 1) = <<Header(Len(file))>>
    <3>1. 1 \in 1 .. Len(P)
      BY <1>1, <1>2
    <3>2. SubSeq(P, 1, 1) = SubSeq(P, 1, 0) \o << P[1] >>
      BY <1>2, <3>1, SubSeqRecursiveSecond
    <3>3. SubSeq(P, 1, 0) = <<>>
      BY <1>2, SubSeqEmpty
    <3>4. << P[1] >> \in Seq(Bytes)
      BY <1>2, <3>1, ElementOfSeq
    <3> QED  BY <1>2, <3>2, <3>3, <3>4, EmptyConcat
  <2>4. 1 <= Len(file) + 1
    BY <1>1
  <2>5. archive'[u] = SubSeq(P, 1, Len(archive'[u]))
    BY <2>1, <2>2, <2>3, Zenon
  <2>6. /\ Len(archive'[u]) <= Len(file') + 1
        /\ archive'[u] = SubSeq(Packed(file)', 1, Len(archive'[u]))
    BY <1>3, <1>4, <2>2, <2>4, <2>5, Zenon
  <2> QED  BY ONLY <2>1, <2>6 DEF PackInv
<1>6. CASE PackCopies(u)
  <2>1. /\ job[u] = "writing" /\ job'[u] = "writing" /\ n \in 1 .. Len(file)
        /\ archive'[u] = Append(archive[u], file[n])
    BY <1>0, <1>1, <1>6 DEF PackCopies, DataTypes, Lengths
  <2>2. archive[u] = SubSeq(P, 1, n)
    BY <1>4, <2>1 DEF PackInv
  <2>3. <<>> \o archive[u] = archive[u] /\ <<>> \in Seq(Bytes)
    BY <1>1, EmptyConcat, EmptySeq
  <2>4. n < Len(P)
    BY <1>1, <1>2, <2>1
  <2>5. P[n + 1] = file[n] /\ file[n] \in Bytes
    BY <1>1, <1>2, <2>1, ElementOfSeq
  <2>6. <<>> \o Append(archive[u], P[n + 1]) = SubSeq(P, 1, n + 1)
    BY <1>1, <1>2, <2>2, <2>3, <2>4, ReadOne
  <2>7. /\ Append(archive[u], file[n]) \in Seq(Bytes)
        /\ Len(Append(archive[u], file[n])) = n + 1
    BY <1>1, <2>5, AppendProperties
  <2>8. archive'[u] = SubSeq(P, 1, n + 1) /\ Len(archive'[u]) = n + 1
    BY <2>1, <2>5, <2>6, <2>7, EmptyConcat
  <2> QED  BY <1>1, <1>3, <1>4, <2>1, <2>8 DEF PackInv
<1>7. CASE PackEnds(u)
  <2>1. job[u] = "writing" /\ job'[u] = "done" /\ n > Len(file)
    BY <1>0, <1>7 DEF PackEnds, ControlTypes
  <2>2. archive'[u] = archive[u] \/ u \in MayFault
    BY <1>0, <1>7 DEF PackEnds, Flushed, DataTypes
  <2>3. archive[u] = SubSeq(P, 1, n) /\ n <= Len(file) + 1
    BY <1>4, <2>1 DEF PackInv
  <2>4. n = Len(P)
    BY <1>1, <1>2, <2>1, <2>3
  <2>5. archive[u] = P
    BY <1>2, <2>3, <2>4, SubSeqFull
  <2> QED  BY <1>4, <2>1, <2>2, <2>5 DEF PackInv
<1>8. CASE PackFails(u)
  <2>1. job'[u] = "failed"
    BY <1>0, <1>8 DEF PackFails, ControlTypes
  <2> QED  BY <2>1 DEF PackInv
<1> QED  BY <1>5, <1>6, <1>7, <1>8 DEF Pack

\* Nobody else writes the archive.
LEMMA PackInvStep ==
    ASSUME ControlInv, [Next]_uploadVars, NEW v \in Uploads, PackInv(v)
    PROVE  PackInv(v)'
<1>0. TypesInv /\ ControlTypes /\ DataTypes
  BY DEF ControlInv, TypesInv
<1>1. CASE Rewrite
  <2>1. rewrites' # 0
    BY <1>0, <1>1 DEF Rewrite, DataTypes
  <2> QED  BY <2>1 DEF PackInv
<1>2. ASSUME job'[v] \in {job[v], "none", "running", "lost"},
             job'[v] = job[v] => archive'[v] = archive[v],
             file' = file, rewrites' = rewrites
      PROVE  PackInv(v)'
  BY <1>2 DEF PackInv, Packed
<1>3. CASE Rest \/ UNCHANGED uploadVars
  BY <1>2, <1>3 DEF Rest, uploadVars, headVars, fileVars
<1>4. CASE Crash
  BY <1>0, <1>2, <1>4 DEF Crash, fileVars, ControlTypes
<1>5. ASSUME NEW u \in Uploads, Step(u)
      PROVE  PackInv(v)'
  <2>1. file' = file /\ rewrites' = rewrites
    BY <1>5, StepKeeps
  <2>2. CASE v # u
    BY <1>0, <1>2, <1>5, <2>1, <2>2, OthersSame DEF Same
  <2>3. CASE v = u /\ Pack(u)
    BY <2>3, PackOwnStep
  <2>4. CASE v = u /\ ~Pack(u)
    <3>1. archive' = archive /\ (job' = job \/ job'[u] = "running")
      BY <1>0, <1>5, <2>4 DEF Step, Begin, BeginFails, Packing, Key,
         StoreAnswers, Fill, Put, Stored, Created, SendPart, NoMoreParts,
         PartSent, CompleteRefused, Aborted, Sweep, StreamFails, CallFails,
         TimesOut, Drop, headVars, ControlTypes
    <3> QED  BY <1>2, <2>1, <2>4, <3>1
  <2> QED  BY <2>2, <2>3, <2>4
<1> QED  BY <1>1, <1>3, <1>4, <1>5 DEF Next

LEMMA PackKept == Spec => [](\A u \in Uploads : PackInv(u))
<1>1. Init => \A u \in Uploads : PackInv(u)
  BY DEF Init, PackInv
<1>2. (\A u \in Uploads : PackInv(u)) /\ ControlInv /\ [Next]_uploadVars
      => (\A u \in Uploads : PackInv(u))'
  BY PackInvStep
<1> QED  BY <1>1, <1>2, ControlKept, PTL DEF Spec

\* No failed request, timeout, lost reply or crash leaves a truncated object
\* in the store: what is there is the whole of what one call hashed and,
\* unless the source was rewritten or the end of the archive could not be
\* written, the whole of the source, for any size of the file, of the parts
\* and of the threshold.
THEOREM ObjectsWhole == Spec => []ObjectWhole
<1>1. ContentInv /\ (\A u \in Uploads : PackInv(u)) => ObjectWhole
  <2> SUFFICES ASSUME ContentInv, \A u \in Uploads : PackInv(u),
                      NEW k \in Keys, objects[k] # NoObject
               PROVE  \E u \in Uploads :
                        /\ key[u] = k
                        /\ objects[k] = digest[u]
                        /\ Stable(u) => digest[u] = Payload(u)
                        /\ rewrites = 0 => \/ digest[u] = Whole(u)
                                          \/ (mode[u] = "archive" /\ u \in MayFault)
    BY DEF ObjectWhole
  <2>1. PICK u \in Uploads : WrittenBy(k, u)
    BY DEF ContentInv
  <2>2. mode[u] = "archive" => job[u] = "done"
    BY <2>1, NoKeyIsNone DEF WrittenBy, ContentInv, ControlInv, ArchiveInv
  <2>3. ASSUME rewrites = 0
        PROVE  digest[u] = Whole(u) \/ (mode[u] = "archive" /\ u \in MayFault)
    <3>1. digest[u] = Payload(u)
      BY <2>1, <2>3 DEF WrittenBy, Stable
    <3>2. CASE mode[u] # "archive"
      BY <3>1, <3>2 DEF Payload, Whole
    <3>3. CASE mode[u] = "archive"
      BY <2>2, <2>3, <3>1, <3>3 DEF Payload, Whole, PackInv
    <3> QED  BY <3>2, <3>3
  <2> QED  BY <2>1, <2>3 DEF WrittenBy
<1> QED  BY <1>1, ContentKept, PackKept, PTL

\* The size and the hash that an upload reports are those of the object.
THEOREM ReportsExact == Spec => []ReportExact
<1>1. ContentInv => ReportExact
  BY DEF ContentInv, ReportInv, ReportExact
<1> QED  BY <1>1, ContentKept, PTL

\* The store has no reason to refuse the parts of a call unless the source
\* was emptied after its size had been read.
THEOREM RefusalsExplained == Spec => []RefusedOnlyWhenEmptied
<1>1. ContentInv => RefusedOnlyWhenEmptied
  BY DEF ContentInv, ReportInv, RefusedOnlyWhenEmptied
<1> QED  BY <1>1, ContentKept, PTL

-----------------------------------------------------------------------------
(* An upload is one atomic write.                                          *)

\* The key and the hash of a call stay.
Kept(u) == key'[u] = key[u] /\ digest'[u] = digest[u]

\* What a step may do to the object of one call, in the words of ObjectStore.
ObjectStep(u) ==
    \/ /\ Status'[u] = Status[u]
       /\ Kept(u) \/ Status[u] = "open"
       /\ objects' = objects
    \/ /\ Status[u] = "open" /\ Status'[u] = "stored"
       /\ Kept(u)
       /\ Store!Writes(u)
    \/ /\ Status[u] = "stored" /\ Status'[u] = "ok"
       /\ Kept(u)
       /\ objects' = objects
    \/ /\ Status[u] \in {"open", "stored"} /\ Status'[u] = "failed"
       /\ Kept(u)
       /\ objects' = objects \/ Store!Writes(u)

\* The status of a call, without the function around it.
LEMMA StatusIs ==
    ASSUME NEW u \in Uploads
    PROVE  /\ Status[u] =
                IF result[u] = "ok" THEN "ok"
                ELSE IF pc[u] \in {"aborting", "done"} THEN "failed"
                ELSE IF pc[u] \in {"putting", "completing"} /\ answer[u] = "done"
                THEN "stored" ELSE "open"
           /\ Status'[u] =
                IF result'[u] = "ok" THEN "ok"
                ELSE IF pc'[u] \in {"aborting", "done"} THEN "failed"
                ELSE IF pc'[u] \in {"putting", "completing"} /\ answer'[u] = "done"
                THEN "stored" ELSE "open"
BY DEF Status

\* A call that goes on has reported nothing.
LEMMA GoingOn ==
    ASSUME ContentInv, NEW u \in Uploads, pc[u] # "done"
    PROVE  result[u] = "none"
BY DEF ContentInv, ReportInv, ControlInv, TypesInv, ControlTypes

\* A request that the store carries out writes no object, or that of a call
\* that had written none.
LEMMA EffectWrites ==
    ASSUME ContentInv, NEW u \in Uploads, Waiting(u), Effect(u)
    PROVE  \/ objects' = objects
           \/ pc[u] \in {"putting", "completing"} /\ Store!Writes(u)
<1> SUFFICES ASSUME pc[u] \in {"putting", "completing"},
                    objects' = [objects EXCEPT ![key[u]] = digest[u]]
             PROVE  Store!Writes(u)
  BY StoreWrites
<1>1. answer[u] = "none" /\ result[u] = "none"
  BY GoingOn DEF Waiting
<1>2. Status[u] = "open"
  BY <1>1, StatusIs
<1>3. key[u] \in Keys
  BY DEF ContentInv, ControlInv, ArchiveInv, Unkeyed
<1> QED  BY <1>2, <1>3 DEF Store!Writes

\* A call that ends without success, or begins to abort.
LEMMA FailIsFail ==
    ASSUME ContentInv, NEW u \in Uploads, MaySettle(u), pc[u] # "done",
           pc'[u] \in {"aborting", "done"}, result'[u] # "ok", Kept(u)
    PROVE  ObjectStep(u)
<1>1. result[u] = "none"
  BY GoingOn
<1>2. \/ objects' = objects
      \/ pc[u] \in {"putting", "completing"} /\ Store!Writes(u)
  BY EffectWrites DEF MaySettle, storeVars
<1>3. Status'[u] = "failed"
  BY StatusIs
<1>4. CASE pc[u] = "aborting"
  <2>1. Status[u] = "failed" /\ objects' = objects
    BY <1>1, <1>2, <1>4, StatusIs
  <2> QED  BY <1>3, <2>1 DEF ObjectStep
<1>5. CASE pc[u] # "aborting"
  <2>1. Status[u] \in {"open", "stored"}
    BY <1>1, <1>5, StatusIs
  <2> QED  BY <1>2, <1>3, <2>1 DEF ObjectStep
<1> QED  BY <1>4, <1>5

\* The steps of a call.
LEMMA ObjectOwnStep ==
    ASSUME ContentInv, NEW u \in Uploads, Step(u)
    PROVE  ObjectStep(u)
<1> USE DEF ctlVars, lateVars, endVars, storeVars, fileVars, headVars,
            streamVars, bodyVars
<1>0. ControlTypes /\ DataTypes
  BY DEF ContentInv, ControlInv, TypesInv
<1>1. CASE Begin(u) \/ Created(u) \/ NoMoreParts(u) \/ PartSent(u)
           \/ (Packing(u) /\ Goto(u, "keying"))
  <2>1. /\ pc[u] \notin {"putting", "completing", "aborting", "done"}
        /\ pc'[u] \notin {"putting", "aborting", "done"}
        /\ answer'[u] = "none" /\ result' = result
        /\ objects' = objects /\ Kept(u)
    BY <1>0, <1>1 DEF Begin, Created, NoMoreParts, PartSent, Packing, End,
                      Goto, ControlTypes, Kept
  <2>2. Status'[u] = Status[u]
    BY <2>1, StatusIs
  <2> QED  BY <2>1, <2>2 DEF ObjectStep
<1>2. CASE Pack(u) \/ Fill(u) \/ Sweep(u)
  <2>1. /\ pc' = pc /\ answer' = answer /\ result' = result
        /\ objects' = objects /\ Kept(u)
    BY <1>2 DEF Pack, Fill, Sweep, Kept
  <2>2. Status'[u] = Status[u]
    BY <2>1, StatusIs
  <2> QED  BY <2>1, <2>2 DEF ObjectStep
<1>3. CASE Key(u) \/ Put(u) \/ SendPart(u)
  <2>1. /\ pc[u] \in {"keying", "reading", "filling"}
        /\ pc'[u] \in {"creating", "reading", "putting", "sending"}
        /\ answer'[u] = "none" /\ result' = result
        /\ objects' = objects
    BY <1>0, <1>3 DEF Key, Put, SendPart, Goto, ControlTypes
  <2>2. result[u] = "none"
    BY <2>1, GoingOn
  <2>3. Status[u] = "open" /\ Status'[u] = "open"
    BY <2>1, <2>2, StatusIs
  <2> QED  BY <2>1, <2>3 DEF ObjectStep
<1>4. CASE StoreAnswers(u)
  <2>1. /\ Waiting(u) /\ pc' = pc /\ result' = result /\ Kept(u)
        /\ pc[u] # "done" /\ answer[u] = "none"
    BY <1>4 DEF StoreAnswers, Kept, Waiting, Requests
  <2>2. result[u] = "none"
    BY <2>1, GoingOn
  <2>3. CASE Effect(u) /\ answer'[u] = "done"
    <3>1. CASE pc[u] \in {"putting", "completing"}
      <4>1. Status'[u] = "stored" /\ Status[u] = "open"
        BY <2>1, <2>2, <2>3, <3>1, StatusIs
      <4>2. Store!Writes(u)
        <5>1. key[u] \in Keys
          BY <3>1 DEF ContentInv, ControlInv, ArchiveInv, Unkeyed
        <5>2. objects' = [objects EXCEPT ![key[u]] = digest[u]]
          BY <2>1, <2>3, <3>1 DEF Effect, ContentInv, ReadInv
        <5> QED  BY <4>1, <5>1, <5>2 DEF Store!Writes
      <4> QED  BY <2>1, <4>1, <4>2 DEF ObjectStep
    <3>2. CASE pc[u] \notin {"putting", "completing"}
      <4>1. Status'[u] = Status[u]
        BY <2>1, <3>2, StatusIs
      <4>2. objects' = objects
        BY <2>3, <3>2 DEF Effect
      <4> QED  BY <2>1, <4>1, <4>2 DEF ObjectStep
    <3> QED  BY <3>1, <3>2
  <2>4. CASE UNCHANGED storeVars /\ answer'[u] = "refused"
    <3>1. Status'[u] = Status[u]
      BY <2>1, <2>4, StatusIs
    <3> QED  BY <2>1, <2>4, <3>1 DEF ObjectStep
  <2> QED  BY <1>0, <1>4, <2>3, <2>4 DEF StoreAnswers, ControlTypes
<1>5. CASE Stored(u)
  <2>1. /\ pc[u] \in {"putting", "completing"} /\ answer[u] = "done"
        /\ result'[u] = "ok" /\ objects' = objects /\ Kept(u)
    BY <1>0, <1>5, EndIs DEF Stored, Kept
  <2>2. result[u] = "none"
    BY <2>1, GoingOn
  <2>3. Status[u] = "stored" /\ Status'[u] = "ok"
    BY <2>1, <2>2, StatusIs
  <2> QED  BY <2>1, <2>3 DEF ObjectStep
<1>6. ASSUME NEW r, End(u, r), r # "ok", MaySettle(u), pc[u] # "done",
             Kept(u)
      PROVE  ObjectStep(u)
  <2>1. pc'[u] = "done" /\ result'[u] # "ok"
    BY <1>0, <1>6, EndIs
  <2> QED  BY <1>6, <2>1, FailIsFail
<1>7. CASE BeginFails(u) \/ Aborted(u) \/ CompleteRefused(u)
           \/ (Packing(u) /\ End(u, "failed"))
  <2>1. /\ End(u, "failed") \/ End(u, "refused")
        /\ MaySettle(u) /\ pc[u] # "done" /\ Kept(u)
    BY <1>7 DEF BeginFails, Aborted, CompleteRefused, Packing, MaySettle, Kept
  <2> QED  BY <1>6, <2>1
<1>8. CASE StreamFails(u)
  <2>1. /\ MaySettle(u) /\ pc[u] \in {"filling", "sending"} /\ Kept(u)
        /\ pc'[u] = "aborting" /\ result' = result
    BY <1>0, <1>8 DEF StreamFails, StreamError, MaySettle, Goto,
                      ControlTypes, Kept
  <2>2. result'[u] # "ok"
    BY <2>1, GoingOn
  <2> QED  BY <2>1, <2>2, FailIsFail
<1>9. CASE CallFails(u) \/ TimesOut(u) \/ Drop(u)
  <2>1. /\ End(u, "failed") \/ End(u, "timed_out") \/ End(u, "dropped")
        /\ MaySettle(u) /\ Kept(u)
    BY <1>9 DEF CallFails, TimesOut, Drop, MaySettle, Kept
  <2>2. pc[u] # "done"
    BY <1>9 DEF CallFails, TimesOut, Drop, Timed, Requests
  <2> QED  BY <1>6, <2>1, <2>2
<1>10. CASE Packing(u)
  BY <1>1, <1>7, <1>10 DEF Packing
<1> QED  BY <1>1, <1>2, <1>3, <1>4, <1>5, <1>7, <1>8, <1>9, <1>10 DEF Step

\* A function that changes at one point at most.
LEMMA OneChanged ==
    ASSUME NEW S, NEW f \in [Uploads -> S], NEW g \in [Uploads -> S],
           NEW u \in Uploads, \A v \in Uploads \ {u} : g[v] = f[v]
    PROVE  g = [f EXCEPT ![u] = g[u]] /\ (g[u] = f[u] => g = f)
OBVIOUS

\* They concern this one object and nothing of another call.
LEMMA ObjectStepIsNext ==
    ASSUME ContentInv, NEW u \in Uploads, Step(u)
    PROVE  [Store!StoreNext]_(Store!storedVars)
<1>0. TypesInv /\ ControlTypes /\ DataTypes
  BY DEF ContentInv, ControlInv, TypesInv
<1>1. ControlTypes' /\ DataTypes'
  BY <1>0, ControlStep, DataStep DEF Next
<1>2. \A v \in Uploads \ {u} :
         key'[v] = key[v] /\ digest'[v] = digest[v] /\ Status'[v] = Status[v]
  BY <1>0, OthersSame, StatusIs DEF Same
<1>3. /\ key' = [key EXCEPT ![u] = key'[u]]
      /\ key'[u] = key[u] => key' = key
  <2>1. /\ key \in [Uploads -> Keys \union {NoKey}]
        /\ key' \in [Uploads -> Keys \union {NoKey}]
    BY <1>0, <1>1 DEF ControlTypes, Keys, NoKey
  <2> QED  BY <1>2, <2>1, OneChanged
<1>4. /\ digest' = [digest EXCEPT ![u] = digest'[u]]
      /\ digest'[u] = digest[u] => digest' = digest
  <2>1. digest \in [Uploads -> Seq(Bytes)]
    BY <1>0 DEF DataTypes
  <2>2. digest' \in [Uploads -> Seq(Bytes)]
    BY <1>1 DEF DataTypes, Bytes, Blocks, Header
  <2> QED  BY <1>2, <2>1, <2>2, OneChanged
<1>5. /\ Status' = [Status EXCEPT ![u] = Status'[u]]
      /\ Status'[u] = Status[u] => Status' = Status
  <2>1. /\ Status \in [Uploads -> {"ok", "failed", "stored", "open"}]
        /\ Status' \in [Uploads -> {"ok", "failed", "stored", "open"}]
    BY DEF Status
  <2> QED  BY <1>2, <2>1, OneChanged
<1>6. Kept(u) => UNCHANGED <<key, digest>>
  BY <1>3, <1>4 DEF Kept
<1>7. ObjectStep(u)
  BY ObjectOwnStep
<1>8. CASE /\ Status'[u] = Status[u]
           /\ Kept(u) \/ Status[u] = "open"
           /\ objects' = objects
  <2>1. CASE Kept(u)
    BY <1>5, <1>6, <1>8, <2>1 DEF Store!storedVars
  <2>2. CASE Status[u] = "open"
    <3>1. Store!Prepare(u)
      BY <1>3, <1>4, <1>5, <1>8, <2>2 DEF Store!Prepare
    <3> QED  BY <3>1 DEF Store!StoreNext
  <2> QED  BY <1>8, <2>1, <2>2
<1>9. CASE /\ Status[u] = "open" /\ Status'[u] = "stored"
           /\ Kept(u)
           /\ Store!Writes(u)
  BY <1>5, <1>6, <1>9 DEF Store!StoreNext, Store!Put
<1>10. CASE /\ Status[u] = "stored" /\ Status'[u] = "ok"
            /\ Kept(u)
            /\ objects' = objects
  BY <1>5, <1>6, <1>10 DEF Store!StoreNext, Store!Report
<1>11. CASE /\ Status[u] \in {"open", "stored"} /\ Status'[u] = "failed"
            /\ Kept(u)
            /\ objects' = objects \/ Store!Writes(u)
  <2>1. Status' = [v \in Uploads |-> IF v \in {u} THEN "failed" ELSE Status[v]]
    BY <1>5, <1>11 DEF Status
  <2>2. Store!Fail({u})
    BY <1>6, <1>11, <2>1 DEF Store!Fail
  <2> QED  BY <2>2 DEF Store!StoreNext
<1> QED  BY <1>7, <1>8, <1>9, <1>10, <1>11 DEF ObjectStep

\* In a crash all calls in progress fail together, but for those that were
\* aborting anyway.
LEMMA CrashIsFail ==
    ASSUME ContentInv, Crash
    PROVE  [Store!StoreNext]_(Store!storedVars)
<1> DEFINE cut == {u \in Uploads : pc[u] \notin {"idle", "aborting", "done"}}
<1>1. key' = key /\ digest' = digest
  BY DEF Crash
<1>2. ASSUME NEW u \in Uploads
      PROVE  /\ u \in cut => Status[u] \in {"open", "stored"}
                             /\ Status'[u] = "failed"
             /\ u \notin cut => Status'[u] = Status[u]
  <2>1. pc[u] # "done" => result[u] = "none"
    BY GoingOn
  <2>2. CASE pc[u] \in {"idle", "done"}
    <3>1. pc'[u] = pc[u] /\ result'[u] = result[u]
      BY <2>2 DEF Crash
    <3> QED  BY <2>2, <3>1, StatusIs
  <2>3. CASE pc[u] \notin {"idle", "done"}
    <3>1. pc'[u] = "done" /\ result'[u] = "crashed"
      BY <2>3 DEF Crash
    <3> QED  BY <2>1, <2>3, <3>1, StatusIs
  <2> QED  BY <2>2, <2>3
<1>3. Status' = [u \in Uploads |-> IF u \in cut THEN "failed" ELSE Status[u]]
  <2>1. ASSUME NEW u \in Uploads
        PROVE  Status'[u] = IF u \in cut THEN "failed" ELSE Status[u]
    BY <1>2
  <2> HIDE DEF cut
  <2> QED  BY <2>1 DEF Status
<1>4. UNCHANGED objects \/ \E u \in cut : Store!Writes(u)
  <2>1. CASE UNCHANGED storeVars
    BY <2>1 DEF storeVars
  <2>2. ASSUME NEW u \in Uploads, Waiting(u), Effect(u)
        PROVE  UNCHANGED objects \/ \E v \in cut : Store!Writes(v)
    BY <2>2, EffectWrites
  <2> QED  BY <2>1, <2>2 DEF Crash
<1>5. Store!Fail(cut)
  BY <1>1, <1>2, <1>3, <1>4 DEF Store!Fail
<1> QED  BY <1>5 DEF Store!StoreNext

\* Both variants, with all that can fail, are one atomic write of what was
\* hashed: no upload stores in two steps, twice, after its end, or with a key
\* or content other than those it reports.
THEOREM UploadIsAtomicWrite == Spec => StoreRefined
<1>1. Init => Store!StoreInit
  <2> SUFFICES ASSUME Init PROVE Store!StoreInit
    OBVIOUS
  <2>1. ASSUME NEW u \in Uploads
        PROVE  Status[u] = "open"
    <3>1. pc[u] = "idle" /\ result[u] = "none"
      BY DEF Init
    <3> QED  BY <3>1, StatusIs
  <2>2. Status = [u \in Uploads |-> "open"]
    BY <2>1 DEF Status
  <2> QED  BY <2>2 DEF Init, Store!StoreInit
<1>2. ContentInv /\ [Next]_uploadVars => [Store!StoreNext]_(Store!storedVars)
  <2> SUFFICES ASSUME ContentInv, [Next]_uploadVars
               PROVE  [Store!StoreNext]_(Store!storedVars)
    OBVIOUS
  <2>1. CASE Rewrite \/ Rest \/ UNCHANGED uploadVars
    <3>1. /\ pc' = pc /\ answer' = answer /\ result' = result
          /\ key' = key /\ digest' = digest /\ objects' = objects
      BY <2>1 DEF Rewrite, Rest, uploadVars, ctlVars, endVars, storeVars,
                  headVars, streamVars
    <3> QED  BY <3>1 DEF Status, Store!storedVars
  <2> QED  BY <2>1, CrashIsFail, ObjectStepIsNext DEF Next
<1> QED  BY <1>1, <1>2, ContentKept, PTL DEF Spec, StoreRefined, Store!StoreSpec

-----------------------------------------------------------------------------
(* Uploads make progress.                                                  *)

\* The blocks still to read, with the part that each may complete.
Most == 5 * (MaxLen + 1)
Ahead(u) == 5 * (MaxLen + 1 - off[u])

\* What a call may still have to do in its phase and those that follow.
PhaseRank(u) ==
    CASE pc[u] = "idle"       -> Most + MaxLen + 20
      [] pc[u] = "packing"    -> Most + 16
      [] pc[u] = "keying"     -> Most + 14
      [] pc[u] = "creating"   -> Most + 12
      [] pc[u] = "reading"    -> Ahead(u) + 8
      [] pc[u] = "filling"    -> Ahead(u) + (IF buf[u] = <<>> THEN 8 ELSE 12)
      [] pc[u] = "sending"    -> Ahead(u) + 10
      [] pc[u] = "putting"    -> 5
      [] pc[u] = "completing" -> 5
      [] pc[u] = "aborting"   -> 2
      [] pc[u] = "done"       -> 0

\* What the packing job has to do: the header, the blocks, the end.
JobRank(u) == IF job[u] = "running" THEN MaxLen + 2
              ELSE IF job[u] = "writing" THEN MaxLen + 2 - Len(archive[u]) ELSE 0

\* With the answer it waits for, the packing job and the task it leaves
\* behind: an upper bound of the steps that are still to come.
Rank(u) ==
    PhaseRank(u) + (IF answer[u] = "none" THEN 1 ELSE 0)
                 + JobRank(u)
                 + (IF sweeper[u] THEN 1 ELSE 0)

\* The phases one by one.
RankTable(u) ==
    /\ pc[u] = "idle"       => PhaseRank(u) = Most + MaxLen + 20
    /\ pc[u] = "packing"    => PhaseRank(u) = Most + 16
    /\ pc[u] = "keying"     => PhaseRank(u) = Most + 14
    /\ pc[u] = "creating"   => PhaseRank(u) = Most + 12
    /\ pc[u] = "reading"    => PhaseRank(u) = Ahead(u) + 8
    /\ pc[u] = "filling"    => PhaseRank(u) = IF buf[u] = <<>> THEN Ahead(u) + 8
                                                          ELSE Ahead(u) + 12
    /\ pc[u] = "sending"    => PhaseRank(u) = Ahead(u) + 10
    /\ pc[u] = "putting"    => PhaseRank(u) = 5
    /\ pc[u] = "completing" => PhaseRank(u) = 5
    /\ pc[u] = "aborting"   => PhaseRank(u) = 2
    /\ pc[u] = "done"       => PhaseRank(u) = 0

LEMMA RankTables ==
    ASSUME NEW u \in Uploads
    PROVE  RankTable(u) /\ RankTable(u)'
<1>1. RankTable(u)
  BY DEF RankTable, PhaseRank
<1>2. RankTable(u)'
  BY DEF RankTable, PhaseRank
<1> QED  BY <1>1, <1>2

\* What is still to read.
LEMMA AheadIs ==
    ASSUME TypesInv, NEW u \in Uploads
    PROVE  /\ Ahead(u) \in Nat /\ Most \in Nat
           /\ off[u] = 0 => Ahead(u) = Most
<1>1. /\ off[u] \in Nat /\ MaxLen \in Nat /\ off[u] <= MaxLen + 1
  BY UploadAssumption DEF TypesInv, DataTypes, Lengths
<1> QED  BY <1>1 DEF Ahead, Most

\* What is still to pack.
LEMMA JobRankIs ==
    ASSUME TypesInv, NEW u \in Uploads
    PROVE  /\ JobRank(u) \in Nat /\ MaxLen \in Nat
           /\ JobRank(u) <= MaxLen + 2
           /\ job[u] = "writing" => JobRank(u) >= 1
<1>1. archive[u] \in Seq(Bytes) /\ MaxLen \in Nat
  BY UploadAssumption DEF TypesInv, DataTypes
<1>2. PICK n \in Nat : n = Len(archive[u])
  BY <1>1, LenIs
<1>3. n <= MaxLen + 1
  BY <1>2 DEF TypesInv, Lengths
<1>4. JobRank(u) = IF job[u] = "running" THEN MaxLen + 2
                   ELSE IF job[u] = "writing" THEN MaxLen + 2 - n ELSE 0
  BY <1>2, Zenon DEF JobRank
<1> QED  BY <1>1, <1>3, <1>4

\* The rank is a number, and a call that goes on has something ahead.
LEMMA RankIsNat ==
    ASSUME TypesInv, NEW u \in Uploads
    PROVE  /\ Rank(u) \in Nat /\ PhaseRank(u) \in Nat
           /\ pc[u] # "done" => PhaseRank(u) >= 2
<1>1. pc[u] \in Phases /\ MaxLen \in Nat
  BY UploadAssumption DEF TypesInv, ControlTypes
<1>2. PhaseRank(u) \in Nat /\ (pc[u] # "done" => PhaseRank(u) >= 2)
  BY <1>1, AheadIs, RankTables DEF RankTable, Phases, Requests
<1> QED  BY <1>2, JobRankIs DEF Rank

\* So it is after a step.
LEMMA RankStaysNat ==
    ASSUME TypesInv', NEW u \in Uploads
    PROVE  Rank(u)' \in Nat
<1>1. /\ off'[u] \in Nat /\ MaxLen \in Nat /\ off'[u] <= MaxLen + 1
      /\ pc'[u] \in Phases
  <2>1. ControlTypes' /\ DataTypes' /\ Lengths(u)'
    BY DEF TypesInv
  <2>2. off'[u] \in Nat /\ off'[u] <= MaxLen + 1
    BY <2>1 DEF DataTypes, Lengths
  <2>3. pc'[u] \in Phases
    BY <2>1 DEF ControlTypes, Phases, Requests
  <2> QED  BY <2>2, <2>3, UploadAssumption
<1>2. Ahead(u)' \in Nat /\ Most' \in Nat
  BY <1>1 DEF Ahead, Most
<1>3. PhaseRank(u)' \in Nat
  <2>1. RankTable(u)'
    BY RankTables
  <2>2. pc'[u] \in {"idle", "packing", "keying", "reading", "filling", "done",
                    "putting", "creating", "sending", "completing", "aborting"}
    BY <1>1 DEF Phases, Requests
  <2> QED  BY ONLY <1>1, <1>2, <2>1, <2>2 DEF RankTable
<1>4. JobRank(u)' \in Nat
  <2>1. archive'[u] \in Seq(Bytes) /\ Lengths(u)'
    BY DEF TypesInv, DataTypes
  <2>2. Len(archive'[u]) \in Nat /\ Len(archive'[u]) <= MaxLen + 1
    BY <2>1, LenProperties DEF Lengths
  <2> QED  BY <1>1, <2>2 DEF JobRank
<1> QED  BY <1>3, <1>4 DEF Rank

\* A call that ends has at most its packing job and its task ahead.
LEMMA EndRank ==
    ASSUME TypesInv, NEW u \in Uploads, NEW r, End(u, r), pc[u] # "done",
           job'[u] = job[u], archive'[u] = archive[u], ~sweeper[u],
           sweeper'[u] => pc[u] = "completing"
    PROVE  Rank(u)' < Rank(u)
<1>1. pc'[u] = "done" /\ answer'[u] = "none"
  BY EndIs DEF TypesInv
<1>2. PhaseRank(u)' = 0 /\ (pc[u] = "completing" => PhaseRank(u) = 5)
  BY <1>1, RankTables DEF RankTable
<1>3. PhaseRank(u) \in Nat /\ PhaseRank(u) >= 2
  BY RankIsNat
<1>4. JobRank(u)' = JobRank(u) /\ JobRank(u) \in Nat
  BY JobRankIs DEF JobRank
<1> QED  BY ONLY <1>1, <1>2, <1>3, <1>4, ~sweeper[u],
                 sweeper'[u] => pc[u] = "completing" DEF Rank

\* The steps of the packing job lower what it has to do.
LEMMA PackRank ==
    ASSUME ControlTypes, DataTypes, NEW u \in Uploads, Lengths(u), Pack(u)
    PROVE  JobRank(u)' < JobRank(u) /\ JobRank(u)' \in Nat
<1>1. /\ archive[u] \in Seq(Bytes) /\ archive'[u] \in Seq(Bytes)
      /\ MaxLen \in Nat
      /\ Len(archive[u]) <= MaxLen + 1 /\ Len(archive'[u]) <= MaxLen + 1
      /\ job'[u] = "writing" => Len(archive'[u]) >= 1
  BY PackTypes, UploadAssumption DEF DataTypes, Lengths
<1>2. PICK n \in Nat : n = Len(archive[u])
  BY <1>1, LenIs
<1>a. PICK m \in Nat : m = Len(archive'[u])
  BY <1>1, LenIs
<1>b. /\ n <= MaxLen + 1 /\ m <= MaxLen + 1
      /\ job'[u] = "writing" => m >= 1
  BY <1>1, <1>2, <1>a, Zenon
<1>c. /\ JobRank(u) = IF job[u] = "running" THEN MaxLen + 2
                      ELSE IF job[u] = "writing" THEN MaxLen + 2 - n ELSE 0
      /\ JobRank(u)' = IF job'[u] = "running" THEN MaxLen + 2
                       ELSE IF job'[u] = "writing" THEN MaxLen + 2 - m ELSE 0
  BY <1>2, <1>a, Zenon DEF JobRank
<1>3. CASE PackOpens(u)
  <2>1. job[u] = "running" /\ job'[u] = "writing"
    BY <1>3 DEF PackOpens, ControlTypes
  <2> QED  BY <1>1, <1>b, <1>c, <2>1
<1>4. CASE PackCopies(u)
  <2>1. job[u] = "writing" /\ job'[u] = "writing"
    BY <1>4 DEF PackCopies
  <2>2. m = n + 1
    <3>1. n \in 1 .. Len(file) /\ file \in Seq(Bytes)
      <4>1. file \in Seq(Bytes) /\ Len(file) \in Nat
        BY LenProperties DEF DataTypes
      <4> QED  BY <1>2, <1>4, <2>1, <4>1 DEF PackCopies, Lengths
    <3>2. file[n] \in Bytes
      BY <3>1, ElementOfSeq
    <3>3. archive'[u] = Append(archive[u], file[n])
      BY <1>2, <1>4 DEF PackCopies, DataTypes
    <3> QED  BY <1>1, <1>2, <1>a, <3>2, <3>3, AppendProperties
  <2> QED  BY <1>1, <1>b, <1>c, <2>1, <2>2
<1>5. CASE PackEnds(u) \/ PackFails(u)
  <2>1. job[u] \in {"running", "writing"} /\ job'[u] \in {"done", "failed"}
    BY <1>5 DEF PackEnds, PackFails, ControlTypes
  <2> QED  BY <1>1, <1>b, <1>c, <2>1
<1> QED  BY <1>3, <1>4, <1>5 DEF Pack

\* Every step of a call lowers its rank.
LEMMA RankFalls ==
    ASSUME ControlInv, NEW u \in Uploads, Step(u)
    PROVE  Rank(u)' < Rank(u)
<1> USE DEF ctlVars, lateVars, endVars, storeVars, fileVars, headVars,
            streamVars, bodyVars
<1>0. TypesInv /\ ControlTypes /\ DataTypes /\ Lengths(u)
      /\ SessionInv(u) /\ ArchiveInv(u)
  BY DEF ControlInv, TypesInv
<1>1. /\ RankTable(u) /\ RankTable(u)'
      /\ Ahead(u) \in Nat /\ Most \in Nat /\ Most' = Most
      /\ off[u] = 0 => Ahead(u) = Most
      /\ off'[u] = off[u] => Ahead(u)' = Ahead(u)
      /\ PhaseRank(u) \in Nat /\ MaxLen \in Nat
      /\ JobRank(u) \in Nat /\ JobRank(u) <= MaxLen + 2
      /\ job'[u] = job[u] /\ archive'[u] = archive[u] => JobRank(u)' = JobRank(u)
      /\ sweeper[u] => pc[u] = "done"
  BY <1>0, AheadIs, JobRankIs, RankTables, RankIsNat
  DEF SessionInv, Ahead, Most, JobRank
\* A step from phase to phase, with the job and the task as they were.
<1>2. ASSUME pc'[u] \in Phases, answer'[u] = "none",
             job'[u] = job[u], archive'[u] = archive[u], sweeper'[u] = sweeper[u],
             PhaseRank(u)' \in Nat, PhaseRank(u)' + 1 < PhaseRank(u)
      PROVE  Rank(u)' < Rank(u)
  BY <1>1, <1>2 DEF Rank
<1>3. CASE Begin(u)
  <2>1. pc[u] = "idle" /\ job[u] = "none" /\ answer'[u] = "none"
        /\ pc'[u] \in {"packing", "keying"} /\ sweeper' = sweeper
    BY <1>0, <1>3 DEF Begin, Goto, ControlTypes, ArchiveInv
  <2>2. /\ PhaseRank(u)' = Most + 16 \/ PhaseRank(u)' = Most + 14
        /\ PhaseRank(u) = Most + MaxLen + 20
    BY <1>1, <2>1 DEF RankTable
  <2>3. JobRank(u) = 0 /\ JobRank(u)' \in {0, MaxLen + 2}
    <3>1. job'[u] \in {"none", "running"}
      BY <1>0, <1>3, <2>1 DEF Begin, ControlTypes
    <3> QED  BY <2>1, <3>1 DEF JobRank
  <2> QED  BY ONLY <1>1, <2>1, <2>2, <2>3 DEF Rank
<1>4. CASE Pack(u) \/ StoreAnswers(u) \/ Sweep(u)
  <2>1. PhaseRank(u)' = PhaseRank(u)
    BY <1>4 DEF Pack, StoreAnswers, Sweep, PhaseRank, Ahead, Most
  <2>2. CASE Pack(u)
    <3>1. JobRank(u)' < JobRank(u) /\ JobRank(u)' \in Nat
      BY <1>0, <2>2, PackRank
    <3>2. answer' = answer /\ sweeper' = sweeper
      BY <2>2 DEF Pack
    <3> QED  BY ONLY <1>1, <2>1, <3>1, <3>2 DEF Rank
  <2>3. CASE StoreAnswers(u) \/ Sweep(u)
    <3>1. /\ job' = job /\ archive' = archive
          /\ \/ /\ answer[u] = "none" /\ answer'[u] # "none"
                /\ sweeper' = sweeper
             \/ /\ sweeper[u] /\ ~sweeper'[u]
                /\ answer' = answer
      BY <1>0, <2>3 DEF StoreAnswers, Waiting, Sweep, ControlTypes
    <3> QED  BY ONLY <1>1, <2>1, <3>1 DEF Rank
  <2> QED  BY <1>4, <2>2, <2>3
<1>5. CASE Fill(u)
  <2>1. /\ pc' = pc /\ answer' = answer /\ sweeper' = sweeper
        /\ job' = job /\ archive' = archive
        /\ off'[u] = off[u] + 1 /\ buf'[u] # <<>>
        /\ pc[u] \in {"reading", "filling"}
    BY <1>0, <1>5 DEF Fill, DataTypes
  <2>2. Ahead(u)' = Ahead(u) - 5 /\ Ahead(u)' \in Nat
    <3>1. /\ off[u] \in Nat /\ MaxLen \in Nat
          /\ off'[u] <= MaxLen + 1
      BY <1>0, LengthsOwnStep, UploadAssumption DEF Lengths, DataTypes
    <3>2. off'[u] = off[u] + 1
      BY <2>1
    <3> QED  BY ONLY <3>1, <3>2 DEF Ahead
  <2>3. PhaseRank(u)' < PhaseRank(u) /\ PhaseRank(u)' \in Nat
    BY <1>1, <2>1, <2>2 DEF RankTable
  <2> QED  BY ONLY <1>1, <2>1, <2>3 DEF Rank
<1>6. CASE Key(u)
  <2>1. /\ pc[u] = "keying" /\ off' = off /\ off[u] = 0
        /\ job' = job /\ archive' = archive /\ sweeper' = sweeper
        /\ answer'[u] = "none"
        /\ pc'[u] \in {"creating", "reading"}
    BY <1>0, <1>6 DEF Key, Goto, ControlTypes, Lengths
  <2>2. PhaseRank(u)' \in Nat /\ PhaseRank(u)' + 1 < PhaseRank(u)
    BY <1>1, <2>1 DEF RankTable
  <2> QED  BY <1>2, <2>1, <2>2 DEF Phases, Requests
<1>7. CASE Put(u) \/ SendPart(u) \/ NoMoreParts(u) \/ Created(u) \/ PartSent(u)
           \/ (Packing(u) /\ Goto(u, "keying"))
  <2>1. \/ pc[u] = "reading" /\ Goto(u, "putting")
        \/ pc[u] = "filling" /\ buf[u] # <<>> /\ Goto(u, "sending")
        \/ pc[u] = "filling" /\ Goto(u, "completing")
        \/ pc[u] = "creating" /\ off[u] = 0 /\ Goto(u, "filling") /\ buf'[u] = <<>>
        \/ pc[u] = "sending" /\ Goto(u, "filling") /\ buf'[u] = <<>>
        \/ pc[u] = "sending" /\ Goto(u, "completing")
        \/ pc[u] = "packing" /\ Goto(u, "keying")
    BY <1>0, <1>7 DEF Put, SendPart, NoMoreParts, Created, PartSent, Packing,
                      NextBuffer, Lengths, DataTypes
  <2>2. /\ off'[u] = off[u] /\ sweeper' = sweeper
        /\ job' = job /\ archive' = archive
    BY <1>0, <1>7 DEF Put, SendPart, NoMoreParts, Created, PartSent, Packing,
                      End, Goto, ControlTypes
  <2>3. ASSUME NEW p \in Phases, Goto(u, p)
        PROVE  pc'[u] = p /\ answer'[u] = "none"
    BY <1>0, <2>3 DEF Goto, ControlTypes
  <2>4. /\ answer'[u] = "none" /\ pc'[u] \in Phases
        /\ \/ pc[u] = "reading" /\ pc'[u] = "putting"
           \/ pc[u] = "filling" /\ buf[u] # <<>> /\ pc'[u] = "sending"
           \/ pc[u] = "filling" /\ pc'[u] = "completing"
           \/ pc[u] = "creating" /\ off[u] = 0 /\ pc'[u] = "filling" /\ buf'[u] = <<>>
           \/ pc[u] = "sending" /\ pc'[u] = "filling" /\ buf'[u] = <<>>
           \/ pc[u] = "sending" /\ pc'[u] = "completing"
           \/ pc[u] = "packing" /\ pc'[u] = "keying"
    BY <2>1, <2>3 DEF Phases, Requests
  <2>5. PhaseRank(u)' \in Nat /\ PhaseRank(u)' + 1 < PhaseRank(u)
    <3>1. CASE pc[u] = "reading" /\ pc'[u] = "putting"
      BY ONLY <1>1, <3>1 DEF RankTable
    <3>2. CASE pc[u] = "filling" /\ buf[u] # <<>> /\ pc'[u] = "sending"
      BY ONLY <1>1, <2>2, <3>2 DEF RankTable
    <3>3. CASE pc[u] \in {"filling", "sending"} /\ pc'[u] = "completing"
      BY ONLY <1>1, <3>3 DEF RankTable
    <3>4. CASE pc[u] = "creating" /\ off[u] = 0 /\ pc'[u] = "filling"
               /\ buf'[u] = <<>>
      BY ONLY <1>1, <2>2, <3>4 DEF RankTable
    <3>5. CASE pc[u] = "sending" /\ pc'[u] = "filling" /\ buf'[u] = <<>>
      BY ONLY <1>1, <2>2, <3>5 DEF RankTable
    <3>6. CASE pc[u] = "packing" /\ pc'[u] = "keying"
      BY ONLY <1>1, <3>6 DEF RankTable
    <3> QED  BY <2>4, <3>1, <3>2, <3>3, <3>4, <3>5, <3>6
  <2> QED  BY <1>2, <2>2, <2>4, <2>5
<1>8. CASE StreamFails(u)
  <2>1. /\ pc[u] \in {"filling", "sending"} /\ answer'[u] = "none"
        /\ pc'[u] = "aborting" /\ sweeper' = sweeper
        /\ job' = job /\ archive' = archive
    BY <1>0, <1>8 DEF StreamFails, StreamError, Goto, ControlTypes
  <2>2. PhaseRank(u)' \in Nat /\ PhaseRank(u)' + 1 < PhaseRank(u)
    BY <1>1, <2>1 DEF RankTable
  <2> QED  BY <1>2, <2>1, <2>2 DEF Phases, Requests
<1>9. CASE BeginFails(u) \/ Stored(u) \/ Aborted(u) \/ CompleteRefused(u)
           \/ CallFails(u) \/ TimesOut(u) \/ Drop(u)
           \/ (Packing(u) /\ End(u, "failed"))
  <2>1. /\ \E r : End(u, r)
        /\ job' = job /\ archive' = archive
        /\ \/ sweeper' = sweeper
           \/ pc[u] = "completing"
           \/ sweeper'[u] = (pc[u] = "completing")
    BY <1>0, <1>9 DEF BeginFails, Stored, Aborted, CompleteRefused, CallFails,
                      TimesOut, Drop, Packing, ControlTypes
  <2>2. pc[u] # "done"
    BY <1>9 DEF BeginFails, Stored, Aborted, CompleteRefused, CallFails,
                TimesOut, Drop, Packing, Timed, Requests
  <2> QED  BY <1>0, <1>1, <2>1, <2>2, EndRank
<1>10. CASE Packing(u)
  BY <1>7, <1>9, <1>10 DEF Packing
<1> QED  BY <1>3, <1>4, <1>5, <1>6, <1>7, <1>8, <1>9, <1>10 DEF Step

\* Other calls, a rewritten source and a crash raise it never.
LEMMA RankNeverRises ==
    ASSUME ControlInv, [Next]_uploadVars, NEW v \in Uploads
    PROVE  Rank(v)' <= Rank(v)
<1>0. TypesInv /\ Rank(v) \in Nat /\ PhaseRank(v) \in Nat /\ SessionInv(v)
  BY RankIsNat DEF ControlInv
<1>1. ASSUME pc'[v] = pc[v], answer'[v] = answer[v], job'[v] = job[v],
             archive'[v] = archive[v], off'[v] = off[v], buf'[v] = buf[v], sweeper'[v] = sweeper[v]
      PROVE  Rank(v)' <= Rank(v)
  <2>1. Rank(v)' = Rank(v)
    BY <1>1 DEF Rank, PhaseRank, JobRank, Ahead, Most
  <2> QED  BY <1>0, <2>1
<1>2. CASE Rewrite \/ Rest \/ UNCHANGED uploadVars
  BY <1>1, <1>2 DEF Rewrite, Rest, uploadVars, ctlVars, lateVars, endVars,
                    headVars, streamVars
<1>3. ASSUME NEW u \in Uploads, Step(u)
      PROVE  Rank(v)' <= Rank(v)
  <2>1. CASE u = v
    <3>1. Rank(v)' < Rank(v) /\ Rank(v)' \in Nat
      BY <1>3, <2>1, RankFalls, RankStaysNat, ControlInvStep DEF ControlInv, Next
    <3> QED  BY <1>0, <3>1
  <2>2. CASE u # v
    BY <1>0, <1>1, <1>3, <2>2, OthersSame DEF Same
  <2> QED  BY <2>1, <2>2
<1>4. CASE Crash
  <2>1. /\ JobRank(v)' <= JobRank(v) /\ JobRank(v)' \in Nat /\ JobRank(v) \in Nat
        /\ ~sweeper'[v]
    <3>1. /\ job'[v] = IF job[v] \in {"running", "writing"} THEN "lost" ELSE job[v]
          /\ ~sweeper'[v]
      BY <1>4 DEF Crash
    <3>2. JobRank(v)' = 0
      BY <3>1 DEF JobRank
    <3>3. JobRank(v) \in Nat
      BY <1>0, JobRankIs
    <3> QED  BY <3>1, <3>2, <3>3
  <2>2. CASE pc[v] \in {"idle", "done"}
    <3>1. /\ pc'[v] = pc[v] /\ answer'[v] = answer[v]
          /\ off'[v] = off[v] /\ buf'[v] = buf[v]
      BY <1>4, <2>2 DEF Crash
    <3>2. PhaseRank(v)' = PhaseRank(v)
      BY <3>1 DEF PhaseRank, Ahead, Most
    <3> QED  BY <1>0, <2>1, <3>1, <3>2 DEF Rank
  <2>3. CASE pc[v] \notin {"idle", "done"}
    <3>1. pc'[v] = "done"
      BY <1>4, <2>3 DEF Crash
    <3>2. PhaseRank(v)' = 0 /\ PhaseRank(v) >= 2
      BY <1>0, <2>3, <3>1, RankTables, RankIsNat DEF RankTable
    <3> QED  BY <1>0, <2>1, <3>2 DEF Rank
  <2> QED  BY <2>2, <2>3
<1> QED  BY <1>2, <1>3, <1>4 DEF Next

\* Whatever the store, the clients and the source do, an upload neither turns
\* in a circle nor is it ever set back: each of its own steps lowers a number
\* that nothing raises.  This is the half of UploadEnds that needs no
\* fairness: a call takes at most Most + MaxLen + 21 steps.
UploadsAdvance ==
    [][\A u \in Uploads : /\ Rank(u)' <= Rank(u)
                          /\ Step(u) => Rank(u)' < Rank(u)]_uploadVars

THEOREM UploadsTerminate ==
    Spec => /\ [](\A u \in Uploads : Rank(u) \in 0 .. Most + MaxLen + 21)
            /\ UploadsAdvance
<1>1. ControlInv /\ [Next]_uploadVars
         => [\A u \in Uploads : /\ Rank(u)' <= Rank(u)
                                /\ Step(u) => Rank(u)' < Rank(u)]_uploadVars
  BY RankFalls, RankNeverRises
<1>2. Init => \A u \in Uploads : Rank(u) = Most + MaxLen + 21
  <2> SUFFICES ASSUME Init, NEW u \in Uploads
               PROVE  Rank(u) = Most + MaxLen + 21
    OBVIOUS
  <2>1. pc[u] = "idle" /\ answer[u] = "none" /\ job[u] = "none" /\ ~sweeper[u]
    BY DEF Init
  <2>2. PhaseRank(u) = Most + MaxLen + 20 /\ JobRank(u) = 0
    BY <2>1, RankTables DEF RankTable, JobRank
  <2>3. Most \in Nat /\ MaxLen \in Nat
    BY UploadAssumption DEF Most
  <2> QED  BY <2>1, <2>2, <2>3 DEF Rank
<1> DEFINE Bounded == \A u \in Uploads : Rank(u) \in 0 .. Most + MaxLen + 21
<1>3. Init => Bounded
  <2>1. Most \in Nat /\ MaxLen \in Nat
    BY UploadAssumption DEF Most
  <2> QED  BY <1>2, <2>1
<1>4. Bounded /\ ControlInv /\ ControlInv' /\ [Next]_uploadVars => Bounded'
  <2> SUFFICES ASSUME Bounded, ControlInv, ControlInv', [Next]_uploadVars,
                      NEW u \in Uploads
               PROVE  Rank(u)' \in 0 .. Most' + MaxLen + 21
    OBVIOUS
  <2>1. Rank(u)' <= Rank(u)
    BY RankNeverRises
  <2>2. Most \in Nat /\ Most' = Most /\ MaxLen \in Nat
    BY UploadAssumption DEF Most
  <2>3. Rank(u)' \in Nat
    BY RankStaysNat DEF ControlInv
  <2>4. Rank(u) \in 0 .. Most + MaxLen + 21
    OBVIOUS
  <2> QED  BY ONLY <2>1, <2>2, <2>3, <2>4
<1> QED  BY <1>1, <1>3, <1>4, ControlKept, PTL DEF Spec, UploadsAdvance

=============================================================================
