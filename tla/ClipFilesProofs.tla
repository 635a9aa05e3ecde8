--------------------------- MODULE ClipFilesProofs ---------------------------
(***************************************************************************)
(* Proofs about ClipFiles. That a held clip is whole rests on who owns a   *)
(* path whose window is asked for once, and on how old its file can be     *)
(* before the sweep learns that a job holds it.                            *)
(***************************************************************************)
EXTENDS ClipFiles, TLAPS

\* A clip outlives a request and the sweep that began before its answer.
FreshEnough == 2 * MaxStall <= ClipTtl

-----------------------------------------------------------------------------
(* The inductive invariant. *)

OwnsAlone(r) == path[r] \in Paths \ Shared

\* A path of a window that is asked for once has one request.
OneOwner ==
    \A r, s \in Requests : OwnsAlone(r) /\ path[s] = path[r] => s = r

\* Whatever is written, held or about to be unlinked was asked for.
WasAsked ==
    /\ \A r \in Requests : path[r] # NoPath => path[r] \in asked
    /\ \A p \in Paths : wav[p] # "none" => p \in asked
    /\ victim # NoPath => victim \in asked

\* How far the clip has come when its request has come that far.
ClipOfStep ==
    \A r \in Requests : OwnsAlone(r) =>
        /\ pc[r] = "writing" => link[r] = "alone"
        /\ pc[r] \in {"described", "answering", "held"} => wav[path[r]] = "whole"
        /\ pc[r] \in {"answering", "held"} => meta[path[r]]

\* A clip that is being written is as old as its request at most; one that a
\* job holds and the sweep does not know of was written shortly before the
\* sweep made its list, or after it.
Fresh ==
    \A r \in Requests : OwnsAlone(r) =>
        /\ pc[r] \in Writing => age[path[r]] <= stall[r]
        /\ pc[r] = "held" /\ path[r] \notin protected =>
              /\ spc = "listed" => age[path[r]] <= MaxStall + elapsed
              /\ spc \in Sweeping => age[path[r]] <= 2 * MaxStall + elapsed

\* The sweep unlinks a clip only if its job has been released.
SparesHeld ==
    \A r \in Requests :
        OwnsAlone(r) /\ path[r] = victim => pc[r] \in {"release_wav", "release_meta"}

\* The list the sweep works by is recent when it computes the cutoff, and it has
\* a victim only between its two unlinks.
SweepInv ==
    /\ spc = "listed" => elapsed <= MaxStall
    /\ spc \in {"idle", "listed", "sweep"} => victim = NoPath

ClipInv == TypeOK /\ OneOwner /\ WasAsked /\ ClipOfStep /\ Fresh /\ SparesHeld /\ SweepInv

-----------------------------------------------------------------------------
(* Type correctness. *)

USE DEF Writing, Active, Sweeping, requestVars, sweepVars

LEMMA InitType == Init => TypeOK
  BY ConstantsAssumption DEF Init, TypeOK, MaxAge

\* A request has a path while it is under way, and a file open while it writes.
LEMMA UnderWay ==
  ASSUME TypeOK, NEW r \in Requests
  PROVE  /\ path[r] \in Paths \cup {NoPath}
         /\ path[r] = NoPath => pc[r] = "idle"
         /\ pc[r] = "idle" => path[r] = NoPath
         /\ link[r] # "lost" => pc[r] = "writing"
  <1>1. path[r] \in Paths \cup {NoPath}
    BY DEF TypeOK
  <1>2. path[r] = NoPath <=> pc[r] = "idle"
    BY Zenon DEF TypeOK
  <1>3. link[r] # "lost" => pc[r] = "writing"
    BY Zenon DEF TypeOK
  <1> QED
    BY <1>1, <1>2, <1>3

LEMMA OpenWavType ==
  ASSUME TypeOK, NEW r \in Requests, NEW p \in Paths, OpenWav(r, p)
  PROVE  TypeOK'
  <1>1. /\ wav' \in [Paths -> {"none", "part", "whole"}]
        /\ age' \in [Paths -> 0..MaxAge]
        /\ asked' \in SUBSET Paths
        /\ pc' \in [Requests -> {"idle"} \cup Active]
        /\ path' \in [Requests -> Paths \cup {NoPath}]
        /\ link' \in [Requests -> {"alone", "shared", "lost"}]
        /\ stall' \in [Requests -> 0..MaxStall]
    BY ConstantsAssumption DEF OpenWav, TypeOK, MaxAge
  <1>2. \A q \in Requests : /\ pc'[q] = (IF q = r THEN "writing" ELSE pc[q])
                            /\ path'[q] = (IF q = r THEN p ELSE path[q])
    BY DEF OpenWav, TypeOK
  <1>3. p # NoPath
    BY ConstantsAssumption
  <1>4. \A q \in Requests : path'[q] = NoPath <=> pc'[q] = "idle"
    BY <1>2, <1>3, UnderWay
  <1>5. \A q \in Requests : link'[q] # "lost" => q = r \/ q \in Open(p) \/ link[q] # "lost"
    BY DEF OpenWav
  <1>6. \A q \in Requests : link'[q] # "lost" => pc'[q] = "writing"
    BY <1>2, <1>5, UnderWay DEF Open
  <1> QED
    BY <1>1, <1>4, <1>6 DEF OpenWav, TypeOK

LEMMA CloseWavType == ASSUME TypeOK, NEW r \in Requests, CloseWav(r) PROVE TypeOK'
  <1>1. path[r] \in Paths
    BY UnderWay DEF CloseWav
  <1>2. wav' \in [Paths -> {"none", "part", "whole"}]
    BY <1>1 DEF CloseWav, TypeOK
  <1>3. /\ age' \in [Paths -> 0..MaxAge]
        /\ pc' \in [Requests -> {"idle"} \cup Active]
        /\ link' \in [Requests -> {"alone", "shared", "lost"}]
    BY <1>1, ConstantsAssumption DEF CloseWav, TypeOK, MaxAge
  <1> QED
    BY <1>2, <1>3 DEF CloseWav, TypeOK

LEMMA WriteMetadataType == ASSUME TypeOK, NEW r \in Requests, WriteMetadata(r) PROVE TypeOK'
  BY DEF WriteMetadata, TypeOK

LEMMA AnswerType ==
  ASSUME TypeOK, NEW r \in Requests, NEW kind \in {"query", "submit"}, Answer(r, kind)
  PROVE  TypeOK'
  <1>1. /\ pc' \in [Requests -> {"idle"} \cup Active]
        /\ path' \in [Requests -> Paths \cup {NoPath}]
        /\ stall' \in [Requests -> 0..MaxStall]
    BY ConstantsAssumption DEF Answer, TypeOK
  <1>2. \A q \in Requests : path'[q] = NoPath <=> pc'[q] = "idle"
    <2>1. \A q \in Requests : q # r => path'[q] = path[q] /\ pc'[q] = pc[q]
      BY DEF Answer, TypeOK
    <2>2. CASE kind = "query"
      <3>1. path'[r] = NoPath /\ pc'[r] = "idle"
        BY <2>2 DEF Answer, TypeOK
      <3> QED
        BY <2>1, <3>1, UnderWay
    <2>3. CASE kind = "submit"
      <3>1. path'[r] = path[r] /\ pc'[r] = "held" /\ pc[r] = "answering"
        BY <2>3 DEF Answer, TypeOK
      <3> QED
        BY <2>1, <3>1, UnderWay
    <2> QED
      BY <2>2, <2>3
  <1> QED
    BY <1>1, <1>2 DEF Answer, TypeOK

LEMMA ReleaseType == ASSUME TypeOK, NEW r \in Requests, Release(r) PROVE TypeOK'
  BY DEF Release, TypeOK

LEMMA UnlinkWavType ==
  ASSUME TypeOK, NEW p \in Paths \cup {NoPath}, UnlinkWav(p)
  PROVE  /\ wav' \in [Paths -> {"none", "part", "whole"}]
         /\ age' \in [Paths -> 0..MaxAge]
         /\ link' \in [Requests -> {"alone", "shared", "lost"}]
         /\ \A r \in Requests : link'[r] # "lost" => link[r] # "lost" /\ path[r] # p
  <1>1. 0 \in 0..MaxAge
    BY ConstantsAssumption DEF MaxAge
  <1>2. /\ wav' \in [Paths -> {"none", "part", "whole"}]
        /\ age' \in [Paths -> 0..MaxAge]
    BY <1>1 DEF UnlinkWav, TypeOK
  <1>3. \A r \in Requests : link'[r] = IF path[r] = p THEN "lost" ELSE link[r]
    BY DEF UnlinkWav
  <1>4. link' \in [Requests -> {"alone", "shared", "lost"}]
    BY DEF UnlinkWav, TypeOK
  <1> QED
    BY <1>2, <1>3, <1>4

LEMMA ReleaseWavType == ASSUME TypeOK, NEW r \in Requests, ReleaseWav(r) PROVE TypeOK'
  <1>1. path[r] \in Paths
    BY UnderWay DEF ReleaseWav
  <1>2. pc' \in [Requests -> {"idle"} \cup Active]
    BY DEF ReleaseWav, TypeOK
  <1>3. /\ wav' \in [Paths -> {"none", "part", "whole"}]
        /\ age' \in [Paths -> 0..MaxAge]
        /\ link' \in [Requests -> {"alone", "shared", "lost"}]
        /\ \A q \in Requests : link'[q] # "lost" => link[q] # "lost" /\ path[q] # path[r]
    BY <1>1, UnlinkWavType DEF ReleaseWav
  <1>4. /\ pc[r] = "release_wav" /\ pc'[r] = "release_meta"
        /\ \A q \in Requests : q # r => pc'[q] = pc[q]
    BY DEF ReleaseWav, TypeOK
  <1>5. \A q \in Requests : link'[q] # "lost" => pc'[q] = "writing"
    BY <1>3, <1>4, UnderWay
  <1>6. \A q \in Requests : path'[q] = NoPath <=> pc'[q] = "idle"
    BY <1>4, UnderWay DEF ReleaseWav
  <1> QED
    BY <1>2, <1>3, <1>5, <1>6 DEF ReleaseWav, TypeOK

LEMMA ReleaseMetaType == ASSUME TypeOK, NEW r \in Requests, ReleaseMeta(r) PROVE TypeOK'
  <1>1. /\ meta' \in [Paths -> BOOLEAN]
        /\ pc' \in [Requests -> {"idle"} \cup Active]
        /\ path' \in [Requests -> Paths \cup {NoPath}]
    BY DEF ReleaseMeta, TypeOK
  <1>2. /\ pc[r] = "release_meta" /\ pc'[r] = "idle" /\ path'[r] = NoPath
        /\ \A q \in Requests : q # r => pc'[q] = pc[q] /\ path'[q] = path[q]
    BY DEF ReleaseMeta, TypeOK
  <1>3. \A q \in Requests : path'[q] = NoPath <=> pc'[q] = "idle"
    BY <1>2, UnderWay
  <1>4. \A q \in Requests : link'[q] # "lost" => pc'[q] = "writing"
    BY <1>2, UnderWay DEF ReleaseMeta
  <1> QED
    BY <1>1, <1>3, <1>4 DEF ReleaseMeta, TypeOK

LEMMA SweepType == ASSUME TypeOK, Sweep PROVE TypeOK'
  <1>1. CASE ListProtected
    BY <1>1, ConstantsAssumption DEF ListProtected, TypeOK
  <1>2. CASE ReadCutoff
    BY <1>2 DEF ReadCutoff, TypeOK
  <1>3. CASE \E p \in Paths : StatWav(p)
    BY <1>3 DEF StatWav, TypeOK
  <1>4. CASE SweepWav
    BY <1>4, UnlinkWavType DEF SweepWav, TypeOK
  <1>5. CASE SweepMeta
    BY <1>5 DEF SweepMeta, TypeOK
  <1>6. CASE EndSweep
    BY <1>6 DEF EndSweep, TypeOK
  <1> QED
    BY <1>1, <1>2, <1>3, <1>4, <1>5, <1>6 DEF Sweep

LEMMA CrashType == ASSUME TypeOK, Crash PROVE TypeOK'
  BY ConstantsAssumption DEF Crash, TypeOK

LEMMA TickType == ASSUME TypeOK, Tick PROVE TypeOK'
  <1>1. age' \in [Paths -> 0..MaxAge]
    BY ConstantsAssumption DEF Tick, TypeOK, MaxAge
  <1>2. stall' \in [Requests -> 0..MaxStall]
    BY ConstantsAssumption DEF Tick, TypeOK
  <1>3. elapsed' \in Nat
    BY DEF Tick, TypeOK
  <1> QED
    BY <1>1, <1>2, <1>3 DEF Tick, TypeOK

LEMMA NextType == ASSUME TypeOK, [Next]_vars PROVE TypeOK'
  <1>1. CASE \E r \in Requests, p \in Paths : OpenWav(r, p)
    BY <1>1, OpenWavType
  <1>2. CASE \E r \in Requests : Proceed(r)
    BY <1>2, CloseWavType, WriteMetadataType, AnswerType, ReleaseType, ReleaseWavType,
       ReleaseMetaType DEF Proceed
  <1>3. CASE Sweep
    BY <1>3, SweepType
  <1>4. CASE Crash
    BY <1>4, CrashType
  <1>5. CASE Tick
    BY <1>5, TickType
  <1>6. CASE UNCHANGED vars
    BY <1>6 DEF vars, TypeOK
  <1> QED
    BY <1>1, <1>2, <1>3, <1>4, <1>5, <1>6 DEF Next

\* Variables keep their types and bounds, and a request that is under way has a
\* path (the requests of hub/services.py, the sweep of hub/storage.py).
THEOREM TypeCorrect == Spec => []TypeOK
  <1>1. Init => TypeOK
    BY InitType
  <1>2. TypeOK /\ [Next]_vars => TypeOK'
    BY NextType
  <1> QED
    BY <1>1, <1>2, PTL DEF Spec

-----------------------------------------------------------------------------
(* Held clips. *)

LEMMA OwnsAloneFacts ==
  ASSUME ClipInv, NEW r \in Requests, OwnsAlone(r)
  PROVE  /\ path[r] \in Paths /\ path[r] \notin Shared /\ path[r] # NoPath
         /\ path[r] \in asked /\ pc[r] # "idle"
         /\ \A s \in Requests : path[s] = path[r] => s = r
  BY ConstantsAssumption, UnderWay DEF OwnsAlone, ClipInv, OneOwner, WasAsked

\* Steps of a request that already has its path leave the owners alone.
LEMMA OwnersStay ==
  ASSUME ClipInv, asked' = asked,
         \A r \in Requests : path'[r] \in {path[r], NoPath}
  PROVE  /\ \A r \in Requests : OwnsAlone(r)' => OwnsAlone(r) /\ path'[r] = path[r]
         /\ OneOwner'
         /\ \A r \in Requests : path'[r] # NoPath => path'[r] \in asked'
  <1>1. \A r \in Requests : OwnsAlone(r)' => OwnsAlone(r) /\ path'[r] = path[r]
    BY ConstantsAssumption DEF OwnsAlone
  <1>2. OneOwner'
    BY <1>1, ConstantsAssumption, OwnsAloneFacts DEF OneOwner
  <1>3. \A r \in Requests : path'[r] # NoPath => path'[r] \in asked'
    BY DEF ClipInv, WasAsked
  <1> QED
    BY <1>1, <1>2, <1>3

LEMMA InitClip == Init => ClipInv
  <1> SUFFICES ASSUME Init PROVE ClipInv
    OBVIOUS
  <1>1. TypeOK
    BY InitType
  <1>2. \A r \in Requests : ~OwnsAlone(r) /\ path[r] = NoPath
    BY ConstantsAssumption DEF Init, OwnsAlone
  <1>3. WasAsked
    BY <1>2 DEF Init, WasAsked
  <1>4. SweepInv
    BY DEF Init, SweepInv
  <1> QED
    BY <1>1, <1>2, <1>3, <1>4 DEF ClipInv, OneOwner, ClipOfStep, Fresh, SparesHeld

LEMMA OpenWavClip ==
  ASSUME ClipInv, NEW r \in Requests, NEW p \in Paths, OpenWav(r, p)
  PROVE  ClipInv'
  <1>1. TypeOK'
    BY OpenWavType DEF ClipInv
  <1>2. \A q \in Requests : /\ pc'[q] = (IF q = r THEN "writing" ELSE pc[q])
                            /\ path'[q] = (IF q = r THEN p ELSE path[q])
                            /\ stall'[q] = (IF q = r THEN 0 ELSE stall[q])
    BY DEF OpenWav, TypeOK, ClipInv
  <1>3. \A x \in Paths : /\ wav'[x] = (IF x = p THEN "part" ELSE wav[x])
                         /\ age'[x] = (IF x = p THEN 0 ELSE age[x])
    BY DEF OpenWav, TypeOK, ClipInv
  <1>4. asked' = asked \cup {p} /\ (p \in Shared \/ p \notin asked) /\ pc[r] = "idle" /\ p # NoPath
    BY ConstantsAssumption DEF OpenWav
  <1>5. \A q \in Requests : OwnsAlone(q)' /\ q # r =>
                            OwnsAlone(q) /\ path'[q] = path[q] /\ path[q] # p
    BY <1>2, <1>4, OwnsAloneFacts DEF OwnsAlone
  <1>6. OneOwner'
    <2>1. ASSUME NEW q \in Requests, NEW s \in Requests, OwnsAlone(q)', path'[s] = path'[q], s # q
          PROVE  FALSE
      <3>1. CASE q = r
        <4>1. path[s] = p /\ p \notin Shared
          BY <1>2, <2>1, <3>1 DEF OwnsAlone
        <4>2. path[s] \in asked
          BY <4>1, <1>4 DEF ClipInv, WasAsked
        <4> QED
          BY <4>1, <4>2, <1>4
      <3>2. CASE q # r
        BY <1>2, <1>5, <2>1, <3>2, OwnsAloneFacts
      <3> QED
        BY <3>1, <3>2
    <2> QED
      BY <2>1 DEF OneOwner
  <1>7. WasAsked'
    BY <1>2, <1>3, <1>4 DEF ClipInv, WasAsked, OpenWav
  <1>8. OwnsAlone(r)' => link'[r] = "alone"
    <2>1. OwnsAlone(r)' => Open(p) = {}
      BY <1>2, <1>4 DEF Open, OwnsAlone, ClipInv, WasAsked
    <2> QED
      BY <2>1 DEF OpenWav
  <1>9. \A q \in Requests : OwnsAlone(q)' /\ q # r => link'[q] = link[q]
    BY <1>5 DEF OpenWav, Open
  <1>10. ClipOfStep'
    BY <1>2, <1>3, <1>5, <1>8, <1>9, OwnsAloneFacts DEF ClipInv, ClipOfStep, OpenWav
  <1>11. Fresh'
    <2>1. ASSUME NEW q \in Requests, OwnsAlone(q)', q # r
          PROVE  /\ pc'[q] = pc[q] /\ path'[q] = path[q] /\ stall'[q] = stall[q]
                 /\ age'[path'[q]] = age[path[q]] /\ OwnsAlone(q)
      BY <1>2, <1>3, <1>5, <2>1, OwnsAloneFacts
    <2>2. OwnsAlone(r)' => pc'[r] = "writing" /\ stall'[r] = 0 /\ age'[path'[r]] = 0
      BY <1>2, <1>3
    <2> QED
      BY <2>1, <2>2 DEF ClipInv, Fresh, OpenWav
  <1>12. SparesHeld'
    <2>1. OwnsAlone(r)' => path'[r] # victim
      BY <1>2, <1>4 DEF OwnsAlone, ClipInv, WasAsked
    <2> QED
      BY <1>2, <1>5, <2>1 DEF ClipInv, SparesHeld, OpenWav
  <1>13. SweepInv'
    BY DEF ClipInv, SweepInv, OpenWav
  <1> QED
    BY <1>1, <1>6, <1>7, <1>10, <1>11, <1>12, <1>13 DEF ClipInv

LEMMA CloseWavClip == ASSUME ClipInv, NEW r \in Requests, CloseWav(r) PROVE ClipInv'
  <1>1. TypeOK'
    BY CloseWavType DEF ClipInv
  <1>2. \A q \in Requests : /\ pc'[q] = (IF q = r THEN "described" ELSE pc[q])
                            /\ link'[q] = (IF q = r THEN "lost" ELSE link[q])
    BY DEF CloseWav, TypeOK, ClipInv
  <1>3. /\ path' = path /\ asked' = asked /\ stall' = stall /\ meta' = meta
        /\ pc[r] = "writing" /\ path[r] \in Paths
    BY UnderWay DEF CloseWav, ClipInv
  <1>4. /\ \A x \in Paths : x # path[r] => wav'[x] = wav[x] /\ age'[x] = age[x]
        /\ age'[path[r]] \in {age[path[r]], 0}
        /\ link[r] = "alone" => wav'[path[r]] = "whole" /\ age'[path[r]] = 0
    BY <1>3 DEF CloseWav, TypeOK, ClipInv
  <1>5. /\ \A q \in Requests : OwnsAlone(q)' => OwnsAlone(q) /\ path'[q] = path[q]
        /\ OneOwner'
        /\ \A q \in Requests : path'[q] # NoPath => path'[q] \in asked'
    BY <1>3, OwnersStay
  <1>6. ASSUME NEW q \in Requests, OwnsAlone(q)', q # r
        PROVE  wav'[path'[q]] = wav[path[q]] /\ age'[path'[q]] = age[path[q]]
    BY <1>3, <1>4, <1>5, <1>6, OwnsAloneFacts
  <1>7. OwnsAlone(r)' => wav'[path'[r]] = "whole" /\ age'[path'[r]] = 0
    BY <1>3, <1>4, <1>5 DEF ClipInv, ClipOfStep
  <1>8. WasAsked'
    <2>1. path[r] \in asked
      BY <1>3, ConstantsAssumption DEF ClipInv, WasAsked
    <2>2. \A x \in Paths : wav'[x] # "none" => x \in asked'
      BY <1>3, <1>4, <2>1 DEF ClipInv, WasAsked
    <2>3. victim' # NoPath => victim' \in asked'
      BY <1>3 DEF ClipInv, WasAsked, CloseWav
    <2> QED
      BY <1>5, <2>2, <2>3 DEF WasAsked
  <1>9. ClipOfStep'
    BY <1>2, <1>3, <1>5, <1>6, <1>7 DEF ClipInv, ClipOfStep
  <1>10. stall[r] \in Nat
    BY ConstantsAssumption DEF ClipInv, TypeOK
  <1>11. Fresh'
    BY <1>2, <1>3, <1>5, <1>6, <1>7, <1>10 DEF ClipInv, Fresh, CloseWav
  <1>12. SparesHeld' /\ SweepInv'
    BY <1>2, <1>3, <1>5 DEF ClipInv, SparesHeld, SweepInv, CloseWav
  <1> QED
    BY <1>1, <1>5, <1>8, <1>9, <1>11, <1>12 DEF ClipInv

LEMMA WriteMetadataClip == ASSUME ClipInv, NEW r \in Requests, WriteMetadata(r) PROVE ClipInv'
  <1>1. TypeOK'
    BY WriteMetadataType DEF ClipInv
  <1>2. /\ \A q \in Requests : pc'[q] = (IF q = r THEN "answering" ELSE pc[q])
        /\ meta'[path[r]] = TRUE /\ \A x \in Paths : meta[x] => meta'[x]
        /\ pc[r] = "described"
    BY UnderWay DEF WriteMetadata, TypeOK, ClipInv
  <1>3. /\ \A q \in Requests : OwnsAlone(q)' => OwnsAlone(q) /\ path'[q] = path[q]
        /\ OneOwner'
        /\ \A q \in Requests : path'[q] # NoPath => path'[q] \in asked'
    BY OwnersStay DEF WriteMetadata
  <1>4. WasAsked'
    BY <1>3 DEF ClipInv, WasAsked, WriteMetadata
  <1>5. ClipOfStep'
    BY <1>2, <1>3, OwnsAloneFacts DEF ClipInv, ClipOfStep, WriteMetadata
  <1>6. Fresh' /\ SparesHeld' /\ SweepInv'
    BY <1>2, <1>3 DEF ClipInv, Fresh, SparesHeld, SweepInv, WriteMetadata
  <1> QED
    BY <1>1, <1>3, <1>4, <1>5, <1>6 DEF ClipInv

LEMMA AnswerClip ==
  ASSUME ClipInv, NEW r \in Requests, NEW kind \in {"query", "submit"}, Answer(r, kind)
  PROVE  ClipInv'
  <1>1. TypeOK'
    BY AnswerType DEF ClipInv
  <1>2. /\ \A q \in Requests : q # r => /\ pc'[q] = pc[q] /\ path'[q] = path[q]
                                        /\ stall'[q] = stall[q]
        /\ pc[r] = "answering"
        /\ \/ pc'[r] = "idle" /\ path'[r] = NoPath
           \/ pc'[r] = "held" /\ path'[r] = path[r]
    BY DEF Answer, TypeOK, ClipInv
  <1>3. /\ \A q \in Requests : OwnsAlone(q)' => OwnsAlone(q) /\ path'[q] = path[q]
        /\ OneOwner'
        /\ \A q \in Requests : path'[q] # NoPath => path'[q] \in asked'
    BY <1>2, OwnersStay DEF Answer
  <1>4. WasAsked'
    BY <1>3 DEF ClipInv, WasAsked, Answer
  <1>5. ClipOfStep'
    BY <1>2, <1>3 DEF ClipInv, ClipOfStep, Answer
  <1>6. Fresh'
    <2>1. OwnsAlone(r) => age[path[r]] <= MaxStall /\ age[path[r]] \in Nat
      BY <1>2, ConstantsAssumption, OwnsAloneFacts DEF ClipInv, Fresh, TypeOK, MaxAge
    <2>2. elapsed \in Nat /\ MaxStall \in Nat
      BY ConstantsAssumption DEF ClipInv, TypeOK
    <2>3. OwnsAlone(r) => /\ age[path[r]] <= MaxStall + elapsed
                          /\ age[path[r]] <= 2 * MaxStall + elapsed
      BY <2>1, <2>2
    <2> QED
      BY <1>2, <1>3, <2>3, ConstantsAssumption DEF ClipInv, Fresh, Answer, OwnsAlone
  <1>7. SparesHeld' /\ SweepInv'
    BY <1>2, <1>3 DEF ClipInv, SparesHeld, SweepInv, Answer
  <1> QED
    BY <1>1, <1>3, <1>4, <1>5, <1>6, <1>7 DEF ClipInv

LEMMA ReleaseClip == ASSUME ClipInv, NEW r \in Requests, Release(r) PROVE ClipInv'
  <1>1. TypeOK'
    BY ReleaseType DEF ClipInv
  <1>2. \A q \in Requests : pc'[q] = (IF q = r THEN "release_wav" ELSE pc[q])
    BY DEF Release, TypeOK, ClipInv
  <1>3. /\ \A q \in Requests : OwnsAlone(q)' => OwnsAlone(q) /\ path'[q] = path[q]
        /\ OneOwner'
        /\ \A q \in Requests : path'[q] # NoPath => path'[q] \in asked'
    BY OwnersStay DEF Release
  <1>4. WasAsked'
    BY <1>3 DEF ClipInv, WasAsked, Release
  <1>5. ClipOfStep'
    BY <1>2, <1>3 DEF ClipInv, ClipOfStep, Release
  <1>6. Fresh' /\ SparesHeld' /\ SweepInv'
    BY <1>2, <1>3 DEF ClipInv, Fresh, SparesHeld, SweepInv, Release
  <1> QED
    BY <1>1, <1>3, <1>4, <1>5, <1>6 DEF ClipInv

LEMMA ReleaseWavClip == ASSUME ClipInv, NEW r \in Requests, ReleaseWav(r) PROVE ClipInv'
  <1>1. TypeOK'
    BY ReleaseWavType DEF ClipInv
  <1>2. /\ \A q \in Requests : pc'[q] = (IF q = r THEN "release_meta" ELSE pc[q])
        /\ pc[r] = "release_wav"
    BY DEF ReleaseWav, TypeOK, ClipInv
  <1>3. /\ \A q \in Requests : OwnsAlone(q)' => OwnsAlone(q) /\ path'[q] = path[q]
        /\ OneOwner'
        /\ \A q \in Requests : path'[q] # NoPath => path'[q] \in asked'
    BY OwnersStay DEF ReleaseWav
  <1>4. /\ \A x \in Paths : x # path[r] => wav'[x] = wav[x] /\ age'[x] = age[x]
        /\ \A x \in Paths : wav'[x] # "none" => wav[x] # "none"
        /\ \A q \in Requests : path[q] # path[r] => link'[q] = link[q]
    BY DEF ReleaseWav, UnlinkWav, TypeOK, ClipInv
  <1>5. ASSUME NEW q \in Requests, OwnsAlone(q)', q # r
        PROVE  /\ wav'[path'[q]] = wav[path[q]] /\ age'[path'[q]] = age[path[q]]
               /\ link'[q] = link[q]
    <2>1. path[q] \in Paths /\ path[q] # path[r] /\ path'[q] = path[q]
      BY <1>3, <1>5, OwnsAloneFacts
    <2> QED
      BY <1>4, <2>1
  <1>6. WasAsked'
    BY <1>3, <1>4 DEF ClipInv, WasAsked, ReleaseWav
  <1>7. ClipOfStep'
    BY <1>2, <1>3, <1>5 DEF ClipInv, ClipOfStep, ReleaseWav
  <1>8. Fresh' /\ SparesHeld' /\ SweepInv'
    BY <1>2, <1>3, <1>5 DEF ClipInv, Fresh, SparesHeld, SweepInv, ReleaseWav
  <1> QED
    BY <1>1, <1>3, <1>6, <1>7, <1>8 DEF ClipInv

LEMMA ReleaseMetaClip == ASSUME ClipInv, NEW r \in Requests, ReleaseMeta(r) PROVE ClipInv'
  <1>1. TypeOK'
    BY ReleaseMetaType DEF ClipInv
  <1>2. /\ \A q \in Requests : q # r => pc'[q] = pc[q] /\ path'[q] = path[q]
        /\ pc[r] = "release_meta" /\ pc'[r] = "idle" /\ path'[r] = NoPath
    BY DEF ReleaseMeta, TypeOK, ClipInv
  <1>3. /\ \A q \in Requests : OwnsAlone(q)' => OwnsAlone(q) /\ path'[q] = path[q]
        /\ OneOwner'
        /\ \A q \in Requests : path'[q] # NoPath => path'[q] \in asked'
    BY <1>2, OwnersStay DEF ReleaseMeta
  <1>4. ASSUME NEW q \in Requests, OwnsAlone(q)'
        PROVE  q # r /\ meta'[path'[q]] = meta[path[q]]
    <2>1. q # r
      BY <1>2, <1>4, ConstantsAssumption DEF OwnsAlone
    <2>2. path[q] # path[r] /\ path'[q] = path[q] /\ path[q] \in Paths
      BY <1>3, <1>4, <2>1, OwnsAloneFacts
    <2> QED
      BY <2>1, <2>2 DEF ReleaseMeta, TypeOK, ClipInv
  <1>5. \A q \in Requests : OwnsAlone(q)' => pc'[q] = pc[q] /\ meta'[path'[q]] = meta[path[q]]
    BY <1>2, <1>4
  <1>6. WasAsked'
    BY <1>3 DEF ClipInv, WasAsked, ReleaseMeta
  <1>7. ClipOfStep'
    BY <1>3, <1>5 DEF ClipInv, ClipOfStep, ReleaseMeta
  <1>8. /\ age' = age /\ stall' = stall /\ spc' = spc /\ protected' = protected
        /\ elapsed' = elapsed /\ victim' = victim
    BY DEF ReleaseMeta
  <1>9. Fresh'
    BY <1>3, <1>5, <1>8 DEF ClipInv, Fresh
  <1>10. SparesHeld' /\ SweepInv'
    BY <1>3, <1>5, <1>8 DEF ClipInv, SparesHeld, SweepInv
  <1> QED
    BY <1>1, <1>3, <1>6, <1>7, <1>9, <1>10 DEF ClipInv

LEMMA ListProtectedClip == ASSUME ClipInv, ListProtected PROVE ClipInv'
  <1>1. TypeOK'
    BY SweepType DEF ClipInv, Sweep
  <1>2. \A r \in Requests : pc[r] = "held" => path[r] \in protected'
    BY DEF ListProtected
  <1>3. OneOwner' /\ WasAsked' /\ ClipOfStep' /\ SparesHeld'
    BY DEF ClipInv, OneOwner, WasAsked, ClipOfStep, SparesHeld, OwnsAlone, ListProtected
  <1>4. Fresh'
    BY <1>2 DEF ClipInv, Fresh, OwnsAlone, ListProtected
  <1>5. SweepInv'
    BY ConstantsAssumption DEF ClipInv, SweepInv, ListProtected
  <1> QED
    BY <1>1, <1>3, <1>4, <1>5 DEF ClipInv

LEMMA ReadCutoffClip == ASSUME ClipInv, ReadCutoff PROVE ClipInv'
  <1>1. TypeOK'
    BY SweepType DEF ClipInv, Sweep
  <1>2. OneOwner' /\ WasAsked' /\ ClipOfStep' /\ SparesHeld' /\ SweepInv'
    BY DEF ClipInv, OneOwner, WasAsked, ClipOfStep, SparesHeld, SweepInv, OwnsAlone,
           ReadCutoff
  <1>3. ASSUME NEW r \in Requests, OwnsAlone(r), pc[r] = "held", path[r] \notin protected
        PROVE  age[path[r]] <= 2 * MaxStall + 0
    <2>1. age[path[r]] <= MaxStall + elapsed /\ elapsed <= MaxStall
      BY <1>3 DEF ClipInv, Fresh, SweepInv, ReadCutoff
    <2>2. age[path[r]] \in Nat /\ elapsed \in Nat /\ MaxStall \in Nat
      BY <1>3, OwnsAloneFacts, ConstantsAssumption DEF ClipInv, TypeOK, MaxAge
    <2> QED
      BY <2>1, <2>2
  <1>4. Fresh'
    BY <1>3 DEF ClipInv, Fresh, OwnsAlone, ReadCutoff
  <1> QED
    BY <1>1, <1>2, <1>4 DEF ClipInv

\* A clip that is being written or held is not old enough for the sweep.
LEMMA HeldIsNotOld ==
  ASSUME FreshEnough, ClipInv, spc = "sweep", NEW r \in Requests, OwnsAlone(r), TooOld(path[r])
  PROVE  pc[r] \in {"release_wav", "release_meta"}
  <1> DEFINE p == path[r]
  <1>1. /\ p \in Paths /\ age[p] \in Nat /\ elapsed \in Nat /\ MaxStall \in Nat /\ ClipTtl \in Nat
        /\ stall[r] \in 0..MaxStall /\ pc[r] \in Active
    BY OwnsAloneFacts, ConstantsAssumption DEF ClipInv, TypeOK, MaxAge
  <1>2. age[p] > ClipTtl + elapsed /\ p \notin protected
    BY DEF TooOld
  <1>3. pc[r] \in Writing => age[p] <= MaxStall
    BY <1>1 DEF ClipInv, Fresh
  <1>4. pc[r] = "held" => age[p] <= 2 * MaxStall + elapsed
    BY <1>2 DEF ClipInv, Fresh
  <1> QED
    BY <1>1, <1>2, <1>3, <1>4 DEF FreshEnough

LEMMA StatWavClip ==
  ASSUME FreshEnough, ClipInv, NEW p \in Paths, StatWav(p)
  PROVE  ClipInv'
  <1>1. TypeOK'
    BY SweepType DEF ClipInv, Sweep
  <1>2. OneOwner' /\ ClipOfStep' /\ SweepInv'
    BY DEF ClipInv, OneOwner, ClipOfStep, SweepInv, OwnsAlone, StatWav
  <1>3. Fresh'
    BY DEF ClipInv, Fresh, OwnsAlone, StatWav
  <1>4. WasAsked'
    BY DEF ClipInv, WasAsked, StatWav, TooOld
  <1>5. SparesHeld'
    BY HeldIsNotOld DEF ClipInv, SparesHeld, OwnsAlone, StatWav
  <1> QED
    BY <1>1, <1>2, <1>3, <1>4, <1>5 DEF ClipInv

LEMMA SweepWavClip == ASSUME ClipInv, SweepWav PROVE ClipInv'
  <1>1. TypeOK'
    BY SweepType DEF ClipInv, Sweep
  <1>2. /\ \A x \in Paths : x # victim => wav'[x] = wav[x] /\ age'[x] = age[x]
        /\ \A x \in Paths : wav'[x] # "none" => wav[x] # "none"
        /\ \A q \in Requests : path[q] # victim => link'[q] = link[q]
    BY DEF SweepWav, UnlinkWav, TypeOK, ClipInv
  <1>3. ASSUME NEW q \in Requests, OwnsAlone(q), pc[q] \notin {"release_wav", "release_meta"}
        PROVE  /\ wav'[path[q]] = wav[path[q]] /\ age'[path[q]] = age[path[q]]
               /\ link'[q] = link[q]
    <2>1. path[q] # victim /\ path[q] \in Paths
      BY <1>3, OwnsAloneFacts DEF ClipInv, SparesHeld
    <2> QED
      BY <1>2, <2>1
  <1>4. OneOwner' /\ SparesHeld' /\ SweepInv'
    BY DEF ClipInv, OneOwner, SparesHeld, SweepInv, OwnsAlone, SweepWav
  <1>5. WasAsked'
    BY <1>2 DEF ClipInv, WasAsked, SweepWav
  <1>6. ClipOfStep'
    BY <1>3 DEF ClipInv, ClipOfStep, OwnsAlone, SweepWav
  <1>7. Fresh'
    BY <1>3 DEF ClipInv, Fresh, OwnsAlone, SweepWav
  <1> QED
    BY <1>1, <1>4, <1>5, <1>6, <1>7 DEF ClipInv

LEMMA SweepMetaClip == ASSUME ClipInv, SweepMeta PROVE ClipInv'
  <1>1. TypeOK'
    BY SweepType DEF ClipInv, Sweep
  <1>2. \A x \in Paths : x # victim => meta'[x] = meta[x]
    BY DEF SweepMeta, TypeOK, ClipInv
  <1>3. OneOwner' /\ Fresh' /\ SweepInv'
    BY DEF ClipInv, OneOwner, Fresh, SweepInv, OwnsAlone, SweepMeta
  <1>4. WasAsked'
    BY DEF ClipInv, WasAsked, SweepMeta
  <1>5. ASSUME NEW q \in Requests, OwnsAlone(q), pc[q] \in {"answering", "held"}
        PROVE  meta'[path[q]]
    <2>1. path[q] # victim /\ path[q] \in Paths /\ meta[path[q]]
      BY <1>5, OwnsAloneFacts DEF ClipInv, SparesHeld, ClipOfStep
    <2> QED
      BY <1>2, <2>1
  <1>6. ClipOfStep'
    BY <1>5 DEF ClipInv, ClipOfStep, OwnsAlone, SweepMeta
  <1>7. SparesHeld'
    BY ConstantsAssumption DEF SparesHeld, OwnsAlone, SweepMeta
  <1> QED
    BY <1>1, <1>3, <1>4, <1>6, <1>7 DEF ClipInv

LEMMA EndSweepClip == ASSUME ClipInv, EndSweep PROVE ClipInv'
  <1>1. TypeOK'
    BY SweepType DEF ClipInv, Sweep
  <1>2. OneOwner' /\ WasAsked' /\ ClipOfStep' /\ SparesHeld' /\ SweepInv'
    BY DEF ClipInv, OneOwner, WasAsked, ClipOfStep, SparesHeld, SweepInv, OwnsAlone,
           EndSweep
  <1>3. Fresh'
    BY DEF ClipInv, Fresh, OwnsAlone, EndSweep
  <1> QED
    BY <1>1, <1>2, <1>3 DEF ClipInv

LEMMA CrashClip == ASSUME ClipInv, Crash PROVE ClipInv'
  <1>1. TypeOK'
    BY CrashType DEF ClipInv
  <1>2. \A r \in Requests : ~OwnsAlone(r)' /\ path'[r] = NoPath
    BY ConstantsAssumption DEF OwnsAlone, Crash
  <1>3. WasAsked'
    BY <1>2 DEF ClipInv, WasAsked, Crash
  <1>4. SweepInv'
    BY DEF SweepInv, Crash
  <1> QED
    BY <1>1, <1>2, <1>3, <1>4 DEF ClipInv, OneOwner, ClipOfStep, Fresh, SparesHeld

LEMMA TickClip == ASSUME ClipInv, Tick PROVE ClipInv'
  <1>1. TypeOK'
    BY TickType DEF ClipInv
  <1>2. OneOwner' /\ WasAsked' /\ ClipOfStep' /\ SparesHeld'
    BY DEF ClipInv, OneOwner, WasAsked, ClipOfStep, SparesHeld, OwnsAlone, Tick
  <1>3. elapsed \in Nat /\ elapsed' = (IF spc = "idle" THEN elapsed ELSE elapsed + 1)
        /\ MaxStall \in Nat
    BY ConstantsAssumption DEF ClipInv, TypeOK, Tick
  <1>4. SweepInv'
    BY <1>3 DEF ClipInv, SweepInv, Tick
  <1>5. \A p \in Paths : age[p] \in Nat /\ age'[p] \in {age[p], age[p] + 1}
    BY ConstantsAssumption DEF ClipInv, TypeOK, MaxAge, Tick
  <1>6. \A r \in Requests : pc[r] \in Writing => stall[r] \in Nat /\ stall'[r] = stall[r] + 1
    BY DEF ClipInv, TypeOK, Tick
  <1>7. ASSUME NEW r \in Requests, OwnsAlone(r)
        PROVE  /\ pc[r] \in Writing => age'[path[r]] <= stall'[r]
               /\ pc[r] = "held" /\ path[r] \notin protected =>
                     /\ spc = "listed" => age'[path[r]] <= MaxStall + elapsed'
                     /\ spc \in Sweeping => age'[path[r]] <= 2 * MaxStall + elapsed'
    <2>1. path[r] \in Paths
      BY <1>7, OwnsAloneFacts
    <2>2. age[path[r]] \in Nat /\ age'[path[r]] \in {age[path[r]], age[path[r]] + 1}
      BY <1>5, <2>1
    <2> QED
      BY <1>3, <1>6, <1>7, <2>2 DEF ClipInv, Fresh
  <1>8. Fresh'
    BY <1>7 DEF Fresh, OwnsAlone, Tick
  <1> QED
    BY <1>1, <1>2, <1>4, <1>8 DEF ClipInv

LEMMA NextClip == ASSUME FreshEnough, ClipInv, [Next]_vars PROVE ClipInv'
  <1>1. CASE \E r \in Requests, p \in Paths : OpenWav(r, p)
    BY <1>1, OpenWavClip
  <1>2. CASE \E r \in Requests : Proceed(r)
    BY <1>2, CloseWavClip, WriteMetadataClip, AnswerClip, ReleaseClip, ReleaseWavClip,
       ReleaseMetaClip DEF Proceed
  <1>3. CASE Sweep
    BY <1>3, ListProtectedClip, ReadCutoffClip, StatWavClip, SweepWavClip, SweepMetaClip,
       EndSweepClip DEF Sweep
  <1>4. CASE Crash
    BY <1>4, CrashClip
  <1>5. CASE Tick
    BY <1>5, TickClip
  <1>6. CASE UNCHANGED vars
    BY <1>6 DEF vars, ClipInv, TypeOK, OneOwner, WasAsked, ClipOfStep, Fresh, SparesHeld,
                SweepInv, OwnsAlone
  <1> QED
    BY <1>1, <1>2, <1>3, <1>4, <1>5, <1>6 DEF Next

\* The clip of a job is on disk, complete and described, while the job is held
\* (submit and the sweep of hub/jobs.py, cleanup_expired), if clips outlive a
\* request and the sweep that began before its answer.
THEOREM HeldClipsAreWhole ==
  ASSUME FreshEnough
  PROVE  Spec => []HeldClipIsWhole
  <1>1. ClipInv /\ [Next]_vars => ClipInv'
    BY NextClip
  <1>2. ClipInv => HeldClipIsWhole
    BY UnderWay DEF ClipInv, ClipOfStep, OwnsAlone, HeldClipIsWhole
  <1> QED
    BY <1>1, <1>2, InitClip, PTL DEF Spec

-----------------------------------------------------------------------------
(* Metadata. *)

\* The wav file of a path at rest is there if its metadata is: of a step that
\* leaves a path, the last unlink takes the metadata, and an answer leaves both.
LEMMA NextMetadata ==
  ASSUME ClipInv, MetadataHasWav, [Next]_vars
  PROVE  MetadataHasWav'
  <1> SUFFICES ASSUME crashes' = 0, NEW p \in Paths \ Shared, meta'[p], ~Busy(p)'
               PROVE  wav'[p] # "none"
    BY DEF MetadataHasWav
  <1> USE DEF ClipInv
  <1>1. meta[p] /\ ~Busy(p) /\ crashes = 0 => wav[p] # "none"
    BY DEF MetadataHasWav
  <1>2. (\A r \in Requests : path'[r] # p) /\ victim' # p
    BY DEF Busy
  <1>3. ASSUME NEW r \in Requests, pc[r] \in {"described", "answering"}, path[r] = p
        PROVE  wav[p] = "whole"
    BY <1>3 DEF ClipOfStep, OwnsAlone
  <1>4. CASE \E r \in Requests, x \in Paths : OpenWav(r, x)
    <2>1. PICK r \in Requests, x \in Paths : OpenWav(r, x)
      BY <1>4
    <2>2. path'[r] = x /\ pc[r] = "idle" /\ \A q \in Requests : q # r => path'[q] = path[q]
      BY <2>1 DEF OpenWav, TypeOK
    <2>3. x # p /\ ~Busy(p) /\ meta[p] /\ crashes = 0
      BY <1>2, <2>1, <2>2, UnderWay, ConstantsAssumption DEF OpenWav, Busy
    <2> QED
      BY <1>1, <2>1, <2>3 DEF OpenWav, TypeOK
  <1>5. ASSUME NEW r \in Requests, CloseWav(r) PROVE wav'[p] # "none"
    <2>1. path[r] # p /\ ~Busy(p) /\ meta[p] /\ crashes = 0
      BY <1>2, <1>5 DEF CloseWav, Busy
    <2>2. wav'[p] = wav[p]
      BY <1>5, <2>1 DEF CloseWav, TypeOK
    <2> QED
      BY <1>1, <2>1, <2>2
  <1>6. ASSUME NEW r \in Requests, WriteMetadata(r) PROVE wav'[p] # "none"
    <2>1. path[r] # p /\ ~Busy(p) /\ crashes = 0 /\ wav' = wav
      BY <1>2, <1>6 DEF WriteMetadata, Busy
    <2>2. meta'[p] = meta[p]
      BY <1>6, <2>1 DEF WriteMetadata, TypeOK
    <2> QED
      BY <1>1, <2>1, <2>2
  <1>7. ASSUME NEW r \in Requests, NEW kind \in {"query", "submit"}, Answer(r, kind)
        PROVE  wav'[p] # "none"
    <2>1. \A q \in Requests : q # r => path'[q] = path[q]
      BY <1>7 DEF Answer, TypeOK
    <2>2. pc[r] = "answering" /\ wav' = wav /\ meta' = meta /\ victim' = victim /\ crashes' = crashes
      BY <1>7 DEF Answer
    <2>3. CASE path[r] = p
      BY <1>3, <2>2, <2>3
    <2>4. CASE path[r] # p
      BY <1>1, <1>2, <2>1, <2>2, <2>4 DEF Busy
    <2> QED
      BY <2>3, <2>4
  <1>8. ASSUME NEW r \in Requests, Release(r) PROVE wav'[p] # "none"
    BY <1>1, <1>2, <1>8 DEF Release, Busy
  <1>9. ASSUME NEW r \in Requests, ReleaseWav(r) PROVE wav'[p] # "none"
    <2>1. path[r] # p /\ ~Busy(p) /\ meta[p] /\ crashes = 0
      BY <1>2, <1>9 DEF ReleaseWav, Busy
    <2>2. wav'[p] = wav[p]
      BY <1>9, <2>1 DEF ReleaseWav, UnlinkWav, TypeOK
    <2> QED
      BY <1>1, <2>1, <2>2
  <1>10. ASSUME NEW r \in Requests, ReleaseMeta(r) PROVE wav'[p] # "none"
    <2>1. \A q \in Requests : q # r => path'[q] = path[q]
      BY <1>10 DEF ReleaseMeta, TypeOK
    <2>2. wav' = wav /\ victim' = victim /\ crashes' = crashes
      BY <1>10 DEF ReleaseMeta
    <2>3. path[r] # p
      BY <1>10 DEF ReleaseMeta, TypeOK
    <2>4. meta'[p] = meta[p]
      BY <1>10, <2>3 DEF ReleaseMeta, TypeOK
    <2> QED
      BY <1>1, <1>2, <2>1, <2>2, <2>3, <2>4 DEF Busy
  <1>11. CASE SweepWav
    <2>1. victim # p /\ ~Busy(p) /\ meta[p] /\ crashes = 0
      BY <1>2, <1>11 DEF SweepWav, Busy
    <2>2. wav'[p] = wav[p]
      BY <1>11, <2>1 DEF SweepWav, UnlinkWav, TypeOK
    <2> QED
      BY <1>1, <2>1, <2>2
  <1>12. CASE SweepMeta
    <2>1. victim # p
      BY <1>12 DEF SweepMeta, TypeOK
    <2>2. meta'[p] = meta[p] /\ ~Busy(p) /\ crashes = 0 /\ wav' = wav
      BY <1>2, <1>12, <2>1 DEF SweepMeta, Busy, TypeOK
    <2> QED
      BY <1>1, <2>2
  <1>13. CASE ListProtected
    BY <1>1, <1>2, <1>13 DEF ListProtected, Busy
  <1>14. CASE ReadCutoff
    BY <1>1, <1>2, <1>14 DEF ReadCutoff, Busy
  <1>15. ASSUME NEW x \in Paths, StatWav(x) PROVE wav'[p] # "none"
    <2>1. victim # p
      BY <1>15, ConstantsAssumption DEF StatWav, SweepInv
    <2> QED
      BY <1>1, <1>2, <1>15, <2>1 DEF StatWav, Busy
  <1>16. CASE EndSweep
    BY <1>1, <1>2, <1>16 DEF EndSweep, Busy
  <1>17. CASE Crash
    BY <1>17 DEF Crash, TypeOK
  <1>18. CASE Tick
    BY <1>1, <1>2, <1>18 DEF Tick, Busy
  <1>19. CASE UNCHANGED vars
    BY <1>1, <1>2, <1>19 DEF vars, Busy
  <1> QED
    BY <1>4, <1>5, <1>6, <1>7, <1>8, <1>9, <1>10, <1>11, <1>12, <1>13, <1>14, <1>15, <1>16,
       <1>17, <1>18, <1>19 DEF Next, Proceed, Sweep

\* When a path is at rest its metadata has a wav file that leads the sweep to it
\* (delete_clip and cleanup_expired of hub/storage.py), while the hub does not
\* crash.
THEOREM MetadataIsFound ==
  ASSUME FreshEnough
  PROVE  Spec => []MetadataHasWav
  <1>1. Init => MetadataHasWav
    BY DEF Init, MetadataHasWav
  <1>2. ClipInv /\ [Next]_vars => ClipInv'
    BY NextClip
  <1>3. ClipInv /\ MetadataHasWav /\ [Next]_vars => MetadataHasWav'
    BY NextMetadata
  <1> QED
    BY <1>1, <1>2, <1>3, InitClip, PTL DEF Spec
=============================================================================
