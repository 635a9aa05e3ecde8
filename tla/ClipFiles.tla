------------------------------ MODULE ClipFiles ------------------------------
(***************************************************************************)
(* The clip directory of the hub, file by file: how hub/extractor.py,      *)
(* shared/wav.py and hub/storage.py write a clip and its metadata, how     *)
(* delete_clip unlinks them one after the other, how cleanup_expired       *)
(* sweeps, and what a crash of the hub leaves behind.                      *)
(*                                                                         *)
(* Jobs are reduced to what the files see of them: from the moment a       *)
(* submission is registered until it is refused or aged out, its request   *)
(* is "held" and the sweep is told to spare its path. (SttJobs has the     *)
(* jobs, and a clip that is written and deleted in one step.)              *)
(*                                                                         *)
(* Time is kept as ages, so that behaviours go on for ever.                *)
(***************************************************************************)
EXTENDS Naturals, FiniteSets

CONSTANTS
    Requests,     \* query_audio and submit_stt_query calls that overlap
    Paths,        \* clip paths, one for each node and window
    NoPath,
    ClipTtl,      \* clip_ttl_seconds
    MaxStall,     \* bound on a request, from its first write to its answer,
                  \* and on the sweep, from its list to its cutoff
    MaxSweep,     \* bound on the sweep, from its cutoff to its end
    MaxCrashes,   \* bound on crashes of the hub
    Shared        \* the windows that may be asked for more than once

ASSUME ConstantsAssumption ==
    /\ NoPath \notin Paths
    /\ ClipTtl \in Nat
    /\ MaxStall \in Nat \ {0}
    /\ MaxSweep \in Nat \ {0}
    /\ MaxCrashes \in Nat
    /\ Shared \subseteq Paths

VARIABLES
    wav,        \* the wav file at each path: "none", "part" written, or "whole"
    age,        \* time since its last write, up to MaxAge
    meta,       \* whether the json file is there; nobody reads what is in it
    asked,      \* the paths that were asked for
    pc, path,   \* each request, and the job it may have left behind
    link,       \* whether the wav file a request writes is still the one at its
                \* path, and whether another request writes it too
    stall,      \* time since its first write
    spc, protected, todo, victim, elapsed,   \* the sweep
    crashes

requestVars == <<pc, path, link, stall>>
sweepVars   == <<spc, protected, todo, victim, elapsed>>
vars == <<wav, age, meta, asked, requestVars, sweepVars, crashes>>

MaxAge == ClipTtl + MaxSweep + 1

Writing == {"writing", "described", "answering"}
Active  == Writing \cup {"held", "release_wav", "release_meta"}

\* Nothing is in memory when the hub starts, and the directory is empty.
Init ==
    /\ wav = [p \in Paths |-> "none"]
    /\ age = [p \in Paths |-> 0]
    /\ meta = [p \in Paths |-> FALSE]
    /\ asked = {}
    /\ crashes = 0
    /\ pc = [r \in Requests |-> "idle"]
    /\ path = [r \in Requests |-> NoPath]
    /\ link = [r \in Requests |-> "lost"]
    /\ stall = [r \in Requests |-> 0]
    /\ spc = "idle"
    /\ protected = {}
    /\ todo = {}
    /\ victim = NoPath
    /\ elapsed = 0

-----------------------------------------------------------------------------
(* Requests. *)

\* Requests that have the file at p open.
Open(p) == {r \in Requests : pc[r] = "writing" /\ path[r] = p /\ link[r] # "lost"}

\* wave.open(path, "wb") creates the file or truncates the one that is there.
OpenWav(r, p) ==
    /\ pc[r] = "idle"
    /\ p \in Shared \/ p \notin asked
    /\ asked' = asked \cup {p}
    /\ wav' = [wav EXCEPT ![p] = "part"]
    /\ age' = [age EXCEPT ![p] = 0]
    /\ pc' = [pc EXCEPT ![r] = "writing"]
    /\ path' = [path EXCEPT ![r] = p]
    /\ link' = [q \in Requests |->
                  IF q \in Open(p) \/ (q = r /\ Open(p) # {}) THEN "shared"
                  ELSE IF q = r THEN "alone" ELSE link[q]]
    /\ stall' = [stall EXCEPT ![r] = 0]
    /\ UNCHANGED <<meta, sweepVars, crashes>>

\* Broken form: the file is not closed.
LeaveOpen(r) ==
    /\ pc[r] = "writing"
    /\ wav' = [wav EXCEPT ![path[r]] = IF link[r] = "lost" THEN @ ELSE "whole"]
    /\ age' = [age EXCEPT ![path[r]] = IF link[r] = "lost" THEN @ ELSE 0]
    /\ pc' = [pc EXCEPT ![r] = "described"]
    /\ UNCHANGED <<meta, asked, path, link, stall, sweepVars, crashes>>

\* The frames are written and the file closed. Two requests that write one file
\* may leave a mixture; a file that was unlinked meanwhile is lost.
CloseWav(r) ==
    /\ pc[r] = "writing"
    /\ \E content \in CASE link[r] = "alone"  -> {"whole"}
                        [] link[r] = "shared" -> {"part", "whole"}
                        [] link[r] = "lost"   -> {wav[path[r]]} :
         wav' = [wav EXCEPT ![path[r]] = content]
    /\ age' = [age EXCEPT ![path[r]] = IF link[r] = "lost" THEN @ ELSE 0]
    /\ pc' = [pc EXCEPT ![r] = "described"]
    /\ link' = [link EXCEPT ![r] = "lost"]
    /\ UNCHANGED <<meta, asked, path, stall, sweepVars, crashes>>

WriteMetadata(r) ==
    /\ pc[r] = "described"
    /\ meta' = [meta EXCEPT ![path[r]] = TRUE]
    /\ pc' = [pc EXCEPT ![r] = "answering"]
    /\ UNCHANGED <<wav, age, asked, path, link, stall, sweepVars, crashes>>

\* query_audio answers and is done with the clip; submit registers a job.
Answer(r, kind) ==
    /\ pc[r] = "answering"
    /\ pc' = [pc EXCEPT ![r] = IF kind = "query" THEN "idle" ELSE "held"]
    /\ path' = [path EXCEPT ![r] = IF kind = "query" THEN NoPath ELSE @]
    /\ stall' = [stall EXCEPT ![r] = 0]
    /\ UNCHANGED <<wav, age, meta, asked, link, sweepVars, crashes>>

\* The job is refused or aged out: its record goes, then its clip.
Release(r) ==
    /\ pc[r] = "held"
    /\ pc' = [pc EXCEPT ![r] = "release_wav"]
    /\ UNCHANGED <<wav, age, meta, asked, path, link, stall, sweepVars, crashes>>

\* delete_clip, first half: whoever has the file open writes to no path now.
UnlinkWav(p) ==
    /\ wav' = [wav EXCEPT ![p] = "none"]
    /\ age' = [age EXCEPT ![p] = 0]
    /\ link' = [r \in Requests |-> IF path[r] = p THEN "lost" ELSE link[r]]

ReleaseWav(r) ==
    /\ pc[r] = "release_wav"
    /\ UnlinkWav(path[r])
    /\ pc' = [pc EXCEPT ![r] = "release_meta"]
    /\ UNCHANGED <<meta, asked, path, stall, sweepVars, crashes>>

ReleaseMeta(r) ==
    /\ pc[r] = "release_meta"
    /\ meta' = [meta EXCEPT ![path[r]] = FALSE]
    /\ pc' = [pc EXCEPT ![r] = "idle"]
    /\ path' = [path EXCEPT ![r] = NoPath]
    /\ UNCHANGED <<wav, age, asked, link, stall, sweepVars, crashes>>

\* What a request or the thread that ages out its job does once it has begun.
Proceed(r) ==
    \/ CloseWav(r)
    \/ WriteMetadata(r)
    \/ \E kind \in {"query", "submit"} : Answer(r, kind)
    \/ Release(r)
    \/ ReleaseWav(r)
    \/ ReleaseMeta(r)

-----------------------------------------------------------------------------
(* The sweep, cleanup_expired. *)

\* Broken forms: no path is spared, or every path ever handed out.
ListNothing ==
    /\ spc = "idle"
    /\ protected' = {}
    /\ elapsed' = 0
    /\ spc' = "listed"
    /\ UNCHANGED <<wav, age, meta, asked, requestVars, todo, victim, crashes>>

ListEverything ==
    /\ spc = "idle"
    /\ protected' = asked
    /\ elapsed' = 0
    /\ spc' = "listed"
    /\ UNCHANGED <<wav, age, meta, asked, requestVars, todo, victim, crashes>>

ListProtected ==
    /\ spc = "idle"
    /\ protected' = {path[r] : r \in {q \in Requests : pc[q] = "held"}}
    /\ elapsed' = 0
    /\ spc' = "listed"
    /\ UNCHANGED <<wav, age, meta, asked, requestVars, todo, victim, crashes>>

ReadCutoff ==
    /\ spc = "listed"
    /\ todo' = {p \in Paths : wav[p] # "none"}
    /\ elapsed' = 0
    /\ spc' = "sweep"
    /\ UNCHANGED <<wav, age, meta, asked, requestVars, protected, victim, crashes>>

\* Broken form: a file left half written is skipped.
WholeAndOld(p) == wav[p] = "whole" /\ p \notin protected /\ age[p] > ClipTtl + elapsed

\* Its last write was more than ClipTtl before the cutoff was computed.
TooOld(p) == wav[p] # "none" /\ p \notin protected /\ age[p] > ClipTtl + elapsed

StatWav(p) ==
    /\ spc = "sweep"
    /\ p \in todo
    /\ todo' = todo \ {p}
    /\ IF TooOld(p) THEN spc' = "unlink_wav" /\ victim' = p
                    ELSE UNCHANGED <<spc, victim>>
    /\ UNCHANGED <<wav, age, meta, asked, requestVars, protected, elapsed, crashes>>

SweepWav ==
    /\ spc = "unlink_wav"
    /\ UnlinkWav(victim)
    /\ spc' = "unlink_meta"
    /\ UNCHANGED <<meta, asked, pc, path, stall, protected, todo, victim, elapsed, crashes>>

\* Broken form: the metadata is left.
SweepWavOnly ==
    /\ spc = "unlink_meta"
    /\ victim' = NoPath
    /\ spc' = "sweep"
    /\ UNCHANGED <<wav, age, meta, asked, requestVars, protected, todo, elapsed, crashes>>

SweepMeta ==
    /\ spc = "unlink_meta"
    /\ meta' = [meta EXCEPT ![victim] = FALSE]
    /\ victim' = NoPath
    /\ spc' = "sweep"
    /\ UNCHANGED <<wav, age, asked, requestVars, protected, todo, elapsed, crashes>>

EndSweep ==
    /\ spc = "sweep"
    /\ todo = {}
    /\ protected' = {}
    /\ elapsed' = 0
    /\ spc' = "idle"
    /\ UNCHANGED <<wav, age, meta, asked, requestVars, todo, victim, crashes>>

Sweep ==
    \/ ListProtected
    \/ ReadCutoff
    \/ \E p \in Paths : StatWav(p)
    \/ SweepWav
    \/ SweepMeta
    \/ EndSweep

-----------------------------------------------------------------------------
\* The hub is killed and started again: jobs are in memory only.
Crash ==
    /\ crashes < MaxCrashes
    /\ crashes' = crashes + 1
    /\ pc' = [r \in Requests |-> "idle"]
    /\ path' = [r \in Requests |-> NoPath]
    /\ link' = [r \in Requests |-> "lost"]
    /\ stall' = [r \in Requests |-> 0]
    /\ spc' = "idle"
    /\ protected' = {}
    /\ todo' = {}
    /\ victim' = NoPath
    /\ elapsed' = 0
    /\ UNCHANGED <<wav, age, meta, asked>>

Sweeping == {"sweep", "unlink_wav", "unlink_meta"}

Tick ==
    /\ \A r \in Requests : pc[r] \in Writing => stall[r] < MaxStall
    /\ spc = "listed" => elapsed < MaxStall
    /\ spc \in Sweeping => elapsed < MaxSweep
    /\ age' = [p \in Paths |-> IF wav[p] # "none" /\ age[p] < MaxAge
                               THEN age[p] + 1 ELSE age[p]]
    /\ stall' = [r \in Requests |-> IF pc[r] \in Writing THEN stall[r] + 1 ELSE stall[r]]
    /\ elapsed' = IF spc = "idle" THEN elapsed ELSE elapsed + 1
    /\ UNCHANGED <<wav, meta, asked, pc, path, link, spc, protected, todo, victim, crashes>>

Next ==
    \/ \E r \in Requests, p \in Paths : OpenWav(r, p)
    \/ \E r \in Requests : Proceed(r)
    \/ Sweep
    \/ Crash
    \/ Tick

Spec == Init /\ [][Next]_vars

\* Requests end, jobs are aged out, the runner sweeps, and time passes. Nothing
\* obliges clients to ask.
FairSpec ==
    /\ Spec
    /\ \A r \in Requests : WF_vars(Proceed(r))
    /\ WF_vars(Sweep)
    /\ WF_vars(Tick)

-----------------------------------------------------------------------------
(* Properties. *)

\* Every variable keeps its type and its bound, a request has a path from its
\* first write to its last unlink, and a file open only while it writes.
TypeOK ==
    /\ wav \in [Paths -> {"none", "part", "whole"}]
    /\ age \in [Paths -> 0..MaxAge]
    /\ meta \in [Paths -> BOOLEAN]
    /\ asked \in SUBSET Paths
    /\ pc \in [Requests -> {"idle"} \cup Active]
    /\ path \in [Requests -> Paths \cup {NoPath}]
    /\ link \in [Requests -> {"alone", "shared", "lost"}]
    /\ stall \in [Requests -> 0..MaxStall]
    /\ spc \in {"idle", "listed"} \cup Sweeping
    /\ protected \in SUBSET Paths
    /\ todo \in SUBSET Paths
    /\ victim \in Paths \cup {NoPath}
    /\ elapsed \in Nat
    /\ crashes \in 0..MaxCrashes
    /\ \A r \in Requests : path[r] = NoPath <=> pc[r] = "idle"
    /\ \A r \in Requests : link[r] # "lost" => pc[r] = "writing"

\* The clip of a job is on disk, complete and described, from the moment the
\* job is registered until it is refused or aged out. (Unless its window is
\* asked for again.)
HeldClipIsWhole ==
    \A r \in Requests :
        pc[r] = "held" /\ path[r] \notin Shared => wav[path[r]] = "whole" /\ meta[path[r]]

\* When a path is at rest, its wav and its metadata are both there or both not:
\* the sweep, which finds clips by their wav files, can find what is left. (A
\* crash between the two unlinks leaves metadata that no sweep finds.)
Busy(p) == \/ \E r \in Requests : path[r] = p
           \/ victim = p
MetadataHasWav ==
    crashes = 0 => \A p \in Paths \ Shared : meta[p] /\ ~Busy(p) => wav[p] # "none"

\* A wav file that no request writes and no job holds does not stay: crashes,
\* files left half written and windows asked for again included.
WavsAreSwept == \A p \in Paths : []<>(wav[p] = "none" \/ \E r \in Requests : path[r] = p)

\* Nor does any file of a clip, while the hub does not crash.
ClipsAreSwept ==
    \A p \in Paths \ Shared :
        []<>((wav[p] = "none" /\ ~meta[p]) \/ (\E r \in Requests : path[r] = p) \/ crashes > 0)
=============================================================================
