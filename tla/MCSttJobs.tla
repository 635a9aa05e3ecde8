----------------------------- MODULE MCSttJobs -----------------------------
(***************************************************************************)
(* Instances of SttJobs for TLC.                                           *)
(***************************************************************************)
EXTENDS SttJobs, TLC

\* Clients, job ids and windows are interchangeable.
Symmetry ==
    Permutations(Clients) \cup Permutations(JobIds) \cup Permutations(Paths)

\* A worker that answers as worker/api.py does, and one that is not to be
\* trusted with its segments.
WellFormedReplies == {"ok", "error", "unreachable"}
AllReplies == WellFormedReplies \cup {"malformed"}
=============================================================================
