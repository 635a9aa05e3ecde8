----------------------------- MODULE HubProcess -----------------------------
(***************************************************************************)
(* One life of the hub's process around its job service: the two entry     *)
(* points (hub/main.py, mcp_adapter/main.py) starting and stopping what    *)
(* hub/runtime.py holds, and the requests that come through the HTTP API   *)
(* (hub/api.py) and the MCP tools (mcp_adapter/server.py) to               *)
(* hub/services.py.                                                        *)
(*                                                                         *)
(* The job manager is the abstract JobService, which SttJobs is proved to  *)
(* implement; a job is named by the request that submits it. One node's    *)
(* audio is in the ring, one chunk for each unit of time; how it gets      *)
(* there is NodeIngest. Windows differ from request to request, so each    *)
(* request has a clip of its own (SttJobs has the other case).             *)
(***************************************************************************)
EXTENDS Integers, Sequences, FiniteSets

CONSTANTS
    Requests,
    Capacity,     \* stt_job_queue_size
    Setups,       \* the environments the processes may be started in
    Queries,      \* what clients may ask for
    NoQuery,
    Ring,         \* when the chunks in the ring came
    MaxQuery,     \* max_query_seconds
    Ageing,       \* the requests whose jobs are followed until they are aged out
    NaN           \* the float that is not a number

\* A setup says which program runs and whether it has the HTTP API too; provider,
\* key and routed are the worker's (AsrWorker).
Setup == [entry : {"hub", "mcp"}, legacy : BOOLEAN,
          provider : {"bailian", "local", "other"}, key : BOOLEAN, routed : BOOLEAN]

Floats == Int \cup {NaN}

\* A query comes through a door. Its body is "bad" if it is no JSON, lacks a field, or
\* has a value that does not convert or another modality than audio; "unanswered" if the
\* handlers end without a word on it. known: the registry has its node. The MCP server
\* checks a tool's arguments itself, and has no tool for bare clips.
Query == {q \in [door : {"http", "mcp"}, tool : {"stt", "audio"},
                 body : {"object", "bad", "unanswered"}, known : BOOLEAN,
                 from : Floats, to : Floats] :
             q.door = "mcp" => q.tool = "stt" /\ q.body # "unanswered"}

ASSUME HubAssumption ==
    /\ Capacity \in Nat
    /\ Setups \subseteq Setup
    /\ Queries \subseteq Query
    /\ NoQuery \notin Queries
    /\ Ring \subseteq Int /\ IsFiniteSet(Ring)
    /\ MaxQuery \in Nat
    /\ Ageing \subseteq Requests
    /\ NaN \notin Int

VARIABLES
    setup,      \* the setup both processes run in
    phase,      \* where the main thread is
    rpc, ask,   \* the thread of each request
    told,       \* what the client of each request was told last
    clips,      \* how long the clip of each request is, or NoFile
    waiting, outcome, stopped   \* the job service

requestVars == <<rpc, ask, told>>
serviceVars == <<waiting, outcome, stopped>>
hubVars == <<setup, phase, requestVars, clips, serviceVars>>

Service == INSTANCE JobService WITH Jobs <- Requests

NoFile == -1

HubInit ==
    /\ setup \in Setups
    /\ phase = "receiver"
    /\ rpc = [r \in Requests |-> "idle"]
    /\ ask = [r \in Requests |-> NoQuery]
    /\ told = [r \in Requests |-> "nothing"]
    /\ clips = [r \in Requests |-> NoFile]
    /\ Service!Init

-----------------------------------------------------------------------------
(* The main thread. *)

Enter(from, to) ==
    /\ phase = from
    /\ phase' = to
    /\ UNCHANGED <<setup, requestVars, clips, serviceVars>>

\* The process ends, and its threads, all of them daemons, wherever they are.
Exit(from) ==
    /\ phase = from
    /\ phase' = "exited"
    /\ rpc' = [r \in Requests |-> "idle"]
    /\ ask' = [r \in Requests |-> NoQuery]
    /\ told' = [r \in Requests |-> IF rpc[r] = "idle" THEN told[r] ELSE "lost"]
    /\ UNCHANGED <<setup, clips, serviceVars>>

\* HubRuntime.start; a port that is taken ends the process.
StartReceiver == Enter("receiver", "jobs")
ReceiverFails == Exit("receiver")
StartJobs == Enter("jobs", "bridge")

\* The bridge may be off, and a failure of its start is passed over. Then
\* hub.main makes its server, and mcp_adapter.main one if it is to have it.
StartBridge ==
    Enter("bridge", IF setup.entry = "hub" \/ setup.legacy THEN "http" ELSE "mcp")

\* build_server and serve_forever; hub.main serves in its main thread,
\* mcp_adapter.main in another one, and goes on. A port that is taken raises
\* before the try statement: nothing is stopped.
StartHttp == Enter("http", IF setup.entry = "hub" THEN "serving" ELSE "mcp")
HttpFails == Exit("http")

StartMcp == Enter("mcp", "serving")

\* The server of the main thread ends: it could not have its port, or it was
\* interrupted. The finally clause closes the other server first.
Finally == IF setup.entry = "mcp" /\ setup.legacy THEN "shutdown" ELSE "stop_jobs"
McpFails  == Enter("mcp", Finally)
Interrupt == Enter("serving", Finally)
CloseHttp == Enter("shutdown", "stop_jobs")

\* HubRuntime.stop, after the bridge was stopped. The threads of requests go on
\* until the process ends.
StopJobs ==
    /\ phase = "stop_jobs"
    /\ phase' = "stop_receiver"
    /\ Service!Stop
    /\ UNCHANGED <<setup, requestVars, clips>>
StopReceiver == Exit("stop_receiver")

Main ==
    \/ StartReceiver
    \/ ReceiverFails
    \/ StartJobs
    \/ StartBridge
    \/ StartHttp
    \/ HttpFails
    \/ StartMcp
    \/ McpFails
    \/ Interrupt
    \/ CloseHttp
    \/ StopJobs
    \/ StopReceiver

\* The manager's thread lives.
Running == phase \notin {"receiver", "jobs", "exited"}

\* Where requests can get in.
Open(door) ==
    IF door = "mcp" THEN setup.entry = "mcp" /\ phase = "serving"
    ELSE IF setup.entry = "hub" THEN phase = "serving"
    ELSE setup.legacy /\ phase \in {"mcp", "serving", "shutdown"}

-----------------------------------------------------------------------------
(* Windows. Comparisons with NaN are false and differences are NaN. *)

Leq(a, b)   == a # NaN /\ b # NaN /\ a <= b
Minus(a, b) == IF a = NaN \/ b = NaN THEN NaN ELSE a - b

\* Broken form: the limit is taken as one second more.
LongerThanAllowed(q) == ~Leq(Minus(q.to, q.from), MaxQuery + 1)

Backwards(q) == Leq(q.to, q.from)
TooLong(q) ==
    LET length == Minus(q.to, q.from) IN length # NaN /\ ~Leq(length, MaxQuery)

\* _resolve_query lets it pass. A window with a NaN is neither backwards nor too long.
Valid(q) ==
    /\ q.body = "object"
    /\ ~Backwards(q)
    /\ ~TooLong(q)
    /\ q.known

\* RingBufferStore.extract.
Cut(q) == {t \in Ring : Leq(q.from, t) /\ Leq(t, q.to)}

-----------------------------------------------------------------------------
(* Requests: a thread of the HTTP server, or a call of an MCP tool. *)

\* Request r is answered, and its thread ends.
Tell(r, answer) ==
    /\ told' = [told EXCEPT ![r] = answer]
    /\ rpc' = [rpc EXCEPT ![r] = "idle"]
    /\ ask' = [ask EXCEPT ![r] = NoQuery]

Arrives(r, q) ==
    /\ rpc[r] = "idle"
    /\ told[r] = "nothing"
    /\ Open(q.door)

\* 400 or 404, or an error in the tool's result.
Refuse(r, q) ==
    /\ Arrives(r, q)
    /\ q.body # "unanswered" /\ ~Valid(q)
    /\ Tell(r, "refused")
    /\ UNCHANGED <<setup, phase, clips, serviceVars>>

\* _read_json returns None for a body of null, which the handlers take for an answer
\* already given. They raise, and the connection is dropped, for a body that is a number
\* or a boolean, for bytes that are no UTF-8, and for an integer too great for a float.
NoReply(r, q) ==
    /\ Arrives(r, q)
    /\ q.body = "unanswered"
    /\ Tell(r, "lost")
    /\ UNCHANGED <<setup, phase, clips, serviceVars>>

Admit(r, q) ==
    /\ Arrives(r, q)
    /\ Valid(q)
    /\ rpc' = [rpc EXCEPT ![r] = "extract"]
    /\ ask' = [ask EXCEPT ![r] = q]
    /\ UNCHANGED <<setup, phase, told, clips, serviceVars>>

\* extract_audio raises ValueError.
NoAudio(r) ==
    /\ rpc[r] = "extract"
    /\ Cut(ask[r]) = {}
    /\ Tell(r, "refused")
    /\ UNCHANGED <<setup, phase, clips, serviceVars>>

\* Writing the clip raises OSError, which nobody catches.
ExtractFails(r) ==
    /\ rpc[r] = "extract"
    /\ Cut(ask[r]) # {}
    /\ \E written \in {NoFile, Cardinality(Cut(ask[r]))} :
         clips' = [clips EXCEPT ![r] = written]
    /\ Tell(r, "lost")
    /\ UNCHANGED <<setup, phase, serviceVars>>

WriteClip(r) ==
    /\ rpc[r] = "extract"
    /\ Cut(ask[r]) # {}
    /\ clips' = [clips EXCEPT ![r] = Cardinality(Cut(ask[r]))]

\* query_audio answers with the path of the clip.
AnswerAudio(r) ==
    /\ WriteClip(r)
    /\ ask[r].tool = "audio"
    /\ Tell(r, "clip")
    /\ UNCHANGED <<setup, phase, serviceVars>>

ExtractClip(r) ==
    /\ WriteClip(r)
    /\ ask[r].tool = "stt"
    /\ rpc' = [rpc EXCEPT ![r] = "submit"]
    /\ UNCHANGED <<setup, phase, ask, told, serviceVars>>

\* Broken form: one place more than the queue has.
SubmitOneMore(r) ==
    /\ rpc[r] = "submit"
    /\ Capacity = 0 \/ Len(waiting) <= Capacity
    /\ waiting' = Append(waiting, r)
    /\ outcome' = [outcome EXCEPT ![r] = "waiting"]
    /\ rpc' = [rpc EXCEPT ![r] = "reply"]
    /\ UNCHANGED <<setup, phase, ask, told, clips, stopped>>

\* SttJobManager.submit: the job is accepted, or its clip is deleted and the
\* client told that the queue is full.
Submit(r) ==
    /\ rpc[r] = "submit"
    /\ Service!Accept(r)
    /\ rpc' = [rpc EXCEPT ![r] = "reply"]
    /\ UNCHANGED <<setup, phase, ask, told, clips>>

QueueFull(r) ==
    /\ rpc[r] = "submit"
    /\ Capacity > 0 /\ Len(waiting) >= Capacity
    /\ rpc' = [rpc EXCEPT ![r] = "withdraw"]
    /\ UNCHANGED <<setup, phase, ask, told, clips, serviceVars>>

\* Broken form: the clip is left for the sweep.
LeaveClip(r) ==
    /\ rpc[r] = "withdraw"
    /\ Tell(r, "busy")
    /\ UNCHANGED <<setup, phase, clips, serviceVars>>

Withdraw(r) ==
    /\ rpc[r] = "withdraw"
    /\ clips' = [clips EXCEPT ![r] = NoFile]
    /\ Tell(r, "busy")
    /\ UNCHANGED <<setup, phase, serviceVars>>

\* The status of a job as its client sees it: "pending" for "queued" and "running",
\* "forgotten" for the answer that the id is unknown.
Statuses == {"pending", "succeeded", "failed", "expired", "forgotten"}
Status(r) == IF outcome[r] \in {"waiting", "serving"} THEN "pending" ELSE outcome[r]

\* The thread keeps the job's object, and may copy it when the job is already served
\* or even forgotten.
Reply(r) ==
    /\ rpc[r] = "reply"
    /\ Tell(r, IF outcome[r] = "forgotten" THEN "expired" ELSE Status(r))
    /\ UNCHANGED <<setup, phase, clips, serviceVars>>

\* GET /jobs/<id> or get_stt_job.
Poll(r) ==
    /\ told[r] \in Statuses
    /\ \E door \in {"http", "mcp"} : Open(door)
    /\ told' = [told EXCEPT ![r] = Status(r)]
    /\ UNCHANGED <<setup, phase, rpc, ask, clips, serviceVars>>

Request(r) ==
    \/ \E q \in Queries : Refuse(r, q) \/ NoReply(r, q) \/ Admit(r, q)
    \/ NoAudio(r)
    \/ ExtractFails(r)
    \/ AnswerAudio(r)
    \/ ExtractClip(r)
    \/ Submit(r)
    \/ QueueFull(r)
    \/ Withdraw(r)
    \/ Reply(r)
    \/ Poll(r)

-----------------------------------------------------------------------------
(* Ageing, by the manager's thread or any other. *)

\* Broken form: a job is aged by its submission and not by its verdict.
AgeUnfinished(old, dead) ==
    /\ Running
    /\ old \cup dead # {}
    /\ \A r \in old : outcome[r] \in {"serving", "succeeded", "failed"}
    /\ clips' = [r \in Requests |-> IF r \in old THEN NoFile ELSE clips[r]]
    /\ UNCHANGED <<setup, phase, requestVars, serviceVars>>

\* _expire_old_jobs.
AgeJobs(old, dead) ==
    /\ Running
    /\ old \cup dead # {}
    /\ Service!Age(old, dead)
    /\ clips' = [r \in Requests |-> IF r \in old THEN NoFile ELSE clips[r]]
    /\ UNCHANGED <<setup, phase, requestVars>>

\* cleanup_expired: a clip that no job refers to and that is past its TTL, so that
\* no request is about to submit it.
SweepClip(r) ==
    /\ Running
    /\ clips[r] # NoFile
    /\ rpc[r] = "idle"
    /\ outcome[r] = "none"
    /\ clips' = [clips EXCEPT ![r] = NoFile]
    /\ UNCHANGED <<setup, phase, requestVars, serviceVars>>

HubNext ==
    \/ Main
    \/ \E r \in Requests : Request(r) \/ SweepClip(r)
    \/ \E old, dead \in SUBSET Ageing : AgeJobs(old, dead)

-----------------------------------------------------------------------------
HubTypeOK ==
    /\ setup \in Setups
    /\ phase \in {"receiver", "jobs", "bridge", "http", "mcp", "serving", "shutdown",
                  "stop_jobs", "stop_receiver", "exited"}
    /\ rpc \in [Requests -> {"idle", "extract", "submit", "withdraw", "reply"}]
    /\ ask \in [Requests -> Queries \cup {NoQuery}]
    /\ told \in [Requests -> {"nothing", "refused", "lost", "busy", "clip"}
                              \cup Statuses]
    /\ clips \in [Requests -> Nat \cup {NoFile}]
    /\ Service!TypeOK
    /\ Capacity > 0 => Len(waiting) <= Capacity
=============================================================================
