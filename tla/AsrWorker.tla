------------------------------ MODULE AsrWorker ------------------------------
(***************************************************************************)
(* The speech-to-text worker (worker/): an HTTP server with a thread for   *)
(* each request, around one of two backends. bailian_qwen_asr.py reads the *)
(* clip and posts it to a cloud service; qwen3_asr.py loads a model when   *)
(* the first request needs it, on the first device that takes it, and keeps*)
(* it for all requests. Nothing is locked.                                 *)
(*                                                                         *)
(* Requests come from the hub only (SttPath), so they have all the fields  *)
(* and a well-formed body. A request is one job: its identity is also that *)
(* of the model its thread may load. _resolved_device_map, which is never  *)
(* read, is left out.                                                      *)
(***************************************************************************)
EXTENDS Integers

CONSTANTS
    Requests,     \* the transcriptions that are asked for, each once
    NoModel,
    Devices,      \* how many devices _candidate_device_maps names
    MaxAudio,     \* max_audio_bytes, in chunks of audio
    MaxCrashes    \* bound on how often the process dies

VARIABLES
    file,       \* how long the clip at each request's audio_path is in the file
                \* system of this process, or NoFile; nothing here writes it
    setup,      \* its environment, a record with fields provider, key and routed
    up,         \* the process serves its port
    model,      \* self._model, named by the request whose thread loaded it
    wpc,        \* where the thread of each request is
    tries,      \* the device on which that thread loads the model
    held,       \* the model in its local variable
    conn,       \* what the worker has done with the request's connection
    fault,      \* history: the requests that met a fault of their surroundings:
                \* of the cloud, the model, the network, the setup or a process
    crashes

workerVars == <<up, model, wpc, tries, held, conn, fault, crashes>>

NoFile == -1
Supported == {"bailian", "local"}
Answers == {"ok", "error", "404", "closed"}

\* The worker was started first, as Compose does. One that is not there when the
\* hub calls it is one that crashed.
Init ==
    /\ up = (setup.provider \in Supported)
    /\ model = NoModel
    /\ wpc = [r \in Requests |-> "idle"]
    /\ tries = [r \in Requests |-> 0]
    /\ held = [r \in Requests |-> NoModel]
    /\ conn = [r \in Requests |-> "none"]
    /\ fault = {}
    /\ crashes = 0

\* main: build_backend raises for a provider it does not know. Compose and the
\* operator start the process again after it died.
Start ==
    /\ ~up
    /\ setup.provider \in Supported
    /\ up' = TRUE
    /\ UNCHANGED <<model, wpc, tries, held, conn, fault, crashes>>

\* The process dies, and its threads, its model and its connections with it.
Crash ==
    /\ up
    /\ crashes < MaxCrashes
    /\ up' = FALSE
    /\ model' = NoModel
    /\ wpc' = [r \in Requests |-> "idle"]
    /\ tries' = [r \in Requests |-> 0]
    /\ held' = [r \in Requests |-> NoModel]
    /\ conn' = [r \in Requests |-> IF conn[r] = "open" THEN "closed" ELSE conn[r]]
    /\ fault' = fault \cup {r \in Requests : conn[r] = "open"}
    /\ crashes' = crashes + 1

\* A connection is accepted and given a thread.
Connect(r) ==
    /\ up
    /\ conn[r] = "none"
    /\ conn' = [conn EXCEPT ![r] = "open"]
    /\ wpc' = [wpc EXCEPT ![r] = "transcribe"]
    /\ UNCHANGED <<up, model, tries, held, fault, crashes>>

-----------------------------------------------------------------------------
(* One request's thread. *)

Go(r, from, to) == wpc[r] = from /\ wpc' = [wpc EXCEPT ![r] = to]

\* The thread goes on to `error' because of a fault that is not its own.
Trouble(r, from) ==
    /\ Go(r, from, "error")
    /\ fault' = fault \cup {r}
    /\ UNCHANGED <<up, model, tries, held, conn, crashes>>

\* do_POST: the hub's URL has another path.
NotFound(r) ==
    /\ ~setup.routed
    /\ Go(r, "transcribe", "idle")
    /\ conn' = [conn EXCEPT ![r] = "404"]
    /\ fault' = fault \cup {r}
    /\ UNCHANGED <<up, model, tries, held, crashes>>

Routed(provider) == setup.routed /\ setup.provider = provider

NoKey(r) ==
    /\ Routed("bailian")
    /\ ~setup.key
    /\ Trouble(r, "transcribe")

\* _build_payload raises if the clip is missing or longer than the cloud takes.
BuildPayload(r) ==
    /\ Routed("bailian")
    /\ setup.key
    /\ Go(r, "transcribe", IF file[r] \in 0..MaxAudio THEN "post" ELSE "error")
    /\ UNCHANGED <<up, model, tries, held, conn, fault, crashes>>

CloudAnswers(r) ==
    /\ Go(r, "post", "ok")
    /\ UNCHANGED <<up, model, tries, held, conn, fault, crashes>>

\* An HTTP error, no connection, an answer that is not understood, or no text.
CloudFails(r) == Trouble(r, "post")

\* _get_model loads a model when r has tested that there is none.
GetModel(r, none) ==
    /\ Routed("local")
    /\ Go(r, "transcribe", IF none THEN "load" ELSE "return")
    /\ tries' = [tries EXCEPT ![r] = IF none THEN 1 ELSE 0]
    /\ UNCHANGED <<up, model, held, conn, fault, crashes>>

\* Broken form: every thread loads a model of its own.
LoadAnyway(r) == GetModel(r, TRUE)

\* No lock is held from this test to Loaded.
TestModel(r) == GetModel(r, model = NoModel)

\* qwen_asr is not installed.
ImportFails(r) == tries[r] = 1 /\ Trouble(r, "load")

\* from_pretrained returns; another thread's model may be replaced.
Loaded(r) ==
    /\ Go(r, "load", "return")
    /\ model' = r
    /\ UNCHANGED <<up, tries, held, conn, fault, crashes>>

\* Broken form: one device more than there is.
NextDeviceAfterLast(r) ==
    /\ wpc[r] = "load"
    /\ tries[r] <= Devices
    /\ tries' = [tries EXCEPT ![r] = @ + 1]
    /\ UNCHANGED <<up, model, wpc, held, conn, fault, crashes>>

LoadFails(r) ==
    /\ wpc[r] = "load"
    /\ tries[r] < Devices
    /\ tries' = [tries EXCEPT ![r] = @ + 1]
    /\ UNCHANGED <<up, model, wpc, held, conn, fault, crashes>>

\* No device is left. The last error is raised, unless another thread has loaded
\* the model meanwhile.
LastLoadFails(r) ==
    /\ tries[r] = Devices
    /\ Go(r, "load", IF model = NoModel THEN "error" ELSE "return")
    /\ fault' = IF model = NoModel THEN fault \cup {r} ELSE fault
    /\ UNCHANGED <<up, model, tries, held, conn, crashes>>

\* self._model is read once more: it may be another one than was tested or loaded.
ReturnModel(r) ==
    /\ Go(r, "return", "hear")
    /\ held' = [held EXCEPT ![r] = model]
    /\ UNCHANGED <<up, model, tries, conn, fault, crashes>>

Hear(r) ==
    /\ file[r] # NoFile
    /\ Go(r, "hear", "ok")
    /\ UNCHANGED <<up, model, tries, held, conn, fault, crashes>>

\* model.transcribe raises or has no results; it must raise if the clip is gone.
HearFails(r) ==
    /\ Go(r, "hear", "error")
    /\ fault' = IF file[r] = NoFile THEN fault ELSE fault \cup {r}
    /\ UNCHANGED <<up, model, tries, held, conn, crashes>>

\* Both answers carry the clip's duration. _wav_duration of the local backend
\* raises if the clip is gone, even while an error is reported: the thread ends
\* and the connection is closed without an answer. Bailian's returns None.
Answer(r) ==
    /\ wpc[r] \in {"ok", "error"}
    /\ conn' = [conn EXCEPT ![r] = IF setup.provider = "local" /\ file[r] = NoFile
                                   THEN "closed" ELSE wpc[r]]
    /\ wpc' = [wpc EXCEPT ![r] = "idle"]
    /\ tries' = [tries EXCEPT ![r] = 0]
    /\ held' = [held EXCEPT ![r] = NoModel]
    /\ UNCHANGED <<up, model, fault, crashes>>

Thread(r) ==
    \/ NotFound(r)
    \/ NoKey(r)
    \/ BuildPayload(r)
    \/ CloudAnswers(r)
    \/ CloudFails(r)
    \/ TestModel(r)
    \/ ImportFails(r)
    \/ Loaded(r)
    \/ LoadFails(r)
    \/ LastLoadFails(r)
    \/ ReturnModel(r)
    \/ Hear(r)
    \/ HearFails(r)
    \/ Answer(r)

\* Every step of the process but Connect, which takes two.
Next == Start \/ Crash \/ \E r \in Requests : Thread(r)

-----------------------------------------------------------------------------
Busy == {"transcribe", "post", "load", "return", "hear", "ok", "error"}

\* Every variable keeps its type, and a request has a thread as long as it has no
\* answer.
TypeOK ==
    /\ up \in BOOLEAN
    /\ model \in Requests \cup {NoModel}
    /\ wpc \in [Requests -> Busy \cup {"idle"}]
    /\ tries \in [Requests -> 0..Devices]
    /\ held \in [Requests -> Requests \cup {NoModel}]
    /\ conn \in [Requests -> Answers \cup {"none", "open"}]
    /\ fault \subseteq Requests
    /\ crashes \in 0..MaxCrashes
    /\ \A r \in Requests : wpc[r] \in Busy <=> conn[r] = "open"

\* The models in memory: loaded, in use or being made.
Copies ==
    ({model} \cup {held[r] : r \in Requests} \cup {r \in Requests : wpc[r] = "load"})
        \ {NoModel}
=============================================================================
