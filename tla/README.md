# EchoTrigger in TLA+

EchoTrigger keeps the last minutes of audio of several microphone nodes on a
PC. When something happens in the house, a client asks the *PC hub* for the
audio of a time window, or for a transcript of it. This directory holds TLA+
specifications of the program, the TLC runs that check them on small instances,
and theorems about them that TLAPS checks for every value of the constants.

`tlc -config X.cfg MCModule.tla` runs a configuration, `tlapm XProofs.tla`
checks the proofs of a module. `PROJECT.json` lists the runs, the broken forms
of definitions that each property is known to detect, the lines each definition
translates, the hazards, and the theorems.

## The system

| Part | Source | State | Operations |
| --- | --- | --- | --- |
| Job manager | `hub/jobs.py` | job dict, queue, stop event, clock readings | `submit`, `get`, the thread `_run`, `stop` |
| Services | `hub/services.py` | none of its own | `query_audio`, `submit_stt_query`, `get_stt_job`, `list_nodes` |
| Clip storage | `hub/storage.py` | a directory of wav and json files | `build_clip_path`, `write_metadata`, `delete_clip`, `cleanup_expired` |
| Extractor | `hub/extractor.py`, `shared/wav.py` | none | cut a window out of a ring, write wav and metadata |
| Receiver | `hub/receiver.py`, `hub/protocol.py` | socket, thread, stop event | `_run`: parse, count, store |
| Registry | `hub/registry.py` | counters per node | `register_frame`, `get`, `list_nodes` |
| Ring buffers | `hub/ring_buffer.py` | chunks per node, running total | `append` with eviction, `extract` |
| Home Assistant bridge | `hub/ha_mqtt.py` | MQTT client, known topics, thread | `start`, `stop`, `_run`, `_on_message` |
| Runtime | `hub/runtime.py`, `hub/main.py`, `mcp_adapter/main.py`, `hub/config.py` | which parts run | `start`, `stop` |
| Legacy API, MCP adapter | `hub/api.py`, `mcp_adapter/server.py` | a thread for each request | translate requests to services |
| Worker | `worker/` | the local model, a thread for each request | transcribe a clip, in the cloud or with the model |
| Audio capture | `audio_capture.c`, `audio_packetizer.c` | `s_sequence`, packet queue, streaming flag | `audio_task` |
| UDP streamer | `udp_streamer.c` | socket, target, network flag | `udp_task`, reconfigure, network up/down |
| MQTT control | `mqtt_control.c` | command queue, client | event handler, `control_task` |
| Device configuration | `device_config.c` | RAM copy, NVS | commits, load at boot |
| Start-up, Wi-Fi, telemetry | `main.c`, `health_monitor.c` | event bits, counters | `app_main`, `wifi_event_handler`, `telemetry_task` |
| Setup portal | `setup_portal.c` | HTTP and DNS servers | save form |

How they interact:

- Node to hub: `audio_task` numbers packets and puts them into a FreeRTOS queue;
  `udp_task` sends them over UDP; the hub's receiver thread counts each frame in
  the registry and then stores it in the ring of its node. Nothing is
  acknowledged.
- Client to hub: threads of the HTTP or MCP server call the services, which look
  a node up in the registry, cut a window out of its ring into a clip on disk,
  and either answer with the clip's path or submit a job that refers to it.
- The job manager's one thread takes jobs from a bounded queue, posts the paths
  of their clips to the worker, another process, waits at most 120 s, stores the verdict, and after each job and each idle second sweeps
  the clip directory and ages out old jobs. `submit` and `get` age out old jobs
  too, in the threads of their callers.
- The bridge's thread reads the registry every few seconds and publishes
  retained MQTT messages; callbacks of the MQTT library bring the broker's
  retained state back in.
- On a node, the Wi-Fi event task, the MQTT task, the control task and the
  streamer share the socket, the client and the configuration without locks.

What makes it hard: callers and the job thread share jobs and clip files, but the
lock covers the jobs only; clip paths are shared between requests for the same
window; clocks are read before locks are taken; files are made and removed in
several steps; the network loses, repeats and reorders; nodes restart.

What would make each part correct:

- *Jobs*: an accepted job is served once and in order and gets a verdict; its
  clip stays until its result goes; results stay for their TTL.
- *Clips*: a clip that a job refers to is whole; a clip nobody refers to goes.
- *A transcript's way*: a job fails only for a cause outside of the program; what a
  client is told agrees with what was done and is never taken back; the worker loads
  its model once.
- *Ingest*: counters account for what was lost; the ring is the newest audio that
  fits; what a client is given has no holes.
- *Bridge*: the broker's last word on the hub and on every node agrees with the
  registry, after any order of start, stop and retained messages.
- *Node*: the socket is used only while open; the packet queue loses only its
  oldest and every packet is counted; the uplink recovers; a command that was
  applied is what the next boot reads.

## Modules

| Module | What it is |
| --- | --- |
| `JobService` | abstract: a bounded FIFO of jobs with one server, verdicts and their ageing |
| `JobServiceProofs` | theorems about `JobService`, for whatever implements it |
| `SttJobs` | the job manager with the request threads and the clip sweep; implements `JobService` |
| `SttJobsProofs` | theorems about `SttJobs` |
| `HubProcess` | one life of the hub's process around `JobService`: both programs' start and stop, and the requests that come through HTTP and MCP |
| `AsrWorker` | the worker's process with its two backends |
| `SttPath` | the composition of `HubProcess` and `AsrWorker` by the call of the worker |
| `SttPathProofs` | theorems about `SttPath` |
| `ClipFiles` | the clip directory file by file, with crashes |
| `ClipFilesProofs` | theorems about `ClipFiles` |
| `NodeIngest` | packets, receiver, registry, rings, windows |
| `NodeIngestProofs` | theorems about `NodeIngest` |
| `HaBridge` | the bridge to Home Assistant, the MQTT client's queue and the broker |
| `HaBridgeProofs` | theorems about `HaBridge` |
| `NodeUplink` | the tasks of a node around the packet queue and the UDP socket |
| `NodeUplinkProofs` | theorems about `NodeUplink` |
| `NodeControl` | the configuration of a node: flash, RAM, commands, setup form, boot |
| `NodeControlProofs` | theorems about `NodeControl` |
| `MC*` | instances for TLC |

Operators that a comment calls *broken form* are mutated versions of a definition
that no specification uses; they document which mistakes the properties detect.

### SttJobs

One step is one region under the manager's lock, one queue operation, one reading
of the clock or one access to the clip directory; other threads may come in
between any two. `pc` says where each request thread is, `rpc` where the
manager's thread is.

| Code | Actions |
| --- | --- |
| `query_audio` | `QueryAudio` |
| `submit_stt_query`, `submit` | `ExtractClip`, `ReadClock`, `Expire`, `Register`, then `Enqueue`, or `Refuse`, `DropRefused`, `DeleteRefused` when the queue is full |
| `get` | `ReadClock`, `Expire` (the answer changes no state) |
| `_run` | `TestStop`, `Dequeue` or `GetTimesOut`, `StartJob`, `CallWorker`, `HalfWriteResult`, `FinishJob`, `ListProtected`, `ReadCutoff`, `StatClip`, `UnlinkClip`, `EndSweep`, `ExpireAndLoop` |
| `_expire_old_jobs` | `ExpireOldJobs(t)`, with the time `t` read before the lock |
| `stop` | `Stop` |

A clip is the modification time of its wav file. A job that is not in the dict has
one of three statuses that tell why. `asked` and `finishedAt` are history that
only the properties and the assumption `AskOnce` read.

Properties:

- `NoAcceptedJobLost`: a job shown as queued is in the queue once, or with the
  request that is queueing or withdrawing it, or with the runner; a running job is
  the runner's.
- `ReferencedClipKept`: the clip of a waiting, running or finished job is on disk.
  The sweep works from a list of protected paths that is stale by the time it
  unlinks; what saves a job registered since is that its clip is younger than the
  cutoff. That takes a bound on how long a request is suspended between writing a
  clip and registering the job, and on how long the sweep is between its list and
  its cutoff: `2 * MaxStall <= ClipTtl`. The bound is tight (with `MaxStall = 1`
  and `ClipTtl = 1` TLC finds a lost clip); the program's default TTL is
  minutes against suspensions of milliseconds.
- `ClipKeptForTtl`: a clip leaves the disk only with its job's result, with a
  refused submission, or unreferenced and past its TTL.
- `ResultsKeptForTtl`: a result is served for `job_ttl_seconds` and its job known
  for twice that, though threads expire jobs with clock readings out of order.
- `ImplementsService`: callers see `JobService`, with its fairness: jobs get their
  verdicts one at a time, in the order they were accepted, and a queued job gets a verdict unless the manager is stopped. The refinement
  maps a job that is registered and not yet queued to *none*: its id was not
  returned yet, and if the queue is full nobody ever learns of it.

Assumptions: the clock does not go backwards. In the runs and theorems about clips
a window is asked for once (`AskOnce`); `SttJobsShared` shows what happens
otherwise. Replies are what `worker/api.py` sends, or malformed: segments that do
not convert leave `_set_status` half done, and the handler writes the error over a
half-written result. `SttJobsSafe` has both kinds. The refinement is stated for
well-formed replies only: with the other kind a job can be seen as a success and
then as a failure.

Fairness: weak fairness of the runner, all its steps together. It is one thread
whose waits all end: `queue.get` after one second, `_call_worker` after its
timeout. Nothing is assumed of clients or of `Stop`.

### HubProcess, AsrWorker and SttPath

The way of a transcript across the two processes. `HubProcess` takes the job manager
as the abstract `JobService`, which `SttJobs` implements; a job is named by the
request that submits it. `phase` says where the main thread of the hub is, `rpc` where
the thread of each request is, `told` what its client was told last. In `AsrWorker`
`wpc` says where the thread of each request is and `conn` what has become of its
connection. `setup` is the environment that both are started in: which program,
with the HTTP API or without, which backend, with a key or without, and whether the
hub's URL has the right path.

| Code | Actions |
| --- | --- |
| `HubRuntime.start`, `main` of both programs | `StartReceiver` or `ReceiverFails`, `StartJobs`, `StartBridge`, `StartHttp` or `HttpFails`, `StartMcp` or `McpFails` |
| the `finally` clauses, `HubRuntime.stop` | `Interrupt`, `CloseHttp`, `StopJobs`, `StopReceiver` |
| `do_POST`, `submit_stt_job`, `_resolve_query` | `Refuse`, `NoReply` or `Admit` |
| `extract_audio` | `NoAudio`, `ExtractFails`, or `WriteClip` in `AnswerAudio` and `ExtractClip` |
| `submit` | `Submit`, or `QueueFull` and `Withdraw`; the answer is `Reply` |
| `GET /jobs/<id>`, `get_stt_job` | `Poll` |
| `_expire_old_jobs`, `cleanup_expired` | `AgeJobs`, `SweepClip` |
| `_run`, `_call_worker` | `Serve`, `Post` or `PostFails`, `ReadAnswer` or `GiveUp` |
| worker: `main`, its server | `Start`, `Connect`, `NotFound`, `Answer` |
| Bailian backend | `NoKey`, `BuildPayload`, `CloudAnswers`, `CloudFails` |
| local backend, `_get_model` | `TestModel`, `ImportFails`, `Loaded`, `LoadFails`, `LastLoadFails`, `ReturnModel`, `Hear`, `HearFails` |

A window is a pair of numbers or NaN, which Python's `json` accepts and every
comparison refuses; the ring has one chunk for each unit of time. A clip is its length.
`fault` and `abandoned` are history: which requests met a fault of their
surroundings, and which the hub stopped waiting for. A fault is recorded only where
something outside of the two programs fails: the network, the cloud, the model, the
setup, a process that dies, or a worker that is too slow. That a clip is missing or too
long is no fault.

Properties:

- `FailureHasCause`: a job fails only if a fault was recorded for it. It relates the
  limits of the two processes (`max_query_seconds` of the hub, `max_audio_bytes` of the
  worker, `SizesAssumption`), the checks of windows, the moments when clips are deleted,
  and the worker's reads of them, of which the last is for the duration in its answer.
  It needs the worker to see the hub's files (`SharedDir`); the Compose file does not
  provide that, and `SttPathCompose` shows the property violated.
- `ModelLoadedOnce`: `_get_model` tests, loads and stores without a lock in a server
  with a thread for each request. What keeps it from loading twice is that the hub has
  one job served at a time, and the property says how far that goes: of two copies one
  belongs to a request that the hub gave up after 120 s.
- `AnswersMatchEffects`: a refused client left no job and no clip; behind every status
  there is a job; and every job has a client that was told of it, is about to be, or
  lost its connection when the process ended.
- `AnswersStand`: what a client is told of its job never goes back, however late the
  worker answers.
- `PollerLearns`: a client that polls learns the verdict unless the hub leaves. While it
  leaves it still accepts jobs that nobody will serve: the manager is stopped when the
  threads of requests still run.

Fairness: the manager's thread is scheduled, a client polls. Nothing is assumed of the
worker: `GiveUp` is always possible while it has not answered.

Assumptions: the hub has one life (`SttJobs`, `ClipFiles` and `HaBridge` follow what a
crash leaves); a client asks once; the windows of requests differ, so that each has a
clip of its own; calls of MCP tools are concurrent like those of HTTP; the worker is
started before the hub, as Compose does, and is not followed after the hub's exit.

### ClipFiles

The same directory at the grain of the file system: opening a wav for writing
truncates it, frames and header are written when it is closed, the json follows,
and `delete_clip` unlinks the one and then the other. Jobs are reduced to what
the files see of them: a request *holds* its path from the registration of its
job to its end. Two requests that write the same path at once may leave a mixture
("part"); a file that was unlinked while it was written is lost to its path. A
crash of the hub forgets all requests and leaves the directory. Time is kept as
ages up to a bound, so that behaviours are infinite and liveness is not cut off by
the end of a clock.

Windows in `Shared` may be asked for again and again, the others once.

Properties:

- `HeldClipIsWhole`: a job's clip is whole and described from the registration of
  the job to its end, unless its window is asked for again.
- `MetadataHasWav`: a path at rest has both files or neither; the sweep looks for
  wav files only, so a json alone would never be found. A crash between the two
  unlinks of `delete_clip` leaves one; the property holds while the hub has not
  crashed.
- `ClipsAreSwept`, `WavsAreSwept`: what nobody holds goes away; wav files even
  after a crash, and when a window is asked for again.

Fairness: each request that has begun proceeds, the sweep runs, time passes; the
sweep is the runner of `SttJobs`, and a request is a thread that waits for nobody.
`MaxStall` and `MaxSweep` bound how long a request and a sweep take; without the
second a sweep could outlive any TTL.

### NodeIngest

| Code | Actions |
| --- | --- |
| `audio_task`, UDP | `Send`, `Restart`; `net` is a set, so packets come in any order, and a packet may come again or never |
| `UdpReceiver._run` | `Receive`, `Register`, `AppendChunk` |
| `register_frame` | `CountFirst`, `CountNext` |
| `PerNodeRingBuffer.append` | `AppendChunk`; the eviction loop is `Popped` |
| `parse_audio_packet` | `AudioFrame` |
| `get`, `extract_audio`, `PerNodeRingBuffer.extract` | `Extract`; what it selects is `Selection` |

`Restart` stands for a reboot and for the overflow of the 32-bit `s_sequence`. The
packets of one run of a node are told apart from those of another by `boot`, which
is history: the packet does not carry it. All packets of one run are of one length,
which is compiled in; another run may be another build (`Lengths`). `heard`, `start`
and `stored` are history too.

Packets are those of the firmware: well formed and with a sample rate. Durations
are whole units; the rounding of the floating-point total `_cached_duration` is
left out. The look-up of a node's buffer and the append to it are one step: a
buffer is never removed or replaced.

Properties:

- `CountersAddUp`: `received + missing - out_of_order = last - first + 1`, with
  any network and any restarts.
- `LossIsKnown`: `packets_missing` lies between the numbers from the first to the
  greatest that never came, in any run of the node, and that plus what came out of
  order. It is about numbers and not packets: `register_frame` compares each with the
  greatest ever seen, so of what a restarted node loses, the numbers that an earlier
  run had brought, or that are below the first, are not counted.
- `AudioIsCounted`: audio in a ring was counted first; the counter is ahead of the
  ring by at most the frame in the receiver's hands.
- `RingIsRecentAudio`: a ring is the longest run of newest frames that fits into
  `max_seconds`, and the running total is its length.
- `AnswersAreWhole`: a window is answered with all frames that were stored in it,
  in order, except the oldest that no longer fitted.

### HaBridge

The bridge publishes retained messages: whether the hub is online, with an MQTT
will that takes it back, and whether each node is. One step is one call of the MQTT
client, one reading of the registry, one message at the broker or one change of the
session. `main` is the main thread; `pub` is how far the publication has come, in
`start` first and then in the bridge's thread.

| Code | Actions |
| --- | --- |
| `start` | `Boot`, `Connect` or `ConnectFails`, `Subscribe` or `SubscribeFails`, `WindowCloses` or `WindowNeverQuiet`, a publication, `CompareTopics`, `PublishStale`, `StartThread` |
| `_publish_state`, `_publish_nodes` | `PublishHub`, `ListNodes`, `PublishNode`, `EndPass` |
| `_run` | `WakeUp`, then a publication; `PublishRaises` |
| `_on_message` | `OnMessage` |
| `stop` | `Stop`, `SayOffline` or `SayOfflineRaises`, `StopEnds` |
| `_cleanup_client` | `CleanUp`, in `StopEnds`, `Abort` and `PublishRaises` |
| MQTT client and broker | `Deliver`, `LinkLost`, `Reconnect`, `WillFires` |
| the process | `Crash`; the next `Boot` starts with an empty registry |

The client and the broker are modelled from how the bridge uses them. `publish`
queues a message, which a network thread sends in order; a lost connection is made
anew, without a new subscription; `loop_stop` writes out what is queued;
`disconnect` ends the session without its will. Only the state of the hub and of
each node is kept of what is published: discovery messages, metrics and names are
data, and no property is about them.

Properties:

- `OnlineIsBacked`: the broker says the hub is online only while a session stands
  behind it whose will takes that back. It rests on `stop` waiting for the thread
  before it says offline, on the order of the queue, and on the will being fired
  when a session is taken over. Where an exception ended the session the code
  leaves `online` behind, and the property excepts that.
- `HubComesBack`: after a will the hub is shown online again, though nothing is
  published on reconnection.
- `KnownNodesFollow`: a node that the registry knows is shown as it is, whatever
  was lost with the link.
- `CollectedAreReconciled`: a node of an earlier life of the hub whose retained
  message came in time does not stay online.
- `StaleAreReconciled` says it of all such nodes, and is violated.

Fairness: the publishing thread and the client's reconnection (weak), delivery of
messages (strong: a link that keeps coming back carries some), and retained
messages that are under way arrive. The thread never waits for more than its five
seconds; the client reconnects by itself.

Assumption: the join in `stop` ends with the thread, since `publish` does not wait
for the broker and a pass takes less than the two seconds of the join.

### NodeUplink

Four tasks of a node: `audio_task` makes packets and puts them into a bounded queue,
dropping the oldest when it is full; `udp_task` sends them; the Wi-Fi event handler
says whether there is a network and closes the socket when there is none; the
control task may set the UDP target at any time, which opens a new socket. The
queue is safe by itself; `s_socket_fd` and `s_remote_addr` are plain variables. One
step is one access to them, to a flag, to the queue or to lwIP's table of descriptors.

| Code | Actions |
| --- | --- |
| `audio_task` | `ReadSamples`, `PutPacket`, `Evict`, `PutAgain` |
| `open_socket`, in `udp_task` and in the control task | `CloseOld`, `ClearOld`; `Resolve`, `CopyAddress` or `ResolveFails`; `MakeSocket`, `Assign` or `SocketFails` |
| `udp_streamer_reconfigure_target` | `Retarget`, then `open_socket` |
| `udp_task` | `TestReady`, `TestSocket`, `TakePacket` or `NoPacketYet`, `LoadSocket`, `SendOk` or `SendFails`, `CloseFailed`, `ForgetFailed` |
| `udp_streamer_set_network_ready` | `GotIp`; `Disconnected`, `CloseDisconnected`, `ForgetDisconnected` |
| lwIP, MQTT client, portal | `CloseFd`, `FreeFds`, `OtherSocket` |

A packet is its number; samples are left out. A target is the number of the command
that set it and stands for host, port and the address they resolve to. The streaming
switch is in `NodeControl`: here `ReadSamples` may be late or never happen. `lastOut`
and `crossed` are history.

Properties:

- `EveryPacketCounted`: a packet is in the queue, in a task's hands, or counted
  once as sent, as an error or as dropped, though both tasks take from the head of
  the queue while it is full.
- `LeavesInOrder`: packets leave in order and none twice.
- `SocketsBounded`: there is one UDP socket, and up to two more for each command that
  has set the target while the node ran. Without a command Wi-Fi events between any
  two steps of `udp_task` leak nothing: they may close the socket under it, so that a
  send fails, but they never forget one it has just opened, since there is no network
  from the moment the event task has seen a socket until it has forgotten it. With a
  command both may be lost in one run: the control task clears the descriptor of a
  socket that the event task has seen, `udp_task` opens another for the event task to
  forget, opens a third, and the control task assigns its own over that one. TLC shows
  that a bound of one for each command is too low.
- `TargetFollows`: with a socket open and no command under way audio goes to the target
  in the configuration, also when the command's own open has failed. `udp_task` may be
  in `open_socket` at the time (`crossed`): if it had resolved the old target before
  the command came it may copy it over the new one, or assign its socket after the
  command's open has failed, and audio goes to the old target until the next open. The
  property makes this exception; without it TLC shows the race.
- `UplinkRecovers`: whatever sends and opens fail, `udp_task` comes back to take
  packets while the network is there.
- `UplinkGoesOn` is violated.

What does not hold either: a send may meet a descriptor that the event task has closed
and lwIP has given to another part since (`LoadSocket`, then `CloseDisconnected` and
`OtherSocket`, then `SendOk`); the datagram is then written to an MQTT or HTTP
connection.

Fairness: `udp_task` and the control task are scheduled and their waits end; the
target resolves now and then, so that an open tried again and again succeeds
(strong fairness of `Resolve` in `udp_task`). Assumption: the other parts leave at least one
descriptor free.

### NodeControl

The configuration of a node lives twice, in NVS and in `s_config`, and its streaming
switch three times more: in audio capture, in the health monitor and as a retained
message at the broker. The control task changes it by commands, the portal by a form,
`app_main` loads it, the telemetry task reports it. One step is one NVS entry, one
commit's assignments to `s_config`, one queue operation, one access to a copy of the
switch or one publication.

| Code | Actions |
| --- | --- |
| `device_config_init`, `app_main` | `LoadConfig`, `ForceSetup`, `StartSetup`, `SetupFails`, `StartStation`, `StartControl` |
| `audio_capture_init` | `ReadStreaming`, `StoreStreaming` |
| `mqtt_event_handler` | `Receive`, `OnConnected` |
| `control_task` | `Take`, a commit, then `ApplyStreaming`, `ApplyHealth`, `ShowStreaming`; `ApplyTarget`; `ApplyRestart` |
| `device_config_commit_*` | `SetEntry` for each entry, `CopyToRam`, or `SetFails` at any of them |
| `save_post_handler`, `restart_task` | `Save`, a commit, `ApplySetup`; `Restart` |
| `telemetry_task` | `TelemetryReads`, `TelemetryStores`, `TelemetryShows` or `TelemetryIsLost` |
| `esp_restart`, power | `Restart`, `PowerFails` |

A value is the configuration it came from; entries that are written one after the
other and belong together (SSID and password; broker, port and login) are one. NVS
is modelled as it is used: an entry is in flash when `nvs_set_*` returns. `app_main`
erases a partition that has no free page or another format (`main.c:215`); that is not
modelled: it is assumed to happen only to a partition that another build has written,
and it leaves a node that was never set up. An `ESP_ERROR_CHECK` or `abort` that ends a boot is a power failure to the model.
`last`, `failed` and `early` are history.

Properties:

- `RamIsWhatBootReads`: when nobody writes, the node runs on what the next boot
  reads. A commit that failed half-way leaves more in flash than in RAM; the
  property excepts that until the next boot.
- `LastCommandWins`: the last streaming command that the queue took is in RAM and in
  flash as soon as nothing waits.
- `StreamingFollows`: audio capture has the configured switch, also when commands
  come while the node starts. `audio_capture_init` copies the switch when the
  control task already runs; a command applied inside the copy is undone, which the
  property excepts.
- `SavedBoots`: after a form, or a command to restart, the node comes up and does not
  ask for the setup it has.
- `StatusFollows`: the retained `status/streaming` ends up right though the telemetry
  task writes old readings back into the health monitor and publications get lost.

What does not hold: host and port of the UDP target, or the entries of a setup, are
not written as one. A power failure, a failed write, or a form and a command at once
leave a mixture; a node whose first setup was cut after the UDP host comes up with
the compiled-in port and node id.

Fairness: every task is scheduled and its waits end; a restart that was asked for
comes (`esp_restart` after 200 ms or 1.5 s); publications of the telemetry task,
which come every few seconds, get through now and then (strong fairness). That
`xTaskCreate` of `restart_task` finds memory is assumed: its result is not looked at
(`setup_portal.c:436`).

## Runs

| Configuration | Instance | Shows |
| --- | --- | --- |
| `SttJobsSafe` | 2 clients, jobs and paths, queue of 1, all replies, clock to 3 | the safety properties of `SttJobs` |
| `SttJobsLive` | 2 clients, jobs and paths, unlimited queue, clock to 1 | the refinement, with its fairness |
| `SttJobsShared` | 2 clients, 1 path asked for twice | **violates** `ReferencedClipKept` |
| `SttPath` | 2 requests of 10 kinds, queue of 1, 5 setups, 2 devices, 1 crash of the worker, the job of 1 request aged out | transcripts from request to verdict |
| `SttPathCompose` | the setup of the Compose file, no shared directory | **violates** `FailureHasCause` |
| `ClipFilesSweep` | 2 requests, 2 paths of which 1 is shared, 1 crash | clips are whole, and every clip goes |
| `NodeIngest` | 1 node, 1 restart with packets of another length, 4 packets a run, 4 arrivals, ring of 2 | rings, answers and counters |
| `HaBridgeServe` | 1 node, 3 messages in the client | the hub and the nodes it knows are shown as they are |
| `HaBridgeLate` | 1 node, 3 messages in the client | **violates** `StaleAreReconciled` |
| `NodeUplinkStream` | queue of 2, 3 packets, 3 descriptors, 1 other socket, 1 new target | packets are counted, leave in order and for the target, few sockets are lost, the uplink recovers |
| `NodeUplinkRetarget` | 2 descriptors, 2 new targets | **violates** `UplinkGoesOn` |
| `NodeControl` | queue of 1, 3 commands, 1 form, 1 fault | RAM, flash, capture and broker agree, and the node comes up |

Why the bounds are enough: a second job fills the queue of one place while the
first is served, so refusal races with service; with `JobTtl = 1` and the clock to
3 a job goes through both of its windows; with `ClipTtl = 2` and the clock to 3 a
clip can be swept. Two clients suffice because every property relates at most two
jobs, two windows, or a job and the runner. The unlimited queue of `SttJobsLive`
holds two jobs, so that their order shows. In `ClipFiles` two requests meet on the
shared path, and each of them on the path of its own; ages go past every bound they
are compared with. Frames of two lengths in a ring of 2 evict
none, one or two chunks at a time. Four arrivals, out of two runs of three packets,
hold a gap that is filled, one that is not, a repetition and a number that an earlier
run had used. In `SttPath` two requests fill the queue of
one place while the first is served, load the model side by side once the hub gave the
first up, and each may be the one whose job is aged (`Ageing`) first or last; windows
are as long as the limit allows and one unit longer, and the worker takes exactly one
unit more than the limit, the most a window of that length can hold; the five setups have
every program, door, backend and misconfiguration at least once. Nodes of the bridge do not influence each other; a
queue of three messages holds two passes' worth of the hub and a node, so that old
and new words of one topic meet in it. `MaxOut` is checked where the bridge
publishes and bounds nothing in paho: fairness does not fail with it, because
delivery makes room. Three packets overflow the queue of two while one is in
`udp_task`'s hands; the lowest of three descriptors is reused at once. After the one
command of this run `SocketsBounded` allows as many sockets as there are descriptors, so
that TLC's verdict is about the time before it; beyond that there is the theorem, and a
single run of six descriptors and two commands, too long to be kept.
Three commands overflow the command queue of one while one is carried out, and set
the switch one way, back, and restart; the form may be saved during each, and the one
fault be at any of their steps. FIFO order is the queue's own.
The theorems hold without bounds on the constants. `NodeIngest` may stop in TLC
(deadlock is not checked): nodes stop sending and the bounds are reached.

The four violations are findings:

- Jobs for the same window share a clip path. Refusing or ageing out one job
  deletes the clip of the other (`jobs.py:79`, `jobs.py:155`), though
  `tests/test_jobs.py` states that a clip still referenced by a job is kept.
- A retained message that comes after the one-second window of `start`, or is lost
  with the link in it, is reconciled by nobody (`ha_mqtt.py:439`), though
  `tests/test_ha_mqtt.py` states that `start` reconciles topics missing from the
  registry and waits for delayed ones. A node that is gone stays online.
- `udp_task` and the control task may be in `open_socket` at once
  (`udp_streamer.c:63`); one of the two sockets is forgotten. When all descriptors
  are lost like this the uplink stops for good.
- The Compose file gives the worker no volume (`docker-compose.yml:2`), while the hub
  writes its clips to one and sends their paths: every job of the documented Compose
  stack fails.

## Proofs

`JobServiceProofs` (`Capacity \in Nat`):

- `ServiceIsOrderly`, `ServiceIsFifo`, `VerdictsAreFinal`: what the service promises
  its callers (`Orderly`, `FirstComeFirstServed`, `VerdictsStand`), from one inductive
  invariant: the waiting jobs are those accepted and not yet served, each once. Modules
  that implement the service INSTANCE these theorems (`Promise`).

`SttJobsProofs` (constants: only `ConstantsAssumption` unless stated):

- `TypeCorrect`, `JobsAreKept`: for all replies. `NoAcceptedJobLost` is inductive
  with the type invariant and the fact that the runner never handles a job that is
  queued elsewhere.
- `ClipsAreKept`, `ClipsOutliveTheirTtl`: assume `AskOnce` and
  `2 * MaxStall <= ClipTtl`. The invariant says who owns each path, that what is
  known of a path is consistent, that a clip that is about to be registered is on
  disk and fresh, and that whatever the sweep may still unlink is neither
  protected nor fresh (`SweepIsSafe`). Without the last part the stale list of
  protected paths makes the property not inductive.
- `ResultsAreKept`: assumes well-formed replies. The invariant bounds every clock
  reading in a thread by the clock, and `updated_at` of a result by its true time.
- `JobsImplementService`: assumes well-formed replies. Every step of `SttJobs` is
  a step of `JobService` or a stutter; with malformed replies a job could be shown
  a success and then a failure.
- `VerdictsNeverChange`: `VerdictsStand` of the jobs as callers see them, from
  `JobsImplementService` and `VerdictsAreFinal`. `QueueIsOrderly` and `QueueIsFifo`
  are proved of `SttJobs` itself, since they hold for malformed replies too.

`SttPathProofs` (`HubAssumption`, `WorkerAssumption` and `SizesAssumption`):

- `TypeCorrect`, `AnswersAlwaysMatchEffects`, `AnswersAlwaysStand`: from `HubInv`, which
  says of each request what its thread, clip, job and client have to do with each other
  (`RequestOK`), and of the queue that it holds the waiting jobs, each once.
- `FailuresHaveCauses`: assumes `SharedDir`. `ClipFits` says that the clip of a job that
  waits or is served is there and not too long, which rests on `ValidFits`: a window that
  passes the checks has at most `MaxQuery + 1` chunks, or none if a NaN is in it.
  `Linked` ties the worker's thread to the job that is served, unless the hub gave it
  up; `Caused` follows a failure from the thread to the connection to the verdict.
- `ModelIsLoadedOnce`: one job is served at a time (`QueueOK`), and a thread of the worker
  that was not given up is that job's (`Linked`); `ModelThere` says that nobody holds a
  model when there is none.
- `PathUsesService`: a step of the two processes is one of `JobService` or leaves the
  jobs alone, so that what is composed is no more than what `SttJobs` implements.
  `RequestsAreServedInOrder` and `VerdictsOfRequestsStand` follow from it.

`NodeIngestProofs`:

- `TypeCorrect`, `CountersAreConsistent`, `AudioIsAlwaysCounted`: for all
  constants. The last rests on a lemma that the eviction loop stops in range and
  leaves a suffix, and on the frame in the receiver's hands being no older than
  any `last_seen`.
- `LossIsAlwaysKnown`: the invariant identifies the gaps with the numbers from the first
  to the last that were not heard, and follows their cardinality: a late number fills
  at most one hole, a next number adds the holes it skips.
- `RingsHoldTheNewest`: a ring is the end of what was stored of its node. That the
  eviction loop stops in range is all it needs of the durations.
- `RingsAreRecentAudio`: the ring's length alone does not tell what was evicted, so the
  invariant `RecentInv` speaks of the durations of all that was stored, of which the
  ring's are a difference (`Fits`). `PoppedIsLeast` says that the loop pops as few
  chunks as will do; a chunk that no longer fitted before fits even less with the one
  that came.
- `AnswersAreAlwaysWhole`: a selection from what was stored is one from what was evicted
  followed by one from the ring (`SelectionOfRest`), and what begins with an evicted
  chunk is at least as long as what begins with the last one (`DurationsGrow`).

  `Durations` and `Selections` are recursive functions. That they are functions, and
  what they compute, is proved by induction over the members of a set (`UpTo`, from the
  well-foundedness of `<`), which needs no theorem about formulas:
  `RecursionHasFunction` builds the function that a base and a step determine.

`ClipFilesProofs` (`HeldClipsAreWhole` and `MetadataIsFound` assume `FreshEnough`,
`2 * MaxStall <= ClipTtl`: a clip outlives a request and the sweep that began before
its answer):

- `TypeCorrect`: for all constants.
- `HeldClipsAreWhole`: a window that is asked for once has one request (`OneOwner`),
  whose clip is as far as the request is (`ClipOfStep`). `Fresh` bounds the age of a
  clip the sweep does not know of by the age of its request and of the sweep's list, so
  that `TooOld` cannot choose it, and `SparesHeld` says that none was chosen. Without
  `FreshEnough` the sweep unlinks a clip between its last write and its job.
- `MetadataIsFound`: inductive with the same invariant. The last to leave a path has
  unlinked its metadata, or leaves a whole clip.

`HaBridgeProofs` (only `ConstantsAssumption`):

- `TypeCorrect`. That writing the queue out keeps the types rests on a topic that
  occurs in the queue having a last occurrence, by well-foundedness of `<`.
- `DeadHubIsNotOnline`: `OnlineIsBacked`. The invariant says that once the main
  thread has said offline, the hub's last word is *offline*, in the queue if it is
  there and at the broker otherwise, and that nobody publishes any more.
- `OnlyHeardNodesComeOnline`: no run checks it; it is the safety part of what
  reconciling the nodes of an earlier life is for. `WordsAreHeard` follows an *online*
  from the registry to the broker, and is made anew with the registry since nothing
  is queued then.

`NodeUplinkProofs` (only `ConstantsAssumption`):

- `TypeCorrect`: with what the tasks have in their hands (`Hands`), above all that
  there is room in the queue once its oldest packet was taken.
- `PacketsAreCounted`: `EveryPacketCounted` is inductive with it.
- `PacketsLeaveInOrder`: the invariant `Ordered` has everything on its way in order:
  what went out, the packet of `udp_task`, the queue, the packet to come.
- `FewSocketsAreLost`: `SocketsBounded`. Its invariant `SocketInv` counts: the sockets
  that no task can name any more (`Lost`), together with those that can still be lost
  before another command comes (`MayLose`, at most one for `udp_task`, one for the
  event task and two for the control task, by where they are), are two for each
  command at most. A step that overwrites the descriptor of an open socket
  (`FdLost`) always lowers `MayLose`. The lemmas `OverwriteKeeps` and `NothingLost`
  leave this one fact to show for each action.
- `AudioFollowsTarget`: `TargetFollows`. `AddressInv` says that the control task past
  its resolution has the target it set, and `udp_task` an older one only if `crossed`.

`NodeControlProofs` (only `ConstantsAssumption`):

- `TypeCorrect`: with what a writer may have under way (`WriterInv`: its job fits the
  list of entries it writes and its place in it; only the portal commits setups) and
  with what runs before `app_main` has started it (`StartInv`).
- `RamIsTheFlash`: `RamIsWhatBootReads`. During a commit the invariant splits the
  entries: those the control task has written are in flash as its job wants them, the
  others agree in RAM and flash. A form needs no such account: until its commit has
  failed or asked for a restart the portal is not idle.
- `LastWins`: `LastCommandWins`. The last streaming command is in the queue with no
  other behind it, or under way, or has come through; `StreamingWriter` and
  `WriteFits` say that no other commit touches the entry.
- `FlagFollows`: `StreamingFollows`, from what `audio_capture_init` has in hand.
- `RamIsAlwaysBacked`: a field that the node runs with is in NVS, in some version. This
  needs no exception for failed commits or concurrent writers, which
  `RamIsWhatBootReads` does: NVS never loses an entry (`FlashKeeps`), and a writer that
  gets to RAM has its whole list in NVS (`SoFar`).
- `SetupIsAskedForOnce`: once a node runs with a complete setup, no boot asks for one
  again. It is the safety part of `SavedBoots`.

Only model-checked: liveness (`ImplementsService`, `PollerLearns`,
`ClipsAreSwept`, `WavsAreSwept`, `HubComesBack`, `KnownNodesFollow`,
`CollectedAreReconciled`, `UplinkRecovers`, `SavedBoots`, `StatusFollows`), which the
prover cannot do (of `ImplementsService` the steps are proved: `ServiceSpec`).

## Plan

1. `SttJobs` with `JobService` and proofs: done.
2. `ClipFiles` with proofs: done.
3. `NodeIngest` with proofs: done.
4. `HaBridge` with proofs: done.
5. `NodeUplink` with proofs: done.
6. `NodeControl` with proofs: done.
7. `HubProcess` and `AsrWorker`, composed by `SttPath`, with proofs: done.

What could be added: the life of the MQTT client between `mqtt_control_init` and the
Wi-Fi events, in a module of its own; a composition of `NodeUplink` with `NodeIngest`, in
which what leaves the one is what `NodeIngest!Send` sends.

## Not modelled

- Data no property is about: transcripts, JSON, wav headers and PCM samples; names and
  discovery payloads of the bridge; the portal's pages and the parsing of its form;
  metrics other than the streaming state, which only report.
- Requests the hub never makes to the worker, and what the worker does after the hub's
  exit.
- Packets the parser rejects: they are logged and change nothing.
- Of the broker and its client: the limit of messages paho sends at a time, and a
  broker that loses its retained messages.
- Of the node: starting and stopping its MQTT client with Wi-Fi, the set-up of the I2S
  channel, and a host name that is read for resolution while a command overwrites it.
