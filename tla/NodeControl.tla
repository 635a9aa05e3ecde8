---------------------------- MODULE NodeControl ----------------------------
(***************************************************************************)
(* The configuration of a node: device_config.c keeps it in RAM and in NVS *)
(* (flash), mqtt_control.c changes it by commands, setup_portal.c by a     *)
(* form, main.c boots with it.                                             *)
(*                                                                         *)
(* Tasks: app_main; the control task, which takes commands from a queue;   *)
(* the HTTP task of the portal; the telemetry task; the MQTT task, whose   *)
(* event handler fills the queue and shows the node's state on connection. *)
(* The copy in RAM has no lock: a step is one write of an NVS entry, one   *)
(* commit's assignments to it, one queue operation or one publication.     *)
(* NVS writes an entry at once; nvs_commit adds nothing but may fail.      *)
(*                                                                         *)
(* An entry stands for neighbouring entries that are written together, a   *)
(* value for the configuration it came from. Absent is what NVS does not   *)
(* have, and in RAM the compiled-in default: an empty string for "wifi",   *)
(* "mqtt" and "host", a usable value for "port" and "node".                *)
(***************************************************************************)
EXTENDS Integers, Sequences

CONSTANTS
    Setups,        \* what the form may be filled in with
    Targets,       \* UDP targets that commands may set
    Absent,
    QueueDepth,    \* xQueueCreate(8, ...)
    DefaultStreaming,  \* CONFIG_MIC_STREAMING_ENABLED_DEFAULT, "ON" or "OFF"
    MaxCommands,   \* bound on the commands received
    MaxSaves,      \* bound on the forms received
    MaxFaults      \* bound on power failures and failures of flash and sockets

ASSUME ConstantsAssumption ==
    /\ Absent \notin Setups \cup Targets \cup {"ON", "OFF"}
    /\ QueueDepth \in Nat \ {0}
    /\ DefaultStreaming \in {"ON", "OFF"}
    /\ MaxCommands \in Nat /\ MaxSaves \in Nat /\ MaxFaults \in Nat

Switch   == {"ON", "OFF"}
Required == {"wifi", "mqtt", "host"}
Fields   == Required \cup {"port", "node"}
Entries  == Fields \cup {"streaming"}

\* Who writes the configuration.
Writers == {"control", "portal"}

\* The entries that a commit writes, and the fields it then copies, in order.
Written == [streaming |-> <<"streaming">>,
            target    |-> <<"host", "port">>,
            setup     |-> <<"wifi", "mqtt", "host", "port", "node">>]

\* The commands that the control task carries out. A target without a host is
\* queued too, and refused by device_config_commit_udp_target without a trace.
Commands == [what : {"streaming"}, value : Switch]
            \cup [what : {"target"}, value : Targets]
            \cup {[what |-> "restart", value |-> Absent]}
Jobs     == Commands \cup [what : {"setup"}, value : Setups]
NoJob    == [what |-> "none", value |-> Absent]

VARIABLES
    nvs,         \* the entries in flash
    ram,         \* s_config
    main,        \* app_main
    portal,      \* whether the HTTP server of the portal runs
    startValue,  \* what audio_capture_init has read of s_config
    commands,    \* s_command_queue
    job, wpc, at,     \* what each writer does, how far it is, at which entry
    flag,        \* s_streaming_enabled of audio_capture.c
    health,      \* streaming_enabled of the health monitor
    tpc, seen,   \* the telemetry task, the value it has in hand
    shown,       \* the broker: mic/<uuid>/status/streaming
    restarting,  \* a restart was asked for
    received, saves, faults, \* how many there were
    last,        \* history: the last streaming command, or what the boot read
    failed,      \* history: a commit has failed since the boot
    early        \* history: streaming was applied last inside audio_capture_init

mainVars    == <<main, portal, startValue>>
writerVars  == <<job, wpc, at>>
reportVars  == <<tpc, seen, shown>>
countVars   == <<received, saves, faults>>
historyVars == <<last, failed, early>>
vars == <<nvs, ram, mainVars, commands, writerVars, flag, health, reportVars,
          restarting, countVars, historyVars>>

\* What a boot makes of NVS: the defaults where it has nothing.
Defaults  == [e \in Entries |-> IF e = "streaming" THEN DefaultStreaming ELSE Absent]
Loaded(n) == [e \in Entries |-> IF n[e] = Absent THEN Defaults[e] ELSE n[e]]

\* has_required_setup_fields
Configured == \A e \in Required : ram[e] # Absent

Idle == [w \in Writers |-> "idle"]

\* A writer is done with its job, in whatever way.
Finish(w) ==
    /\ job' = [job EXCEPT ![w] = NoJob]
    /\ wpc' = [wpc EXCEPT ![w] = "idle"]
    /\ at' = [at EXCEPT ![w] = 1]

\* The flash is empty, or an earlier run of the node has left a setup in it.
Init ==
    /\ nvs \in {[e \in Entries |-> Absent]} \cup
              {[e \in Entries |-> IF e = "streaming" THEN Absent ELSE v] : v \in Setups}
    /\ ram = Defaults
    /\ main = "load" /\ portal = FALSE /\ startValue = "OFF"
    /\ commands = <<>>
    /\ job = [w \in Writers |-> NoJob] /\ wpc = Idle /\ at = [w \in Writers |-> 1]
    /\ flag = "OFF" /\ health = "OFF"
    /\ tpc = "read" /\ seen = "OFF" /\ shown = "OFF"
    /\ restarting = FALSE
    /\ received = 0 /\ saves = 0 /\ faults = 0
    /\ last = DefaultStreaming /\ failed = FALSE /\ early = FALSE

-----------------------------------------------------------------------------
(* app_main *)

\* device_config_init and what app_main does with it
Load(config) ==
    /\ main = "load"
    /\ ram' = config
    /\ health' = config["streaming"]
    /\ last' = config["streaming"]
    /\ main' = "decide"
    /\ UNCHANGED <<nvs, portal, startValue, commands, writerVars, flag, reportVars,
                   restarting, countVars, failed, early>>

\* Broken forms: the streaming entry is not read; the UDP host is read under
\* another key.
LoadWithoutStreaming == Load([Loaded(nvs) EXCEPT !["streaming"] = DefaultStreaming])
LoadWithoutHost == Load([Loaded(nvs) EXCEPT !["host"] = Absent])

LoadConfig == Load(Loaded(nvs))

\* setup_portal_start
PortalStarts == portal' = TRUE /\ UNCHANGED faults
PortalFails  == faults < MaxFaults /\ faults' = faults + 1 /\ UNCHANGED portal

\* The button is held for five seconds: an access point, set up or not.
ForceSetup ==
    /\ main = "decide"
    /\ main' = "forced"
    /\ PortalStarts
    /\ UNCHANGED <<nvs, ram, startValue, commands, writerVars, flag, health,
                   reportVars, restarting, received, saves, historyVars>>

StartSetup ==
    /\ main = "decide"
    /\ ~Configured
    /\ main' = "setup"
    /\ PortalStarts
    /\ UNCHANGED <<nvs, ram, startValue, commands, writerVars, flag, health,
                   reportVars, restarting, received, saves, historyVars>>

\* The access point's portal is needed: without it the node starts again.
SetupFails ==
    /\ main = "decide"
    /\ main' = "setup"
    /\ PortalFails
    /\ restarting' = TRUE
    /\ UNCHANGED <<nvs, ram, startValue, commands, writerVars, flag, health,
                   reportVars, received, saves, historyVars>>

\* Wi-Fi, and a portal that is done without if it fails.
StartStation ==
    /\ main = "decide"
    /\ Configured
    /\ main' = "station"
    /\ PortalStarts \/ PortalFails
    /\ UNCHANGED <<nvs, ram, startValue, commands, writerVars, flag, health,
                   reportVars, restarting, received, saves, historyVars>>

\* mqtt_control_init: from here on commands arrive.
StartControl ==
    /\ main = "station"
    /\ main' = "audio"
    /\ UNCHANGED <<nvs, ram, portal, startValue, commands, writerVars, flag, health,
                   reportVars, restarting, countVars, historyVars>>

\* audio_capture_init copies the flag: it reads s_config, then stores.
ReadStreaming ==
    /\ main = "audio"
    /\ startValue' = ram["streaming"]
    /\ main' = "store"
    /\ UNCHANGED <<nvs, ram, portal, commands, writerVars, flag, health, reportVars,
                   restarting, countVars, historyVars>>

Store(value) ==
    /\ main = "store"
    /\ flag' = value
    /\ startValue' = "OFF"
    /\ main' = "up"
    /\ UNCHANGED <<nvs, ram, portal, commands, writerVars, health, reportVars,
                   restarting, countVars, historyVars>>

\* Broken form: it starts with the compiled-in default.
StoreDefault == Store(DefaultStreaming)

StoreStreaming == Store(startValue)

\* Everything in RAM is gone, after esp_restart or a power failure.
Reset ==
    /\ ram' = Defaults
    /\ main' = "load" /\ portal' = FALSE /\ startValue' = "OFF"
    /\ commands' = <<>>
    /\ job' = [w \in Writers |-> NoJob] /\ wpc' = Idle /\ at' = [w \in Writers |-> 1]
    /\ flag' = "OFF" /\ health' = "OFF"
    /\ tpc' = "read" /\ seen' = "OFF"
    /\ restarting' = FALSE
    /\ last' = DefaultStreaming /\ failed' = FALSE /\ early' = FALSE
    /\ UNCHANGED <<nvs, shown, received, saves>>

Restart == restarting /\ Reset /\ UNCHANGED faults

PowerFails == faults < MaxFaults /\ faults' = faults + 1 /\ Reset

-----------------------------------------------------------------------------
(* Commands: mqtt_event_handler, control_task *)

Connected == main \in {"audio", "store", "up"}

Enqueue(c) ==
    /\ Connected
    /\ received < MaxCommands
    /\ commands' = Append(commands, c)
    /\ received' = received + 1
    /\ last' = IF c.what = "streaming" THEN c.value ELSE last
    /\ UNCHANGED <<nvs, ram, mainVars, writerVars, flag, health, reportVars,
                   restarting, saves, faults, failed, early>>

\* Broken form: a full queue takes one more.
ReceiveOneMore(c) == Len(commands) <= QueueDepth /\ Enqueue(c)

\* A command that finds the queue full is logged and lost, and changes nothing.
Receive(c) == Len(commands) < QueueDepth /\ Enqueue(c)

Take ==
    /\ wpc["control"] = "idle"
    /\ commands # <<>>
    /\ job' = [job EXCEPT !["control"] = Head(commands)]
    /\ wpc' = [wpc EXCEPT !["control"] =
                  IF Head(commands).what = "restart" THEN "apply" ELSE "set"]
    /\ commands' = Tail(commands)
    /\ UNCHANGED <<nvs, ram, mainVars, at, flag, health, reportVars, restarting,
                   countVars, historyVars>>

\* save_post_handler with a complete form; others are answered with an error.
Save(v) ==
    /\ portal
    /\ wpc["portal"] = "idle"
    /\ saves < MaxSaves
    /\ saves' = saves + 1
    /\ job' = [job EXCEPT !["portal"] = [what |-> "setup", value |-> v]]
    /\ wpc' = [wpc EXCEPT !["portal"] = "set"]
    /\ UNCHANGED <<nvs, ram, mainVars, commands, at, flag, health, reportVars,
                   restarting, received, faults, historyVars>>

-----------------------------------------------------------------------------
(* device_config_commit_*: entry by entry into NVS, and then into RAM *)

ListOf(w) == Written[job[w].what]

SetEntry(w) ==
    /\ wpc[w] = "set"
    /\ nvs' = [nvs EXCEPT ![ListOf(w)[at[w]]] = job[w].value]
    /\ IF at[w] < Len(ListOf(w))
       THEN at' = [at EXCEPT ![w] = @ + 1] /\ UNCHANGED wpc
       ELSE at' = [at EXCEPT ![w] = 1] /\ wpc' = [wpc EXCEPT ![w] = "commit"]
    /\ UNCHANGED <<ram, mainVars, commands, job, flag, health, reportVars,
                   restarting, countVars, historyVars>>

\* nvs_set_* or nvs_commit fails. The entries already set stay in NVS.
SetFails(w) ==
    /\ wpc[w] \in {"set", "commit"}
    /\ faults < MaxFaults
    /\ faults' = faults + 1
    /\ Finish(w)
    /\ failed' = TRUE
    /\ UNCHANGED <<nvs, ram, mainVars, commands, flag, health, reportVars,
                   restarting, received, saves, last, early>>

Copy(w, entries) ==
    /\ wpc[w] = "commit"
    /\ ram' = [e \in Entries |-> IF e \in entries THEN job[w].value ELSE ram[e]]
    /\ wpc' = [wpc EXCEPT ![w] = "apply"]
    /\ UNCHANGED <<nvs, mainVars, commands, job, at, flag, health, reportVars,
                   restarting, countVars, historyVars>>

EntriesOf(w) == {ListOf(w)[i] : i \in DOMAIN ListOf(w)}

\* Broken form: a switch takes effect with the next boot only.
CopyFieldsOnly(w) == Copy(w, EntriesOf(w) \cap Fields)

\* After nvs_commit the values go to s_config. No other task here reads two
\* fields of it together.
CopyToRam(w) == Copy(w, EntriesOf(w))

-----------------------------------------------------------------------------
(* apply_actions, and restart_task of the portal *)

Applies(what) == wpc["control"] = "apply" /\ job["control"].what = what

\* audio_capture_set_streaming_enabled
ApplyStreaming ==
    /\ Applies("streaming")
    /\ flag' = ram["streaming"]
    /\ early' = (main = "store")
    /\ wpc' = [wpc EXCEPT !["control"] = "health"]
    /\ UNCHANGED <<nvs, ram, mainVars, commands, job, at, health, reportVars,
                   restarting, countVars, last, failed>>

\* health_monitor_set_streaming_enabled, called twice in a row
ApplyHealth ==
    /\ wpc["control"] = "health"
    /\ health' = ram["streaming"]
    /\ wpc' = [wpc EXCEPT !["control"] = "show"]
    /\ UNCHANGED <<nvs, ram, mainVars, commands, job, at, flag, reportVars,
                   restarting, countVars, historyVars>>

\* A publication may be lost with the connection.
ShowStreaming ==
    /\ wpc["control"] = "show"
    /\ shown' \in {shown, ram["streaming"]}
    /\ Finish("control")
    /\ UNCHANGED <<nvs, ram, mainVars, commands, flag, health, tpc, seen,
                   restarting, countVars, historyVars>>

\* udp_streamer_reconfigure_target: see NodeUplink.
ApplyTarget ==
    /\ Applies("target")
    /\ Finish("control")
    /\ UNCHANGED <<nvs, ram, mainVars, commands, flag, health, reportVars,
                   restarting, countVars, historyVars>>

\* The control task waits for esp_restart.
ApplyRestart ==
    /\ Applies("restart")
    /\ restarting' = TRUE
    /\ wpc' = [wpc EXCEPT !["control"] = "restart"]
    /\ UNCHANGED <<nvs, ram, mainVars, commands, job, at, flag, health, reportVars,
                   countVars, historyVars>>

\* The portal goes on to serve until restart_task calls esp_restart.
ApplySetup ==
    /\ wpc["portal"] = "apply"
    /\ restarting' = TRUE
    /\ Finish("portal")
    /\ UNCHANGED <<nvs, ram, mainVars, commands, flag, health, reportVars,
                   countVars, historyVars>>

-----------------------------------------------------------------------------
(* What the node says of itself: mqtt_control_publish_boot_state in the     *)
(* telemetry task, publish_snapshot there and on connection                 *)

TelemetryReads ==
    /\ main = "up"
    /\ tpc = "read"
    /\ seen' = ram["streaming"]
    /\ tpc' = "store"
    /\ UNCHANGED <<nvs, ram, mainVars, commands, writerVars, flag, health, shown,
                   restarting, countVars, historyVars>>

\* The snapshot is taken right after, and has this value or a newer one.
TelemetryStores ==
    /\ tpc = "store"
    /\ health' = seen
    /\ tpc' = "publish"
    /\ UNCHANGED <<nvs, ram, mainVars, commands, writerVars, flag, seen,
                   shown, restarting, countVars, historyVars>>

TelemetryEnds(value) ==
    /\ tpc = "publish"
    /\ shown' = value
    /\ tpc' = "read" /\ seen' = "OFF"
    /\ UNCHANGED <<nvs, ram, mainVars, commands, writerVars, flag, health,
                   restarting, countVars, historyVars>>

\* Broken form: the snapshot leaves out status/streaming.
SnapshotWithoutStreaming == TelemetryEnds(shown)

TelemetryShows == TelemetryEnds(seen)

\* The publication is lost with the connection.
TelemetryIsLost == TelemetryEnds(shown)

\* MQTT_EVENT_CONNECTED. Snapshot and publication are one step here: that another
\* publication comes in between shows in the telemetry task already.
OnConnected ==
    /\ Connected
    /\ shown' \in {shown, health}
    /\ UNCHANGED <<nvs, ram, mainVars, commands, writerVars, flag, health, tpc, seen,
                   restarting, countVars, historyVars>>

-----------------------------------------------------------------------------
AppMain ==
    \/ LoadConfig
    \/ ForceSetup
    \/ StartSetup
    \/ SetupFails
    \/ StartStation
    \/ StartControl
    \/ ReadStreaming
    \/ StoreStreaming

Commit(w) == SetEntry(w) \/ SetFails(w) \/ CopyToRam(w)

ControlTask ==
    \/ Take
    \/ Commit("control")
    \/ ApplyStreaming
    \/ ApplyHealth
    \/ ShowStreaming
    \/ ApplyTarget
    \/ ApplyRestart

Telemetry ==
    \/ TelemetryReads
    \/ TelemetryStores
    \/ TelemetryShows
    \/ TelemetryIsLost

Next ==
    \/ AppMain
    \/ Restart
    \/ PowerFails
    \/ \E c \in Commands : Receive(c)
    \/ ControlTask
    \/ \E v \in Setups : Save(v)
    \/ Commit("portal")
    \/ ApplySetup
    \/ Telemetry
    \/ OnConnected

Spec == Init /\ [][Next]_vars

\* Every task is scheduled and its waits end, a restart comes, and of the
\* publications of the telemetry task some reach the broker.
FairSpec ==
    /\ Spec
    /\ WF_vars(AppMain)
    /\ WF_vars(Restart)
    /\ WF_vars(ControlTask)
    /\ WF_vars(Telemetry)
    /\ SF_vars(TelemetryShows)

-----------------------------------------------------------------------------
(* Properties. *)

DataOK ==
    /\ nvs \in [Entries -> Setups \cup Targets \cup Switch \cup {Absent}]
    /\ nvs["streaming"] \in Switch \cup {Absent}
    /\ ram \in [Entries -> Setups \cup Targets \cup Switch \cup {Absent}]
    /\ ram["streaming"] \in Switch
    /\ main \in {"load", "decide", "setup", "forced", "station", "audio", "store", "up"}
    /\ commands \in Seq(Commands) /\ Len(commands) <= QueueDepth
    /\ job \in [Writers -> Jobs \cup {NoJob}]
    /\ wpc \in [Writers -> {"idle", "set", "commit", "apply", "health", "show", "restart"}]
    /\ at \in [Writers -> 1..5]
    /\ startValue \in Switch /\ flag \in Switch /\ health \in Switch
    /\ seen \in Switch /\ shown \in Switch /\ last \in Switch
    /\ tpc \in {"read", "store", "publish"}
    /\ received \in 0..MaxCommands /\ saves \in 0..MaxSaves /\ faults \in 0..MaxFaults

FlagsOK == portal \in BOOLEAN /\ restarting \in BOOLEAN /\ failed \in BOOLEAN /\ early \in BOOLEAN

\* Every variable keeps its type, and the queue its bound.
TypeOK == DataOK /\ FlagsOK

\* While nobody writes, the node runs on the configuration that the next boot
\* will read, unless a commit failed or a restart is to come.
RamIsWhatBootReads ==
    wpc = Idle /\ main # "load" /\ ~restarting /\ ~failed => ram = Loaded(nvs)

\* The last streaming command that the queue took wins, in RAM and in NVS, as
\* soon as nothing waits in the queue or is under way.
LastCommandWins ==
    wpc["control"] = "idle" /\ commands = <<>> /\ main # "load" /\ ~failed =>
        ram["streaming"] = last /\ Loaded(nvs)["streaming"] = last

\* Audio is captured as configured, whether the configuration came from NVS, from
\* a command while the node starts, or later. Excepted is a command that is
\* applied between the two accesses of audio_capture_init.
StreamingFollows ==
    main = "up" /\ wpc["control"] \notin {"apply", "health"} /\ ~early =>
        flag = ram["streaming"]

\* After a form was saved, or a command asked for a restart, the node comes up in
\* station mode or, with the button held, as an access point: it does not ask for
\* a setup that it has, whatever fails in between. (README.md:57 of the firmware)
SavedBoots ==
    restarting /\ Configured ~> ~restarting /\ main \in {"up", "forced"}

\* When streaming is no longer changed, the broker ends up with the right state
\* for good, though three tasks publish it and the telemetry task writes old
\* readings back into the health monitor.
StatusFollows ==
    \A s \in Switch : <>[](main = "up" /\ ram["streaming"] = s) => <>[](shown = s)
=============================================================================
