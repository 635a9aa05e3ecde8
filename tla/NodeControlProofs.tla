------------------------- MODULE NodeControlProofs -------------------------
(***************************************************************************)
(* Theorems about NodeControl, for every value of its constants.           *)
(***************************************************************************)
EXTENDS NodeControl, TLAPS, SequenceTheorems

\* A writer has a job that fits its list of entries.
JobFits(w) ==
    \/ job[w].what = "streaming" /\ job[w].value \in Switch /\ at[w] = 1
    \/ job[w].what = "target" /\ job[w].value \in Targets /\ at[w] \in 1..2
    \/ job[w].what = "setup" /\ job[w].value \in Setups /\ at[w] \in 1..5

Writing(w) == wpc[w] \in {"set", "commit"}

WriterInv ==
    /\ \A w \in Writers : Writing(w) => JobFits(w)
    /\ \A w \in Writers : wpc[w] # "set" => at[w] = 1
    /\ Writing("control") => job["control"].what # "setup"
    /\ Writing("portal") => job["portal"].what = "setup"
    /\ wpc["portal"] \in {"idle", "set", "commit", "apply"}

\* No task writes before app_main has started it.
StartInv ==
    /\ ~Connected => commands = <<>> /\ wpc["control"] = "idle"
    /\ ~portal => wpc["portal"] = "idle"
    /\ main = "load" => ~portal

TypeInv == DataOK /\ WriterInv /\ StartInv

-----------------------------------------------------------------------------
(* The queue, and the lists of entries. *)

LEMMA QueueAppend ==
  ASSUME DataOK, NEW c \in Commands, commands' = Append(commands, c)
  PROVE  /\ commands' \in Seq(Commands)
         /\ Len(commands) \in Nat
         /\ Len(commands') = Len(commands) + 1
         /\ commands'[Len(commands) + 1] = c
         /\ \A i \in 1..Len(commands) : commands'[i] = commands[i]
  <1>1. commands \in Seq(Commands)
    BY DEF DataOK
  <1> QED
    BY <1>1

LEMMA QueueTail ==
  ASSUME DataOK, commands # <<>>
  PROVE  /\ Len(commands) \in Nat /\ Len(commands) >= 1
         /\ Head(commands) \in Commands /\ Head(commands) = commands[1]
         /\ Tail(commands) \in Seq(Commands)
         /\ Len(Tail(commands)) = Len(commands) - 1
         /\ \A i \in 1..Len(commands) - 1 : Tail(commands)[i] = commands[i + 1]
  <1>1. commands \in Seq(Commands)
    BY DEF DataOK
  <1>2. Len(commands) \in Nat /\ Len(commands) >= 1
    BY <1>1
  <1>3. Head(commands) = commands[1] /\ commands[1] \in Commands
    BY <1>1, <1>2, ElementOfSeq, HeadTailProperties
  <1>4. Tail(commands) \in Seq(Commands) /\ Len(Tail(commands)) = Len(commands) - 1
    BY <1>1, <1>2
  <1>5. \A i \in 1..Len(commands) - 1 : Tail(commands)[i] = commands[i + 1]
    BY <1>1, <1>2
  <1> QED
    BY <1>2, <1>3, <1>4, <1>5

\* What a commit writes.
LEMMA StreamingList ==
  ASSUME NEW w, job[w].what = "streaming"
  PROVE  /\ Len(ListOf(w)) = 1 /\ ListOf(w)[1] = "streaming"
         /\ EntriesOf(w) = {"streaming"}
  <1>1. ListOf(w) = <<"streaming">>
    BY DEF ListOf, Written
  <1>2. DOMAIN <<"streaming">> = {1}
    OBVIOUS
  <1> QED
    BY <1>1, <1>2 DEF EntriesOf

LEMMA TargetList ==
  ASSUME NEW w, job[w].what = "target"
  PROVE  /\ Len(ListOf(w)) = 2 /\ ListOf(w)[1] = "host" /\ ListOf(w)[2] = "port"
         /\ EntriesOf(w) = {"host", "port"}
  <1>1. ListOf(w) = <<"host", "port">>
    BY DEF ListOf, Written
  <1>2. DOMAIN <<"host", "port">> = 1..2
    OBVIOUS
  <1> QED
    BY <1>1, <1>2 DEF EntriesOf

LEMMA SetupList ==
  ASSUME NEW w, job[w].what = "setup"
  PROVE  /\ Len(ListOf(w)) = 5
         /\ \A i \in 1..5 : ListOf(w)[i] \in Fields
         /\ EntriesOf(w) = Fields
  <1>1. ListOf(w) = <<"wifi", "mqtt", "host", "port", "node">>
    BY DEF ListOf, Written
  <1>2. DOMAIN <<"wifi", "mqtt", "host", "port", "node">> = 1..5
    OBVIOUS
  <1>3. \A i \in 1..5 : ListOf(w)[i] \in Fields
    BY <1>1 DEF Fields, Required
  <1>4. Fields \subseteq EntriesOf(w)
    BY <1>1, <1>2 DEF EntriesOf, Fields, Required
  <1> QED
    BY <1>1, <1>2, <1>3, <1>4 DEF EntriesOf

\* Every write has its place and its type.
LEMMA WriteFits ==
  ASSUME NEW w \in Writers, JobFits(w)
  PROVE  /\ ListOf(w)[at[w]] \in Entries
         /\ ListOf(w)[at[w]] = "streaming" => job[w].value \in Switch
         /\ job[w].value \in Setups \cup Targets \cup Switch
         /\ EntriesOf(w) \subseteq Entries
         /\ "streaming" \in EntriesOf(w) => job[w].value \in Switch
         /\ Len(ListOf(w)) \in {1, 2, 5}
         /\ at[w] \in 1..Len(ListOf(w))
         /\ job[w].what # "streaming" =>
               ListOf(w)[at[w]] # "streaming" /\ "streaming" \notin EntriesOf(w)
  <1> USE DEF Entries, Fields, Required
  <1>1. CASE job[w].what = "streaming"
    BY <1>1, StreamingList DEF JobFits
  <1>2. CASE job[w].what = "target"
    BY <1>2, TargetList DEF JobFits
  <1>3. CASE job[w].what = "setup"
    BY <1>3, SetupList DEF JobFits
  <1> QED
    BY <1>1, <1>2, <1>3 DEF JobFits

-----------------------------------------------------------------------------
(* Type correctness. *)

\* The flags, apart from the rest.
LEMMA InitFlags == Init => FlagsOK
  BY DEF Init, FlagsOK

LEMMA NextFlags == FlagsOK /\ [Next]_vars => FlagsOK'
  <1> SUFFICES ASSUME FlagsOK, [Next]_vars PROVE FlagsOK'
    OBVIOUS
  <1> USE DEF FlagsOK
  <1>1. CASE AppMain
    BY <1>1 DEF AppMain, LoadConfig, Load, ForceSetup, StartSetup, SetupFails, StartStation,
                PortalStarts, PortalFails, StartControl, ReadStreaming, StoreStreaming, Store,
                historyVars
  <1>2. CASE Restart \/ PowerFails
    BY <1>2 DEF Restart, PowerFails, Reset
  <1>3. CASE \E c \in Commands : Receive(c)
    BY <1>3 DEF Receive, Enqueue, mainVars
  <1>4. CASE \E v \in Setups : Save(v)
    BY <1>4 DEF Save, mainVars, historyVars
  <1>5. ASSUME NEW w \in Writers, Commit(w) PROVE FlagsOK'
    BY <1>5 DEF Commit, SetEntry, SetFails, CopyToRam, Copy, mainVars, historyVars
  <1>6. CASE Take \/ ApplyStreaming \/ ApplyHealth \/ ShowStreaming \/ ApplyTarget \/ ApplyRestart
    BY <1>6 DEF Take, ApplyStreaming, ApplyHealth, ShowStreaming, ApplyTarget, ApplyRestart,
                mainVars, historyVars
  <1>7. CASE ApplySetup
    BY <1>7 DEF ApplySetup, mainVars, historyVars
  <1>8. CASE Telemetry \/ OnConnected
    BY <1>8 DEF Telemetry, TelemetryReads, TelemetryStores, TelemetryShows, TelemetryIsLost,
                TelemetryEnds, OnConnected, mainVars, historyVars
  <1>9. CASE UNCHANGED vars
    BY <1>9 DEF vars, mainVars, historyVars
  <1> QED
    BY <1>1, <1>2, <1>3, <1>4, <1>5, <1>6, <1>7, <1>8, <1>9 DEF Next, ControlTask, Writers

LEMMA InitType == Init => TypeInv
  <1> SUFFICES ASSUME Init PROVE TypeInv
    OBVIOUS
  <1> USE ConstantsAssumption DEF Init, Switch
  <1>1. nvs \in [Entries -> Setups \cup Targets \cup Switch \cup {Absent}]
    OBVIOUS
  <1>2. nvs["streaming"] = Absent
    BY DEF Entries
  <1>3. ram \in [Entries -> Setups \cup Targets \cup Switch \cup {Absent}]
        /\ ram["streaming"] = DefaultStreaming
    BY DEF Defaults, Entries
  <1>4. commands \in Seq(Commands) /\ Len(commands) = 0
    OBVIOUS
  <1>5. /\ job \in [Writers -> Jobs \cup {NoJob}]
        /\ wpc = [w \in Writers |-> "idle"]
        /\ at \in [Writers -> 1..5]
    BY DEF Idle
  <1>6. DataOK
    BY <1>1, <1>2, <1>3, <1>4, <1>5 DEF DataOK
  <1>7. WriterInv /\ StartInv
    BY <1>5 DEF WriterInv, StartInv, Writing, Connected, Writers, Init
  <1> QED
    BY <1>6, <1>7 DEF TypeInv

LEMMA LoadedType ==
  ASSUME DataOK
  PROVE  /\ Loaded(nvs) \in [Entries -> Setups \cup Targets \cup Switch \cup {Absent}]
         /\ Loaded(nvs)["streaming"] \in Switch
  <1> QED
    BY ConstantsAssumption DEF DataOK, Loaded, Defaults, Switch, Entries

LEMMA WriterStutter ==
  ASSUME WriterInv, UNCHANGED writerVars PROVE WriterInv'
  BY DEF WriterInv, writerVars, Writing, JobFits

LEMMA MainType == ASSUME TypeInv, FlagsOK, AppMain PROVE TypeInv'
  <1> USE DEF TypeInv
  <1>1. DataOK'
    <2> USE DEF DataOK, writerVars, reportVars, countVars, historyVars
    <2>1. CASE LoadConfig
      BY <2>1, LoadedType DEF LoadConfig, Load
    <2>2. CASE ForceSetup \/ StartSetup
      BY <2>2 DEF ForceSetup, StartSetup, PortalStarts
    <2>3. CASE SetupFails \/ StartStation
      BY <2>3, ConstantsAssumption DEF SetupFails, StartStation, PortalStarts, PortalFails
    <2>4. CASE StartControl \/ ReadStreaming
      BY <2>4 DEF StartControl, ReadStreaming
    <2>5. CASE StoreStreaming
      BY <2>5 DEF StoreStreaming, Store, Switch
    <2> QED
      BY <2>1, <2>2, <2>3, <2>4, <2>5 DEF AppMain
  <1>2. UNCHANGED writerVars /\ UNCHANGED commands
    BY DEF AppMain, LoadConfig, Load, ForceSetup, StartSetup, SetupFails, StartStation,
           StartControl, ReadStreaming, StoreStreaming, Store, writerVars
  <1>3. WriterInv'
    BY <1>2, WriterStutter
  <1>4. StartInv'
    <2> USE <1>2 DEF StartInv, Connected, writerVars
    <2>1. CASE LoadConfig
      BY <2>1 DEF LoadConfig, Load
    <2>2. CASE ForceSetup \/ StartSetup
      BY <2>2 DEF ForceSetup, StartSetup, PortalStarts
    <2>3. CASE SetupFails \/ StartStation
      <3>1. main' \notin {"audio", "store", "up", "load"} /\ main = "decide"
        BY <2>3 DEF SetupFails, StartStation
      <3>2. portal' = TRUE \/ portal' = portal
        BY <2>3 DEF SetupFails, StartStation, PortalStarts, PortalFails
      <3> QED
        BY <3>1, <3>2
    <2>4. CASE StartControl \/ ReadStreaming \/ StoreStreaming
      BY <2>4 DEF StartControl, ReadStreaming, StoreStreaming, Store
    <2> QED
      BY <2>1, <2>2, <2>3, <2>4 DEF AppMain
  <1> QED
    BY <1>1, <1>3, <1>4

LEMMA ResetType == ASSUME TypeInv, Reset, faults' \in 0..MaxFaults PROVE TypeInv'
  <1> USE ConstantsAssumption DEF Reset, Switch
  <1>1. DataOK
    BY DEF TypeInv
  <1>2. ram' \in [Entries -> Setups \cup Targets \cup Switch \cup {Absent}]
        /\ ram'["streaming"] = DefaultStreaming
    BY DEF Defaults, Entries
  <1>3. commands' \in Seq(Commands) /\ Len(commands') = 0
    OBVIOUS
  <1>4. /\ job' \in [Writers -> Jobs \cup {NoJob}]
        /\ wpc' = [w \in Writers |-> "idle"]
        /\ at' = [w \in Writers |-> 1]
    BY DEF Idle
  <1>5. DataOK'
    BY <1>1, <1>2, <1>3, <1>4 DEF DataOK
  <1>6. WriterInv' /\ StartInv'
    BY <1>4 DEF WriterInv, StartInv, Writing, Connected, Writers, Reset
  <1> QED
    BY <1>5, <1>6 DEF TypeInv

\* Only the writers change the configuration, and their own state.
LEMMA DataStutter ==
  ASSUME DataOK, UNCHANGED <<nvs, ram, main, startValue, flag, health, reportVars, last>>,
         UNCHANGED <<received, saves>>,
         faults' \in 0..MaxFaults,
         commands' \in Seq(Commands), Len(commands') <= QueueDepth,
         job' \in [Writers -> Jobs \cup {NoJob}],
         wpc' \in [Writers -> {"idle", "set", "commit", "apply", "health", "show", "restart"}],
         at' \in [Writers -> 1..5]
  PROVE  DataOK'
  BY DEF DataOK, reportVars

LEMMA ReceiveType == ASSUME TypeInv, NEW c \in Commands, Receive(c) PROVE TypeInv'
  <1> USE DEF TypeInv
  <1>1. commands' \in Seq(Commands) /\ Len(commands') <= QueueDepth
    <2>1. commands' = Append(commands, c) /\ Len(commands) < QueueDepth
      BY DEF Receive, Enqueue
    <2>2. Len(commands) \in Nat /\ commands' \in Seq(Commands)
          /\ Len(commands') = Len(commands) + 1
      BY <2>1, QueueAppend
    <2> QED
      BY <2>1, <2>2, ConstantsAssumption
  <1>2. last' \in Switch
    BY DEF Receive, Enqueue, DataOK, Commands
  <1>3. received' \in 0..MaxCommands
    BY ConstantsAssumption DEF Receive, Enqueue, DataOK
  <1>4. DataOK'
    BY <1>1, <1>2, <1>3 DEF Receive, Enqueue, DataOK, writerVars, reportVars, mainVars
  <1>5. WriterInv'
    BY WriterStutter DEF Receive, Enqueue
  <1>6. StartInv'
    BY DEF Receive, Enqueue, StartInv, Connected, mainVars, writerVars
  <1> QED
    BY <1>4, <1>5, <1>6

LEMMA TakeType == ASSUME TypeInv, Take PROVE TypeInv'
  <1> USE DEF TypeInv
  <1>1. /\ Head(commands) \in Commands
        /\ commands' \in Seq(Commands) /\ Len(commands') <= QueueDepth
    <2>1. commands # <<>> /\ commands' = Tail(commands)
      BY DEF Take
    <2>2. Len(commands) <= QueueDepth
      BY DEF DataOK
    <2> QED
      BY <2>1, <2>2, QueueTail, ConstantsAssumption
  <1>2. job' \in [Writers -> Jobs \cup {NoJob}] /\ job'["control"] = Head(commands)
        /\ job'["portal"] = job["portal"]
    BY <1>1 DEF Take, DataOK, Jobs, Writers
  <1>3. wpc' \in [Writers -> {"idle", "set", "commit", "apply", "health", "show", "restart"}]
        /\ wpc'["control"] = (IF Head(commands).what = "restart" THEN "apply" ELSE "set")
        /\ wpc'["portal"] = wpc["portal"]
    BY DEF Take, DataOK, Writers
  <1>4. at' = at /\ at["control"] = 1
    BY DEF Take, WriterInv, Writers
  <1>5. DataOK'
    BY <1>1, <1>2, <1>3, <1>4, DataStutter DEF Take, DataOK, mainVars, countVars, historyVars
  <1>6. WriterInv'
    <2>1. Head(commands).what # "restart" =>
             \/ Head(commands).what = "streaming" /\ Head(commands).value \in Switch
             \/ Head(commands).what = "target" /\ Head(commands).value \in Targets
      BY <1>1 DEF Commands
    <2>2. Writing("control")' => JobFits("control")'
      BY <2>1, <1>2, <1>3, <1>4 DEF Writing, JobFits
    <2>3. Writing("portal")' => JobFits("portal")'
      BY <1>2, <1>3, <1>4 DEF Writing, JobFits, WriterInv, Writers
    <2>4. Writing("control")' => job'["control"].what # "setup"
      BY <2>1, <1>2, <1>3 DEF Writing
    <2>5. \A w \in Writers : wpc'[w] # "set" => at'[w] = 1
      BY <1>3, <1>4 DEF WriterInv, Writers
    <2> QED
      BY <2>2, <2>3, <2>4, <2>5, <1>2, <1>3 DEF WriterInv, Writers, Writing
  <1>7. StartInv'
    BY <1>3 DEF Take, StartInv, Connected, mainVars
  <1> QED
    BY <1>5, <1>6, <1>7

LEMMA SaveType == ASSUME TypeInv, NEW v \in Setups, Save(v) PROVE TypeInv'
  <1> USE DEF TypeInv
  <1>1. job' \in [Writers -> Jobs \cup {NoJob}]
        /\ job'["portal"] = [what |-> "setup", value |-> v]
        /\ job'["control"] = job["control"]
    BY DEF Save, DataOK, Jobs, Writers
  <1>2. wpc' \in [Writers -> {"idle", "set", "commit", "apply", "health", "show", "restart"}]
        /\ wpc'["portal"] = "set" /\ wpc'["control"] = wpc["control"]
    BY DEF Save, DataOK, Writers
  <1>3. at' = at /\ at["portal"] = 1
    BY DEF Save, WriterInv, Writers
  <1>4. saves' \in 0..MaxSaves
    BY ConstantsAssumption DEF Save, DataOK
  <1>5. DataOK'
    BY <1>1, <1>2, <1>3, <1>4 DEF Save, DataOK, mainVars, reportVars, historyVars
  <1>6. WriterInv'
    <2>1. Writing("control")' => JobFits("control")'
      BY <1>1, <1>2, <1>3 DEF Writing, JobFits, WriterInv, Writers
    <2>2. JobFits("portal")'
      BY <1>1, <1>3 DEF JobFits
    <2>3. \A w \in Writers : wpc'[w] # "set" => at'[w] = 1
      BY <1>2, <1>3 DEF WriterInv, Writers
    <2> QED
      BY <2>1, <2>2, <2>3, <1>1, <1>2 DEF WriterInv, Writers, Writing
  <1>7. StartInv'
    BY <1>2 DEF Save, StartInv, Connected, mainVars
  <1> QED
    BY <1>5, <1>6, <1>7

LEMMA FinishWriter ==
  ASSUME TypeInv, NEW w \in Writers, Finish(w)
  PROVE  /\ job' \in [Writers -> Jobs \cup {NoJob}]
         /\ wpc' \in [Writers -> {"idle", "set", "commit", "apply", "health", "show", "restart"}]
         /\ at' \in [Writers -> 1..5]
         /\ wpc'[w] = "idle" /\ job'[w] = NoJob
         /\ \A u \in Writers : u # w => wpc'[u] = wpc[u] /\ job'[u] = job[u] /\ at'[u] = at[u]
         /\ WriterInv'
  <1>1. /\ job' \in [Writers -> Jobs \cup {NoJob}] /\ job'[w] = NoJob
        /\ wpc' \in [Writers -> {"idle", "set", "commit", "apply", "health", "show", "restart"}]
        /\ wpc'[w] = "idle"
        /\ at' \in [Writers -> 1..5] /\ at'[w] = 1
    BY DEF Finish, TypeInv, DataOK
  <1>2. \A u \in Writers : u # w => wpc'[u] = wpc[u] /\ job'[u] = job[u] /\ at'[u] = at[u]
    BY DEF Finish, TypeInv, DataOK
  <1>3. WriterInv'
    BY <1>1, <1>2 DEF TypeInv, WriterInv, Writing, JobFits, Writers
  <1> QED
    BY <1>1, <1>2, <1>3

\* A step of one writer from one place to the next, with its job.
LEMMA StepWriter ==
  ASSUME TypeInv, NEW w \in Writers, NEW place \in {"commit", "apply", "health", "show", "restart"},
         job' = job, wpc' = [wpc EXCEPT ![w] = place], at' = [at EXCEPT ![w] = 1],
         place = "commit" => wpc[w] = "set" /\ JobFits(w)',
         w = "portal" => place \in {"commit", "apply"}
  PROVE  /\ wpc' \in [Writers -> {"idle", "set", "commit", "apply", "health", "show", "restart"}]
         /\ at' \in [Writers -> 1..5]
         /\ wpc'[w] = place
         /\ \A u \in Writers : u # w => wpc'[u] = wpc[u] /\ at'[u] = at[u]
         /\ WriterInv'
  <1>1. /\ wpc' \in [Writers -> {"idle", "set", "commit", "apply", "health", "show", "restart"}]
        /\ wpc'[w] = place
        /\ at' \in [Writers -> 1..5] /\ at'[w] = 1
    BY DEF TypeInv, DataOK
  <1>2. \A u \in Writers : u # w => wpc'[u] = wpc[u] /\ at'[u] = at[u]
    BY DEF TypeInv, DataOK
  <1>3. WriterInv'
    <2>1. \A u \in Writers : Writing(u)' => JobFits(u)'
      BY <1>1, <1>2 DEF TypeInv, WriterInv, Writing, JobFits
    <2>2. \A u \in Writers : wpc'[u] # "set" => at'[u] = 1
      BY <1>1, <1>2 DEF TypeInv, WriterInv
    <2> QED
      BY <2>1, <2>2, <1>1, <1>2 DEF TypeInv, WriterInv, Writing, Writers
  <1> QED
    BY <1>1, <1>2, <1>3

LEMMA StartStutter ==
  ASSUME StartInv, UNCHANGED <<main, portal, commands>>,
         wpc'["control"] = "idle" \/ wpc'["control"] = wpc["control"] \/ wpc["control"] # "idle",
         wpc'["portal"] = "idle" \/ wpc'["portal"] = wpc["portal"] \/ wpc["portal"] # "idle"
  PROVE  StartInv'
  BY DEF StartInv, Connected

LEMMA SetType == ASSUME TypeInv, NEW w \in Writers, SetEntry(w) PROVE TypeInv'
  <1> USE DEF TypeInv
  <1>1. wpc[w] = "set" /\ job' = job /\ JobFits(w)
    BY DEF SetEntry, WriterInv, Writing
  <1>2. /\ nvs' \in [Entries -> Setups \cup Targets \cup Switch \cup {Absent}]
        /\ nvs'["streaming"] \in Switch \cup {Absent}
    BY <1>1, WriteFits DEF SetEntry, DataOK, Entries
  <1>3. CASE at[w] < Len(ListOf(w))
    <2>1. wpc' = wpc /\ at' = [at EXCEPT ![w] = at[w] + 1]
      BY <1>3 DEF SetEntry
    <2>2. at[w] \in 1..4 /\ Len(ListOf(w)) \in {2, 5}
      <3>1. Len(ListOf(w)) \in {1, 2, 5} /\ at[w] \in 1..Len(ListOf(w))
        BY <1>1, WriteFits
      <3>2. \A n, i : n \in {1, 2, 5} /\ i \in 1..n /\ i < n => i \in 1..4 /\ n \in {2, 5}
        OBVIOUS
      <3> QED
        BY <3>1, <3>2, <1>3
    <2>3. /\ at' \in [Writers -> 1..5] /\ at'[w] = at[w] + 1
          /\ \A u \in Writers : u # w => at'[u] = at[u]
      BY <2>1, <2>2 DEF DataOK
    <2>4. JobFits(w)'
      <3>1. CASE job[w].what = "streaming"
        <4>1. Len(ListOf(w)) = 1
          BY <3>1, StreamingList
        <4> QED
          BY <4>1, <2>2
      <3>2. CASE job[w].what = "target"
        <4>1. Len(ListOf(w)) = 2 /\ job[w].value \in Targets
          BY <1>1, <3>2, TargetList DEF JobFits
        <4>2. at'[w] \in 1..2
          BY <4>1, <1>3, <2>2, <2>3
        <4> QED
          BY <1>1, <3>2, <4>1, <4>2 DEF JobFits
      <3>3. CASE job[w].what = "setup"
        <4>1. job[w].value \in Setups
          BY <1>1, <3>3 DEF JobFits
        <4>2. at'[w] \in 1..5
          BY <2>2, <2>3
        <4> QED
          BY <1>1, <3>3, <4>1, <4>2 DEF JobFits
      <3> QED
        BY <1>1, <3>1, <3>2, <3>3 DEF JobFits
    <2>5. WriterInv'
      <3>1. \A u \in Writers : Writing(u)' => JobFits(u)'
        BY <1>1, <2>1, <2>3, <2>4 DEF WriterInv, Writing, JobFits
      <3>2. \A u \in Writers : wpc'[u] # "set" => at'[u] = 1
        BY <1>1, <2>1, <2>3 DEF WriterInv
      <3> QED
        BY <1>1, <2>1, <3>1, <3>2 DEF WriterInv, Writing
    <2>6. DataOK'
      BY <1>2, <2>1, <2>3 DEF SetEntry, DataOK, mainVars, reportVars, countVars, historyVars
    <2>7. StartInv'
      BY <2>1, StartStutter DEF SetEntry, mainVars
    <2> QED
      BY <2>5, <2>6, <2>7
  <1>4. CASE ~(at[w] < Len(ListOf(w)))
    <2>1. wpc' = [wpc EXCEPT ![w] = "commit"] /\ at' = [at EXCEPT ![w] = 1]
      BY <1>4 DEF SetEntry
    <2>2. JobFits(w)'
      BY <1>1, <2>1 DEF JobFits, DataOK
    <2>3. /\ WriterInv' /\ at' \in [Writers -> 1..5]
          /\ wpc' \in [Writers -> {"idle", "set", "commit", "apply", "health", "show", "restart"}]
          /\ \A u \in Writers : u # w => wpc'[u] = wpc[u]
      BY <1>1, <2>1, <2>2, StepWriter
    <2>4. DataOK'
      BY <1>2, <1>1, <2>3 DEF SetEntry, DataOK, mainVars, reportVars, countVars, historyVars
    <2>5. StartInv'
      BY <1>1, <2>3, StartStutter DEF SetEntry, mainVars, Writers
    <2> QED
      BY <2>3, <2>4, <2>5
  <1> QED
    BY <1>3, <1>4

LEMMA SetFailsType == ASSUME TypeInv, NEW w \in Writers, SetFails(w) PROVE TypeInv'
  <1> USE DEF TypeInv
  <1>1. Finish(w)
    BY DEF SetFails
  <1>2. faults' \in 0..MaxFaults
    BY ConstantsAssumption DEF SetFails, DataOK
  <1>3. DataOK'
    BY <1>1, <1>2, FinishWriter DEF SetFails, DataOK, mainVars, reportVars
  <1>4. StartInv'
    BY <1>1, FinishWriter, StartStutter DEF SetFails, mainVars, Writers
  <1> QED
    BY <1>1, <1>3, <1>4, FinishWriter

LEMMA CopyType == ASSUME TypeInv, NEW w \in Writers, CopyToRam(w) PROVE TypeInv'
  <1> USE DEF TypeInv
  <1>1. wpc[w] = "commit" /\ job' = job /\ JobFits(w) /\ at' = at /\ at[w] = 1
    BY DEF CopyToRam, Copy, WriterInv, Writing
  <1>2. /\ ram' \in [Entries -> Setups \cup Targets \cup Switch \cup {Absent}]
        /\ ram'["streaming"] \in Switch
    BY <1>1, WriteFits DEF CopyToRam, Copy, DataOK, Entries
  <1>3. at' = [at EXCEPT ![w] = 1]
    BY <1>1 DEF DataOK
  <1>4. wpc' = [wpc EXCEPT ![w] = "apply"]
    BY DEF CopyToRam, Copy
  <1>5. /\ WriterInv'
        /\ wpc' \in [Writers -> {"idle", "set", "commit", "apply", "health", "show", "restart"}]
        /\ \A u \in Writers : u # w => wpc'[u] = wpc[u]
    BY <1>1, <1>3, <1>4, StepWriter
  <1>6. DataOK'
    BY <1>1, <1>2, <1>5 DEF CopyToRam, Copy, DataOK, mainVars, reportVars, countVars, historyVars
  <1>7. StartInv'
    BY <1>1, <1>5, StartStutter DEF CopyToRam, Copy, mainVars, Writers
  <1> QED
    BY <1>5, <1>6, <1>7
LEMMA ApplyType ==
  ASSUME TypeInv, FlagsOK,
         ApplyStreaming \/ ApplyHealth \/ ShowStreaming \/ ApplyTarget \/ ApplyRestart
  PROVE  TypeInv'
  <1> USE DEF TypeInv
  <1>1. "control" \in Writers /\ wpc["control"] \in {"apply", "health", "show"}
    BY DEF Applies, ApplyStreaming, ApplyHealth, ShowStreaming, ApplyTarget, ApplyRestart, Writers
  <1>2. at["control"] = 1
    BY <1>1 DEF WriterInv
  <1>3. UNCHANGED <<main, portal, commands>>
    BY DEF ApplyStreaming, ApplyHealth, ShowStreaming, ApplyTarget, ApplyRestart, mainVars
  <1>4. CASE ApplyStreaming \/ ApplyHealth \/ ApplyRestart
    <2>1. PICK place \in {"health", "show", "restart"} :
              job' = job /\ at' = at /\ wpc' = [wpc EXCEPT !["control"] = place]
      BY <1>4 DEF ApplyStreaming, ApplyHealth, ApplyRestart
    <2>2. at' = [at EXCEPT !["control"] = 1]
      BY <2>1, <1>2 DEF DataOK
    <2>3. /\ WriterInv'
          /\ wpc' \in [Writers -> {"idle", "set", "commit", "apply", "health", "show", "restart"}]
          /\ \A u \in Writers : u # "control" => wpc'[u] = wpc[u]
      BY <1>1, <2>1, <2>2, StepWriter
    <2>4. DataOK'
      BY <1>4, <2>1, <2>3 DEF ApplyStreaming, ApplyHealth, ApplyRestart, DataOK,
         mainVars, reportVars, countVars, historyVars
    <2>5. StartInv'
      BY <1>1, <1>3, <2>3, StartStutter DEF Writers
    <2> QED
      BY <2>3, <2>4, <2>5
  <1>5. CASE ShowStreaming \/ ApplyTarget
    <2>1. Finish("control")
      BY <1>5 DEF ShowStreaming, ApplyTarget
    <2>2. DataOK'
      BY <1>1, <1>5, <2>1, FinishWriter DEF ShowStreaming, ApplyTarget, DataOK,
         mainVars, reportVars, countVars, historyVars
    <2>3. StartInv'
      BY <1>1, <1>3, <2>1, FinishWriter, StartStutter DEF Writers
    <2> QED
      BY <1>1, <2>1, <2>2, <2>3, FinishWriter
  <1> QED
    BY <1>4, <1>5

LEMMA SetupType == ASSUME TypeInv, ApplySetup PROVE TypeInv'
  <1> USE DEF TypeInv
  <1>1. "portal" \in Writers /\ wpc["portal"] = "apply" /\ Finish("portal")
    BY DEF ApplySetup, Writers
  <1>2. DataOK'
    BY <1>1, FinishWriter DEF ApplySetup, DataOK, mainVars, reportVars, countVars, historyVars
  <1>3. StartInv'
    BY <1>1, FinishWriter, StartStutter DEF ApplySetup, mainVars, Writers
  <1> QED
    BY <1>1, <1>2, <1>3, FinishWriter

\* What the node reports is a switch, and disturbs nothing else.
LEMMA ReportType == ASSUME TypeInv, Telemetry \/ OnConnected PROVE TypeInv'
  <1> USE DEF TypeInv
  <1>1. UNCHANGED <<main, portal, commands>> /\ UNCHANGED writerVars
    BY DEF Telemetry, TelemetryReads, TelemetryStores, TelemetryShows, TelemetryIsLost,
           TelemetryEnds, OnConnected, mainVars
  <1>2. WriterInv' /\ StartInv'
    BY <1>1, WriterStutter, StartStutter DEF writerVars
  <1>3. DataOK'
    BY <1>1 DEF Telemetry, TelemetryReads, TelemetryStores, TelemetryShows, TelemetryIsLost,
           TelemetryEnds, OnConnected, DataOK, Switch, mainVars, writerVars, countVars, historyVars
  <1> QED
    BY <1>2, <1>3

LEMMA StutterType == ASSUME TypeInv, UNCHANGED vars PROVE TypeInv'
  <1>1. WriterInv' /\ StartInv'
    BY WriterStutter, StartStutter DEF TypeInv, vars, mainVars, writerVars
  <1>2. DataOK'
    BY DEF TypeInv, DataOK, vars, mainVars, writerVars, reportVars, countVars, historyVars
  <1> QED
    BY <1>1, <1>2 DEF TypeInv

LEMMA NextType == TypeInv /\ FlagsOK /\ [Next]_vars => TypeInv'
  <1> SUFFICES ASSUME TypeInv, FlagsOK, [Next]_vars PROVE TypeInv'
    OBVIOUS
  <1>1. CASE AppMain
    BY <1>1, MainType
  <1>2. CASE Restart \/ PowerFails
    <2>1. Reset /\ faults' \in 0..MaxFaults
      BY <1>2, ConstantsAssumption DEF Restart, PowerFails, TypeInv, DataOK
    <2> QED
      BY <2>1, ResetType
  <1>3. CASE \E c \in Commands : Receive(c)
    BY <1>3, ReceiveType
  <1>4. CASE \E v \in Setups : Save(v)
    BY <1>4, SaveType
  <1>5. ASSUME NEW w \in Writers, Commit(w) PROVE TypeInv'
    BY <1>5, SetType, SetFailsType, CopyType DEF Commit
  <1>6. CASE Take
    BY <1>6, TakeType
  <1>7. CASE ApplyStreaming \/ ApplyHealth \/ ShowStreaming \/ ApplyTarget \/ ApplyRestart
    BY <1>7, ApplyType
  <1>8. CASE ApplySetup
    BY <1>8, SetupType
  <1>9. CASE Telemetry \/ OnConnected
    BY <1>9, ReportType
  <1>10. CASE UNCHANGED vars
    BY <1>10, StutterType
  <1> QED
    BY <1>1, <1>2, <1>3, <1>4, <1>5, <1>6, <1>7, <1>8, <1>9, <1>10 DEF Next, ControlTask, Writers

\* Every variable keeps its type, the queue its bound, and a commit its place in
\* the list of entries it writes: for every number of commands and forms.
THEOREM TypeCorrect == Spec => []TypeOK
  <1>1. Init => TypeInv /\ FlagsOK
    BY InitType, InitFlags
  <1>2. TypeInv /\ FlagsOK /\ [Next]_vars => (TypeInv /\ FlagsOK)'
    BY NextType, NextFlags
  <1>3. TypeInv /\ FlagsOK => TypeOK
    BY DEF TypeInv, TypeOK
  <1> QED
    BY <1>1, <1>2, <1>3, PTL DEF Spec

-----------------------------------------------------------------------------
(* RAM and NVS. A form is never copied without a failure or a restart to      *)
(* come, so the control task alone is to be followed.                         *)

\* The entries that the control task has written and not yet copied to RAM.
SetDone ==
    IF wpc["control"] = "commit" THEN EntriesOf("control")
    ELSE IF wpc["control"] = "set" /\ job["control"].what = "target" /\ at["control"] = 2
         THEN {"host"}
         ELSE {}

\* No setup was begun, nothing failed, and the node does not go down.
Steady == main # "load" /\ ~restarting /\ ~failed /\ wpc["portal"] = "idle"

Agrees(e) == IF e \in SetDone THEN nvs[e] = job["control"].value ELSE ram[e] = Loaded(nvs)[e]

RamInv == Steady => \A e \in Entries : Agrees(e)

LEMMA RamStutter ==
  ASSUME RamInv, UNCHANGED <<nvs, ram>>,
         wpc'["control"] = wpc["control"], job'["control"] = job["control"],
         at'["control"] = at["control"],
         Steady' => Steady
  PROVE  RamInv'
  <1>1. Loaded(nvs)' = Loaded(nvs)
    BY DEF Loaded
  <1>2. EntriesOf("control")' = EntriesOf("control")
    BY DEF EntriesOf, ListOf
  <1>3. SetDone' = SetDone
    BY <1>2 DEF SetDone
  <1> QED
    BY <1>1, <1>3 DEF RamInv, Agrees

\* A step that writes nothing, while the control task is outside of a commit.
LEMMA RamIdle ==
  ASSUME RamInv, UNCHANGED <<nvs, ram>>, SetDone = {}, SetDone' = {}, Steady' => Steady
  PROVE  RamInv'
  <1>1. Loaded(nvs)' = Loaded(nvs)
    BY DEF Loaded
  <1> QED
    BY <1>1 DEF RamInv, Agrees

LEMMA RamMain == ASSUME TypeInv, FlagsOK, RamInv, AppMain PROVE RamInv'
  <1>1. UNCHANGED <<nvs, job, wpc, at>> /\ failed' = failed
    BY DEF AppMain, LoadConfig, Load, ForceSetup, StartSetup, SetupFails, StartStation,
           StartControl, ReadStreaming, StoreStreaming, Store, writerVars, historyVars
  <1>2. CASE LoadConfig
    <2>1. main = "load" /\ ram' = Loaded(nvs)
      BY <1>2 DEF LoadConfig, Load
    <2>2. wpc'["control"] = "idle"
      BY <1>1, <2>1 DEF TypeInv, StartInv, Connected
    <2>3. SetDone' = {}
      BY <2>2 DEF SetDone
    <2>4. Loaded(nvs)' = Loaded(nvs)
      BY <1>1 DEF Loaded
    <2> QED
      BY <2>1, <2>3, <2>4 DEF RamInv, Agrees
  <1>3. CASE ~LoadConfig
    <2>1. main # "load" /\ ram' = ram /\ (restarting' = restarting \/ restarting' = TRUE)
      BY <1>3 DEF AppMain, ForceSetup, StartSetup, SetupFails, StartStation,
           StartControl, ReadStreaming, StoreStreaming, Store
    <2>2. Steady' => Steady
      BY <1>1, <2>1 DEF Steady
    <2> QED
      BY <1>1, <2>1, <2>2, RamStutter
  <1> QED
    BY <1>2, <1>3

LEMMA RamSet == ASSUME TypeInv, RamInv, SetEntry("control") PROVE RamInv'
  <1> DEFINE C == "control"
             v == job[C].value
  <1>1. /\ C \in Writers /\ wpc[C] = "set" /\ job' = job /\ JobFits(C)
        /\ job[C].what # "setup"
    BY DEF SetEntry, TypeInv, WriterInv, Writing, Writers
  <1>2. UNCHANGED <<ram, main, restarting, failed>> /\ wpc'["portal"] = wpc["portal"]
    BY DEF SetEntry, mainVars, historyVars, TypeInv, DataOK, Writers
  <1>3. Steady' => Steady
    BY <1>2 DEF Steady
  <1>4. nvs \in [Entries -> Setups \cup Targets \cup Switch \cup {Absent}]
        /\ wpc \in [Writers -> {"idle", "set", "commit", "apply", "health", "show", "restart"}]
        /\ at \in [Writers -> 1..5]
    BY DEF TypeInv, DataOK
  <1>5. ASSUME NEW x \in Entries, nvs' = [nvs EXCEPT ![x] = v],
               SetDone' = SetDone \cup {x}, Steady'
        PROVE  RamInv'
    <2>1. ASSUME NEW e \in Entries PROVE Agrees(e)'
      <3>1. CASE e = x
        BY <1>1, <1>4, <1>5, <3>1 DEF Agrees
      <3>2. CASE e # x
        <4>1. nvs'[e] = nvs[e] /\ Loaded(nvs)'[e] = Loaded(nvs)[e]
          BY <1>4, <1>5, <3>2 DEF Loaded
        <4>2. Agrees(e)
          BY <1>3, <1>5 DEF RamInv
        <4> QED
          BY <1>1, <1>2, <1>5, <3>2, <4>1, <4>2 DEF Agrees
      <3> QED
        BY <3>1, <3>2
    <2> QED
      BY <2>1 DEF RamInv
  <1>6. nvs' = [nvs EXCEPT ![ListOf(C)[at[C]]] = v]
    BY DEF SetEntry
  <1>7. /\ at[C] < Len(ListOf(C)) => wpc'[C] = "set" /\ at'[C] = at[C] + 1
        /\ ~(at[C] < Len(ListOf(C))) => wpc'[C] = "commit"
    <2>1. CASE at[C] < Len(ListOf(C))
      <3>1. wpc' = wpc /\ at' = [at EXCEPT ![C] = at[C] + 1]
        BY <2>1 DEF SetEntry
      <3> QED
        BY <1>1, <1>4, <2>1, <3>1
    <2>2. CASE ~(at[C] < Len(ListOf(C)))
      <3>1. wpc' = [wpc EXCEPT ![C] = "commit"]
        BY <2>2 DEF SetEntry
      <3> QED
        BY <1>1, <1>4, <2>2, <3>1
    <2> QED
      BY <2>1, <2>2
  <1>8. CASE job[C].what = "streaming"
    <2>1. at[C] = 1 /\ ListOf(C)[1] = "streaming" /\ Len(ListOf(C)) = 1
          /\ EntriesOf(C) = {"streaming"}
      BY <1>1, <1>8, StreamingList DEF JobFits
    <2>2. nvs' = [nvs EXCEPT !["streaming"] = v] /\ wpc'[C] = "commit"
      <3>1. nvs' = [nvs EXCEPT !["streaming"] = v]
        BY <1>6, <2>1
      <3>2. wpc'[C] = "commit"
        <4>1. at[C] = 1 /\ Len(ListOf(C)) = 1
          BY <2>1
        <4>2. ~(1 < 1)
          OBVIOUS
        <4> QED
          BY <1>7, <4>1, <4>2
      <3> QED
        BY <3>1, <3>2
    <2>3. EntriesOf(C)' = EntriesOf(C)
      BY <1>1 DEF EntriesOf, ListOf
    <2>4. SetDone = {} /\ SetDone' = {"streaming"}
      BY <1>1, <1>8, <2>1, <2>2, <2>3 DEF SetDone
    <2> QED
      BY <1>5, <2>2, <2>4 DEF Entries, RamInv
  <1>9. CASE job[C].what = "target" /\ at[C] = 1
    <2>1. ListOf(C)[1] = "host" /\ Len(ListOf(C)) = 2
      BY <1>9, TargetList
    <2>2. nvs' = [nvs EXCEPT !["host"] = v] /\ wpc'[C] = "set" /\ at'[C] = 2
      <3>1. nvs' = [nvs EXCEPT !["host"] = v]
        BY <1>6, <1>9, <2>1
      <3>2. wpc'[C] = "set" /\ at'[C] = 2
        <4>1. at[C] < Len(ListOf(C)) /\ at[C] + 1 = 2
          BY <1>9, <2>1
        <4> QED
          BY <1>7, <4>1
      <3> QED
        BY <3>1, <3>2
    <2>3. SetDone = {} /\ SetDone' = {"host"}
      BY <1>1, <1>9, <2>2 DEF SetDone
    <2> QED
      BY <1>5, <2>2, <2>3 DEF Entries, Fields, Required, RamInv
  <1>10. CASE job[C].what = "target" /\ at[C] = 2
    <2>1. ListOf(C)[2] = "port" /\ Len(ListOf(C)) = 2 /\ EntriesOf(C) = {"host", "port"}
      BY <1>10, TargetList
    <2>2. nvs' = [nvs EXCEPT !["port"] = v] /\ wpc'[C] = "commit"
      <3>1. nvs' = [nvs EXCEPT !["port"] = v]
        BY <1>6, <1>10, <2>1
      <3>2. wpc'[C] = "commit"
        BY <1>1, <1>4, <1>7, <1>10, <2>1
      <3> QED
        BY <3>1, <3>2
    <2>3. EntriesOf(C)' = EntriesOf(C)
      BY <1>1 DEF EntriesOf, ListOf
    <2>4. SetDone = {"host"} /\ SetDone' = {"host", "port"}
      BY <1>1, <1>10, <2>1, <2>2, <2>3 DEF SetDone
    <2> QED
      BY <1>5, <2>2, <2>4 DEF Entries, Fields, RamInv
  <1> QED
    BY <1>1, <1>8, <1>9, <1>10 DEF JobFits

LEMMA RamCopy == ASSUME TypeInv, RamInv, CopyToRam("control") PROVE RamInv'
  <1> DEFINE C == "control"
             v == job[C].value
  <1>1. /\ C \in Writers /\ wpc[C] = "commit" /\ JobFits(C)
        /\ job[C].what # "setup" /\ UNCHANGED <<nvs, main, restarting, failed>>
        /\ ram' = [e \in Entries |-> IF e \in EntriesOf(C) THEN v ELSE ram[e]]
    BY DEF CopyToRam, Copy, TypeInv, WriterInv, Writing, Writers, mainVars, historyVars
  <1>2. wpc'[C] = "apply" /\ wpc'["portal"] = wpc["portal"]
    BY DEF CopyToRam, Copy, TypeInv, DataOK, Writers
  <1>3. SetDone = EntriesOf(C) /\ SetDone' = {} /\ (Steady' => Steady)
    BY <1>1, <1>2 DEF SetDone, Steady
  <1>4. v # Absent
    BY <1>1, ConstantsAssumption DEF JobFits, Switch
  <1>5. ASSUME NEW e \in Entries, Steady' PROVE Agrees(e)'
    <2>1. Agrees(e) /\ Loaded(nvs)' = Loaded(nvs)
      BY <1>1, <1>3, <1>5 DEF RamInv, Loaded
    <2>2. CASE e \in EntriesOf(C)
      <3>1. nvs[e] = v /\ ram'[e] = v
        BY <1>1, <1>3, <2>1, <2>2 DEF Agrees
      <3>2. Loaded(nvs)[e] = v
        BY <1>4, <3>1 DEF Loaded
      <3> QED
        BY <1>3, <2>1, <3>1, <3>2 DEF Agrees
    <2>3. CASE e \notin EntriesOf(C)
      BY <1>1, <1>3, <2>1, <2>3 DEF Agrees
    <2> QED
      BY <2>2, <2>3
  <1> QED
    BY <1>5 DEF RamInv

LEMMA RamPortal ==
  ASSUME TypeInv, FlagsOK, RamInv, Commit("portal") \/ ApplySetup \/ \E v \in Setups : Save(v)
  PROVE  RamInv'
  <1> SUFFICES ~Steady'
    BY DEF RamInv
  <1>1. CASE (\E v \in Setups : Save(v)) \/ SetEntry("portal") \/ CopyToRam("portal")
    <2>1. wpc'["portal"] # "idle"
      BY <1>1 DEF Save, SetEntry, CopyToRam, Copy, TypeInv, DataOK, Writers
    <2> QED
      BY <2>1 DEF Steady
  <1>2. CASE SetFails("portal") \/ ApplySetup
    BY <1>2 DEF SetFails, ApplySetup, Steady
  <1> QED
    BY <1>1, <1>2 DEF Commit

LEMMA RamControl ==
  ASSUME TypeInv, FlagsOK, RamInv, ControlTask
  PROVE  RamInv'
  <1>1. CASE SetEntry("control")
    BY <1>1, RamSet
  <1>2. CASE CopyToRam("control")
    BY <1>2, RamCopy
  <1>3. CASE SetFails("control")
    BY <1>3 DEF SetFails, RamInv, Steady
  <1>4. CASE Take
    <2>1. wpc["control"] = "idle" /\ at'["control"] = 1 /\ wpc'["control"] \in {"set", "apply"}
      BY <1>4 DEF Take, TypeInv, DataOK, WriterInv, Writers
    <2>2. SetDone = {} /\ SetDone' = {}
      BY <2>1 DEF SetDone
    <2>3. UNCHANGED <<nvs, ram, main, restarting, failed>> /\ wpc'["portal"] = wpc["portal"]
      BY <1>4 DEF Take, TypeInv, DataOK, Writers, mainVars, historyVars
    <2> QED
      BY <2>2, <2>3, RamIdle DEF Steady
  <1>5. CASE ApplyStreaming \/ ApplyHealth \/ ShowStreaming \/ ApplyTarget \/ ApplyRestart
    <2>1. wpc["control"] \in {"apply", "health", "show"}
          /\ wpc'["control"] \in {"health", "show", "restart", "idle"}
          /\ wpc'["portal"] = wpc["portal"]
      BY <1>5 DEF ApplyStreaming, ApplyHealth, ShowStreaming, ApplyTarget, ApplyRestart, Applies,
         Finish, TypeInv, DataOK, Writers
    <2>2. SetDone = {} /\ SetDone' = {}
      BY <2>1 DEF SetDone
    <2>3. UNCHANGED <<nvs, ram, main, failed>> /\ (restarting' = restarting \/ restarting' = TRUE)
      BY <1>5 DEF ApplyStreaming, ApplyHealth, ShowStreaming, ApplyTarget, ApplyRestart,
         mainVars, historyVars
    <2> QED
      BY <2>1, <2>2, <2>3, RamIdle DEF Steady
  <1> QED
    BY <1>1, <1>2, <1>3, <1>4, <1>5 DEF ControlTask, Commit

LEMMA NextRam == TypeInv /\ FlagsOK /\ RamInv /\ [Next]_vars => RamInv'
  <1> SUFFICES ASSUME TypeInv, FlagsOK, RamInv, [Next]_vars PROVE RamInv'
    OBVIOUS
  <1>1. CASE AppMain
    BY <1>1, RamMain
  <1>2. CASE Restart \/ PowerFails
    BY <1>2 DEF Restart, PowerFails, Reset, RamInv, Steady
  <1>3. CASE (\E c \in Commands : Receive(c)) \/ Telemetry \/ OnConnected \/ UNCHANGED vars
    <2>1. UNCHANGED <<nvs, ram, main, restarting, failed>> /\ UNCHANGED writerVars
      BY <1>3 DEF Receive, Enqueue, Telemetry, TelemetryReads, TelemetryStores, TelemetryShows,
         TelemetryIsLost, TelemetryEnds, OnConnected, vars, mainVars, historyVars
    <2> QED
      BY <2>1, RamStutter DEF writerVars, Steady
  <1>4. CASE ControlTask
    BY <1>4, RamControl
  <1>5. CASE Commit("portal") \/ ApplySetup \/ \E v \in Setups : Save(v)
    BY <1>5, RamPortal
  <1> QED
    BY <1>1, <1>2, <1>3, <1>4, <1>5 DEF Next

\* While nobody writes, the node runs on the configuration that the next boot
\* will read, unless a commit failed or a restart is to come.
THEOREM RamIsTheFlash == Spec => []RamIsWhatBootReads
  <1>1. Init => TypeInv /\ FlagsOK /\ RamInv
    BY InitType, InitFlags DEF Init, RamInv, Steady
  <1>2. TypeInv /\ FlagsOK /\ RamInv /\ [Next]_vars => (TypeInv /\ FlagsOK /\ RamInv)'
    BY NextType, NextFlags, NextRam
  <1>3. TypeInv /\ RamInv => RamIsWhatBootReads
    <2> SUFFICES ASSUME TypeInv, RamInv, wpc = Idle, main # "load", ~restarting, ~failed
                 PROVE  ram = Loaded(nvs)
      BY DEF RamIsWhatBootReads
    <2>1. wpc["control"] = "idle" /\ wpc["portal"] = "idle"
      BY DEF Idle, Writers
    <2>2. SetDone = {} /\ Steady
      BY <2>1 DEF SetDone, Steady
    <2>3. \A e \in Entries : ram[e] = Loaded(nvs)[e]
      BY <2>2 DEF RamInv, Agrees
    <2>4. ram \in [Entries -> Setups \cup Targets \cup Switch \cup {Absent}]
          /\ Loaded(nvs) \in [Entries -> Setups \cup Targets \cup Switch \cup {Absent}]
      BY LoadedType DEF TypeInv, DataOK
    <2> QED
      BY <2>3, <2>4
  <1> QED
    BY <1>1, <1>2, <1>3, PTL DEF Spec

-----------------------------------------------------------------------------
(* The last streaming command: either it waits in the queue, behind which no  *)
(* other streaming command is, or it is under way, or it has come through.    *)

Switching(i) == commands[i].what = "streaming"

LastQueued ==
    \E i \in 1..Len(commands) :
        /\ Switching(i) /\ commands[i].value = last
        /\ \A j \in 1..Len(commands) : j > i => ~Switching(j)

NoneQueued == \A i \in 1..Len(commands) : ~Switching(i)

UnderWay == Writing("control") /\ job["control"].what = "streaming"

Settled ==
    /\ UnderWay => job["control"].value = last
    /\ UnderWay /\ wpc["control"] = "commit" => nvs["streaming"] = last
    /\ ~UnderWay => ram["streaming"] = last /\ Loaded(nvs)["streaming"] = last

LastInv == main # "load" /\ ~failed => LastQueued \/ (NoneQueued /\ Settled)

\* What a boot makes of the streaming entry depends on that entry alone.
LEMMA LoadedStreaming ==
  ASSUME nvs'["streaming"] = nvs["streaming"]
  PROVE  Loaded(nvs)'["streaming"] = Loaded(nvs)["streaming"]
  BY DEF Loaded, Entries

LEMMA LastStutter ==
  ASSUME LastInv, UNCHANGED <<commands, last>>, Settled => Settled',
         main' # "load" /\ ~failed' => main # "load" /\ ~failed
  PROVE  LastInv'
  <1>1. LastQueued' = LastQueued /\ NoneQueued' = NoneQueued
    BY DEF LastQueued, NoneQueued, Switching
  <1> QED
    BY <1>1 DEF LastInv

LEMMA SettledStutter ==
  ASSUME Settled, last' = last, UNCHANGED <<ram, nvs>>,
         UnderWay' = UnderWay,
         UnderWay => job'["control"] = job["control"] /\ wpc'["control"] = wpc["control"]
  PROVE  Settled'
  <1>1. Loaded(nvs)'["streaming"] = Loaded(nvs)["streaming"]
    BY LoadedStreaming
  <1> QED
    BY <1>1 DEF Settled

LEMMA LastMain == ASSUME TypeInv, LastInv, AppMain PROVE LastInv'
  <1>1. UNCHANGED <<nvs, job, wpc, at, commands, failed>>
    BY DEF AppMain, LoadConfig, Load, ForceSetup, StartSetup, SetupFails, StartStation,
           StartControl, ReadStreaming, StoreStreaming, Store, writerVars, historyVars
  <1>2. CASE LoadConfig
    <2>1. main = "load" /\ ram' = Loaded(nvs) /\ last' = Loaded(nvs)["streaming"]
      BY <1>2 DEF LoadConfig, Load
    <2>2. wpc'["control"] = "idle" /\ commands' = <<>>
      BY <1>1, <2>1 DEF TypeInv, StartInv, Connected
    <2>3. NoneQueued'
      BY <2>2 DEF NoneQueued
    <2>4. ~UnderWay'
      BY <2>2 DEF UnderWay, Writing
    <2>5. Loaded(nvs)'["streaming"] = Loaded(nvs)["streaming"]
      BY <1>1, LoadedStreaming
    <2> QED
      BY <2>1, <2>3, <2>4, <2>5 DEF LastInv, Settled
  <1>3. CASE ~LoadConfig
    <2>1. main # "load" /\ ram' = ram /\ last' = last
      BY <1>3 DEF AppMain, ForceSetup, StartSetup, SetupFails, StartStation,
           StartControl, ReadStreaming, StoreStreaming, Store, historyVars
    <2>2. UnderWay' = UnderWay
      BY <1>1 DEF UnderWay, Writing
    <2>3. Settled => Settled'
      BY <1>1, <2>1, <2>2, SettledStutter
    <2> QED
      BY <1>1, <2>1, <2>3, LastStutter
  <1> QED
    BY <1>2, <1>3

LEMMA LastReceive ==
  ASSUME TypeInv, LastInv, NEW c \in Commands, Receive(c) PROVE LastInv'
  <1>1. UNCHANGED <<nvs, ram, job, wpc, at, main, failed>> /\ commands' = Append(commands, c)
        /\ last' = (IF c.what = "streaming" THEN c.value ELSE last)
    BY DEF Receive, Enqueue, mainVars, writerVars
  <1>2. /\ Len(commands) \in Nat /\ Len(commands') = Len(commands) + 1
        /\ commands'[Len(commands) + 1] = c
        /\ \A i \in 1..Len(commands) : commands'[i] = commands[i]
    BY <1>1, QueueAppend DEF TypeInv
  <1>3. CASE c.what = "streaming"
    <2>1. PICK i : i = Len(commands) + 1
      OBVIOUS
    <2>2. i \in 1..Len(commands') /\ \A j \in 1..Len(commands') : ~(j > i)
      BY <1>2, <2>1
    <2>3. commands'[i].what = "streaming" /\ commands'[i].value = last'
      BY <1>1, <1>2, <1>3, <2>1
    <2>4. LastQueued'
      BY <2>2, <2>3 DEF LastQueued, Switching
    <2> QED
      BY <2>4 DEF LastInv
  <1>4. CASE c.what # "streaming"
    <2>1. \A i \in 1..Len(commands') :
             \/ i \in 1..Len(commands) /\ commands'[i] = commands[i]
             \/ i = Len(commands) + 1 /\ commands'[i].what # "streaming"
      BY <1>2, <1>4
    <2>2. \A i \in 1..Len(commands) : i \in 1..Len(commands')
      BY <1>2
    <2>3. LastQueued => LastQueued'
      <3> SUFFICES ASSUME NEW i \in 1..Len(commands),
                          Switching(i), commands[i].value = last,
                          \A j \in 1..Len(commands) : j > i => ~Switching(j)
                   PROVE  LastQueued'
        BY DEF LastQueued
      <3>1. i \in 1..Len(commands') /\ Switching(i)' /\ commands'[i].value = last'
        BY <1>1, <1>2, <1>4, <2>2 DEF Switching
      <3>2. \A j \in 1..Len(commands') : j > i => ~Switching(j)'
        BY <2>1 DEF Switching
      <3> QED
        BY <3>1, <3>2 DEF LastQueued, Switching
    <2>4. NoneQueued => NoneQueued'
      BY <2>1 DEF NoneQueued, Switching
    <2>5. UnderWay' = UnderWay
      BY <1>1 DEF UnderWay, Writing
    <2>6. Settled => Settled'
      BY <1>1, <1>4, <2>5, SettledStutter
    <2> QED
      BY <1>1, <2>3, <2>4, <2>6 DEF LastInv
  <1> QED
    BY <1>3, <1>4

LEMMA LastTake == ASSUME TypeInv, LastInv, Take PROVE LastInv'
  <1> DEFINE n == Len(commands)
  <1>1. UNCHANGED <<nvs, ram, main, failed, last>> /\ commands # <<>>
        /\ commands' = Tail(commands) /\ wpc["control"] = "idle"
    BY DEF Take, mainVars, historyVars
  <1>2. /\ n \in Nat /\ n >= 1 /\ Head(commands) \in Commands
        /\ Head(commands) = commands[1] /\ Len(commands') = n - 1
        /\ \A i \in 1..n - 1 : commands'[i] = commands[i + 1]
    BY <1>1, QueueTail DEF TypeInv
  <1>3. job'["control"] = commands[1]
        /\ wpc'["control"] = (IF commands[1].what = "restart" THEN "apply" ELSE "set")
    BY <1>2 DEF Take, TypeInv, DataOK, Writers
  <1>4. ASSUME NEW i \in 1..n - 1 PROVE i + 1 \in 1..n /\ i + 1 > 1
    BY <1>2
  <1>5. ASSUME NEW i \in 1..n, i > 1 PROVE i - 1 \in 1..n - 1 /\ (i - 1) + 1 = i
    BY <1>2, <1>5
  <1>6. Loaded(nvs)'["streaming"] = Loaded(nvs)["streaming"]
    BY <1>1, LoadedStreaming
  <1>7. ASSUME NEW i \in 1..n,
               Switching(i), commands[i].value = last,
               \A j \in 1..n : j > i => ~Switching(j)
        PROVE  LastQueued' \/ (NoneQueued' /\ Settled')
    <2>1. CASE i = 1
      <3>1. NoneQueued'
        <4>1. ASSUME NEW k \in 1..n - 1 PROVE ~Switching(k)'
          BY <1>2, <1>4, <1>7, <2>1 DEF Switching
        <4> QED
          BY <1>2, <4>1 DEF NoneQueued, Switching
      <3>2. UnderWay' /\ wpc'["control"] = "set" /\ job'["control"].value = last'
        BY <1>1, <1>3, <1>7, <2>1 DEF UnderWay, Writing, Switching
      <3> QED
        BY <3>1, <3>2 DEF Settled
    <2>2. CASE i > 1
      <3>1. i - 1 \in 1..Len(commands') /\ commands'[i - 1] = commands[i]
        BY <1>2, <1>5, <2>2
      <3>2. \A k \in 1..n - 1 : k > i - 1 => commands'[k].what # "streaming"
        <4> SUFFICES ASSUME NEW k \in 1..n - 1, k > i - 1 PROVE commands'[k].what # "streaming"
          OBVIOUS
        <4>1. k + 1 \in 1..n /\ k + 1 > i
          BY <1>2
        <4> QED
          BY <4>1, <1>2, <1>7 DEF Switching
      <3>3. LastQueued'
        <4>1. commands'[i - 1].what = "streaming" /\ commands'[i - 1].value = last'
          BY <3>1, <1>1, <1>7 DEF Switching
        <4> QED
          BY <3>1, <3>2, <4>1, <1>2 DEF LastQueued, Switching
      <3> QED
        BY <3>3
    <2> QED
      BY <2>1, <2>2, <1>2
  <1>8. ASSUME NoneQueued, Settled PROVE NoneQueued' /\ Settled'
    <2>1. 1 \in 1..n
      BY <1>2
    <2>2. commands[1].what # "streaming"
      BY <1>8, <2>1 DEF NoneQueued, Switching
    <2>3. NoneQueued'
      <3>1. ASSUME NEW k \in 1..n - 1 PROVE ~Switching(k)'
        BY <1>2, <1>4, <1>8 DEF Switching, NoneQueued
      <3> QED
        BY <1>2, <3>1 DEF NoneQueued, Switching
    <2>4. ~UnderWay /\ ~UnderWay'
      BY <1>1, <1>3, <2>2 DEF UnderWay, Writing
    <2> QED
      BY <1>1, <1>6, <1>8, <2>3, <2>4 DEF Settled
  <1> QED
    BY <1>1, <1>7, <1>8 DEF LastInv, LastQueued

\* Whose job a streaming command is.
LEMMA StreamingWriter ==
  ASSUME TypeInv, NEW w \in Writers, Writing(w)
  PROVE  JobFits(w) /\ (job[w].what = "streaming" => w = "control")
  BY DEF TypeInv, WriterInv, Writers

LEMMA LastSet == ASSUME TypeInv, LastInv, NEW w \in Writers, SetEntry(w) PROVE LastInv'
  <1> DEFINE C == "control"
  <1>1. /\ UNCHANGED <<ram, main, job, commands, last, failed>>
        /\ wpc[w] = "set" /\ nvs' = [nvs EXCEPT ![ListOf(w)[at[w]]] = job[w].value]
        /\ wpc' = wpc \/ wpc' = [wpc EXCEPT ![w] = "commit"]
        /\ wpc' = wpc => at[w] < Len(ListOf(w))
    BY DEF SetEntry, mainVars, historyVars, TypeInv, DataOK
  <1>2. JobFits(w) /\ (job[w].what = "streaming" => w = C)
    BY <1>1, StreamingWriter DEF Writing
  <1>3. nvs \in [Entries -> Setups \cup Targets \cup Switch \cup {Absent}]
        /\ wpc \in [Writers -> {"idle", "set", "commit", "apply", "health", "show", "restart"}]
    BY DEF TypeInv, DataOK
  <1>4. UnderWay' = UnderWay
    BY <1>1, <1>3 DEF UnderWay, Writing, Writers
  <1>5. CASE job[w].what = "streaming"
    <2>1. ListOf(w)[at[w]] = "streaming" /\ w = C
      BY <1>2, <1>5, StreamingList DEF JobFits
    <2>2. nvs'["streaming"] = job[C].value /\ UnderWay
      BY <1>1, <1>3, <1>5, <2>1 DEF Entries, UnderWay, Writing
    <2>3. Settled => Settled'
      BY <1>1, <1>4, <2>2 DEF Settled
    <2> QED
      BY <1>1, <2>3, LastStutter
  <1>6. CASE job[w].what # "streaming"
    <2>1. ListOf(w)[at[w]] # "streaming"
      BY <1>2, <1>6, WriteFits
    <2>2. nvs'["streaming"] = nvs["streaming"]
      BY <1>1, <1>3, <2>1 DEF Entries
    <2>3. Loaded(nvs)'["streaming"] = Loaded(nvs)["streaming"]
      BY <2>2, LoadedStreaming
    <2>4. UnderWay => w # C
      BY <1>6 DEF UnderWay
    <2>5. w # C => wpc'[C] = wpc[C]
      BY <1>1, <1>3 DEF Writers
    <2>6. Settled => Settled'
      BY <1>1, <1>4, <2>2, <2>3, <2>4, <2>5 DEF Settled
    <2> QED
      BY <1>1, <2>6, LastStutter
  <1> QED
    BY <1>5, <1>6

LEMMA LastCopy == ASSUME TypeInv, LastInv, NEW w \in Writers, CopyToRam(w) PROVE LastInv'
  <1> DEFINE C == "control"
  <1>1. /\ UNCHANGED <<nvs, main, job, commands, last, failed>>
        /\ wpc[w] = "commit" /\ wpc' = [wpc EXCEPT ![w] = "apply"]
        /\ ram' = [e \in Entries |-> IF e \in EntriesOf(w) THEN job[w].value ELSE ram[e]]
    BY DEF CopyToRam, Copy, mainVars, historyVars
  <1>2. JobFits(w) /\ (job[w].what = "streaming" => w = C)
    BY <1>1, StreamingWriter DEF Writing
  <1>3. wpc \in [Writers -> {"idle", "set", "commit", "apply", "health", "show", "restart"}]
    BY DEF TypeInv, DataOK
  <1>4. Loaded(nvs)'["streaming"] = Loaded(nvs)["streaming"]
    BY <1>1, LoadedStreaming
  <1>5. CASE job[w].what = "streaming"
    <2>1. EntriesOf(w) = {"streaming"} /\ w = C /\ job[w].value # Absent
      BY <1>2, <1>5, StreamingList, ConstantsAssumption DEF JobFits, Switch
    <2>2. ram'["streaming"] = job[C].value
      BY <1>1, <2>1 DEF Entries
    <2>3. UnderWay /\ wpc[C] = "commit" /\ ~UnderWay'
      BY <1>1, <1>3, <1>5, <2>1 DEF UnderWay, Writing
    <2>4. Settled => job[C].value = last /\ nvs["streaming"] = last
      BY <2>3 DEF Settled
    <2>5. Settled => Loaded(nvs)["streaming"] = last
      BY <2>1, <2>4 DEF Loaded, Entries
    <2>6. Settled => Settled'
      BY <1>1, <1>4, <2>2, <2>3, <2>4, <2>5 DEF Settled
    <2> QED
      BY <1>1, <2>6, LastStutter
  <1>6. CASE job[w].what # "streaming"
    <2>1. "streaming" \notin EntriesOf(w)
      BY <1>2, <1>6, WriteFits
    <2>2. ram'["streaming"] = ram["streaming"]
      BY <1>1, <2>1 DEF Entries
    <2>3. w # C => wpc'[C] = wpc[C]
      BY <1>1, <1>3 DEF Writers
    <2>4. UnderWay' = UnderWay
      BY <1>1, <1>3, <1>6, <2>3 DEF UnderWay, Writing
    <2>5. UnderWay => wpc'[C] = wpc[C]
      BY <1>6, <2>3 DEF UnderWay
    <2>6. Settled => Settled'
      BY <1>1, <1>4, <2>2, <2>4, <2>5 DEF Settled
    <2> QED
      BY <1>1, <2>6, LastStutter
  <1> QED
    BY <1>5, <1>6

\* What leaves the configuration, the queue and the commit under way alone.
LEMMA LastOther ==
  ASSUME TypeInv, FlagsOK, LastInv,
         \/ ApplyStreaming \/ ApplyHealth \/ ShowStreaming \/ ApplyTarget \/ ApplyRestart
         \/ ApplySetup
         \/ \E v \in Setups : Save(v)
         \/ Telemetry \/ OnConnected \/ UNCHANGED vars
  PROVE  LastInv'
  <1> DEFINE C == "control"
  <1>1. UNCHANGED <<nvs, ram, main, commands, last, failed>>
    BY DEF ApplyStreaming, ApplyHealth, ShowStreaming, ApplyTarget, ApplyRestart, ApplySetup, Save,
       Telemetry, TelemetryReads, TelemetryStores, TelemetryShows, TelemetryIsLost, TelemetryEnds,
       OnConnected, vars, mainVars, historyVars
  <1>2. \/ ~Writing(C) /\ wpc'[C] \in {"health", "show", "restart", "idle"}
        \/ wpc'[C] = wpc[C] /\ job'[C] = job[C]
    <2>1. CASE ApplyStreaming \/ ApplyHealth \/ ShowStreaming \/ ApplyTarget \/ ApplyRestart
      BY <2>1 DEF ApplyStreaming, ApplyHealth, ShowStreaming, ApplyTarget, ApplyRestart, Applies,
         Finish, TypeInv, DataOK, Writers, Writing
    <2>2. CASE ApplySetup \/ \E v \in Setups : Save(v)
      BY <2>2 DEF ApplySetup, Save, Finish, TypeInv, DataOK, Writers
    <2>3. CASE Telemetry \/ OnConnected \/ UNCHANGED vars
      BY <2>3 DEF Telemetry, TelemetryReads, TelemetryStores, TelemetryShows, TelemetryIsLost,
         TelemetryEnds, OnConnected, vars, writerVars
    <2> QED
      BY <2>1, <2>2, <2>3
  <1>3. UnderWay' = UnderWay
    BY <1>2 DEF UnderWay, Writing
  <1>4. UnderWay => wpc'[C] = wpc[C] /\ job'[C] = job[C]
    BY <1>2 DEF UnderWay
  <1>5. Settled => Settled'
    BY <1>1, <1>3, <1>4, SettledStutter
  <1> QED
    BY <1>1, <1>5, LastStutter

LEMMA NextLast == TypeInv /\ FlagsOK /\ LastInv /\ [Next]_vars => LastInv'
  <1> SUFFICES ASSUME TypeInv, FlagsOK, LastInv, [Next]_vars PROVE LastInv'
    OBVIOUS
  <1>1. CASE AppMain
    BY <1>1, LastMain
  <1>2. CASE Restart \/ PowerFails
    BY <1>2 DEF Restart, PowerFails, Reset, LastInv
  <1>3. CASE \E c \in Commands : Receive(c)
    BY <1>3, LastReceive
  <1>4. CASE Take
    BY <1>4, LastTake
  <1>5. ASSUME NEW w \in Writers, Commit(w) PROVE LastInv'
    <2>1. CASE SetFails(w)
      BY <2>1 DEF SetFails, LastInv
    <2> QED
      BY <2>1, <1>5, LastSet, LastCopy DEF Commit
  <1>6. CASE \/ ApplyStreaming \/ ApplyHealth \/ ShowStreaming \/ ApplyTarget \/ ApplyRestart
             \/ ApplySetup
             \/ \E v \in Setups : Save(v)
             \/ Telemetry \/ OnConnected \/ UNCHANGED vars
    BY <1>6, LastOther
  <1> QED
    BY <1>1, <1>2, <1>3, <1>4, <1>5, <1>6 DEF Next, ControlTask, Writers

\* The last streaming command that the queue took wins, in RAM and in NVS, however
\* many were queued, and whatever else was committed in between.
THEOREM LastWins == Spec => []LastCommandWins
  <1>1. Init => TypeInv /\ FlagsOK /\ LastInv
    BY InitType, InitFlags DEF Init, LastInv
  <1>2. TypeInv /\ FlagsOK /\ LastInv /\ [Next]_vars => (TypeInv /\ FlagsOK /\ LastInv)'
    BY NextType, NextFlags, NextLast
  <1>3. TypeInv /\ LastInv => LastCommandWins
    <2> SUFFICES ASSUME TypeInv, LastInv, wpc["control"] = "idle", commands = <<>>,
                        main # "load", ~failed
                 PROVE  ram["streaming"] = last /\ Loaded(nvs)["streaming"] = last
      BY DEF LastCommandWins
    <2>1. Len(commands) = 0
      OBVIOUS
    <2>2. ~LastQueued
      BY <2>1 DEF LastQueued
    <2>3. ~UnderWay
      BY DEF UnderWay, Writing
    <2> QED
      BY <2>2, <2>3 DEF LastInv, Settled
  <1> QED
    BY <1>1, <1>2, <1>3, PTL DEF Spec

-----------------------------------------------------------------------------
(* The flag of the audio task.                                               *)

\* A committed streaming command is not applied yet.
Applying == wpc["control"] = "apply" /\ job["control"].what = "streaming"

\* What audio_capture_init has in hand, and what it has left, are up to date.
FlagInv ==
    ~early /\ ~Applying =>
        /\ main = "store" => startValue = ram["streaming"]
        /\ main = "up" => flag = ram["streaming"]

LEMMA FlagStutter ==
  ASSUME FlagInv, UNCHANGED <<main, startValue, flag, early>>,
         ram'["streaming"] = ram["streaming"],
         Applying' = Applying
  PROVE  FlagInv'
  BY DEF FlagInv

LEMMA FlagMain == ASSUME TypeInv, FlagInv, AppMain PROVE FlagInv'
  <1>1. UNCHANGED <<job, wpc, early>>
    BY DEF AppMain, LoadConfig, Load, ForceSetup, StartSetup, SetupFails, StartStation,
           StartControl, ReadStreaming, StoreStreaming, Store, writerVars, historyVars
  <1>2. Applying' = Applying
    BY <1>1 DEF Applying
  <1>3. CASE LoadConfig \/ ForceSetup \/ StartSetup \/ SetupFails \/ StartStation \/ StartControl
    <2>1. main' \notin {"store", "up"}
      BY <1>3 DEF LoadConfig, Load, ForceSetup, StartSetup, SetupFails, StartStation, StartControl
    <2> QED
      BY <2>1 DEF FlagInv
  <1>4. CASE ReadStreaming
    BY <1>1, <1>4 DEF FlagInv, ReadStreaming
  <1>5. CASE StoreStreaming
    BY <1>1, <1>2, <1>5 DEF FlagInv, StoreStreaming, Store
  <1> QED
    BY <1>3, <1>4, <1>5 DEF AppMain

LEMMA FlagCommit == ASSUME TypeInv, FlagInv, NEW w \in Writers, Commit(w) PROVE FlagInv'
  <1> DEFINE C == "control"
  <1>1. UNCHANGED <<main, startValue, flag, early>>
    BY DEF Commit, SetEntry, SetFails, CopyToRam, Copy, mainVars, historyVars
  <1>2. /\ wpc \in [Writers -> {"idle", "set", "commit", "apply", "health", "show", "restart"}]
        /\ job \in [Writers -> Jobs \cup {NoJob}] /\ C \in Writers
    BY DEF TypeInv, DataOK, Writers
  <1>3. CASE SetEntry(w) \/ SetFails(w)
    <2>1. ram' = ram /\ wpc[w] \in {"set", "commit"} /\ wpc'[w] \in {"set", "commit", "idle"}
          /\ (w # C => wpc'[C] = wpc[C] /\ job'[C] = job[C])
      <3>1. CASE SetEntry(w)
        BY <1>2, <3>1 DEF SetEntry
      <3>2. CASE SetFails(w)
        BY <1>2, <3>2 DEF SetFails, Finish
      <3> QED
        BY <1>3, <3>1, <3>2
    <2>2. Applying' = Applying
      BY <2>1 DEF Applying
    <2> QED
      BY <1>1, <2>1, <2>2, FlagStutter
  <1>4. CASE CopyToRam(w)
    <2>1. /\ job' = job /\ wpc[w] = "commit" /\ wpc' = [wpc EXCEPT ![w] = "apply"]
          /\ ram' = [e \in Entries |-> IF e \in EntriesOf(w) THEN job[w].value ELSE ram[e]]
      BY <1>4 DEF CopyToRam, Copy
    <2>2. JobFits(w) /\ (job[w].what = "streaming" => w = C)
      BY <2>1, StreamingWriter DEF Writing
    <2>3. CASE job[w].what = "streaming"
      BY <1>2, <2>1, <2>2, <2>3 DEF FlagInv, Applying
    <2>4. CASE job[w].what # "streaming"
      <3>1. "streaming" \notin EntriesOf(w)
        BY <2>2, <2>4, WriteFits
      <3>2. ram'["streaming"] = ram["streaming"]
        BY <2>1, <3>1 DEF Entries
      <3>3. Applying' = Applying
        BY <1>2, <2>1, <2>4 DEF Applying
      <3> QED
        BY <1>1, <3>2, <3>3, FlagStutter
    <2> QED
      BY <2>3, <2>4
  <1> QED
    BY <1>3, <1>4 DEF Commit

LEMMA FlagOther ==
  ASSUME TypeInv, FlagsOK, FlagInv,
         \/ Take \/ ApplyHealth \/ ShowStreaming \/ ApplyTarget \/ ApplyRestart
         \/ ApplySetup
         \/ \E v \in Setups : Save(v)
         \/ \E c \in Commands : Receive(c)
         \/ Telemetry \/ OnConnected \/ UNCHANGED vars
  PROVE  FlagInv'
  <1> DEFINE C == "control"
  <1>1. UNCHANGED <<ram, main, startValue, flag, early>>
    BY DEF Take, ApplyHealth, ShowStreaming, ApplyTarget, ApplyRestart, ApplySetup, Save,
       Receive, Enqueue, Telemetry, TelemetryReads, TelemetryStores, TelemetryShows,
       TelemetryIsLost, TelemetryEnds, OnConnected, vars, mainVars, historyVars
  <1>2. Applying' = Applying
    <2>1. CASE Take
      <3>1. wpc[C] = "idle" /\ job'[C] = Head(commands)
            /\ wpc'[C] = (IF Head(commands).what = "restart" THEN "apply" ELSE "set")
        BY <2>1 DEF Take, TypeInv, DataOK, Writers
      <3> QED
        BY <3>1 DEF Applying
    <2>2. CASE ApplyHealth \/ ShowStreaming \/ ApplyTarget \/ ApplyRestart
      <3>1. ~Applying /\ wpc'[C] # "apply"
        BY <2>2 DEF ApplyHealth, ShowStreaming, ApplyTarget, ApplyRestart, Applies, Applying,
           Finish, TypeInv, DataOK, Writers
      <3> QED
        BY <3>1 DEF Applying
    <2>3. CASE ApplySetup \/ \E v \in Setups : Save(v)
      <3>1. wpc'[C] = wpc[C] /\ job'[C] = job[C]
        BY <2>3 DEF ApplySetup, Save, Finish, TypeInv, DataOK, Writers
      <3> QED
        BY <3>1 DEF Applying
    <2>4. CASE (\E c \in Commands : Receive(c)) \/ Telemetry \/ OnConnected \/ UNCHANGED vars
      <3>1. UNCHANGED <<wpc, job>>
        BY <2>4 DEF Receive, Enqueue, Telemetry, TelemetryReads, TelemetryStores, TelemetryShows,
           TelemetryIsLost, TelemetryEnds, OnConnected, vars, writerVars
      <3> QED
        BY <3>1 DEF Applying
    <2> QED
      BY <2>1, <2>2, <2>3, <2>4
  <1> QED
    BY <1>1, <1>2, FlagStutter

LEMMA NextFlag == TypeInv /\ FlagsOK /\ FlagInv /\ [Next]_vars => FlagInv'
  <1> SUFFICES ASSUME TypeInv, FlagsOK, FlagInv, [Next]_vars PROVE FlagInv'
    OBVIOUS
  <1>1. CASE AppMain
    BY <1>1, FlagMain
  <1>2. CASE Restart \/ PowerFails
    BY <1>2 DEF Restart, PowerFails, Reset, FlagInv
  <1>3. ASSUME NEW w \in Writers, Commit(w) PROVE FlagInv'
    BY <1>3, FlagCommit
  <1>4. CASE ApplyStreaming
    <2>1. UNCHANGED <<ram, main>> /\ flag' = ram["streaming"] /\ (early' <=> main = "store")
      BY <1>4 DEF ApplyStreaming, mainVars
    <2> QED
      BY <2>1 DEF FlagInv
  <1>5. CASE \/ Take \/ ApplyHealth \/ ShowStreaming \/ ApplyTarget \/ ApplyRestart
             \/ ApplySetup
             \/ \E v \in Setups : Save(v)
             \/ \E c \in Commands : Receive(c)
             \/ Telemetry \/ OnConnected \/ UNCHANGED vars
    BY <1>5, FlagOther
  <1> QED
    BY <1>1, <1>2, <1>3, <1>4, <1>5 DEF Next, ControlTask, Writers

\* Audio is captured as configured, unless a command was applied between the two
\* accesses of audio_capture_init.
THEOREM FlagFollows == Spec => []StreamingFollows
  <1>1. Init => TypeInv /\ FlagsOK /\ FlagInv
    BY InitType, InitFlags DEF Init, FlagInv
  <1>2. TypeInv /\ FlagsOK /\ FlagInv /\ [Next]_vars => (TypeInv /\ FlagsOK /\ FlagInv)'
    BY NextType, NextFlags, NextFlag
  <1>3. FlagInv => StreamingFollows
    BY DEF FlagInv, StreamingFollows, Applying
  <1> QED
    BY <1>1, <1>2, <1>3, PTL DEF Spec

-----------------------------------------------------------------------------
(* What was set up once is not lost. This needs no exception for commits that *)
(* fail or writers that come between each other, as RAM and NVS agreeing does. *)

\* How many entries of its list a writer has in NVS.
SoFar(w) ==
    IF wpc[w] = "commit" THEN Len(ListOf(w)) ELSE IF wpc[w] = "set" THEN at[w] - 1 ELSE 0

\* A field that the node runs with is in NVS.
RamIsBacked == \A e \in Fields : ram[e] # Absent => nvs[e] # Absent

BackedInv ==
    /\ RamIsBacked
    /\ \A w \in Writers : \A i \in 1..SoFar(w) : nvs[ListOf(w)[i]] # Absent
    /\ main = "decide" => ~portal /\ ram = Loaded(nvs)

FlashKeeps == \A e \in Entries : nvs[e] # Absent => nvs'[e] # Absent

LEMMA Listed ==
  ASSUME NEW w \in Writers, JobFits(w)
  PROVE  /\ \A i \in 1..Len(ListOf(w)) : ListOf(w)[i] \in Entries
         /\ \A e \in EntriesOf(w) : \E i \in 1..Len(ListOf(w)) : ListOf(w)[i] = e
  <1>1. CASE job[w].what = "streaming"
    <2>1. Len(ListOf(w)) = 1 /\ ListOf(w)[1] = "streaming" /\ EntriesOf(w) = {"streaming"}
      BY <1>1, StreamingList
    <2>2. \A i \in 1..1 : i = 1
      OBVIOUS
    <2> QED
      BY <2>1, <2>2 DEF Entries
  <1>2. CASE job[w].what = "target"
    <2>1. /\ Len(ListOf(w)) = 2 /\ ListOf(w)[1] = "host" /\ ListOf(w)[2] = "port"
          /\ EntriesOf(w) = {"host", "port"}
      BY <1>2, TargetList
    <2>2. \A i \in 1..2 : i = 1 \/ i = 2
      OBVIOUS
    <2> QED
      BY <2>1, <2>2 DEF Entries, Fields, Required
  <1>3. CASE job[w].what = "setup"
    <2>1. Len(ListOf(w)) = 5 /\ \A i \in 1..5 : ListOf(w)[i] \in Fields
      BY <1>3, SetupList
    <2>2. ListOf(w) = <<"wifi", "mqtt", "host", "port", "node">>
      BY <1>3 DEF ListOf, Written
    <2>3. DOMAIN ListOf(w) = 1..5
      BY <2>2
    <2> QED
      BY <2>1, <2>3 DEF Entries, EntriesOf
  <1> QED
    BY <1>1, <1>2, <1>3 DEF JobFits

LEMMA SetKeeps ==
  ASSUME TypeInv, NEW w \in Writers, SetEntry(w)
  PROVE  /\ wpc[w] = "set" /\ job' = job /\ JobFits(w) /\ job[w].value # Absent
         /\ ListOf(w)[at[w]] \in Entries /\ Len(ListOf(w)) \in Nat /\ at[w] \in 1..Len(ListOf(w))
         /\ nvs'[ListOf(w)[at[w]]] # Absent
         /\ FlashKeeps
  <1>1. wpc[w] = "set" /\ job' = job /\ JobFits(w)
    BY DEF SetEntry, TypeInv, WriterInv, Writing
  <1>2. job[w].value # Absent
    BY <1>1, ConstantsAssumption DEF JobFits, Switch
  <1>3. /\ ListOf(w)[at[w]] \in Entries /\ Len(ListOf(w)) \in {1, 2, 5}
        /\ at[w] \in 1..Len(ListOf(w))
    BY <1>1, WriteFits
  <1>4. nvs' = [nvs EXCEPT ![ListOf(w)[at[w]]] = job[w].value]
    BY DEF SetEntry
  <1>5. nvs \in [Entries -> Setups \cup Targets \cup Switch \cup {Absent}]
    BY DEF TypeInv, DataOK
  <1>6. Len(ListOf(w)) \in Nat
    BY <1>3
  <1>7. nvs'[ListOf(w)[at[w]]] # Absent /\ FlashKeeps
    BY <1>2, <1>3, <1>4, <1>5 DEF FlashKeeps
  <1> QED
    BY <1>1, <1>2, <1>3, <1>6, <1>7

\* Only a commit writes to NVS, and it writes what is not absent.
LEMMA NextKeeps == ASSUME TypeInv, [Next]_vars PROVE FlashKeeps
  <1>1. CASE \E w \in Writers : SetEntry(w)
    BY <1>1, SetKeeps
  <1>2. CASE ~\E w \in Writers : SetEntry(w)
    <2>1. ~SetEntry("control") /\ ~SetEntry("portal")
      BY <1>2 DEF Writers
    <2>2. CASE AppMain
      BY <2>2 DEF FlashKeeps, AppMain, LoadConfig, Load, ForceSetup, StartSetup, SetupFails,
         StartStation, StartControl, ReadStreaming, StoreStreaming, Store
    <2>3. CASE Restart \/ PowerFails
      BY <2>3 DEF FlashKeeps, Restart, PowerFails, Reset
    <2>4. CASE ControlTask
      BY <2>1, <2>4 DEF FlashKeeps, ControlTask, Commit, Take, SetFails, CopyToRam, Copy,
         ApplyStreaming, ApplyHealth, ShowStreaming, ApplyTarget, ApplyRestart
    <2>5. CASE Commit("portal") \/ ApplySetup \/ \E v \in Setups : Save(v)
      BY <2>1, <2>5 DEF FlashKeeps, Commit, SetFails, CopyToRam, Copy, ApplySetup, Save
    <2>6. CASE (\E c \in Commands : Receive(c)) \/ Telemetry \/ OnConnected \/ UNCHANGED vars
      BY <2>6 DEF FlashKeeps, Receive, Enqueue, Telemetry, TelemetryReads, TelemetryStores,
         TelemetryShows, TelemetryIsLost, TelemetryEnds, OnConnected, vars
    <2> QED
      BY <2>2, <2>3, <2>4, <2>5, <2>6 DEF Next
  <1> QED
    BY <1>1, <1>2

\* A step in which no writer gets on with its list.
LEMMA BackedStutter ==
  ASSUME TypeInv, BackedInv, FlashKeeps, ram' = ram,
         main' = "decide" => main = "decide" /\ nvs' = nvs /\ portal' = portal,
         \A w \in Writers : \/ wpc'[w] \notin {"set", "commit"}
                            \/ wpc'[w] = "set" /\ at'[w] = 1
                            \/ wpc'[w] = wpc[w] /\ at'[w] = at[w] /\ job'[w] = job[w]
  PROVE  BackedInv'
  <1>1. RamIsBacked'
    BY DEF BackedInv, RamIsBacked, FlashKeeps, Entries
  <1>2. main' = "decide" => ~portal' /\ ram' = Loaded(nvs)'
    BY DEF BackedInv, Loaded
  <1>3. ASSUME NEW w \in Writers, NEW i \in 1..SoFar(w)' PROVE nvs'[ListOf(w)'[i]] # Absent
    <2>1. CASE wpc'[w] \notin {"set", "commit"} \/ (wpc'[w] = "set" /\ at'[w] = 1)
      BY <1>3, <2>1 DEF SoFar
    <2>2. CASE wpc'[w] = wpc[w] /\ at'[w] = at[w] /\ job'[w] = job[w] /\ Writing(w)
      <3>1. ListOf(w)' = ListOf(w)
        BY <2>2 DEF ListOf
      <3>2. SoFar(w)' = SoFar(w)
        BY <2>2, <3>1 DEF SoFar
      <3>3. nvs[ListOf(w)[i]] # Absent
        BY <1>3, <3>2 DEF BackedInv
      <3>4. ListOf(w)[i] \in Entries
        <4>1. JobFits(w) /\ at[w] \in 1..5
          BY <2>2 DEF TypeInv, WriterInv, DataOK
        <4>2. i \in 1..Len(ListOf(w))
          <5>1. Len(ListOf(w)) \in {1, 2, 5} /\ at[w] \in 1..Len(ListOf(w))
            BY <4>1, WriteFits
          <5> QED
            BY <1>3, <2>2, <3>2, <5>1 DEF SoFar, Writing
        <4> QED
          BY <4>1, <4>2, Listed
      <3> QED
        BY <3>1, <3>3, <3>4 DEF FlashKeeps
    <2> QED
      BY <2>1, <2>2 DEF Writing
  <1> QED
    BY <1>1, <1>2, <1>3 DEF BackedInv

LEMMA BackedSet ==
  ASSUME TypeInv, BackedInv, NEW w \in Writers, SetEntry(w)
  PROVE  BackedInv'
  <1>1. /\ wpc[w] = "set" /\ job' = job /\ JobFits(w)
        /\ ListOf(w)[at[w]] \in Entries /\ Len(ListOf(w)) \in Nat /\ at[w] \in 1..Len(ListOf(w))
        /\ nvs'[ListOf(w)[at[w]]] # Absent
        /\ FlashKeeps
    BY SetKeeps
  <1>2. ram' = ram /\ main' = main
    BY DEF SetEntry, mainVars
  <1>3. main # "decide"
    BY <1>1 DEF BackedInv, TypeInv, StartInv, Connected, Writers
  <1>4. RamIsBacked'
    BY <1>1, <1>2 DEF BackedInv, RamIsBacked, FlashKeeps, Entries
  <1>5. \A u \in Writers : ListOf(u)' = ListOf(u)
    BY <1>1 DEF ListOf
  <1>6. SoFar(w)' = at[w] /\ SoFar(w) = at[w] - 1
    <2>1. wpc \in [Writers -> {"idle", "set", "commit", "apply", "health", "show", "restart"}]
          /\ at \in [Writers -> 1..5]
      BY DEF TypeInv, DataOK
    <2>2. CASE at[w] < Len(ListOf(w))
      <3>1. wpc'[w] = "set" /\ at'[w] = at[w] + 1
        BY <1>1, <2>1, <2>2 DEF SetEntry
      <3>2. (at[w] + 1) - 1 = at[w]
        BY <2>1
      <3> QED
        BY <1>1, <3>1, <3>2 DEF SoFar
    <2>3. CASE ~(at[w] < Len(ListOf(w)))
      <3>1. wpc'[w] = "commit"
        <4>1. wpc' = [wpc EXCEPT ![w] = "commit"]
          BY <2>3 DEF SetEntry
        <4> QED
          BY <2>1, <4>1
      <3>2. at[w] = Len(ListOf(w))
        BY <1>1, <2>3
      <3> QED
        BY <1>1, <1>5, <3>1, <3>2 DEF SoFar
    <2> QED
      BY <2>2, <2>3
  <1>7. ASSUME NEW i \in 1..SoFar(w)' PROVE nvs'[ListOf(w)'[i]] # Absent
    <2>1. i \in 1..at[w] /\ (i = at[w] \/ i \in 1..(at[w] - 1)) /\ i \in 1..Len(ListOf(w))
      BY <1>1, <1>6
    <2>2. CASE i = at[w]
      BY <1>1, <1>5, <2>2
    <2>3. CASE i \in 1..(at[w] - 1)
      <3>1. nvs[ListOf(w)[i]] # Absent
        BY <1>6, <2>3 DEF BackedInv
      <3>2. ListOf(w)[i] \in Entries
        BY <1>1, <2>1, Listed
      <3> QED
        BY <1>1, <1>5, <3>1, <3>2 DEF FlashKeeps
    <2> QED
      BY <2>1, <2>2, <2>3
  <1>8. ASSUME NEW u \in Writers, u # w, NEW i \in 1..SoFar(u)' PROVE nvs'[ListOf(u)'[i]] # Absent
    <2>1. wpc'[u] = wpc[u] /\ at'[u] = at[u]
      BY <1>8 DEF SetEntry, TypeInv, DataOK
    <2>2. SoFar(u)' = SoFar(u)
      BY <1>5, <2>1 DEF SoFar
    <2>3. nvs[ListOf(u)[i]] # Absent
      BY <1>8, <2>2 DEF BackedInv
    <2>4. Writing(u)
      BY <1>8, <2>1, <2>2 DEF SoFar, Writing
    <2>5. JobFits(u) /\ at[u] \in 1..5
      BY <2>4 DEF TypeInv, WriterInv, DataOK
    <2>6. Len(ListOf(u)) \in {1, 2, 5} /\ at[u] \in 1..Len(ListOf(u))
      BY <2>5, WriteFits
    <2>7. i \in 1..Len(ListOf(u))
      BY <1>8, <2>2, <2>4, <2>6 DEF SoFar, Writing
    <2>8. ListOf(u)[i] \in Entries
      BY <2>5, <2>7, Listed
    <2> QED
      BY <1>1, <1>5, <2>3, <2>8 DEF FlashKeeps
  <1> QED
    BY <1>2, <1>3, <1>4, <1>7, <1>8 DEF BackedInv

LEMMA BackedCopy ==
  ASSUME TypeInv, BackedInv, NEW w \in Writers, CopyToRam(w)
  PROVE  BackedInv'
  <1>1. wpc[w] = "commit" /\ JobFits(w) /\ job' = job /\ at' = at /\ nvs' = nvs /\ main' = main
        /\ ram' = [e \in Entries |-> IF e \in EntriesOf(w) THEN job[w].value ELSE ram[e]]
    BY DEF CopyToRam, Copy, TypeInv, WriterInv, Writing, mainVars
  <1>2. main # "decide"
    BY <1>1 DEF BackedInv, TypeInv, StartInv, Connected, Writers
  <1>3. ASSUME NEW e \in Fields, ram'[e] # Absent PROVE nvs'[e] # Absent
    <2>1. CASE e \in EntriesOf(w)
      <3>1. PICK i \in 1..Len(ListOf(w)) : ListOf(w)[i] = e
        BY <1>1, <2>1, Listed
      <3>2. SoFar(w) = Len(ListOf(w))
        BY <1>1 DEF SoFar
      <3> QED
        BY <1>1, <3>1, <3>2 DEF BackedInv
    <2>2. CASE e \notin EntriesOf(w)
      BY <1>1, <1>3, <2>2 DEF BackedInv, RamIsBacked, Entries
    <2> QED
      BY <2>1, <2>2
  <1>4. ASSUME NEW u \in Writers, NEW i \in 1..SoFar(u)' PROVE nvs'[ListOf(u)'[i]] # Absent
    <2>1. ListOf(u)' = ListOf(u)
      BY <1>1 DEF ListOf
    <2>2. wpc' = [wpc EXCEPT ![w] = "apply"]
      BY DEF CopyToRam, Copy
    <2>3. CASE u = w
      <3>1. wpc'[u] = "apply"
        BY <2>2, <2>3 DEF TypeInv, DataOK
      <3>2. 1..SoFar(u)' = {}
        BY <3>1 DEF SoFar
      <3> QED
        BY <1>4, <3>2
    <2>4. CASE u # w
      <3>1. wpc'[u] = wpc[u]
        BY <2>2, <2>4 DEF TypeInv, DataOK
      <3>2. SoFar(u)' = SoFar(u)
        BY <1>1, <2>1, <3>1 DEF SoFar
      <3> QED
        BY <1>1, <1>4, <2>1, <3>2 DEF BackedInv
    <2> QED
      BY <2>3, <2>4
  <1> QED
    BY <1>1, <1>2, <1>3, <1>4 DEF BackedInv, RamIsBacked

\* A boot reads what is there.
LEMMA BackedMain == ASSUME TypeInv, BackedInv, AppMain PROVE BackedInv'
  <1>1. UNCHANGED <<nvs, job, wpc, at>>
    BY DEF AppMain, LoadConfig, Load, ForceSetup, StartSetup, SetupFails, StartStation,
           StartControl, ReadStreaming, StoreStreaming, Store, writerVars
  <1>2. FlashKeeps
    BY <1>1 DEF FlashKeeps
  <1>3. CASE LoadConfig
    <2>1. ram' = Loaded(nvs) /\ main = "load" /\ portal' = portal
      BY <1>3 DEF LoadConfig, Load
    <2>2. ~portal
      BY <2>1 DEF TypeInv, StartInv
    <2>3. RamIsBacked'
      BY <1>1, <2>1 DEF RamIsBacked, Loaded, Defaults, Entries, Fields, Required
    <2>4. ASSUME NEW w \in Writers, NEW i \in 1..SoFar(w)' PROVE nvs'[ListOf(w)'[i]] # Absent
      <3>1. ListOf(w)' = ListOf(w)
        BY <1>1 DEF ListOf
      <3>2. SoFar(w)' = SoFar(w)
        BY <1>1, <3>1 DEF SoFar
      <3> QED
        BY <1>1, <2>4, <3>1, <3>2 DEF BackedInv
    <2>5. Loaded(nvs)' = Loaded(nvs)
      BY <1>1 DEF Loaded
    <2> QED
      BY <2>1, <2>2, <2>3, <2>4, <2>5 DEF BackedInv
  <1>4. CASE ~LoadConfig
    <2>1. ram' = ram /\ main' # "decide"
      BY <1>4 DEF AppMain, ForceSetup, StartSetup, SetupFails, StartStation,
         StartControl, ReadStreaming, StoreStreaming, Store
    <2> QED
      BY <1>1, <1>2, <2>1, BackedStutter
  <1> QED
    BY <1>3, <1>4

LEMMA BackedReset == ASSUME TypeInv, Reset PROVE BackedInv'
  <1>1. RamIsBacked'
    BY DEF Reset, RamIsBacked, Defaults, Entries, Fields, Required
  <1>2. \A w \in Writers : wpc'[w] = "idle"
    BY DEF Reset, Idle
  <1>3. \A w \in Writers : 1..SoFar(w)' = {}
    BY <1>2 DEF SoFar
  <1> QED
    BY <1>1, <1>3 DEF BackedInv, Reset

LEMMA NextBacked == TypeInv /\ BackedInv /\ [Next]_vars => BackedInv'
  <1> SUFFICES ASSUME TypeInv, BackedInv, [Next]_vars PROVE BackedInv'
    OBVIOUS
  <1>1. CASE AppMain
    BY <1>1, BackedMain
  <1>2. CASE Restart \/ PowerFails
    BY <1>2, BackedReset DEF Restart, PowerFails
  <1>3. CASE \E w \in Writers : SetEntry(w) \/ CopyToRam(w)
    BY <1>3, BackedSet, BackedCopy
  <1>4. CASE (\E c \in Commands : Receive(c)) \/ Telemetry \/ OnConnected \/ UNCHANGED vars
    <2>1. UNCHANGED <<nvs, ram, main, portal>> /\ UNCHANGED writerVars
      BY <1>4 DEF Receive, Enqueue, Telemetry, TelemetryReads, TelemetryStores, TelemetryShows,
         TelemetryIsLost, TelemetryEnds, OnConnected, vars, mainVars
    <2>2. FlashKeeps
      BY NextKeeps
    <2> QED
      BY <2>1, <2>2, BackedStutter DEF writerVars
  <1>5. CASE Take \/ ApplyStreaming \/ ApplyHealth \/ ShowStreaming \/ ApplyTarget
             \/ ApplyRestart \/ ApplySetup \/ (\E v \in Setups : Save(v))
             \/ \E w \in Writers : SetFails(w)
    <2>1. UNCHANGED <<nvs, ram, main, portal>>
      BY <1>5 DEF Take, ApplyStreaming, ApplyHealth, ShowStreaming, ApplyTarget, ApplyRestart,
         ApplySetup, Save, SetFails, mainVars
    <2>2. FlashKeeps
      BY NextKeeps
    <2>3. \A w \in Writers : \/ wpc'[w] \notin {"set", "commit"}
                             \/ wpc'[w] = "set" /\ at'[w] = 1
                             \/ wpc'[w] = wpc[w] /\ at'[w] = at[w] /\ job'[w] = job[w]
      BY <1>5 DEF Take, ApplyStreaming, ApplyHealth, ShowStreaming, ApplyTarget, ApplyRestart,
         ApplySetup, Save, SetFails, Finish, TypeInv, DataOK, WriterInv, Writers
    <2> QED
      BY <2>1, <2>2, <2>3, BackedStutter
  <1> QED
    BY <1>1, <1>2, <1>3, <1>4, <1>5 DEF Next, ControlTask, Commit, Writers

\* The node asks for a setup, and does not go down at once.
AsksForSetup == main # "setup" /\ main' = "setup" /\ ~restarting'

InFlash == \A e \in Required : nvs[e] # Absent

LEMMA NeverAsks == ASSUME TypeInv, BackedInv, InFlash, [Next]_vars PROVE ~AsksForSetup
  <1> SUFFICES ASSUME AsksForSetup PROVE FALSE
    OBVIOUS
  <1>1. StartSetup
    BY DEF AsksForSetup, Next, vars, mainVars, AppMain, LoadConfig, Load, ForceSetup, SetupFails,
       StartStation, StartControl, ReadStreaming, StoreStreaming, Store, Restart, PowerFails, Reset,
       Receive, Enqueue, ControlTask, Commit, Take, SetEntry, SetFails, CopyToRam, Copy,
       ApplyStreaming, ApplyHealth, ShowStreaming, ApplyTarget, ApplyRestart, ApplySetup, Save,
       Telemetry, TelemetryReads, TelemetryStores, TelemetryShows, TelemetryIsLost, TelemetryEnds,
       OnConnected
  <1>2. PICK e \in Required : ram[e] = Absent
    BY <1>1 DEF StartSetup, Configured
  <1>3. ram = Loaded(nvs)
    BY <1>1 DEF StartSetup, BackedInv
  <1> QED
    BY <1>2, <1>3 DEF InFlash, Loaded, Required, Entries, Fields

LEMMA BackedAlways == Spec => [](TypeInv /\ BackedInv)
  <1>1. Init => TypeInv /\ FlagsOK /\ BackedInv
    <2>1. Init => BackedInv
      <3> SUFFICES ASSUME Init PROVE BackedInv
        OBVIOUS
      <3>1. RamIsBacked
        BY DEF Init, RamIsBacked, Defaults, Entries, Fields, Required
      <3>2. \A w \in Writers : 1..SoFar(w) = {}
        BY DEF Init, Idle, SoFar
      <3> QED
        BY <3>1, <3>2 DEF Init, BackedInv
    <2> QED
      BY <2>1, InitType, InitFlags
  <1> QED
    BY <1>1, NextType, NextFlags, NextBacked, PTL DEF Spec

\* Whatever the node runs with, but for its streaming switch, is in flash: a value that
\* would be gone with the next restart is never in s_config, though forms and commands
\* write the same entries at the same time, and commits fail in the middle
\* (device_config_commit_*, device_config_init).
THEOREM RamIsAlwaysBacked == Spec => []RamIsBacked
  <1>1. BackedInv => RamIsBacked
    BY DEF BackedInv
  <1> QED
    BY <1>1, BackedAlways, PTL

\* Once a node runs with a complete setup, none of its boots asks for one again, whatever
\* fails and whoever writes: the safety part of SavedBoots (app_main,
\* has_required_setup_fields).
THEOREM SetupIsAskedForOnce == Spec => [](Configured => [][~AsksForSetup]_vars)
  <1>1. BackedInv /\ Configured => InFlash
    BY DEF BackedInv, RamIsBacked, Configured, InFlash, Fields
  <1>2. TypeInv /\ InFlash /\ [Next]_vars => InFlash'
    BY NextKeeps DEF InFlash, FlashKeeps, Required, Entries, Fields
  <1>3. TypeInv /\ BackedInv /\ InFlash /\ [Next]_vars => [~AsksForSetup]_vars
    BY NeverAsks
  <1> QED
    BY <1>1, <1>2, <1>3, BackedAlways, PTL DEF Spec
=============================================================================
