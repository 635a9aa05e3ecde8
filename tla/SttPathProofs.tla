---------------------------- MODULE SttPathProofs ----------------------------
(***************************************************************************)
(* Theorems about SttPath, for every value of its constants.               *)
(***************************************************************************)
EXTENDS SttPath, FiniteSetTheorems, TLAPS

USE DEF NoFile, Worker!NoFile, Worker!Answers, Worker!Busy, Service!Verdicts, Statuses

-----------------------------------------------------------------------------
(* Type correctness, of the hub and of the worker apart. *)

PathType == abandoned \subseteq Requests

LEMMA InitType == Init => TypeOK
  <1> SUFFICES ASSUME Init PROVE TypeOK
    OBVIOUS
  <1> USE DEF Init, HubInit, Worker!Init, Service!Init
  <1>1. up \in BOOLEAN
    OBVIOUS
  <1>2. stopped \in BOOLEAN /\ outcome \in [Requests -> {"none"}]
    OBVIOUS
  <1>3. waiting \in Seq(Requests) /\ Len(waiting) = 0
    OBVIOUS
  <1>4. Service!TypeOK
    BY <1>2, <1>3 DEF Service!TypeOK
  <1>5. HubTypeOK
    BY <1>3, <1>4, HubAssumption DEF HubTypeOK
  <1>6. Worker!TypeOK
    BY <1>1, WorkerAssumption DEF Worker!TypeOK
  <1> QED
    BY <1>5, <1>6 DEF TypeOK

\* The main thread.
LEMMA MainType == ASSUME HubTypeOK, Main PROVE HubTypeOK'
  <1> USE DEF HubTypeOK, requestVars, serviceVars
  <1>1. ASSUME NEW from, NEW to \in {"jobs", "bridge", "http", "mcp", "serving",
                                     "shutdown", "stop_jobs"},
               Enter(from, to)
        PROVE  HubTypeOK'
    BY <1>1 DEF Enter, Service!TypeOK
  <1>2. ASSUME NEW from, Exit(from)
        PROVE  HubTypeOK'
    <2>1. /\ rpc' \in [Requests -> {"idle"}]
          /\ ask' \in [Requests -> {NoQuery}]
          /\ told' \in [Requests -> {"nothing", "refused", "lost", "busy", "clip"}
                                     \cup Statuses]
      BY <1>2 DEF Exit
    <2>2. phase' = "exited" /\ UNCHANGED <<setup, clips, waiting, outcome, stopped>>
      BY <1>2 DEF Exit
    <2> QED
      BY <2>1, <2>2 DEF Service!TypeOK
  <1>3. CASE StopJobs
    <2>1. stopped' \in BOOLEAN
      BY <1>3 DEF StopJobs, Service!Stop
    <2> QED
      BY <1>3, <2>1 DEF StopJobs, Service!Stop, Service!TypeOK
  <1>4. Finally \in {"shutdown", "stop_jobs"}
    BY DEF Finally
  <1> QED
    BY <1>1, <1>2, <1>3, <1>4
    DEF Main, StartReceiver, ReceiverFails, StartJobs, StartBridge, StartHttp,
        HttpFails, StartMcp, McpFails, Interrupt, CloseHttp, StopReceiver

\* An answer.
LEMMA TellType ==
  ASSUME HubTypeOK, NEW r \in Requests,
         NEW answer \in {"nothing", "refused", "lost", "busy", "clip"} \cup Statuses,
         Tell(r, answer)
  PROVE  /\ rpc' \in [Requests -> {"idle", "extract", "submit", "withdraw", "reply"}]
         /\ ask' \in [Requests -> Queries \cup {NoQuery}]
         /\ told' \in [Requests -> {"nothing", "refused", "lost", "busy", "clip"}
                                    \cup Statuses]
  BY DEF Tell, HubTypeOK

LEMMA CutIsFinite == ASSUME NEW q PROVE IsFiniteSet(Cut(q)) /\ Cardinality(Cut(q)) \in Nat
  <1>1. Cut(q) \subseteq Ring /\ IsFiniteSet(Ring)
    BY HubAssumption DEF Cut
  <1> QED
    BY <1>1, FS_Subset, FS_CardinalityType

\* What a client may be told of a job.
LEMMA StatusType ==
  ASSUME HubTypeOK, NEW r \in Requests, outcome[r] # "none"
  PROVE  Status(r) \in Statuses
  BY DEF Status, HubTypeOK, Service!TypeOK

\* Who has been told of a job, or is about to be, has one.
LEMMA RequestType ==
  ASSUME HubTypeOK, NEW r \in Requests, Request(r),
         told[r] \in Statuses \/ rpc[r] = "reply" => outcome[r] # "none"
  PROVE  HubTypeOK'
  <1> USE DEF requestVars, serviceVars
  <1>1. ASSUME NEW answer \in {"nothing", "refused", "lost", "busy", "clip"} \cup Statuses,
               Tell(r, answer), UNCHANGED <<setup, phase, serviceVars>>,
               clips' \in [Requests -> Nat \cup {NoFile}]
        PROVE  HubTypeOK'
    BY <1>1, TellType DEF HubTypeOK, Service!TypeOK
  <1>2. \A q \in Queries : Refuse(r, q) \/ NoReply(r, q) => HubTypeOK'
    BY <1>1 DEF Refuse, NoReply, HubTypeOK
  <1>3. \A q \in Queries : Admit(r, q) => HubTypeOK'
    BY DEF Admit, HubTypeOK, Service!TypeOK
  <1>4. NoAudio(r) => HubTypeOK'
    BY <1>1 DEF NoAudio, HubTypeOK
  <1>5. \A n \in Nat \cup {NoFile} :
           [clips EXCEPT ![r] = n] \in [Requests -> Nat \cup {NoFile}]
    BY DEF HubTypeOK
  <1>6. Cardinality(Cut(ask[r])) \in Nat
    BY CutIsFinite
  <1>7. ExtractFails(r) => HubTypeOK'
    <2> SUFFICES ASSUME ExtractFails(r) PROVE HubTypeOK'
      OBVIOUS
    <2>1. clips' \in [Requests -> Nat \cup {NoFile}]
      BY <1>5, <1>6 DEF ExtractFails
    <2> QED
      BY <1>1, <2>1 DEF ExtractFails
  <1>8. AnswerAudio(r) => HubTypeOK'
    BY <1>1, <1>5, <1>6 DEF AnswerAudio, WriteClip
  <1>9. ExtractClip(r) => HubTypeOK'
    BY <1>5, <1>6 DEF ExtractClip, WriteClip, HubTypeOK, Service!TypeOK
  <1>10. CASE Submit(r)
    <2>1. waiting' \in Seq(Requests) /\ Len(waiting') = Len(waiting) + 1
      BY <1>10 DEF Submit, Service!Accept, HubTypeOK, Service!TypeOK
    <2>2. outcome' \in [Requests -> {"none", "waiting", "serving", "expired", "forgotten"}
                                     \cup Service!Verdicts]
      BY <1>10 DEF Submit, Service!Accept, HubTypeOK, Service!TypeOK
    <2>3. Capacity > 0 => Len(waiting') <= Capacity
      <3>1. Capacity = 0 \/ Len(waiting) < Capacity
        BY <1>10 DEF Submit, Service!Accept
      <3>2. Len(waiting) \in Nat
        BY DEF HubTypeOK, Service!TypeOK
      <3> QED
        BY <2>1, <3>1, <3>2, HubAssumption
    <2>4. Service!TypeOK'
      BY <1>10, <2>1, <2>2 DEF Submit, Service!Accept, HubTypeOK, Service!TypeOK
    <2> QED
      BY <1>10, <2>3, <2>4 DEF Submit, HubTypeOK
  <1>11. QueueFull(r) => HubTypeOK'
    BY DEF QueueFull, HubTypeOK, Service!TypeOK
  <1>12. Withdraw(r) => HubTypeOK'
    BY <1>1, <1>5 DEF Withdraw
  <1>13. Reply(r) => HubTypeOK'
    <2> SUFFICES ASSUME Reply(r) PROVE HubTypeOK'
      OBVIOUS
    <2>1. Status(r) \in Statuses
      BY StatusType DEF Reply
    <2>2. PICK answer \in Statuses : Tell(r, answer)
      BY <2>1 DEF Reply
    <2> QED
      BY <1>1, <2>2 DEF Reply, HubTypeOK
  <1>14. Poll(r) => HubTypeOK'
    <2> SUFFICES ASSUME Poll(r) PROVE HubTypeOK'
      OBVIOUS
    <2>1. Status(r) \in Statuses
      BY StatusType DEF Poll
    <2> QED
      BY <2>1 DEF Poll, HubTypeOK, Service!TypeOK
  <1> QED
    BY <1>2, <1>3, <1>4, <1>7, <1>8, <1>9, <1>10, <1>11, <1>12, <1>13, <1>14 DEF Request

LEMMA HousekeepingType ==
  ASSUME HubTypeOK,
         \/ \E r \in Requests : SweepClip(r)
         \/ \E old, dead \in SUBSET Ageing : AgeJobs(old, dead)
  PROVE  HubTypeOK'
  <1> USE DEF requestVars, serviceVars
  <1>1. ASSUME NEW r \in Requests, SweepClip(r)
        PROVE  HubTypeOK'
    BY <1>1 DEF SweepClip, HubTypeOK, Service!TypeOK
  <1>2. ASSUME NEW old, NEW dead, AgeJobs(old, dead)
        PROVE  HubTypeOK'
    <2>1. outcome' \in [Requests -> {"none", "waiting", "serving", "expired", "forgotten"}
                                     \cup Service!Verdicts]
      BY <1>2 DEF AgeJobs, Service!Age, HubTypeOK, Service!TypeOK
    <2>2. clips' \in [Requests -> Nat \cup {NoFile}]
      BY <1>2 DEF AgeJobs, HubTypeOK
    <2> QED
      BY <1>2, <2>1, <2>2 DEF AgeJobs, Service!Age, HubTypeOK, Service!TypeOK
  <1> QED
    BY <1>1, <1>2

\* A job gets a verdict.
LEMMA FinishType ==
  ASSUME HubTypeOK, NEW r \in Requests, NEW verdict \in {"succeeded", "failed"},
         Finish(r, verdict)
  PROVE  HubTypeOK'
  BY DEF Finish, Service!Deliver, requestVars, HubTypeOK, Service!TypeOK

LEMMA DispatcherHubType == ASSUME HubTypeOK, Dispatcher PROVE HubTypeOK'
  <1>1. CASE Serve
    <2> USE DEF Serve, Service!Serve, HubTypeOK, Service!TypeOK
    <2>1. waiting \in Seq(Requests) /\ waiting # <<>>
      BY <1>1
    <2>2. waiting' \in Seq(Requests) /\ Len(waiting') = Len(waiting) - 1
      BY <1>1, <2>1
    <2>3. Len(waiting) \in Nat
      BY <2>1
    <2>4. Capacity > 0 => Len(waiting') <= Capacity
      BY <2>2, <2>3, HubAssumption
    <2>5. outcome' \in [Requests -> {"none", "waiting", "serving", "expired", "forgotten"}
                                     \cup Service!Verdicts]
      BY <1>1
    <2> QED
      BY <1>1, <2>2, <2>4, <2>5 DEF requestVars
  <1>2. ASSUME NEW r \in Requests, Post(r)
        PROVE  HubTypeOK'
    BY <1>2 DEF Post, hubVars, requestVars, serviceVars, HubTypeOK, Service!TypeOK
  <1>3. ASSUME NEW r \in Requests, PostFails(r) \/ GiveUp(r)
        PROVE  HubTypeOK'
    BY <1>3, FinishType DEF PostFails, GiveUp
  <1>4. ASSUME NEW r \in Requests, ReadAnswer(r)
        PROVE  HubTypeOK'
    BY <1>4, FinishType DEF ReadAnswer
  <1> QED
    BY <1>1, <1>2, <1>3, <1>4 DEF Dispatcher

\* The worker's own steps.
LEMMA WorkerNextType == ASSUME Worker!TypeOK, Worker!Next PROVE Worker!TypeOK'
  <1> USE DEF Worker!TypeOK
  <1>1. CASE Worker!Start
    BY <1>1 DEF Worker!Start
  <1>2. CASE Worker!Crash
    <2>1. /\ wpc' \in [Requests -> {"idle"}]
          /\ tries' \in [Requests -> 0..Devices]
          /\ held' \in [Requests -> {NoModel}]
      BY <1>2, WorkerAssumption DEF Worker!Crash
    <2>2. conn' \in [Requests -> Worker!Answers \cup {"none"}]
      BY <1>2 DEF Worker!Crash
    <2>3. fault' \subseteq Requests /\ up' \in BOOLEAN /\ model' = NoModel
      BY <1>2 DEF Worker!Crash
    <2>4. crashes' \in 0..MaxCrashes
      BY <1>2, WorkerAssumption DEF Worker!Crash
    <2>5. \A r \in Requests : wpc'[r] = "idle" /\ conn'[r] # "open"
      BY <2>1, <2>2
    <2> QED
      BY <2>1, <2>2, <2>3, <2>4, <2>5
  <1>3. ASSUME NEW r \in Requests, Worker!Thread(r)
        PROVE  Worker!TypeOK'
    <2>1. ASSUME NEW from \in Worker!Busy, Worker!Trouble(r, from)
          PROVE  Worker!TypeOK'
      BY <2>1 DEF Worker!Trouble, Worker!Go
    <2>2. CASE Worker!NotFound(r)
      BY <2>2 DEF Worker!NotFound, Worker!Go
    <2>3. CASE Worker!NoKey(r) \/ Worker!CloudFails(r) \/ Worker!ImportFails(r)
      BY <2>1, <2>3 DEF Worker!NoKey, Worker!CloudFails, Worker!ImportFails
    <2>4. CASE Worker!BuildPayload(r)
      BY <2>4 DEF Worker!BuildPayload, Worker!Go
    <2>5. CASE Worker!CloudAnswers(r)
      BY <2>5 DEF Worker!CloudAnswers, Worker!Go
    <2>6. CASE Worker!TestModel(r)
      <3>1. {0, 1} \subseteq 0..Devices
        BY WorkerAssumption
      <3>2. tries' \in [Requests -> 0..Devices]
        BY <2>6, <3>1 DEF Worker!TestModel, Worker!GetModel
      <3> QED
        BY <2>6, <3>2 DEF Worker!TestModel, Worker!GetModel, Worker!Go
    <2>7. CASE Worker!Loaded(r)
      BY <2>7 DEF Worker!Loaded, Worker!Go
    <2>8. CASE Worker!LoadFails(r)
      <3>1. tries[r] + 1 \in 0..Devices
        BY <2>8, WorkerAssumption DEF Worker!LoadFails
      <3> QED
        BY <2>8, <3>1 DEF Worker!LoadFails
    <2>9. CASE Worker!LastLoadFails(r)
      BY <2>9 DEF Worker!LastLoadFails, Worker!Go
    <2>10. CASE Worker!ReturnModel(r)
      BY <2>10 DEF Worker!ReturnModel, Worker!Go
    <2>11. CASE Worker!Hear(r)
      BY <2>11 DEF Worker!Hear, Worker!Go
    <2>12. CASE Worker!HearFails(r)
      BY <2>12 DEF Worker!HearFails, Worker!Go
    <2>13. CASE Worker!Answer(r)
      <3>1. 0 \in 0..Devices
        BY WorkerAssumption
      <3> QED
        BY <2>13, <3>1 DEF Worker!Answer
    <2> QED
      BY <1>3, <2>2, <2>3, <2>4, <2>5, <2>6, <2>7, <2>8, <2>9, <2>10, <2>11, <2>12, <2>13
      DEF Worker!Thread
  <1> QED
    BY <1>1, <1>2, <1>3 DEF Worker!Next

LEMMA DispatcherWorkerType ==
  ASSUME Worker!TypeOK, PathType, Dispatcher
  PROVE  Worker!TypeOK' /\ PathType'
  <1> USE DEF Worker!TypeOK, PathType
  <1>1. CASE Serve
    BY <1>1 DEF Serve, workerVars
  <1>2. ASSUME NEW r \in Requests, Post(r)
        PROVE  Worker!TypeOK' /\ PathType'
    BY <1>2 DEF Post, Worker!Connect
  <1>3. ASSUME NEW r \in Requests, PostFails(r) \/ GiveUp(r) \/ ReadAnswer(r)
        PROVE  Worker!TypeOK' /\ PathType'
    BY <1>3 DEF PostFails, GiveUp, ReadAnswer, workerVars
  <1> QED
    BY <1>1, <1>2, <1>3 DEF Dispatcher

-----------------------------------------------------------------------------
(* What a request's thread, its clip, its job and its client have to do with each *)
(* other. AnswersMatchEffects and AnswersStand are the last four parts; they need *)
(* the others, and that the clip of a job is one the worker takes.                *)

Asked(r) ==
    /\ rpc[r] # "idle" => told[r] = "nothing"
    /\ rpc[r] = "extract" => ask[r] \in Queries /\ Valid(ask[r])

Untouched(r) ==
    rpc[r] = "extract" \/ (rpc[r] = "idle" /\ told[r] = "nothing")
        => outcome[r] = "none" /\ clips[r] = NoFile

NotYetAccepted(r) == rpc[r] \in {"submit", "withdraw"} => outcome[r] = "none"
Accepted(r) == told[r] \in Statuses \/ rpc[r] = "reply" => outcome[r] # "none"

ClipFits(r) ==
    rpc[r] = "submit" \/ outcome[r] \in {"waiting", "serving"} => clips[r] \in 0..MaxAudio

LeftNothing(r) == told[r] \in {"refused", "busy"} => outcome[r] = "none" /\ clips[r] = NoFile
HasClient(r) == outcome[r] # "none" => told[r] \in {"lost"} \cup Statuses \/ rpc[r] = "reply"
Stands(r) == told[r] \in Statuses => Status(r) \in {told[r]} \cup Later(told[r])

RequestOK(r) ==
    /\ Asked(r)
    /\ Untouched(r)
    /\ NotYetAccepted(r)
    /\ Accepted(r)
    /\ ClipFits(r)
    /\ LeftNothing(r)
    /\ HasClient(r)
    /\ Stands(r)

\* The queue holds the waiting jobs, each once, and one job is served at a time.
QueueOK ==
    /\ \A i \in 1..Len(waiting) : outcome[waiting[i]] = "waiting"
    /\ \A i, j \in 1..Len(waiting) : waiting[i] = waiting[j] => i = j
    /\ \A r, s \in Requests : outcome[r] = "serving" /\ outcome[s] = "serving" => r = s

HubInv ==
    /\ HubTypeOK
    /\ \A r \in Requests : RequestOK(r)
    /\ QueueOK

\* A valid window has no more chunks than the worker takes.
LEMMA ValidFits ==
  ASSUME NEW q \in Queries, Valid(q)
  PROVE  Cardinality(Cut(q)) \in 0..MaxAudio
  <1>1. q.from \in Int \cup {NaN} /\ q.to \in Int \cup {NaN}
    BY HubAssumption DEF Query, Floats
  <1>2. Cardinality(Cut(q)) \in Nat
    BY CutIsFinite
  <1>3. CASE q.from = NaN \/ q.to = NaN
    <2>1. Cut(q) = {}
      BY <1>3 DEF Cut, Leq
    <2>2. Cardinality(Cut(q)) = 0
      BY <2>1, FS_EmptySet
    <2> QED
      BY <2>2, WorkerAssumption
  <1>4. CASE q.from # NaN /\ q.to # NaN
    <2>1. q.from \in Int /\ q.to \in Int
      BY <1>1, <1>4
    <2>2. Minus(q.to, q.from) = q.to - q.from /\ q.to - q.from # NaN
      BY <2>1, HubAssumption DEF Minus
    <2>3. Leq(Minus(q.to, q.from), MaxQuery)
      BY <2>2 DEF Valid, TooLong
    <2>4. q.to - q.from <= MaxQuery
      BY <2>2, <2>3 DEF Leq
    <2>5. q.from < q.to
      BY <1>4, <2>1 DEF Valid, Backwards, Leq
    <2>6. Cut(q) \subseteq q.from..q.to
      <3>1. \A t \in Cut(q) : t \in Int /\ q.from <= t /\ t <= q.to
        BY HubAssumption DEF Cut, Leq
      <3> QED
        BY <2>1, <3>1
    <2>7. IsFiniteSet(q.from..q.to) /\ Cardinality(q.from..q.to) = q.to - q.from + 1
      BY <2>1, <2>5, FS_Interval
    <2>8. Cardinality(Cut(q)) <= q.to - q.from + 1
      BY <2>6, <2>7, FS_Subset
    <2> QED
      BY <1>2, <2>1, <2>4, <2>8, HubAssumption, WorkerAssumption, SizesAssumption
  <1> QED
    BY <1>3, <1>4

LEMMA InitHub == Init => HubInv
  <1> SUFFICES ASSUME Init PROVE HubInv
    OBVIOUS
  <1>1. HubTypeOK
    BY InitType DEF TypeOK
  <1> USE DEF Init, HubInit, Service!Init
  <1>2. ASSUME NEW r \in Requests
        PROVE  RequestOK(r)
    BY DEF RequestOK, Asked, Untouched, NotYetAccepted, Accepted, ClipFits,
           LeftNothing, HasClient, Stands
  <1>3. QueueOK
    BY DEF QueueOK
  <1> QED
    BY <1>1, <1>2, <1>3 DEF HubInv

\* A request of which nothing changed stays as it was.
LEMMA SameRequest ==
  ASSUME NEW r, RequestOK(r),
         rpc'[r] = rpc[r], ask'[r] = ask[r], told'[r] = told[r],
         clips'[r] = clips[r], outcome'[r] = outcome[r]
  PROVE  RequestOK(r)'
  BY DEF RequestOK, Asked, Untouched, NotYetAccepted, Accepted, ClipFits,
         LeftNothing, HasClient, Stands, Status

LEMMA SameQueue ==
  ASSUME QueueOK, UNCHANGED <<waiting, outcome>>
  PROVE  QueueOK'
  BY DEF QueueOK

LEMMA MainHub == ASSUME HubInv, Main PROVE HubInv'
  <1>1. HubTypeOK' /\ UNCHANGED <<clips, waiting, outcome>>
    BY MainType
    DEF HubInv, Main, StartReceiver, ReceiverFails, StartJobs, StartBridge, StartHttp,
        HttpFails, StartMcp, McpFails, Interrupt, CloseHttp, StopReceiver, StopJobs,
        Enter, Exit, Service!Stop, serviceVars
  <1>2. ASSUME NEW r \in Requests
        PROVE  RequestOK(r)'
    <2>1. RequestOK(r) /\ clips'[r] = clips[r] /\ outcome'[r] = outcome[r]
      BY <1>1 DEF HubInv
    <2>2. ASSUME NEW from, Exit(from)
          PROVE  RequestOK(r)'
      <3>1. /\ rpc'[r] = "idle"
            /\ rpc[r] = "idle" => told'[r] = told[r]
            /\ rpc[r] # "idle" => told'[r] = "lost"
        BY <2>2 DEF Exit
      <3>2. told'[r] # "nothing" \/ (rpc[r] = "idle" /\ told[r] = "nothing")
        BY <2>1, <3>1 DEF RequestOK, Asked
      <3>3. CASE rpc[r] = "idle"
        BY <2>1, <3>1, <3>3 DEF RequestOK, Asked, Untouched, NotYetAccepted, Accepted,
                                ClipFits, LeftNothing, HasClient, Stands, Status
      <3>4. CASE rpc[r] # "idle"
        BY <2>1, <3>1, <3>4 DEF RequestOK, Asked, Untouched, NotYetAccepted, Accepted,
                                ClipFits, LeftNothing, HasClient, Stands, Status
      <3> QED
        BY <3>3, <3>4
    <2>3. ASSUME UNCHANGED requestVars
          PROVE  RequestOK(r)'
      BY <2>1, <2>3, SameRequest DEF requestVars
    <2> QED
      BY <2>2, <2>3
      DEF Main, StartReceiver, ReceiverFails, StartJobs, StartBridge, StartHttp,
          HttpFails, StartMcp, McpFails, Interrupt, CloseHttp, StopReceiver, StopJobs, Enter
  <1> QED
    BY <1>1, <1>2, SameQueue DEF HubInv

\* A request's own step, seen by that request.
LEMMA OwnRequest ==
  ASSUME HubInv, NEW r \in Requests, Request(r)
  PROVE  RequestOK(r)'
  <1>1. RequestOK(r)
    BY DEF HubInv
  <1>2. /\ rpc \in [Requests -> {"idle", "extract", "submit", "withdraw", "reply"}]
        /\ DOMAIN ask = Requests /\ DOMAIN told = Requests /\ DOMAIN clips = Requests
        /\ DOMAIN outcome = Requests
        /\ ask = [s \in Requests |-> ask[s]] /\ told = [s \in Requests |-> told[s]]
    BY DEF HubInv, HubTypeOK, Service!TypeOK
  <1>3. outcome[r] \in {"none", "waiting", "serving", "expired", "forgotten",
                        "succeeded", "failed"}
    BY DEF HubInv, HubTypeOK, Service!TypeOK
  <1> USE DEF RequestOK, Asked, Untouched, NotYetAccepted, Accepted, ClipFits,
              LeftNothing, HasClient, Stands, Status, Later, serviceVars
  <1>4. ASSUME NEW answer, Tell(r, answer)
        PROVE  rpc'[r] = "idle" /\ told'[r] = answer
    BY <1>2, <1>4 DEF Tell
  <1>5. ASSUME NEW q \in Queries, Refuse(r, q) \/ NoReply(r, q)
        PROVE  RequestOK(r)'
    BY <1>1, <1>4, <1>5 DEF Refuse, NoReply, Arrives
  <1>6. ASSUME NEW q \in Queries, Admit(r, q)
        PROVE  RequestOK(r)'
    BY <1>1, <1>2, <1>6 DEF Admit, Arrives
  <1>7. CASE NoAudio(r)
    BY <1>1, <1>4, <1>7 DEF NoAudio
  <1>8. CASE ExtractFails(r)
    BY <1>1, <1>4, <1>8 DEF ExtractFails
  <1>9. CASE AnswerAudio(r)
    BY <1>1, <1>4, <1>9 DEF AnswerAudio, WriteClip
  <1>10. CASE ExtractClip(r)
    <2>1. clips'[r] = Cardinality(Cut(ask[r])) /\ rpc'[r] = "submit"
      BY <1>2, <1>10 DEF ExtractClip, WriteClip
    <2>2. clips'[r] \in 0..MaxAudio
      BY <1>1, <1>10, <2>1, ValidFits DEF ExtractClip, WriteClip
    <2> QED
      BY <1>1, <1>10, <2>1, <2>2 DEF ExtractClip, WriteClip
  <1>11. CASE Submit(r)
    BY <1>1, <1>2, <1>11 DEF Submit, Service!Accept
  <1>12. CASE QueueFull(r)
    BY <1>1, <1>2, <1>12 DEF QueueFull
  <1>13. CASE Withdraw(r)
    <2>1. clips'[r] = NoFile
      BY <1>2, <1>13 DEF Withdraw
    <2> QED
      BY <1>1, <1>4, <1>13, <2>1 DEF Withdraw
  <1>14. CASE Reply(r)
    <2>1. /\ rpc'[r] = "idle" /\ UNCHANGED <<clips, outcome>>
          /\ told'[r] = IF outcome[r] = "forgotten" THEN "expired" ELSE Status(r)
      BY <1>4, <1>14 DEF Reply
    <2>2. outcome[r] # "none"
      BY <1>1, <1>14 DEF Reply
    <2> QED
      BY <1>1, <1>3, <2>1, <2>2
  <1>15. CASE Poll(r)
    <2>1. told'[r] = Status(r) /\ UNCHANGED <<rpc, ask, clips, outcome>>
      BY <1>2, <1>15 DEF Poll
    <2> QED
      BY <1>1, <1>3, <1>15, <2>1 DEF Poll
  <1> QED
    BY <1>5, <1>6, <1>7, <1>8, <1>9, <1>10, <1>11, <1>12, <1>13, <1>14, <1>15 DEF Request

\* A request's own step, seen by any other.
LEMMA OtherRequest ==
  ASSUME HubInv, NEW r \in Requests, Request(r), NEW s \in Requests, s # r
  PROVE  RequestOK(s)'
  <1>1. RequestOK(s)
    BY DEF HubInv
  <1>2. \A f, v : [f EXCEPT ![r] = v][s] = f[s] \/ s \notin DOMAIN f
    OBVIOUS
  <1>3. /\ DOMAIN rpc = Requests /\ DOMAIN ask = Requests /\ DOMAIN told = Requests
        /\ DOMAIN clips = Requests /\ DOMAIN outcome = Requests
    BY DEF HubInv, HubTypeOK, Service!TypeOK
  <1>4. ASSUME NEW answer, Tell(r, answer)
        PROVE  rpc'[s] = rpc[s] /\ ask'[s] = ask[s] /\ told'[s] = told[s]
    BY <1>3, <1>4 DEF Tell
  <1>5. /\ rpc'[s] = rpc[s] /\ ask'[s] = ask[s] /\ told'[s] = told[s]
        /\ clips'[s] = clips[s] /\ outcome'[s] = outcome[s]
    <2> USE DEF serviceVars
    <2>1. CASE \E q \in Queries : Refuse(r, q) \/ NoReply(r, q)
      BY <1>4, <2>1 DEF Refuse, NoReply
    <2>2. CASE \E q \in Queries : Admit(r, q)
      BY <1>3, <2>2 DEF Admit
    <2>3. CASE NoAudio(r)
      BY <1>4, <2>3 DEF NoAudio
    <2>4. CASE ExtractFails(r)
      BY <1>3, <1>4, <2>4 DEF ExtractFails
    <2>5. CASE AnswerAudio(r)
      BY <1>3, <1>4, <2>5 DEF AnswerAudio, WriteClip
    <2>6. CASE ExtractClip(r)
      BY <1>3, <2>6 DEF ExtractClip, WriteClip
    <2>7. CASE Submit(r)
      BY <1>3, <2>7 DEF Submit, Service!Accept
    <2>8. CASE QueueFull(r)
      BY <1>3, <2>8 DEF QueueFull
    <2>9. CASE Withdraw(r)
      BY <1>3, <1>4, <2>9 DEF Withdraw
    <2>10. CASE Reply(r)
      BY <1>4, <2>10 DEF Reply
    <2>11. CASE Poll(r)
      BY <1>3, <2>11 DEF Poll
    <2> QED
      BY <2>1, <2>2, <2>3, <2>4, <2>5, <2>6, <2>7, <2>8, <2>9, <2>10, <2>11 DEF Request
  <1> QED
    BY <1>1, <1>5, SameRequest

LEMMA RequestHub == ASSUME HubInv, NEW r \in Requests, Request(r) PROVE HubInv'
  <1>1. told[r] \in Statuses \/ rpc[r] = "reply" => outcome[r] # "none"
    BY DEF HubInv, RequestOK, Accepted
  <1>2. HubTypeOK'
    BY <1>1, RequestType DEF HubInv
  <1>3. \A s \in Requests : RequestOK(s)'
    BY OwnRequest, OtherRequest
  <1>4. CASE Submit(r)
    <2>1. /\ outcome[r] = "none"
          /\ waiting' = Append(waiting, r)
          /\ outcome' = [outcome EXCEPT ![r] = "waiting"]
      BY <1>4 DEF Submit, Service!Accept
    <2>2. waiting \in Seq(Requests) /\ DOMAIN outcome = Requests
      BY DEF HubInv, HubTypeOK, Service!TypeOK
    <2>3. /\ Len(waiting) \in Nat /\ Len(waiting') = Len(waiting) + 1
          /\ \A i \in 1..Len(waiting) : waiting'[i] = waiting[i] /\ waiting[i] \in Requests
          /\ waiting'[Len(waiting) + 1] = r
      BY <2>1, <2>2
    <2>4. \A i \in 1..Len(waiting) : waiting[i] # r /\ outcome[waiting[i]] = "waiting"
      BY <2>1, <2>3 DEF HubInv, QueueOK
    <2>5. \A s \in Requests \ {r} : outcome'[s] = outcome[s]
      BY <2>1, <2>2
    <2>6. outcome'[r] = "waiting"
      BY <2>1, <2>2
    <2>7. ASSUME NEW i \in 1..Len(waiting')
          PROVE  outcome'[waiting'[i]] = "waiting"
      <3>1. i \in 1..Len(waiting) \/ i = Len(waiting) + 1
        BY <2>3
      <3> QED
        BY <2>3, <2>4, <2>5, <2>6, <3>1
    <2>8. ASSUME NEW i \in 1..Len(waiting'), NEW j \in 1..Len(waiting'),
                 waiting'[i] = waiting'[j]
          PROVE  i = j
      <3>1. /\ i \in 1..Len(waiting) \/ i = Len(waiting) + 1
            /\ j \in 1..Len(waiting) \/ j = Len(waiting) + 1
        BY <2>3
      <3>2. \A k, l \in 1..Len(waiting) : waiting[k] = waiting[l] => k = l
        BY DEF HubInv, QueueOK
      <3> QED
        BY <2>3, <2>4, <2>8, <3>1, <3>2
    <2>9. \A s, t \in Requests : outcome'[s] = "serving" /\ outcome'[t] = "serving" => s = t
      BY <2>5, <2>6 DEF HubInv, QueueOK
    <2> QED
      BY <1>2, <1>3, <2>7, <2>8, <2>9 DEF HubInv, QueueOK
  <1>5. CASE UNCHANGED serviceVars
    BY <1>2, <1>3, <1>5, SameQueue DEF HubInv, serviceVars
  <1> QED
    BY <1>4, <1>5
    DEF Request, Refuse, NoReply, Admit, NoAudio, ExtractFails, AnswerAudio, ExtractClip,
        QueueFull, Withdraw, Reply, Poll

LEMMA HousekeepingHub ==
  ASSUME HubInv,
         \/ \E r \in Requests : SweepClip(r)
         \/ \E old, dead \in SUBSET Ageing : AgeJobs(old, dead)
  PROVE  HubInv'
  <1>1. HubTypeOK'
    BY HousekeepingType DEF HubInv
  <1>2. /\ DOMAIN clips = Requests
        /\ waiting \in Seq(Requests)
        /\ outcome \in [Requests -> {"none", "waiting", "serving", "expired", "forgotten",
                                     "succeeded", "failed"}]
    BY DEF HubInv, HubTypeOK, Service!TypeOK
  <1>3. \A r \in Requests : RequestOK(r)
    BY DEF HubInv
  <1>4. ASSUME NEW r \in Requests, SweepClip(r)
        PROVE  HubInv'
    <2>1. UNCHANGED <<rpc, ask, told, waiting, outcome>>
      BY <1>4 DEF SweepClip, requestVars, serviceVars
    <2>2. clips' = [clips EXCEPT ![r] = NoFile] /\ rpc[r] = "idle" /\ outcome[r] = "none"
      BY <1>4 DEF SweepClip
    <2>3. RequestOK(r)'
      BY <1>2, <1>3, <2>1, <2>2
      DEF RequestOK, Asked, Untouched, NotYetAccepted, Accepted, ClipFits, LeftNothing,
          HasClient, Stands, Status
    <2>4. \A s \in Requests \ {r} : RequestOK(s)'
      BY <1>2, <1>3, <2>1, <2>2, SameRequest
    <2> QED
      BY <1>1, <2>1, <2>3, <2>4, SameQueue DEF HubInv
  <1>5. ASSUME NEW old, NEW dead, AgeJobs(old, dead)
        PROVE  HubInv'
    <2>1. /\ UNCHANGED <<rpc, ask, told, waiting>>
          /\ \A r \in Requests :
                /\ clips'[r] = IF r \in old THEN NoFile ELSE clips[r]
                /\ outcome'[r] = IF r \in old THEN "expired"
                                 ELSE IF r \in dead THEN "forgotten" ELSE outcome[r]
      BY <1>5 DEF AgeJobs, Service!Age, requestVars
    <2>2. /\ \A r \in old : outcome[r] \in {"succeeded", "failed"}
          /\ \A r \in dead : outcome[r] = "expired"
      BY <1>5 DEF AgeJobs, Service!Age
    <2>3. ASSUME NEW r \in Requests
          PROVE  RequestOK(r)'
      <3>1. RequestOK(r)
        BY <1>3
      <3>2. CASE r \notin old \cup dead
        BY <2>1, <3>1, <3>2, SameRequest
      <3>3. CASE r \in old \cup dead
        <4>1. /\ rpc'[r] = rpc[r] /\ ask'[r] = ask[r] /\ told'[r] = told[r]
              /\ outcome[r] \in {"succeeded", "failed", "expired"}
              /\ outcome'[r] \in {"expired", "forgotten"}
              /\ outcome[r] = "expired" => outcome'[r] = "forgotten"
              /\ outcome'[r] = "expired" => outcome[r] \in {"succeeded", "failed"}
          BY <2>1, <2>2, <3>3
        <4>2. Stands(r)'
          BY <3>1, <4>1 DEF RequestOK, Stands, Status, Later
        <4> QED
          BY <3>1, <4>1, <4>2
          DEF RequestOK, Asked, Untouched, NotYetAccepted, Accepted, ClipFits,
              LeftNothing, HasClient
      <3> QED
        BY <3>2, <3>3
    <2>4. \A r \in Requests : outcome[r] = "waiting" => outcome'[r] = "waiting"
      BY <2>1, <2>2
    <2>5. \A r \in Requests : outcome'[r] = "serving" => outcome[r] = "serving"
      BY <2>1, <2>2
    <2>6. \A i \in 1..Len(waiting) : waiting[i] \in Requests
      BY <1>2
    <2>7. QueueOK'
      BY <2>1, <2>4, <2>5, <2>6 DEF HubInv, QueueOK
    <2> QED
      BY <1>1, <2>3, <2>7 DEF HubInv
  <1> QED
    BY <1>4, <1>5

\* A verdict on the job that is served.
LEMMA FinishHub ==
  ASSUME HubInv, NEW r \in Requests, NEW verdict \in {"succeeded", "failed"},
         Finish(r, verdict)
  PROVE  HubInv'
  <1>1. HubTypeOK'
    BY FinishType DEF HubInv
  <1>2. /\ UNCHANGED <<rpc, ask, told, clips, waiting>>
        /\ outcome[r] = "serving" /\ outcome' = [outcome EXCEPT ![r] = verdict]
    BY DEF Finish, Service!Deliver, requestVars
  <1>3. DOMAIN outcome = Requests /\ waiting \in Seq(Requests)
    BY DEF HubInv, HubTypeOK, Service!TypeOK
  <1>4. outcome'[r] = verdict /\ \A s \in Requests \ {r} : outcome'[s] = outcome[s]
    BY <1>2, <1>3
  <1>5. ASSUME NEW s \in Requests
        PROVE  RequestOK(s)'
    <2>1. RequestOK(s)
      BY DEF HubInv
    <2>2. CASE s # r
      BY <1>2, <1>4, <2>1, <2>2, SameRequest
    <2>3. CASE s = r
      BY <1>2, <1>4, <2>1, <2>3
      DEF RequestOK, Asked, Untouched, NotYetAccepted, Accepted, ClipFits, LeftNothing,
          HasClient, Stands, Status, Later
    <2> QED
      BY <2>2, <2>3
  <1>6. \A i \in 1..Len(waiting) : waiting[i] \in Requests \ {r}
    BY <1>2, <1>3 DEF HubInv, QueueOK
  <1>7. QueueOK'
    BY <1>2, <1>4, <1>6 DEF HubInv, QueueOK
  <1> QED
    BY <1>1, <1>5, <1>7 DEF HubInv

LEMMA ServeHub == ASSUME HubInv, Serve PROVE HubInv'
  <1>1. HubTypeOK'
    BY DispatcherHubType DEF HubInv, Dispatcher
  <1>2. /\ UNCHANGED <<rpc, ask, told, clips>>
        /\ waiting # <<>> /\ waiting' = Tail(waiting)
        /\ \A s \in Requests : outcome[s] # "serving"
        /\ outcome' = [outcome EXCEPT ![Head(waiting)] = "serving"]
    BY DEF Serve, Service!Serve, requestVars
  <1>3. DOMAIN outcome = Requests /\ waiting \in Seq(Requests)
    BY DEF HubInv, HubTypeOK, Service!TypeOK
  <1>4. /\ Len(waiting) \in Nat \ {0} /\ Len(waiting') = Len(waiting) - 1
        /\ \A i \in 1..Len(waiting') : waiting'[i] = waiting[i + 1]
    BY <1>2, <1>3
  <1>5. /\ Head(waiting) = waiting[1]
        /\ \A i \in 1..Len(waiting) : waiting[i] \in Requests /\ outcome[waiting[i]] = "waiting"
    BY <1>2, <1>3 DEF HubInv, QueueOK
  <1>6. PICK r \in Requests : r = waiting[1] /\ outcome[r] = "waiting"
    BY <1>4, <1>5
  <1>7. outcome'[r] = "serving" /\ \A s \in Requests \ {r} : outcome'[s] = outcome[s]
    BY <1>2, <1>3, <1>5, <1>6
  <1>8. ASSUME NEW s \in Requests
        PROVE  RequestOK(s)'
    <2>1. RequestOK(s)
      BY DEF HubInv
    <2>2. CASE s # r
      BY <1>2, <1>7, <2>1, <2>2, SameRequest
    <2>3. CASE s = r
      BY <1>2, <1>6, <1>7, <2>1, <2>3
      DEF RequestOK, Asked, Untouched, NotYetAccepted, Accepted, ClipFits, LeftNothing,
          HasClient, Stands, Status, Later
    <2> QED
      BY <2>2, <2>3
  <1>9. ASSUME NEW i \in 1..Len(waiting')
        PROVE  outcome'[waiting'[i]] = "waiting"
    <2>1. i + 1 \in 1..Len(waiting) /\ 1 \in 1..Len(waiting) /\ i + 1 # 1
      BY <1>4
    <2>2. waiting[i + 1] # waiting[1]
      BY <2>1 DEF HubInv, QueueOK
    <2> QED
      BY <1>4, <1>5, <1>6, <1>7, <2>1, <2>2
  <1>10. ASSUME NEW i \in 1..Len(waiting'), NEW j \in 1..Len(waiting'),
                waiting'[i] = waiting'[j]
         PROVE  i = j
    <2>1. i + 1 \in 1..Len(waiting) /\ j + 1 \in 1..Len(waiting)
      BY <1>4
    <2>2. i + 1 = j + 1
      BY <1>4, <1>10, <2>1 DEF HubInv, QueueOK
    <2> QED
      BY <2>2
  <1>11. \A s, t \in Requests : outcome'[s] = "serving" /\ outcome'[t] = "serving" => s = t
    BY <1>2, <1>7
  <1> QED
    BY <1>1, <1>8, <1>9, <1>10, <1>11 DEF HubInv, QueueOK

LEMMA SameHub == ASSUME HubInv, UNCHANGED hubVars PROVE HubInv'
  <1>1. /\ UNCHANGED <<setup, phase, rpc, ask, told, clips, waiting, outcome, stopped>>
    BY DEF hubVars, requestVars, serviceVars
  <1>2. HubTypeOK'
    BY <1>1 DEF HubInv, HubTypeOK, Service!TypeOK
  <1>3. \A r \in Requests : RequestOK(r)'
    BY <1>1, SameRequest DEF HubInv
  <1> QED
    BY <1>1, <1>2, <1>3, SameQueue DEF HubInv

\* Every step, the worker's included, keeps the hub in order.
LEMMA NextHub == HubInv /\ [Next]_vars => HubInv'
  <1> SUFFICES ASSUME HubInv, [Next]_vars PROVE HubInv'
    OBVIOUS
  <1>1. CASE HubNext
    <2>1. \/ Main
          \/ \E r \in Requests : Request(r)
          \/ \/ \E r \in Requests : SweepClip(r)
             \/ \E old, dead \in SUBSET Ageing : AgeJobs(old, dead)
      BY <1>1 DEF HubNext
    <2> QED
      BY <2>1, MainHub, RequestHub, HousekeepingHub
  <1>2. CASE UNCHANGED hubVars
    BY <1>2, SameHub
  <1>3. CASE Dispatcher
    <2>1. CASE \E r \in Requests : Post(r)
      BY <2>1, SameHub DEF Post
    <2>2. ASSUME NEW r \in Requests, PostFails(r) \/ ReadAnswer(r) \/ GiveUp(r)
          PROVE  HubInv'
      BY <2>2, FinishHub DEF PostFails, ReadAnswer, GiveUp
    <2> QED
      BY <1>3, <2>1, <2>2, ServeHub DEF Dispatcher
  <1> QED
    BY <1>1, <1>2, <1>3 DEF Next, vars

WorkerInv == Worker!TypeOK /\ PathType

LEMMA InitWorker == Init => WorkerInv
  BY InitType DEF TypeOK, Init, WorkerInv, PathType

LEMMA NextWorker == WorkerInv /\ [Next]_vars => WorkerInv'
  <1> SUFFICES ASSUME WorkerInv, [Next]_vars PROVE WorkerInv'
    OBVIOUS
  <1>1. CASE UNCHANGED <<workerVars, abandoned>>
    BY <1>1 DEF WorkerInv, PathType, workerVars, Worker!TypeOK
  <1>2. CASE Worker!Next /\ UNCHANGED abandoned
    BY <1>2, WorkerNextType DEF WorkerInv, PathType
  <1>3. CASE Dispatcher
    BY <1>3, DispatcherWorkerType DEF WorkerInv
  <1> QED
    BY <1>1, <1>2, <1>3 DEF Next, vars

LEMMA Everything == Spec => [](HubInv /\ WorkerInv)
  <1>1. Init => HubInv /\ WorkerInv
    BY InitHub, InitWorker
  <1>2. HubInv /\ WorkerInv /\ [Next]_vars => (HubInv /\ WorkerInv)'
    BY NextHub, NextWorker
  <1> QED
    BY <1>1, <1>2, PTL DEF Spec

\* Every variable keeps its type, the queue its bound, and the worker a thread for
\* every request it has not answered.
THEOREM TypeCorrect == Spec => []TypeOK
  <1>1. HubInv /\ WorkerInv => TypeOK
    BY DEF HubInv, WorkerInv, PathType, TypeOK
  <1> QED
    BY <1>1, Everything, PTL

\* What a client is told agrees with what was done for it: nothing is left of what was
\* refused, and behind every status there is a job.
THEOREM AnswersAlwaysMatchEffects == Spec => []AnswersMatchEffects
  <1>1. HubInv => AnswersMatchEffects
    BY DEF HubInv, RequestOK, LeftNothing, HasClient, Accepted, AnswersMatchEffects
  <1> QED
    BY <1>1, Everything, PTL

-----------------------------------------------------------------------------
(* What clients are told stands. *)

LEMMA NextStands ==
  ASSUME HubInv, [Next]_vars, NEW r \in Requests, told[r] \in Statuses
  PROVE  told'[r] \in {told[r]} \cup Later(told[r])
  <1>1. rpc[r] = "idle" /\ Status(r) \in {told[r]} \cup Later(told[r])
    BY DEF HubInv, RequestOK, Asked, Stands
  <1>2. DOMAIN told = Requests
    BY DEF HubInv, HubTypeOK
  <1>3. CASE Main
    <2>1. ASSUME NEW from, Exit(from)
          PROVE  told'[r] = told[r]
      BY <1>1, <2>1 DEF Exit
    <2> QED
      BY <1>3, <2>1
      DEF Main, StartReceiver, ReceiverFails, StartJobs, StartBridge, StartHttp,
          HttpFails, StartMcp, McpFails, Interrupt, CloseHttp, StopReceiver, StopJobs,
          Enter, requestVars
  <1>4. ASSUME NEW s \in Requests, Request(s)
        PROVE  told'[r] \in {told[r]} \cup Later(told[r])
    <2>1. CASE UNCHANGED told
      BY <2>1
    <2>2. CASE Poll(s)
      BY <1>1, <1>2, <2>2 DEF Poll
    <2>3. ASSUME NEW answer, Tell(s, answer), rpc[s] # "idle" \/ told[s] = "nothing"
          PROVE  told'[r] = told[r]
      <3>1. s # r
        BY <1>1, <2>3
      <3> QED
        BY <1>2, <2>3, <3>1 DEF Tell
    <2> QED
      BY <1>4, <2>1, <2>2, <2>3
      DEF Request, Refuse, NoReply, Arrives, Admit, NoAudio, ExtractFails, WriteClip,
          AnswerAudio, ExtractClip, Submit, QueueFull, Withdraw, Reply
  <1>5. CASE UNCHANGED told
    BY <1>5
  <1> QED
    BY <1>3, <1>4, <1>5
    DEF Next, HubNext, SweepClip, AgeJobs, Dispatcher, Serve, Post, PostFails, ReadAnswer,
        GiveUp, Finish, vars, hubVars, requestVars

\* A client is never told less than before, and a verdict never turns into another.
THEOREM AnswersAlwaysStand == Spec => AnswersStand
  <1>1. HubInv /\ [Next]_vars =>
           [\A r \in Requests :
               told[r] \in Statuses => told'[r] \in {told[r]} \cup Later(told[r])]_vars
    BY NextStands
  <1> QED
    BY <1>1, Everything, PTL DEF Spec, AnswersStand

-----------------------------------------------------------------------------
(* The two processes together. *)

\* The worker works for the job that is served, or for one the hub gave up.
Linked(r) ==
    /\ conn[r] # "none" => outcome[r] \notin {"none", "waiting"}
    /\ conn[r] = "open" /\ r \notin abandoned => outcome[r] = "serving"

\* Whatever went wrong has a cause.
Caused(r) ==
    /\ r \in abandoned => r \in fault
    /\ wpc[r] = "error" \/ conn[r] \in {"error", "404", "closed"} \/ outcome[r] = "failed"
           => r \in fault

LinkInv  == \A r \in Requests : Linked(r)
CauseInv == \A r \in Requests : Caused(r)

LEMMA InitLink == Init => LinkInv /\ CauseInv
  BY DEF Init, HubInit, Worker!Init, Service!Init, LinkInv, CauseInv, Linked, Caused

LEMMA SameLink ==
  ASSUME NEW r, Linked(r),
         conn'[r] = conn[r], outcome'[r] = outcome[r], abandoned' = abandoned
  PROVE  Linked(r)'
  BY DEF Linked

\* The hub changes the outcome only of jobs that are not served, but for a verdict.
LEMMA HubNextOutcome ==
  ASSUME HubInv, HubNext, NEW r \in Requests
  PROVE  \/ outcome'[r] = outcome[r]
         \/ outcome[r] = "none" /\ outcome'[r] = "waiting" /\ rpc[r] = "submit"
         \/ outcome[r] \in {"succeeded", "failed", "expired"}
               /\ outcome'[r] \in {"expired", "forgotten"}
  <1>1. DOMAIN outcome = Requests
    BY DEF HubInv, HubTypeOK, Service!TypeOK
  <1>2. CASE Main
    BY <1>2
    DEF Main, StartReceiver, ReceiverFails, StartJobs, StartBridge, StartHttp,
        HttpFails, StartMcp, McpFails, Interrupt, CloseHttp, StopReceiver, StopJobs,
        Enter, Exit, Service!Stop, serviceVars
  <1>3. ASSUME NEW s \in Requests, Submit(s)
        PROVE  \/ outcome'[r] = outcome[r]
               \/ outcome[r] = "none" /\ outcome'[r] = "waiting" /\ rpc[r] = "submit"
    BY <1>1, <1>3 DEF Submit, Service!Accept
  <1>4. ASSUME NEW old, NEW dead, AgeJobs(old, dead)
        PROVE  \/ outcome'[r] = outcome[r]
               \/ outcome[r] \in {"succeeded", "failed", "expired"}
                     /\ outcome'[r] \in {"expired", "forgotten"}
    BY <1>4 DEF AgeJobs, Service!Age
  <1>5. CASE UNCHANGED outcome
    BY <1>5
  <1> QED
    BY <1>2, <1>3, <1>4, <1>5
    DEF HubNext, Request, Refuse, NoReply, Admit, NoAudio, ExtractFails, AnswerAudio,
        ExtractClip, QueueFull, Withdraw, Reply, Poll, SweepClip, serviceVars

LEMMA NextLink == HubInv /\ WorkerInv /\ LinkInv /\ [Next]_vars => LinkInv'
  <1> SUFFICES ASSUME HubInv, WorkerInv, LinkInv, [Next]_vars, NEW r \in Requests
               PROVE  Linked(r)'
    BY DEF LinkInv
  <1>1. Linked(r)
    BY DEF LinkInv
  <1>2. /\ DOMAIN conn = Requests /\ DOMAIN outcome = Requests /\ DOMAIN wpc = Requests
        /\ conn[r] \in {"none", "open", "ok", "error", "404", "closed"}
    BY DEF HubInv, HubTypeOK, Service!TypeOK, WorkerInv, Worker!TypeOK
  <1>3. CASE HubNext /\ UNCHANGED <<workerVars, abandoned>>
    BY <1>1, <1>3, HubNextOutcome DEF workerVars, Linked
  <1>4. CASE Worker!Next /\ UNCHANGED <<hubVars, abandoned>>
    <2>1. outcome'[r] = outcome[r]
      BY <1>4 DEF hubVars, serviceVars
    <2>2. conn'[r] = conn[r] \/ (conn[r] = "open" /\ conn'[r] # "open")
      <3>1. CASE Worker!Crash
        BY <1>2, <3>1 DEF Worker!Crash
      <3>2. CASE Worker!Start
        BY <3>2 DEF Worker!Start
      <3>3. ASSUME NEW s \in Requests, Worker!NotFound(s) \/ Worker!Answer(s)
            PROVE  conn'[r] = conn[r] \/ (conn[r] = "open" /\ conn'[r] # "open")
        <4>1. wpc[s] \in Worker!Busy
          BY <3>3 DEF Worker!NotFound, Worker!Answer, Worker!Go
        <4>2. conn[s] = "open"
          BY <4>1 DEF WorkerInv, Worker!TypeOK
        <4>3. \A t \in Requests \ {s} : conn'[t] = conn[t]
          BY <1>2, <3>3 DEF Worker!NotFound, Worker!Answer
        <4>4. conn'[s] # "open"
          BY <1>2, <3>3 DEF Worker!NotFound, Worker!Answer
        <4> QED
          BY <4>2, <4>3, <4>4
      <3>4. CASE UNCHANGED conn
        BY <3>4
      <3> QED
        BY <1>4, <3>1, <3>2, <3>3, <3>4
        DEF Worker!Next, Worker!Thread, Worker!Trouble, Worker!NoKey, Worker!BuildPayload,
            Worker!CloudAnswers, Worker!CloudFails, Worker!TestModel, Worker!GetModel,
            Worker!ImportFails, Worker!Loaded, Worker!LoadFails, Worker!LastLoadFails,
            Worker!ReturnModel, Worker!Hear, Worker!HearFails
    <2> QED
      BY <1>1, <1>4, <2>1, <2>2 DEF Linked
  <1>5. CASE Serve
    <2>1. outcome'[r] = outcome[r] \/ outcome'[r] = "serving"
      BY <1>2, <1>5 DEF Serve, Service!Serve
    <2> QED
      BY <1>1, <1>5, <2>1 DEF Serve, workerVars, Linked
  <1>6. ASSUME NEW s \in Requests, Post(s)
        PROVE  Linked(r)'
    <2>1. CASE s = r
      BY <1>1, <1>2, <1>6, <2>1 DEF Post, Worker!Connect, hubVars, serviceVars, Linked
    <2>2. CASE s # r
      BY <1>1, <1>2, <1>6, <2>2, SameLink DEF Post, Worker!Connect, hubVars, serviceVars
    <2> QED
      BY <2>1, <2>2
  <1>7. ASSUME NEW s \in Requests, PostFails(s) \/ ReadAnswer(s) \/ GiveUp(s)
        PROVE  Linked(r)'
    <2>1. conn' = conn
      BY <1>7 DEF PostFails, ReadAnswer, GiveUp, workerVars
    <2>2. outcome'[s] \in {"succeeded", "failed"} /\ (s # r => outcome'[r] = outcome[r])
      BY <1>2, <1>7 DEF PostFails, ReadAnswer, GiveUp, Finish, Service!Deliver
    <2>3. abandoned \subseteq abandoned'
      BY <1>7 DEF PostFails, ReadAnswer, GiveUp
    <2>4. conn[s] # "open" \/ s \in abandoned'
      BY <1>7 DEF PostFails, ReadAnswer, GiveUp
    <2> QED
      BY <1>1, <2>1, <2>2, <2>3, <2>4 DEF Linked
  <1>8. CASE UNCHANGED vars
    BY <1>1, <1>8, SameLink DEF vars, workerVars, hubVars, serviceVars
  <1> QED
    BY <1>3, <1>4, <1>5, <1>6, <1>7, <1>8 DEF Next, Dispatcher

LEMMA SameCause ==
  ASSUME NEW r, Caused(r), wpc'[r] = wpc[r], conn'[r] = conn[r],
         outcome'[r] = "failed" => outcome[r] = "failed",
         abandoned' = abandoned, fault \subseteq fault'
  PROVE  Caused(r)'
  BY DEF Caused

\* A step of a request's thread in the worker, seen by that request: if nothing has gone
\* wrong so far its job is still served, so its clip is there and not too long.
LEMMA ThreadCause ==
  ASSUME HubInv, WorkerInv, LinkInv, CauseInv, SharedDir,
         NEW r \in Requests, Worker!Thread(r), UNCHANGED <<hubVars, abandoned>>
  PROVE  Caused(r)'
  <1>1. Caused(r) /\ Linked(r) /\ RequestOK(r)
    BY DEF CauseInv, LinkInv, HubInv
  <1>2. /\ DOMAIN wpc = Requests /\ DOMAIN conn = Requests
        /\ wpc[r] \in Worker!Busy => conn[r] = "open"
        /\ UNCHANGED <<outcome, abandoned>>
    BY DEF WorkerInv, Worker!TypeOK, hubVars, serviceVars
  <1>3. fault \subseteq fault'
    BY DEF Worker!Thread, Worker!Trouble, Worker!NotFound, Worker!NoKey,
           Worker!BuildPayload, Worker!CloudAnswers, Worker!CloudFails, Worker!TestModel,
           Worker!GetModel, Worker!ImportFails, Worker!Loaded, Worker!LoadFails,
           Worker!LastLoadFails, Worker!ReturnModel, Worker!Hear, Worker!HearFails,
           Worker!Answer
  <1>4. ASSUME r \notin fault, wpc[r] \in Worker!Busy
        PROVE  clips[r] \in 0..MaxAudio
    <2>1. outcome[r] = "serving"
      BY <1>1, <1>2, <1>4 DEF Caused, Linked
    <2> QED
      BY <1>1, <2>1 DEF RequestOK, ClipFits
  <1>5. ASSUME fault' = fault \cup {r}
        PROVE  Caused(r)'
    BY <1>5 DEF Caused
  <1>6. ASSUME NEW pc \in {"load", "return", "hear", "ok", "post"},
               wpc'[r] = pc, conn' = conn
        PROVE  Caused(r)'
    BY <1>1, <1>2, <1>3, <1>6 DEF Caused
  <1>7. ASSUME NEW from, Worker!Trouble(r, from)
        PROVE  Caused(r)'
    BY <1>5, <1>7 DEF Worker!Trouble
  <1>8. CASE Worker!NotFound(r)
    BY <1>5, <1>8 DEF Worker!NotFound
  <1>9. CASE Worker!BuildPayload(r)
    <2>1. CASE r \in fault
      BY <1>3, <2>1 DEF Caused
    <2>2. CASE r \notin fault
      <3>1. wpc[r] \in Worker!Busy
        BY <1>9 DEF Worker!BuildPayload, Worker!Go
      <3>2. clips[r] \in 0..MaxAudio
        BY <1>4, <2>2, <3>1
      <3>3. wpc'[r] = "post" /\ conn' = conn
        BY <1>2, <1>9, <3>2 DEF Worker!BuildPayload, Worker!Go
      <3> QED
        BY <1>6, <3>3
    <2> QED
      BY <2>1, <2>2
  <1>10. CASE Worker!CloudAnswers(r) \/ Worker!Loaded(r) \/ Worker!ReturnModel(r) \/ Worker!Hear(r)
    BY <1>2, <1>6, <1>10
    DEF Worker!CloudAnswers, Worker!Loaded, Worker!ReturnModel, Worker!Hear, Worker!Go
  <1>11. CASE Worker!TestModel(r)
    <2>1. wpc'[r] \in {"load", "return"} /\ conn' = conn
      BY <1>2, <1>11 DEF Worker!TestModel, Worker!GetModel, Worker!Go
    <2> QED
      BY <1>6, <2>1
  <1>12. CASE Worker!LoadFails(r)
    BY <1>1, <1>2, <1>3, <1>12, SameCause DEF Worker!LoadFails
  <1>13. CASE Worker!LastLoadFails(r)
    <2>1. CASE model = NoModel
      BY <1>5, <1>13, <2>1 DEF Worker!LastLoadFails
    <2>2. CASE model # NoModel
      BY <1>2, <1>6, <1>13, <2>2 DEF Worker!LastLoadFails, Worker!Go
    <2> QED
      BY <2>1, <2>2
  <1>14. CASE Worker!HearFails(r)
    <2>1. CASE r \in fault
      BY <1>3, <2>1 DEF Caused
    <2>2. CASE r \notin fault
      <3>1. wpc[r] \in Worker!Busy
        BY <1>14 DEF Worker!HearFails, Worker!Go
      <3>2. clips[r] # NoFile
        BY <1>4, <2>2, <3>1
      <3>3. fault' = fault \cup {r}
        BY <1>14, <3>2 DEF Worker!HearFails
      <3> QED
        BY <1>5, <3>3
    <2> QED
      BY <2>1, <2>2
  <1>15. CASE Worker!Answer(r)
    <2>1. CASE r \in fault
      BY <1>3, <2>1 DEF Caused
    <2>2. CASE r \notin fault
      <3>1. wpc[r] \in {"ok", "error"}
        BY <1>15 DEF Worker!Answer
      <3>2. clips[r] # NoFile
        BY <1>4, <2>2, <3>1
      <3>3. wpc[r] = "ok"
        BY <1>1, <2>2, <3>1 DEF Caused
      <3>4. conn'[r] = "ok" /\ wpc'[r] = "idle"
        BY <1>2, <1>15, <3>2, <3>3 DEF Worker!Answer
      <3> QED
        BY <1>1, <1>2, <1>3, <2>2, <3>4 DEF Caused
    <2> QED
      BY <2>1, <2>2
  <1> QED
    BY <1>7, <1>8, <1>9, <1>10, <1>11, <1>12, <1>13, <1>14, <1>15
    DEF Worker!Thread, Worker!NoKey, Worker!CloudFails, Worker!ImportFails

\* Seen by any other request.
LEMMA ThreadOther ==
  ASSUME WorkerInv, NEW r \in Requests, Worker!Thread(r), NEW s \in Requests, s # r
  PROVE  /\ wpc'[s] = wpc[s] /\ conn'[s] = conn[s] /\ held'[s] = held[s]
         /\ fault \subseteq fault'
  <1>1. DOMAIN wpc = Requests /\ DOMAIN conn = Requests /\ DOMAIN held = Requests
    BY DEF WorkerInv, Worker!TypeOK
  <1> QED
    BY <1>1
    DEF Worker!Thread, Worker!Trouble, Worker!NotFound, Worker!NoKey, Worker!Go,
        Worker!BuildPayload, Worker!CloudAnswers, Worker!CloudFails, Worker!TestModel,
        Worker!GetModel, Worker!ImportFails, Worker!Loaded, Worker!LoadFails,
        Worker!LastLoadFails, Worker!ReturnModel, Worker!Hear, Worker!HearFails,
        Worker!Answer

LEMMA NextCause ==
  HubInv /\ WorkerInv /\ LinkInv /\ SharedDir /\ CauseInv /\ [Next]_vars => CauseInv'
  <1> SUFFICES ASSUME HubInv, WorkerInv, LinkInv, SharedDir, CauseInv, [Next]_vars,
                      NEW r \in Requests
               PROVE  Caused(r)'
    BY DEF CauseInv
  <1>1. Caused(r)
    BY DEF CauseInv
  <1>2. /\ DOMAIN conn = Requests /\ DOMAIN outcome = Requests /\ DOMAIN wpc = Requests
    BY DEF HubInv, HubTypeOK, Service!TypeOK, WorkerInv, Worker!TypeOK
  <1>3. CASE HubNext /\ UNCHANGED <<workerVars, abandoned>>
    <2>1. outcome'[r] = "failed" => outcome[r] = "failed"
      BY <1>3, HubNextOutcome
    <2> QED
      BY <1>1, <1>3, <2>1, SameCause DEF workerVars
  <1>4. CASE Worker!Next /\ UNCHANGED <<hubVars, abandoned>>
    <2>1. UNCHANGED <<outcome, abandoned>>
      BY <1>4 DEF hubVars, serviceVars
    <2>2. CASE Worker!Start
      BY <1>1, <2>1, <2>2, SameCause DEF Worker!Start
    <2>3. CASE Worker!Crash
      <3>1. /\ wpc'[r] = "idle" /\ fault \subseteq fault'
            /\ conn[r] = "open" => r \in fault'
            /\ conn[r] # "open" => conn'[r] = conn[r]
        BY <1>2, <2>3 DEF Worker!Crash
      <3> QED
        BY <1>1, <2>1, <3>1 DEF Caused
    <2>4. ASSUME NEW s \in Requests, Worker!Thread(s)
          PROVE  Caused(r)'
      <3>1. CASE s = r
        BY <1>4, <2>4, <3>1, ThreadCause
      <3>2. CASE s # r
        BY <1>1, <2>1, <2>4, <3>2, ThreadOther, SameCause
      <3> QED
        BY <3>1, <3>2
    <2> QED
      BY <1>4, <2>2, <2>3, <2>4 DEF Worker!Next
  <1>5. CASE Serve
    <2>1. outcome'[r] = outcome[r] \/ outcome'[r] = "serving"
      BY <1>2, <1>5 DEF Serve, Service!Serve
    <2> QED
      BY <1>1, <1>5, <2>1, SameCause DEF Serve, workerVars
  <1>6. ASSUME NEW s \in Requests, Post(s)
        PROVE  Caused(r)'
    <2>1. outcome' = outcome /\ abandoned' = abandoned /\ fault' = fault
      BY <1>6 DEF Post, Worker!Connect, hubVars, serviceVars
    <2>2. CASE s = r
      BY <1>1, <1>2, <1>6, <2>1, <2>2 DEF Post, Worker!Connect, Caused
    <2>3. CASE s # r
      BY <1>1, <1>2, <1>6, <2>1, <2>3, SameCause DEF Post, Worker!Connect
    <2> QED
      BY <2>2, <2>3
  <1>7. ASSUME NEW s \in Requests, PostFails(s) \/ ReadAnswer(s) \/ GiveUp(s)
        PROVE  Caused(r)'
    <2>1. UNCHANGED <<wpc, conn>>
      BY <1>7 DEF PostFails, ReadAnswer, GiveUp, workerVars
    <2>2. CASE s # r
      <3>1. outcome'[r] = outcome[r]
        BY <1>2, <1>7, <2>2 DEF PostFails, ReadAnswer, GiveUp, Finish, Service!Deliver
      <3>2. fault \subseteq fault' /\ (r \in abandoned' => r \in abandoned)
        BY <1>7, <2>2 DEF PostFails, ReadAnswer, GiveUp, workerVars
      <3> QED
        BY <1>1, <2>1, <3>1, <3>2 DEF Caused
    <2>3. CASE s = r /\ (PostFails(r) \/ GiveUp(r))
      <3>1. r \in fault'
        BY <2>3 DEF PostFails, GiveUp
      <3> QED
        BY <3>1 DEF Caused
    <2>4. CASE s = r /\ ReadAnswer(r)
      <3>1. UNCHANGED <<fault, abandoned>>
        BY <2>4 DEF ReadAnswer, workerVars
      <3>2. conn[r] \in Worker!Answers /\ (outcome'[r] = "failed" => conn[r] # "ok")
        BY <1>2, <2>4 DEF ReadAnswer, Finish, Service!Deliver
      <3> QED
        BY <1>1, <2>1, <3>1, <3>2 DEF Caused
    <2> QED
      BY <1>7, <2>2, <2>3, <2>4
  <1>8. CASE UNCHANGED vars
    BY <1>1, <1>8, SameCause DEF vars, workerVars, hubVars, serviceVars
  <1> QED
    BY <1>3, <1>4, <1>5, <1>6, <1>7, <1>8 DEF Next, Dispatcher

\* If the worker sees the hub's clips, a job fails only for a cause outside of the two
\* processes: its clip is where the worker looks for it, of a length it takes, for as
\* long as anybody waits for the answer.
THEOREM FailuresHaveCauses == SharedDir => (Spec => []FailureHasCause)
  <1> SUFFICES ASSUME SharedDir PROVE Spec => []FailureHasCause
    OBVIOUS
  <1>1. Init => HubInv /\ WorkerInv /\ LinkInv /\ CauseInv
    BY InitHub, InitWorker, InitLink
  <1>2. HubInv /\ WorkerInv /\ LinkInv /\ CauseInv /\ [Next]_vars
           => (HubInv /\ WorkerInv /\ LinkInv /\ CauseInv)'
    BY NextHub, NextWorker, NextLink, NextCause
  <1>3. CauseInv => FailureHasCause
    BY DEF CauseInv, Caused, FailureHasCause
  <1> QED
    BY <1>1, <1>2, <1>3, PTL DEF Spec

-----------------------------------------------------------------------------
(* The worker's model. *)

\* A thread has a model, or is about to take it, only when there is one.
ModelThere ==
    \A r \in Requests : held[r] # NoModel \/ wpc[r] = "return" => model # NoModel

LoadInv == ModelThere /\ ModelLoadedOnce

LEMMA InitLoad == Init => LoadInv
  BY DEF Init, Worker!Init, LoadInv, ModelThere, ModelLoadedOnce, Worker!Copies

\* Models that go away make no copy.
LEMMA FewerCopies ==
  ASSUME ModelLoadedOnce, Worker!Copies' \subseteq Worker!Copies, abandoned \subseteq abandoned'
  PROVE  ModelLoadedOnce'
  BY DEF ModelLoadedOnce

\* Nothing of the local backend changes.
LEMMA SameModel ==
  ASSUME LoadInv, UNCHANGED <<model, held>>, abandoned \subseteq abandoned',
         \A r \in Requests : /\ wpc'[r] = "return" => wpc[r] = "return" \/ model # NoModel
                             /\ wpc'[r] = "load" => wpc[r] = "load"
  PROVE  LoadInv'
  <1>1. Worker!Copies' \subseteq Worker!Copies
    BY DEF Worker!Copies
  <1>2. ModelThere'
    BY DEF LoadInv, ModelThere
  <1> QED
    BY <1>1, <1>2, FewerCopies DEF LoadInv

LEMMA ThreadLoad ==
  ASSUME HubInv, WorkerInv, LinkInv, LoadInv,
         NEW r \in Requests, Worker!Thread(r), UNCHANGED <<hubVars, abandoned>>
  PROVE  LoadInv'
  <1>1. /\ DOMAIN wpc = Requests /\ DOMAIN held = Requests
        /\ NoModel \notin Requests
    BY WorkerAssumption DEF WorkerInv, Worker!TypeOK
  <1>2. \A s \in Requests \ {r} : wpc'[s] = wpc[s] /\ held'[s] = held[s]
    BY ThreadOther
  <1>3. ASSUME UNCHANGED <<model, held>>,
               wpc'[r] = "return" => wpc[r] = "return" \/ model # NoModel,
               wpc'[r] = "load" => wpc[r] = "load"
        PROVE  LoadInv'
    BY <1>2, <1>3, SameModel
  <1>4. ASSUME NEW from, Worker!Trouble(r, from)
        PROVE  LoadInv'
    <2>1. wpc'[r] = "error" /\ UNCHANGED <<model, held>>
      BY <1>1, <1>4 DEF Worker!Trouble, Worker!Go
    <2> QED
      BY <1>3, <2>1
  <1>5. CASE Worker!NotFound(r) \/ Worker!BuildPayload(r) \/ Worker!CloudAnswers(r)
                \/ Worker!Hear(r) \/ Worker!HearFails(r)
    <2>1. wpc'[r] \in {"idle", "post", "error", "ok"} /\ UNCHANGED <<model, held>>
      BY <1>1, <1>5
      DEF Worker!NotFound, Worker!BuildPayload, Worker!CloudAnswers, Worker!Hear,
          Worker!HearFails, Worker!Go
    <2> QED
      BY <1>3, <2>1
  <1>6. CASE Worker!LoadFails(r)
    BY <1>3, <1>6 DEF Worker!LoadFails
  <1>7. CASE Worker!LastLoadFails(r)
    <2>1. /\ UNCHANGED <<model, held>> /\ wpc'[r] # "load"
          /\ wpc'[r] = "return" => model # NoModel
      BY <1>1, <1>7 DEF Worker!LastLoadFails, Worker!Go
    <2> QED
      BY <1>3, <2>1
  <1>8. CASE Worker!TestModel(r)
    <2>1. /\ UNCHANGED <<model, held>> /\ wpc[r] = "transcribe"
          /\ wpc'[r] = IF model = NoModel THEN "load" ELSE "return"
      BY <1>1, <1>8 DEF Worker!TestModel, Worker!GetModel, Worker!Go
    <2>2. CASE model # NoModel
      BY <1>3, <2>1, <2>2
    <2>3. CASE model = NoModel
      <3>1. \A s \in Requests : held[s] = NoModel
        BY <2>3 DEF LoadInv, ModelThere
      <3>2. Worker!Copies' \subseteq {s \in Requests : wpc[s] = "load"} \cup {r}
        BY <1>2, <2>1, <2>3, <3>1 DEF Worker!Copies
      <3>3. \A s \in Requests : wpc[s] \in {"load", "transcribe"} => conn[s] = "open"
        BY DEF WorkerInv, Worker!TypeOK
      <3>4. \A s \in Worker!Copies' : s \in abandoned \/ outcome[s] = "serving"
        BY <2>1, <3>2, <3>3 DEF LinkInv, Linked
      <3>5. \A s, t \in Worker!Copies' : s # t => s \in abandoned \/ t \in abandoned
        BY <3>2, <3>4 DEF HubInv, QueueOK
      <3>6. ModelLoadedOnce'
        BY <3>5 DEF ModelLoadedOnce
      <3>7. ModelThere'
        BY <1>2, <2>1, <2>3, <3>1 DEF LoadInv, ModelThere
      <3> QED
        BY <3>6, <3>7 DEF LoadInv
    <2> QED
      BY <2>2, <2>3
  <1>9. CASE Worker!Loaded(r)
    <2>1. /\ model' = r /\ UNCHANGED held
          /\ wpc[r] = "load" /\ wpc'[r] = "return"
      BY <1>1, <1>9 DEF Worker!Loaded, Worker!Go
    <2>2. Worker!Copies' \subseteq Worker!Copies
      BY <1>1, <1>2, <2>1 DEF Worker!Copies
    <2>3. ModelThere'
      BY <1>1, <2>1 DEF ModelThere
    <2> QED
      BY <2>2, <2>3, FewerCopies DEF LoadInv
  <1>10. CASE Worker!ReturnModel(r)
    <2>1. /\ UNCHANGED model /\ held'[r] = model
          /\ wpc[r] = "return" /\ wpc'[r] = "hear"
      BY <1>1, <1>10 DEF Worker!ReturnModel, Worker!Go
    <2>2. Worker!Copies' \subseteq Worker!Copies
      BY <1>2, <2>1 DEF Worker!Copies
    <2>3. ModelThere'
      BY <1>2, <2>1 DEF LoadInv, ModelThere
    <2> QED
      BY <2>2, <2>3, FewerCopies DEF LoadInv
  <1>11. CASE Worker!Answer(r)
    <2>1. UNCHANGED model /\ held'[r] = NoModel /\ wpc'[r] = "idle"
      BY <1>1, <1>11 DEF Worker!Answer
    <2>2. Worker!Copies' \subseteq Worker!Copies
      BY <1>2, <2>1 DEF Worker!Copies
    <2>3. ModelThere'
      BY <1>2, <2>1 DEF LoadInv, ModelThere
    <2> QED
      BY <2>2, <2>3, FewerCopies DEF LoadInv
  <1> QED
    BY <1>4, <1>5, <1>6, <1>7, <1>8, <1>9, <1>10, <1>11
    DEF Worker!Thread, Worker!NoKey, Worker!CloudFails, Worker!ImportFails

LEMMA NextLoad ==
  HubInv /\ WorkerInv /\ LinkInv /\ LoadInv /\ [Next]_vars => LoadInv'
  <1> SUFFICES ASSUME HubInv, WorkerInv, LinkInv, LoadInv, [Next]_vars PROVE LoadInv'
    OBVIOUS
  <1>1. CASE UNCHANGED <<model, held, wpc>> /\ abandoned \subseteq abandoned'
    BY <1>1, SameModel
  <1>2. CASE Worker!Next /\ UNCHANGED <<hubVars, abandoned>>
    <2>1. CASE Worker!Start
      BY <1>1, <1>2, <2>1 DEF Worker!Start
    <2>2. CASE Worker!Crash
      <3>1. model' = NoModel /\ \A r \in Requests : held'[r] = NoModel /\ wpc'[r] = "idle"
        BY <2>2 DEF Worker!Crash
      <3>2. Worker!Copies' = {}
        BY <3>1 DEF Worker!Copies
      <3>3. ModelThere'
        BY <3>1 DEF ModelThere
      <3> QED
        BY <3>2, <3>3 DEF LoadInv, ModelLoadedOnce
    <2>3. ASSUME NEW r \in Requests, Worker!Thread(r)
          PROVE  LoadInv'
      BY <1>2, <2>3, ThreadLoad
    <2> QED
      BY <1>2, <2>1, <2>2, <2>3 DEF Worker!Next
  <1>3. ASSUME NEW r \in Requests, Post(r)
        PROVE  LoadInv'
    <2>1. \A s \in Requests : wpc'[s] = wpc[s] \/ wpc'[s] = "transcribe"
      BY <1>3 DEF Post, Worker!Connect, WorkerInv, Worker!TypeOK
    <2> QED
      BY <1>3, <2>1, SameModel DEF Post, Worker!Connect
  <1> QED
    BY <1>1, <1>2, <1>3
    DEF Next, vars, workerVars, Dispatcher, Serve, PostFails, ReadAnswer, GiveUp

\* The model is in memory twice only if the hub gave up one of the requests that load
\* it: one job is served at a time, and nothing else keeps two threads from loading.
THEOREM ModelIsLoadedOnce == Spec => []ModelLoadedOnce
  <1>1. Init => HubInv /\ WorkerInv /\ LinkInv /\ LoadInv
    BY InitHub, InitWorker, InitLink, InitLoad
  <1>2. HubInv /\ WorkerInv /\ LinkInv /\ LoadInv /\ [Next]_vars
           => (HubInv /\ WorkerInv /\ LinkInv /\ LoadInv)'
    BY NextHub, NextWorker, NextLink, NextLoad
  <1>3. LoadInv => ModelLoadedOnce
    BY DEF LoadInv
  <1> QED
    BY <1>1, <1>2, <1>3, PTL DEF Spec

-----------------------------------------------------------------------------
(* The two processes together use the job service as JobService has it, which *)
(* SttJobs implements, so that its promises hold on the whole path.           *)

Promise == INSTANCE JobServiceProofs WITH Jobs <- Requests

\* A step that leaves the service alone.
LEMMA ServiceAlone ==
  ASSUME UNCHANGED serviceVars
  PROVE  UNCHANGED Service!vars
  BY DEF serviceVars, Service!vars

LEMMA HubUsesService == ASSUME HubNext PROVE [Service!Next]_(Service!vars)
  <1>1. CASE StopJobs
    BY <1>1 DEF StopJobs, Service!Next
  <1>2. ASSUME NEW r \in Requests, Submit(r) PROVE Service!Next
    BY <1>2 DEF Submit, Service!Next
  <1>3. ASSUME NEW old \in SUBSET Ageing, NEW dead \in SUBSET Ageing, AgeJobs(old, dead)
        PROVE  Service!Next
    BY <1>3, HubAssumption DEF AgeJobs, Service!Next
  <1>4. CASE UNCHANGED serviceVars
    BY <1>4, ServiceAlone
  <1> QED
    BY <1>1, <1>2, <1>3, <1>4
    DEF HubNext, Main, StartReceiver, ReceiverFails, StartJobs, StartBridge, StartHttp,
        HttpFails, StartMcp, McpFails, Interrupt, CloseHttp, StopReceiver, Enter, Exit,
        Request, Refuse, NoReply, Admit, NoAudio, ExtractFails, AnswerAudio, ExtractClip,
        QueueFull, Withdraw, Reply, Poll, SweepClip

\* Whatever the entry points, the requests, the calls of the worker and their failures
\* do to the jobs is a step of JobService (HubRuntime, SttJobManager._run).
THEOREM PathUsesService == Spec => Service!Spec
  <1>1. Init => Service!Init
    BY DEF Init, HubInit
  <1>2. ASSUME [Next]_vars PROVE [Service!Next]_(Service!vars)
    <2>1. CASE HubNext
      BY <2>1, HubUsesService
    <2>2. CASE Serve
      BY <2>2 DEF Serve, Service!Next
    <2>3. ASSUME NEW r \in Requests, PostFails(r) \/ ReadAnswer(r) \/ GiveUp(r)
          PROVE  Service!Next
      BY <2>3 DEF PostFails, ReadAnswer, GiveUp, Finish, Service!Next
    <2>4. CASE UNCHANGED hubVars
      BY <2>4, ServiceAlone DEF hubVars
    <2> QED
      BY <1>2, <2>1, <2>2, <2>3, <2>4 DEF Next, Dispatcher, Post, vars
  <1> QED
    BY <1>1, <1>2, PTL DEF Spec, Service!Spec

LEMMA PromisedService == Service!Spec => Promise!Spec
  <1>1. Service!Init => Promise!Init
    BY DEF Service!Init, Promise!Init
  <1>2. [Service!Next]_(Service!vars) => [Promise!Next]_(Promise!vars)
    BY DEF Service!Next, Service!vars, Service!Accept, Service!Serve, Service!Deliver,
           Service!Age, Service!Stop, Service!Verdicts,
           Promise!Next, Promise!vars, Promise!Accept, Promise!Serve, Promise!Deliver,
           Promise!Age, Promise!Stop, Promise!Verdicts
  <1> QED
    BY <1>1, <1>2, PTL DEF Service!Spec, Promise!Spec

\* The worker is called for the requests in the order their jobs were accepted, whichever
\* of the two doors they came through and whatever became of the calls before.
THEOREM RequestsAreServedInOrder == Spec => Promise!FirstComeFirstServed
  BY PathUsesService, PromisedService, Promise!ServiceIsFifo, HubAssumption, PTL

\* A worker that answers after the hub gave it up overturns no verdict.
THEOREM VerdictsOfRequestsStand == Spec => Promise!VerdictsStand
  BY PathUsesService, PromisedService, Promise!VerdictsAreFinal, HubAssumption, PTL
=============================================================================
