---------------------------- MODULE LifecycleProofs ----------------------------
(***************************************************************************)
(* Proofs about Lifecycle, for every set of requests that may fail and     *)
(* every bound: type correctness, SpawnSafe, OneSession and ReadyNotStale, *)
(* and what the node believes of the session: ScanStopsPaired, ViewAgrees. *)
(*                                                                         *)
(* The argument has three parts.  Handshake: a SHUTDOWN is under way only  *)
(* while stop() is, so `running' cannot be cleared behind the main thread's*)
(* back, and stop() comes back only when the thread is joined.  OneSession *)
(* follows the backend through thread_main.  Freshness: an event that may  *)
(* announce the backend is queued in a running session only if the thread  *)
(* is past its initialize().                                               *)
(*                                                                         *)
(* The view adds two more.  ScanHeard: the queued events lead the client   *)
(* from the last scan signal it heard to one that knows of the scan in     *)
(* progress.  Told: once the backend is announced, they lead the node from *)
(* what it believes of the radio and the backend to what was said of them. *)
(***************************************************************************)
EXTENDS Lifecycle, Histories

NoShutdownQueued == /\ command # "SHUTDOWN"
                    /\ \A i \in 1..Len(command_queue) : command_queue[i] # "SHUTDOWN"

Handshake == /\ stop_pc = "none" /\ running => NoShutdownQueued
             /\ stop_pc = "none" /\ ~running => worker = "none"
             /\ stop_pc = "joining" => ~running
             /\ worker = "stopping" => ~running
             /\ command = "SHUTDOWN" => worker = "processing"

Announcements == {"BACKEND_INITIALIZED", "PAIRED_DEVICES_UPDATED"}

Freshness == \A i \in 1..Len(event_queue) :
               running /\ event_queue[i] \in Announcements => worker \in ThreadUp

IInv == TypeOK /\ OneSession /\ Handshake /\ Freshness

-----------------------------------------------------------------------------
(* The operations of the session                                           *)

\* The session is neither begun nor ended.
SessionKept == UNCHANGED <<initialized, agent>>

\* Emitting events keeps a queue of events.
LEMMA EmitType ==
  ASSUME event_queue \in Seq(Events), NEW s \in Seq(Events), Emit(s)
  PROVE  event_queue' \in Seq(Events)
BY DEF Emit

\* Two pieces of an emission make an emission.
LEMMA ConcatType ==
  ASSUME NEW s \in Seq(Events), NEW t \in Seq(Events)
  PROVE  s \o t \in Seq(Events)
OBVIOUS

\* Every single event, and none, can be emitted.
LEMMA SingleType == <<>> \in Seq(Events) /\ <<>> \in Seq(Commands) /\ \A e \in Events : <<e>> \in Seq(Events)
OBVIOUS

\* stop_scan keeps the types and the session, begins no scan, and leaves bluetoothd's
\* discovery alone while the scan goes on.
LEMMA StopScanKeeps ==
  ASSUME SessionType, StopScan
  PROVE  /\ SessionType' /\ SessionKept
         /\ scanning' => scanning /\ UNCHANGED discovering
<1>1. CASE ~scanning /\ UNCHANGED <<sessionVars, event_queue>>
  BY <1>1 DEF SessionType, SessionKept, sessionVars
<1>2. CASE scanning /\ EndDiscovery /\ Emit(<<"SCAN_STOPPED">>)
           /\ UNCHANGED <<initialized, agent, adapter_powered>>
  <2>1. event_queue' \in Seq(Events)
    BY <1>2 DEF SessionType, Emit, Events
  <2>2. scanning' = FALSE /\ scan_deadline' = "none" /\ discovering' \in BOOLEAN
    BY <1>2 DEF EndDiscovery, SessionType
  <2> QED BY <1>2, <2>1, <2>2 DEF SessionType, SessionKept
<1> QED BY <1>1, <1>2 DEF StopScan

\* The errors are events, and neither scan signals nor announcements.
LEMMA ErrorTypes ==
  /\ InitializeErrors \subseteq Events /\ OtherErrors \subseteq Events
  /\ \A e \in InitializeErrors \cup OtherErrors :
       e \notin {"BACKEND_INITIALIZED", "PAIRED_DEVICES_UPDATED", "SCAN_STARTED", "SCAN_STOPPED"}
  /\ InitializeErrors \cap OtherErrors = {}
  /\ RadioOffErrors \subseteq InitializeErrors \cup OtherErrors
BY DEF Events, InitializeErrors, OtherErrors, RadioOffErrors

\* What a paired-device snapshot emits are events.
LEMMA SnapshotsType == Snapshots \subseteq Seq(Events)
<1>1. <<"PAIRED_DEVICES_UPDATED">> \in Seq(Events)
  BY DEF Events
<1>2. \A e \in OtherErrors : <<e, "PAIRED_DEVICES_UPDATED">> \in Seq(Events)
  <2>1. "PAIRED_DEVICES_UPDATED" \in Events
    BY DEF Events
  <2> QED BY <2>1, ErrorTypes
<1> QED BY <1>1, <1>2, Zenon DEF Snapshots

\* start_scan keeps the types and the session, and a scan it leaves running has a
\* discovery.
LEMMA StartScanKeeps ==
  ASSUME SessionType, NEW timed \in BOOLEAN, StartScan(timed)
  PROVE  /\ SessionType' /\ SessionKept
         /\ scanning' => \/ scanning /\ UNCHANGED discovering
                         \/ discovering'
<1>1. CASE scanning /\ UNCHANGED <<sessionVars, event_queue>>
  BY <1>1 DEF SessionType, SessionKept, sessionVars
<1>2. CASE ~scanning
  <2>1. PICK s \in Snapshots, e \in OtherErrors :
          \/ /\ scanning' = TRUE /\ discovering' = TRUE
             /\ Emit(<<"SCAN_STARTED">> \o s)
          \/ /\ Emit(<<"SCAN_STARTED">> \o s \o <<e>>)
             /\ UNCHANGED <<scanning, discovering>>
    BY <1>2 DEF StartScan, OtherErrors
  <2> DEFINE begun == <<"SCAN_STARTED">> \o s
             failed == begun \o <<e>>
  <2>2. begun \in Seq(Events) /\ failed \in Seq(Events)
    <3>1. <<"SCAN_STARTED">> \in Seq(Events) /\ <<e>> \in Seq(Events)
      BY SingleType, ErrorTypes DEF Events
    <3>2. s \in Seq(Events)
      BY SnapshotsType
    <3> HIDE DEF begun
    <3>3. begun \in Seq(Events)
      BY <3>1, <3>2, ConcatType DEF begun
    <3> QED BY <3>1, <3>3, ConcatType
  <2>3. event_queue' \in Seq(Events)
    <3>1. Emit(begun) \/ Emit(failed)
      BY <2>1
    <3> HIDE DEF begun, failed
    <3> QED BY <3>1, <2>2, EmitType DEF SessionType
  <2>4. scan_deadline' \in {"none", "armed", "passed"}
    BY <1>2 DEF StartScan
  <2>5. UNCHANGED <<initialized, agent, adapter_powered>>
    BY <1>2 DEF StartScan
  <2>6. \/ scanning' = TRUE /\ discovering' = TRUE
        \/ UNCHANGED <<scanning, discovering>>
    BY <2>1
  <2>7. scanning' \in BOOLEAN /\ discovering' \in BOOLEAN
    BY <2>6 DEF SessionType
  <2>8. SessionType'
    BY <2>3, <2>4, <2>5, <2>7 DEF SessionType
  <2> QED BY <1>2, <2>5, <2>6, <2>8 DEF SessionKept
<1> QED BY <1>1, <1>2 DEF StartScan

\* refresh_paired_devices keeps the types and every part of the session.
LEMMA RefreshKeeps ==
  ASSUME SessionType, RefreshPairedDevices
  PROVE  SessionType' /\ SessionKept /\ UNCHANGED <<scanning, discovering>>
<1>1. PICK s \in Snapshots : event_queue' = event_queue \o s
  BY DEF RefreshPairedDevices, Emit
<1>2. event_queue' \in Seq(Events)
  BY <1>1, SnapshotsType DEF SessionType
<1> QED BY <1>2 DEF RefreshPairedDevices, SessionType, SessionKept, sessionVars

\* A command on a device keeps the types and every part of the session.
LEMMA DeviceKeeps ==
  ASSUME SessionType, DeviceCommand
  PROVE  SessionType' /\ SessionKept /\ UNCHANGED <<scanning, discovering>>
<1>1. event_queue' \in Seq(Events)
  <2>1. Emit(<<>>) \/ \E e \in OtherErrors : Emit(<<e>>)
    BY DEF DeviceCommand
  <2> QED BY <2>1, ErrorTypes, SingleType, EmitType DEF SessionType
<1> QED BY <1>1 DEF DeviceCommand, SessionType, SessionKept, sessionVars

\* No command begins or ends the session, and none leaves a scan without discovery.
LEMMA ExecuteKeeps ==
  ASSUME SessionType, NEW c, Execute(c)
  PROVE  /\ SessionType' /\ SessionKept
         /\ scanning' => \/ scanning /\ UNCHANGED discovering
                         \/ discovering'
<1>1. CASE UNCHANGED <<sessionVars, event_queue>>
  BY <1>1 DEF SessionType, SessionKept, sessionVars
<1>2. CASE RefreshPairedDevices
  BY <1>2, RefreshKeeps
<1>3. CASE \E timed \in BOOLEAN : StartScan(timed)
  BY <1>3, StartScanKeeps
<1>4. CASE StopScan
  BY <1>4, StopScanKeeps
<1>5. CASE DeviceCommand
  BY <1>5, DeviceKeeps
<1> QED BY <1>1, <1>2, <1>3, <1>4, <1>5 DEF Execute

\* poll keeps the types and the session, and begins no scan.
LEMMA PollKeeps ==
  ASSUME SessionType, Poll
  PROVE  /\ SessionType' /\ SessionKept
         /\ scanning' => scanning /\ UNCHANGED discovering
<1>1. CASE StopScan
  BY <1>1, StopScanKeeps
<1>2. CASE UNCHANGED <<sessionVars, event_queue>>
  BY <1>2 DEF SessionType, SessionKept, sessionVars
<1> QED BY <1>1, <1>2 DEF Poll

\* shutdown leaves nothing of the session: no connection, no agent, no scan.
LEMMA ShutdownEnds ==
  ASSUME SessionType, Shutdown
  PROVE  SessionType' /\ ~initialized' /\ ~agent' /\ ~scanning'
<1>1. event_queue' \in Seq(Events)
  BY DEF Shutdown, SessionType, Emit, Events
<1>2. /\ scanning' = FALSE
      /\ scan_deadline' \in {"none", "armed", "passed"}
      /\ discovering' \in BOOLEAN
  BY DEF Shutdown, SessionType, EndDiscovery
<1> QED BY <1>1, <1>2 DEF Shutdown, SessionType

\* initialize keeps the types, whether it fails or succeeds.
LEMMA InitializeType ==
  ASSUME SessionType, InitializeSucceeds \/ InitializeFails
  PROVE  SessionType'
<1>1. event_queue' \in Seq(Events)
  <2>1. UNCHANGED event_queue \/ Emit(<<>>) \/ \E e \in InitializeErrors : Emit(<<e>>)
    BY DEF InitializeSucceeds, InitializeFails, EnsureAdapterPowered, InitializeErrors
  <2> QED BY <2>1, ErrorTypes, SingleType, EmitType DEF SessionType
<1>2. adapter_powered' \in BOOLEAN
  BY DEF InitializeSucceeds, InitializeFails, EnsureAdapterPowered, SessionType, sessionVars
<1> QED BY <1>1, <1>2 DEF InitializeSucceeds, InitializeFails, SessionType, sessionVars

-----------------------------------------------------------------------------
(* The inductive invariant                                                 *)

\* A queue that grows at its end, or loses its front.
LEMMA QueueTypes ==
  ASSUME ThreadType
  PROVE  /\ \A c \in Commands : Append(command_queue, c) \in Seq(Commands)
         /\ command_queue # <<>> => /\ Head(command_queue) \in Commands
                                   /\ Tail(command_queue) \in Seq(Commands)
BY DEF ThreadType

\* The steps of the main thread keep every variable in its type.
LEMMA MainStepType ==
  ASSUME TypeOK,
         \/ Ready \/ ReadyEnqueue \/ Reenter \/ ExitTree \/ ContinueStop \/ HandleEvent
         \/ \E c \in {"START_SCAN", "START_TIMED_SCAN", "STOP_SCAN", "DEVICE"} : Request(c)
  PROVE  TypeOK'
<1> USE DEF TypeOK
<1>1. CASE Ready
  <2>1. \/ UNCHANGED <<threadVars, event_queue>>
        \/ /\ command_queue' = <<>> /\ event_queue' = <<>>
           /\ running' = TRUE /\ worker' = "starting" /\ UNCHANGED <<command, stop_pc>>
    BY <1>1 DEF Ready, Start
  <2>2. event_queue' \in Seq(Events)
    BY <2>1, SingleType DEF SessionType
  <2>3. command_queue' \in Seq(Commands)
    BY <2>1, SingleType DEF ThreadType, threadVars
  <2>4. ThreadType'
    BY <2>1, <2>3 DEF ThreadType, threadVars, Places
  <2>5. SessionType'
    BY <1>1, <2>2 DEF Ready, SessionType, sessionVars
  <2>6. ManagerType'
    BY <1>1 DEF Ready, ManagerType
  <2> QED BY <2>4, <2>5, <2>6
<1>2. CASE ReadyEnqueue
  <2>1. command_queue' \in Seq(Commands)
    BY <1>2, QueueTypes DEF ReadyEnqueue, Enqueue, Commands
  <2>2. ThreadType'
    BY <1>2, <2>1 DEF ReadyEnqueue, ThreadType
  <2>3. SessionType' /\ ManagerType'
    BY <1>2 DEF ReadyEnqueue, SessionType, sessionVars, ManagerType
  <2> QED BY <2>2, <2>3
<1>3. CASE Reenter
  <2>1. SessionType' /\ ThreadType'
    BY <1>3 DEF Reenter, SessionType, ThreadType, sessionVars, threadVars
  <2>2. ManagerType'
    BY <1>3 DEF Reenter, ManagerType
  <2> QED BY <2>1, <2>2
<1>4. CASE ExitTree
  <2>1. ThreadType'
    BY <1>4, QueueTypes DEF ExitTree, StopBegin, Enqueue, Commands, ThreadType, threadVars
  <2>2. SessionType'
    BY <1>4 DEF ExitTree, SessionType, sessionVars
  <2>3. ManagerType'
    BY <1>4 DEF ExitTree, ManagerType
  <2> QED BY <2>1, <2>2, <2>3
<1>5. CASE ContinueStop
  <2>1. ThreadType'
    BY <1>5 DEF ContinueStop, StopClear, StopJoin, ThreadType, Places
  <2>2. SessionType' /\ ManagerType'
    BY <1>5 DEF ContinueStop, SessionType, ManagerType, sessionVars, managerVars
  <2> QED BY <2>1, <2>2
<1>6. CASE HandleEvent
  <2>1. event_queue' \in Seq(Events)
    BY <1>6 DEF HandleEvent, SessionType
  <2>2. /\ backend_available' \in BOOLEAN /\ radio_on' \in BOOLEAN
        /\ bluetooth_ready_emitted' \in BOOLEAN
        /\ scan_view' \in {"none", "started", "stopped"}
        /\ heard' \in {"nothing", "failed", "initialized"} /\ UNCHANGED off_reported
    BY <1>6 DEF HandleEvent, HandleInitialized, HandleSnapshot, HandleError, HandleScanSignal,
                MaybeEmitBluetoothReady, ManagerType, SessionType
  <2>3. SessionType' /\ ThreadType'
    BY <1>6, <2>1 DEF HandleEvent, SessionType, ThreadType, sessionVars, threadVars
  <2>4. ManagerType'
    BY <1>6, <2>2 DEF HandleEvent, ManagerType
  <2> QED BY <2>3, <2>4
<1>7. CASE \E c \in {"START_SCAN", "START_TIMED_SCAN", "STOP_SCAN", "DEVICE"} : Request(c)
  <2>1. command_queue' \in Seq(Commands)
    BY <1>7, QueueTypes DEF Request, Enqueue, Commands
  <2>2. ThreadType'
    BY <1>7, <2>1 DEF Request, ThreadType
  <2>3. SessionType' /\ ManagerType'
    BY <1>7 DEF Request, SessionType, sessionVars, ManagerType, managerVars
  <2> QED BY <2>2, <2>3
<1> QED BY <1>1, <1>2, <1>3, <1>4, <1>5, <1>6, <1>7

\* So do the steps of the worker, ...
LEMMA WorkerStepType ==
  ASSUME TypeOK, Work
  PROVE  TypeOK'
<1> USE DEF TypeOK
<1>0. ManagerType'
  <2>1. off_reported' \in BOOLEAN
    BY DEF Work, ManagerType
  <2> QED BY <2>1 DEF Work, managerVars, ManagerType
<1>1. CASE InitializeBackend
  <2>1. ThreadType'
    BY <1>1 DEF InitializeBackend, WorkerGoes, ThreadType, Places, ThreadUp
  <2> QED BY <1>0, <1>1, <2>1, InitializeType DEF InitializeBackend
<1>2. CASE ReportInitFailure \/ AnnounceInitialized
  <2>1. ThreadType' /\ UNCHANGED sessionVars
    BY <1>2 DEF ReportInitFailure, AnnounceInitialized, WorkerGoes, ThreadType, Places, ThreadUp
  <2>2. event_queue' \in Seq(Events)
    <3>1. PICK e \in {"ERROR_INITIALIZE", "BACKEND_INITIALIZED"} : Emit(<<e>>)
      BY <1>2 DEF ReportInitFailure, AnnounceInitialized
    <3>2. e \in Events
      BY <3>1 DEF Events, InitializeErrors
    <3>3. <<e>> \in Seq(Events)
      BY <3>2, SingleType
    <3> QED BY <3>1, <3>3, EmitType DEF SessionType
  <2> QED BY <1>0, <2>1, <2>2 DEF SessionType, sessionVars
<1>3. CASE Loop
  BY <1>0, <1>3 DEF Loop, WorkerGoes, ThreadType, SessionType, sessionVars, Places, ThreadUp
<1>4. CASE TakeCommand
  <2>1. ThreadType'
    BY <1>4, QueueTypes DEF TakeCommand, WorkerGoes, ThreadType, Places, ThreadUp
  <2> QED BY <1>0, <1>4, <2>1 DEF TakeCommand, SessionType, sessionVars
<1>5. CASE PollBackend
  <2>1. ThreadType'
    BY <1>5 DEF PollBackend, WorkerGoes, ThreadType, Places, ThreadUp
  <2> QED BY <1>0, <1>5, <2>1, PollKeeps DEF PollBackend
<1>6. CASE ProcessCommand
  <2>1. ThreadType'
    BY <1>6 DEF ProcessCommand, WorkerGoes, ThreadType, Places, ThreadUp
  <2> QED BY <1>0, <1>6, <2>1, ExecuteKeeps DEF ProcessCommand
<1>7. CASE ShutdownBackend
  <2>1. ThreadType'
    BY <1>7 DEF ShutdownBackend, WorkerGoes, ThreadType, Places
  <2> QED BY <1>0, <1>7, <2>1, ShutdownEnds DEF ShutdownBackend
<1> QED BY <1>1, <1>2, <1>3, <1>4, <1>5, <1>6, <1>7 DEF Work, WorkerStep

\* ... and with them every step.
LEMMA StepType ==
  ASSUME TypeOK, [Next]_vars
  PROVE  TypeOK'
<1>1. CASE Clock
  <2>1. SessionType'
    BY <1>1 DEF Clock, DeadlinePasses, TypeOK, SessionType
  <2>2. ThreadType' /\ ManagerType'
    BY <1>1 DEF Clock, TypeOK, ThreadType, ManagerType, threadVars, managerVars
  <2> QED BY <2>1, <2>2 DEF TypeOK
<1>2. CASE UNCHANGED vars
  <2>1. SessionType' /\ ThreadType'
    BY <1>2 DEF vars, sessionVars, threadVars, TypeOK, SessionType, ThreadType
  <2>2. ManagerType'
    BY <1>2 DEF vars, managerVars, TypeOK, ManagerType
  <2> QED BY <2>1, <2>2 DEF TypeOK
<1> QED BY <1>1, <1>2, MainStepType, WorkerStepType DEF Next

\* The state before the node enters the tree is type correct.
LEMMA InitType == Init => TypeOK
<1> SUFFICES ASSUME Init PROVE TypeOK
  OBVIOUS
<1>1. event_queue \in Seq(Events) /\ command_queue \in Seq(Commands)
  BY SingleType DEF Init, SessionInit, ThreadInit
<1>2. SessionType
  BY <1>1 DEF Init, SessionInit, SessionType
<1>3. ThreadType
  BY <1>1 DEF Init, ThreadInit, ThreadType, Places
<1>4. ManagerType
  BY DEF Init, ManagerType
<1> QED BY <1>2, <1>3, <1>4 DEF TypeOK

\* Every variable holds what it should in every reachable state, whatever the bounds
\* and whatever requests fail.
THEOREM TypeCorrect == Spec => []TypeOK
<1> QED BY InitType, StepType, PTL DEF Spec

-----------------------------------------------------------------------------
(* The handshake between stop() and the worker                             *)

\* Queues without a SHUTDOWN: another command at the end, or the front taken.
LEMMA QueuesWithoutShutdown ==
  ASSUME NEW q \in Seq(Commands), \A i \in 1..Len(q) : q[i] # "SHUTDOWN"
  PROVE  /\ \A c \in Commands \ {"SHUTDOWN"} :
              \A i \in 1..Len(Append(q, c)) : Append(q, c)[i] # "SHUTDOWN"
         /\ q # <<>> => /\ Head(q) # "SHUTDOWN"
                       /\ \A i \in 1..Len(Tail(q)) : Tail(q)[i] # "SHUTDOWN"
OBVIOUS

\* No call of the main thread disturbs the handshake of start() and stop().
LEMMA MainStepHandshake ==
  ASSUME TypeOK, Handshake,
         \/ Ready \/ ReadyEnqueue \/ Reenter \/ ExitTree \/ ContinueStop \/ HandleEvent
         \/ \E c \in {"START_SCAN", "START_TIMED_SCAN", "STOP_SCAN", "DEVICE"} : Request(c)
  PROVE  Handshake'
<1> USE DEF TypeOK, ThreadType
<1>1. CASE Ready
  <2>1. CASE running
    BY <1>1, <2>1 DEF Ready, Start, threadVars, Handshake, NoShutdownQueued
  <2>2. CASE ~running
    <3>1. stop_pc = "none" /\ command_queue' = <<>> /\ worker' = "starting" /\ running' = TRUE
          /\ UNCHANGED <<command, stop_pc>>
      BY <1>1, <2>2 DEF Ready, Start, MainIdle
    <3>2. command # "SHUTDOWN"
      BY <2>2, <3>1 DEF Handshake
    <3> QED BY <3>1, <3>2 DEF Handshake, NoShutdownQueued
  <2> QED BY <2>1, <2>2
<1>2. CASE ReadyEnqueue \/ \E c \in {"START_SCAN", "START_TIMED_SCAN", "STOP_SCAN", "DEVICE"} : Request(c)
  <2>1. PICK c \in Commands \ {"SHUTDOWN"} : command_queue' = Append(command_queue, c)
    BY <1>2 DEF ReadyEnqueue, Request, Enqueue, Commands
  <2>2. UNCHANGED <<running, worker, command, stop_pc>>
    BY <1>2 DEF ReadyEnqueue, Request
  <2>3. NoShutdownQueued => NoShutdownQueued'
    BY <2>1, <2>2, QueuesWithoutShutdown DEF NoShutdownQueued
  <2> QED BY <2>2, <2>3 DEF Handshake
<1>3. CASE Reenter \/ HandleEvent
  BY <1>3 DEF Reenter, HandleEvent, threadVars, Handshake, NoShutdownQueued
<1>4. CASE ExitTree
  BY <1>4 DEF ExitTree, StopBegin, MainIdle, threadVars, Handshake, NoShutdownQueued
<1>5. CASE ContinueStop
  BY <1>5 DEF ContinueStop, StopClear, StopJoin, Handshake
<1> QED BY <1>1, <1>2, <1>3, <1>4, <1>5

\* Neither does a step of thread_main.
LEMMA WorkerStepHandshake ==
  ASSUME TypeOK, Handshake, Work
  PROVE  Handshake'
<1> USE DEF TypeOK, ThreadType
<1>1. UNCHANGED stop_pc /\ worker # "none"
  BY DEF Work, WorkerStep, InitializeBackend, ReportInitFailure, AnnounceInitialized, Loop,
         TakeCommand, PollBackend, ProcessCommand, ShutdownBackend, WorkerGoes
<1>2. CASE InitializeBackend \/ ReportInitFailure \/ AnnounceInitialized \/ Loop \/ PollBackend
           \/ ShutdownBackend
  BY <1>1, <1>2 DEF InitializeBackend, ReportInitFailure, AnnounceInitialized, Loop, PollBackend,
                    ShutdownBackend, WorkerGoes, Handshake, NoShutdownQueued
<1>3. CASE TakeCommand
  <2>1. NoShutdownQueued => NoShutdownQueued'
    BY <1>3, QueuesWithoutShutdown DEF TakeCommand, NoShutdownQueued
  <2> QED BY <1>1, <1>3, <2>1 DEF TakeCommand, WorkerGoes, Handshake
<1>4. CASE ProcessCommand
  BY <1>1, <1>4 DEF ProcessCommand, WorkerGoes, Handshake, NoShutdownQueued
<1> QED BY <1>2, <1>3, <1>4 DEF Work, WorkerStep

\* Every step, a stutter too, keeps the handshake.
LEMMA StepHandshake ==
  ASSUME TypeOK, Handshake, [Next]_vars
  PROVE  Handshake'
<1>1. CASE Clock
  BY <1>1 DEF Clock, threadVars, Handshake, NoShutdownQueued
<1>2. CASE UNCHANGED vars
  BY <1>2 DEF vars, threadVars, Handshake, NoShutdownQueued
<1> QED BY <1>1, <1>2, MainStepHandshake, WorkerStepHandshake DEF Next

-----------------------------------------------------------------------------
(* The session and its thread                                              *)

\* What is left of the session's operations once their types are known: where they
\* take initialized, agent and the scan.
LEMMA WorkerStepSession ==
  ASSUME TypeOK, OneSession, Work
  PROVE  OneSession'
<1> USE DEF TypeOK, ThreadUp
<1>1. CASE InitializeBackend
  <2>1. CASE InitializeFails /\ WorkerGoes("starting", "init_failed")
    BY <2>1 DEF InitializeFails, WorkerGoes, sessionVars, OneSession
  <2>2. CASE InitializeSucceeds /\ WorkerGoes("starting", "init_done")
    BY <2>2 DEF InitializeSucceeds, WorkerGoes, OneSession
  <2> QED BY <1>1, <2>1, <2>2 DEF InitializeBackend
<1>2. CASE ReportInitFailure \/ AnnounceInitialized \/ Loop \/ TakeCommand
  BY <1>2 DEF ReportInitFailure, AnnounceInitialized, Loop, TakeCommand, WorkerGoes, sessionVars,
              OneSession
<1>3. CASE PollBackend
  BY <1>3, PollKeeps DEF PollBackend, WorkerGoes, SessionKept, OneSession
<1>4. CASE ProcessCommand
  <2>1. /\ SessionKept
        /\ scanning' => (scanning /\ UNCHANGED discovering) \/ discovering'
    BY <1>4, ExecuteKeeps DEF ProcessCommand
  <2> QED BY <1>4, <2>1 DEF ProcessCommand, WorkerGoes, SessionKept, OneSession
<1>5. CASE ShutdownBackend
  BY <1>5, ShutdownEnds DEF ShutdownBackend, WorkerGoes, OneSession
<1> QED BY <1>1, <1>2, <1>3, <1>4, <1>5 DEF Work, WorkerStep

\* Every step keeps the backend initialised exactly while thread_main is between
\* initialize() and shutdown().
LEMMA StepSession ==
  ASSUME TypeOK, Handshake, OneSession, [Next]_vars
  PROVE  OneSession'
<1> USE DEF TypeOK
<1>1. CASE Ready
  <2>1. CASE running
    BY <1>1, <2>1 DEF Ready, Start, threadVars, sessionVars, OneSession
  <2>2. CASE ~running
    BY <1>1, <2>2 DEF Ready, Start, MainIdle, sessionVars, Handshake, OneSession, ThreadUp
  <2> QED BY <2>1, <2>2
<1>2. CASE ReadyEnqueue \/ Reenter \/ HandleEvent
           \/ \E c \in {"START_SCAN", "START_TIMED_SCAN", "STOP_SCAN", "DEVICE"} : Request(c)
  BY <1>2 DEF ReadyEnqueue, Reenter, HandleEvent, Request, threadVars, sessionVars, OneSession
<1>3. CASE ExitTree
  BY <1>3 DEF ExitTree, StopBegin, threadVars, sessionVars, OneSession
<1>4. CASE ContinueStop
  BY <1>4 DEF ContinueStop, StopClear, StopJoin, sessionVars, OneSession, ThreadUp
<1>5. CASE Clock
  BY <1>5 DEF Clock, DeadlinePasses, threadVars, OneSession
<1>6. CASE UNCHANGED vars
  BY <1>6 DEF vars, threadVars, sessionVars, OneSession
<1> QED BY <1>1, <1>2, <1>3, <1>4, <1>5, <1>6, WorkerStepSession DEF Next

-----------------------------------------------------------------------------
(* What the queued events may announce                                     *)

\* The events of a queue that grows by one emission are its own and the emission's.
LEMMA EmittedEvents ==
  ASSUME event_queue \in Seq(Events), NEW s \in Seq(Events), Emit(s),
         NEW i \in 1..Len(event_queue')
  PROVE  \/ i \in 1..Len(event_queue) /\ event_queue'[i] = event_queue[i]
         \/ \E j \in 1..Len(s) : event_queue'[i] = s[j]
<1>1. event_queue' = event_queue \o s
  BY DEF Emit
<1>2. CASE i <= Len(event_queue)
  BY <1>1, <1>2
<1>3. CASE ~(i <= Len(event_queue))
  <2>1. i - Len(event_queue) \in 1..Len(s) /\ event_queue'[i] = s[i - Len(event_queue)]
    BY <1>1, <1>3
  <2> QED BY <2>1
<1> QED BY <1>2, <1>3

\* The worker queues an announcement of the backend only past its own initialize().
LEMMA WorkerStepFreshness ==
  ASSUME TypeOK, Handshake, Freshness, Work
  PROVE  Freshness'
<1> USE DEF TypeOK
<1>1. CASE worker' \in ThreadUp
  BY <1>1 DEF Freshness
<1>2. CASE ShutdownBackend
  BY <1>2 DEF ShutdownBackend, WorkerGoes, Handshake, Freshness
<1>3. CASE \/ InitializeFails /\ worker = "starting" /\ UNCHANGED running
           \/ ReportInitFailure
  <2>1. PICK e \in InitializeErrors : /\ Emit(<<e>>) /\ UNCHANGED running
                                      /\ worker \in {"starting", "init_failed"}
    BY <1>3 DEF InitializeFails, ReportInitFailure, WorkerGoes, InitializeErrors
  <2>2. <<e>> \in Seq(Events)
    BY SingleType, ErrorTypes
  <2>3. SUFFICES ASSUME NEW i \in 1..Len(event_queue'), running',
                        event_queue'[i] \in Announcements
                 PROVE  FALSE
    BY DEF Freshness
  <2>4. CASE i \in 1..Len(event_queue) /\ event_queue'[i] = event_queue[i]
    BY <2>1, <2>3, <2>4 DEF Freshness, ThreadUp
  <2>5. CASE event_queue'[i] = e
    BY <2>3, <2>5, ErrorTypes DEF Announcements
  <2>6. \A j \in 1..Len(<<e>>) : <<e>>[j] = e
    OBVIOUS
  <2> QED BY <2>1, <2>2, <2>4, <2>5, <2>6, EmittedEvents DEF SessionType
<1>4. \/ worker' \in ThreadUp \/ ShutdownBackend \/ ReportInitFailure
      \/ InitializeFails /\ worker = "starting" /\ UNCHANGED running
  BY DEF Work, WorkerStep, InitializeBackend, AnnounceInitialized, Loop, TakeCommand,
         PollBackend, ProcessCommand, WorkerGoes, ThreadUp
<1> QED BY <1>1, <1>2, <1>3, <1>4

\* Every step keeps stale announcements out of a session that runs.
LEMMA StepFreshness ==
  ASSUME TypeOK, Handshake, Freshness, [Next]_vars
  PROVE  Freshness'
<1> USE DEF TypeOK
<1>1. CASE Ready
  <2>1. CASE running
    BY <1>1, <2>1 DEF Ready, Start, threadVars, Freshness
  <2>2. CASE ~running
    BY <1>1, <2>2 DEF Ready, Start, Freshness
  <2> QED BY <2>1, <2>2
<1>2. CASE HandleEvent
  <2>1. event_queue # <<>> /\ event_queue' = Tail(event_queue) /\ UNCHANGED <<running, worker>>
    BY <1>2 DEF HandleEvent, threadVars
  <2>2. \A i \in 1..Len(event_queue') :
           i + 1 \in 1..Len(event_queue) /\ event_queue'[i] = event_queue[i + 1]
    BY <2>1 DEF SessionType
  <2> QED BY <2>1, <2>2 DEF Freshness
<1>3. CASE ReadyEnqueue \/ Reenter
           \/ \E c \in {"START_SCAN", "START_TIMED_SCAN", "STOP_SCAN", "DEVICE"} : Request(c)
  BY <1>3 DEF ReadyEnqueue, Reenter, Request, threadVars, Freshness
<1>4. CASE ExitTree
  BY <1>4 DEF ExitTree, StopBegin, threadVars, Freshness
<1>5. CASE ContinueStop
  BY <1>5 DEF ContinueStop, StopClear, StopJoin, Handshake, Freshness
<1>6. CASE Clock
  BY <1>6 DEF Clock, DeadlinePasses, threadVars, Freshness
<1>7. CASE UNCHANGED vars
  BY <1>7 DEF vars, threadVars, Freshness
<1> QED BY <1>1, <1>2, <1>3, <1>4, <1>5, <1>6, <1>7, WorkerStepFreshness DEF Next

-----------------------------------------------------------------------------
(* The theorems                                                            *)

\* The inductive invariant holds in every reachable state.
LEMMA Inductive == Spec => []IInv
<1>1. Init => IInv
  <2> SUFFICES ASSUME Init PROVE IInv
    OBVIOUS
  <2>1. OneSession
    BY DEF Init, SessionInit, ThreadInit, OneSession, ThreadUp
  <2>2. Handshake /\ Freshness
    BY DEF Init, SessionInit, ThreadInit, Handshake, Freshness
  <2> QED BY <2>1, <2>2, InitType DEF IInv
<1>2. IInv /\ [Next]_vars => IInv'
  BY StepType, StepHandshake, StepSession, StepFreshness DEF IInv
<1> QED BY <1>1, <1>2, PTL DEF Spec

\* start() never replaces a thread that was not joined.
THEOREM SpawnIsSafe == Spec => []SpawnSafe
<1>1. IInv => SpawnSafe
  BY DEF IInv, Handshake, SpawnSafe, MainIdle
<1> QED BY <1>1, Inductive, PTL

\* The backend's session is the thread's: neither begins early nor outlives it.
THEOREM SessionIsThreads == Spec => []OneSession
<1>1. IInv => OneSession
  BY DEF IInv
<1> QED BY <1>1, Inductive, PTL

\* bluetooth_ready never announces a session that has ended.
THEOREM ReadyIsFresh == Spec => ReadyNotStale
<1>1. IInv /\ [Next]_vars
        => [bluetooth_ready_emitted' # bluetooth_ready_emitted => (running => initialized)]_vars
  <2> SUFFICES ASSUME IInv, [Next]_vars, bluetooth_ready_emitted' # bluetooth_ready_emitted,
                      running
               PROVE  initialized
    OBVIOUS
  <2>1. HandleEvent
    BY DEF Next, vars, Ready, ReadyEnqueue, Reenter, ExitTree, ContinueStop, Request, Work, Clock,
           managerVars
  <2>2. Head(event_queue) \in Announcements
    BY <2>1 DEF HandleEvent, HandleScanSignal, HandleError, Announcements
  <2>3. 1 \in 1..Len(event_queue) /\ Head(event_queue) = event_queue[1]
    BY <2>1 DEF HandleEvent, IInv, TypeOK, SessionType
  <2> QED BY <2>2, <2>3 DEF IInv, Freshness, OneSession
<1> QED BY <1>1, Inductive, PTL DEF Spec, ReadyNotStale

-----------------------------------------------------------------------------
(* The node's view of the session                                          *)

Views == {"none", "started", "stopped"}

\* How the client hears the events of a session.
Hears == {t \in Events \X Views \X Views :
            \/ t[1] = "SCAN_STARTED" /\ t[3] = "started"
            \/ t[1] = "SCAN_STOPPED" /\ t[2] = "started" /\ t[3] = "stopped"
            \/ t[1] \notin {"SCAN_STARTED", "SCAN_STOPPED"} /\ t[3] = t[2]}

ScanHeard == \E z \in Views : /\ Leads(Hears, Views, event_queue, scan_view, z)
                              /\ scanning => z = "started"

\* What the node believes of the radio and the backend, and how an event changes it.
Beliefs == [radio : BOOLEAN, heard : {"nothing", "failed", "initialized"},
            available : BOOLEAN, ready : BOOLEAN]

Belief == [radio |-> radio_on, heard |-> heard,
           available |-> backend_available, ready |-> bluetooth_ready_emitted]

Revised(x, e, powered) ==
    [radio |-> IF e = "BACKEND_INITIALIZED" THEN powered ELSE x.radio /\ e \notin RadioOffErrors,
     heard |-> IF e = "BACKEND_INITIALIZED" THEN "initialized"
               ELSE IF e \in InitializeErrors THEN "failed" ELSE x.heard,
     available |-> x.available /\ e \notin InitializeErrors,
     ready |-> x.ready \/ (e \in Announcements /\ x.available)]

Learns(powered) == {t \in Events \X Beliefs \X Beliefs : t[3] = Revised(t[2], t[1], powered)}

\* What the backend has said, and the node is to believe in the end.
Right(z, radio) == /\ z.radio = radio
                   /\ z.heard # "nothing"
                   /\ z.heard = "failed" => ~z.available
                   /\ z.ready \/ ~z.available

Told == /\ worker = "starting" => event_queue = <<>> /\ ~off_reported
        /\ worker = "init_done" => (off_reported => ~adapter_powered)
        /\ worker \in ThreadUp =>
             \E z \in Beliefs :
               /\ Leads(Learns(adapter_powered), Beliefs, event_queue, Belief, z)
               /\ worker # "init_done" => Right(z, adapter_powered /\ ~off_reported)

\* A node outside the tree has no session, or ends it.
Inside == stop_pc = "none" /\ running => in_tree = "in"

ViewInv == IInv /\ ScanHeard /\ Told /\ Inside

\* The events of a session once the backend is announced.
Later == Events \ ({"BACKEND_INITIALIZED"} \cup InitializeErrors)

\* The events that say nothing of a scan.
Silent == Events \ {"SCAN_STARTED", "SCAN_STOPPED"}

\* An emission after which a client who knew of the scan before knows of it still.
Tells(s) == \A y \in Views : (scanning => y = "started")
               => \E z \in Views : /\ Leads(Hears, Views, s, y, z)
                                   /\ scanning' => z = "started"

\* What every operation of the session but initialize() emits.  (The announcement of the
\* backend, or of its failure, is no operation of the session.)
Reports == /\ UNCHANGED adapter_powered
           /\ \E s \in Seq(Later) : Emit(s) /\ Tells(s)

-----------------------------------------------------------------------------
(* What the operations of the session tell                                 *)

\* The events that say nothing of a scan leave the client where it is.
LEMMA SilenceLeads ==
  ASSUME NEW s \in Seq(Silent), NEW y \in Views
  PROVE  Leads(Hears, Views, s, y, y)
<1>1. s \in Seq(Events) /\ \A i \in 1..Len(s) : s[i] \in Silent
  BY DEF Silent
<1>2. \A i \in 1..Len(s) : <<s[i], y, y>> \in Hears
  BY <1>1 DEF Hears, Silent
<1> QED BY <1>1, <1>2, LeadsStill

\* Nothing is emitted, and no scan begins.
LEMMA NothingReported ==
  ASSUME UNCHANGED <<event_queue, adapter_powered>>, scanning' => scanning,
         event_queue \in Seq(Events)
  PROVE  Reports
<1>1. <<>> \in Seq(Later) /\ Emit(<<>>)
  BY DEF Emit
<1>2. Tells(<<>>)
  BY LeadsNowhere DEF Tells
<1> QED BY <1>1, <1>2 DEF Reports

\* scan_stopped is told only to a client who knows of the scan.
LEMMA EndReported ==
  ASSUME scanning, scanning' = FALSE, Emit(<<"SCAN_STOPPED">>), UNCHANGED adapter_powered
  PROVE  Reports
<1>1. <<"SCAN_STOPPED">> \in Seq(Later)
  BY DEF Later, Events, InitializeErrors
<1>2. <<"SCAN_STOPPED", "started", "stopped">> \in Hears /\ "started" \in Views /\ "stopped" \in Views
  BY DEF Hears, Events, Views
<1>3. Leads(Hears, Views, <<"SCAN_STOPPED">>, "started", "stopped")
  BY <1>2, LeadsOnce
<1>4. Tells(<<"SCAN_STOPPED">>)
  BY <1>2, <1>3 DEF Tells
<1> QED BY <1>1, <1>4 DEF Reports

\* What stop_scan and shutdown tell of the scan they end.
LEMMA StopScanReports ==
  ASSUME SessionType, StopScan \/ Shutdown
  PROVE  Reports
<1>1. CASE ~scanning
  <2>1. UNCHANGED <<event_queue, adapter_powered, scanning>>
    BY <1>1 DEF StopScan, Shutdown, sessionVars
  <2> QED BY <1>1, <2>1, NothingReported DEF SessionType
<1>2. CASE scanning
  <2>1. EndDiscovery /\ Emit(<<"SCAN_STOPPED">>) /\ UNCHANGED adapter_powered
    BY <1>2 DEF StopScan, Shutdown
  <2> QED BY <1>2, <2>1, EndReported DEF EndDiscovery
<1> QED BY <1>1, <1>2 DEF SessionType

\* A snapshot says nothing of a scan, and neither does a single error.
LEMMA ErrorsLater == OtherErrors \subseteq Later \cap Silent
BY DEF Later, Silent, Events, OtherErrors, InitializeErrors

LEMMA SnapshotsSilent == Snapshots \subseteq Seq(Later \cap Silent)
<1> DEFINE K == Later \cap Silent
<1>1. "PAIRED_DEVICES_UPDATED" \in K
  BY DEF Later, Silent, Events, InitializeErrors
<1>2. \A e \in OtherErrors : e \in K
  BY ErrorsLater
<1> HIDE DEF K
<1>3. <<"PAIRED_DEVICES_UPDATED">> \in Seq(K)
  BY <1>1
<1>4. \A e \in OtherErrors : <<e, "PAIRED_DEVICES_UPDATED">> \in Seq(K)
  BY <1>1, <1>2
<1>5. Snapshots \subseteq Seq(K)
  BY <1>3, <1>4, Zenon DEF Snapshots
<1> QED BY <1>5 DEF K

\* A sequence over a set is one over any larger set.
LEMMA SeqGrows ==
  ASSUME NEW S, NEW T, S \subseteq T, NEW s \in Seq(S)
  PROVE  s \in Seq(T)
OBVIOUS

\* A snapshot is an operation of this kind.
LEMMA RefreshReports ==
  ASSUME SessionType, RefreshPairedDevices
  PROVE  Reports
<1>1. PICK s \in Snapshots : Emit(s)
  BY DEF RefreshPairedDevices
<1>2. s \in Seq(Later) /\ s \in Seq(Silent)
  BY SnapshotsSilent, SeqGrows
<1>3. Tells(s)
  BY <1>2, SilenceLeads DEF Tells, RefreshPairedDevices, sessionVars
<1> QED BY <1>1, <1>2, <1>3 DEF Reports, RefreshPairedDevices, sessionVars

\* start_scan tells of the scan first, also of one that then cannot begin.
LEMMA StartScanReports ==
  ASSUME SessionType, NEW timed, StartScan(timed)
  PROVE  Reports
<1>1. CASE scanning /\ UNCHANGED <<sessionVars, event_queue>>
  BY <1>1, NothingReported DEF SessionType, sessionVars
<1>2. CASE ~scanning
  <2>1. PICK s \in Snapshots, e \in OtherErrors :
          Emit(<<"SCAN_STARTED">> \o s) \/ Emit(<<"SCAN_STARTED">> \o s \o <<e>>)
    BY <1>2 DEF StartScan, OtherErrors
  <2>2. UNCHANGED adapter_powered
    BY <1>2 DEF StartScan
  <2> DEFINE first == <<"SCAN_STARTED">>
             last == <<e>>
             begun == first \o s
             failed == begun \o last
  <2>3. /\ s \in Seq(Later) /\ s \in Seq(Events)
        /\ s \in Seq(Silent)
    <3>1. s \in Seq(Later) /\ s \in Seq(Silent)
      BY SnapshotsSilent, SeqGrows
    <3> QED BY <3>1, SeqGrows DEF Later
  <2>4. /\ first \in Seq(Later) /\ first \in Seq(Events)
        /\ last \in Seq(Later) /\ last \in Seq(Events)
        /\ last \in Seq(Silent)
    <3>1. "SCAN_STARTED" \in Later /\ "SCAN_STARTED" \in Events
      BY DEF Later, Events, InitializeErrors
    <3>2. e \in Later /\ e \in Silent /\ e \in Events
      BY ErrorsLater, ErrorTypes
    <3> QED BY <3>1, <3>2
  <2>5. \A y \in Views : Leads(Hears, Views, first, y, "started")
    <3>1. \A y \in Views : <<"SCAN_STARTED", y, "started">> \in Hears /\ "started" \in Views
      BY DEF Hears, Events, Views
    <3> QED BY <3>1, LeadsOnce
  <2>6. "started" \in Views
    BY DEF Views
  <2> HIDE DEF first, last
  <2>7. begun \in Seq(Later) /\ begun \in Seq(Events)
    BY <2>3, <2>4
  <2>8. \A y \in Views : Leads(Hears, Views, begun, y, "started")
    <3>1. Leads(Hears, Views, s, "started", "started")
      BY <2>3, <2>6, SilenceLeads
    <3> QED BY <2>3, <2>4, <2>5, <3>1, LeadsFar
  <2> HIDE DEF begun
  <2>9. failed \in Seq(Later)
    BY <2>4, <2>7
  <2>10. \A y \in Views : Leads(Hears, Views, failed, y, "started")
    <3>1. Leads(Hears, Views, last, "started", "started")
      BY <2>4, <2>6, SilenceLeads
    <3> QED BY <2>4, <2>7, <2>8, <3>1, LeadsFar
  <2> HIDE DEF failed
  <2>11. Tells(begun) /\ Tells(failed)
    BY <2>6, <2>8, <2>10 DEF Tells
  <2>12. Emit(begun) \/ Emit(failed)
    BY <2>1 DEF first, last, begun, failed
  <2> QED BY <2>2, <2>7, <2>9, <2>11, <2>12 DEF Reports
<1> QED BY <1>1, <1>2 DEF StartScan

\* A command on a device tells of an error at most.
LEMMA DeviceReports ==
  ASSUME SessionType, DeviceCommand
  PROVE  Reports
<1>1. PICK e \in OtherErrors : Emit(<<>>) \/ Emit(<<e>>)
  BY DEF DeviceCommand, OtherErrors
<1>2. /\ <<>> \in Seq(Later) /\ <<e>> \in Seq(Later)
      /\ <<>> \in Seq(Silent) /\ <<e>> \in Seq(Silent)
  BY ErrorsLater
<1>3. Tells(<<>>) /\ Tells(<<e>>)
  BY <1>2, SilenceLeads DEF Tells, DeviceCommand, sessionVars
<1> QED BY <1>1, <1>2, <1>3 DEF Reports, DeviceCommand, sessionVars

\* So does every command, poll, and shutdown.
LEMMA SessionReports ==
  ASSUME SessionType, Poll \/ Shutdown \/ \E c \in Commands \cup {"none"} : Execute(c)
  PROVE  Reports
<1>1. CASE UNCHANGED <<sessionVars, event_queue>>
  BY <1>1, NothingReported DEF SessionType, sessionVars
<1>2. CASE RefreshPairedDevices
  BY <1>2, RefreshReports
<1>3. CASE \E timed \in BOOLEAN : StartScan(timed)
  BY <1>3, StartScanReports
<1>4. CASE StopScan \/ Shutdown
  BY <1>4, StopScanReports
<1>5. CASE DeviceCommand
  BY <1>5, DeviceReports
<1> QED BY <1>1, <1>2, <1>3, <1>4, <1>5 DEF Poll, Execute

-----------------------------------------------------------------------------
(* The invariant                                                           *)

\* The worker tells the client what it needs to know.
LEMMA HeardOn ==
  ASSUME TypeOK, ScanHeard, UNCHANGED scan_view, NEW s \in Seq(Events), Emit(s), Tells(s)
  PROVE  ScanHeard'
<1>1. PICK y \in Views : /\ Leads(Hears, Views, event_queue, scan_view, y)
                         /\ scanning => y = "started"
  BY DEF ScanHeard
<1>2. PICK z \in Views : Leads(Hears, Views, s, y, z) /\ (scanning' => z = "started")
  BY <1>1 DEF Tells
<1>3. event_queue \in Seq(Events)
  BY DEF TypeOK, SessionType
<1>4. Leads(Hears, Views, event_queue \o s, scan_view, z)
  BY <1>1, <1>2, <1>3, LeadsFar
<1> QED BY <1>2, <1>4 DEF ScanHeard, Emit

\* The event that the client hears next fits what it heard.
LEMMA HearNext ==
  ASSUME TypeOK, event_queue # <<>>, NEW z, Leads(Hears, Views, event_queue, scan_view, z)
  PROVE  \E b \in Views : /\ <<Head(event_queue), scan_view, b>> \in Hears
                          /\ Leads(Hears, Views, Tail(event_queue), b, z)
<1> DEFINE q == event_queue
<1>1. q \in Seq(Events) /\ q # <<>>
  BY DEF TypeOK, SessionType
<1>2. Leads(Hears, Views, q, scan_view, z)
  OBVIOUS
<1> HIDE DEF q
<1>3. \E b \in Views : <<Head(q), scan_view, b>> \in Hears /\ Leads(Hears, Views, Tail(q), b, z)
  BY <1>1, <1>2, LeadsAway
<1> QED BY <1>3 DEF q

\* Whatever a step of thread_main does to the events: before the loop it says nothing of
\* a scan, and in the loop it reports.
LEMMA WorkReports ==
  ASSUME TypeOK, Work
  PROVE  \/ Reports
         \/ /\ worker \in {"starting", "init_failed", "init_done"}
            /\ UNCHANGED scanning
            /\ \E s \in Seq(Silent) : Emit(s)
<1> USE DEF TypeOK
<1>1. CASE InitializeBackend \/ ReportInitFailure \/ AnnounceInitialized
  <2>1. worker \in {"starting", "init_failed", "init_done"} /\ UNCHANGED scanning
    BY <1>1 DEF InitializeBackend, InitializeFails, InitializeSucceeds, ReportInitFailure,
                AnnounceInitialized, WorkerGoes, sessionVars
  <2>2. PICK e \in InitializeErrors \cup {"BACKEND_INITIALIZED"} : Emit(<<>>) \/ Emit(<<e>>)
    <3>1. UNCHANGED event_queue => Emit(<<>>)
      BY DEF Emit, SessionType
    <3> QED BY <1>1, <3>1 DEF InitializeBackend, InitializeFails, InitializeSucceeds,
              EnsureAdapterPowered, ReportInitFailure, AnnounceInitialized, InitializeErrors
  <2>3. e \in Silent
    BY ErrorTypes DEF Silent, Events
  <2>4. <<>> \in Seq(Silent) /\ <<e>> \in Seq(Silent)
    BY <2>3
  <2> QED BY <2>1, <2>2, <2>4
<1>2. CASE Loop \/ TakeCommand
  BY <1>2, NothingReported DEF Loop, TakeCommand, sessionVars, SessionType
<1>3. CASE PollBackend \/ ProcessCommand \/ ShutdownBackend
  BY <1>3, SessionReports DEF PollBackend, ProcessCommand, ShutdownBackend, ThreadType
<1> QED BY <1>1, <1>2, <1>3 DEF Work, WorkerStep

\* Every step keeps the queued events between the last scan signal and the scan.
LEMMA StepHeard ==
  ASSUME IInv, ScanHeard, [Next]_vars
  PROVE  ScanHeard'
<1> USE DEF IInv
<1>1. CASE UNCHANGED <<event_queue, scan_view, scanning>>
  BY <1>1 DEF ScanHeard
<1>2. CASE Work
  <2>1. CASE Reports
    <3>1. PICK s \in Seq(Later) : Emit(s) /\ Tells(s)
      BY <2>1 DEF Reports
    <3>2. s \in Seq(Events)
      BY SeqGrows DEF Later
    <3> QED BY <1>2, <3>1, <3>2, HeardOn DEF Work, managerVars
  <2>2. CASE UNCHANGED scanning /\ \E s \in Seq(Silent) : Emit(s)
    <3>1. PICK s \in Seq(Silent) : Emit(s)
      BY <2>2
    <3>2. s \in Seq(Events)
      BY SeqGrows DEF Silent
    <3>3. Tells(s)
      BY <2>2, SilenceLeads DEF Tells
    <3> QED BY <1>2, <3>1, <3>2, <3>3, HeardOn DEF Work, managerVars
  <2> QED BY <1>2, <2>1, <2>2, WorkReports
<1>3. CASE HandleEvent
  <2>1. PICK z \in Views : /\ Leads(Hears, Views, event_queue, scan_view, z)
                           /\ scanning => z = "started"
    BY DEF ScanHeard
  <2>2. PICK b \in Views : /\ <<Head(event_queue), scan_view, b>> \in Hears
                           /\ Leads(Hears, Views, Tail(event_queue), b, z)
    BY <1>3, <2>1, HearNext DEF HandleEvent
  <2>3. scan_view' = b
    BY <1>3, <2>2, ErrorTypes DEF HandleEvent, HandleInitialized, HandleSnapshot, HandleScanSignal, HandleError,
                      Hears
  <2>4. event_queue' = Tail(event_queue) /\ UNCHANGED scanning
    BY <1>3 DEF HandleEvent, sessionVars
  <2> QED BY <2>1, <2>2, <2>3, <2>4 DEF ScanHeard
<1>4. CASE Ready
  <2>1. CASE running
    BY <1>1, <1>4, <2>1 DEF Ready, Start, sessionVars
  <2>2. CASE ~running
    <3>1. event_queue' = <<>> /\ scan_view' = scan_view /\ scanning' = scanning
      BY <1>4, <2>2 DEF Ready, Start, sessionVars
    <3>2. ~scanning
      BY <1>4, <2>2 DEF Ready, MainIdle, Handshake, OneSession, ThreadUp, TypeOK, SessionType
    <3>3. scan_view \in Views
      BY DEF TypeOK, ManagerType, Views
    <3>4. Leads(Hears, Views, <<>>, scan_view, scan_view)
      BY <3>3, LeadsNowhere
    <3> QED BY <3>1, <3>2, <3>3, <3>4 DEF ScanHeard
  <2> QED BY <2>1, <2>2
<1>5. CASE ReadyEnqueue \/ Reenter \/ ExitTree \/ ContinueStop
           \/ \E c \in {"START_SCAN", "START_TIMED_SCAN", "STOP_SCAN", "DEVICE"} : Request(c)
  BY <1>1, <1>5 DEF ReadyEnqueue, Reenter, ExitTree, ContinueStop, Request, managerVars, sessionVars
<1>6. CASE Clock
  BY <1>1, <1>6 DEF Clock, DeadlinePasses, managerVars
<1>7. CASE UNCHANGED vars
  BY <1>1, <1>7 DEF vars, sessionVars, managerVars
<1> QED BY <1>2, <1>3, <1>4, <1>5, <1>6, <1>7 DEF Next

\* The node's belief is a belief, and so is what an event makes of one.
LEMMA BeliefType ==
  /\ TypeOK => Belief \in Beliefs
  /\ \A x \in Beliefs, e \in Events, b \in BOOLEAN : Revised(x, e, b) \in Beliefs
<1>1. TypeOK => Belief \in Beliefs
  BY DEF TypeOK, ManagerType, Belief, Beliefs
<1>2. ASSUME NEW x \in Beliefs, NEW e, NEW b \in BOOLEAN
      PROVE  Revised(x, e, b) \in Beliefs
  <2> DEFINE radio == IF e = "BACKEND_INITIALIZED" THEN b ELSE x.radio /\ e \notin RadioOffErrors
             told == IF e = "BACKEND_INITIALIZED" THEN "initialized"
                     ELSE IF e \in InitializeErrors THEN "failed" ELSE x.heard
             available == x.available /\ e \notin InitializeErrors
             ready == x.ready \/ (e \in Announcements /\ x.available)
  <2>1. radio \in BOOLEAN /\ available \in BOOLEAN /\ ready \in BOOLEAN
    BY DEF Beliefs
  <2>2. told \in {"nothing", "failed", "initialized"}
    BY DEF Beliefs
  <2>3. Revised(x, e, b) = [radio |-> radio, heard |-> told, available |-> available, ready |-> ready]
    BY DEF Revised
  <2> HIDE DEF radio, told, available, ready
  <2> QED BY <2>1, <2>2, <2>3 DEF Beliefs
<1> QED BY <1>1, <1>2

\* The events of a step are those it has appended.
LEMMA NewIs ==
  ASSUME TypeOK, NEW s \in Seq(Events), Emit(s)
  PROVE  New = {s[i] : i \in 1..Len(s)}
<1> DEFINE q == event_queue
           n == Len(q)
<1>1. event_queue' = q \o s /\ q \in Seq(Events)
  BY DEF Emit, TypeOK, SessionType
<1>2. /\ n \in Nat /\ Len(s) \in Nat /\ Len(q \o s) = n + Len(s)
      /\ \A i \in 1..Len(s) : n + i \in n + 1..n + Len(s) /\ (q \o s)[n + i] = s[i]
      /\ \A j \in n + 1..n + Len(s) : j - n \in 1..Len(s) /\ (q \o s)[j] = s[j - n]
  BY <1>1
<1>3. New = {(q \o s)[j] : j \in n + 1..n + Len(s)}
  BY <1>1, <1>2 DEF New
<1> HIDE DEF q, n
<1>4. ASSUME NEW j \in n + 1..n + Len(s)
      PROVE  (q \o s)[j] \in {s[i] : i \in 1..Len(s)}
  BY <1>2
<1>5. ASSUME NEW i \in 1..Len(s)
      PROVE  s[i] \in {(q \o s)[j] : j \in n + 1..n + Len(s)}
  <2>1. n + i \in n + 1..n + Len(s) /\ (q \o s)[n + i] = s[i]
    BY <1>2
  <2> QED BY <2>1
<1> QED BY <1>3, <1>4, <1>5

\* Events of a session once announced lead a node that believes the right thing to the
\* same again, but for the radio if an error has said it is off.
LEMMA LaterLeads ==
  ASSUME NEW s \in Seq(Later), NEW b \in BOOLEAN, NEW y \in Beliefs, NEW r \in BOOLEAN, Right(y, r)
  PROVE  \E z \in Beliefs :
           /\ Leads(Learns(b), Beliefs, s, y, z)
           /\ Right(z, r /\ {s[i] : i \in 1..Len(s)} \cap RadioOffErrors = {})
<1> DEFINE Fine(i) == \A j \in 1..i : s[j] \notin RadioOffErrors
           f == [i \in 0..Len(s) |-> [y EXCEPT !.radio = y.radio /\ Fine(i)]]
<1>1. Len(s) \in Nat /\ \A i \in 1..Len(s) : s[i] \in Later
  OBVIOUS
<1>2. \A i \in 0..Len(s) : f[i] \in Beliefs
  BY DEF Beliefs
<1>3. f[0] = y
  <2>1. Fine(0) /\ 0 \in 0..Len(s) /\ y.radio \in BOOLEAN
    BY <1>1 DEF Beliefs
  <2>2. [y EXCEPT !.radio = y.radio /\ Fine(0)] = [y EXCEPT !.radio = y.radio]
    BY <2>1
  <2> QED BY <2>1, <2>2 DEF Beliefs
<1>4. ASSUME NEW i \in 1..Len(s)
      PROVE  <<s[i], f[i - 1], f[i]>> \in Learns(b)
  <2> DEFINE e == s[i]
             x == f[i - 1]
  <2>1. i - 1 \in 0..Len(s) /\ i \in 0..Len(s) /\ x \in Beliefs /\ f[i] \in Beliefs
    BY <1>1, <1>2
  <2>2. e \in Events /\ e # "BACKEND_INITIALIZED" /\ e \notin InitializeErrors
    BY <1>1 DEF Later
  <2>3. Fine(i) <=> Fine(i - 1) /\ e \notin RadioOffErrors
    <3>1. \A j \in 1..i : j \in 1..(i - 1) \/ j = i
      BY <1>1
    <3> QED BY <1>1, <3>1
  <2>4. /\ x.heard = y.heard /\ x.available = y.available /\ x.ready = y.ready
        /\ x.radio = (y.radio /\ Fine(i - 1))
    BY <2>1 DEF Beliefs
  <2>5. /\ f[i].heard = y.heard /\ f[i].available = y.available /\ f[i].ready = y.ready
        /\ f[i].radio = (y.radio /\ Fine(i))
    BY <2>1 DEF Beliefs
  <2> HIDE DEF Fine, f, x, e
  <2>6. Revised(x, e, b).radio = f[i].radio
    BY <2>2, <2>3, <2>4, <2>5 DEF Revised
  <2>7. Revised(x, e, b).heard = f[i].heard
    BY <2>2, <2>4, <2>5 DEF Revised
  <2>8. Revised(x, e, b).available = f[i].available
    <3>1. Revised(x, e, b).available = x.available
      <4>1. x.available \in BOOLEAN
        BY <2>1 DEF Beliefs
      <4> QED BY <2>2, <4>1 DEF Revised
    <3> QED BY <2>4, <2>5, <3>1
  <2>9. Revised(x, e, b).ready = f[i].ready
    <3>1. x.available \in BOOLEAN /\ x.ready \in BOOLEAN /\ (x.ready \/ ~x.available)
      BY <2>1, <2>4 DEF Beliefs, Right
    <3>2. Revised(x, e, b).ready = (x.ready \/ (e \in Announcements /\ x.available))
      BY DEF Revised
    <3> QED BY <2>4, <2>5, <3>1, <3>2
  <2>10. Revised(x, e, b) = f[i]
    <3>1. Revised(x, e, b) \in Beliefs
      BY <2>1, <2>2, BeliefType
    <3> QED BY <2>1, <2>6, <2>7, <2>8, <2>9, <3>1 DEF Beliefs
  <2>11. <<e, x, f[i]>> \in Learns(b)
    BY <2>1, <2>2, <2>10 DEF Learns
  <2> QED BY <2>11 DEF e, x
<1>5. Len(s) \in 0..Len(s) /\ Right(f[Len(s)], r /\ {s[i] : i \in 1..Len(s)} \cap RadioOffErrors = {})
  <2> DEFINE z == f[Len(s)]
  <2>1. Len(s) \in 0..Len(s)
    BY <1>1
  <2>2. /\ z.heard = y.heard /\ z.available = y.available /\ z.ready = y.ready
        /\ z.radio = (y.radio /\ Fine(Len(s)))
    BY <2>1 DEF Beliefs
  <2>3. Fine(Len(s)) <=> {s[i] : i \in 1..Len(s)} \cap RadioOffErrors = {}
    OBVIOUS
  <2> HIDE DEF Fine, f
  <2> QED BY <2>1, <2>2, <2>3 DEF Right
<1>6. Leads(Learns(b), Beliefs, s, y, f[Len(s)])
  <2> HIDE DEF Fine
  <2>1. f \in [0..Len(s) -> Beliefs]
    BY <1>2
  <2> HIDE DEF f
  <2> QED BY <1>3, <1>4, <2>1 DEF Leads
<1> HIDE DEF f
<1> QED BY <1>2, <1>5, <1>6

\* A session that is announced goes on: what it reports is queued, and will be believed.
LEMMA ReportsTold ==
  ASSUME TypeOK, Told, Reports, UNCHANGED managerVars, worker \in ThreadUp \ {"init_done"},
         off_reported' = (off_reported \/ New \cap RadioOffErrors # {}),
         worker' \in ThreadUp \ {"init_done"}
  PROVE  Told'
<1>1. PICK s \in Seq(Later) : Emit(s)
  BY DEF Reports
<1>2. PICK y \in Beliefs : /\ Leads(Learns(adapter_powered), Beliefs, event_queue, Belief, y)
                           /\ Right(y, adapter_powered /\ ~off_reported)
  BY DEF Told
<1>3. adapter_powered \in BOOLEAN /\ off_reported \in BOOLEAN /\ event_queue \in Seq(Events)
  BY DEF TypeOK, SessionType, ManagerType
<1>4. s \in Seq(Events)
  BY SeqGrows DEF Later
<1> DEFINE r == adapter_powered /\ ~off_reported
           quiet == {s[i] : i \in 1..Len(s)} \cap RadioOffErrors = {}
<1>5. PICK z \in Beliefs : /\ Leads(Learns(adapter_powered), Beliefs, s, y, z)
                           /\ Right(z, r /\ quiet)
  BY <1>2, <1>3, LaterLeads
<1>6. Leads(Learns(adapter_powered), Beliefs, event_queue \o s, Belief, z)
  BY <1>2, <1>3, <1>4, <1>5, LeadsFar
<1>7. off_reported' = (off_reported \/ ~quiet)
  BY <1>1, <1>4, NewIs
<1>8. (adapter_powered' /\ ~off_reported') = (r /\ quiet)
  BY <1>3, <1>7 DEF Reports
<1>9. /\ event_queue' = event_queue \o s /\ Belief' = Belief /\ adapter_powered' = adapter_powered
  BY <1>1 DEF Emit, Belief, managerVars, Reports
<1> QED BY <1>5, <1>6, <1>8, <1>9 DEF Told, ThreadUp

\* initialize() begins with nothing queued, and says all that it knows of the radio.
LEMMA InitializeTold ==
  ASSUME TypeOK, Told, InitializeBackend, UNCHANGED managerVars,
         off_reported' = (off_reported \/ New \cap RadioOffErrors # {})
  PROVE  Told'
<1>1. worker = "starting" /\ event_queue = <<>> /\ ~off_reported
  BY DEF InitializeBackend, WorkerGoes, Told
<1>2. CASE worker' = "init_failed"
  BY <1>2 DEF Told, ThreadUp
<1>3. CASE EnsureAdapterPowered /\ worker' = "init_done"
  <2>1. PICK s \in {<<>>, <<"ERROR_INITIALIZE_RADIO_OFF">>} :
          Emit(s) /\ (s # <<>> => adapter_powered' = FALSE)
    BY <1>1, <1>3 DEF EnsureAdapterPowered, Emit
  <2>2. s \in Seq(Events)
    <3>1. "ERROR_INITIALIZE_RADIO_OFF" \in Events
      BY DEF Events, InitializeErrors
    <3> QED BY <3>1, SingleType
  <2>3. off_reported' => ~adapter_powered'
    <3>1. s = <<>> => New = {}
      <4>1. New = {s[i] : i \in 1..Len(s)}
        BY <2>1, <2>2, NewIs
      <4>2. s = <<>> => 1..Len(s) = {}
        OBVIOUS
      <4> QED BY <4>1, <4>2
    <3> QED BY <1>1, <2>1, <3>1
  <2>4. Belief \in Beliefs /\ adapter_powered' \in BOOLEAN
    BY <1>3, BeliefType DEF EnsureAdapterPowered, TypeOK, SessionType
  <2>5. \E z \in Beliefs : Leads(Learns(adapter_powered'), Beliefs, s, Belief, z)
    <3>1. CASE s = <<>>
      BY <2>4, <3>1, LeadsNowhere
    <3>2. CASE s = <<"ERROR_INITIALIZE_RADIO_OFF">>
      <4> DEFINE e == "ERROR_INITIALIZE_RADIO_OFF"
                 z == Revised(Belief, e, adapter_powered')
      <4>1. e \in Events
        BY DEF Events, InitializeErrors
      <4>2. z \in Beliefs
        BY <2>4, <4>1, BeliefType
      <4>3. <<e, Belief, z>> \in Learns(adapter_powered')
        BY <2>4, <4>1, <4>2 DEF Learns
      <4> HIDE DEF e, z
      <4>4. Leads(Learns(adapter_powered'), Beliefs, <<e>>, Belief, z)
        BY <2>4, <4>2, <4>3, LeadsOnce
      <4> QED BY <3>2, <4>2, <4>4 DEF e
    <3> QED BY <2>1, <3>1, <3>2
  <2>6. event_queue' = s /\ Belief' = Belief
    BY <1>1, <2>1, <2>2 DEF Emit, Belief, managerVars
  <2> QED BY <1>3, <2>3, <2>5, <2>6 DEF Told
<1> QED BY <1>2, <1>3 DEF InitializeBackend, InitializeSucceeds, WorkerGoes

\* The announcement tells of the radio, whatever was thought of it before.
LEMMA AnnounceTold ==
  ASSUME TypeOK, Told, AnnounceInitialized, UNCHANGED managerVars,
         off_reported' = (off_reported \/ New \cap RadioOffErrors # {})
  PROVE  Told'
<1> DEFINE e == "BACKEND_INITIALIZED"
           s == <<e>>
<1>1. worker = "init_done" /\ worker' = "loop" /\ Emit(s) /\ UNCHANGED adapter_powered
  BY DEF AnnounceInitialized, WorkerGoes, sessionVars
<1>2. PICK y \in Beliefs : Leads(Learns(adapter_powered), Beliefs, event_queue, Belief, y)
  BY <1>1 DEF Told, ThreadUp
<1>3. /\ adapter_powered \in BOOLEAN /\ off_reported \in BOOLEAN /\ event_queue \in Seq(Events)
      /\ e \in Events /\ e \notin RadioOffErrors /\ e \in Announcements /\ e \notin InitializeErrors
  BY DEF TypeOK, SessionType, ManagerType, Events, RadioOffErrors, Announcements, InitializeErrors
<1> DEFINE z == Revised(y, e, adapter_powered)
<1>4. z \in Beliefs
  BY <1>3, BeliefType
<1>5. <<e, y, z>> \in Learns(adapter_powered)
  BY <1>3, <1>4 DEF Learns
<1>6. off_reported' = off_reported /\ (adapter_powered /\ ~off_reported') = adapter_powered
  <2>1. s \in Seq(Events) /\ {s[i] : i \in 1..Len(s)} = {e}
    BY <1>3
  <2>2. New \cap RadioOffErrors = {}
    BY <1>1, <1>3, <2>1, NewIs
  <2> QED BY <1>1, <1>3, <2>2 DEF Told
<1>7. Right(z, adapter_powered)
  <2>1. y.available \in BOOLEAN /\ y.ready \in BOOLEAN
    BY DEF Beliefs
  <2>2. z.radio = adapter_powered /\ z.heard = "initialized"
    BY <1>3 DEF Revised
  <2>3. z.ready \/ ~z.available
    BY <1>3, <2>1 DEF Revised
  <2> HIDE DEF z, e
  <2> QED BY <2>2, <2>3 DEF Right
<1> HIDE DEF z, e
<1>8. Leads(Learns(adapter_powered), Beliefs, Append(event_queue, e), Belief, z)
  BY <1>2, <1>3, <1>4, <1>5, BeliefType, LeadsOn
<1>9. event_queue' = Append(event_queue, e) /\ Belief' = Belief
  BY <1>1, <1>3 DEF Emit, Belief, managerVars
<1> QED BY <1>1, <1>4, <1>6, <1>7, <1>8, <1>9 DEF Told

\* The worker keeps the node informed.
LEMMA WorkTold ==
  ASSUME TypeOK, Told, Work
  PROVE  Told'
<1>0. /\ UNCHANGED managerVars
      /\ off_reported' = (off_reported \/ New \cap RadioOffErrors # {})
  BY DEF Work
<1>1. CASE InitializeBackend
  BY <1>0, <1>1, InitializeTold
<1>2. CASE AnnounceInitialized
  BY <1>0, <1>2, AnnounceTold
<1>3. CASE ReportInitFailure \/ ShutdownBackend
  BY <1>3 DEF ReportInitFailure, ShutdownBackend, WorkerGoes, Told, ThreadUp
<1>4. CASE (Loop \/ TakeCommand \/ PollBackend \/ ProcessCommand) /\ worker' \in ThreadUp
  <2>1. worker \in ThreadUp \ {"init_done"} /\ worker' \in ThreadUp \ {"init_done"}
    BY <1>4 DEF Loop, TakeCommand, PollBackend, ProcessCommand, WorkerGoes, ThreadUp
  <2>2. Reports
    BY <2>1, WorkReports DEF ThreadUp
  <2> QED BY <1>0, <2>1, <2>2, ReportsTold
<1>5. Loop \/ TakeCommand \/ PollBackend \/ ProcessCommand => worker' \in ThreadUp
  BY DEF Loop, TakeCommand, PollBackend, ProcessCommand, WorkerGoes, ThreadUp
<1> QED BY <1>1, <1>2, <1>3, <1>4, <1>5 DEF Work, WorkerStep

\* The node believes what an event says.
LEMMA HandleRevises ==
  ASSUME TypeOK, HandleEvent
  PROVE  Belief' = Revised(Belief, Head(event_queue), adapter_powered)
<1> DEFINE e == Head(event_queue)
<1>1. CASE e = "BACKEND_INITIALIZED"
  <2>1. HandleInitialized
    BY <1>1, ErrorTypes DEF HandleEvent
  <2>2. e \notin InitializeErrors /\ e \in Announcements
    BY <1>1 DEF InitializeErrors, Announcements
  <2> QED BY <1>1, <2>1, <2>2 DEF HandleInitialized, MaybeEmitBluetoothReady, Belief, Revised, TypeOK, ManagerType
<1>2. CASE e = "PAIRED_DEVICES_UPDATED"
  <2>1. HandleSnapshot
    BY <1>2, ErrorTypes DEF HandleEvent
  <2>2. e \notin InitializeErrors /\ e \notin RadioOffErrors /\ e \in Announcements
    BY <1>2 DEF InitializeErrors, RadioOffErrors, Announcements
  <2> QED BY <1>2, <2>1, <2>2 DEF HandleSnapshot, MaybeEmitBluetoothReady, Belief, Revised, TypeOK, ManagerType
<1>3. CASE e \in {"SCAN_STARTED", "SCAN_STOPPED"}
  <2>1. UNCHANGED <<backend_available, radio_on, bluetooth_ready_emitted, heard>>
    BY <1>3, ErrorTypes DEF HandleEvent, HandleScanSignal
  <2>2. e \notin InitializeErrors /\ e \notin RadioOffErrors /\ e \notin Announcements
        /\ e # "BACKEND_INITIALIZED"
    BY <1>3 DEF InitializeErrors, RadioOffErrors, Announcements
  <2> QED BY <2>1, <2>2 DEF Belief, Revised, TypeOK, ManagerType
<1>4. CASE e \in InitializeErrors \cup OtherErrors
  <2>1. HandleError(e)
    BY <1>4, ErrorTypes DEF HandleEvent
  <2>2. e \notin Announcements /\ e # "BACKEND_INITIALIZED"
    BY <1>4, ErrorTypes DEF Announcements
  <2>3. /\ bluetooth_ready_emitted' = (bluetooth_ready_emitted \/ (e \in Announcements /\ backend_available))
        /\ radio_on' = (radio_on /\ e \notin RadioOffErrors)
        /\ backend_available' = (backend_available /\ e \notin InitializeErrors)
        /\ heard' = IF e \in InitializeErrors THEN "failed" ELSE heard
    BY <2>1, <2>2 DEF HandleError, TypeOK, ManagerType
  <2> QED BY <2>2, <2>3 DEF Belief, Revised
<1> QED BY <1>1, <1>2, <1>3, <1>4 DEF HandleEvent

\* What the node takes over is no longer queued, and leads it where it was to be led.
LEMMA HandleTold ==
  ASSUME TypeOK, Told, HandleEvent
  PROVE  Told'
<1>1. /\ event_queue \in Seq(Events) /\ event_queue # <<>> /\ event_queue' = Tail(event_queue)
      /\ UNCHANGED <<worker, adapter_powered, off_reported>>
  BY DEF HandleEvent, TypeOK, SessionType, sessionVars, threadVars
<1>2. ASSUME NEW z \in Beliefs, Leads(Learns(adapter_powered), Beliefs, event_queue, Belief, z)
      PROVE  Leads(Learns(adapter_powered), Beliefs, event_queue', Belief', z)
  <2>1. PICK b \in Beliefs : /\ <<Head(event_queue), Belief, b>> \in Learns(adapter_powered)
                             /\ Leads(Learns(adapter_powered), Beliefs, Tail(event_queue), b, z)
    BY <1>1, <1>2, LeadsAway
  <2>2. b = Belief'
    BY <2>1, HandleRevises DEF Learns
  <2> QED BY <1>1, <2>1, <2>2
<1>3. worker # "starting"
  BY <1>1 DEF Told
<1> QED BY <1>1, <1>2, <1>3 DEF Told

\* A session in a running thread belongs to a node in the tree.
LEMMA StepInside ==
  ASSUME IInv, Inside, [Next]_vars
  PROVE  Inside'
<1> USE DEF Inside, IInv
<1>1. CASE Ready \/ ReadyEnqueue \/ Reenter
  BY <1>1 DEF Ready, Start, ReadyEnqueue, Reenter, threadVars
<1>2. CASE ExitTree
  BY <1>2 DEF ExitTree, StopBegin, threadVars
<1>3. CASE ContinueStop
  BY <1>3 DEF ContinueStop, StopClear, StopJoin, managerVars, Handshake
<1>4. CASE HandleEvent \/ \E c \in {"START_SCAN", "START_TIMED_SCAN", "STOP_SCAN", "DEVICE"} : Request(c)
  BY <1>4 DEF HandleEvent, Request, threadVars, managerVars
<1>5. CASE Clock \/ UNCHANGED vars
  BY <1>5 DEF Clock, vars, threadVars, managerVars
<1>6. CASE Work
  <2>1. UNCHANGED in_tree
    BY <1>6 DEF Work, managerVars
  <2>2. UNCHANGED stop_pc /\ (running' => running)
    <3>1. CASE ProcessCommand
      BY <3>1 DEF ProcessCommand
    <3>2. CASE \/ InitializeBackend \/ ReportInitFailure \/ AnnounceInitialized \/ Loop
               \/ TakeCommand \/ PollBackend \/ ShutdownBackend
      BY <3>2 DEF InitializeBackend, ReportInitFailure, AnnounceInitialized, Loop, TakeCommand,
                  PollBackend, ShutdownBackend
    <3> QED BY <1>6, <3>1, <3>2 DEF Work, WorkerStep
  <2> QED BY <2>1, <2>2
<1> QED BY <1>1, <1>2, <1>3, <1>4, <1>5, <1>6 DEF Next

\* Every step keeps what is told of the radio and the backend.
LEMMA StepTold ==
  ASSUME IInv, Told, Inside, [Next]_vars
  PROVE  Told'
<1> USE DEF IInv
<1>1. ASSUME UNCHANGED <<event_queue, worker, adapter_powered, off_reported>>,
             UNCHANGED <<radio_on, bluetooth_ready_emitted, backend_available, heard>>
      PROVE  Told'
  <2>1. Belief' = Belief
    BY <1>1 DEF Belief
  <2> QED BY <1>1, <2>1 DEF Told
<1>2. CASE Ready
  <2>1. ~running
    BY <1>2 DEF Ready, Inside, MainIdle
  <2>2. worker' = "starting" /\ event_queue' = <<>> /\ ~off_reported'
    BY <1>2, <2>1 DEF Ready, Start
  <2> QED BY <2>2 DEF Told, ThreadUp
<1>3. CASE ReadyEnqueue \/ Reenter \/ ExitTree
           \/ \E c \in {"START_SCAN", "START_TIMED_SCAN", "STOP_SCAN", "DEVICE"} : Request(c)
  BY <1>1, <1>3 DEF ReadyEnqueue, Reenter, ExitTree, StopBegin, Request, threadVars, managerVars,
                    sessionVars
<1>4. CASE ContinueStop
  <2>1. \/ UNCHANGED worker
        \/ worker' = "none"
    BY <1>4 DEF ContinueStop, StopClear, StopJoin
  <2>2. CASE UNCHANGED worker
    BY <1>1, <1>4, <2>2 DEF ContinueStop, managerVars, sessionVars
  <2>3. CASE worker' = "none"
    BY <2>3 DEF Told, ThreadUp
  <2> QED BY <2>1, <2>2, <2>3
<1>5. CASE Clock
  BY <1>1, <1>5 DEF Clock, DeadlinePasses, threadVars, managerVars
<1>6. CASE UNCHANGED vars
  BY <1>1, <1>6 DEF vars, sessionVars, threadVars, managerVars
<1> QED BY <1>2, <1>3, <1>4, <1>5, <1>6, WorkTold, HandleTold DEF Next

\* The invariant holds in every reachable state.
LEMMA ViewInductive == Spec => []ViewInv
<1>1. Init => ScanHeard /\ Told /\ Inside
  <2> SUFFICES ASSUME Init PROVE ScanHeard /\ Told /\ Inside
    OBVIOUS
  <2>1. event_queue = <<>> /\ scan_view = "none" /\ ~scanning /\ worker = "none" /\ ~running
    BY DEF Init, SessionInit, ThreadInit
  <2>2. "none" \in Views /\ Leads(Hears, Views, <<>>, "none", "none")
    BY LeadsNowhere DEF Views
  <2> QED BY <2>1, <2>2 DEF ScanHeard, Told, Inside, ThreadUp
<1>2. IInv /\ ScanHeard /\ Told /\ Inside /\ [Next]_vars
        => (ScanHeard /\ Told /\ Inside)'
  BY StepHeard, StepTold, StepInside
<1> QED BY <1>1, <1>2, Inductive, PTL DEF Spec, ViewInv

\* No client hears of the end of a scan that it does not know of, whatever ends it.
THEOREM ScansAreStoppedOnce == Spec => []ScanStopsPaired
<1>1. ViewInv => ScanStopsPaired
  <2> SUFFICES ASSUME ViewInv, event_queue # <<>>, Head(event_queue) = "SCAN_STOPPED"
               PROVE  scan_view = "started"
    BY DEF ScanStopsPaired
  <2>1. PICK z \in Views : Leads(Hears, Views, event_queue, scan_view, z)
    BY DEF ViewInv, ScanHeard
  <2>2. PICK b \in Views : <<Head(event_queue), scan_view, b>> \in Hears
    BY <2>1, HearNext DEF ViewInv, IInv
  <2> QED BY <2>2 DEF Hears
<1> QED BY <1>1, ViewInductive, PTL

\* A node that has heard everything knows the scan and the backend as they are, in every
\* session of its life, and of the radio what initialize() and the errors have said.
THEOREM NodeKnows == Spec => []ViewAgrees
<1>1. ViewInv => ViewAgrees
  <2> SUFFICES ASSUME ViewInv, running, event_queue = <<>>, worker \in {"loop", "waiting"}
               PROVE  /\ radio_on = (adapter_powered /\ ~off_reported)
                      /\ scanning => scan_view = "started"
                      /\ Resolved
    BY DEF ViewAgrees
  <2>1. scanning => scan_view = "started"
    <3>1. PICK z \in Views : /\ Leads(Hears, Views, <<>>, scan_view, z)
                             /\ scanning => z = "started"
      BY DEF ViewInv, ScanHeard
    <3>2. scan_view \in Views
      BY DEF ViewInv, IInv, TypeOK, ManagerType, Views
    <3> QED BY <3>1, <3>2, LeadsNowhere
  <2>2. Right(Belief, adapter_powered /\ ~off_reported)
    <3>1. PICK z \in Beliefs : /\ Leads(Learns(adapter_powered), Beliefs, <<>>, Belief, z)
                               /\ Right(z, adapter_powered /\ ~off_reported)
      BY DEF ViewInv, Told, ThreadUp
    <3>2. Belief \in Beliefs
      BY BeliefType DEF ViewInv, IInv
    <3> QED BY <3>1, <3>2, LeadsNowhere
  <2> QED BY <2>1, <2>2 DEF Right, Belief, Resolved
<1> QED BY <1>1, ViewInductive, PTL
=============================================================================
