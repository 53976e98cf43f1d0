------------------------------- MODULE Lifecycle -------------------------------
(***************************************************************************)
(* The BluetoothManager node's half of a session (bluetooth_manager.cpp):  *)
(* _ready, _exit_tree, _process with the events it hands to handle_event,  *)
(* and the API calls that become commands, composed with the WorkerThread. *)
(* The main thread is inside one of these at a time; where it shares state *)
(* with the worker half-way through, it takes several steps (stop_pc,      *)
(* ready_pc).  The node may leave the tree and come back, with _ready      *)
(* (request_ready was called) or without.                                  *)
(***************************************************************************)
EXTENDS WorkerThread

CONSTANTS MaxCommands,   \* bound of the model: API calls stop at this many queued commands
          MaxEvents      \* ... and while more than this many events are queued

ASSUME BoundsAssumption == MaxCommands \in Nat /\ MaxEvents \in Nat

VARIABLES in_tree,                  \* "new" (never in the scene tree), "in" or "out"
          ready_pc,                 \* where the main thread is inside _ready
          backend_available,
          radio_on,
          bluetooth_ready_emitted,
          scan_view,                \* the last scan signal: "started", "stopped", "none"
          heard,                    \* history: what the node was told of this session's
                                    \* initialize(): "nothing", "failed" or "initialized"
          off_reported              \* history: an error of this session said RADIO_OFF

managerVars == <<in_tree, ready_pc, backend_available, radio_on, bluetooth_ready_emitted,
                 scan_view, heard>>

vars == <<sessionVars, event_queue, threadVars, managerVars, off_reported>>

Init == /\ SessionInit
        /\ ThreadInit
        /\ in_tree = "new"
        /\ ready_pc = "none"
        /\ backend_available = FALSE
        /\ radio_on = TRUE
        /\ bluetooth_ready_emitted = FALSE
        /\ scan_view = "none"
        /\ heard = "nothing" /\ off_reported = FALSE

\* The main thread is between two calls into the node.
MainIdle == stop_pc = "none" /\ ready_pc = "none"

-----------------------------------------------------------------------------
(* Entering and leaving the tree                                           *)

\* _ready starts the worker, which is already at work when the two commands come.
Ready == /\ MainIdle /\ in_tree # "in"
         /\ Start
         /\ in_tree' = "in"
         /\ ready_pc' = "initialize"
         /\ backend_available' = TRUE
         /\ heard' = (IF running THEN heard ELSE "nothing")
         /\ off_reported' = (off_reported /\ running)
         /\ UNCHANGED <<sessionVars, radio_on, bluetooth_ready_emitted, scan_view>>

ReadyEnqueue ==
    /\ \/ ready_pc = "initialize" /\ Enqueue("INITIALIZE") /\ ready_pc' = "refresh"
       \/ ready_pc = "refresh" /\ Enqueue("REFRESH_PAIRED_DEVICES") /\ ready_pc' = "none"
    /\ UNCHANGED <<sessionVars, event_queue, running, worker, command, stop_pc, in_tree,
                   backend_available, radio_on, bluetooth_ready_emitted, scan_view, heard,
                   off_reported>>

\* A node that was ready before comes back without _ready (it was reparented).
Reenter == /\ MainIdle /\ in_tree = "out"
           /\ in_tree' = "in"
           /\ UNCHANGED <<sessionVars, event_queue, threadVars, ready_pc, backend_available,
                          radio_on, bluetooth_ready_emitted, scan_view, heard, off_reported>>

ExitTree == /\ MainIdle /\ in_tree = "in"
            /\ StopBegin
            /\ in_tree' = "out"
            /\ UNCHANGED <<sessionVars, event_queue, ready_pc, backend_available, radio_on,
                           bluetooth_ready_emitted, scan_view, heard, off_reported>>

ContinueStop == /\ StopClear \/ StopJoin
                /\ UNCHANGED <<sessionVars, event_queue, managerVars, off_reported>>

-----------------------------------------------------------------------------
(* API calls and events                                                    *)

\* start_scan, stop_scan and the commands on devices, at any time of the node's life.
Request(c) == /\ MainIdle
              /\ Len(command_queue) < MaxCommands /\ Len(event_queue) <= MaxEvents
              /\ Enqueue(c)
              /\ UNCHANGED <<sessionVars, event_queue, running, worker, command, stop_pc,
                             managerVars, off_reported>>

MaybeEmitBluetoothReady ==
    bluetooth_ready_emitted' = (bluetooth_ready_emitted \/ backend_available)

\* Mutant: the radio is read when a session reports an error, not when it begins.
HandleInitializedKeepingRadio == /\ MaybeEmitBluetoothReady
                                 /\ heard' = "initialized"
                                 /\ UNCHANGED <<backend_available, radio_on, scan_view>>

HandleInitialized == /\ radio_on' = adapter_powered
                     /\ MaybeEmitBluetoothReady
                     /\ heard' = "initialized"
                     /\ UNCHANGED <<backend_available, scan_view>>

HandleSnapshot == /\ MaybeEmitBluetoothReady
                  /\ UNCHANGED <<backend_available, radio_on, scan_view, heard>>

\* Mutant: errors of "initialize" are only passed on.
HandleErrorLeniently(e) ==
    /\ radio_on' = (radio_on /\ e \notin RadioOffErrors)
    /\ heard' = IF e \in InitializeErrors THEN "failed" ELSE heard
    /\ UNCHANGED <<backend_available, bluetooth_ready_emitted, scan_view>>

\* The radio is taken to be off on the word of any error, of whatever operation.
HandleError(e) ==
    /\ backend_available' = (backend_available /\ e \notin InitializeErrors)
    /\ radio_on' = (radio_on /\ e \notin RadioOffErrors)
    /\ heard' = IF e \in InitializeErrors THEN "failed" ELSE heard
    /\ UNCHANGED <<bluetooth_ready_emitted, scan_view>>

HandleScanSignal(e) ==
    /\ scan_view' = IF e = "SCAN_STARTED" THEN "started" ELSE "stopped"
    /\ UNCHANGED <<backend_available, radio_on, bluetooth_ready_emitted, heard>>

\* One round of _process.  The rounds of a call that an event's signal took out of
\* the tree go on after that, so the node need not be inside it.
HandleEvent ==
    /\ MainIdle
    /\ event_queue # <<>>
    /\ LET e == Head(event_queue) IN
         \/ e = "BACKEND_INITIALIZED" /\ HandleInitialized
         \/ e = "PAIRED_DEVICES_UPDATED" /\ HandleSnapshot
         \/ e \in {"SCAN_STARTED", "SCAN_STOPPED"} /\ HandleScanSignal(e)
         \/ e \in InitializeErrors \cup OtherErrors /\ HandleError(e)
    /\ event_queue' = Tail(event_queue)
    /\ UNCHANGED <<sessionVars, threadVars, in_tree, ready_pc, off_reported>>

-----------------------------------------------------------------------------
\* The events that a step has put into the queue.
New == {event_queue'[i] : i \in Len(event_queue) + 1 .. Len(event_queue')}

Work == /\ WorkerStep
        /\ off_reported' = (off_reported \/ New \cap RadioOffErrors # {})
        /\ UNCHANGED managerVars

Clock == DeadlinePasses /\ UNCHANGED <<threadVars, managerVars, off_reported>>

Next == \/ Ready \/ ReadyEnqueue \/ Reenter
        \/ ExitTree \/ ContinueStop
        \/ \E c \in {"START_SCAN", "START_TIMED_SCAN", "STOP_SCAN", "DEVICE"} : Request(c)
        \/ HandleEvent
        \/ Work
        \/ Clock

Spec == Init /\ [][Next]_vars

\* Both threads run on, and Godot calls _process as long as the node is in the tree.
\* No call of the API has to come, and the clock need not reach any deadline.
Fairness == /\ WF_vars(Work)
            /\ WF_vars(ReadyEnqueue)
            /\ WF_vars(ContinueStop)
            /\ WF_vars(in_tree = "in" /\ HandleEvent)

FairSpec == Spec /\ Fairness

-----------------------------------------------------------------------------
(* Properties                                                              *)

ManagerType == /\ in_tree \in {"new", "in", "out"}
               /\ ready_pc \in {"none", "initialize", "refresh"}
               /\ backend_available \in BOOLEAN /\ radio_on \in BOOLEAN
               /\ bluetooth_ready_emitted \in BOOLEAN
               /\ scan_view \in {"none", "started", "stopped"}
               /\ heard \in {"nothing", "failed", "initialized"}
               /\ off_reported \in BOOLEAN

TypeOK == SessionType /\ ThreadType /\ ManagerType

\* Whenever the main thread may call start(), a cleared `running' means that the
\* thread of the previous session was joined: start() never assigns a std::thread
\* over a live one (std::terminate), and two threads never run one backend.
SpawnSafe == MainIdle /\ ~running => worker = "none"

\* The backend is initialised, with its agent, exactly while thread_main is past a
\* successful initialize() and before shutdown(): no command finds it otherwise (the
\* lazy initialize() of the commands is never reached), and nothing of a session, not
\* a scan either, survives the thread that ran it.
OneSession == /\ initialized <=> worker \in ThreadUp
              /\ agent <=> initialized
              /\ scanning => initialized /\ discovering

\* bluetooth_ready is about the session that runs: it is emitted only after this
\* session's initialize() succeeded, whatever events an earlier session left.
ReadyNotStale == [][bluetooth_ready_emitted' # bluetooth_ready_emitted
                      => (running => initialized)]_vars

\* scan_stopped always ends a scan the client knows of: no client hears it twice in
\* a row, or before the first scan_started, however stop_scan, the deadline and the
\* end of the session follow each other.
ScanStopsPaired == event_queue # <<>> /\ Head(event_queue) = "SCAN_STOPPED"
                     => scan_view = "started"

\* The node has been told how initialize() went, and has drawn the conclusion.
Resolved == /\ heard # "nothing"
            /\ heard = "failed" => ~backend_available
            /\ bluetooth_ready_emitted \/ ~backend_available

\* When every event is handled and the worker is between commands, the node's view of
\* the session is what the backend has said: a scan in progress; a backend that is ready
\* or unavailable; and a radio that is off if initialize() found it off or any error since
\* then said so, and on otherwise, whatever was thought of it in an earlier session.
ViewAgrees == (MainIdle /\ running /\ event_queue = <<>> /\ worker \in {"loop", "waiting"})
                => /\ radio_on = (adapter_powered /\ ~off_reported)
                   /\ scanning => scan_view = "started"
                   /\ Resolved

\* Of every session that starts, and not only of the first, the node comes to know that
\* it is initialised (the first time it emits bluetooth_ready then) or unavailable, unless
\* it ends the session first.
InitResolved == running ~> (Resolved \/ ~running)

\* stop() always comes to its end, so that leaving the tree never hangs the game:
\* the worker sees the cleared flag wherever it is.
StopCompletes == (stop_pc = "pushed") ~> (stop_pc = "none")

\* A queued STOP_SCAN ends the scan, whatever commands are queued around it.
StopScanTakesEffect ==
    (\E i \in DOMAIN command_queue : command_queue[i] = "STOP_SCAN") ~> ~scanning

\* The scan ends after its deadline, provided the worker gets to poll again and again.
\* It does so only when it finds the command queue empty: commands that keep coming
\* keep it from looking at the deadline.
DeadlineHonoured == ([]<><<Work /\ PollBackend>>_vars)
                      => ((scanning /\ scan_deadline = "passed") ~> ~scanning)
=============================================================================
