----------------------------- MODULE WorkerThread -----------------------------
(***************************************************************************)
(* The worker thread (threading/worker_thread.cpp) and its two queues,     *)
(* running a LinuxSession.  The queue operations are atomic here: that     *)
(* ThreadSafeQueue may be taken for a FIFO queue is shown in that module.  *)
(* The flag that command_queue.stop() sets only cuts the 100 ms wait of an *)
(* empty queue short, so it has no trace in this module.                   *)
(***************************************************************************)
EXTENDS LinuxSession

VARIABLES command_queue,   \* commands not taken by the worker yet
          running,         \* the atomic flag both threads read and write
          worker,          \* where thread_main is; "none": there is no thread to join
          command,         \* the command being processed, or "none"
          stop_pc          \* where the main thread is inside stop()

threadVars == <<command_queue, running, worker, command, stop_pc>>

Commands == {"INITIALIZE", "SHUTDOWN", "REFRESH_PAIRED_DEVICES", "START_SCAN",
             "START_TIMED_SCAN", "STOP_SCAN", "DEVICE"}

ThreadInit == /\ command_queue = <<>>
              /\ running = FALSE
              /\ worker = "none"
              /\ command = "none"
              /\ stop_pc = "none"

-----------------------------------------------------------------------------
(* Called by the main thread                                               *)

Enqueue(c) == command_queue' = Append(command_queue, c)

\* Mutant: the events of the previous session stay queued.
StartKeepingEvents ==
    IF running THEN UNCHANGED <<threadVars, event_queue>>
    ELSE /\ command_queue' = <<>>
         /\ running' = TRUE
         /\ worker' = "starting"
         /\ UNCHANGED <<command, stop_pc, event_queue>>

\* start: reset both queues and spawn the thread.  Assigning a std::thread over
\* one that was not joined would call std::terminate.
Start == IF running THEN UNCHANGED <<threadVars, event_queue>>
         ELSE /\ command_queue' = <<>>
              /\ event_queue' = <<>>
              /\ running' = TRUE
              /\ worker' = "starting"
              /\ UNCHANGED <<command, stop_pc>>

StopBegin == IF ~running THEN UNCHANGED threadVars
             ELSE /\ Enqueue("SHUTDOWN")
                  /\ stop_pc' = "pushed"
                  /\ UNCHANGED <<running, worker, command>>

StopClear == /\ stop_pc = "pushed"
             /\ running' = FALSE
             /\ stop_pc' = "joining"
             /\ UNCHANGED <<command_queue, worker, command>>

StopJoin == /\ stop_pc = "joining"
            /\ worker = "exited"
            /\ worker' = "none"
            /\ stop_pc' = "none"
            /\ UNCHANGED <<command_queue, running, command>>

-----------------------------------------------------------------------------
(* thread_main                                                             *)

WorkerGoes(from, to) == worker = from /\ worker' = to

InitializeBackend ==
    /\ \/ InitializeFails /\ WorkerGoes("starting", "init_failed")
       \/ InitializeSucceeds /\ WorkerGoes("starting", "init_done")
    /\ UNCHANGED <<command_queue, running, command, stop_pc>>

\* Mutant: the thread that failed to initialise clears `running' on its way out.
ReportInitFailureAndClear ==
    /\ WorkerGoes("init_failed", "exited")
    /\ Emit(<<"ERROR_INITIALIZE">>)
    /\ running' = FALSE
    /\ UNCHANGED <<sessionVars, command_queue, command, stop_pc>>

\* The thread returns and leaves `running' set: nobody takes commands any more.
ReportInitFailure == /\ WorkerGoes("init_failed", "exited")
                     /\ Emit(<<"ERROR_INITIALIZE">>)
                     /\ UNCHANGED <<sessionVars, command_queue, running, command, stop_pc>>

AnnounceInitialized == /\ WorkerGoes("init_done", "loop")
                       /\ Emit(<<"BACKEND_INITIALIZED">>)
                       /\ UNCHANGED <<sessionVars, command_queue, running, command, stop_pc>>

\* Mutant: the loop does not look at `running'.
LoopForever == /\ WorkerGoes("loop", "waiting")
               /\ UNCHANGED <<sessionVars, event_queue, command_queue, running, command, stop_pc>>

Loop == /\ WorkerGoes("loop", IF running THEN "waiting" ELSE "stopping")
        /\ UNCHANGED <<sessionVars, event_queue, command_queue, running, command, stop_pc>>

\* Mutant: what wait_pop returned is dereferenced unchecked.
TakeUnchecked == /\ WorkerGoes("waiting", "processing")
                 /\ command' = IF command_queue = <<>> THEN "indeterminate" ELSE Head(command_queue)
                 /\ command_queue' = IF command_queue = <<>> THEN <<>> ELSE Tail(command_queue)
                 /\ UNCHANGED <<sessionVars, event_queue, running, stop_pc>>

TakeCommand == /\ command_queue # <<>>
               /\ WorkerGoes("waiting", "processing")
               /\ command' = Head(command_queue)
               /\ command_queue' = Tail(command_queue)
               /\ UNCHANGED <<sessionVars, event_queue, running, stop_pc>>

\* wait_pop comes back empty after 100 ms or because the queue was stopped.
PollBackend == /\ command_queue = <<>>
               /\ WorkerGoes("waiting", "loop")
               /\ Poll
               /\ UNCHANGED <<command_queue, running, command, stop_pc>>

\* What process_command does to the session.  The commands that find the backend not
\* initialised would initialise it; no command ever does (see OneSession).
Execute(c) ==
    \/ c \in {"INITIALIZE", "SHUTDOWN"} /\ UNCHANGED <<sessionVars, event_queue>>
    \/ c = "REFRESH_PAIRED_DEVICES" /\ RefreshPairedDevices
    \/ c = "START_SCAN" /\ StartScan(FALSE)
    \/ c = "START_TIMED_SCAN" /\ StartScan(TRUE)
    \/ c = "STOP_SCAN" /\ StopScan
    \/ c = "DEVICE" /\ DeviceCommand

\* Mutant: the switch has no case for STOP_SCAN.
ProcessWithoutStopScan ==
    /\ WorkerGoes("processing", "loop")
    /\ IF command = "STOP_SCAN" THEN UNCHANGED <<sessionVars, event_queue>> ELSE Execute(command)
    /\ running' = (running /\ command # "SHUTDOWN")
    /\ command' = "none"
    /\ UNCHANGED <<command_queue, stop_pc>>

ProcessCommand == /\ WorkerGoes("processing", "loop")
                  /\ Execute(command)
                  /\ running' = (running /\ command # "SHUTDOWN")
                  /\ command' = "none"
                  /\ UNCHANGED <<command_queue, stop_pc>>

ShutdownBackend == /\ WorkerGoes("stopping", "exited")
                   /\ Shutdown
                   /\ UNCHANGED <<command_queue, running, command, stop_pc>>

WorkerStep == \/ InitializeBackend \/ ReportInitFailure \/ AnnounceInitialized
              \/ Loop \/ TakeCommand \/ PollBackend \/ ProcessCommand \/ ShutdownBackend

-----------------------------------------------------------------------------
ThreadUp == {"init_done", "loop", "waiting", "processing", "stopping"}

Places == {"none", "starting", "init_failed", "exited"} \cup ThreadUp

ThreadType == /\ command_queue \in Seq(Commands)
              /\ running \in BOOLEAN
              /\ worker \in Places
              /\ command \in Commands \cup {"none"}
              /\ stop_pc \in {"none", "pushed", "joining"}
=============================================================================
