----------------------------- MODULE LinuxSession -----------------------------
(***************************************************************************)
(* The session of the Linux backend (platform/linux/linux_backend.cpp):    *)
(* initialisation against bluetoothd, discovery with its deadline, the     *)
(* paired-device snapshot and shutdown.  Each handler runs on the worker   *)
(* thread and is one action; it ends with the events it emitted appended   *)
(* to the event queue (on_event is event_queue.push).  What the devices    *)
(* look like is not here: an enumeration is only known to succeed or fail. *)
(***************************************************************************)
EXTENDS Naturals, Sequences

CONSTANT MayFail      \* the D-Bus requests that may fail

Requests == {"connect", "register_agent", "find_adapter", "read_adapters", "set_powered",
             "enumerate", "set_filter", "start_discovery", "stop_discovery", "device"}

ASSUME MayFailAssumption == MayFail \subseteq Requests

VARIABLES initialized,       \* connection open, signal matches registered
          agent,             \* our pairing agent is registered with bluetoothd
          adapter_powered,
          scanning,
          scan_deadline,     \* "none", "armed", or "passed" once the clock reached it
          discovering,       \* bluetoothd runs a discovery for our connection
          event_queue        \* events not delivered to the main thread yet

sessionVars == <<initialized, agent, adapter_powered, scanning, scan_deadline, discovering>>

\* An error carries the operation that failed and a code, of which only RADIO_OFF matters
\* here.  Where the code does not give one, infer_error_code reads it off the text, most of
\* which is bluetoothd's: an error of any request may say that something is not powered.
InitializeErrors == {"ERROR_INITIALIZE", "ERROR_INITIALIZE_RADIO_OFF"}
OtherErrors == {"ERROR_OTHER", "ERROR_OTHER_RADIO_OFF"}
RadioOffErrors == {"ERROR_INITIALIZE_RADIO_OFF", "ERROR_OTHER_RADIO_OFF"}

Events == {"BACKEND_INITIALIZED", "PAIRED_DEVICES_UPDATED", "SCAN_STARTED", "SCAN_STOPPED"}
            \cup InitializeErrors \cup OtherErrors

SessionInit == /\ initialized = FALSE /\ agent = FALSE /\ adapter_powered = FALSE
               /\ scanning = FALSE /\ scan_deadline = "none" /\ discovering = FALSE
               /\ event_queue = <<>>

Emit(events) == event_queue' = event_queue \o events

Fails(request) == request \in MayFail

-----------------------------------------------------------------------------
(* initialize and shutdown                                                 *)

\* No connection, no agent or no adapter: the agent (if registered) and the
\* connection are given back and nothing else changes.
InitializeFails == /\ \/ Fails("register_agent") /\ Emit(<<"ERROR_INITIALIZE">>)
                      \/ /\ Fails("connect") \/ Fails("find_adapter")
                         /\ \E e \in InitializeErrors : Emit(<<e>>)
                   /\ UNCHANGED sessionVars

\* ensure_adapter_powered reports a radio that stays off as an error of
\* "initialize", and initialize succeeds all the same.
EnsureAdapterPowered ==
    \/ adapter_powered' = TRUE /\ Emit(<<>>)
    \/ Fails("set_powered") /\ adapter_powered' = FALSE /\ Emit(<<"ERROR_INITIALIZE_RADIO_OFF">>)
    \/ Fails("read_adapters") /\ UNCHANGED <<adapter_powered, event_queue>>

InitializeSucceeds == /\ EnsureAdapterPowered
                      /\ initialized' = TRUE
                      /\ agent' = TRUE
                      /\ UNCHANGED <<scanning, scan_deadline, discovering>>

\* stop_scan ends the scan whatever bluetoothd answers to StopDiscovery.
EndDiscovery == /\ scanning' = FALSE
                /\ scan_deadline' = "none"
                /\ \/ discovering' = FALSE
                   \/ Fails("stop_discovery") /\ UNCHANGED discovering

\* Mutant: no scan in progress is no reason to return early.
StopScanAlways == /\ EndDiscovery
                  /\ Emit(<<"SCAN_STOPPED">>)
                  /\ UNCHANGED <<initialized, agent, adapter_powered>>

StopScan == \/ /\ ~scanning
               /\ UNCHANGED <<sessionVars, event_queue>>
            \/ /\ scanning
               /\ EndDiscovery
               /\ Emit(<<"SCAN_STOPPED">>)
               /\ UNCHANGED <<initialized, agent, adapter_powered>>

\* Mutant: shutdown forgets the scan it has to stop.
ShutdownWhileScanning ==
    /\ initialized' = FALSE /\ agent' = FALSE
    /\ UNCHANGED <<adapter_powered, scanning, scan_deadline, discovering, event_queue>>

\* shutdown: stop_scan, then the agent and the connection are given back.
Shutdown == /\ \/ ~scanning /\ UNCHANGED <<scanning, scan_deadline, discovering, event_queue>>
               \/ scanning /\ EndDiscovery /\ Emit(<<"SCAN_STOPPED">>)
            /\ initialized' = FALSE
            /\ agent' = FALSE
            /\ UNCHANGED adapter_powered

-----------------------------------------------------------------------------
(* The commands that concern the session                                   *)

\* enumerate_devices(false, false) followed by emit_paired_devices_updated.
Snapshots == {<<"PAIRED_DEVICES_UPDATED">>} \cup
             IF Fails("enumerate") THEN {<<e, "PAIRED_DEVICES_UPDATED">> : e \in OtherErrors} ELSE {}

RefreshPairedDevices == /\ \E s \in Snapshots : Emit(s)
                        /\ UNCHANGED sessionVars

\* The client hears SCAN_STARTED first; discovery is asked for last and may fail.
\* bluetoothd refuses it (InProgress) to a connection that still has one.
StartScan(timed) ==
    \/ /\ scanning
       /\ UNCHANGED <<sessionVars, event_queue>>
    \/ /\ ~scanning
       /\ scan_deadline' = IF timed THEN "armed" ELSE "none"
       /\ \E s \in Snapshots :
            \/ /\ ~discovering
               /\ scanning' = TRUE
               /\ discovering' = TRUE
               /\ Emit(<<"SCAN_STARTED">> \o s)
            \/ /\ discovering \/ Fails("set_filter") \/ Fails("start_discovery")
               /\ \E e \in OtherErrors : Emit(<<"SCAN_STARTED">> \o s \o <<e>>)
               /\ UNCHANGED <<scanning, discovering>>
       /\ UNCHANGED <<initialized, agent, adapter_powered>>

\* connect_device, disconnect_device and unpair_device, as far as the session goes: what
\* they do to the devices is in Devices.  disconnect_device adds to what bluetoothd says of
\* a failure that gamepads reconnect "when powered on", which reads as RADIO_OFF.
DeviceCommand == /\ \/ Emit(<<>>)
                    \/ Fails("device") /\ \E e \in OtherErrors : Emit(<<e>>)
                 /\ UNCHANGED sessionVars

\* Mutant: poll only dispatches D-Bus messages.
PollWithoutDeadline == UNCHANGED <<sessionVars, event_queue>>

\* poll dispatches D-Bus messages (devices and agent requests, not modelled here)
\* and then looks at the deadline.
Poll == IF scanning /\ scan_deadline = "passed" THEN StopScan
        ELSE UNCHANGED <<sessionVars, event_queue>>

\* The steady clock reaches the deadline.
DeadlinePasses == /\ scan_deadline = "armed"
                  /\ scan_deadline' = "passed"
                  /\ UNCHANGED <<initialized, agent, adapter_powered, scanning, discovering,
                                 event_queue>>

-----------------------------------------------------------------------------
SessionType == /\ initialized \in BOOLEAN /\ agent \in BOOLEAN /\ adapter_powered \in BOOLEAN
               /\ scanning \in BOOLEAN /\ discovering \in BOOLEAN
               /\ scan_deadline \in {"none", "armed", "passed"}
               /\ event_queue \in Seq(Events)
=============================================================================
