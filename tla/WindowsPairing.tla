---------------------------- MODULE WindowsPairing ----------------------------
(***************************************************************************)
(* Interactive pairing on Windows.  The worker blocks in                   *)
(* DeviceInformationCustomPairing.PairAsync().get(), without a time-out,   *)
(* and Windows raises PairingRequested on a thread of its own: the handler *)
(* prompts the user, looks once for an answer and accepts.  So three       *)
(* threads meet in the PairingPendingState: the worker (cancel_pairing),   *)
(* the main thread (submit) and the handlers, of which one may be late     *)
(* when PairAsync has ended and the next pairing has begun.                *)
(*                                                                         *)
(* Windows (the pairing ceremony) and the user are outside src/.           *)
(***************************************************************************)
EXTENDS Naturals, Sequences

CONSTANTS MaxCalls,      \* bound of the model: how often Windows raises PairingRequested
          MaxCommands,   \* bound of the model: API calls stop at this many queued commands
          MaxEvents      \* ... and while more than this many events are queued

ASSUME PairingBounds == MaxCalls \in Nat /\ MaxCommands \in Nat /\ MaxEvents \in Nat

\* The PairingRequested events, in the order Windows raises them.
Calls == 1..MaxCalls

NoCall == 0

VARIABLES command_queue,
          event_queue,
          worker,       \* where the worker is
          response,     \* PairingPendingState's answer, "none" if it has no value
          place,        \* where the handler of each request is
          kind,         \* what each request asks for
          verdict,      \* what its handler has accepted it with
          said,         \* history: the user's last word, on whatever prompt, while each
                        \* request was pending
          main_pc,      \* "cancelling" inside cancel_pairing, "none" elsewhere
          ceremony,     \* what the client heard last of a pairing: "none", "running"
          prompt,       \* the request the client shows to the user
          bond          \* Windows' side of PairAsync: "none", "running", "asking", "accepted"

handlerVars == <<place, kind, verdict, said>>
clientVars == <<main_pc, ceremony, prompt>>
vars == <<command_queue, event_queue, worker, response, handlerVars, clientVars, bond>>

\* ConfirmOnly, ConfirmPinMatch and DisplayPin are accepted alike: "confirm".
Kinds == {"provide_pin", "confirm"}

Answers == {"reject", "accept", "accept_pin"}

Event(type) == [type |-> type, call |-> NoCall]

Prompt(r) == [type |-> "PROMPT", call |-> r]

Started == Event("PAIRING_STARTED")
Succeeded == Event("PAIRING_SUCCEEDED")
Failed == Event("PAIRING_FAILED")

Emit(events) == event_queue' = event_queue \o events

Init == /\ command_queue = <<>> /\ event_queue = <<>>
        /\ worker = "idle" /\ response = "none"
        /\ place = [r \in Calls |-> "unmade"]
        /\ kind = [r \in Calls |-> "confirm"]
        /\ verdict = [r \in Calls |-> "none"]
        /\ said = [r \in Calls |-> "none"]
        /\ main_pc = "none" /\ ceremony = "none" /\ prompt = NoCall
        /\ bond = "none"

-----------------------------------------------------------------------------
(* The user, through BluetoothManager                                      *)

Room == Len(command_queue) < MaxCommands /\ Len(event_queue) <= MaxEvents

Pending(r) == place[r] \in {"begun", "prompted"}

\* submit: the answer goes into the one pending state, whichever handler looks there.
Submit(answer) ==
    /\ response' = answer
    /\ said' = [r \in Calls |-> IF Pending(r) THEN answer ELSE said[r]]
    /\ UNCHANGED <<place, kind, verdict>>

PairDevice == /\ main_pc = "none" /\ Room
              /\ command_queue' = Append(command_queue, "PAIR")
              /\ UNCHANGED <<event_queue, worker, response, handlerVars, clientVars, bond>>

\* confirm_pairing and reject_pairing, by a user who sees a prompt.
AnswerPrompt(answer) ==
    /\ main_pc = "none" /\ prompt # NoCall
    /\ Submit(answer)
    /\ prompt' = NoCall
    /\ UNCHANGED <<command_queue, event_queue, worker, main_pc, ceremony, bond>>

\* cancel_pairing, at any time: reject first, then a command.
Cancel == /\ main_pc = "none" /\ Room
          /\ Submit("reject")
          /\ main_pc' = "cancelling"
          /\ prompt' = NoCall
          /\ UNCHANGED <<command_queue, event_queue, worker, ceremony, bond>>

CancelEnqueue == /\ main_pc = "cancelling"
                 /\ command_queue' = Append(command_queue, "CANCEL_PAIRING")
                 /\ main_pc' = "none"
                 /\ UNCHANGED <<event_queue, worker, response, handlerVars, ceremony, prompt, bond>>

\* _process delivers one event as a signal.
HandleEvent ==
    /\ main_pc = "none" /\ event_queue # <<>>
    /\ LET e == Head(event_queue) IN
         \/ /\ e.type = "PROMPT"
            /\ prompt' = e.call
            /\ UNCHANGED ceremony
         \/ /\ e.type # "PROMPT"
            /\ ceremony' = IF e.type = "PAIRING_STARTED" THEN "running" ELSE "none"
            /\ UNCHANGED prompt
    /\ event_queue' = Tail(event_queue)
    /\ UNCHANGED <<command_queue, worker, response, handlerVars, main_pc, bond>>

-----------------------------------------------------------------------------
(* The worker                                                              *)

\* pair_device and pair_device_by_id: the device is looked for, by calls that block.
StartPairing == /\ worker = "idle"
                /\ command_queue # <<>> /\ Head(command_queue) = "PAIR"
                /\ command_queue' = Tail(command_queue)
                /\ Emit(<<Started>>)
                /\ worker' = "looking"
                /\ UNCHANGED <<response, handlerVars, clientVars, bond>>

\* Not found, an endpoint that cannot pair, or a call that throws.
CannotPair == /\ worker = "looking"
              /\ Emit(<<Failed>>)
              /\ worker' = "idle"
              /\ UNCHANGED <<command_queue, response, handlerVars, clientVars, bond>>

\* perform_pairing: PairAsync, unless Windows says the device is paired already.
CallPairAsync == /\ worker = "looking" /\ bond = "none"
                 /\ bond' = "running" /\ worker' = "pairing"
                 /\ UNCHANGED <<command_queue, event_queue, response, handlerVars, clientVars>>

\* Mutant: a device that is paired is paired again, and nobody waits for that.
PairAgain == /\ worker = "looking"
             /\ worker' = "finalizing" /\ bond' = "running"
             /\ UNCHANGED <<command_queue, event_queue, response, handlerVars, clientVars>>

AlreadyPaired == /\ worker = "looking"
                 /\ worker' = "finalizing"
                 /\ UNCHANGED <<command_queue, event_queue, response, handlerVars, clientVars, bond>>

\* PairAsync ends well: nobody had to be asked, or the request was accepted.
PairAsyncPairs == /\ worker = "pairing" /\ bond \in {"running", "accepted"}
                  /\ worker' = "finalizing" /\ bond' = "none"
                  /\ UNCHANGED <<command_queue, event_queue, response, handlerVars, clientVars>>

\* Mutant: a PairAsync that returns another status ends the handler and says nothing.
PairAsyncFailsSilently ==
    /\ worker = "pairing"
    /\ worker' = "idle" /\ bond' = "none"
    /\ UNCHANGED <<command_queue, event_queue, response, handlerVars, clientVars>>

\* It returns another status, or throws, even while a handler is still busy.
PairAsyncFails == /\ worker = "pairing"
                  /\ Emit(<<Failed>>)
                  /\ worker' = "idle" /\ bond' = "none"
                  /\ UNCHANGED <<command_queue, response, handlerVars, clientVars>>

\* Mutant: the success is reported before the lookups, and their failure after it.
FinalizeTwice == /\ worker = "finalizing"
                 /\ Emit(<<Succeeded>>) \/ Emit(<<Succeeded, Failed>>)
                 /\ worker' = "idle"
                 /\ UNCHANGED <<command_queue, response, handlerVars, clientVars, bond>>

\* finalize_pairing_success, whose lookups take seconds and may throw.
Finalize == /\ worker = "finalizing"
            /\ Emit(<<Succeeded>>) \/ Emit(<<Failed>>)
            /\ worker' = "idle"
            /\ UNCHANGED <<command_queue, response, handlerVars, clientVars, bond>>

\* CANCEL_PAIRING: cancel_pairing is reject_pairing, and then reset.
CancelPairing == /\ worker = "idle"
                 /\ command_queue # <<>> /\ Head(command_queue) = "CANCEL_PAIRING"
                 /\ command_queue' = Tail(command_queue)
                 /\ Submit("reject")
                 /\ worker' = "cancelling"
                 /\ UNCHANGED <<event_queue, clientVars, bond>>

CancelResets == /\ worker = "cancelling"
                /\ response' = "none"
                /\ worker' = "idle"
                /\ UNCHANGED <<command_queue, event_queue, handlerVars, clientVars, bond>>

-----------------------------------------------------------------------------
(* handle_pairing_requested, on a thread of Windows'                       *)

Move(r, to) == place' = [place EXCEPT ![r] = to]

\* The handler returns, and its locals are gone.
Leave(r) == /\ Move(r, "done")
            /\ kind' = [kind EXCEPT ![r] = "confirm"]
            /\ verdict' = [verdict EXCEPT ![r] = "none"]
            /\ said' = [said EXCEPT ![r] = "none"]

\* Mutant: begin() notes the request and leaves the answer alone.
BeginKeepingResponse(r) ==
    /\ place[r] = "raised"
    /\ Move(r, "begun")
    /\ UNCHANGED <<command_queue, event_queue, worker, response, kind, verdict, said, clientVars,
                   bond>>

Begin(r) == /\ place[r] = "raised"
            /\ Move(r, "begun")
            /\ response' = "none"
            /\ UNCHANGED <<command_queue, event_queue, worker, kind, verdict, said, clientVars, bond>>

Ask(r) == /\ place[r] = "begun"
          /\ Emit(<<Prompt(r)>>)
          /\ Move(r, "prompted")
          /\ UNCHANGED <<command_queue, worker, response, kind, verdict, said, clientVars, bond>>

\* What the ceremony is accepted with; nothing the user says rejects it.
Accepted(k, answer) == IF k = "provide_pin"
                       THEN IF answer = "accept_pin" THEN "users_pin" ELSE "default_pin"
                       ELSE "consent"

\* wait_for_response(0): the answer that is there by now, if any.
Accept(r) == /\ place[r] = "prompted"
             /\ verdict' = [verdict EXCEPT ![r] = Accepted(kind[r], response)]
             /\ Move(r, "accepted")
             /\ bond' = IF bond = "asking" THEN "accepted" ELSE bond
             /\ UNCHANGED <<command_queue, event_queue, worker, response, kind, said, clientVars>>

\* Accept() throws: the exception leaves the handler, and reset() is not reached.
AcceptThrows(r) ==
    /\ place[r] = "prompted"
    /\ Leave(r)
    /\ UNCHANGED <<command_queue, event_queue, worker, response, clientVars, bond>>

Reset(r) == /\ place[r] = "accepted"
            /\ response' = "none"
            /\ Leave(r)
            /\ UNCHANGED <<command_queue, event_queue, worker, clientVars, bond>>

-----------------------------------------------------------------------------
(* Windows (external)                                                      *)

\* PairAsync needs the user: one request at a time, the handlers of earlier
\* pairings may still be running.
WindowsAsks(r, k) ==
    /\ bond = "running"
    /\ place[r] = "unmade" /\ \A q \in 1..(r - 1) : place[q] # "unmade"
    /\ bond' = "asking"
    /\ Move(r, "raised")
    /\ kind' = [kind EXCEPT ![r] = k]
    /\ UNCHANGED <<command_queue, event_queue, worker, response, verdict, said, clientVars>>

-----------------------------------------------------------------------------
Work == \/ StartPairing \/ CannotPair \/ CallPairAsync \/ AlreadyPaired
        \/ PairAsyncPairs \/ PairAsyncFails \/ Finalize
        \/ CancelPairing \/ CancelResets

Handler(r) == Begin(r) \/ Ask(r) \/ Accept(r) \/ AcceptThrows(r) \/ Reset(r)

User == PairDevice \/ Cancel \/ \E answer \in Answers : AnswerPrompt(answer)

Next == \/ Work \/ User \/ CancelEnqueue \/ HandleEvent
        \/ \E r \in Calls : Handler(r) \/ \E k \in Kinds : WindowsAsks(r, k)

Spec == Init /\ [][Next]_vars

\* The worker runs on, and _process comes with every frame, whatever a script calls
\* in between: strong fairness.  That PairAsync ends at some time is an assumption
\* about Windows: the code sets no limit.  The handlers, and the user, need not come
\* to an end.
Fairness == WF_vars(Work) /\ WF_vars(CancelEnqueue) /\ SF_vars(HandleEvent)

FairSpec == Spec /\ Fairness

-----------------------------------------------------------------------------
(* Properties                                                              *)

Events == [type : {"PAIRING_STARTED", "PAIRING_SUCCEEDED", "PAIRING_FAILED"}, call : {NoCall}]
            \cup [type : {"PROMPT"}, call : Calls]

TypeOK == /\ command_queue \in Seq({"PAIR", "CANCEL_PAIRING"})
          /\ event_queue \in Seq(Events)
          /\ worker \in {"idle", "looking", "pairing", "finalizing", "cancelling"}
          /\ response \in Answers \cup {"none"}
          /\ place \in [Calls -> {"unmade", "raised", "begun", "prompted", "accepted", "done"}]
          /\ kind \in [Calls -> Kinds]
          /\ verdict \in [Calls -> {"none", "users_pin", "default_pin", "consent"}]
          /\ said \in [Calls -> Answers \cup {"none"}]
          /\ main_pc \in {"none", "cancelling"}
          /\ ceremony \in {"none", "running"}
          /\ prompt \in Calls \cup {NoCall}
          /\ bond \in {"none", "running", "asking", "accepted"}
          /\ (bond # "none") = (worker = "pairing")

\* A PIN is handed to Windows for a request only if the user gave it while that request
\* was pending and has not taken it back since: one that was given before the handler's
\* begin(), or followed by a rejection or a cancel_pairing, is never used, whatever the
\* other handlers and the worker put into the one pending state or remove from it.  It
\* does not say that the PIN was meant for this request: while the handlers of two are
\* pending, a PIN that the user types at the prompt of one may be handed over for the other.
PinIsUsers == \A r \in Calls : verdict[r] = "users_pin" => said[r] = "accept_pin"

\* The client hears of one pairing at a time: a start and one outcome, in turn,
\* also when a lookup throws after Windows has paired the device.
CeremonyAlternates ==
    event_queue # <<>> =>
      LET e == Head(event_queue) IN
        /\ e.type = "PAIRING_STARTED" => ceremony = "none"
        /\ e.type \in {"PAIRING_SUCCEEDED", "PAIRING_FAILED"} => ceremony = "running"

\* A client that heard pairing_started hears how it ended, although a handler may
\* be stuck, provided that Windows ends the PairAsync.
CeremonyEnds == (ceremony = "running") ~> (ceremony = "none")

-----------------------------------------------------------------------------
(* What the class reference says, and the code does not do                 *)

\* "Rejects the current interactive pairing request" (reject_pairing), "Cancels the
\* in-progress pairing ceremony" (cancel_pairing): a request that is pending when the
\* user calls one of them, and whose handler finds that answer, is not accepted.
RejectionIsHonoured ==
    [][\A r \in Calls : place[r] = "prompted" /\ response = "reject" /\ said[r] = "reject"
          => verdict'[r] = "none"]_vars
=============================================================================
