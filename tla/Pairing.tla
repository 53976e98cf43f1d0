-------------------------------- MODULE Pairing --------------------------------
(***************************************************************************)
(* Interactive pairing on Linux: the pair commands of the backend, the     *)
(* agent through which bluetoothd asks the user (bluez_agent.cpp), the     *)
(* answer that crosses from the main thread to the worker without a queue  *)
(* (pairing_pending.h), and the signals a client of BluetoothManager       *)
(* hears.  The worker blocks twice: inside Device1.Pair, and inside the    *)
(* agent's handler until the user answers or 60 seconds pass.              *)
(*                                                                         *)
(* bluetoothd, libdbus and the user are outside src/.  libdbus hands no    *)
(* message to anybody while it blocks for a reply, so a request made       *)
(* during our Pair stays in `calls' until Pair has returned.               *)
(***************************************************************************)
EXTENDS Naturals, Sequences

CONSTANTS MaxCalls,      \* bound of the model: how often bluetoothd asks our agent
          MaxCommands,   \* bound of the model: API calls stop at this many queued commands
          MaxEvents      \* ... and while more than this many events are queued

ASSUME PairingBounds == MaxCalls \in Nat /\ MaxCommands \in Nat /\ MaxEvents \in Nat

\* The requests bluetoothd makes to our agent, in the order it makes them.
Calls == 1..MaxCalls

NoCall == 0

VARIABLES command_queue,
          event_queue,
          worker,       \* where the worker is
          current,      \* the request the agent's handler is busy with
          response,     \* PairingPendingState's answer, "none" if it has no value
          verdict,      \* what the handler made of it
          main_pc,      \* "cancelling" inside cancel_pairing, "none" elsewhere
          ceremony,     \* what the client heard last of a pairing: "none", "running"
          prompt,       \* the request the client shows to the user
          bond,         \* bluetoothd's side of our Pair: "none", "running", "asking"
          asked,        \* the request it made for that Pair
          calls,        \* requests in our D-Bus connection, not dispatched yet
          call_state,   \* bluetoothd's view of each request
          kind,         \* what each request that was made asks for
          own,          \* all the requests it ever made while we were inside Pair, for it
          said          \* history: the user's last word, on whatever prompt, while
                        \* `current' was pending

workerVars == <<worker, current, verdict>>
clientVars == <<main_pc, ceremony, prompt>>
bluezVars == <<bond, asked, calls, call_state, kind, own>>
vars == <<command_queue, event_queue, workerVars, response, clientVars, bluezVars, said>>

\* What the agent is asked for.  "other" stands for the methods that it answers without
\* asking anybody: AuthorizeService, Cancel, Release.
Kinds == {"provide_pin", "confirm", "display_pin", "other"}

Answers == {"reject", "accept", "accept_pin"}

Event(type) == [type |-> type, call |-> NoCall]

Prompt(r) == [type |-> "PROMPT", call |-> r]

Emit(events) == event_queue' = event_queue \o events

Init == /\ command_queue = <<>> /\ event_queue = <<>>
        /\ worker = "idle" /\ current = NoCall /\ verdict = "reject"
        /\ response = "none"
        /\ main_pc = "none" /\ ceremony = "none" /\ prompt = NoCall
        /\ bond = "none" /\ asked = NoCall /\ calls = <<>>
        /\ call_state = [r \in Calls |-> "unmade"]
        /\ kind = [r \in Calls |-> "confirm"]
        /\ own = {}
        /\ said = "none"

-----------------------------------------------------------------------------
(* The user, through BluetoothManager                                      *)

Room == Len(command_queue) < MaxCommands /\ Len(event_queue) <= MaxEvents

Pending == worker \in {"begun", "waiting"}

\* submit: the answer goes straight into the pending state, whoever waits for it.
Submit(answer) == /\ response' = answer
                  /\ said' = IF Pending THEN answer ELSE said

PairDevice == /\ main_pc = "none" /\ Room
              /\ command_queue' = Append(command_queue, "PAIR")
              /\ UNCHANGED <<event_queue, workerVars, response, clientVars, bluezVars, said>>

\* confirm_pairing and reject_pairing, by a user who sees a prompt.
AnswerPrompt(answer) ==
    /\ main_pc = "none" /\ prompt # NoCall
    /\ Submit(answer)
    /\ prompt' = NoCall
    /\ UNCHANGED <<command_queue, event_queue, workerVars, main_pc, ceremony, bluezVars>>

\* cancel_pairing, at any time: reject first, then a command.
Cancel == /\ main_pc = "none" /\ Room
          /\ Submit("reject")
          /\ main_pc' = "cancelling"
          /\ prompt' = NoCall
          /\ UNCHANGED <<command_queue, event_queue, workerVars, ceremony, bluezVars>>

CancelEnqueue == /\ main_pc = "cancelling"
                 /\ command_queue' = Append(command_queue, "CANCEL_PAIRING")
                 /\ main_pc' = "none"
                 /\ UNCHANGED <<event_queue, workerVars, response, ceremony, prompt, bluezVars,
                                said>>

\* _process delivers one event as a signal.
HandleEvent ==
    /\ main_pc = "none" /\ event_queue # <<>>
    /\ LET e == Head(event_queue) IN
         \/ /\ e.type = "PROMPT"
            /\ prompt' = e.call
            /\ UNCHANGED ceremony
         \/ /\ e.type # "PROMPT"
            /\ ceremony' = IF e.type = "PAIRING_STARTED" THEN "running" ELSE "none"
            /\ UNCHANGED prompt
    /\ event_queue' = Tail(event_queue)
    /\ UNCHANGED <<command_queue, workerVars, response, main_pc, bluezVars, said>>

-----------------------------------------------------------------------------
(* The worker: commands                                                    *)

Started == Event("PAIRING_STARTED")
Succeeded == Event("PAIRING_SUCCEEDED")
Failed == Event("PAIRING_FAILED")

\* Mutant: a device that is not found is reported, and paired all the same.
CallPairAnyway == /\ bond = "none" /\ bond' = "running"
                  /\ worker' = "pairing"
                  /\ Emit(<<Started>>) \/ Emit(<<Started, Failed>>)
                  /\ UNCHANGED <<asked, calls, call_state, kind, own>>

CallPair == /\ bond = "none" /\ bond' = "running"
            /\ worker' = "pairing"
            /\ Emit(<<Started>>)
            /\ UNCHANGED <<asked, calls, call_state, kind, own>>

\* No such device (or no address), one the cache says is paired already, or a
\* bluetoothd that refuses because it is still busy with an earlier Pair.
PairAtOnce == /\ Emit(<<Started, Failed>>) \/ Emit(<<Started, Succeeded>>)
              /\ UNCHANGED <<worker, bluezVars>>

StartPairing == /\ worker = "idle"
                /\ command_queue # <<>> /\ Head(command_queue) = "PAIR"
                /\ command_queue' = Tail(command_queue)
                /\ CallPair \/ PairAtOnce
                /\ UNCHANGED <<current, verdict, response, clientVars, said>>

\* bluetoothd is done with our Pair, and with the request it made for it.
EndBond == /\ bond' = "none" /\ asked' = NoCall
           /\ call_state' = [r \in Calls |-> IF r = asked /\ call_state[r] = "sent" THEN "expired"
                                             ELSE call_state[r]]

\* Device1.Pair returns, nobody having had to be asked: a request that was made for it
\* is not even dispatched before it returns, so it is not accepted in time.
PairSucceeds == /\ worker = "pairing"
                /\ bond = "running"
                /\ worker' = "idle"
                /\ Emit(<<Succeeded>>)
                /\ EndBond
                /\ UNCHANGED <<command_queue, current, verdict, response, clientVars, calls, kind,
                               own, said>>

\* Mutant: a Pair that fails leaves it at that.
PairFailsSilently == /\ worker = "pairing"
                     /\ worker' = "idle"
                     /\ EndBond \/ UNCHANGED <<bond, asked, call_state>>
                     /\ UNCHANGED <<command_queue, event_queue, current, verdict, response,
                                    clientVars, calls, kind, own, said>>

\* It fails, or our 60 seconds are over and bluetoothd goes on without us.
PairFails == /\ worker = "pairing"
             /\ worker' = "idle"
             /\ Emit(<<Failed>>)
             /\ EndBond \/ UNCHANGED <<bond, asked, call_state>>
             /\ UNCHANGED <<command_queue, current, verdict, response, clientVars, calls, kind,
                            own, said>>

\* CANCEL_PAIRING: reject_pairing and reset, with nobody waiting on this thread.
CancelPairing == /\ worker = "idle"
                 /\ command_queue # <<>> /\ Head(command_queue) = "CANCEL_PAIRING"
                 /\ command_queue' = Tail(command_queue)
                 /\ response' = "none"
                 /\ UNCHANGED <<event_queue, workerVars, clientVars, bluezVars, said>>

-----------------------------------------------------------------------------
(* The worker: poll and the agent's handler                                *)

\* wait_pop timed out: poll dispatches whatever is in the connection.
Poll == /\ worker = "idle" /\ command_queue = <<>>
        /\ worker' = "polling"
        /\ UNCHANGED <<command_queue, event_queue, current, verdict, response, clientVars,
                       bluezVars, said>>

PollDone == /\ worker = "polling" /\ calls = <<>>
            /\ worker' = "idle"
            /\ UNCHANGED <<command_queue, event_queue, current, verdict, response, clientVars,
                           bluezVars, said>>

\* Mutant: begin() notes the request and leaves the answer alone.
BeginKeepingResponse ==
    /\ worker = "polling" /\ calls # <<>> /\ kind[Head(calls)] # "other"
    /\ current' = Head(calls) /\ calls' = Tail(calls)
    /\ worker' = "begun"
    /\ said' = "none"
    /\ UNCHANGED <<command_queue, event_queue, verdict, response, clientVars, bond, asked,
                   call_state, kind, own>>

\* A request is dispatched, even one bluetoothd has given up: begin() forgets any
\* answer that was there before.
Begin == /\ worker = "polling" /\ calls # <<>> /\ kind[Head(calls)] # "other"
         /\ current' = Head(calls) /\ calls' = Tail(calls)
         /\ worker' = "begun"
         /\ response' = "none" /\ said' = "none"
         /\ UNCHANGED <<command_queue, event_queue, verdict, clientVars, bond, asked, call_state,
                        kind, own>>

\* bluetoothd learns the agent's reply, unless it has given the request up.
Answered(r, answer) ==
    call_state' = [call_state EXCEPT ![r] = IF @ = "sent" THEN answer ELSE @]

\* Any other method of the agent gets an empty reply, and that is a consent.
ReplyAtOnce ==
    /\ worker = "polling" /\ calls # <<>> /\ kind[Head(calls)] = "other"
    /\ calls' = Tail(calls)
    /\ Answered(Head(calls), "accepted")
    /\ UNCHANGED <<command_queue, event_queue, workerVars, response, clientVars, bond, asked,
                   kind, own, said>>

Ask == /\ worker = "begun"
       /\ Emit(<<Prompt(current)>>)
       /\ worker' = "waiting"
       /\ UNCHANGED <<command_queue, current, verdict, response, clientVars, bluezVars, said>>

\* The user consents to a request with a confirmation, which has to bring the PIN if
\* that is what was asked for.
Consents(k, answer) == \/ k = "confirm" /\ answer \in {"accept", "accept_pin"}
                       \/ k = "provide_pin" /\ answer = "accept_pin"

\* A PIN to display needs no consent: the wait only keeps it on the screen.
Verdict(k, answer) == IF k = "display_pin" \/ Consents(k, answer) THEN "accept" ELSE "reject"

Settle(answer) == /\ verdict' = Verdict(kind[current], answer)
                  /\ worker' = "answered"
                  /\ UNCHANGED <<command_queue, event_queue, current, response, clientVars,
                                 bluezVars, said>>

Wake == /\ worker = "waiting" /\ response # "none"
        /\ Settle(response)

\* Mutant: what the wait left in its out parameter is used after a time-out.
TimeOutUnchecked == /\ worker = "waiting"
                    /\ verdict' = response
                    /\ worker' = "answered"
                    /\ UNCHANGED <<command_queue, event_queue, current, response, clientVars,
                                   bluezVars, said>>

\* Mutant: the wait has no limit.
TimeOutNever == FALSE /\ Settle("none")

\* After 60 seconds, the predicate having been evaluated once more.
TimeOut == /\ worker = "waiting" /\ response = "none"
           /\ Settle("none")

\* reset() drops the answer, a late one too, and the reply is sent.
Reply == /\ worker = "answered"
         /\ response' = "none"
         /\ worker' = "polling" /\ current' = NoCall /\ verdict' = "reject" /\ said' = "none"
         /\ Answered(current, IF verdict = "accept" THEN "accepted" ELSE "rejected")
         /\ UNCHANGED <<command_queue, event_queue, clientVars, bond, asked, calls, kind, own>>

-----------------------------------------------------------------------------
(* bluetoothd (external)                                                   *)

\* It asks our agent, for our Pair or because a remote device wants to pair, or it calls
\* one of the other methods.
BluezAsks(r, k) ==
    /\ call_state[r] = "unmade" /\ \A q \in 1..(r - 1) : call_state[q] # "unmade"
    /\ kind' = [kind EXCEPT ![r] = k]
    /\ call_state' = [call_state EXCEPT ![r] = "sent"]
    /\ calls' = Append(calls, r)
    /\ \/ /\ bond = "running" /\ k # "other"
          /\ bond' = "asking" /\ asked' = r
          /\ own' = IF worker = "pairing" THEN own \cup {r} ELSE own
       \/ UNCHANGED <<bond, asked, own>>
    /\ UNCHANGED <<command_queue, event_queue, workerVars, response, clientVars, said>>

\* It waits for an answer for a limited time.
BluezGivesUp(r) ==
    /\ call_state[r] = "sent"
    /\ call_state' = [call_state EXCEPT ![r] = "expired"]
    /\ UNCHANGED <<command_queue, event_queue, workerVars, response, clientVars, bond, asked,
                   calls, kind, own, said>>

\* It ends a Pair whose caller does not wait any more.
BluezEndsPair == /\ bond # "none" /\ worker # "pairing"
                 /\ EndBond
                 /\ UNCHANGED <<command_queue, event_queue, workerVars, response, clientVars,
                                calls, kind, own, said>>

-----------------------------------------------------------------------------
Work == \/ StartPairing \/ PairSucceeds \/ PairFails \/ CancelPairing
        \/ Poll \/ PollDone \/ Begin \/ ReplyAtOnce \/ Ask \/ Wake \/ TimeOut \/ Reply

User == PairDevice \/ Cancel \/ \E answer \in Answers : AnswerPrompt(answer)

Bluez == BluezEndsPair \/ \E r \in Calls : BluezGivesUp(r) \/ \E k \in Kinds : BluezAsks(r, k)

Next == Work \/ User \/ CancelEnqueue \/ HandleEvent \/ Bluez

Spec == Init /\ [][Next]_vars

\* Both threads run on; the time-outs of Device1.Pair and of the wait, which are
\* steps of the worker, come.  The user and bluetoothd need not do anything.
Fairness == WF_vars(Work) /\ WF_vars(CancelEnqueue) /\ WF_vars(HandleEvent)

FairSpec == Spec /\ Fairness

-----------------------------------------------------------------------------
(* Properties                                                              *)

Events == [type : {"PAIRING_STARTED", "PAIRING_SUCCEEDED", "PAIRING_FAILED"}, call : {NoCall}]
            \cup [type : {"PROMPT"}, call : Calls]

TypeOK == /\ command_queue \in Seq({"PAIR", "CANCEL_PAIRING"})
          /\ event_queue \in Seq(Events)
          /\ worker \in {"idle", "pairing", "polling", "begun", "waiting", "answered"}
          /\ current \in Calls \cup {NoCall}
          /\ worker \in {"begun", "waiting", "answered"} => current \in Calls
          /\ response \in Answers \cup {"none"}
          /\ verdict \in {"accept", "reject"}
          /\ main_pc \in {"none", "cancelling"}
          /\ ceremony \in {"none", "running"}
          /\ prompt \in Calls \cup {NoCall}
          /\ bond \in {"none", "running", "asking"}
          /\ asked \in Calls \cup {NoCall}
          /\ bond = "asking" => asked \in Calls
          /\ calls \in Seq(Calls)
          /\ call_state \in [Calls -> {"unmade", "sent", "accepted", "rejected", "expired"}]
          /\ kind \in [Calls -> Kinds]
          /\ own \subseteq Calls
          /\ said \in Answers \cup {"none"}

\* A request for the user's consent (to confirm, or to provide a PIN) is granted if and
\* only if the last answer that the user gave while it was pending consents to it.  An
\* answer that came before begin() or after the time-out grants nothing, a rejection or
\* a cancel_pairing takes back an earlier consent that was not read yet, and silence is a
\* rejection.  The answers do not say which prompt they are for: one that the user gives
\* to the prompt of a request that has timed out counts for the request pending by then.
\* The other methods need no consent, nor does a PIN to display: they are not meant here.
VerdictIsUsers == worker = "answered" /\ kind[current] # "display_pin"
                    => (verdict = "accept" <=> Consents(kind[current], said))

\* The client hears of one pairing at a time: a start and one outcome, in turn,
\* whatever ends the pairing and however long the signals were queued.
CeremonyAlternates ==
    event_queue # <<>> =>
      LET e == Head(event_queue) IN
        /\ e.type = "PAIRING_STARTED" => ceremony = "none"
        /\ e.type \in {"PAIRING_SUCCEEDED", "PAIRING_FAILED"} => ceremony = "running"

\* A client that heard pairing_started hears how it ended.
CeremonyEnds == (ceremony = "running") ~> (ceremony = "none")

\* Whatever bluetoothd and the user do, or do not do, the worker gets back to its
\* commands and to `running': pairing cannot hold up the other commands, or a
\* stop() that waits for the thread, for ever.
WorkerComesBack == (worker # "idle") ~> (worker = "idle")

-----------------------------------------------------------------------------
(* What the class reference says, and the code does not do                 *)

\* "Interactive PIN flows emit ..." between pairing_started and the outcome
\* (pair_device): the prompt of our Pair reaches the client while it is running.
PromptDuringCeremony ==
    event_queue # <<>> /\ Head(event_queue).call \in own => ceremony = "running"
=============================================================================
