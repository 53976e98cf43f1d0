----------------------------- MODULE PairingProofs -----------------------------
(***************************************************************************)
(* Proofs about Pairing, for any number of requests and any bounds: type   *)
(* correctness, VerdictIsUsers and CeremonyAlternates.                     *)
(*                                                                         *)
(* VerdictIsUsers rests on Consent: while a request is pending, the answer *)
(* that crosses the threads is the user's last word on that request, since *)
(* begin() forgot every earlier one; and on Made: bluetoothd never reuses  *)
(* the request the handler is busy with, so what it asks for stands still. *)
(* CeremonyAlternates rests on Alternation: the queued events lead the     *)
(* client from what it heard last to whether the worker is inside Pair.    *)
(***************************************************************************)
EXTENDS Pairing, Histories

Busy == worker \in {"begun", "waiting", "answered"}

Made == /\ Busy => call_state[current] # "unmade"
        /\ \A i \in 1..Len(calls) : call_state[calls[i]] # "unmade"

Consent == Pending => response = said

IInv == TypeOK /\ Made /\ Consent /\ VerdictIsUsers

Commands == {"PAIR", "CANCEL_PAIRING"}

WorkerPlaces == {"idle", "pairing", "polling", "begun", "waiting", "answered"}

CallStates == {"unmade", "sent", "accepted", "rejected", "expired"}

-----------------------------------------------------------------------------
(* Type correctness                                                        *)

\* The events the worker emits are events.
LEMMA EventTypes ==
  /\ Started \in Events /\ Succeeded \in Events /\ Failed \in Events
  /\ \A r \in Calls : Prompt(r) \in Events
BY DEF Started, Succeeded, Failed, Prompt, Event, Events

\* Emitting one event or two keeps a queue of events.
LEMMA EmitType ==
  ASSUME event_queue \in Seq(Events), NEW e \in Events, NEW f \in Events,
         Emit(<<e>>) \/ Emit(<<e, f>>)
  PROVE  event_queue' \in Seq(Events)
<1>1. <<e>> \in Seq(Events) /\ <<e, f>> \in Seq(Events)
  OBVIOUS
<1>2. \A s \in Seq(Events) : event_queue \o s \in Seq(Events)
  OBVIOUS
<1> QED BY <1>1, <1>2 DEF Emit

\* Taking the front of a queue, or appending to it.
LEMMA QueueType ==
  ASSUME NEW S, NEW q \in Seq(S), NEW e \in S
  PROVE  /\ Append(q, e) \in Seq(S)
         /\ q # <<>> => Head(q) \in S /\ Tail(q) \in Seq(S)
OBVIOUS

\* The end of a Pair leaves every request in a state it may be in.
LEMMA EndBondType ==
  ASSUME call_state \in [Calls -> CallStates], EndBond
  PROVE  /\ call_state' \in [Calls -> CallStates]
         /\ bond' = "none" /\ asked' = NoCall
         /\ \A r \in Calls : call_state'[r] = "unmade" <=> call_state[r] = "unmade"
<1>1. call_state' = [r \in Calls |-> IF r = asked /\ call_state[r] = "sent" THEN "expired"
                                     ELSE call_state[r]]
  BY DEF EndBond
<1>2. call_state' \in [Calls -> CallStates]
  BY <1>1 DEF CallStates
<1>3. \A r \in Calls : call_state'[r] = "unmade" <=> call_state[r] = "unmade"
  BY <1>1
<1> QED BY <1>2, <1>3 DEF EndBond

\* The state before any pairing is type correct.
LEMMA InitType == Init => TypeOK
<1> SUFFICES ASSUME Init PROVE TypeOK
  OBVIOUS
<1>1. command_queue \in Seq(Commands) /\ event_queue \in Seq(Events) /\ calls \in Seq(Calls)
  BY DEF Init
<1>2. call_state \in [Calls -> CallStates]
  BY DEF Init, CallStates
<1>3. kind \in [Calls -> Kinds]
  BY DEF Init, Kinds
<1> QED BY <1>1, <1>2, <1>3 DEF Init, TypeOK, Commands, CallStates

\* Every step of the worker, the user, the node and bluetoothd keeps the types.
LEMMA StepType ==
  ASSUME TypeOK, [Next]_vars
  PROVE  TypeOK'
<1> USE DEF workerVars, clientVars, bluezVars
<1>0. NoCall \notin Calls
  BY DEF NoCall, Calls
<1>1. CASE PairDevice
  <2>1. command_queue' \in Seq(Commands)
    BY <1>1, QueueType DEF PairDevice, TypeOK, Commands
  <2> QED BY <1>1, <2>1 DEF PairDevice, TypeOK, Commands
<1>2. ASSUME NEW answer \in Answers, AnswerPrompt(answer) PROVE TypeOK'
  BY <1>2 DEF AnswerPrompt, Submit, TypeOK
<1>3. CASE Cancel
  BY <1>3 DEF Cancel, Submit, TypeOK, Answers
<1>4. CASE CancelEnqueue
  <2>1. command_queue' \in Seq(Commands)
    BY <1>4, QueueType DEF CancelEnqueue, TypeOK, Commands
  <2> QED BY <1>4, <2>1 DEF CancelEnqueue, TypeOK, Commands
<1>5. CASE HandleEvent
  <2>1. event_queue' \in Seq(Events) /\ Head(event_queue) \in Events
    BY <1>5 DEF HandleEvent, TypeOK
  <2>2. prompt' \in Calls \cup {NoCall} /\ ceremony' \in {"none", "running"}
    BY <1>5, <2>1 DEF HandleEvent, TypeOK, Events
  <2> QED BY <1>5, <2>1, <2>2 DEF HandleEvent, TypeOK
<1>6. CASE StartPairing
  <2>1. command_queue' \in Seq(Commands)
    BY <1>6 DEF StartPairing, TypeOK, Commands
  <2>2. event_queue' \in Seq(Events)
    BY <1>6, EventTypes, EmitType DEF StartPairing, CallPair, PairAtOnce, TypeOK
  <2>3. /\ worker' \in {worker, "pairing"}
        /\ bond' \in {bond, "running"} /\ UNCHANGED <<asked, calls, call_state, kind, own>>
    BY <1>6 DEF StartPairing, CallPair, PairAtOnce, TypeOK
  <2> QED BY <1>6, <2>1, <2>2, <2>3 DEF StartPairing, TypeOK, Commands
<1>7. CASE PairSucceeds \/ PairFails
  <2>1. event_queue' \in Seq(Events)
    BY <1>7, EventTypes, EmitType DEF PairSucceeds, PairFails, TypeOK
  <2>2. EndBond \/ UNCHANGED <<bond, asked, call_state>>
    BY <1>7 DEF PairSucceeds, PairFails
  <2>3. call_state' \in [Calls -> CallStates]
    BY <2>2, EndBondType DEF TypeOK, CallStates
  <2>4. /\ bond' \in {"none", "running", "asking"} /\ asked' \in Calls \cup {NoCall}
        /\ bond' = "asking" => asked' \in Calls
    BY <2>2 DEF EndBond, TypeOK
  <2>5. /\ worker' = "idle"
        /\ UNCHANGED <<command_queue, current, verdict, response, clientVars, calls, kind, own,
                       said>>
    BY <1>7 DEF PairSucceeds, PairFails
  <2> QED BY <2>1, <2>3, <2>4, <2>5 DEF TypeOK, CallStates
<1>8. CASE CancelPairing
  <2>1. command_queue' \in Seq(Commands)
    BY <1>8 DEF CancelPairing, TypeOK, Commands
  <2> QED BY <1>8, <2>1 DEF CancelPairing, TypeOK, Commands
<1>9. CASE Poll \/ PollDone
  BY <1>9 DEF Poll, PollDone, TypeOK
<1>10. CASE Begin
  <2>1. calls' \in Seq(Calls) /\ current' \in Calls
    BY <1>10 DEF Begin, TypeOK
  <2> QED BY <1>10, <2>1 DEF Begin, TypeOK
<1>11. CASE Ask
  <2>1. event_queue' \in Seq(Events)
    BY <1>11, EventTypes, EmitType DEF Ask, TypeOK
  <2> QED BY <1>11, <2>1 DEF Ask, TypeOK
<1>12. CASE Wake \/ TimeOut
  BY <1>12 DEF Wake, TimeOut, Settle, Verdict, TypeOK
<1>13. CASE Reply
  <2>1. call_state' \in [Calls -> CallStates]
    BY <1>13 DEF Reply, Answered, TypeOK, CallStates
  <2> QED BY <1>13, <2>1 DEF Reply, TypeOK, CallStates
<1>18. CASE ReplyAtOnce
  <2>1. calls' \in Seq(Calls)
    BY <1>18 DEF ReplyAtOnce, TypeOK
  <2>2. call_state' \in [Calls -> CallStates]
    BY <1>18 DEF ReplyAtOnce, Answered, TypeOK, CallStates
  <2> QED BY <1>18, <2>1, <2>2 DEF ReplyAtOnce, TypeOK, CallStates
<1>14. ASSUME NEW r \in Calls, NEW k \in Kinds, BluezAsks(r, k) PROVE TypeOK'
  <2>1. call_state' \in [Calls -> CallStates] /\ kind' \in [Calls -> Kinds]
    BY <1>14 DEF BluezAsks, TypeOK, CallStates
  <2>2. calls' \in Seq(Calls)
    BY <1>14, QueueType DEF BluezAsks, TypeOK
  <2>3. /\ bond' \in {"none", "running", "asking"} /\ asked' \in Calls \cup {NoCall}
        /\ bond' = "asking" => asked' \in Calls
        /\ own' \subseteq Calls
    BY <1>14 DEF BluezAsks, TypeOK
  <2>4. /\ UNCHANGED <<command_queue, event_queue, workerVars, response, clientVars, said>>
    BY <1>14 DEF BluezAsks
  <2> QED BY <2>1, <2>2, <2>3, <2>4 DEF TypeOK, CallStates
<1>15. ASSUME NEW r \in Calls, BluezGivesUp(r) PROVE TypeOK'
  <2>1. call_state' \in [Calls -> CallStates]
    BY <1>15 DEF BluezGivesUp, TypeOK, CallStates
  <2> QED BY <1>15, <2>1 DEF BluezGivesUp, TypeOK, CallStates
<1>16. CASE BluezEndsPair
  <2>1. call_state' \in [Calls -> CallStates] /\ bond' = "none" /\ asked' = NoCall
    BY <1>16, EndBondType DEF BluezEndsPair, TypeOK, CallStates
  <2> QED BY <1>16, <2>1 DEF BluezEndsPair, TypeOK, CallStates
<1>17. CASE UNCHANGED vars
  BY <1>17 DEF vars, TypeOK
<1> QED BY <1>1, <1>2, <1>3, <1>4, <1>5, <1>6, <1>7, <1>8, <1>9, <1>10, <1>11, <1>12, <1>13,
           <1>14, <1>15, <1>16, <1>17, <1>18 DEF Next, Work, User, Bluez

\* Every variable holds what it should, however many requests bluetoothd makes.
THEOREM PairingTypeCorrect == Spec => []TypeOK
BY InitType, StepType, PTL DEF Spec

-----------------------------------------------------------------------------
(* The answer and the request it is for                                    *)

\* Once made, a request stays made, and what it asks for stands still.
LEMMA MadeForEver ==
  ASSUME TypeOK, [Next]_vars, NEW r \in Calls, call_state[r] # "unmade"
  PROVE  call_state'[r] # "unmade" /\ kind'[r] = kind[r]
<1> USE DEF TypeOK, bluezVars
<1>1. CASE UNCHANGED <<call_state, kind>>
  BY <1>1
<1>2. CASE PairSucceeds \/ PairFails \/ BluezEndsPair
  BY <1>2 DEF PairSucceeds, PairFails, BluezEndsPair, EndBond
<1>3. CASE Reply \/ ReplyAtOnce
  BY <1>3 DEF Reply, ReplyAtOnce, Answered
<1>4. ASSUME NEW q \in Calls, BluezGivesUp(q) \/ \E k \in Kinds : BluezAsks(q, k)
      PROVE  call_state'[r] # "unmade" /\ kind'[r] = kind[r]
  BY <1>4 DEF BluezGivesUp, BluezAsks
<1>5. CASE StartPairing
  BY <1>5, <1>1 DEF StartPairing, CallPair, PairAtOnce
<1>6. CASE PairDevice \/ Cancel \/ CancelEnqueue \/ HandleEvent
           \/ \E answer \in Answers : AnswerPrompt(answer)
  BY <1>6 DEF PairDevice, Cancel, CancelEnqueue, HandleEvent, AnswerPrompt
<1>7. CASE CancelPairing \/ Poll \/ PollDone \/ Begin \/ Ask \/ Wake \/ TimeOut
  BY <1>7 DEF CancelPairing, Poll, PollDone, Begin, Ask, Wake, TimeOut, Settle
<1>8. CASE UNCHANGED vars
  BY <1>8 DEF vars
<1> QED BY <1>2, <1>3, <1>4, <1>5, <1>6, <1>7, <1>8 DEF Next, Work, User, Bluez

\* Only Begin takes up a request, and only BluezAsks queues one.
LEMMA StepMade ==
  ASSUME TypeOK, Made, [Next]_vars
  PROVE  Made'
<1> USE DEF TypeOK
<1>1. CASE Begin
  <2>1. /\ call_state' = call_state /\ current' = calls[1] /\ calls' = Tail(calls)
        /\ 1 \in 1..Len(calls)
    BY <1>1 DEF Begin
  <2>2. \A i \in 1..Len(calls') : i + 1 \in 1..Len(calls) /\ calls'[i] = calls[i + 1]
    BY <2>1
  <2> QED BY <2>1, <2>2 DEF Made
<1>2. ASSUME NEW r \in Calls, NEW k \in Kinds, BluezAsks(r, k) PROVE Made'
  <2>1. /\ call_state' = [call_state EXCEPT ![r] = "sent"] /\ calls' = Append(calls, r)
        /\ UNCHANGED <<worker, current>>
    BY <1>2 DEF BluezAsks, workerVars
  <2>2. \A q \in Calls : call_state[q] # "unmade" => call_state'[q] # "unmade"
    BY <2>1
  <2>3. call_state'[r] = "sent"
    BY <2>1
  <2>4. \A i \in 1..Len(calls') :
           calls'[i] = r \/ (i \in 1..Len(calls) /\ calls'[i] = calls[i] /\ calls[i] \in Calls)
    BY <2>1
  <2> QED BY <2>1, <2>2, <2>3, <2>4 DEF Made, Busy
<1>8. CASE ReplyAtOnce
  <2>1. /\ calls' = Tail(calls) /\ calls # <<>> /\ UNCHANGED <<worker, current>>
    BY <1>8 DEF ReplyAtOnce, workerVars
  <2>2. \A i \in 1..Len(calls') :
          i + 1 \in 1..Len(calls) /\ calls'[i] = calls[i + 1] /\ calls[i + 1] \in Calls
    BY <2>1
  <2>3. \A r \in Calls : call_state[r] # "unmade" => call_state'[r] # "unmade"
    BY MadeForEver
  <2> QED BY <2>1, <2>2, <2>3 DEF Made, Busy
<1>3. CASE /\ UNCHANGED calls
           /\ Busy' => Busy /\ UNCHANGED current
  <2>1. \A r \in Calls : call_state[r] # "unmade" => call_state'[r] # "unmade"
    BY MadeForEver
  <2>2. Busy => current \in Calls
    BY DEF Busy
  <2>3. \A i \in 1..Len(calls) : calls[i] \in Calls
    OBVIOUS
  <2> QED BY <1>3, <2>1, <2>2, <2>3 DEF Made
<1>4. CASE Reply \/ PairSucceeds \/ PairFails \/ StartPairing
  BY <1>3, <1>4 DEF Reply, PairSucceeds, PairFails, StartPairing, CallPair, PairAtOnce, bluezVars,
                    Busy
<1>5. CASE \/ PairDevice \/ Cancel \/ CancelEnqueue \/ HandleEvent \/ BluezEndsPair
           \/ \E answer \in Answers : AnswerPrompt(answer)
           \/ \E r \in Calls : BluezGivesUp(r)
  BY <1>3, <1>5 DEF PairDevice, Cancel, CancelEnqueue, HandleEvent, AnswerPrompt, BluezGivesUp,
                    BluezEndsPair, bluezVars, workerVars, Busy
<1>6. CASE CancelPairing \/ Poll \/ PollDone \/ Ask \/ Wake \/ TimeOut
  BY <1>3, <1>6 DEF CancelPairing, Poll, PollDone, Ask, Wake, TimeOut, Settle, bluezVars,
                    workerVars, Busy
<1>7. CASE UNCHANGED vars
  BY <1>3, <1>7 DEF vars, bluezVars, workerVars, Busy
<1> QED BY <1>1, <1>2, <1>4, <1>5, <1>6, <1>7, <1>8 DEF Next, Work, User, Bluez

\* The answer that crosses the threads follows the user's word on the pending request.
LEMMA StepConsent ==
  ASSUME TypeOK, Consent, [Next]_vars
  PROVE  Consent'
<1>1. CASE UNCHANGED <<worker, response, said>>
  BY <1>1 DEF Consent, Pending
<1>2. CASE Cancel \/ \E answer \in Answers : AnswerPrompt(answer)
  BY <1>2 DEF Cancel, AnswerPrompt, Submit, workerVars, Consent, Pending
<1>3. CASE Begin \/ Ask
  BY <1>3 DEF Begin, Ask, Consent, Pending
<1>4. CASE worker' \notin {"begun", "waiting"}
  BY <1>4 DEF Consent, Pending
<1>5. CASE Wake \/ TimeOut \/ Reply \/ ReplyAtOnce \/ Poll \/ PollDone \/ PairSucceeds \/ PairFails
  BY <1>4, <1>5 DEF Wake, TimeOut, Settle, Reply, ReplyAtOnce, Poll, PollDone, PairSucceeds,
                    PairFails, workerVars
<1>6. CASE StartPairing \/ CancelPairing
  BY <1>4, <1>6 DEF StartPairing, CallPair, PairAtOnce, CancelPairing, workerVars
<1>7. CASE \/ PairDevice \/ CancelEnqueue \/ HandleEvent \/ BluezEndsPair
           \/ \E r \in Calls : BluezGivesUp(r) \/ \E k \in Kinds : BluezAsks(r, k)
  BY <1>1, <1>7 DEF PairDevice, CancelEnqueue, HandleEvent, BluezEndsPair, BluezGivesUp, BluezAsks,
                    workerVars
<1>8. CASE UNCHANGED vars
  BY <1>1, <1>8 DEF vars, workerVars
<1> QED BY <1>2, <1>3, <1>5, <1>6, <1>7, <1>8 DEF Next, Work, User, Bluez

\* No step separates the agent's verdict from the user's word about the request.
LEMMA StepVerdict ==
  ASSUME TypeOK, Made, Consent, VerdictIsUsers, [Next]_vars
  PROVE  VerdictIsUsers'
<1>1. CASE Wake \/ TimeOut
  <2>1. /\ worker = "waiting" /\ verdict' = Verdict(kind[current], response)
        /\ UNCHANGED <<kind, current, said>>
    BY <1>1 DEF Wake, TimeOut, Settle, bluezVars
  <2> QED BY <2>1 DEF Consent, Pending, VerdictIsUsers, Verdict, Consents
<1>2. CASE worker = "answered" /\ UNCHANGED <<worker, current, verdict, said>>
  <2>1. kind'[current] = kind[current]
    BY <1>2, MadeForEver DEF Made, Busy, TypeOK
  <2> QED BY <1>2, <2>1 DEF VerdictIsUsers, Verdict, Consents
<1>3. CASE worker' # "answered"
  BY <1>3 DEF VerdictIsUsers
<1>4. CASE \/ StartPairing \/ PairSucceeds \/ PairFails \/ CancelPairing
           \/ Poll \/ PollDone \/ Begin \/ ReplyAtOnce \/ Ask \/ Reply
  BY <1>3, <1>4 DEF StartPairing, CallPair, PairAtOnce, PairSucceeds, PairFails, CancelPairing,
                    Poll, PollDone, Begin, ReplyAtOnce, Ask, Reply, workerVars
<1>5. CASE Cancel \/ \E answer \in Answers : AnswerPrompt(answer)
  BY <1>2, <1>3, <1>5 DEF Cancel, AnswerPrompt, Submit, workerVars, Pending
<1>6. CASE \/ PairDevice \/ CancelEnqueue \/ HandleEvent \/ BluezEndsPair
           \/ \E r \in Calls : BluezGivesUp(r) \/ \E k \in Kinds : BluezAsks(r, k)
  BY <1>2, <1>3, <1>6 DEF PairDevice, CancelEnqueue, HandleEvent, BluezEndsPair, BluezGivesUp,
                          BluezAsks, workerVars
<1>7. CASE UNCHANGED vars
  BY <1>2, <1>3, <1>7 DEF vars, workerVars
<1> QED BY <1>1, <1>4, <1>5, <1>6, <1>7 DEF Next, Work, User, Bluez

\* A request for consent is granted on what the user said last while it was pending, and
\* on nothing else: not on an answer left from before, not on the user's silence.
THEOREM VerdictIsTheUsers == Spec => []VerdictIsUsers
<1>1. Init => IInv
  <2>1. Init => Made /\ Consent /\ VerdictIsUsers
    BY DEF Init, Made, Busy, Consent, Pending, VerdictIsUsers
  <2> QED BY <2>1, InitType DEF IInv
<1>2. IInv /\ [Next]_vars => IInv'
  BY StepType, StepMade, StepConsent, StepVerdict DEF IInv
<1>3. IInv => VerdictIsUsers
  BY DEF IInv
<1> QED BY <1>1, <1>2, <1>3, PTL DEF Spec

-----------------------------------------------------------------------------
(* One pairing at a time                                                   *)

\* How a client hears the events of a pairing.
Hears == {t \in Events \X {"none", "running"} \X {"none", "running"} :
            \/ t[1].type = "PROMPT" /\ t[3] = t[2]
            \/ t[1].type = "PAIRING_STARTED" /\ t[2] = "none" /\ t[3] = "running"
            \/ /\ t[1].type \in {"PAIRING_SUCCEEDED", "PAIRING_FAILED"}
               /\ t[2] = "running" /\ t[3] = "none"}

Doing == IF worker = "pairing" THEN "running" ELSE "none"

Alternation == Leads(Hears, {"none", "running"}, event_queue, ceremony, Doing)

\* An event that fits what the worker did takes the client one step on.
LEMMA EmitLeads ==
  ASSUME TypeOK, Alternation, UNCHANGED ceremony, NEW e \in Events,
         Emit(<<e>>), <<e, Doing, Doing'>> \in Hears
  PROVE  Alternation'
<1> DEFINE S == {"none", "running"}
<1>1. Doing \in S /\ Doing' \in S /\ ceremony \in S /\ event_queue \in Seq(Events)
  BY DEF Doing, TypeOK
<1>2. event_queue' = Append(event_queue, e)
  BY <1>1 DEF Emit
<1> HIDE DEF S
<1>3. Leads(Hears, S, event_queue, ceremony, Doing)
  BY DEF Alternation, S
<1>4. Leads(Hears, S, Append(event_queue, e), ceremony, Doing')
  BY <1>1, <1>3, LeadsOn
<1> QED BY <1>2, <1>4 DEF Alternation, S

\* A pairing that ends at once is heard whole.
LEMMA EmitTwiceLeads ==
  ASSUME TypeOK, Alternation, UNCHANGED ceremony, NEW e \in Events, NEW f \in Events,
         Emit(<<e, f>>), Doing = "none", Doing' = "none",
         <<e, "none", "running">> \in Hears, <<f, "running", "none">> \in Hears
  PROVE  Alternation'
<1> DEFINE S == {"none", "running"}
           q == Append(event_queue, e)
<1>1. "none" \in S /\ "running" \in S /\ ceremony \in S /\ event_queue \in Seq(Events)
  BY DEF TypeOK
<1>2. event_queue' = Append(q, f) /\ q \in Seq(Events)
  BY <1>1 DEF Emit
<1> HIDE DEF S
<1>3. Leads(Hears, S, event_queue, ceremony, "none")
  BY DEF Alternation, S
<1>4. Leads(Hears, S, q, ceremony, "running")
  BY <1>1, <1>3, LeadsOn
<1> HIDE DEF q
<1>5. Leads(Hears, S, Append(q, f), ceremony, "none")
  BY <1>1, <1>2, <1>4, LeadsOn
<1> QED BY <1>2, <1>5 DEF Alternation, S

\* The event that the client hears next fits what it knows.
LEMMA HearLeads ==
  ASSUME TypeOK, Alternation, event_queue # <<>>
  PROVE  \E b \in {"none", "running"} :
           /\ <<Head(event_queue), ceremony, b>> \in Hears
           /\ Leads(Hears, {"none", "running"}, Tail(event_queue), b, Doing)
<1> DEFINE S == {"none", "running"}
           q == event_queue
<1>1. q \in Seq(Events) /\ q # <<>>
  BY DEF TypeOK
<1>2. Leads(Hears, S, q, ceremony, Doing)
  BY DEF Alternation
<1> HIDE DEF S, q
<1>3. \E b \in S : <<Head(q), ceremony, b>> \in Hears /\ Leads(Hears, S, Tail(q), b, Doing)
  BY <1>1, <1>2, LeadsAway
<1> QED BY <1>3 DEF S, q

\* Every step keeps the queued events between what the client and the worker know.
LEMMA StepAlternation ==
  ASSUME TypeOK, Alternation, [Next]_vars
  PROVE  Alternation'
<1> USE DEF workerVars, clientVars, bluezVars
<1>1. CASE UNCHANGED <<event_queue, ceremony, Doing>>
  BY <1>1 DEF Alternation
<1>2. ASSUME StartPairing, CallPair PROVE Alternation'
  <2>1. <<Started, Doing, Doing'>> \in Hears
    BY <1>2, EventTypes DEF StartPairing, CallPair, Doing, Hears, Started, Event
  <2> QED BY <1>2, <2>1, EmitLeads, EventTypes DEF StartPairing, CallPair
<1>3. ASSUME StartPairing, PairAtOnce PROVE Alternation'
  <2>1. PICK f \in {Succeeded, Failed} : Emit(<<Started, f>>)
    BY <1>3 DEF PairAtOnce
  <2>2. /\ <<Started, "none", "running">> \in Hears /\ <<f, "running", "none">> \in Hears
        /\ Doing = "none" /\ Doing' = "none" /\ UNCHANGED ceremony
    BY <1>3, EventTypes DEF StartPairing, PairAtOnce, Doing, Hears, Started, Succeeded, Failed, Event
  <2> QED BY <2>1, <2>2, EmitTwiceLeads, EventTypes
<1>4. CASE PairSucceeds \/ PairFails
  <2>1. PICK e \in {Succeeded, Failed} : Emit(<<e>>)
    BY <1>4 DEF PairSucceeds, PairFails
  <2>2. worker = "pairing" /\ worker' = "idle" /\ UNCHANGED ceremony
    BY <1>4 DEF PairSucceeds, PairFails
  <2>3. <<e, Doing, Doing'>> \in Hears
    BY <2>2, EventTypes DEF Doing, Hears, Succeeded, Failed, Event
  <2> QED BY <2>1, <2>2, <2>3, EmitLeads, EventTypes
<1>5. CASE Ask
  <2>1. Prompt(current) \in Events
    BY <1>5, EventTypes DEF Ask, TypeOK
  <2>2. <<Prompt(current), Doing, Doing'>> \in Hears
    BY <1>5, <2>1 DEF Ask, Doing, Hears, Prompt
  <2> QED BY <1>5, <2>1, <2>2, EmitLeads DEF Ask
<1>6. CASE HandleEvent
  <2>1. event_queue # <<>> /\ UNCHANGED Doing
    BY <1>6 DEF HandleEvent, Doing
  <2>2. PICK b \in {"none", "running"} :
          /\ <<Head(event_queue), ceremony, b>> \in Hears
          /\ Leads(Hears, {"none", "running"}, Tail(event_queue), b, Doing)
    BY <2>1, HearLeads
  <2>3. ceremony' = b /\ event_queue' = Tail(event_queue)
    BY <1>6, <2>2 DEF HandleEvent, Hears
  <2> QED BY <2>1, <2>2, <2>3 DEF Alternation
<1>7. CASE \/ CancelPairing \/ Poll \/ PollDone \/ Begin \/ ReplyAtOnce \/ Wake \/ TimeOut
           \/ Reply
  BY <1>1, <1>7 DEF CancelPairing, Poll, PollDone, Begin, ReplyAtOnce, Wake, TimeOut, Settle,
                    Reply, Doing
<1>8. CASE \/ PairDevice \/ Cancel \/ CancelEnqueue \/ BluezEndsPair
           \/ \E answer \in Answers : AnswerPrompt(answer)
           \/ \E r \in Calls : BluezGivesUp(r) \/ \E k \in Kinds : BluezAsks(r, k)
  BY <1>1, <1>8 DEF PairDevice, Cancel, CancelEnqueue, BluezEndsPair, AnswerPrompt, BluezGivesUp,
                    BluezAsks, Doing
<1>9. CASE UNCHANGED vars
  BY <1>1, <1>9 DEF vars, Doing
<1> QED BY <1>2, <1>3, <1>4, <1>5, <1>6, <1>7, <1>8, <1>9 DEF Next, Work, User, Bluez, StartPairing

\* The client hears of one pairing at a time, also when it ends at once or not by Pair.
THEOREM CeremoniesAlternate == Spec => []CeremonyAlternates
<1>1. Init => TypeOK /\ Alternation
  <2>1. Init => Alternation
    BY LeadsNowhere DEF Init, Alternation, Doing
  <2> QED BY <2>1, InitType
<1>2. TypeOK /\ Alternation /\ [Next]_vars => (TypeOK /\ Alternation)'
  BY StepType, StepAlternation
<1>3. TypeOK /\ Alternation => CeremonyAlternates
  <2> SUFFICES ASSUME TypeOK, Alternation, event_queue # <<>> PROVE CeremonyAlternates
    BY DEF CeremonyAlternates
  <2>1. PICK b \in {"none", "running"} : <<Head(event_queue), ceremony, b>> \in Hears
    BY HearLeads
  <2> QED BY <2>1 DEF CeremonyAlternates, Hears
<1> QED BY <1>1, <1>2, <1>3, PTL DEF Spec
=============================================================================
