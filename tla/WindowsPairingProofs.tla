------------------------- MODULE WindowsPairingProofs -------------------------
(***************************************************************************)
(* Proofs about WindowsPairing, for any number of requests and any bounds: *)
(* type correctness, PinIsUsers and CeremonyAlternates.                    *)
(*                                                                         *)
(* PinIsUsers rests on Consent: an answer that is there while a request is *)
(* pending is the user's last word in that time, whichever prompt it was   *)
(* for.  The handlers of other requests can only take the answer away.     *)
(* CeremonyAlternates rests on Alternation: the queued events lead the     *)
(* client from what it heard last to what the worker is doing.             *)
(***************************************************************************)
EXTENDS WindowsPairing, Histories

Consent == \A r \in Calls : Pending(r) /\ response # "none" => said[r] = response

Unaccepted == \A r \in Calls : place[r] # "accepted" => verdict[r] = "none"

\* How a client hears the events of a pairing.
Hears == {t \in Events \X {"none", "running"} \X {"none", "running"} :
            \/ t[1].type = "PROMPT" /\ t[3] = t[2]
            \/ t[1].type = "PAIRING_STARTED" /\ t[2] = "none" /\ t[3] = "running"
            \/ /\ t[1].type \in {"PAIRING_SUCCEEDED", "PAIRING_FAILED"}
               /\ t[2] = "running" /\ t[3] = "none"}

Doing == IF worker \in {"looking", "pairing", "finalizing"} THEN "running" ELSE "none"

Alternation == Leads(Hears, {"none", "running"}, event_queue, ceremony, Doing)

PinInv == TypeOK /\ Consent /\ Unaccepted /\ PinIsUsers

-----------------------------------------------------------------------------
(* Type correctness                                                        *)

\* The events the worker and the handlers emit are events.
LEMMA EventTypes ==
  /\ Started \in Events /\ Succeeded \in Events /\ Failed \in Events
  /\ \A r \in Calls : Prompt(r) \in Events
BY DEF Started, Succeeded, Failed, Prompt, Event, Events

\* Emitting an event puts it behind the others.
LEMMA EmitType ==
  ASSUME event_queue \in Seq(Events), NEW e \in Events, Emit(<<e>>)
  PROVE  event_queue' = Append(event_queue, e) /\ event_queue' \in Seq(Events)
<1>1. event_queue \o <<e>> = Append(event_queue, e)
  OBVIOUS
<1> QED BY <1>1 DEF Emit

\* Taking the front of a queue, or appending to it.
LEMMA QueueType ==
  ASSUME NEW S, NEW q \in Seq(S), NEW e \in S
  PROVE  /\ Append(q, e) \in Seq(S)
         /\ q # <<>> => Head(q) \in S /\ Tail(q) \in Seq(S)
OBVIOUS

\* The state before any pairing is type correct.
LEMMA InitType == Init => TypeOK
<1> SUFFICES ASSUME Init PROVE TypeOK
  OBVIOUS
<1>1. command_queue \in Seq({"PAIR", "CANCEL_PAIRING"}) /\ event_queue \in Seq(Events)
  BY DEF Init
<1>2. /\ place \in [Calls -> {"unmade", "raised", "begun", "prompted", "accepted", "done"}]
      /\ kind \in [Calls -> Kinds]
      /\ verdict \in [Calls -> {"none", "users_pin", "default_pin", "consent"}]
      /\ said \in [Calls -> Answers \cup {"none"}]
  BY DEF Init, Kinds
<1> QED BY <1>1, <1>2 DEF Init, TypeOK

\* Every step of the worker, a handler, the user, the node and Windows keeps the types.
LEMMA StepType ==
  ASSUME TypeOK, [Next]_vars
  PROVE  TypeOK'
<1> USE DEF handlerVars, clientVars
<1>0. NoCall \notin Calls
  BY DEF NoCall, Calls
<1>1. CASE PairDevice \/ CancelEnqueue
  <2>1. command_queue' \in Seq({"PAIR", "CANCEL_PAIRING"})
    BY <1>1, QueueType DEF PairDevice, CancelEnqueue, TypeOK
  <2> QED BY <1>1, <2>1 DEF PairDevice, CancelEnqueue, TypeOK
<1>2. ASSUME NEW answer \in Answers, Submit(answer)
      PROVE  /\ response' \in Answers \cup {"none"}
             /\ said' \in [Calls -> Answers \cup {"none"}]
             /\ UNCHANGED <<place, kind, verdict>>
  BY <1>2 DEF Submit, TypeOK
<1>3. ASSUME NEW answer \in Answers, AnswerPrompt(answer) PROVE TypeOK'
  BY <1>2, <1>3 DEF AnswerPrompt, TypeOK
<1>4. CASE Cancel
  BY <1>2, <1>4 DEF Cancel, TypeOK, Answers
<1>5. CASE HandleEvent
  <2>1. event_queue' \in Seq(Events) /\ Head(event_queue) \in Events
    BY <1>5 DEF HandleEvent, TypeOK
  <2>2. prompt' \in Calls \cup {NoCall} /\ ceremony' \in {"none", "running"}
    BY <1>5, <2>1 DEF HandleEvent, TypeOK, Events
  <2> QED BY <1>5, <2>1, <2>2 DEF HandleEvent, TypeOK
<1>6. CASE StartPairing
  <2>1. command_queue' \in Seq({"PAIR", "CANCEL_PAIRING"}) /\ event_queue' \in Seq(Events)
    BY <1>6, EventTypes, EmitType DEF StartPairing, TypeOK
  <2> QED BY <1>6, <2>1 DEF StartPairing, TypeOK
<1>7. CASE CannotPair \/ PairAsyncFails \/ Finalize
  <2>1. event_queue' \in Seq(Events)
    BY <1>7, EventTypes, EmitType DEF CannotPair, PairAsyncFails, Finalize, TypeOK
  <2> QED BY <1>7, <2>1 DEF CannotPair, PairAsyncFails, Finalize, TypeOK
<1>8. CASE CallPairAsync \/ AlreadyPaired \/ PairAsyncPairs \/ CancelResets
  BY <1>8 DEF CallPairAsync, AlreadyPaired, PairAsyncPairs, CancelResets, TypeOK
<1>9. CASE CancelPairing
  <2>1. command_queue' \in Seq({"PAIR", "CANCEL_PAIRING"})
    BY <1>9 DEF CancelPairing, TypeOK
  <2> QED BY <1>2, <1>9, <2>1 DEF CancelPairing, TypeOK, Answers
<1>10. ASSUME NEW r \in Calls, Begin(r) PROVE TypeOK'
  BY <1>10 DEF Begin, Move, TypeOK
<1>11. ASSUME NEW r \in Calls, Ask(r) PROVE TypeOK'
  <2>1. event_queue' \in Seq(Events)
    BY <1>11, EventTypes, EmitType DEF Ask, TypeOK
  <2> QED BY <1>11, <2>1 DEF Ask, Move, TypeOK
<1>12. ASSUME NEW r \in Calls, Accept(r) PROVE TypeOK'
  <2>1. verdict' \in [Calls -> {"none", "users_pin", "default_pin", "consent"}]
    BY <1>12 DEF Accept, Accepted, TypeOK
  <2>2. /\ bond' \in {"none", "running", "asking", "accepted"}
        /\ bond' # "none" <=> bond # "none"
    BY <1>12 DEF Accept, TypeOK
  <2> QED BY <1>12, <2>1, <2>2 DEF Accept, Move, TypeOK
<1>13. ASSUME NEW r \in Calls, AcceptThrows(r) \/ Reset(r) PROVE TypeOK'
  BY <1>13 DEF AcceptThrows, Reset, Leave, Move, Kinds, TypeOK
<1>14. ASSUME NEW r \in Calls, NEW k \in Kinds, WindowsAsks(r, k) PROVE TypeOK'
  BY <1>14 DEF WindowsAsks, Move, TypeOK
<1>15. CASE UNCHANGED vars
  BY <1>15 DEF vars, TypeOK
<1> QED BY <1>1, <1>3, <1>4, <1>5, <1>6, <1>7, <1>8, <1>9, <1>10, <1>11, <1>12, <1>13, <1>14,
           <1>15 DEF Next, Work, User, Handler

\* Every variable holds what it should, and Windows is pairing exactly while the
\* worker waits for it, however many requests Windows raises.
THEOREM WindowsPairingTypeCorrect == Spec => []TypeOK
BY InitType, StepType, PTL DEF Spec

-----------------------------------------------------------------------------
(* The answer and the requests it may be for                               *)

\* Only the user, on the main thread or through cancel_pairing, gives an answer.
LEMMA StepConsent ==
  ASSUME TypeOK, Consent, [Next]_vars
  PROVE  Consent'
<1> USE DEF Pending, handlerVars, clientVars
<1>1. CASE UNCHANGED <<place, said>> /\ response' \in {"none", response}
  BY <1>1 DEF Consent
<1>2. ASSUME NEW answer \in Answers, Submit(answer) PROVE Consent'
  BY <1>2 DEF Submit, Consent
<1>3. CASE Cancel \/ CancelPairing \/ \E answer \in Answers : AnswerPrompt(answer)
  BY <1>2, <1>3 DEF Cancel, CancelPairing, AnswerPrompt, Answers
<1>4. ASSUME NEW r \in Calls, Begin(r) \/ Reset(r) PROVE Consent'
  BY <1>4 DEF Begin, Reset, Consent
<1>5. ASSUME NEW r \in Calls, Ask(r) \/ Accept(r) PROVE Consent'
  BY <1>5 DEF Ask, Accept, Move, Consent, TypeOK
<1>6. ASSUME NEW r \in Calls, AcceptThrows(r) PROVE Consent'
  BY <1>6 DEF AcceptThrows, Leave, Move, Consent, TypeOK
<1>7. ASSUME NEW r \in Calls, NEW k \in Kinds, WindowsAsks(r, k) PROVE Consent'
  BY <1>7 DEF WindowsAsks, Move, Consent, TypeOK
<1>8. CASE \/ PairDevice \/ CancelEnqueue \/ HandleEvent \/ StartPairing \/ CannotPair
           \/ CallPairAsync \/ AlreadyPaired \/ PairAsyncPairs \/ PairAsyncFails \/ Finalize
           \/ CancelResets \/ UNCHANGED vars
  BY <1>1, <1>8 DEF PairDevice, CancelEnqueue, HandleEvent, StartPairing, CannotPair, CallPairAsync,
                    AlreadyPaired, PairAsyncPairs, PairAsyncFails, Finalize, CancelResets, vars
<1> QED BY <1>3, <1>4, <1>5, <1>6, <1>7, <1>8 DEF Next, Work, User, Handler

\* A handler accepts once, and only with the user's PIN if that is the user's word.
LEMMA StepPin ==
  ASSUME PinInv, [Next]_vars
  PROVE  Unaccepted' /\ PinIsUsers'
<1> USE DEF PinInv, Pending, handlerVars, clientVars
<1>1. CASE UNCHANGED <<place, verdict, said>>
  BY <1>1 DEF Unaccepted, PinIsUsers
<1>2. ASSUME NEW answer \in Answers, Submit(answer) PROVE Unaccepted' /\ PinIsUsers'
  BY <1>2 DEF Submit, Unaccepted, PinIsUsers
<1>3. CASE Cancel \/ CancelPairing \/ \E answer \in Answers : AnswerPrompt(answer)
  BY <1>2, <1>3 DEF Cancel, CancelPairing, AnswerPrompt, Answers
<1>4. ASSUME NEW r \in Calls, Begin(r) \/ Ask(r) \/ \E k \in Kinds : WindowsAsks(r, k)
      PROVE  Unaccepted' /\ PinIsUsers'
  BY <1>4 DEF Begin, Ask, WindowsAsks, Move, Unaccepted, PinIsUsers, TypeOK
<1>5. ASSUME NEW r \in Calls, Accept(r) PROVE Unaccepted' /\ PinIsUsers'
  <2>1. verdict'[r] = "users_pin" => response = "accept_pin"
    BY <1>5 DEF Accept, Accepted, TypeOK
  <2>2. response = "accept_pin" => said[r] = "accept_pin"
    BY <1>5 DEF Accept, Consent
  <2> QED BY <1>5, <2>1, <2>2 DEF Accept, Move, Unaccepted, PinIsUsers, TypeOK
<1>6. ASSUME NEW r \in Calls, AcceptThrows(r) \/ Reset(r) PROVE Unaccepted' /\ PinIsUsers'
  <2>1. Leave(r)
    BY <1>6 DEF AcceptThrows, Reset
  <2> QED BY <2>1 DEF Leave, Move, Unaccepted, PinIsUsers, TypeOK
<1>7. CASE \/ PairDevice \/ CancelEnqueue \/ HandleEvent \/ StartPairing \/ CannotPair
           \/ CallPairAsync \/ AlreadyPaired \/ PairAsyncPairs \/ PairAsyncFails \/ Finalize
           \/ CancelResets \/ UNCHANGED vars
  BY <1>1, <1>7 DEF PairDevice, CancelEnqueue, HandleEvent, StartPairing, CannotPair, CallPairAsync,
                    AlreadyPaired, PairAsyncPairs, PairAsyncFails, Finalize, CancelResets, vars
<1> QED BY <1>3, <1>4, <1>5, <1>6, <1>7 DEF Next, Work, User, Handler

\* A request is accepted only with a PIN that the user gave while it was pending, at
\* whatever prompt, and has not taken back.
THEOREM PinIsTheUsers == Spec => []PinIsUsers
<1>1. Init => PinInv
  <2>1. Init => Consent /\ Unaccepted /\ PinIsUsers
    BY DEF Init, Consent, Pending, Unaccepted, PinIsUsers
  <2> QED BY <2>1, InitType DEF PinInv
<1>2. PinInv /\ [Next]_vars => PinInv'
  BY StepType, StepConsent, StepPin DEF PinInv
<1>3. PinInv => PinIsUsers
  BY DEF PinInv
<1> QED BY <1>1, <1>2, <1>3, PTL DEF Spec

-----------------------------------------------------------------------------
(* One pairing at a time                                                   *)

\* An event that fits what the worker did takes the client one step on.
LEMMA EmitLeads ==
  ASSUME TypeOK, Alternation, UNCHANGED ceremony, NEW e \in Events,
         Emit(<<e>>), <<e, Doing, Doing'>> \in Hears
  PROVE  Alternation'
<1> DEFINE S == {"none", "running"}
<1>1. Doing \in S /\ Doing' \in S /\ ceremony \in S /\ event_queue \in Seq(Events)
  BY DEF Doing, TypeOK
<1>2. event_queue' = Append(event_queue, e)
  BY <1>1, EmitType
<1> HIDE DEF S
<1>3. Leads(Hears, S, event_queue, ceremony, Doing)
  BY DEF Alternation, S
<1>4. Leads(Hears, S, Append(event_queue, e), ceremony, Doing')
  BY <1>1, <1>3, LeadsOn
<1> QED BY <1>2, <1>4 DEF Alternation, S

\* The event that the client hears next fits what it knows.
LEMMA HearLeads ==
  ASSUME TypeOK, Alternation, event_queue # <<>>
  PROVE  \E b \in {"none", "running"} :
           /\ <<Head(event_queue), ceremony, b>> \in Hears
           /\ Leads(Hears, {"none", "running"}, Tail(event_queue), b, Doing)
<1> DEFINE S == {"none", "running"}
           q == event_queue
<1>1. q \in Seq(Events) /\ q # <<>>
  BY DEF TypeOK
<1>2. Leads(Hears, S, q, ceremony, Doing)
  BY DEF Alternation
<1> HIDE DEF S, q
<1>3. \E b \in S : <<Head(q), ceremony, b>> \in Hears /\ Leads(Hears, S, Tail(q), b, Doing)
  BY <1>1, <1>2, LeadsAway
<1> QED BY <1>3 DEF S, q

\* Every step keeps the queued events between what the client and the worker know.
LEMMA StepAlternation ==
  ASSUME TypeOK, Alternation, [Next]_vars
  PROVE  Alternation'
<1> USE DEF handlerVars, clientVars
<1>1. CASE UNCHANGED <<event_queue, ceremony, Doing>>
  BY <1>1 DEF Alternation
<1>2. CASE StartPairing
  <2>1. <<Started, Doing, Doing'>> \in Hears
    BY <1>2, EventTypes DEF StartPairing, Doing, Hears, Started, Event
  <2> QED BY <1>2, <2>1, EmitLeads, EventTypes DEF StartPairing
<1>3. CASE CannotPair \/ PairAsyncFails \/ Finalize
  <2>1. PICK e \in {Succeeded, Failed} : Emit(<<e>>)
    BY <1>3 DEF CannotPair, PairAsyncFails, Finalize
  <2>2. /\ worker \in {"looking", "pairing", "finalizing"} /\ worker' = "idle"
        /\ UNCHANGED ceremony
    BY <1>3 DEF CannotPair, PairAsyncFails, Finalize
  <2>3. <<e, Doing, Doing'>> \in Hears
    BY <2>2, EventTypes DEF Doing, Hears, Succeeded, Failed, Event
  <2> QED BY <2>1, <2>2, <2>3, EmitLeads, EventTypes
<1>4. ASSUME NEW r \in Calls, Ask(r) PROVE Alternation'
  <2>1. <<Prompt(r), Doing, Doing'>> \in Hears
    BY <1>4, EventTypes DEF Ask, Doing, Hears, Prompt
  <2> QED BY <1>4, <2>1, EmitLeads, EventTypes DEF Ask
<1>5. CASE HandleEvent
  <2>1. event_queue \in Seq(Events) /\ event_queue # <<>> /\ UNCHANGED Doing
    BY <1>5 DEF HandleEvent, TypeOK, Doing
  <2>2. PICK b \in {"none", "running"} :
          /\ <<Head(event_queue), ceremony, b>> \in Hears
          /\ Leads(Hears, {"none", "running"}, Tail(event_queue), b, Doing)
    BY <2>1, HearLeads
  <2>3. ceremony' = b /\ event_queue' = Tail(event_queue)
    BY <1>5, <2>2 DEF HandleEvent, Hears
  <2> QED BY <2>1, <2>2, <2>3 DEF Alternation
<1>6. ASSUME NEW r \in Calls,
             \/ Begin(r) \/ Accept(r) \/ AcceptThrows(r) \/ Reset(r)
             \/ \E k \in Kinds : WindowsAsks(r, k)
      PROVE  Alternation'
  BY <1>1, <1>6 DEF Begin, Accept, AcceptThrows, Reset, WindowsAsks, Doing
<1>7. CASE \/ PairDevice \/ Cancel \/ CancelEnqueue \/ CallPairAsync \/ AlreadyPaired
           \/ PairAsyncPairs \/ CancelPairing \/ CancelResets
           \/ \E answer \in Answers : AnswerPrompt(answer)
  BY <1>1, <1>7 DEF PairDevice, Cancel, CancelEnqueue, CallPairAsync, AlreadyPaired, PairAsyncPairs,
                    CancelPairing, CancelResets, AnswerPrompt, Doing
<1>8. CASE UNCHANGED vars
  BY <1>1, <1>8 DEF vars, Doing
<1> QED BY <1>2, <1>3, <1>4, <1>5, <1>6, <1>7, <1>8 DEF Next, Work, User, Handler

\* The client hears of one pairing at a time, whatever the worker has gone through.
THEOREM CeremoniesAlternate == Spec => []CeremonyAlternates
<1>1. Init => TypeOK /\ Alternation
  <2>1. Init => Alternation
    BY LeadsNowhere DEF Init, Alternation, Doing
  <2> QED BY <2>1, InitType
<1>2. TypeOK /\ Alternation /\ [Next]_vars => (TypeOK /\ Alternation)'
  BY StepType, StepAlternation
<1>3. TypeOK /\ Alternation => CeremonyAlternates
  <2> SUFFICES ASSUME TypeOK, Alternation, event_queue # <<>> PROVE CeremonyAlternates
    BY DEF CeremonyAlternates
  <2>1. PICK b \in {"none", "running"} : <<Head(event_queue), ceremony, b>> \in Hears
    BY HearLeads
  <2> QED BY <2>1 DEF CeremonyAlternates, Hears
<1> QED BY <1>1, <1>2, <1>3, PTL DEF Spec
=============================================================================
