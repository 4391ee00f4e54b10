-------------------------- MODULE RpcClientProofs ---------------------------
(***************************************************************************)
(* Proofs about RpcClient, for any number of calls, retries and faults.    *)
(***************************************************************************)
EXTENDS RpcClient, SequenceTheorems, TLAPS

USE DEF NoFault, Current

-----------------------------------------------------------------------------
(***************************************************************************)
(* Type correctness                                                        *)
(***************************************************************************)
\* A fault is counted once.
LEMMA FaultCounted ==
    ASSUME FaultsTypeOK, NEW k \in FaultKinds, Fault(k)
    PROVE  /\ FaultsTypeOK'
           /\ faults'[k] > 0
           /\ \A j \in FaultKinds \ {k} : faults'[j] = faults[j]
BY MaxFaultsAssumption DEF FaultsTypeOK, Fault

\* The end of a call tells its caller an answer or an error.
LEMMA FinishType ==
    ASSUME RpcTypeOK, NEW answer \in Outcomes \cup {"error"}, Finish(answer)
    PROVE  /\ told' \in [Ids -> Outcomes \cup {"none", "waiting", "error"}]
           /\ nextId' \in 1..MaxCalls + 1
           /\ phase' \in {"idle", "connect", "send", "read"}
           /\ phase' # "idle" => Current' \in Ids
           /\ attempt' \in 0..MaxRetries
           /\ futile' \in 0..2
<1>1. futile' \in {0, 2, futile + 1} /\ (futile' = futile + 1 => futile # 2)
  BY DEF Finish, Count
<1>2. futile' \in 0..2
  BY <1>1 DEF RpcTypeOK
<1> QED
  BY <1>2 DEF RpcTypeOK, Finish

LEMMA TryAgainType ==
    ASSUME RpcTypeOK, phase # "idle", TryAgain
    PROVE  /\ told' \in [Ids -> Outcomes \cup {"none", "waiting", "error"}]
           /\ nextId' \in 1..MaxCalls + 1
           /\ phase' \in {"idle", "connect", "send", "read"}
           /\ phase' # "idle" => Current' \in Ids
           /\ attempt' \in 0..MaxRetries
           /\ futile' \in 0..2
<1>1. CASE ~AttemptsLeft /\ Finish("error")
  BY <1>1, FinishType
<1>2. CASE AttemptsLeft
  <2>1. /\ attempt' = attempt + 1 /\ phase' = Begin(socket')
        /\ nextId' = nextId /\ told' = told /\ futile' = futile
    BY <1>2 DEF TryAgain
  <2>2. attempt' \in 0..MaxRetries
    BY <1>2, <2>1, MaxRetriesAssumption DEF RpcTypeOK, AttemptsLeft
  <2> QED
    BY <2>1, <2>2 DEF RpcTypeOK, Begin
<1> QED
  BY <1>1, <1>2 DEF TryAgain

\* The message a client reads is a response, and so are those behind it.
LEMMA InboxShape ==
    ASSUME RpcTypeOK, inbox # <<>>
    PROVE  /\ Head(inbox) = inbox[1] /\ Head(inbox) \in Responses
           /\ Tail(inbox) \in Seq(Responses)
           /\ Len(inbox) \in Nat \ {0} /\ Len(Tail(inbox)) = Len(inbox) - 1
           /\ \A i \in 1..Len(Tail(inbox)) : Tail(inbox)[i] = inbox[i + 1]
<1>1. inbox \in Seq(Responses)
  BY DEF RpcTypeOK
<1> QED
  BY <1>1, HeadTailProperties, EmptySeq

LEMMA ResponsesOnTheWay ==
    ASSUME RpcTypeOK, NEW i \in 1..Len(inbox)
    PROVE  inbox[i] \in Responses /\ inbox[i].outcome \in Outcomes
<1>1. inbox \in Seq(Responses)
  BY DEF RpcTypeOK
<1>2. inbox[i] \in Responses
  BY <1>1, ElementOfSeq
<1> QED
  BY <1>2 DEF Responses

\* A message that joins the others.
LEMMA InboxGrows ==
    ASSUME RpcTypeOK, NEW r \in Responses
    PROVE  /\ Append(inbox, r) \in Seq(Responses)
           /\ Len(inbox) \in Nat /\ Len(Append(inbox, r)) = Len(inbox) + 1
           /\ \A i \in 1..Len(inbox) : Append(inbox, r)[i] = inbox[i]
           /\ Append(inbox, r)[Len(inbox) + 1] = r
<1>1. inbox \in Seq(Responses)
  BY DEF RpcTypeOK
<1> QED
  BY <1>1, AppendProperties, LenProperties

LEMMA EmptyInbox == <<>> \in Seq(Responses) /\ Len(<<>>) = 0
BY EmptySeq

\* Every variable keeps its type and the attempts their bound
\* (TrueNasWebSocketTransport::send), whatever the environment does.
THEOREM RpcTypeCorrect == Spec => []RpcTypeOK
<1>1. Init => RpcTypeOK
  <2> SUFFICES ASSUME Init PROVE RpcTypeOK
    OBVIOUS
  <2>1. nextId \in 1..MaxCalls + 1 /\ attempt \in 0..MaxRetries /\ futile \in 0..2
    BY MaxCallsAssumption, MaxRetriesAssumption DEF Init
  <2>2. FaultsTypeOK
    BY MaxFaultsAssumption DEF Init, FaultsInit, FaultsTypeOK
  <2> QED
    BY <2>1, <2>2, EmptyInbox DEF Init, RpcTypeOK
<1>2. RpcTypeOK /\ [Next]_vars => RpcTypeOK'
  <2> SUFFICES ASSUME RpcTypeOK, [Next]_vars PROVE RpcTypeOK'
    OBVIOUS
  <2> USE RpcFaultsAssumption
  <2>1. CASE Call
    <3>1. nextId' \in 1..MaxCalls + 1 /\ Current' \in Ids /\ attempt' \in 0..MaxRetries
      BY <2>1, MaxCallsAssumption, MaxRetriesAssumption DEF RpcTypeOK, Call, Ids
    <3>2. told' \in [Ids -> Outcomes \cup {"none", "waiting", "error"}]
      BY <2>1 DEF RpcTypeOK, Call
    <3>3. phase' \in {"idle", "connect", "send", "read"} /\ disturbed' \in BOOLEAN
      BY <2>1 DEF Call, Begin
    <3> QED
      BY <2>1, <3>1, <3>2, <3>3 DEF RpcTypeOK, FaultsTypeOK, Call, server
  <2>2. CASE Connect
    <3>1. CASE NoFault
      BY <2>2, <3>1, TryAgainType, EmptyInbox
         DEF RpcTypeOK, FaultsTypeOK, Connect, Fault, server, history
    <3>2. CASE Fault("connection") /\ disturbed' = TRUE /\ TryAgain /\ UNCHANGED socket
      BY <2>2, <3>2, TryAgainType, FaultCounted DEF RpcTypeOK, Connect, server
    <3> QED
      BY <2>2, <3>1, <3>2 DEF Connect
  <2>3. CASE SendRequest
    BY <2>3 DEF RpcTypeOK, FaultsTypeOK, SendRequest, history, Current
  <2>4. CASE SendIntoTheVoid
    BY <2>4 DEF RpcTypeOK, FaultsTypeOK, SendIntoTheVoid, server, history
  <2>5. CASE SendFails
    BY <2>5, TryAgainType, EmptyInbox DEF RpcTypeOK, FaultsTypeOK, SendFails, DropSocket, server
  <2>6. CASE Read
    <3>1. Head(inbox) \in Responses /\ Tail(inbox) \in Seq(Responses)
      BY <2>6, InboxShape DEF Read
    <3> DEFINE answer == IF Head(inbox).id = Current THEN Head(inbox).outcome ELSE "error"
    <3>2. answer \in Outcomes \cup {"error"} /\ Finish(answer)
      BY <2>6, <3>1 DEF Read, Responses
    <3> HIDE DEF answer
    <3> QED
      BY <2>6, <3>1, <3>2, FinishType DEF RpcTypeOK, FaultsTypeOK, Read, server
  <2>7. CASE ReadFails
    BY <2>7, FinishType DEF RpcTypeOK, FaultsTypeOK, ReadFails, AnswerLost, server
  <2>8. CASE Timeout
    BY <2>8, FinishType, FaultCounted DEF RpcTypeOK, Timeout, server
  <2>9. ASSUME NEW n \in Ids, Execute(n)
        PROVE  RpcTypeOK'
    <3>1. PICK o \in Outcomes :
            /\ outcome' = [outcome EXCEPT ![n] = o]
            /\ inbox' = IF n \in here THEN Append(inbox, [id |-> n, outcome |-> o]) ELSE inbox
      BY <2>9 DEF Execute
    <3>2. [id |-> n, outcome |-> o] \in Responses
      BY DEF Responses
    <3>3. inbox' \in Seq(Responses)
      BY <3>1, <3>2, InboxGrows DEF RpcTypeOK
    <3> QED
      BY <2>9, <3>1, <3>3 DEF RpcTypeOK, FaultsTypeOK, Execute, client, history
  <2>10. CASE Break
    BY <2>10, FaultCounted, EmptyInbox DEF RpcTypeOK, Break, client, server
  <2>11. CASE UNCHANGED vars
    BY <2>11 DEF RpcTypeOK, FaultsTypeOK, vars, client, server, history
  <2> QED
    BY <2>1, <2>2, <2>3, <2>4, <2>5, <2>6, <2>7, <2>8, <2>9, <2>10, <2>11 DEF Next
<1> QED
  BY <1>1, <1>2, PTL DEF Spec

-----------------------------------------------------------------------------
(***************************************************************************)
(* The promise of the service                                              *)
(***************************************************************************)
\* The calls before nextId were made, and the one in progress waits.
ToldInOrder ==
    /\ \A n \in Ids : told[n] = "none" <=> n >= nextId
    /\ \A n \in Ids : told[n] = "waiting" <=> phase # "idle" /\ n = Current

\* TrueNAS has not executed what it will still execute nor what was not asked,
\* and has not seen the request that the call in progress has yet to send.
ReceivedOnce ==
    /\ \A n \in Ids : n >= nextId => outcome[n] = "none"
    /\ \A n \in received : outcome[n] = "none" /\ n < nextId
    /\ phase \in {"connect", "send"} => Current \notin received /\ outcome[Current] = "none"

\* A message on its way says what TrueNAS did.
AnswersTrue == \A i \in 1..Len(inbox) : outcome[inbox[i].id] = inbox[i].outcome

CallsInOrder == ToldInOrder /\ ReceivedOnce /\ AnswersTrue

\* Ending the call in progress leaves no call waiting.
LEMMA FinishInOrder ==
    ASSUME RpcTypeOK, CallsInOrder, phase # "idle", UNCHANGED server,
           NEW answer \in Outcomes \cup {"error"}, Finish(answer)
    PROVE  ToldInOrder' /\ ReceivedOnce'
<1>1. /\ told' = [told EXCEPT ![Current] = answer]
      /\ phase' = "idle" /\ nextId' = nextId
  BY DEF Finish
<1>2. answer # "none" /\ answer # "waiting"
  BY DEF Outcomes
<1>3. Current \in Ids /\ Current < nextId /\ nextId \in Nat
  BY DEF RpcTypeOK
<1>4. ToldInOrder'
  BY <1>1, <1>2, <1>3 DEF RpcTypeOK, CallsInOrder, ToldInOrder, Ids
<1>5. ReceivedOnce'
  BY <1>1 DEF CallsInOrder, ReceivedOnce, server
<1> QED
  BY <1>4, <1>5

\* So does trying again, which happens before the request is sent.
LEMMA TryAgainInOrder ==
    ASSUME RpcTypeOK, CallsInOrder, phase \in {"connect", "send"}, UNCHANGED server,
           TryAgain
    PROVE  ToldInOrder' /\ ReceivedOnce'
<1>1. CASE ~AttemptsLeft /\ Finish("error")
  BY <1>1, FinishInOrder
<1>2. CASE AttemptsLeft
  <2>1. phase' = Begin(socket') /\ nextId' = nextId /\ told' = told
    BY <1>2 DEF TryAgain
  <2> QED
    BY <2>1 DEF CallsInOrder, ToldInOrder, ReceivedOnce, Begin, server
<1> QED
  BY <1>1, <1>2 DEF TryAgain

LEMMA CallsStayInOrder ==
    ASSUME RpcTypeOK, CallsInOrder, [Next]_vars
    PROVE  CallsInOrder'
<1>1. CASE Call
  <2>1. /\ nextId' = nextId + 1 /\ phase' # "idle"
        /\ told' = [told EXCEPT ![nextId] = "waiting"]
        /\ UNCHANGED <<inbox, received, outcome>>
    BY <1>1 DEF Call, Begin, server
  <2>2. nextId \in Ids /\ nextId \in Nat /\ phase = "idle"
    BY <1>1 DEF Call, RpcTypeOK
  <2>3. outcome[nextId] = "none" /\ nextId \notin received
    BY <2>2 DEF CallsInOrder, ReceivedOnce
  <2>4. ToldInOrder'
    BY <2>1, <2>2 DEF RpcTypeOK, CallsInOrder, ToldInOrder, Ids
  <2>5. ReceivedOnce'
    BY <2>1, <2>2, <2>3 DEF RpcTypeOK, CallsInOrder, ReceivedOnce, Ids
  <2>6. AnswersTrue'
    BY <2>1 DEF CallsInOrder, AnswersTrue
  <2> QED
    BY <2>4, <2>5, <2>6 DEF CallsInOrder
<1>2. CASE Connect
  <2>1. CASE TryAgain /\ UNCHANGED <<inbox, server>>
    BY <1>2, <2>1, TryAgainInOrder DEF Connect, CallsInOrder, AnswersTrue, server
  <2>2. CASE phase' = "send" /\ UNCHANGED <<nextId, told, inbox, server>>
    BY <1>2, <2>2 DEF Connect, CallsInOrder, ToldInOrder, ReceivedOnce, AnswersTrue, server
  <2> QED
    BY <1>2, <2>1, <2>2 DEF Connect
<1>3. CASE SendRequest
  <2>1. /\ phase = "send" /\ phase' = "read" /\ received' = received \cup {Current}
        /\ UNCHANGED <<nextId, told, inbox, outcome>>
    BY <1>3 DEF SendRequest
  <2>2. Current < nextId
    BY DEF RpcTypeOK
  <2> QED
    BY <2>1, <2>2 DEF CallsInOrder, ToldInOrder, ReceivedOnce, AnswersTrue
<1>4. CASE SendIntoTheVoid
  BY <1>4 DEF SendIntoTheVoid, CallsInOrder, ToldInOrder, ReceivedOnce, AnswersTrue, server
<1>5. CASE SendFails
  <2>1. AnswersTrue'
    BY <1>5, EmptyInbox DEF SendFails, DropSocket, AnswersTrue
  <2> QED
    BY <1>5, <2>1, TryAgainInOrder DEF SendFails, CallsInOrder
<1>6. CASE Read
  <2>1. Head(inbox) \in Responses
    BY <1>6, InboxShape DEF Read
  <2>2. \E answer \in Outcomes \cup {"error"} : Finish(answer)
    BY <1>6, <2>1 DEF Read, Responses
  <2>3. ToldInOrder' /\ ReceivedOnce'
    BY <1>6, <2>2, FinishInOrder DEF Read
  <2>4. /\ Len(inbox) \in Nat /\ Len(inbox') = Len(inbox) - 1
        /\ \A i \in 1..Len(inbox') : inbox'[i] = inbox[i + 1]
        /\ outcome' = outcome
    BY <1>6, InboxShape DEF Read, server
  <2>5. AnswersTrue'
    BY <2>4 DEF CallsInOrder, AnswersTrue
  <2> QED
    BY <2>3, <2>5 DEF CallsInOrder
<1>7. CASE ReadFails
  BY <1>7, FinishInOrder DEF ReadFails, AnswerLost, CallsInOrder, AnswersTrue, server
<1>8. CASE Timeout
  BY <1>8, FinishInOrder DEF Timeout, CallsInOrder, AnswersTrue, server
<1>9. ASSUME NEW n \in Ids, Execute(n)
      PROVE  CallsInOrder'
  <2>1. PICK o \in Outcomes :
          /\ outcome' = [outcome EXCEPT ![n] = o]
          /\ inbox' = IF n \in here THEN Append(inbox, [id |-> n, outcome |-> o]) ELSE inbox
    BY <1>9 DEF Execute
  <2>2. /\ n \in received /\ received' = received \ {n}
        /\ UNCHANGED <<nextId, phase, told>>
    BY <1>9 DEF Execute, client
  <2>3. n < nextId /\ outcome[n] = "none" /\ (phase \in {"connect", "send"} => n # Current)
    BY <2>2 DEF CallsInOrder, ReceivedOnce
  <2>4. ToldInOrder' /\ ReceivedOnce'
    <3>1. ToldInOrder'
      BY <2>2 DEF CallsInOrder, ToldInOrder
    <3>2. n < nextId /\ n \in Nat /\ nextId \in Nat
      BY <2>3 DEF RpcTypeOK, Ids
    <3>3. \A m \in Ids : m # n => outcome'[m] = outcome[m]
      BY <2>1 DEF RpcTypeOK
    <3>4. \A m \in Ids : m >= nextId => outcome'[m] = "none"
      BY <3>2, <3>3 DEF CallsInOrder, ReceivedOnce
    <3>5. \A m \in received' : outcome'[m] = "none" /\ m < nextId
      BY <2>2, <3>3 DEF CallsInOrder, ReceivedOnce, RpcTypeOK
    <3>6. phase \in {"connect", "send"} =>
            Current \notin received' /\ outcome'[Current] = "none"
      BY <2>2, <2>3, <3>3 DEF CallsInOrder, ReceivedOnce, RpcTypeOK
    <3> QED
      BY <2>2, <3>1, <3>4, <3>5, <3>6 DEF ReceivedOnce
  <2>5. \A i \in 1..Len(inbox) : inbox[i].id # n
    BY <2>3, ResponsesOnTheWay DEF CallsInOrder, AnswersTrue, Outcomes
  <2>6. AnswersTrue'
    <3>1. CASE n \notin here
      BY <2>1, <2>5, <3>1 DEF CallsInOrder, AnswersTrue, RpcTypeOK
    <3>2. CASE n \in here
      <4> DEFINE r == [id |-> n, outcome |-> o]
      <4>1. r \in Responses /\ r.id = n /\ r.outcome = o
        BY DEF Responses
      <4>2. /\ Len(inbox) \in Nat /\ Len(inbox') = Len(inbox) + 1
            /\ \A i \in 1..Len(inbox) : inbox'[i] = inbox[i]
            /\ inbox'[Len(inbox) + 1] = r
        BY <2>1, <3>2, <4>1, InboxGrows
      <4> HIDE DEF r
      <4>3. ASSUME NEW i \in 1..Len(inbox')
            PROVE  outcome'[inbox'[i].id] = inbox'[i].outcome
        <5>1. CASE i \in 1..Len(inbox)
          BY <2>1, <2>5, <4>2, <5>1 DEF CallsInOrder, AnswersTrue, RpcTypeOK
        <5>2. CASE i = Len(inbox) + 1
          BY <2>1, <4>1, <4>2, <5>2 DEF RpcTypeOK
        <5> QED
          BY <4>2, <5>1, <5>2
      <4> QED
        BY <4>3 DEF AnswersTrue
    <3> QED
      BY <3>1, <3>2
  <2> QED
    BY <2>4, <2>6 DEF CallsInOrder
<1>10. CASE Break
  <2>1. AnswersTrue'
    BY <1>10, EmptyInbox DEF Break, CallsInOrder, AnswersTrue, server
  <2> QED
    BY <1>10, <2>1 DEF Break, CallsInOrder, ToldInOrder, ReceivedOnce, client, server
<1>11. CASE UNCHANGED vars
  BY <1>11 DEF vars, client, server, CallsInOrder, ToldInOrder, ReceivedOnce, AnswersTrue
<1> QED
  BY <1>1, <1>2, <1>3, <1>4, <1>5, <1>6, <1>7, <1>8, <1>9, <1>10, <1>11 DEF Next

\* The end of a call is Tell or Fail of the service.
LEMMA FinishServes ==
    ASSUME RpcTypeOK, CallsInOrder, phase # "idle", outcome' = outcome,
           NEW answer \in Outcomes \cup {"error"}, Finish(answer),
           answer # "error" => answer = outcome[Current]
    PROVE  Service!ServiceNext
<1>1. Current \in Ids /\ told[Current] = "waiting"
  BY DEF RpcTypeOK, CallsInOrder, ToldInOrder
<1>2. told' = [told EXCEPT ![Current] = answer]
  BY DEF Finish
<1>3. CASE answer = "error"
  <2>1. Service!Fail(Current)
    BY <1>1, <1>2, <1>3 DEF Service!Fail
  <2> QED
    BY <1>1, <2>1 DEF Service!ServiceNext, Service!Ids, Ids
<1>4. CASE answer # "error"
  <2>1. Service!Tell(Current)
    BY <1>1, <1>2, <1>4 DEF Service!Tell, Outcomes
  <2> QED
    BY <1>1, <2>1 DEF Service!ServiceNext, Service!Ids, Ids
<1> QED
  BY <1>3, <1>4

LEMMA TryAgainServes ==
    ASSUME RpcTypeOK, CallsInOrder, phase # "idle", outcome' = outcome, TryAgain
    PROVE  [Service!ServiceNext]_<<outcome, told>>
<1>1. CASE AttemptsLeft /\ told' = told
  BY <1>1
<1>2. CASE Finish("error")
  BY <1>2, FinishServes
<1> QED
  BY <1>1, <1>2 DEF TryAgain

LEMMA StepServes ==
    ASSUME RpcTypeOK, CallsInOrder, [Next]_vars
    PROVE  [Service!ServiceNext]_<<outcome, told>>
<1>1. CASE Call
  <2>1. nextId \in Ids /\ nextId \in Nat /\ phase = "idle" /\ outcome' = outcome
        /\ told' = [told EXCEPT ![nextId] = "waiting"]
    BY <1>1 DEF Call, RpcTypeOK, server
  <2>2. Service!Ask(nextId)
    BY <2>1 DEF CallsInOrder, ToldInOrder, Service!Ask, Service!Ids, Ids
  <2> QED
    BY <2>1, <2>2 DEF Service!ServiceNext, Service!Ids, Ids
<1>2. CASE Connect
  <2>1. CASE TryAgain
    BY <1>2, <2>1, TryAgainServes DEF Connect, server
  <2>2. CASE told' = told
    BY <1>2, <2>2 DEF Connect, server
  <2> QED
    BY <1>2, <2>1, <2>2 DEF Connect
<1>3. CASE SendRequest \/ SendIntoTheVoid \/ Break \/ UNCHANGED vars
  BY <1>3 DEF SendRequest, SendIntoTheVoid, Break, vars, server
<1>4. CASE SendFails
  BY <1>4, TryAgainServes DEF SendFails, server
<1>5. CASE Read
  <2>1. Head(inbox) \in Responses /\ Head(inbox) = inbox[1] /\ 1 \in 1..Len(inbox)
    BY <1>5, InboxShape DEF Read
  <2>2. outcome[Head(inbox).id] = Head(inbox).outcome
    BY <2>1 DEF CallsInOrder, AnswersTrue
  <2>3. CASE Head(inbox).id = Current
    BY <1>5, <2>1, <2>2, <2>3, FinishServes DEF Read, Responses, server
  <2>4. CASE Head(inbox).id # Current
    BY <1>5, <2>4, FinishServes DEF Read, server
  <2> QED
    BY <2>3, <2>4
<1>6. CASE ReadFails
  BY <1>6, FinishServes DEF ReadFails, AnswerLost, server
<1>7. CASE Timeout
  BY <1>7, FinishServes DEF Timeout, server
<1>8. ASSUME NEW n \in Ids, Execute(n)
      PROVE  Service!ServiceNext
  <2>1. outcome[n] = "none" /\ n < nextId /\ told' = told
    BY <1>8 DEF Execute, CallsInOrder, ReceivedOnce
  <2>2. told[n] # "none"
    BY <2>1 DEF CallsInOrder, ToldInOrder, RpcTypeOK, Ids
  <2>3. Service!Perform(n)
    BY <1>8, <2>1, <2>2 DEF Execute, Service!Perform, Service!Outcomes, Outcomes
  <2> QED
    BY <2>3 DEF Service!ServiceNext, Service!Ids, Ids
<1> QED
  BY <1>1, <1>2, <1>3, <1>4, <1>5, <1>6, <1>7, <1>8 DEF Next

\* The client implements the service: TrueNAS executes no request twice although
\* sends are retried, and no answer is given to another call although late
\* answers are read (JsonRpcClient::call, TrueNasWebSocketTransport::send).
THEOREM ServiceImplemented == Spec => ImplementsService
<1>1. Init => CallsInOrder /\ Service!ServiceInit
  <2> SUFFICES ASSUME Init PROVE CallsInOrder /\ Service!ServiceInit
    OBVIOUS
  <2>1. Service!ServiceInit
    BY DEF Init, Service!ServiceInit, Service!Ids, Ids
  <2>2. ToldInOrder /\ ReceivedOnce
    BY DEF Init, ToldInOrder, ReceivedOnce, Ids
  <2>3. AnswersTrue
    BY EmptyInbox DEF Init, AnswersTrue
  <2> QED
    BY <2>1, <2>2, <2>3 DEF CallsInOrder
<1>2. RpcTypeOK /\ CallsInOrder /\ [Next]_vars => CallsInOrder'
  BY CallsStayInOrder
<1>3. RpcTypeOK /\ CallsInOrder /\ [Next]_vars => [Service!ServiceNext]_<<outcome, told>>
  BY StepServes
<1> QED
  BY <1>1, <1>2, <1>3, RpcTypeCorrect, PTL DEF Spec, ImplementsService, Service!ServiceSpec

-----------------------------------------------------------------------------
(***************************************************************************)
(* Recovery                                                                *)
(***************************************************************************)
\* As long as no answer came too late: a message is only on its way while its
\* call waits for it, and a call that follows an undisturbed error finds the
\* connection dead or replaces it.
LateAnswersOnly ==
    /\ phase # "read" => inbox = <<>>
    /\ Len(inbox) <= 1
    /\ \A i \in 1..Len(inbox) : inbox[i].id = Current
    /\ here \cap received \subseteq {Current}
    /\ phase # "read" \/ inbox # <<>> \/ socket # "open" => here \cap received = {}

Recovering ==
    /\ phase = "connect" => socket = "none"
    /\ phase \in {"send", "read"} => socket # "none"
    /\ phase = "send" /\ socket # "open" /\ ~disturbed => attempt = 0
    /\ futile <= 1
    /\ futile = 1 /\ phase = "idle" => socket = "dead"
    /\ futile = 1 /\ phase # "idle" /\ ~disturbed
         => \/ phase = "connect"
            \/ socket = "open"
            \/ phase = "send" /\ socket = "dead"

Undelayed ==
    MaxRetries > 0 /\ faults["timeout"] = 0 => LateAnswersOnly /\ Recovering

\* What is on its way for a request whose call still waits.
LEMMA LateAnswersStep ==
    ASSUME RpcTypeOK, LateAnswersOnly, [Next]_vars, ~Timeout
    PROVE  LateAnswersOnly'
<1> USE DEF LateAnswersOnly
<1>1. CASE Call
  BY <1>1, EmptyInbox DEF Call, server
<1>2. CASE Connect
  BY <1>2, EmptyInbox DEF Connect, server
<1>3. CASE SendRequest
  BY <1>3, EmptyInbox DEF SendRequest
<1>4. CASE SendIntoTheVoid
  BY <1>4, EmptyInbox DEF SendIntoTheVoid, server
<1>5. CASE SendFails
  BY <1>5, EmptyInbox DEF SendFails, DropSocket
<1>6. CASE Read
  <2>1. Tail(inbox) \in Seq(Responses) /\ Len(Tail(inbox)) = 0
    BY <1>6, InboxShape DEF Read
  <2>2. Tail(inbox) = <<>>
    BY <2>1, EmptySeq
  <2> QED
    BY <1>6, <2>2, EmptyInbox DEF Read, server
<1>7. CASE ReadFails
  BY <1>7, EmptyInbox DEF ReadFails, AnswerLost, server
<1>8. ASSUME NEW n \in Ids, Execute(n)
      PROVE  LateAnswersOnly'
  <2>1. PICK o \in Outcomes :
          inbox' = IF n \in here THEN Append(inbox, [id |-> n, outcome |-> o]) ELSE inbox
    BY <1>8 DEF Execute
  <2>2. /\ n \in received /\ received' = received \ {n}
        /\ UNCHANGED <<nextId, phase, socket, here>>
    BY <1>8 DEF Execute, client
  <2>3. CASE n \notin here
    BY <2>1, <2>2, <2>3
  <2>4. CASE n \in here
    <3>1. n = Current /\ here \cap received = {n} /\ phase = "read" /\ inbox = <<>>
      BY <2>2, <2>4
    <3> DEFINE r == [id |-> n, outcome |-> o]
    <3>2. r \in Responses /\ r.id = n
      BY DEF Responses
    <3>3. /\ Len(inbox) = 0 /\ Len(inbox') = Len(inbox) + 1
          /\ inbox'[Len(inbox) + 1] = r /\ inbox' # <<>>
      BY <2>1, <2>4, <3>1, <3>2, InboxGrows, EmptyInbox
    <3> HIDE DEF r
    <3>4. here' \cap received' = {}
      BY <2>2, <3>1
    <3> QED
      BY <2>2, <3>1, <3>2, <3>3, <3>4
  <2> QED
    BY <2>3, <2>4
<1>9. CASE Break
  BY <1>9, EmptyInbox DEF Break, client
<1>10. CASE UNCHANGED vars
  BY <1>10 DEF vars, client, server
<1> QED
  BY <1>1, <1>2, <1>3, <1>4, <1>5, <1>6, <1>7, <1>8, <1>9, <1>10 DEF Next

\* A call that ends with an answer, or was disturbed, starts the count anew.
LEMMA CountedAnew ==
    ASSUME RpcTypeOK, NEW answer, Finish(answer), answer # "error" \/ disturbed' = TRUE
    PROVE  Recovering'
BY DEF Finish, Count, Recovering

LEMMA RecoveringStep ==
    ASSUME RpcTypeOK, LateAnswersOnly, Recovering, MaxRetries > 0, [Next]_vars, ~Timeout
    PROVE  Recovering'
<1>1. CASE Call
  BY <1>1 DEF RpcTypeOK, Recovering, Call, Begin
<1>2. CASE Connect
  <2>1. CASE socket' = "open" /\ phase' = "send" /\ UNCHANGED <<attempt, history>>
    BY <1>2, <2>1 DEF Recovering, Connect, history
  <2>2. CASE disturbed' = TRUE /\ TryAgain /\ UNCHANGED socket
    <3>1. CASE Finish("error")
      BY <2>2, <3>1, CountedAnew
    <3>2. CASE AttemptsLeft /\ phase' = Begin(socket') /\ futile' = futile
      BY <1>2, <2>2, <3>2 DEF Recovering, Connect, Begin
    <3> QED
      BY <2>2, <3>1, <3>2 DEF TryAgain
  <2> QED
    BY <1>2, <2>1, <2>2 DEF Connect
<1>3. CASE SendRequest
  BY <1>3 DEF Recovering, SendRequest, history
<1>4. CASE SendIntoTheVoid
  BY <1>4 DEF Recovering, SendIntoTheVoid, history
<1>5. CASE SendFails
  <2>1. /\ phase = "send" /\ socket # "open" /\ socket' = "none"
        /\ disturbed' = disturbed /\ TryAgain
    BY <1>5 DEF SendFails, DropSocket
  <2>2. CASE disturbed /\ Finish("error")
    BY <2>1, <2>2, CountedAnew DEF RpcTypeOK
  <2>3. CASE ~disturbed
    <3>1. AttemptsLeft
      BY <2>1, <2>3 DEF Recovering, AttemptsLeft
    <3> QED
      BY <2>1, <3>1 DEF Recovering, TryAgain, Begin
  <2>4. CASE AttemptsLeft
    BY <2>1, <2>4 DEF Recovering, TryAgain, Begin
  <2> QED
    BY <2>1, <2>2, <2>3, <2>4 DEF TryAgain, RpcTypeOK
<1>6. CASE Read
  <2>1. /\ Head(inbox) \in Responses /\ Head(inbox) = inbox[1]
        /\ Len(inbox) \in Nat \ {0}
    BY <1>6, InboxShape DEF Read
  <2>2. Head(inbox).id = Current
    BY <2>1 DEF LateAnswersOnly
  <2>3. Head(inbox).outcome # "error"
    BY <2>1 DEF Responses, Outcomes
  <2> QED
    BY <1>6, <2>2, <2>3, CountedAnew DEF Read
<1>7. CASE ReadFails
  <2>1. /\ phase = "read" /\ socket # "open" /\ socket' = "dead"
        /\ disturbed' = disturbed /\ Finish("error")
    BY <1>7 DEF ReadFails, AnswerLost
  <2>2. CASE disturbed
    BY <2>1, <2>2, CountedAnew DEF RpcTypeOK
  <2>3. CASE ~disturbed
    <3>1. futile = 0
      BY <2>1, <2>3 DEF Recovering, RpcTypeOK
    <3> QED
      BY <2>1, <2>3, <3>1 DEF Recovering, Finish, Count
  <2> QED
    BY <2>2, <2>3
<1>8. ASSUME NEW n \in Ids, Execute(n)
      PROVE  Recovering'
  BY <1>8 DEF Recovering, Execute, client, history
<1>9. CASE Break
  BY <1>9 DEF Recovering, Break, client
<1>10. CASE UNCHANGED vars
  BY <1>10 DEF Recovering, vars, client, history
<1> QED
  BY <1>1, <1>2, <1>3, <1>4, <1>5, <1>6, <1>7, <1>8, <1>9, <1>10 DEF Next

\* A timeout that happened stays counted.
LEMMA TimeoutsCounted ==
    ASSUME RpcTypeOK, [Next]_vars, faults'["timeout"] = 0
    PROVE  faults["timeout"] = 0 /\ ~Timeout
<1> USE RpcFaultsAssumption
<1>1. FaultsTypeOK
  BY DEF RpcTypeOK
<1>2. ~Timeout
  BY <1>1, FaultCounted DEF Timeout
<1>3. CASE Fault("connection")
  BY <1>1, <1>2, <1>3, FaultCounted
<1>4. CASE faults' = faults
  BY <1>2, <1>4
<1>5. Fault("connection") \/ faults' = faults
  BY <1>2 DEF Next, Call, Connect, SendRequest, SendIntoTheVoid, SendFails, Read, ReadFails,
              Execute, Break, vars
<1> QED
  BY <1>2, <1>3, <1>4, <1>5

\* A lost connection costs at most one call: never do two calls in a row fail
\* that nothing disturbed, as long as no answer came too late
\* (TrueNasWebSocketTransport::send, drop_socket).
THEOREM LossesOvercome == Spec => []LossesAreOvercome
<1>1. Init => Undelayed
  BY EmptyInbox DEF Init, Undelayed, LateAnswersOnly, Recovering
<1>2. RpcTypeOK /\ Undelayed /\ [Next]_vars => Undelayed'
  <2> SUFFICES ASSUME RpcTypeOK, Undelayed, [Next]_vars,
                      MaxRetries > 0, faults'["timeout"] = 0
               PROVE  LateAnswersOnly' /\ Recovering'
    BY DEF Undelayed
  <2>1. faults["timeout"] = 0 /\ ~Timeout
    BY TimeoutsCounted
  <2>2. LateAnswersOnly /\ Recovering
    BY <2>1 DEF Undelayed
  <2> QED
    BY <2>1, <2>2, LateAnswersStep, RecoveringStep
<1>3. RpcTypeOK /\ Undelayed => LossesAreOvercome
  BY DEF RpcTypeOK, Undelayed, Recovering, LossesAreOvercome
<1> QED
  BY <1>1, <1>2, <1>3, RpcTypeCorrect, PTL DEF Spec
=============================================================================
