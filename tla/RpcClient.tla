----------------------------- MODULE RpcClient ------------------------------
(***************************************************************************)
(* The JSON-RPC client of nas-csi: crates/truenas-client, with the one     *)
(* connection TrueNasApiBackend keeps for the life of the controller.      *)
(*                                                                         *)
(* A call sends one request and takes the next message that arrives for    *)
(* its answer.  A connection that fails before the request is sent is      *)
(* replaced, within a bound; once the request is sent nothing is repeated. *)
(* TrueNAS may execute what it received at any later time and in any       *)
(* order, and the connection may break at any moment.                      *)
(***************************************************************************)
EXTENDS Faults, Sequences

CONSTANTS MaxCalls,     \* calls in a behaviour (bounds the u64 of the code)
          MaxRetries    \* max_retries of the configuration

ASSUME MaxCallsAssumption == MaxCalls \in Nat
ASSUME MaxRetriesAssumption == MaxRetries \in Nat
ASSUME RpcFaultsAssumption == {"connection", "timeout"} \subseteq FaultKinds

VARIABLES
    nextId,       \* the id of the next request
    phase,        \* what the call in progress is doing
    attempt,      \* how often it has been tried again
    socket,       \* the connection of the client: none, open, broken without
                  \* the client's knowledge, or dead with it
    inbox,        \* messages on their way to the client over the connection
    received,     \* requests TrueNAS has received and not executed yet
    here,         \* requests that came over the connection the client has
    outcome,      \* what TrueNAS did about each request
    told,         \* what the caller of each call was told
    disturbed,    \* the environment disturbed the call in progress
    futile        \* how many calls in a row failed undisturbed, up to 2

client == <<nextId, phase, attempt>>
server == <<received, outcome>>
history == <<disturbed, futile>>
vars == <<faults, client, socket, inbox, here, server, told, history>>

Ids == 1..MaxCalls
Outcomes == {"done", "refused"}
Responses == [id: Ids, outcome: Outcomes]

\* The call in progress.
Current == nextId - 1

\* Every variable keeps its type, and a call is tried max_retries times again
\* and no more ("bounded reconnect attempts").
RpcTypeOK ==
    /\ FaultsTypeOK
    /\ nextId \in 1..MaxCalls + 1
    /\ phase \in {"idle", "connect", "send", "read"}
    /\ phase # "idle" => Current \in Ids
    /\ attempt \in 0..MaxRetries
    /\ socket \in {"none", "open", "broken", "dead"}
    /\ inbox \in Seq(Responses)
    /\ received \subseteq Ids
    /\ here \subseteq Ids
    /\ outcome \in [Ids -> Outcomes \cup {"none"}]
    /\ told \in [Ids -> Outcomes \cup {"none", "waiting", "error"}]
    /\ disturbed \in BOOLEAN
    /\ futile \in 0..2

Init ==
    /\ FaultsInit
    /\ nextId = 1
    /\ phase = "idle"
    /\ attempt = 0
    /\ socket = "none"
    /\ inbox = <<>>
    /\ received = {}
    /\ here = {}
    /\ outcome = [n \in Ids |-> "none"]
    /\ told = [n \in Ids |-> "none"]
    /\ disturbed = FALSE
    /\ futile = 0

-----------------------------------------------------------------------------
(***************************************************************************)
(* How a call ends, and how it is tried again                              *)
(***************************************************************************)
\* The history counts errors in calls that nothing disturbed.
Count(answer) ==
    futile' = IF answer # "error" \/ disturbed' THEN 0
              ELSE IF futile = 2 THEN 2 ELSE futile + 1

Finish(answer) ==
    /\ told' = [told EXCEPT ![Current] = answer]
    /\ phase' = "idle"
    /\ UNCHANGED <<nextId, attempt>>
    /\ Count(answer)

\* ensure_connected: an attempt begins with a connection unless there is one.
Begin(s) == IF s = "none" THEN "connect" ELSE "send"

\* Mutant of AttemptsLeft: one attempt more than max_retries allows.
AttemptsLeftInclusive == attempt <= MaxRetries

\* The loop over 0..=max_retries.
AttemptsLeft == attempt < MaxRetries

\* The next attempt, or the last error.
TryAgain ==
    \/ /\ AttemptsLeft
       /\ attempt' = attempt + 1
       /\ phase' = Begin(socket')
       /\ UNCHANGED <<nextId, told, futile>>
    \/ ~AttemptsLeft /\ Finish("error")

-----------------------------------------------------------------------------
(***************************************************************************)
(* JsonRpcClient::call and TrueNasWebSocketTransport::send                 *)
(***************************************************************************)
Call ==
    /\ phase = "idle"
    /\ nextId \in Ids
    /\ nextId' = nextId + 1
    /\ told' = [told EXCEPT ![nextId] = "waiting"]
    /\ phase' = Begin(socket)
    /\ attempt' = 0
    /\ disturbed' = FALSE
    /\ UNCHANGED <<faults, socket, inbox, here, server, futile>>

\* ensure_connected: connect, then authenticate with a call of its own.  When
\* either fails the connection is dropped.
Connect ==
    /\ phase = "connect"
    /\ \/ /\ NoFault
          /\ socket' = "open"
          /\ phase' = "send"
          /\ UNCHANGED <<nextId, attempt, told, history>>
       \/ /\ Fault("connection")
          /\ disturbed' = TRUE
          /\ UNCHANGED socket
          /\ TryAgain
    /\ UNCHANGED <<inbox, here, server>>

\* Over an open connection the request reaches TrueNAS.
SendRequest ==
    /\ phase = "send"
    /\ socket = "open"
    /\ phase' = "read"
    /\ received' = received \cup {Current}
    /\ here' = here \cup {Current}
    /\ UNCHANGED <<faults, nextId, attempt, socket, inbox, outcome, told, history>>

\* Over a broken one the operating system may take it and lose it.
SendIntoTheVoid ==
    /\ phase = "send"
    /\ socket = "broken"
    /\ phase' = "read"
    /\ UNCHANGED <<faults, nextId, attempt, socket, inbox, here, server, told, history>>

\* Mutant of DropSocket: the connection is kept.
KeepSocket == UNCHANGED <<socket, inbox, here>>

DropSocket == socket' = "none" /\ inbox' = <<>> /\ here' = {}

\* A send that fails has not transmitted a whole request.
SendFails ==
    /\ phase = "send"
    /\ socket \in {"broken", "dead"}
    /\ UNCHANGED <<faults, server, disturbed>>
    /\ DropSocket
    /\ TryAgain

-----------------------------------------------------------------------------
(***************************************************************************)
(* read_text_message and parse_response                                    *)
(***************************************************************************)
\* The answer of another request is an error; the connection is kept.
Read ==
    /\ phase = "read"
    /\ inbox # <<>>
    /\ UNCHANGED <<faults, socket, here, server, disturbed>>
    /\ Finish(IF Head(inbox).id = Current THEN Head(inbox).outcome ELSE "error")
    /\ inbox' = Tail(inbox)

\* Mutant of AnswerLost: a request whose answer is lost is sent again.
AnswerLostRetried == DropSocket /\ TryAgain

\* The error goes to the caller, and the client keeps the useless connection.
AnswerLost ==
    /\ Finish("error")
    /\ socket' = "dead"
    /\ UNCHANGED <<inbox, here>>

ReadFails ==
    /\ phase = "read"
    /\ inbox = <<>>
    /\ socket \in {"broken", "dead"}
    /\ UNCHANGED <<faults, server, disturbed>>
    /\ AnswerLost

\* The answer takes longer than request_timeout; the connection is kept.
Timeout ==
    /\ phase = "read"
    /\ socket = "open"
    /\ Fault("timeout")
    /\ disturbed' = TRUE
    /\ Finish("error")
    /\ UNCHANGED <<socket, inbox, here, server>>

-----------------------------------------------------------------------------
(***************************************************************************)
(* TrueNAS and the network                                                 *)
(***************************************************************************)
\* TrueNAS executes a request and answers when its connection still exists.
Execute(n) ==
    /\ n \in received
    /\ received' = received \ {n}
    /\ \E o \in Outcomes :
          /\ outcome' = [outcome EXCEPT ![n] = o]
          /\ inbox' = IF n \in here THEN Append(inbox, [id |-> n, outcome |-> o]) ELSE inbox
    /\ UNCHANGED <<faults, client, socket, here, told, history>>

\* The connection breaks.  Messages that had arrived can still be read.
Break ==
    /\ socket = "open"
    /\ Fault("connection")
    /\ socket' = "broken"
    /\ here' = {}
    /\ inbox' \in {inbox, <<>>}
    /\ disturbed' = (phase # "idle" \/ disturbed)
    /\ UNCHANGED <<client, server, told, futile>>

Next ==
    \/ Call \/ Connect
    \/ SendRequest \/ SendIntoTheVoid \/ SendFails
    \/ Read \/ ReadFails \/ Timeout
    \/ \E n \in Ids : Execute(n)
    \/ Break

Spec == Init /\ [][Next]_vars

-----------------------------------------------------------------------------
(***************************************************************************)
(* Properties                                                              *)
(***************************************************************************)
Service == INSTANCE RpcService

\* Whatever breaks or takes too long, TrueNAS executes no request twice, and an
\* answer is only ever given to the call it belongs to: retries happen before
\* the request is sent, and an id that does not fit is an error.
ImplementsService == Service!ServiceSpec

\* A connection that was lost costs at most one call: the call that notices the
\* loss after it sent its request fails, and the next one reconnects ("bounded
\* reconnect attempts", which needs at least one).  A connection whose answers
\* come too late is excluded: it stays in use, and every later call fails on
\* the id of the answer before its own.
LossesAreOvercome ==
    MaxRetries > 0 /\ faults["timeout"] = 0 => futile < 2
=============================================================================
