------------------------------ MODULE Realtime ------------------------------
(***************************************************************************)
(* One API process that passes committed message changes to its sockets:   *)
(* modules/realtime.  The process is an asyncio event loop, so an action   *)
(* here is the code between two awaits.                                    *)
(*                                                                         *)
(* All sockets here are interested in one channel; each belongs to a       *)
(* session of its own.  A frame stands for its envelope.  Heartbeats,      *)
(* presence, typing, malformed commands and the clean-up of old events are *)
(* left out.                                                               *)
(***************************************************************************)
EXTENDS Integers, Sequences, FiniteSets

CONSTANTS
  Connection,      (* sockets that browsers may open                         *)
  MaxEvents,       (* bound: committed changes of messages                   *)
  QueueSize,       (* realtime_outbound_queue_size                           *)
  MaxConnections,  (* realtime_max_connections                               *)
  None             (* nothing                                                *)

Event == 1..MaxEvents

ASSUME SizeAssumption ==
  /\ MaxEvents \in Nat /\ QueueSize \in Nat \ {0} /\ MaxConnections \in Nat
  /\ IsFiniteSet(Connection)

\* What the two reads of an authorization say, and how far a _deliver() task is with them.
Answer == [at : Connection, active : BOOLEAN, allowed : BOOLEAN]
Job == [todo : SUBSET Connection, answer : Answer \cup {None}, read : BOOLEAN]

ASSUME NoneAssumption == None \notin Connection \cup Answer \cup Job

VARIABLES
  session,   (* is the session of each socket active, its access unexpired?   *)
  access,    (* may its user read the channel?                                *)
  committed, (* how many changes have been committed, each with its event     *)
  listener,  (* the LISTEN connection: up, lost unnoticed, or down            *)
  signal,    (* NOTIFY signals on their way                                   *)
  task,      (* the _deliver() task of each event                             *)
  sweep,     (* the pass of _sweep_authorization(), or Ended                  *)
  phase,     (* how far the handler of each socket is                         *)
  sub,       (* has it subscribed to the channel?                             *)
  command,   (* what the handler is at: greeting, the answer to a subscribe   *)
             (* command, or leaving                                           *)
  queue,     (* outbound frames                                               *)
  sent,      (* history: the events sent to each socket                       *)
  note       (* history: what each event, when it was committed, was to it,   *)
             (* and whether a failed delivery has dropped it since             *)

database == <<session, access, committed>>
socket == <<phase, sub, command, queue, sent>>
vars == <<database, listener, signal, task, sweep, socket, note>>

-----------------------------------------------------------------------------
(* Connections *)

Frame(kind, e) == [kind |-> kind, event |-> e]
Changed(e) == Frame("changed", e)

\* hello, subscribed, unsubscribed, subscription.revoked and error frames.
Control == Frame("control", None)

\* The None in the queue that tells the sender to close the socket.
Stop == Frame("stop", None)

\* The handler has yet to greet the browser, or waits for its sender to close the socket.
Greeting == Frame("greeting", None)
Leaving == Frame("leaving", None)

Queued(c) == {queue[c][i] : i \in DOMAIN queue[c]}

\* Closing: the sender will close the socket, or has done so.
Closing(c) == Stop \in Queued(c) \/ phase[c] = "closed"

Open(c) == phase[c] \in {"open", "closed"}

\* _connections
Registered == {c \in Connection : Open(c)}

\* request_close()
RequestClose(q) == <<Stop>>

Enqueue_Dropping(q, f) == IF Len(q) < QueueSize THEN Append(q, f) ELSE q  \* variant: lossy

\* enqueue()
Enqueue(q, f) == IF Len(q) < QueueSize THEN Append(q, f) ELSE RequestClose(q)

\* The queue of a socket, unless its handler has ended and nobody reads it.
Put(c, q) == queue' = IF Open(c) THEN [queue EXCEPT ![c] = q] ELSE queue

\* _authorization(): two reads, of the session and then of the memberships.
Authorization(c) == [at |-> c, active |-> session[c], allowed |-> access[c]]

\* _session_active()
SessionOnly(c) == [at |-> c, active |-> session[c], allowed |-> TRUE]

\* What both the delivery and the sweeper do with a socket that was refused.
Refuse(answer) ==
  LET c == answer.at IN
    IF ~answer.active THEN Put(c, RequestClose(queue[c])) /\ UNCHANGED sub
    ELSE /\ sub' = [sub EXCEPT ![c] = FALSE]
         /\ Put(c, Enqueue(queue[c], Control))

Granted(answer) == answer.active /\ answer.allowed

-----------------------------------------------------------------------------
(* The rest of Klack *)

NoNote == [e \in Event |-> "none"]

\* A change is committed; NOTIFY reaches the sessions that listen.
Commit ==
  /\ committed < MaxEvents
  /\ committed' = committed + 1
  /\ signal' = IF listener = "up" THEN signal \cup {committed'} ELSE signal
  /\ note' = [c \in Connection |-> [note[c] EXCEPT ![committed'] =
       IF phase[c] = "gone" THEN "none"
       ELSE IF ~session[c] \/ ~access[c] THEN "secret"
       ELSE IF ~Open(c) \/ ~sub[c] \/ Closing(c) THEN "none"
       ELSE IF listener = "down" THEN "missed" ELSE "due"]]
  /\ UNCHANGED <<session, access, listener, task, sweep, socket>>

\* The session is revoked, or the access token the socket was opened with expires.
EndSession(c) ==
  /\ session[c]
  /\ session' = [session EXCEPT ![c] = FALSE]
  /\ UNCHANGED <<access, committed, listener, signal, task, sweep, socket, note>>

\* The user leaves or is removed from the channel or the workspace.
EndAccess(c) ==
  /\ access[c]
  /\ access' = [access EXCEPT ![c] = FALSE]
  /\ UNCHANGED <<session, committed, listener, signal, task, sweep, socket, note>>

-----------------------------------------------------------------------------
(* The listener *)

\* _listen_forever(): connect, add_listener(), ready.
Listen ==
  /\ listener = "down"
  /\ listener' = "up"
  /\ UNCHANGED <<database, signal, task, sweep, socket, note>>

\* The connection breaks, with the signals on it.
Lose ==
  /\ listener = "up"
  /\ listener' = "lost" /\ signal' = {}
  /\ UNCHANGED <<database, task, sweep, socket, note>>

CloseAll_Nobody == queue  \* variant: sockets survive the loss of the listener

\* close_all()
CloseAll ==
  [c \in Connection |-> IF phase[c] = "open" THEN RequestClose(queue[c]) ELSE queue[c]]

\* The termination is noticed: not ready, and every socket is closed.
Notice ==
  /\ listener = "lost"
  /\ listener' = "down"
  /\ queue' = CloseAll
  /\ UNCHANGED <<database, signal, task, sweep, phase, sub, command, sent, note>>

-----------------------------------------------------------------------------
(* Delivery *)

\* _notification()
Notification(e) ==
  /\ e \in signal
  /\ signal' = signal \ {e}
  /\ task' = [task EXCEPT ![e] = [todo |-> {}, answer |-> None, read |-> FALSE]]
  /\ UNCHANGED <<database, listener, sweep, socket, note>>

Running(e) == task[e] # None

\* A task that still has to see to some sockets, or has ended.
Left(todo) == IF todo = {} THEN None ELSE [todo |-> todo, answer |-> None, read |-> TRUE]

\* The event and the message are read; then the subscribed sockets are listed.
DeliverRead(e) ==
  /\ Running(e) /\ ~task[e].read
  /\ task' = [task EXCEPT ![e] = Left({c \in Registered : sub[c]})]
  /\ UNCHANGED <<database, listener, signal, sweep, socket, note>>

\* Ask for the authorization of the next one.
DeliverAsk(e, c) ==
  /\ Running(e) /\ task[e].answer = None
  /\ c \in task[e].todo
  /\ task' = [task EXCEPT ![e].todo = @ \ {c}, ![e].answer = Authorization(c)]
  /\ UNCHANGED <<database, listener, signal, sweep, socket, note>>

Deliver_Unasked(e, answer) ==  \* variant: whoever subscribed once is sent everything
  /\ Put(answer.at, Enqueue(queue[answer.at], Changed(e)))
  /\ UNCHANGED sub

\* What _deliver() does with the answer.
Deliver(e, answer) ==
  IF Granted(answer)
  THEN Put(answer.at, Enqueue(queue[answer.at], Changed(e))) /\ UNCHANGED sub
  ELSE Refuse(answer)

DeliverOne(e) ==
  /\ Running(e) /\ task[e].answer # None
  /\ Deliver(e, task[e].answer)
  /\ task' = [task EXCEPT ![e] = Left(@.todo)]
  /\ UNCHANGED <<database, listener, signal, sweep, phase, command, sent, note>>

\* The sockets that a task has yet to put the event into the queue of.
Owed(c, e) ==
  /\ Running(e)
  /\ ~task[e].read \/ c \in task[e].todo \/ (task[e].answer # None /\ task[e].answer.at = c)

\* A read raises: the task logs the error and ends, and tells none of the sockets it owes.
DeliverFail(e) ==
  /\ Running(e)
  /\ task' = [task EXCEPT ![e] = None]
  /\ note' = [c \in Connection |-> [note[c] EXCEPT ![e] =
       IF @ = "due" /\ Owed(c, e) THEN "dropped" ELSE @]]
  /\ UNCHANGED <<database, listener, signal, sweep, socket>>

-----------------------------------------------------------------------------
(* The sweeper *)

\* The task has ended: a pass without sockets to see to, from which no step leads.
Ended == [todo |-> {}, answer |-> None]

\* After the pause, a list of the sockets.
SweepBegin ==
  /\ sweep = None /\ Registered # {}
  /\ sweep' = [todo |-> Registered, answer |-> None]
  /\ UNCHANGED <<database, listener, signal, task, socket, note>>

SweepAsk(c) ==
  /\ sweep # None /\ sweep.answer = None
  /\ c \in sweep.todo
  /\ sweep' = [todo |-> sweep.todo \ {c},
               answer |-> IF sub[c] THEN Authorization(c) ELSE SessionOnly(c)]
  /\ UNCHANGED <<database, listener, signal, task, socket, note>>

Sweep_SessionsOnly(answer) ==  \* variant: memberships are only checked on delivery
  IF answer.active THEN UNCHANGED <<sub, queue>> ELSE Refuse(answer)

\* What the sweeper does with the answer.
Sweep(answer) ==
  IF Granted(answer) THEN UNCHANGED <<sub, queue>> ELSE Refuse(answer)

SweepOne ==
  /\ sweep # None /\ sweep.answer # None
  /\ Sweep(sweep.answer)
  /\ sweep' = IF sweep.todo = {} THEN None ELSE [sweep EXCEPT !.answer = None]
  /\ UNCHANGED <<database, listener, signal, task, phase, command, sent, note>>

\* A read raises: nothing catches it, and the task is not started again.
SweepFail ==
  /\ sweep \notin {None, Ended}
  /\ sweep' = Ended
  /\ UNCHANGED <<database, listener, signal, task, socket, note>>

-----------------------------------------------------------------------------
(* The handler of a socket *)

Phase(c, p) == phase' = [phase EXCEPT ![c] = p]

\* The handshake is only let in while the listener is thought to be up.
Handshake(c) ==
  /\ phase[c] = "new"
  /\ Phase(c, IF listener = "down" THEN "gone" ELSE "ready")
  /\ UNCHANGED <<database, listener, signal, task, sweep, sub, command, queue, sent, note>>

\* The session behind the cookie is read; without one, or when the read raises, it is refused.
Identify(c) ==
  /\ phase[c] = "ready"
  /\ (session[c] /\ Phase(c, "identified")) \/ Phase(c, "gone")
  /\ UNCHANGED <<database, listener, signal, task, sweep, sub, command, queue, sent, note>>

\* The handshake was accepted: register().
Register(c) ==
  /\ phase[c] = "identified"
  /\ IF Cardinality(Registered) < MaxConnections
     THEN Phase(c, "open") /\ command' = [command EXCEPT ![c] = Greeting]
     ELSE Phase(c, "gone") /\ UNCHANGED command
  /\ UNCHANGED <<database, listener, signal, task, sweep, sub, queue, sent, note>>

\* After touch_presence(), the first frame.
Greet(c) ==
  /\ command[c] = Greeting
  /\ command' = [command EXCEPT ![c] = None]
  /\ Put(c, Enqueue(queue[c], Control))
  /\ UNCHANGED <<database, listener, signal, task, sweep, phase, sub, sent, note>>

\* Too many commands, too large a frame, or access that has expired: the handler gives up.
GiveUp(c) ==
  /\ Open(c) /\ command[c] = None
  /\ command' = [command EXCEPT ![c] = Leaving]
  /\ Put(c, RequestClose(queue[c]))
  /\ UNCHANGED <<database, listener, signal, task, sweep, phase, sub, sent, note>>

\* authorize_subscription()
SubscribeAsk(c) ==
  /\ Open(c) /\ command[c] = None
  /\ command' = [command EXCEPT ![c] = Authorization(c)]
  /\ UNCHANGED <<database, listener, signal, task, sweep, phase, sub, queue, sent, note>>

\* The answer to a subscribe command; a socket whose session is over is told to close first.
Subscribe(c) ==
  /\ Open(c) /\ command[c] \notin {None, Greeting, Leaving}
  /\ LET q == IF command[c].active THEN queue[c] ELSE RequestClose(queue[c])
         granted == Granted(command[c])
     IN /\ sub' = IF granted THEN [sub EXCEPT ![c] = TRUE] ELSE sub
        /\ Put(c, Enqueue(q, Control))
  /\ command' = [command EXCEPT ![c] = None]
  /\ UNCHANGED <<database, listener, signal, task, sweep, phase, sent, note>>

\* What was due to a socket that unsubscribes is no longer.
Unsubscribe(c) ==
  /\ Open(c) /\ command[c] = None /\ sub[c]
  /\ sub' = [sub EXCEPT ![c] = FALSE]
  /\ Put(c, Enqueue(queue[c], Control))
  /\ note' = [note EXCEPT ![c] = [e \in Event |-> IF @[e] = "secret" THEN "secret" ELSE "none"]]
  /\ UNCHANGED <<database, listener, signal, task, sweep, phase, command, sent>>

\* _send_messages()
Send(c) ==
  /\ phase[c] = "open" /\ queue[c] # <<>>
  /\ LET f == Head(queue[c]) IN
       /\ Phase(c, IF f = Stop THEN "closed" ELSE "open")
       /\ sent' = IF f.kind = "changed" THEN [sent EXCEPT ![c] = @ \cup {f.event}] ELSE sent
  /\ queue' = [queue EXCEPT ![c] = Tail(@)]
  /\ UNCHANGED <<database, listener, signal, task, sweep, sub, command, note>>

\* The socket is gone: unregister(), and the sender is cancelled.  The histories end.
Disconnect(c) ==
  /\ Open(c) /\ command[c] # Greeting
  /\ Phase(c, "gone")
  /\ sub' = [sub EXCEPT ![c] = FALSE]
  /\ command' = [command EXCEPT ![c] = None]
  /\ queue' = [queue EXCEPT ![c] = <<>>]
  /\ sent' = [sent EXCEPT ![c] = {}] /\ note' = [note EXCEPT ![c] = NoNote]
  /\ UNCHANGED <<database, listener, signal, task, sweep>>

-----------------------------------------------------------------------------
(* Specification *)

Init ==
  /\ session = [c \in Connection |-> TRUE] /\ access = [c \in Connection |-> TRUE]
  /\ committed = 0
  /\ listener = "down" /\ signal = {} /\ task = [e \in Event |-> None] /\ sweep = None
  /\ phase = [c \in Connection |-> "new"] /\ sub = [c \in Connection |-> FALSE]
  /\ command = [c \in Connection |-> None] /\ queue = [c \in Connection |-> <<>>]
  /\ sent = [c \in Connection |-> {}]
  /\ note = [c \in Connection |-> NoNote]

Broker ==
  \/ Listen \/ Lose \/ Notice
  \/ \E e \in Event :
       \/ Notification(e) \/ DeliverRead(e) \/ DeliverOne(e) \/ DeliverFail(e)
       \/ \E c \in Connection : DeliverAsk(e, c)

Sweeper == SweepBegin \/ (\E c \in Connection : SweepAsk(c)) \/ SweepOne

Handler(c) ==
  \/ Handshake(c) \/ Identify(c) \/ Register(c) \/ Greet(c) \/ GiveUp(c)
  \/ SubscribeAsk(c) \/ Subscribe(c) \/ Unsubscribe(c)
  \/ Send(c) \/ Disconnect(c)

Next ==
  \/ Commit \/ (\E c \in Connection : EndSession(c) \/ EndAccess(c))
  \/ Broker \/ Sweeper \/ SweepFail
  \/ \E c \in Connection : Handler(c)

Spec == Init /\ [][Next]_vars

\* While its task lives the sweeper goes round, and its reads end.
FairSpec == Spec /\ WF_vars(Sweeper)

-----------------------------------------------------------------------------
(* Properties *)

Arrives(c, e) == e \in sent[c] \/ Changed(e) \in Queued(c) \/ e \in signal \/ Owed(c, e)

\* May still read the channel, is subscribed, and not about to be closed.
Served(c) == Open(c) /\ ~Closing(c) /\ sub[c] /\ session[c] /\ access[c]

\* A socket that stays subscribed gets every change committed since, unless it is closed, so
\* that its browser reads the history again, or a database error ended the delivery before it
\* came to this socket ("dropped"): queues, tasks, refusals, and the listener lose nothing
\* silently.  That failed deliveries do is DeliveryLossVisible.
NoSilentGap ==
  listener # "lost" =>
    \A c \in Connection, e \in Event : Served(c) /\ note[c][e] = "due" => Arrives(c, e)

\* A change committed after the session or the access of a socket ended is not sent to it.
NothingAfterAccess ==
  \A c \in Connection, e \in Event :
    note[c][e] = "secret" => e \notin sent[c] /\ Changed(e) \notin Queued(c)

\* Once a socket is to be closed, nothing that waited in its queue is sent to it.
ClosingIsFinal == [][\A c \in Connection : Closing(c) => sent'[c] \subseteq sent[c]]_vars

\* When session or access end, the subscription or the socket does, for good, even if no
\* message is written, unless a database error has ended the sweeper before that, which is for
\* the rest of the life of the process.
RevocationTakesEffect ==
  \A c \in Connection :
    ~session[c] \/ ~access[c] ~>
      [](Closing(c) \/ ~Open(c) \/ (session[c] /\ ~sub[c]) \/ sweep = Ended)

\* ADR 0007: membership and session revocation take effect on delivery and within the configured
\* periodic recheck interval even when no messages arrive.
RevocationOnRecheck ==
  \A c \in Connection :
    ~session[c] \/ ~access[c] ~> [](Closing(c) \/ ~Open(c) \/ (session[c] /\ ~sub[c]))

\* What ADR 0007 says of a failed listener, of a failed delivery: local sockets are closed, so
\* clients cannot silently miss live events.
DeliveryLossVisible ==
  \A c \in Connection, e \in Event : Served(c) => note[c][e] # "dropped"

\* ADR 0007: listener failure is visible as a reconnect instead of an undetected delivery gap.
ListenerLossVisible ==
  listener = "up" => \A c \in Connection, e \in Event : Served(c) => note[c][e] # "missed"
=============================================================================
