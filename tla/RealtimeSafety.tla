--------------------------- MODULE RealtimeSafety ---------------------------
(* Safety of Realtime, for every number of sockets, changes and queue sizes. *)
EXTENDS Realtime, TLAPS

-----------------------------------------------------------------------------
(* Queues *)

Frames == {Changed(e) : e \in Event} \cup {Control, Stop}

Content(q) == {q[i] : i \in DOMAIN q}

\* A queue of frames that asks the sender to close the socket before anything else, or not.
Orderly(q) ==
  /\ q \in Seq(Frames)
  /\ \A i \in DOMAIN q : q[i] = Stop => i = 1

\* What enqueue() and request_close() make of a queue: frames F are added, or it ends.
Gets(q, p, F) ==
  /\ Orderly(p)
  /\ Content(p) \subseteq Content(q) \cup F \cup {Stop}
  /\ \/ Stop \in Content(p)
     \/ Stop \notin Content(q) /\ Content(q) \cup F \subseteq Content(p)

\* The three kinds of frames differ.
LEMMA Kinds ==
  /\ Control # Stop
  /\ \A e : Changed(e) # Stop /\ Changed(e) # Control
  /\ \A f \in Frames : f.kind = "changed" => f.event \in Event /\ f = Changed(f.event)
BY DEF Control, Stop, Changed, Frame, Frames

\* A queue that is left alone.
LEMMA GetsNothing ==
  ASSUME NEW q, Orderly(q)
  PROVE  Gets(q, q, {})
BY DEF Gets

\* request_close() leaves only the end.
LEMMA ClosedQueue == Orderly(<<Stop>>) /\ Content(<<Stop>>) = {Stop}
BY DEF Orderly, Content, Frames

\* request_close()
LEMMA GetsEnd ==
  ASSUME NEW q, Orderly(q)
  PROVE  Gets(q, RequestClose(q), {})
BY ClosedQueue DEF Gets, RequestClose

\* Append() at the end of a queue.
LEMMA Appended ==
  ASSUME NEW q, Orderly(q), NEW f \in Frames \ {Stop}
  PROVE  Orderly(Append(q, f)) /\ Content(Append(q, f)) = Content(q) \cup {f}
<1>1. q \in Seq(Frames) /\ Len(q) \in Nat /\ DOMAIN q = 1 .. Len(q)
  BY DEF Orderly
<1> DEFINE p == Append(q, f)
<1>2. /\ p \in Seq(Frames) /\ DOMAIN p = 1 .. Len(q) + 1 /\ p[Len(q) + 1] = f
      /\ \A i \in DOMAIN q : p[i] = q[i]
  BY <1>1
<1> HIDE DEF p
<1>3. \A i \in DOMAIN p : i = Len(q) + 1 \/ i \in DOMAIN q
  BY <1>1, <1>2
<1>4. Orderly(p)
  BY <1>1, <1>2, <1>3 DEF Orderly
<1>5. DOMAIN q \subseteq DOMAIN p /\ Len(q) + 1 \in DOMAIN p
  BY <1>1, <1>2
<1>6. Content(p) = Content(q) \cup {f}
  BY <1>2, <1>3, <1>5 DEF Content
<1>7. QED BY <1>4, <1>6 DEF p

\* enqueue()
LEMMA GetsFrame ==
  ASSUME NEW q, Orderly(q), NEW f \in Frames \ {Stop}
  PROVE  Gets(q, Enqueue(q, f), {f})
<1>1. CASE Enqueue(q, f) = Append(q, f)
  BY <1>1, Appended DEF Gets
<1>2. CASE Enqueue(q, f) = <<Stop>>
  BY <1>2, ClosedQueue DEF Gets
<1>3. QED BY <1>1, <1>2 DEF Enqueue, RequestClose

\* What is put into the queue of a socket that is told to close, too.
LEMMA GetsFrameAtEnd ==
  ASSUME NEW q, Orderly(q), NEW f \in Frames \ {Stop}
  PROVE  Gets(q, Enqueue(RequestClose(q), f), {f})
<1> DEFINE stopped == RequestClose(q)
           p == Enqueue(stopped, f)
<1>1. Orderly(stopped) /\ Content(stopped) = {Stop}
  BY ClosedQueue DEF RequestClose
<1> HIDE DEF stopped
<1>2. Gets(stopped, p, {f})
  BY <1>1, GetsFrame
<1> HIDE DEF p
<1>3. Gets(q, p, {f})
  BY <1>1, <1>2 DEF Gets
<1>4. QED BY <1>3 DEF p, stopped

\* The sender takes the first frame: after that there is no end in the queue.
LEMMA Taken ==
  ASSUME NEW q, Orderly(q), q # <<>>
  PROVE  /\ Head(q) \in Frames /\ Head(q) \in Content(q)
         /\ Orderly(Tail(q)) /\ Stop \notin Content(Tail(q))
         /\ Content(q) = Content(Tail(q)) \cup {Head(q)}
         /\ Stop \in Content(q) => Head(q) = Stop
<1>1. /\ q \in Seq(Frames) /\ Len(q) \in Nat \ {0} /\ DOMAIN q = 1 .. Len(q)
      /\ Head(q) = q[1]
  BY DEF Orderly
<1> DEFINE p == Tail(q)
<1>2. /\ p \in Seq(Frames) /\ DOMAIN p = 1 .. Len(q) - 1
      /\ \A i \in DOMAIN p : p[i] = q[i + 1] /\ i + 1 \in DOMAIN q /\ i + 1 # 1
  BY <1>1
<1> HIDE DEF p
<1>3. \A i \in DOMAIN q : i = 1 \/ (i - 1 \in DOMAIN p /\ q[i] = p[i - 1])
  BY <1>1, <1>2
<1>4. 1 \in DOMAIN q
  BY <1>1
<1>5. Content(q) = Content(p) \cup {Head(q)}
  <2>1. ASSUME NEW i \in DOMAIN q
        PROVE  q[i] \in Content(p) \cup {Head(q)}
    BY <1>1, <1>3 DEF Content
  <2>2. ASSUME NEW i \in DOMAIN p
        PROVE  p[i] \in Content(q)
    BY <1>2 DEF Content
  <2>3. Head(q) \in Content(q)
    BY <1>1, <1>4 DEF Content
  <2>4. Content(q) \subseteq Content(p) \cup {Head(q)}
    BY <2>1 DEF Content
  <2>5. Content(p) \subseteq Content(q)
    BY <2>2 DEF Content
  <2>6. QED BY <2>3, <2>4, <2>5
<1>6. Stop \notin Content(p)
  BY <1>2 DEF Content, Orderly
<1>7. Orderly(p)
  BY <1>2, <1>6 DEF Orderly, Content
<1>8. Head(q) \in Frames /\ Head(q) \in Content(q)
  BY <1>1, <1>4 DEF Content
<1>9. QED BY <1>5, <1>6, <1>7, <1>8 DEF p

-----------------------------------------------------------------------------
(* The inductive invariant *)

Notes == {"none", "secret", "missed", "due", "dropped"}

USE DEF Notes

\* The variables the theorems speak of have values of their kinds.
TypeOK ==
  /\ session \in [Connection -> BOOLEAN] /\ access \in [Connection -> BOOLEAN]
  /\ committed \in 0 .. MaxEvents
  /\ listener \in {"up", "lost", "down"} /\ signal \in SUBSET Event
  /\ task \in [Event -> Job \cup {None}]
  /\ sweep \in [todo : SUBSET Connection, answer : Answer \cup {None}] \cup {None}
  /\ phase \in [Connection -> {"new", "ready", "identified", "open", "closed", "gone"}]
  /\ sub \in [Connection -> BOOLEAN]
  /\ queue \in [Connection -> Seq(Frames)]
  /\ sent \in [Connection -> SUBSET Event]
  /\ note \in [Connection -> [Event -> Notes]]

Ordered == \A c \in Connection : Orderly(queue[c])

\* Nobody knows of a change before it is committed.
Future ==
  \A e \in Event : e > committed =>
    /\ e \notin signal /\ task[e] = None
    /\ \A c \in Connection :
         e \notin sent[c] /\ Changed(e) \notin Queued(c) /\ note[c][e] = "none"

\* An answer grants at least what is still so: neither sessions nor access come back.
Covers(a) == (session[a.at] => a.active) /\ (access[a.at] => a.allowed)

\* The answers that are waited for; a task asks after its change was committed and read.
Asked ==
  /\ \A e \in Event : Running(e) /\ ~task[e].read => task[e].todo = {} /\ task[e].answer = None
  /\ \A e \in Event : Running(e) /\ task[e].answer # None =>
       /\ Covers(task[e].answer)
       /\ note[task[e].answer.at][e] = "secret" => ~Granted(task[e].answer)
  /\ sweep # None /\ sweep.answer # None => Covers(sweep.answer)

\* What each kind of note says of its socket now.
Noted ==
  \A c \in Connection, e \in Event :
    /\ note[c][e] = "secret" => ~session[c] \/ ~access[c]
    /\ note[c][e] = "due" => Open(c) /\ (sub[c] \/ ~session[c] \/ ~access[c])

Inv ==
  /\ TypeOK /\ Ordered /\ Future /\ Asked /\ Noted
  /\ NothingAfterAccess /\ NoSilentGap

\* Nothing is there at first.
LEMMA InitInv == Init => Inv
<1> SUFFICES ASSUME Init PROVE Inv
  OBVIOUS
<1> USE SizeAssumption DEF Init, NoNote
<1>1. <<>> \in Seq(Frames) /\ Content(<<>>) = {} /\ Orderly(<<>>)
  BY DEF Content, Orderly
<1>2. TypeOK
  BY <1>1 DEF TypeOK
<1>3. \A c \in Connection : Queued(c) = {} /\ ~Open(c)
  BY DEF Queued, Open
<1>4. Ordered /\ Future /\ Asked /\ Noted /\ NothingAfterAccess
  BY <1>1, <1>3 DEF Ordered, Future, Asked, Running, Noted, NothingAfterAccess
<1>5. NoSilentGap
  BY <1>3 DEF NoSilentGap, Served
<1>6. QED BY <1>2, <1>4, <1>5 DEF Inv

-----------------------------------------------------------------------------
(* Steps that put no change into a queue *)

\* Every queue is left alone, gets a control frame, or ends.
Calm ==
  /\ queue' \in [Connection -> Seq(Frames)]
  /\ \A d \in Connection : Gets(queue[d], queue'[d], {}) \/ Gets(queue[d], queue'[d], {Control})

\* What is put into one queue.
LEMMA Puts ==
  ASSUME Inv, NEW c \in Connection, NEW p, NEW F, Gets(queue[c], p, F), Put(c, p)
  PROVE  /\ queue' \in [Connection -> Seq(Frames)]
         /\ \A d \in Connection : d # c => queue'[d] = queue[d]
         /\ queue'[c] = IF Open(c) THEN p ELSE queue[c]
<1>1. p \in Seq(Frames) /\ queue \in [Connection -> Seq(Frames)]
  BY DEF Gets, Orderly, Inv, TypeOK
<1>2. QED BY <1>1 DEF Put

\* A control frame, or the end, is put into one queue.
LEMMA PutsCalmly ==
  ASSUME Inv, NEW c \in Connection, NEW p, Put(c, p),
         Gets(queue[c], p, {}) \/ Gets(queue[c], p, {Control})
  PROVE  Calm
<1>1. \A d \in Connection : Gets(queue[d], queue[d], {})
  BY GetsNothing DEF Inv, Ordered
<1>2. CASE Gets(queue[c], p, {})
  BY <1>1, <1>2, Puts DEF Calm
<1>3. CASE Gets(queue[c], p, {Control})
  BY <1>1, <1>3, Puts DEF Calm
<1>4. QED BY <1>2, <1>3

\* No queue changes.
LEMMA StillCalm == Inv /\ UNCHANGED queue => Calm
BY GetsNothing DEF Calm, Inv, Ordered, TypeOK

\* What such steps do to the queues.
LEMMA CalmFacts ==
  ASSUME Inv, Calm
  PROVE  /\ Ordered'
         /\ \A d \in Connection, e \in Event : Changed(e) \in Queued(d)' => Changed(e) \in Queued(d)
         /\ \A d \in Connection : Stop \notin Queued(d)' =>
              Stop \notin Queued(d) /\ Queued(d) \subseteq Queued(d)'
<1>1. \A d \in Connection : Queued(d) = Content(queue[d]) /\ Queued(d)' = Content(queue'[d])
  BY DEF Queued, Content
<1>2. ASSUME NEW d \in Connection
      PROVE  /\ Orderly(queue'[d])
             /\ Queued(d)' \subseteq Queued(d) \cup {Control, Stop}
             /\ Stop \notin Queued(d)' => Stop \notin Queued(d) /\ Queued(d) \subseteq Queued(d)'
  BY <1>1 DEF Calm, Gets
<1>3. QED BY <1>2, Kinds DEF Ordered

\* A calm step that ends subscriptions only of those who may not read any more.
LEMMA CalmInv ==
  ASSUME Inv, Calm, UNCHANGED <<database, listener, signal, task, phase, sent, note>>,
         sweep' \in [todo : SUBSET Connection, answer : Answer \cup {None}] \cup {None},
         sweep' # None /\ sweep'.answer # None => Covers(sweep'.answer),
         sub' \in [Connection -> BOOLEAN],
         \A d \in Connection : sub[d] /\ ~sub'[d] => ~session[d] \/ ~access[d]
  PROVE  Inv'
<1> USE DEF Inv, database
<1>1. TypeOK'
  BY DEF TypeOK, Calm
<1>2. /\ Ordered'
      /\ \A d \in Connection, e \in Event : Changed(e) \in Queued(d)' => Changed(e) \in Queued(d)
      /\ \A d \in Connection : Stop \notin Queued(d)' =>
           Stop \notin Queued(d) /\ Queued(d) \subseteq Queued(d)'
  BY CalmFacts
<1>3. Future' /\ NothingAfterAccess'
  BY <1>2 DEF Future, NothingAfterAccess
<1>4. Asked'
  BY DEF Asked, Covers, Running, Granted
<1>5. Noted'
  BY DEF Noted, Open, TypeOK
<1>6. ASSUME NEW d \in Connection, NEW e \in Event, listener' # "lost", Served(d)',
             note'[d][e] = "due"
      PROVE  Arrives(d, e)'
  <2>1. Served(d)
    BY <1>2, <1>6 DEF Served, Noted, Open, Closing, TypeOK
  <2>2. Arrives(d, e)
    BY <1>6, <2>1 DEF NoSilentGap
  <2>3. Stop \notin Queued(d)'
    BY <1>6 DEF Served, Closing
  <2>4. QED BY <1>2, <2>2, <2>3 DEF Arrives, Owed, Running
<1>7. QED BY <1>1, <1>2, <1>3, <1>4, <1>5, <1>6 DEF NoSilentGap

\* A refused socket: its subscription ends, or it is told to close.
LEMMA Refused ==
  ASSUME Inv, NEW a \in Answer, Covers(a), ~Granted(a), Refuse(a)
  PROVE  /\ Calm /\ sub' \in [Connection -> BOOLEAN]
         /\ \A d \in Connection : sub[d] /\ ~sub'[d] => ~session[d] \/ ~access[d]
<1>1. a.at \in Connection /\ Orderly(queue[a.at]) /\ sub \in [Connection -> BOOLEAN]
  BY DEF Answer, Inv, Ordered, TypeOK
<1>2. CASE ~a.active
  <2>1. Put(a.at, RequestClose(queue[a.at])) /\ UNCHANGED sub
    BY <1>2 DEF Refuse
  <2>2. QED BY <1>1, <2>1, GetsEnd, PutsCalmly
<1>3. CASE a.active
  <2>1. sub' = [sub EXCEPT ![a.at] = FALSE] /\ Put(a.at, Enqueue(queue[a.at], Control))
    BY <1>3 DEF Refuse
  <2>2. Gets(queue[a.at], Enqueue(queue[a.at], Control), {Control})
    BY <1>1, GetsFrame, Kinds DEF Frames
  <2>3. ~access[a.at]
    BY <1>3 DEF Granted, Covers
  <2>4. Calm
    BY <1>1, <2>1, <2>2, PutsCalmly
  <2>5. QED BY <1>1, <2>1, <2>3, <2>4
<1>4. QED BY <1>1, <1>2, <1>3 DEF Answer

\* The sweeper, its end included.
LEMMA SweeperInv ==
  ASSUME Inv, Sweeper \/ SweepFail
  PROVE  Inv'
<1>1. CASE SweepBegin
  BY <1>1, StillCalm, CalmInv DEF SweepBegin, socket, Registered, Inv, TypeOK
<1>2. ASSUME NEW c \in Connection, SweepAsk(c)
      PROVE  Inv'
  <2>1. /\ Authorization(c) \in Answer /\ Covers(Authorization(c))
        /\ SessionOnly(c) \in Answer /\ Covers(SessionOnly(c))
    BY DEF Authorization, SessionOnly, Covers, Answer, Inv, TypeOK
  <2>2. QED BY <1>2, <2>1, StillCalm, CalmInv DEF SweepAsk, socket, Inv, TypeOK
<1>3. CASE SweepOne
  <2>1. /\ sweep.answer \in Answer /\ Covers(sweep.answer)
        /\ sweep' \in [todo : SUBSET Connection, answer : Answer \cup {None}] \cup {None}
        /\ sweep' # None => sweep'.answer = None
    BY <1>3 DEF SweepOne, Inv, TypeOK, Asked
  <2>2. CASE Granted(sweep.answer)
    BY <1>3, <2>1, <2>2, StillCalm, CalmInv DEF SweepOne, Sweep, Inv, TypeOK
  <2>3. CASE ~Granted(sweep.answer)
    <3>1. Refuse(sweep.answer)
      BY <1>3, <2>3 DEF SweepOne, Sweep
    <3>2. /\ Calm /\ sub' \in [Connection -> BOOLEAN]
          /\ \A d \in Connection : sub[d] /\ ~sub'[d] => ~session[d] \/ ~access[d]
      BY <2>1, <2>3, <3>1, Refused
    <3>3. QED BY <1>3, <2>1, <3>2, CalmInv DEF SweepOne
  <2>4. QED BY <2>2, <2>3
<1>4. CASE SweepFail
  <2>1. Ended.answer = None /\ Ended \in [todo : SUBSET Connection, answer : Answer \cup {None}]
    BY DEF Ended
  <2>2. QED BY <1>4, <2>1, StillCalm, CalmInv DEF SweepFail, socket, Inv, TypeOK
<1>5. QED BY <1>1, <1>2, <1>3, <1>4 DEF Sweeper

-----------------------------------------------------------------------------
(* The rest of Klack, and the listener *)

\* A change that is committed is new to everybody.
LEMMA CommitInv ==
  ASSUME Inv, Commit
  PROVE  Inv'
<1> DEFINE n == committed + 1
<1> USE SizeAssumption DEF Inv
<1>1. /\ n \in Event /\ committed' = n /\ committed \in Nat
      /\ signal' = IF listener = "up" THEN signal \cup {n} ELSE signal
      /\ UNCHANGED <<session, access, listener, task, sweep, phase, sub, queue, sent>>
  BY DEF Commit, TypeOK, Event, socket
<1>2. ASSUME NEW c \in Connection
      PROVE  /\ note'[c] \in [Event -> Notes]
             /\ \A e \in Event : e # n => note'[c][e] = note[c][e]
             /\ note'[c][n] = "secret" => ~session[c] \/ ~access[c]
             /\ note'[c][n] = "due" => Open(c) /\ sub[c] /\ listener # "down"
  <2> DEFINE new == IF phase[c] = "gone" THEN "none"
                    ELSE IF ~session[c] \/ ~access[c] THEN "secret"
                    ELSE IF ~Open(c) \/ ~sub[c] \/ Closing(c) THEN "none"
                    ELSE IF listener = "down" THEN "missed" ELSE "due"
  <2>1. /\ new \in Notes
        /\ new = "secret" => ~session[c] \/ ~access[c]
        /\ new = "due" => Open(c) /\ sub[c] /\ listener # "down"
    OBVIOUS
  <2>2. note'[c] = [note[c] EXCEPT ![committed'] = new]
    BY DEF Commit
  <2> HIDE DEF new
  <2>3. note'[c] = [note[c] EXCEPT ![n] = new] /\ note[c] \in [Event -> Notes]
    BY <1>1, <2>2 DEF TypeOK
  <2>4. QED BY <1>1, <2>1, <2>3
<1>3. note' \in [Connection -> [Event -> Notes]]
  <2>1. DOMAIN note' = Connection /\ note' = [c \in Connection |-> note'[c]]
    BY DEF Commit
  <2>2. QED BY <1>2, <2>1
<1>4. /\ task[n] = None /\ n \notin signal
      /\ \A c \in Connection : n \notin sent[c] /\ Changed(n) \notin Queued(c)
  BY <1>1 DEF Future
<1>5. \A c \in Connection : Queued(c)' = Queued(c)
  BY <1>1 DEF Queued
<1> HIDE DEF n
<1>6. TypeOK'
  BY <1>1, <1>3 DEF TypeOK, Event
<1>7. Ordered' /\ NothingAfterAccess'
  BY <1>1, <1>2, <1>4, <1>5 DEF Ordered, NothingAfterAccess
<1>8. Future'
  <2>1. \A e \in Event : e > n => e > committed /\ e # n
    BY <1>1 DEF Event, n
  <2>2. QED BY <1>1, <1>2, <1>5, <2>1 DEF Future
<1>9. Asked' /\ Noted'
  <2>1. Noted'
    BY <1>1, <1>2 DEF Noted, Open
  <2>2. \A e \in Event : Running(e) /\ task[e].answer # None => e # n /\ task[e].answer.at \in Connection
    BY <1>4 DEF Running, TypeOK, Job, Answer
  <2>3. Asked'
    BY <1>1, <1>2, <2>2 DEF Asked, Running, Covers, Granted
  <2>4. QED BY <2>1, <2>3
<1>10. ASSUME NEW c \in Connection, NEW e \in Event, listener' # "lost", Served(c)',
              note'[c][e] = "due"
       PROVE  Arrives(c, e)'
  <2>1. CASE e = n
    <3>1. listener = "up"
      BY <1>1, <1>2, <1>10, <2>1 DEF TypeOK
    <3>2. QED BY <1>1, <2>1, <3>1 DEF Arrives, Owed
  <2>2. CASE e # n
    <3>1. Served(c) /\ Arrives(c, e)
      BY <1>1, <1>2, <1>5, <1>10, <2>2 DEF NoSilentGap, Served, Open, Closing
    <3>2. QED BY <1>1, <1>5, <3>1 DEF Arrives, Owed, Running
  <2>3. QED BY <2>1, <2>2
<1>11. QED BY <1>6, <1>7, <1>8, <1>9, <1>10 DEF NoSilentGap

\* Sessions and access end, and never come back.
LEMMA EndsInv ==
  ASSUME Inv, NEW c \in Connection, EndSession(c) \/ EndAccess(c)
  PROVE  Inv'
<1> USE DEF Inv
<1>1. /\ UNCHANGED <<committed, listener, signal, task, sweep, socket, note>>
      /\ session' \in [Connection -> BOOLEAN] /\ access' \in [Connection -> BOOLEAN]
      /\ \A d \in Connection : (session'[d] => session[d]) /\ (access'[d] => access[d])
  BY DEF EndSession, EndAccess, TypeOK
<1>2. \A d \in Connection : Queued(d)' = Queued(d)
  BY <1>1 DEF Queued, socket
<1>3. TypeOK' /\ Ordered' /\ Future' /\ Noted' /\ NothingAfterAccess'
  BY <1>1, <1>2 DEF socket, TypeOK, Ordered, Future, Noted, Open, NothingAfterAccess
<1>4. Asked'
  <2>1. /\ \A e \in Event : Running(e) /\ task[e].answer # None => task[e].answer \in Answer
        /\ sweep # None /\ sweep.answer # None => sweep.answer \in Answer
    BY DEF Running, TypeOK, Job
  <2>2. \A a \in Answer : Covers(a) => Covers(a)'
    BY <1>1 DEF Covers, Answer
  <2>3. QED BY <1>1, <2>1, <2>2 DEF Asked, Running, Granted
<1>5. NoSilentGap'
  BY <1>1, <1>2 DEF NoSilentGap, Served, Open, Closing, Arrives, Owed, Running, socket
<1>6. QED BY <1>3, <1>4, <1>5

\* The listener comes, breaks, and closes every socket when that is noticed.
LEMMA ListenerInv ==
  ASSUME Inv, Listen \/ Lose \/ Notice
  PROVE  Inv'
<1> USE DEF Inv
<1>1. CASE Listen \/ Lose
  <2>1. /\ UNCHANGED <<database, task, sweep, socket, note>>
        /\ \/ listener = "down" /\ listener' = "up" /\ signal' = signal
           \/ listener' = "lost" /\ signal' = {}
    BY <1>1 DEF Listen, Lose
  <2>2. \A d \in Connection : Queued(d)' = Queued(d)
    BY <2>1 DEF Queued, socket
  <2>3. TypeOK' /\ Ordered' /\ Future' /\ Noted' /\ NothingAfterAccess' /\ Asked'
    BY <2>1, <2>2 DEF socket, database, TypeOK, Ordered, Future, Noted, Open,
                      NothingAfterAccess, Asked, Covers, Running, Granted
  <2>4. NoSilentGap'
    BY <2>1, <2>2 DEF NoSilentGap, Served, Open, Closing, Arrives, Owed, Running,
                      socket, database
  <2>5. QED BY <2>3, <2>4
<1>2. CASE Notice
  <2>1. /\ UNCHANGED <<database, signal, task, sweep, phase, sub, sent, note>>
        /\ listener' = "down" /\ queue' = CloseAll
    BY <1>2 DEF Notice
  <2>2. \A d \in Connection : queue'[d] = IF phase[d] = "open" THEN RequestClose(queue[d]) ELSE queue[d]
    BY <2>1 DEF CloseAll
  <2>3. \A d \in Connection : Gets(queue[d], queue'[d], {})
    BY <2>2, GetsEnd, GetsNothing DEF Ordered
  <2>4. queue' \in [Connection -> Seq(Frames)]
    <3>1. \A d \in Connection : queue'[d] \in Seq(Frames)
      BY <2>3 DEF Gets, Orderly
    <3>2. queue' = [d \in Connection |-> queue'[d]]
      BY <2>1 DEF CloseAll
    <3>3. QED BY <3>1, <3>2
  <2>5. Calm
    BY <2>3, <2>4 DEF Calm
  <2>6. /\ Ordered'
        /\ \A d \in Connection, e \in Event : Changed(e) \in Queued(d)' => Changed(e) \in Queued(d)
    BY <2>5, CalmFacts
  <2>7. \A d \in Connection : ~Served(d)'
    <3>1. ASSUME NEW d \in Connection, phase[d] = "open" PROVE Stop \in Queued(d)'
      BY <2>2, <3>1, ClosedQueue DEF Queued, Content, RequestClose
    <3>2. QED BY <2>1, <3>1 DEF Served, Open, Closing
  <2>8. TypeOK'
    BY <2>1, <2>4 DEF TypeOK, database
  <2>9. Future' /\ Noted' /\ NothingAfterAccess' /\ Asked'
    BY <2>1, <2>6 DEF database, Future, Noted, Open, NothingAfterAccess, Asked, Covers,
                      Running, Granted
  <2>10. QED BY <2>6, <2>7, <2>8, <2>9 DEF NoSilentGap
<1>3. QED BY <1>1, <1>2

-----------------------------------------------------------------------------
(* Delivery *)

\* A task that goes on or ends.
LEMMA LeftIsJob ==
  ASSUME NEW todo \in SUBSET Connection
  PROVE  /\ Left(todo) \in Job \cup {None}
         /\ Left(todo) # None => Left(todo).answer = None /\ Left(todo).read
         /\ todo # {} => Left(todo) # None /\ Left(todo).read /\ Left(todo).todo = todo
<1>1. [todo |-> todo, answer |-> None, read |-> TRUE] \in Job
  BY DEF Job
<1>2. QED BY <1>1, NoneAssumption DEF Left

\* A task that takes a step while queues, sockets and notes are left alone.
LEMMA TaskInv ==
  ASSUME Inv, NEW e \in Event, NEW j \in Job \cup {None},
         UNCHANGED <<database, listener, sweep, socket, note>>,
         task' = [task EXCEPT ![e] = j], signal' \in {signal, signal \ {e}}, e <= committed,
         j # None /\ ~j.read => j.todo = {} /\ j.answer = None,
         j # None /\ j.answer # None =>
           Covers(j.answer) /\ (note[j.answer.at][e] = "secret" => ~Granted(j.answer)),
         \A c \in Connection :
           Served(c) /\ (e \in signal \/ Owed(c, e)) => e \in signal' \/ Owed(c, e)'
  PROVE  Inv'
<1> USE DEF Inv, database, socket
<1>1. task'[e] = j /\ \A f \in Event : f # e => task'[f] = task[f]
  BY DEF TypeOK
<1>2. \A c \in Connection : Queued(c)' = Queued(c) /\ (Served(c)' <=> Served(c))
  BY DEF Queued, Served, Open, Closing
<1>3. TypeOK' /\ Ordered' /\ Noted' /\ NothingAfterAccess'
  BY <1>2 DEF TypeOK, Ordered, Noted, Open, NothingAfterAccess
<1>4. Future'
  <2>1. \A f \in Event : f > committed => f # e
    BY SizeAssumption DEF TypeOK, Event
  <2>2. QED BY <1>1, <1>2, <2>1 DEF Future
<1>5. Asked'
  BY <1>1 DEF Asked, Running, Covers, Granted
<1>6. ASSUME NEW c \in Connection, NEW f \in Event, listener' # "lost", Served(c)',
             note'[c][f] = "due"
      PROVE  Arrives(c, f)'
  <2>1. Served(c) /\ Arrives(c, f)
    BY <1>2, <1>6 DEF NoSilentGap
  <2>2. CASE f # e
    BY <1>1, <1>2, <2>1, <2>2 DEF Arrives, Owed, Running
  <2>3. CASE f = e
    BY <1>2, <2>1, <2>3 DEF Arrives
  <2>4. QED BY <2>2, <2>3
<1>7. QED BY <1>3, <1>4, <1>5, <1>6 DEF NoSilentGap

\* A task that asks.
LEMMA AskedJob ==
  ASSUME NEW old \in Job, NEW c, NEW a
  PROVE  [old EXCEPT !.todo = @ \ {c}, !.answer = a] =
           [todo |-> old.todo \ {c}, answer |-> a, read |-> old.read]
<1> DEFINE half == [old EXCEPT !.todo = @ \ {c}]
<1>1. half \in Job /\ half.todo = old.todo \ {c} /\ half.read = old.read
  BY DEF Job
<1> HIDE DEF half
<1>2. [half EXCEPT !.answer = a] = [todo |-> half.todo, answer |-> a, read |-> half.read]
  BY <1>1 DEF Job
<1>3. [half EXCEPT !.answer = a] = [todo |-> old.todo \ {c}, answer |-> a, read |-> old.read]
  BY <1>1, <1>2
<1>4. QED BY <1>3 DEF half

\* Up to the answer of an authorization.
LEMMA ReadsInv ==
  ASSUME Inv, NEW e \in Event,
         Notification(e) \/ DeliverRead(e) \/ \E c \in Connection : DeliverAsk(e, c)
  PROVE  Inv'
<1> USE DEF Inv
<1>1. e <= committed
  <2>1. e \in signal \/ task[e] # None
    BY DEF Notification, DeliverRead, DeliverAsk, Running
  <2>2. ~(e > committed)
    BY <2>1 DEF Future
  <2>3. QED BY <2>2, SizeAssumption DEF TypeOK, Event
<1>2. CASE Notification(e)
  <2> DEFINE j == [todo |-> {}, answer |-> None, read |-> FALSE]
  <2>1. j \in Job /\ j # None /\ j.answer = None /\ ~j.read /\ j.todo = {}
    <3>1. j \in Job
      BY DEF Job
    <3>2. QED BY <3>1, NoneAssumption
  <2>2. /\ UNCHANGED <<database, listener, sweep, socket, note>>
        /\ task' = [task EXCEPT ![e] = j] /\ signal' = signal \ {e}
    BY <1>2 DEF Notification
  <2> HIDE DEF j
  <2>3. task'[e] = j
    BY <2>2 DEF TypeOK
  <2>4. \A c \in Connection : Owed(c, e)'
    BY <2>1, <2>3 DEF Owed, Running
  <2>5. QED BY <1>1, <2>1, <2>2, <2>4, TaskInv
<1>3. CASE DeliverRead(e)
  <2> DEFINE todo == {c \in Registered : sub[c]}
             j == Left(todo)
  <2>1. todo \in SUBSET Connection /\ \A c \in Connection : Served(c) => c \in todo
    BY DEF Registered, Served
  <2>2. /\ UNCHANGED <<database, listener, signal, sweep, socket, note>>
        /\ task' = [task EXCEPT ![e] = j]
    BY <1>3 DEF DeliverRead
  <2> HIDE DEF todo
  <2>3. /\ j \in Job \cup {None} /\ (j # None => j.answer = None /\ j.read)
        /\ todo # {} => j # None /\ j.read /\ j.todo = todo
    BY <2>1, LeftIsJob
  <2> HIDE DEF j
  <2>4. task'[e] = j
    BY <2>2 DEF TypeOK
  <2>5. \A c \in Connection : Served(c) => Owed(c, e)'
    BY <2>1, <2>3, <2>4 DEF Owed, Running
  <2>6. QED BY <1>1, <2>2, <2>3, <2>5, TaskInv
<1>4. ASSUME NEW c \in Connection, DeliverAsk(e, c)
      PROVE  Inv'
  <2> DEFINE old == task[e]
             a == Authorization(c)
             j == [todo |-> old.todo \ {c}, answer |-> a, read |-> old.read]
  <2>1. old \in Job /\ old # None /\ old.answer = None /\ c \in old.todo /\ old.read
    BY <1>4 DEF DeliverAsk, Running, TypeOK, Asked
  <2>2. a \in Answer /\ a.at = c /\ Covers(a) /\ (Granted(a) => session[c] /\ access[c])
    BY DEF Authorization, Answer, Covers, Granted, TypeOK
  <2>3. task' = [task EXCEPT ![e] = [old EXCEPT !.todo = @ \ {c}, !.answer = a]]
    BY <1>4 DEF DeliverAsk
  <2>4. [old EXCEPT !.todo = @ \ {c}, !.answer = a] = j
    BY <2>1, AskedJob
  <2>5. j \in Job
    BY <2>1, <2>2 DEF Job
  <2>6. j # None /\ a # None
    BY <2>2, <2>5, NoneAssumption
  <2>7. /\ j.answer = a /\ j.read = old.read
        /\ \A d \in Connection : d \in old.todo => d = c \/ d \in j.todo
    OBVIOUS
  <2>8. /\ UNCHANGED <<database, listener, signal, sweep, socket, note>>
        /\ task' = [task EXCEPT ![e] = j]
    BY <1>4, <2>3, <2>4 DEF DeliverAsk
  <2>9. (note[c][e] = "secret" => ~Granted(a)) /\ j.read
    BY <2>1, <2>2 DEF Noted
  <2> HIDE DEF a, j
  <2>10. task'[e] = j
    BY <2>8 DEF TypeOK
  <2>11. \A d \in Connection : Owed(d, e) => Owed(d, e)'
    BY <2>1, <2>2, <2>6, <2>7, <2>8, <2>10 DEF Owed, Running
  <2>12. QED BY <1>1, <2>2, <2>5, <2>6, <2>7, <2>8, <2>9, <2>11, TaskInv
<1>5. QED BY <1>2, <1>3, <1>4

\* What the delivery of change e to socket a.at does to queues and subscriptions.
LEMMA Delivered ==
  ASSUME Inv, NEW e \in Event, NEW a \in Answer, Covers(a), Deliver(e, a)
  PROVE  /\ Ordered' /\ queue' \in [Connection -> Seq(Frames)]
         /\ sub' \in [Connection -> BOOLEAN]
         /\ \A d \in Connection : sub[d] /\ ~sub'[d] => ~session[d] \/ ~access[d]
         /\ \A d \in Connection, f \in Event : Changed(f) \in Queued(d)' =>
              Changed(f) \in Queued(d) \/ (f = e /\ d = a.at /\ Granted(a))
         /\ \A d \in Connection : Stop \notin Queued(d)' =>
              /\ Stop \notin Queued(d) /\ Queued(d) \subseteq Queued(d)'
              /\ d = a.at /\ Open(d) /\ Granted(a) => Changed(e) \in Queued(d)'
<1> DEFINE c == a.at
<1>1. c \in Connection
  BY DEF Answer
<1>2. CASE Granted(a)
  <2> DEFINE p == Enqueue(queue[c], Changed(e))
  <2>1. Put(c, p) /\ UNCHANGED sub
    BY <1>2 DEF Deliver
  <2>2. Changed(e) \in Frames \ {Stop} /\ Orderly(queue[c])
    BY <1>1, Kinds DEF Frames, Inv, Ordered
  <2>3. Gets(queue[c], p, {Changed(e)})
    BY <2>2, GetsFrame
  <2> HIDE DEF p
  <2>4. /\ queue' \in [Connection -> Seq(Frames)]
        /\ \A d \in Connection : d # c => queue'[d] = queue[d]
        /\ queue'[c] = IF Open(c) THEN p ELSE queue[c]
    BY <1>1, <2>1, <2>3, Puts
  <2>5. \A d \in Connection : Queued(d) = Content(queue[d]) /\ Queued(d)' = Content(queue'[d])
    BY DEF Queued, Content
  <2>6. \A f \in Event : Changed(f) = Changed(e) => f = e
    BY DEF Changed, Frame
  <2>7. Ordered'
    BY <2>3, <2>4 DEF Gets, Inv, Ordered
  <2>8. \A d \in Connection, f \in Event : Changed(f) \in Queued(d)' =>
          Changed(f) \in Queued(d) \/ (f = e /\ d = c)
    BY <2>3, <2>4, <2>5, <2>6, Kinds DEF Gets
  <2>9. \A d \in Connection : Stop \notin Queued(d)' =>
          /\ Stop \notin Queued(d) /\ Queued(d) \subseteq Queued(d)'
          /\ d = c /\ Open(d) => Changed(e) \in Queued(d)'
    BY <2>3, <2>4, <2>5 DEF Gets
  <2>10. QED BY <1>2, <2>1, <2>4, <2>7, <2>8, <2>9 DEF Inv, TypeOK
<1>3. CASE ~Granted(a)
  <2>1. Refuse(a)
    BY <1>3 DEF Deliver
  <2>2. /\ Calm /\ sub' \in [Connection -> BOOLEAN]
        /\ \A d \in Connection : sub[d] /\ ~sub'[d] => ~session[d] \/ ~access[d]
    BY <1>3, <2>1, Refused
  <2>3. /\ Ordered'
        /\ \A d \in Connection, f \in Event : Changed(f) \in Queued(d)' => Changed(f) \in Queued(d)
        /\ \A d \in Connection : Stop \notin Queued(d)' =>
             Stop \notin Queued(d) /\ Queued(d) \subseteq Queued(d)'
    BY <2>2, CalmFacts
  <2>4. QED BY <1>3, <2>2, <2>3 DEF Calm
<1>4. QED BY <1>2, <1>3

\* The answer is used: the change is put into the queue, or the socket is refused.
LEMMA DeliverInv ==
  ASSUME Inv, NEW e \in Event, DeliverOne(e)
  PROVE  Inv'
<1> DEFINE a == task[e].answer
           todo == task[e].todo
           j == Left(todo)
<1> USE DEF Inv
<1>1. /\ task[e] \in Job /\ a \in Answer /\ Covers(a) /\ a.at \in Connection
      /\ note[a.at][e] = "secret" => ~Granted(a)
      /\ todo \in SUBSET Connection
  BY DEF DeliverOne, Running, TypeOK, Job, Asked, Answer
<1>2. /\ UNCHANGED <<database, listener, signal, sweep, phase, sent, note>>
      /\ task' = [task EXCEPT ![e] = j] /\ Deliver(e, a) /\ task[e] # None
  BY DEF DeliverOne, Running
<1>3. /\ j \in Job \cup {None} /\ (j # None => j.answer = None /\ j.read)
      /\ todo # {} => j # None /\ j.read /\ j.todo = todo
  BY <1>1, LeftIsJob
<1> HIDE DEF j
<1>4. task'[e] = j /\ \A f \in Event : f # e => task'[f] = task[f]
  BY <1>2 DEF TypeOK
<1>5. /\ Ordered' /\ queue' \in [Connection -> Seq(Frames)]
      /\ sub' \in [Connection -> BOOLEAN]
      /\ \A d \in Connection : sub[d] /\ ~sub'[d] => ~session[d] \/ ~access[d]
      /\ \A d \in Connection, f \in Event : Changed(f) \in Queued(d)' =>
           Changed(f) \in Queued(d) \/ (f = e /\ d = a.at /\ Granted(a))
      /\ \A d \in Connection : Stop \notin Queued(d)' =>
           /\ Stop \notin Queued(d) /\ Queued(d) \subseteq Queued(d)'
           /\ d = a.at /\ Open(d) /\ Granted(a) => Changed(e) \in Queued(d)'
  BY <1>1, <1>2, Delivered
<1>6. TypeOK'
  BY <1>2, <1>3, <1>5 DEF TypeOK, database
<1>7. NothingAfterAccess'
  BY <1>1, <1>2, <1>5 DEF NothingAfterAccess
<1>8. Future'
  <2>1. \A f \in Event : f > committed => f # e
    BY <1>2 DEF Future
  <2>2. QED BY <1>2, <1>4, <1>5, <2>1 DEF Future, database
<1>9. Asked'
  BY <1>2, <1>3, <1>4 DEF Asked, Running, Covers, Granted, database
<1>10. Noted'
  BY <1>2, <1>5 DEF Noted, Open, database, TypeOK
<1>11. ASSUME NEW d \in Connection, NEW f \in Event, listener' # "lost", Served(d)',
              note'[d][f] = "due"
       PROVE  Arrives(d, f)'
  <2>1. Stop \notin Queued(d)' /\ Stop \notin Queued(d) /\ Queued(d) \subseteq Queued(d)'
    BY <1>5, <1>11 DEF Served, Closing
  <2>2. Served(d) /\ Open(d) /\ session[d] /\ access[d]
    BY <1>2, <1>11, <2>1 DEF Served, Noted, Open, Closing, database, TypeOK
  <2>3. Arrives(d, f)
    BY <1>2, <1>11, <2>2 DEF NoSilentGap
  <2>4. CASE f # e
    BY <1>2, <1>4, <2>1, <2>3, <2>4 DEF Arrives, Owed, Running
  <2>5. CASE f = e /\ d = a.at
    <3>1. Granted(a)
      BY <1>1, <2>2, <2>5 DEF Covers, Granted
    <3>2. QED BY <1>5, <2>1, <2>2, <2>5, <3>1 DEF Arrives
  <2>6. CASE f = e /\ d # a.at
    <3>1. Owed(d, e) => Owed(d, e)'
      <4>1. CASE d \in todo
        BY <1>3, <1>4, <4>1 DEF Owed, Running
      <4>2. CASE ~task[e].read
        BY <4>2 DEF DeliverOne, Asked
      <4>3. QED BY <2>6, <4>1, <4>2 DEF Owed
    <3>2. QED BY <1>2, <2>1, <2>3, <2>6, <3>1 DEF Arrives
  <2>7. QED BY <2>4, <2>5, <2>6
<1>12. QED BY <1>5, <1>6, <1>7, <1>8, <1>9, <1>10, <1>11 DEF NoSilentGap

\* A task that a read ends: what it still owed to sockets is noted as dropped.
LEMMA DeliverFailInv ==
  ASSUME Inv, NEW e \in Event, DeliverFail(e)
  PROVE  Inv'
<1> USE DEF Inv
<1> DEFINE N(c, f) == IF f = e /\ note[c][f] = "due" /\ Owed(c, e) THEN "dropped" ELSE note[c][f]
<1>1. /\ UNCHANGED <<session, access, committed, listener, signal, sweep>>
      /\ UNCHANGED <<phase, sub, queue, sent>>
      /\ task' = [task EXCEPT ![e] = None] /\ task[e] # None
  BY DEF DeliverFail, Running, database, socket
<1>2. ASSUME NEW c \in Connection
      PROVE  note'[c] \in [Event -> Notes] /\ \A f \in Event : note'[c][f] = N(c, f)
  <2>1. note[c] \in [Event -> Notes]
    BY DEF TypeOK
  <2>2. note'[c] = [note[c] EXCEPT ![e] = IF @ = "due" /\ Owed(c, e) THEN "dropped" ELSE @]
    BY DEF DeliverFail
  <2>3. QED BY <2>1, <2>2
<1>3. note' \in [Connection -> [Event -> Notes]]
  <2>1. note' = [c \in Connection |-> note'[c]]
    BY DEF DeliverFail
  <2>2. QED BY <1>2, <2>1
<1>4. \A c \in Connection, f \in Event :
        /\ note'[c][f] = "due" => note[c][f] = "due" /\ (f = e => ~Owed(c, e))
        /\ note'[c][f] = "secret" <=> note[c][f] = "secret"
        /\ note[c][f] = "none" => note'[c][f] = "none"
  BY <1>2
<1> HIDE DEF N
<1>5. task'[e] = None /\ \A f \in Event : f # e => task'[f] = task[f]
  BY <1>1 DEF TypeOK
<1>6. \A c \in Connection : Queued(c)' = Queued(c) /\ (Served(c)' <=> Served(c))
  BY <1>1 DEF Queued, Served, Open, Closing
<1>7. TypeOK' /\ Ordered' /\ NothingAfterAccess'
  BY <1>1, <1>3, <1>4, <1>6 DEF TypeOK, Ordered, NothingAfterAccess
<1>8. Future' /\ Noted'
  BY <1>1, <1>4, <1>5, <1>6 DEF Future, Noted, Open
<1>9. Asked'
  <2>1. \A f \in Event : Running(f) /\ task[f].answer # None => task[f].answer.at \in Connection
    BY DEF Running, TypeOK, Job, Answer
  <2>2. QED BY <1>1, <1>4, <1>5, <2>1 DEF Asked, Running, Covers, Granted
<1>10. ASSUME NEW c \in Connection, NEW f \in Event, listener' # "lost", Served(c)',
              note'[c][f] = "due"
       PROVE  Arrives(c, f)'
  <2>1. Arrives(c, f) /\ (f = e => ~Owed(c, e))
    BY <1>1, <1>4, <1>6, <1>10 DEF NoSilentGap
  <2>2. Owed(c, f) => Owed(c, f)'
    BY <1>5, <2>1 DEF Owed, Running
  <2>3. QED BY <1>1, <1>6, <2>1, <2>2 DEF Arrives
<1>11. QED BY <1>7, <1>8, <1>9, <1>10 DEF NoSilentGap

-----------------------------------------------------------------------------
(* The handlers *)

\* A socket comes, up to its registration; what it may hear begins then.
LEMMA ArrivesInv ==
  ASSUME Inv, NEW c \in Connection, Handshake(c) \/ Identify(c) \/ Register(c)
  PROVE  Inv'
<1> USE DEF Inv
<1>1. /\ UNCHANGED <<database, listener, signal, task, sweep, sub, queue, sent, note>>
      /\ phase[c] \in {"new", "ready", "identified"}
      /\ \E p \in {"ready", "identified", "open", "gone"} : phase' = [phase EXCEPT ![c] = p]
  BY DEF Handshake, Identify, Register, Phase
<1>2. /\ \A d \in Connection : Queued(d)' = Queued(d)
      /\ \A d \in Connection : d # c => phase'[d] = phase[d]
      /\ ~Open(c)
  BY <1>1 DEF Queued, TypeOK, Open
<1>3. TypeOK'
  BY <1>1 DEF TypeOK, database
<1>4. Ordered' /\ Future' /\ NothingAfterAccess' /\ Asked'
  BY <1>1, <1>2 DEF Ordered, Future, NothingAfterAccess, Asked, Covers, Running, Granted,
                    database
<1>5. Noted'
  BY <1>1, <1>2 DEF Noted, Open, database
<1>6. ASSUME NEW d \in Connection, NEW e \in Event, note'[d][e] = "due"
      PROVE  d # c
  BY <1>1, <1>2, <1>6 DEF Noted
<1>7. NoSilentGap'
  BY <1>1, <1>2, <1>6 DEF NoSilentGap, Served, Open, Closing, Arrives, Owed, Running,
                          database
<1>8. QED BY <1>3, <1>4, <1>5, <1>7

\* Greetings, answers to commands and the end of a socket are control frames.
LEMMA CommandsInv ==
  ASSUME Inv, NEW c \in Connection,
         Greet(c) \/ GiveUp(c) \/ SubscribeAsk(c) \/ Subscribe(c)
  PROVE  Inv'
<1> DEFINE q == queue[c]
<1>1. Orderly(q) /\ Control \in Frames \ {Stop}
  BY Kinds DEF Inv, Ordered, Frames
<1>2. /\ Gets(q, Enqueue(q, Control), {Control})
      /\ Gets(q, RequestClose(q), {})
      /\ Gets(q, Enqueue(RequestClose(q), Control), {Control})
  BY <1>1, GetsFrame, GetsEnd, GetsFrameAtEnd
<1>3. /\ UNCHANGED <<database, listener, signal, task, sweep, phase, sent, note>>
      /\ \/ UNCHANGED queue
         \/ Put(c, Enqueue(q, Control))
         \/ Put(c, RequestClose(q))
         \/ Put(c, Enqueue(RequestClose(q), Control))
      /\ sub' = sub \/ sub' = [sub EXCEPT ![c] = TRUE]
  BY DEF Greet, GiveUp, SubscribeAsk, Subscribe
<1> HIDE DEF q
<1>4. Calm
  BY <1>2, <1>3, StillCalm, PutsCalmly DEF q
<1>5. /\ sub' \in [Connection -> BOOLEAN]
      /\ \A d \in Connection : sub[d] => sub'[d]
  BY <1>3 DEF Inv, TypeOK
<1>6. /\ sweep' \in [todo : SUBSET Connection, answer : Answer \cup {None}] \cup {None}
      /\ sweep' # None /\ sweep'.answer # None => Covers(sweep'.answer)
  BY <1>3 DEF Inv, TypeOK, Asked
<1>7. QED BY <1>3, <1>4, <1>5, <1>6, CalmInv

\* Nothing is due to a socket that unsubscribes.
LEMMA UnsubscribeInv ==
  ASSUME Inv, NEW c \in Connection, Unsubscribe(c)
  PROVE  Inv'
<1> USE DEF Inv, database
<1> DEFINE kept == [e \in Event |-> IF note[c][e] = "secret" THEN "secret" ELSE "none"]
<1>1. /\ UNCHANGED <<database, listener, signal, task, sweep, phase, sent>>
      /\ sub' = [sub EXCEPT ![c] = FALSE] /\ note' = [note EXCEPT ![c] = kept]
      /\ Put(c, Enqueue(queue[c], Control))
  BY DEF Unsubscribe
<1>2. /\ kept \in [Event -> Notes]
      /\ \A e \in Event : kept[e] # "due" /\ (kept[e] = "secret" <=> note[c][e] = "secret")
      /\ \A e \in Event : note[c][e] = "none" => kept[e] = "none"
  OBVIOUS
<1> HIDE DEF kept
<1>3. /\ note'[c] = kept /\ \A d \in Connection : d # c => note'[d] = note[d] /\ sub'[d] = sub[d]
      /\ note' \in [Connection -> [Event -> Notes]]
      /\ sub' \in [Connection -> BOOLEAN]
  BY <1>1, <1>2 DEF TypeOK
<1>4. Calm
  <2>1. Gets(queue[c], Enqueue(queue[c], Control), {Control})
    BY GetsFrame, Kinds DEF Ordered, Frames
  <2>2. QED BY <1>1, <2>1, PutsCalmly
<1>5. /\ Ordered'
      /\ \A d \in Connection, e \in Event : Changed(e) \in Queued(d)' => Changed(e) \in Queued(d)
      /\ \A d \in Connection : Stop \notin Queued(d)' =>
           Stop \notin Queued(d) /\ Queued(d) \subseteq Queued(d)'
  BY <1>4, CalmFacts
<1>6. TypeOK'
  BY <1>1, <1>3, <1>4 DEF TypeOK, Calm
<1>7. Future' /\ NothingAfterAccess' /\ Noted'
  BY <1>1, <1>2, <1>3, <1>5 DEF Future, NothingAfterAccess, Noted, Open
<1>8. Asked'
  <2>1. \A e \in Event : Running(e) /\ task[e].answer # None => task[e].answer.at \in Connection
    BY DEF Running, TypeOK, Job, Answer
  <2>2. QED BY <1>1, <1>2, <1>3, <2>1 DEF Asked, Running, Covers, Granted
<1>9. ASSUME NEW d \in Connection, NEW e \in Event, listener' # "lost", Served(d)',
             note'[d][e] = "due"
      PROVE  Arrives(d, e)'
  <2>1. d # c /\ note[d][e] = "due"
    BY <1>2, <1>3, <1>9
  <2>2. Served(d) /\ Queued(d) \subseteq Queued(d)'
    BY <1>1, <1>3, <1>5, <1>9, <2>1 DEF Served, Open, Closing
  <2>3. QED BY <1>1, <1>9, <2>1, <2>2 DEF NoSilentGap, Arrives, Owed, Running
<1>10. QED BY <1>5, <1>6, <1>7, <1>8, <1>9 DEF NoSilentGap

\* The sender takes a frame: what was queued has been sent.
LEMMA SendInv ==
  ASSUME Inv, NEW c \in Connection, Send(c)
  PROVE  Inv'
<1> USE DEF Inv, database
<1> DEFINE f == Head(queue[c])
           p == IF f = Stop THEN "closed" ELSE "open"
<1>1. /\ phase[c] = "open" /\ queue[c] # <<>>
      /\ phase' = [phase EXCEPT ![c] = p]
      /\ sent' = IF f.kind = "changed" THEN [sent EXCEPT ![c] = @ \cup {f.event}] ELSE sent
      /\ queue' = [queue EXCEPT ![c] = Tail(@)]
      /\ UNCHANGED <<database, listener, signal, task, sweep, sub, note>>
  BY DEF Send, Phase
<1>2. /\ f \in Frames /\ f \in Content(queue[c])
      /\ Orderly(Tail(queue[c])) /\ Stop \notin Content(Tail(queue[c]))
      /\ Content(queue[c]) = Content(Tail(queue[c])) \cup {f}
      /\ Stop \in Content(queue[c]) => f = Stop
  BY <1>1, Taken DEF Ordered
<1> HIDE DEF f, p
<1>3. /\ queue'[c] = Tail(queue[c]) /\ \A d \in Connection : d # c => queue'[d] = queue[d]
      /\ queue' \in [Connection -> Seq(Frames)]
      /\ phase'[c] = p /\ \A d \in Connection : d # c => phase'[d] = phase[d]
      /\ phase' \in [Connection -> {"new", "ready", "identified", "open", "closed", "gone"}]
  <2>1. Tail(queue[c]) \in Seq(Frames)
    BY <1>2 DEF Orderly
  <2>2. QED BY <1>1, <2>1 DEF TypeOK, p
<1>4. \A d \in Connection : Queued(d) = Content(queue[d]) /\ Queued(d)' = Content(queue'[d])
  BY DEF Queued, Content
<1>5. f.kind = "changed" => f.event \in Event /\ f = Changed(f.event)
  BY <1>2, Kinds
<1>6. /\ sent' \in [Connection -> SUBSET Event]
      /\ \A d \in Connection, e \in Event :
           /\ e \in sent[d] => e \in sent'[d]
           /\ e \in sent'[d] => e \in sent[d] \/ Changed(e) \in Queued(d)
           /\ Changed(e) \in Queued(d) => Changed(e) \in Queued(d)' \/ e \in sent'[d]
  <2>0. /\ f \in Queued(c)
        /\ \A d \in Connection, e \in Event :
             Changed(e) \in Queued(d) => Changed(e) \in Queued(d)' \/ (d = c /\ Changed(e) = f)
    BY <1>2, <1>3, <1>4
  <2>1. CASE f.kind = "changed"
    <3>1. /\ sent'[c] = sent[c] \cup {f.event} /\ \A d \in Connection : d # c => sent'[d] = sent[d]
          /\ sent' \in [Connection -> SUBSET Event]
      BY <1>1, <1>5, <2>1 DEF TypeOK
    <3>2. \A e \in Event : Changed(e) = f => e = f.event
      BY DEF Changed, Frame
    <3>3. QED BY <1>5, <2>0, <2>1, <3>1, <3>2
  <2>2. CASE f.kind # "changed"
    <3>1. \A e \in Event : Changed(e) # f
      BY <2>2 DEF Changed, Frame
    <3>2. sent' = sent
      BY <1>1, <2>2
    <3>3. QED BY <2>0, <3>1, <3>2 DEF TypeOK
  <2>3. QED BY <2>1, <2>2
<1>7. \A d \in Connection, e \in Event : Changed(e) \in Queued(d)' => Changed(e) \in Queued(d)
  BY <1>2, <1>3, <1>4
<1>8. TypeOK' /\ Ordered'
  BY <1>1, <1>2, <1>3, <1>6 DEF TypeOK, Ordered
<1>9. Future' /\ NothingAfterAccess'
  BY <1>1, <1>6, <1>7 DEF Future, NothingAfterAccess
<1>10. Asked'
  BY <1>1 DEF Asked, Running, Covers, Granted
<1>11. Noted'
  BY <1>1, <1>3 DEF Noted, Open, p
<1>12. ASSUME NEW d \in Connection, NEW e \in Event, listener' # "lost", Served(d)',
              note'[d][e] = "due"
       PROVE  Arrives(d, e)'
  <2>1. Served(d)
    <3>1. CASE d = c
      <4>1. f # Stop
        BY <1>3, <1>12, <3>1 DEF Served, Closing, p
      <4>2. Stop \notin Queued(c) /\ Open(c) /\ phase[c] # "closed"
        BY <1>1, <1>2, <1>4, <4>1 DEF Open
      <4>3. QED BY <1>1, <1>12, <3>1, <4>2 DEF Served, Closing
    <3>2. CASE d # c
      BY <1>1, <1>3, <1>4, <1>12, <3>2 DEF Served, Open, Closing
    <3>3. QED BY <3>1, <3>2
  <2>2. Arrives(d, e)
    BY <1>1, <1>12, <2>1 DEF NoSilentGap
  <2>3. QED BY <1>1, <1>6, <2>2 DEF Arrives, Owed, Running
<1>13. QED BY <1>8, <1>9, <1>10, <1>11, <1>12 DEF NoSilentGap

\* A socket that is gone hears nothing, and nothing is owed to it.
LEMMA DisconnectInv ==
  ASSUME Inv, NEW c \in Connection, Disconnect(c)
  PROVE  Inv'
<1> USE DEF Inv, database
<1>1. /\ phase' = [phase EXCEPT ![c] = "gone"] /\ sub' = [sub EXCEPT ![c] = FALSE]
      /\ queue' = [queue EXCEPT ![c] = <<>>]
      /\ sent' = [sent EXCEPT ![c] = {}] /\ note' = [note EXCEPT ![c] = NoNote]
      /\ UNCHANGED <<database, listener, signal, task, sweep>>
  BY DEF Disconnect, Phase
<1>2. /\ <<>> \in Seq(Frames) /\ Orderly(<<>>) /\ Content(<<>>) = {}
      /\ NoNote \in [Event -> Notes]
      /\ \A e \in Event : NoNote[e] = "none"
  BY DEF Orderly, Content, NoNote
<1> HIDE DEF database
<1>3. TypeOK'
  BY <1>1, <1>2 DEF TypeOK, database
<1>4. /\ queue'[c] = <<>> /\ sent'[c] = {} /\ note'[c] = NoNote /\ phase'[c] = "gone"
      /\ \A d \in Connection : d # c =>
           /\ queue'[d] = queue[d] /\ sent'[d] = sent[d] /\ note'[d] = note[d]
           /\ phase'[d] = phase[d] /\ sub'[d] = sub[d]
  BY <1>1 DEF TypeOK
<1>5. Queued(c)' = {} /\ \A d \in Connection : d # c => Queued(d)' = Queued(d)
  BY <1>2, <1>4 DEF Queued, Content
<1>6. Ordered' /\ Future' /\ NothingAfterAccess' /\ Noted'
  BY <1>1, <1>2, <1>4, <1>5 DEF Ordered, Future, NothingAfterAccess, Noted, Open, database
<1>7. Asked'
  <2>1. \A e \in Event : Running(e) /\ task[e].answer # None => task[e].answer.at \in Connection
    BY DEF Running, TypeOK, Job, Answer
  <2>2. QED BY <1>1, <1>2, <1>4, <2>1 DEF Asked, Running, Covers, Granted, database
<1>8. NoSilentGap'
  BY <1>1, <1>4, <1>5 DEF NoSilentGap, Served, Open, Closing, Arrives, Owed, Running,
                          database
<1>9. QED BY <1>3, <1>6, <1>7, <1>8

-----------------------------------------------------------------------------
(* Every step *)

\* The invariant is kept.
LEMMA StepInv == Inv /\ [Next]_vars => Inv'
<1> SUFFICES ASSUME Inv, [Next]_vars PROVE Inv'
  OBVIOUS
<1>1. CASE Commit
  BY <1>1, CommitInv
<1>2. CASE \E c \in Connection : EndSession(c) \/ EndAccess(c)
  BY <1>2, EndsInv
<1>3. CASE Broker
  <2>1. ASSUME NEW e \in Event,
               \/ Notification(e) \/ DeliverRead(e) \/ DeliverOne(e) \/ DeliverFail(e)
               \/ \E c \in Connection : DeliverAsk(e, c)
        PROVE  Inv'
    BY <2>1, ReadsInv, DeliverInv, DeliverFailInv
  <2>2. QED BY <1>3, <2>1, ListenerInv DEF Broker
<1>4. CASE Sweeper \/ SweepFail
  BY <1>4, SweeperInv
<1>5. ASSUME NEW c \in Connection, Handler(c)
      PROVE  Inv'
  <2>1. \/ Handshake(c) \/ Identify(c) \/ Register(c)
        \/ Greet(c) \/ GiveUp(c) \/ SubscribeAsk(c) \/ Subscribe(c)
        \/ Unsubscribe(c) \/ Send(c) \/ Disconnect(c)
    BY <1>5 DEF Handler
  <2>2. CASE Handshake(c) \/ Identify(c) \/ Register(c)
    BY <2>2, ArrivesInv
  <2>3. CASE Greet(c) \/ GiveUp(c) \/ SubscribeAsk(c) \/ Subscribe(c)
    BY <2>3, CommandsInv
  <2>4. CASE Unsubscribe(c) \/ Send(c) \/ Disconnect(c)
    BY <2>4, UnsubscribeInv, SendInv, DisconnectInv
  <2>5. QED BY <2>1, <2>2, <2>3, <2>4
<1>6. CASE UNCHANGED vars
  <2>1. \A c \in Connection : Queued(c)' = Queued(c)
    BY <1>6 DEF vars, socket, Queued
  <2>2. /\ TypeOK' /\ Ordered' /\ Future' /\ Asked' /\ Noted' /\ NothingAfterAccess'
        /\ NoSilentGap'
    BY <1>6, <2>1 DEF vars, socket, database, Inv, TypeOK, Ordered, Future, Asked, Running,
                      Covers, Granted, Noted, Open, NothingAfterAccess, NoSilentGap, Served,
                      Closing, Arrives, Owed
  <2>3. QED BY <2>2 DEF Inv
<1>7. QED BY <1>1, <1>2, <1>3, <1>4, <1>5, <1>6 DEF Next

\* In every behaviour the queues are in order, answers are no better than what is so, and the
\* notes say what is so.
THEOREM Inductive == Spec => []Inv
<1>1. Init => Inv
  BY InitInv
<1>2. Inv /\ [Next]_vars => Inv'
  BY StepInv
<1>3. QED BY <1>1, <1>2, PTL DEF Spec

-----------------------------------------------------------------------------
(* The theorems *)

\* A change committed after the session or the access of a socket ended is not sent to it.
THEOREM SecretsStay == Spec => []NothingAfterAccess
<1>1. Inv => NothingAfterAccess
  BY DEF Inv
<1>2. QED BY <1>1, Inductive, PTL

\* A socket that stays subscribed gets every change, or is closed, or a database error ended
\* the delivery of that change while it was still owed to this socket.
THEOREM NothingLost == Spec => []NoSilentGap
<1>1. Inv => NoSilentGap
  BY DEF Inv
<1>2. QED BY <1>1, Inductive, PTL

\* A socket that is to be closed is sent nothing more.
THEOREM EndIsFirst == Spec => ClosingIsFinal
<1>1. Inv /\ [Next]_vars => [\A c \in Connection : Closing(c) => sent'[c] \subseteq sent[c]]_vars
  <2> SUFFICES ASSUME Inv, Next, NEW c \in Connection, Closing(c)
               PROVE  sent'[c] \subseteq sent[c]
    OBVIOUS
  <2> USE DEF Inv
  <2>1. ASSUME NEW d \in Connection, Send(d)
        PROVE  sent'[c] \subseteq sent[c]
    <3>1. CASE d = c
      <4>1. Stop \in Content(queue[c])
        BY <2>1, <3>1 DEF Send, Closing, Queued, Content
      <4>2. Head(queue[c]) = Stop
        BY <2>1, <3>1, <4>1, Taken DEF Send, Ordered
      <4>3. Stop.kind # "changed"
        BY DEF Stop, Frame
      <4>4. QED BY <2>1, <3>1, <4>2, <4>3 DEF Send
    <3>2. CASE d # c
      BY <2>1, <3>2 DEF Send, TypeOK
    <3>3. QED BY <3>1, <3>2
  <2>2. ASSUME NEW d \in Connection, Disconnect(d)
        PROVE  sent'[c] \subseteq sent[c]
    BY <2>2 DEF Disconnect, TypeOK
  <2>3. \/ UNCHANGED sent
        \/ \E d \in Connection : Send(d) \/ Disconnect(d)
    <3>1. CASE Commit \/ \E d \in Connection : EndSession(d) \/ EndAccess(d)
      BY <3>1 DEF Commit, EndSession, EndAccess, socket
    <3>2. CASE Broker
      BY <3>2 DEF Broker, Listen, Lose, Notice, Notification, DeliverRead, DeliverOne,
                  DeliverAsk, DeliverFail, socket
    <3>3. CASE Sweeper \/ SweepFail
      BY <3>3 DEF Sweeper, SweepBegin, SweepAsk, SweepOne, SweepFail, socket
    <3>4. CASE \E d \in Connection : Handler(d)
      BY <3>4 DEF Handler, Handshake, Identify, Register, Greet, GiveUp, SubscribeAsk,
                  Subscribe, Unsubscribe
    <3>5. QED BY <3>1, <3>2, <3>3, <3>4 DEF Next
  <2>4. QED BY <2>1, <2>2, <2>3
<1>2. QED BY <1>1, Inductive, PTL DEF Spec, ClosingIsFinal
=============================================================================
