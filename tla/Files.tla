------------------------------- MODULE Files -------------------------------
(***************************************************************************)
(* The files of one uploader in one workspace (modules/files): rows in the *)
(* database, bytes in the object store, and the worker that removes both.  *)
(* Time is what the code compares it with: whether a row is past its       *)
(* expires_at, and whether it is old: an hour for the limit on uploads, a  *)
(* day for the end of its row, which no property tells apart.              *)
(***************************************************************************)
EXTENDS Naturals, FiniteSets

CONSTANTS
  File,     \* reservations and their storage keys
  Channel,  \* conversations of the workspace
  Direct,   \* those that are direct conversations
  Post,     \* messages that carry files
  Worker,   \* processes of the cleanup worker
  Size,     \* sizes of files
  Quota,    \* files_workspace_quota_bytes
  PerHour,  \* files_uploads_per_hour
  None

Status == {"pending", "uploading", "ready", "attached", "deleting", "removed"}
Row == [channel : Channel, size : Size, status : Status, due : BOOLEAN, old : BOOLEAN,
        post : Post \cup {None}]

ASSUME LimitsAssumption == Size \subseteq Nat /\ Quota \in Nat /\ PerHour \in Nat
ASSUME NoneAssumption == None \notin File \cup Row \cup {"sending", "stored"}

VARIABLES
  row,        \* file_uploads
  blob,       \* the keys that have bytes in the store
  access,     \* what the uploader may do in each conversation
  post,       \* the messages that carry files
  reserving,  \* reserve(): the size in the open transaction of each conversation
  upload,     \* upload(): how far the request for each file is
  hold,       \* cleanup(): the claimed rows a worker has yet to deal with
  erased,     \* cleanup(): the one whose bytes it has just deleted
  lately      \* history: what was reserved within the last hour

vars == <<row, blob, access, post, reserving, upload, hold, erased, lately>>

Rows == {f \in File : row[f] # None}
In(statuses) == {f \in Rows : row[f].status \in statuses}

\* What counts against the quota and is neither shared nor removed.
Unshared == In({"pending", "uploading", "ready", "deleting"})

\* What counts against the quota, byte by byte.
Bytes == UNION {{f} \X (1 .. row[f].size) : f \in Rows \ In({"removed"})}
Used == Cardinality(Bytes)

Recent == {f \in Rows : ~row[f].old}

Init ==
  /\ row = [f \in File |-> None]
  /\ blob = {}
  /\ access = [c \in Channel |-> "open"]
  /\ post = [m \in Post |-> None]
  /\ reserving = [c \in Channel |-> None]
  /\ upload = [f \in File |-> None]
  /\ hold = [w \in Worker |-> {}]
  /\ erased = [w \in Worker |-> None]
  /\ lately = {}

-----------------------------------------------------------------------------
(* authorize().  Conversations of a workspace are locked with it; a direct *)
(* conversation is a lock of its own.                                      *)

Free_OneByOne(c) == reserving[c] = None  \* variant: each conversation is a lock of its own

Free(c) ==
  \A d \in Channel : reserving[d] # None => d # c /\ (c \in Direct \/ d \in Direct)

MayRead(c) == access[c] # "gone"
MayWrite(c) == access[c] = "open" /\ Free(c)

-----------------------------------------------------------------------------
(* reserve().                                                              *)

\* Up to its commit: what the transaction reads is what is committed before.
ReserveBegin(c, s) ==
  /\ MayWrite(c)
  /\ Used + s <= Quota
  /\ Cardinality(Recent) < PerHour
  /\ reserving' = [reserving EXCEPT ![c] = s]
  /\ UNCHANGED <<row, blob, access, post, upload, hold, erased, lately>>

Unused(f) == f \notin Rows \cup lately /\ upload[f] = None /\ \A w \in Worker : f \notin hold[w]

ReserveCommit(c, f) ==
  /\ reserving[c] # None /\ Unused(f)
  /\ row' = [row EXCEPT ![f] =
       [channel |-> c, size |-> reserving[c], status |-> "pending", due |-> FALSE,
        old |-> FALSE, post |-> None]]
  /\ reserving' = [reserving EXCEPT ![c] = None]
  /\ lately' = lately \cup {f}
  /\ UNCHANGED <<blob, access, post, upload, hold, erased>>

ReserveAbort(c) ==
  /\ reserving[c] # None
  /\ reserving' = [reserving EXCEPT ![c] = None]
  /\ UNCHANGED <<row, blob, access, post, upload, hold, erased, lately>>

-----------------------------------------------------------------------------
(* upload(): a transaction, the bytes, and a second transaction.           *)

UploadBegin(f) ==
  /\ f \in In({"pending"}) /\ ~row[f].due
  /\ MayWrite(row[f].channel)
  /\ row' = [row EXCEPT ![f].status = "uploading"]
  /\ upload' = [upload EXCEPT ![f] = "sending"]
  /\ UNCHANGED <<blob, access, post, reserving, hold, erased, lately>>

\* The store keeps an object under a new key only.
UploadStored(f) ==
  /\ upload[f] = "sending" /\ f \notin blob
  /\ blob' = blob \cup {f}
  /\ upload' = [upload EXCEPT ![f] = "stored"]
  /\ UNCHANGED <<row, access, post, reserving, hold, erased, lately>>

UploadReady(f) ==
  /\ upload[f] = "stored"
  /\ f \in In({"uploading"}) /\ ~row[f].due
  /\ MayWrite(row[f].channel)
  /\ row' = [row EXCEPT ![f].status = "ready"]
  /\ upload' = [upload EXCEPT ![f] = None]
  /\ UNCHANGED <<blob, access, post, reserving, hold, erased, lately>>

\* Whatever goes wrong: refusals, time-outs, an answer of the store that is lost.
Abandoned(f) ==
  IF f \in In({"uploading"})
  THEN [row EXCEPT ![f].status = "deleting", ![f].due = TRUE]
  ELSE row

UploadAbandoned(f) ==
  /\ upload[f] # None
  /\ row' = Abandoned(f)
  /\ blob' \in {blob} \cup IF upload[f] = "sending" THEN {blob \cup {f}} ELSE {}
  /\ upload' = [upload EXCEPT ![f] = None]
  /\ UNCHANGED <<access, post, reserving, hold, erased, lately>>

\* The process stops, or the clean-up of its failure fails too.
UploadStops(f) ==
  /\ upload[f] # None
  /\ blob' \in {blob} \cup IF upload[f] = "sending" THEN {blob \cup {f}} ELSE {}
  /\ upload' = [upload EXCEPT ![f] = None]
  /\ UNCHANGED <<row, access, post, reserving, hold, erased, lately>>

\* cancel(): not of what is being uploaded, and not of what is shared.
Cancellable_Always == Unshared  \* variant: uploads can be cancelled while they run

Cancellable == In({"pending", "ready", "deleting"})

Cancel(f) ==
  /\ f \in Cancellable /\ row[f].post = None
  /\ MayRead(row[f].channel)
  /\ row' = [row EXCEPT ![f].status = "deleting", ![f].due = TRUE]
  /\ UNCHANGED <<blob, access, post, reserving, upload, hold, erased, lately>>

-----------------------------------------------------------------------------
(* Messages with files: prepare() and attach() in create_message, remove() *)
(* in delete_message.                                                      *)

Attachable(c) == {f \in In({"ready"}) : row[f].channel = c /\ ~row[f].due}

Send(c, m, files) ==
  /\ MayWrite(c)
  /\ post[m] = None
  /\ files # {} /\ files \subseteq Attachable(c)
  /\ post' = [post EXCEPT ![m] = c]
  /\ row' = [f \in File |->
       IF f \in files THEN [row[f] EXCEPT !.status = "attached", !.post = m] ELSE row[f]]
  /\ UNCHANGED <<blob, access, reserving, upload, hold, erased, lately>>

Delete(m) ==
  /\ \E c \in Channel : post[m] = c /\ MayRead(c) /\ Free(c)
  /\ post' = [post EXCEPT ![m] = "deleted"]
  /\ row' = [f \in File |->
       IF f \in In({"attached"}) /\ row[f].post = m
       THEN [row[f] EXCEPT !.status = "deleting", !.due = TRUE]
       ELSE row[f]]
  /\ UNCHANGED <<blob, access, reserving, upload, hold, erased, lately>>

\* readable(), which download() asks before and after it reads the store, and list_files().
Readable ==
  {f \in In({"attached"}) : MayRead(row[f].channel) /\ post[row[f].post] \in Channel}

\* Elsewhere a channel is archived or restored, and the uploader leaves it or comes back.
ChangeAccess(c, a) ==
  /\ c \notin Direct /\ Free(c)
  /\ access[c] # a
  /\ access' = [access EXCEPT ![c] = a]
  /\ UNCHANGED <<row, blob, post, reserving, upload, hold, erased, lately>>

-----------------------------------------------------------------------------
(* cleanup(), every minute and in as many processes as are started.        *)

Cleanable_Finished ==  \* variant: uploads that never ended are forgotten
  {f \in Unshared \ In({"uploading"}) : row[f].due}

Cleanable == {f \in Unshared : row[f].due}

Idle(w) == hold[w] = {}

\* Rows that another transaction has locked are skipped, hence any of them.
Claim(w, files) ==
  /\ Idle(w)
  /\ files # {} /\ files \subseteq Cleanable
  /\ row' = [f \in File |->
       IF f \in files THEN [row[f] EXCEPT !.status = "deleting", !.due = FALSE] ELSE row[f]]
  /\ hold' = [hold EXCEPT ![w] = files]
  /\ UNCHANGED <<blob, access, post, reserving, upload, erased, lately>>

Erase(w, f) ==
  /\ f \in hold[w] /\ erased[w] = None
  /\ blob' = blob \ {f}
  /\ erased' = [erased EXCEPT ![w] = f]
  /\ UNCHANGED <<row, access, post, reserving, upload, hold, lately>>

\* The row of a file may have gone meanwhile: then there is nothing left to mark.
Removed(f) ==
  IF f \in Rows THEN [row EXCEPT ![f].status = "removed", ![f].due = FALSE] ELSE row

Mark(w, f) ==
  /\ erased[w] = f
  /\ row' = Removed(f)
  /\ hold' = [hold EXCEPT ![w] = @ \ {f}]
  /\ erased' = [erased EXCEPT ![w] = None]
  /\ UNCHANGED <<blob, access, post, reserving, upload, lately>>

\* An error of the store, with or without effect, or of the database: on to the next row.
Skip(w, f) ==
  /\ f \in hold[w] /\ erased[w] \in {None, f}
  /\ blob' \in {blob, blob \ {f}}
  /\ hold' = [hold EXCEPT ![w] = @ \ {f}]
  /\ erased' = [erased EXCEPT ![w] = None]
  /\ UNCHANGED <<row, access, post, reserving, upload, lately>>

Stop(w) ==
  /\ ~Idle(w)
  /\ hold' = [hold EXCEPT ![w] = {}]
  /\ erased' = [erased EXCEPT ![w] = None]
  /\ UNCHANGED <<row, blob, access, post, reserving, upload, lately>>

\* The end of cleanup(): what was removed and is a day old is forgotten.
Old == {f \in In({"removed"}) : row[f].old}

Purge(w) ==
  /\ Idle(w) /\ Old # {}
  /\ row' = [f \in File |-> IF f \in Old THEN None ELSE row[f]]
  /\ UNCHANGED <<blob, access, post, reserving, upload, hold, erased, lately>>

-----------------------------------------------------------------------------
(* Time.  A row becomes a day old; drafts expire after a day, uploads after *)
(* an hour, claims after five minutes.  The bytes of an upload are stored  *)
(* or given up well within its hour: two seconds for a slot, 120 for the   *)
(* body, the time limits of the scanner and of the store.                  *)

Grow(f) ==
  /\ f \in Rows /\ ~row[f].old
  /\ upload[f] # "sending"
  /\ row' = [row EXCEPT ![f].old = TRUE]
  /\ lately' = lately \ {f}
  /\ UNCHANGED <<blob, access, post, reserving, upload, hold, erased>>

Elapse(f) ==
  /\ f \in Unshared
  /\ ~row[f].due
  /\ row[f].status # "deleting" => row[f].old
  /\ upload[f] # "sending"
  /\ row' = [row EXCEPT ![f].due = TRUE]
  /\ UNCHANGED <<blob, access, post, reserving, upload, hold, erased, lately>>

-----------------------------------------------------------------------------

UploadEnd(f) == UploadReady(f) \/ UploadAbandoned(f) \/ UploadStops(f)

FileStep(f) ==
  \/ \E c \in Channel : ReserveCommit(c, f)
  \/ UploadBegin(f) \/ UploadStored(f) \/ UploadEnd(f)
  \/ Cancel(f) \/ Grow(f) \/ Elapse(f)

ChannelStep(c) ==
  \/ \E s \in Size : ReserveBegin(c, s)
  \/ ReserveAbort(c)
  \/ \E m \in Post, files \in SUBSET File : Send(c, m, files)
  \/ \E a \in {"open", "archived", "gone"} : ChangeAccess(c, a)

WorkerStep(w) ==
  \/ \E files \in SUBSET File : Claim(w, files)
  \/ \E f \in File : Erase(w, f) \/ Mark(w, f) \/ Skip(w, f)
  \/ Stop(w) \/ Purge(w)

Next ==
  \/ \E f \in File : FileStep(f)
  \/ \E c \in Channel : ChannelStep(c)
  \/ \E m \in Post : Delete(m)
  \/ \E w \in Worker : WorkerStep(w)

Spec == Init /\ [][Next]_vars

\* Requests end, time passes, the worker runs every minute, and neither the store nor the
\* database fails for ever.
Fairness ==
  /\ SF_vars(\E w \in Worker : Claim(w, Cleanable))
  /\ \A f \in File :
       /\ WF_vars(UploadEnd(f)) /\ WF_vars(Grow(f) \/ Elapse(f))
       /\ SF_vars(\E w \in Worker : Erase(w, f))
       /\ SF_vars(\E w \in Worker : Mark(w, f))

FairSpec == Spec /\ Fairness

-----------------------------------------------------------------------------
(* Properties.                                                             *)

\* No bytes without a row that will have them deleted, no file that can be sent or read
\* without its bytes.
StorageMatchesRows ==
  /\ blob \subseteq In({"uploading", "ready", "attached", "deleting"})
  /\ In({"ready"}) \cup Readable \subseteq blob

\* The quota holds for reservations and files that wait for deletion too.
QuotaKept == Used <= Quota

\* Nobody reserves more than PerHour files in an hour, whatever is cancelled and purged.
LimitsKept == QuotaKept /\ Cardinality(lately) <= PerHour

\* A reservation that is not shared loses its bytes and its share of the quota in the end,
\* whatever stops halfway.
AbandonedErased ==
  \A f \in File :
    f \in Unshared ~> f \notin Unshared /\ (f \in blob => f \in In({"attached"}))
=============================================================================
