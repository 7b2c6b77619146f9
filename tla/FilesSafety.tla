---------------------------- MODULE FilesSafety ----------------------------
(* What Files keeps in the store and admits, for any files, sizes,        *)
(* messages and workers.                                                  *)
EXTENDS Files, FiniteSetTheorems, TLAPS

-----------------------------------------------------------------------------
(* The inductive invariant *)

\* The rows, and the uploads and claims under way, have values of their kinds.
TypeOK ==
  /\ row \in [File -> Row \cup {None}]
  /\ reserving \in [Channel -> Size \cup {None}]
  /\ blob \in SUBSET File
  /\ upload \in [File -> {"sending", "stored", None}]
  /\ hold \in [Worker -> SUBSET File]
  /\ erased \in [Worker -> File \cup {None}]

\* The status of a row, and of no row.
St(f) == IF row[f] = None THEN "none" ELSE row[f].status

\* Bytes have a row that says so, and what can be sent or read has its bytes.
Stored(f) ==
  /\ f \in blob => St(f) \in {"uploading", "ready", "attached", "deleting"}
  /\ St(f) \in {"ready", "attached"} => f \in blob

\* While its bytes are on their way, time has not passed over a row; once they are in the
\* store they stay there as long as the row waits for them.
Uploading(f) ==
  /\ upload[f] = "sending" => St(f) = "uploading" /\ ~row[f].due
  /\ upload[f] = "stored" /\ St(f) = "uploading" => f \in blob

\* What a worker has claimed is not used again.
Claimed(f) ==
  \A w \in Worker :
    /\ f \in hold[w] => St(f) \in {"none", "deleting", "removed"}
    /\ erased[w] = f => f \in hold[w] \ blob

Kept(f) == Stored(f) /\ Uploading(f) /\ Claimed(f)

Inv == TypeOK /\ \A f \in File : Kept(f)

-----------------------------------------------------------------------------
(* Rows *)

\* In() in terms of it.
LEMMA Statuses ==
  \A S : "none" \notin S => In(S) = {f \in File : St(f) \in S} /\ In(S)' = {f \in File : St(f)' \in S}
BY DEF In, Rows, St

\* One row is written.
LEMMA Written ==
  ASSUME TypeOK, NEW f \in File, NEW r \in Row, row' = [row EXCEPT ![f] = r]
  PROVE  /\ row' \in [File -> Row \cup {None}]
         /\ row'[f] = r /\ St(f)' = r.status
         /\ \A g \in File : g # f => row'[g] = row[g] /\ St(g)' = St(g)
<1>1. row'[f] = r /\ r # None /\ row' \in [File -> Row \cup {None}]
  BY NoneAssumption DEF TypeOK
<1>2. \A g \in File : g # f => row'[g] = row[g]
  BY DEF TypeOK
<1>3. QED BY <1>1, <1>2 DEF St

\* Status and due date of one row are written.
LEMMA Changed ==
  ASSUME TypeOK, NEW f \in File, row[f] # None, NEW st \in Status, NEW d \in BOOLEAN,
         row' = [row EXCEPT ![f].status = st, ![f].due = d]
  PROVE  /\ row' \in [File -> Row \cup {None}]
         /\ St(f)' = st /\ row'[f].due = d
         /\ row'[f] # None /\ row'[f].size = row[f].size /\ row'[f].old = row[f].old
         /\ \A g \in File : g # f => row'[g] = row[g] /\ St(g)' = St(g)
<1> DEFINE r1 == [row[f] EXCEPT !.status = st]
           r2 == [r1 EXCEPT !.due = d]
           mid == [row EXCEPT ![f] = r1]
<1>1. row[f] \in Row
  BY DEF TypeOK
<1>2. r1 \in Row /\ r1.status = st /\ r1.size = row[f].size /\ r1.old = row[f].old
  BY <1>1 DEF Row
<1> HIDE DEF r1
<1>3. /\ r2 \in Row /\ r2.status = st /\ r2.due = d
      /\ r2.size = row[f].size /\ r2.old = row[f].old
  BY <1>2 DEF Row
<1>4. row' = [mid EXCEPT ![f].due = d]
  BY DEF r1
<1>5. mid[f] = r1 /\ DOMAIN mid = File
  BY DEF TypeOK
<1> HIDE DEF r2
<1>6. row' = [mid EXCEPT ![f] = r2]
  BY <1>4, <1>5 DEF r2
<1>7. row' = [row EXCEPT ![f] = r2]
  BY <1>6 DEF TypeOK
<1>8. row'[f] = r2 /\ r2 # None
  BY <1>3, <1>7, Written, NoneAssumption
<1>9. QED BY <1>3, <1>7, <1>8, Written

\* One field of a row is written.
LEMMA OneField ==
  ASSUME TypeOK, NEW f \in File, row[f] # None, NEW st \in Status,
         \/ row' = [row EXCEPT ![f].status = st]
         \/ row' = [row EXCEPT ![f].due = TRUE] /\ st = St(f)
         \/ row' = [row EXCEPT ![f].old = TRUE] /\ st = St(f)
  PROVE  /\ row' \in [File -> Row \cup {None}] /\ St(f)' = st
         /\ row' = [row EXCEPT ![f].status = st] => row'[f].due = row[f].due
         /\ row'[f] # None /\ row'[f].size = row[f].size
         /\ \/ row' = [row EXCEPT ![f].status = st]
            \/ row' = [row EXCEPT ![f].due = TRUE]
            => row'[f].old = row[f].old
         /\ \A g \in File : g # f => row'[g] = row[g]
<1>1. row[f] \in Row /\ St(f) = row[f].status
  BY DEF TypeOK, St
<1>2. PICK r \in Row :
        /\ r.status = st /\ r.size = row[f].size
        /\ \/ row' = [row EXCEPT ![f].status = st]
           \/ row' = [row EXCEPT ![f].due = TRUE]
           => r.old = row[f].old
        /\ row' = [row EXCEPT ![f] = r]
  <2>1. CASE row' = [row EXCEPT ![f].status = st]
    <3> DEFINE r == [row[f] EXCEPT !.status = st]
    <3>1. /\ r \in Row /\ r.status = st /\ row' = [row EXCEPT ![f] = r]
          /\ r.size = row[f].size /\ r.old = row[f].old
      BY <1>1, <2>1 DEF Row, TypeOK
    <3>2. QED BY <3>1
  <2>2. CASE row' = [row EXCEPT ![f].due = TRUE] /\ st = St(f)
    <3> DEFINE r == [row[f] EXCEPT !.due = TRUE]
    <3>1. /\ r \in Row /\ r.status = st /\ row' = [row EXCEPT ![f] = r]
          /\ r.size = row[f].size /\ r.old = row[f].old
      BY <1>1, <2>2 DEF Row, TypeOK
    <3>2. QED BY <3>1
  <2>3. CASE /\ row' = [row EXCEPT ![f].old = TRUE] /\ st = St(f)
             /\ row' # [row EXCEPT ![f].status = st]
             /\ row' # [row EXCEPT ![f].due = TRUE]
    <3> DEFINE r == [row[f] EXCEPT !.old = TRUE]
    <3>1. /\ r \in Row /\ r.status = st /\ row' = [row EXCEPT ![f] = r]
          /\ r.size = row[f].size
      BY <1>1, <2>3 DEF Row, TypeOK
    <3>2. QED BY <2>3, <3>1
  <2>4. QED BY <2>1, <2>2, <2>3
<1>3. row' = [row EXCEPT ![f].status = st] => row'[f].due = row[f].due
  BY <1>1 DEF TypeOK, Row
<1>4. row'[f] = r /\ r # None
  BY <1>2, Written, NoneAssumption
<1>5. QED BY <1>2, <1>3, <1>4, Written

\* Nothing happens to a file, except that a worker lets go of it.
LEMMA Untouched ==
  ASSUME NEW f \in File, Kept(f),
         row'[f] = row[f], f \in blob' <=> f \in blob, upload'[f] = upload[f],
         \A w \in Worker : /\ f \in hold'[w] => f \in hold[w]
                           /\ erased'[w] = f => erased[w] = f /\ f \in hold'[w]
  PROVE  Kept(f)'
<1>1. St(f)' = St(f)
  BY DEF St
<1>2. QED BY <1>1 DEF Kept, Stored, Uploading, Claimed

\* The same, when workers have nothing to do with it.
LEMMA UntouchedByRequests ==
  ASSUME NEW f \in File, Kept(f), UNCHANGED <<hold, erased>>,
         row'[f] = row[f], f \in blob' <=> f \in blob, upload'[f] = upload[f]
  PROVE  Kept(f)'
BY Untouched DEF Kept, Claimed

\* What has a row is not a file of None.
LEMMA RowTypes ==
  ASSUME TypeOK, NEW f \in File
  PROVE  /\ row[f] # None => row[f] \in Row
         /\ St(f) \in Status \cup {"none"}
         /\ f \in Rows <=> row[f] # None
         /\ f \in Rows <=> St(f) # "none"
<1>1. row[f] # None => row[f] \in Row
  BY DEF TypeOK
<1>2. \A r \in Row : r.status \in Status
  BY DEF Row
<1>3. "none" \notin Status
  BY DEF Status
<1>4. QED BY <1>1, <1>2, <1>3 DEF St, Rows

-----------------------------------------------------------------------------
(* Reservations and uploads *)

LEMMA InitInv == Init => Inv
<1> SUFFICES ASSUME Init PROVE Inv
  OBVIOUS
<1>1. TypeOK
  BY DEF Init, TypeOK
<1>2. ASSUME NEW f \in File PROVE Kept(f)
  BY NoneAssumption DEF Init, Kept, Stored, Uploading, Claimed, St
<1>3. QED BY <1>1, <1>2 DEF Inv

LEMMA ReservingKeeps ==
  ASSUME Inv, NEW c \in Channel,
         (\E s \in Size : ReserveBegin(c, s)) \/ ReserveAbort(c)
  PROVE  Inv'
<1>1. TypeOK'
  BY DEF Inv, TypeOK, ReserveBegin, ReserveAbort
<1>2. ASSUME NEW f \in File PROVE Kept(f)'
  BY UntouchedByRequests DEF Inv, ReserveBegin, ReserveAbort
<1>3. QED BY <1>1, <1>2 DEF Inv

LEMMA ReserveCommitKeeps ==
  ASSUME Inv, NEW c \in Channel, NEW f \in File, ReserveCommit(c, f)
  PROVE  Inv'
<1> DEFINE r == [channel |-> c, size |-> reserving[c], status |-> "pending", due |-> FALSE,
                 old |-> FALSE, post |-> None]
<1>1. reserving[c] \in Size
  BY DEF Inv, TypeOK, ReserveCommit
<1>2. r \in Row /\ r.status = "pending"
  BY <1>1 DEF Row, Status
<1>3. row' = [row EXCEPT ![f] = r]
  BY DEF ReserveCommit
<1> HIDE DEF r
<1>4. /\ row' \in [File -> Row \cup {None}] /\ St(f)' = "pending"
      /\ \A g \in File : g # f => row'[g] = row[g]
  BY <1>2, <1>3, Written DEF Inv
<1>5. TypeOK'
  BY <1>4 DEF Inv, TypeOK, ReserveCommit
<1>6. /\ St(f) = "none" /\ upload[f] = None /\ \A w \in Worker : f \notin hold[w]
  BY RowTypes DEF Inv, ReserveCommit, Unused
<1>7. Kept(f)'
  <2>1. f \notin blob
    BY <1>6 DEF Inv, Kept, Stored
  <2>2. \A w \in Worker : erased[w] # f
    BY <1>6 DEF Inv, Kept, Claimed
  <2>3. UNCHANGED <<blob, upload, hold, erased>>
    BY DEF ReserveCommit
  <2>4. Stored(f)' /\ Uploading(f)' /\ Claimed(f)'
    BY <1>4, <1>6, <2>1, <2>2, <2>3, NoneAssumption DEF Stored, Uploading, Claimed
  <2>5. QED BY <2>4 DEF Kept
<1>8. ASSUME NEW g \in File, g # f PROVE Kept(g)'
  BY <1>4, <1>8, UntouchedByRequests DEF Inv, ReserveCommit
<1>9. QED BY <1>5, <1>7, <1>8 DEF Inv

\* A file whose row has a certain status, and what is known of it then.
LEMMA Found ==
  ASSUME Inv, NEW f \in File, NEW S, "none" \notin S, f \in In(S)
  PROVE  St(f) \in S /\ row[f] # None /\ row[f] \in Row /\ St(f) = row[f].status
BY Statuses, RowTypes DEF Inv, St

LEMMA UploadBeginKeeps ==
  ASSUME Inv, NEW f \in File, UploadBegin(f)
  PROVE  Inv'
<1>1. St(f) = "pending" /\ row[f] # None /\ ~row[f].due
  BY Found DEF UploadBegin
<1>2. row' = [row EXCEPT ![f].status = "uploading"] /\ "uploading" \in Status
  BY DEF UploadBegin, Status
<1>4. /\ row' \in [File -> Row \cup {None}]
      /\ St(f)' = "uploading" /\ ~row'[f].due
      /\ \A g \in File : g # f => row'[g] = row[g]
  BY <1>1, <1>2, OneField DEF Inv
<1>5. upload' = [upload EXCEPT ![f] = "sending"] /\ UNCHANGED <<blob, hold, erased>>
  BY DEF UploadBegin
<1>6. TypeOK'
  BY <1>4 DEF Inv, TypeOK, UploadBegin
<1>7. Kept(f)'
  <2>1. upload'[f] = "sending"
    BY <1>5 DEF Inv, TypeOK
  <2>2. \A w \in Worker : f \notin hold[w] /\ erased[w] # f
    BY <1>1 DEF Inv, Kept, Claimed
  <2>3. QED BY <1>4, <1>5, <2>1, <2>2 DEF Kept, Stored, Uploading, Claimed
<1>8. ASSUME NEW g \in File, g # f PROVE Kept(g)'
  <2>1. upload'[g] = upload[g]
    BY <1>5, <1>8 DEF Inv, TypeOK
  <2>2. QED BY <1>4, <1>5, <1>8, <2>1, UntouchedByRequests DEF Inv
<1>9. QED BY <1>6, <1>7, <1>8 DEF Inv

LEMMA UploadStoredKeeps ==
  ASSUME Inv, NEW f \in File, UploadStored(f)
  PROVE  Inv'
<1>1. /\ upload[f] = "sending" /\ blob' = blob \cup {f}
      /\ upload' = [upload EXCEPT ![f] = "stored"]
      /\ UNCHANGED <<row, hold, erased>>
  BY DEF UploadStored
<1>2. TypeOK'
  BY <1>1 DEF Inv, TypeOK, UploadStored
<1>3. Kept(f)'
  <2>1. St(f) = "uploading" /\ St(f)' = "uploading"
    BY <1>1 DEF Inv, Kept, Uploading, St
  <2>2. \A w \in Worker : f \notin hold[w] /\ erased[w] # f
    BY <2>1 DEF Inv, Kept, Claimed
  <2>3. upload'[f] = "stored"
    BY <1>1 DEF Inv, TypeOK
  <2>4. QED BY <1>1, <2>1, <2>2, <2>3 DEF Kept, Stored, Uploading, Claimed
<1>4. ASSUME NEW g \in File, g # f PROVE Kept(g)'
  <2>1. upload'[g] = upload[g] /\ (g \in blob' <=> g \in blob)
    BY <1>1, <1>4 DEF Inv, TypeOK
  <2>2. QED BY <1>1, <2>1, UntouchedByRequests DEF Inv
<1>5. QED BY <1>2, <1>3, <1>4 DEF Inv

LEMMA UploadReadyKeeps ==
  ASSUME Inv, NEW f \in File, UploadReady(f)
  PROVE  Inv'
<1>1. /\ St(f) = "uploading" /\ row[f] # None /\ upload[f] = "stored"
      /\ row' = [row EXCEPT ![f].status = "ready"] /\ "ready" \in Status
      /\ upload' = [upload EXCEPT ![f] = None]
      /\ UNCHANGED <<blob, hold, erased>>
  BY Found DEF UploadReady, Status
<1>2. /\ row' \in [File -> Row \cup {None}] /\ St(f)' = "ready"
      /\ \A g \in File : g # f => row'[g] = row[g]
  BY <1>1, OneField DEF Inv
<1>3. TypeOK'
  BY <1>1, <1>2 DEF Inv, TypeOK, UploadReady
<1>4. Kept(f)'
  <2>1. f \in blob /\ \A w \in Worker : f \notin hold[w] /\ erased[w] # f
    BY <1>1 DEF Inv, Kept, Uploading, Claimed
  <2>2. upload'[f] = None
    BY <1>1 DEF Inv, TypeOK
  <2>3. QED BY <1>1, <1>2, <2>1, <2>2, NoneAssumption DEF Kept, Stored, Uploading, Claimed
<1>5. ASSUME NEW g \in File, g # f PROVE Kept(g)'
  <2>1. upload'[g] = upload[g]
    BY <1>1, <1>5 DEF Inv, TypeOK
  <2>2. QED BY <1>1, <1>2, <1>5, <2>1, UntouchedByRequests DEF Inv
<1>6. QED BY <1>3, <1>4, <1>5 DEF Inv

\* The bytes of an upload that ends badly are there or not.
LEMMA UploadGone ==
  ASSUME Inv, NEW f \in File, upload[f] # None,
         \/ row' = row
         \/ row' = [row EXCEPT ![f].status = "deleting", ![f].due = TRUE] /\ f \in In({"uploading"}),
         blob' \in {blob} \cup IF upload[f] = "sending" THEN {blob \cup {f}} ELSE {},
         upload' = [upload EXCEPT ![f] = None],
         UNCHANGED <<access, post, reserving, hold, erased, lately>>
  PROVE  Inv'
<1>1. /\ row' \in [File -> Row \cup {None}]
      /\ St(f)' = St(f) \/ (St(f)' = "deleting" /\ St(f) = "uploading")
      /\ \A g \in File : g # f => row'[g] = row[g]
  <2>1. CASE row' = row
    BY <2>1 DEF Inv, TypeOK, St
  <2>2. CASE row' = [row EXCEPT ![f].status = "deleting", ![f].due = TRUE] /\ f \in In({"uploading"})
    <3>1. St(f) = "uploading" /\ row[f] # None
      BY <2>2, Found
    <3>2. "deleting" \in Status
      BY DEF Status
    <3>3. QED BY <2>2, <3>1, <3>2, Changed DEF Inv
  <2>3. QED BY <2>1, <2>2
<1>2. /\ blob' = blob \/ (upload[f] = "sending" /\ blob' = blob \cup {f})
      /\ upload'[f] = None /\ upload' \in [File -> {"sending", "stored", None}]
      /\ \A g \in File : g # f => upload'[g] = upload[g]
  BY DEF Inv, TypeOK
<1>3. TypeOK'
  BY <1>1, <1>2 DEF Inv, TypeOK
<1>4. Kept(f)'
  <2>1. upload[f] = "sending" => St(f) = "uploading"
    BY DEF Inv, Kept, Uploading
  <2>2. Stored(f)'
    BY <1>1, <1>2, <2>1 DEF Inv, Kept, Stored
  <2>3. Claimed(f)'
    BY <1>1, <1>2, <2>1 DEF Inv, Kept, Claimed
  <2>4. Uploading(f)'
    BY <1>2, NoneAssumption DEF Uploading
  <2>5. QED BY <2>2, <2>3, <2>4 DEF Kept
<1>5. ASSUME NEW g \in File, g # f PROVE Kept(g)'
  BY <1>1, <1>2, <1>5, UntouchedByRequests DEF Inv
<1>6. QED BY <1>3, <1>4, <1>5 DEF Inv

LEMMA UploadGoneKeeps ==
  ASSUME Inv, NEW f \in File, UploadAbandoned(f) \/ UploadStops(f)
  PROVE  Inv'
<1>1. CASE UploadStops(f)
  BY <1>1, UploadGone DEF UploadStops
<1>2. CASE UploadAbandoned(f) /\ f \in In({"uploading"})
  BY <1>2, UploadGone DEF UploadAbandoned, Abandoned
<1>3. CASE UploadAbandoned(f) /\ f \notin In({"uploading"})
  BY <1>3, UploadGone DEF UploadAbandoned, Abandoned
<1>4. QED BY <1>1, <1>2, <1>3

LEMMA CancelKeeps ==
  ASSUME Inv, NEW f \in File, Cancel(f)
  PROVE  Inv'
<1>1. /\ St(f) \in {"pending", "ready", "deleting"} /\ row[f] # None
      /\ row' = [row EXCEPT ![f].status = "deleting", ![f].due = TRUE]
      /\ UNCHANGED <<blob, upload, hold, erased>>
  BY Found DEF Cancel, Cancellable
<1>2. "deleting" \in Status
  BY DEF Status
<1>3. /\ row' \in [File -> Row \cup {None}] /\ St(f)' = "deleting"
      /\ \A g \in File : g # f => row'[g] = row[g]
  BY <1>1, <1>2, Changed DEF Inv
<1>4. TypeOK'
  BY <1>3 DEF Inv, TypeOK, Cancel
<1>5. Kept(f)'
  BY <1>1, <1>3 DEF Inv, Kept, Stored, Uploading, Claimed
<1>6. ASSUME NEW g \in File, g # f PROVE Kept(g)'
  BY <1>1, <1>3, <1>6, UntouchedByRequests DEF Inv
<1>7. QED BY <1>4, <1>5, <1>6 DEF Inv

-----------------------------------------------------------------------------
(* Messages and access *)

LEMMA SendKeeps ==
  ASSUME Inv, NEW c \in Channel, NEW m \in Post, NEW files \in SUBSET File, Send(c, m, files)
  PROVE  Inv'
<1>1. /\ files \subseteq In({"ready"})
      /\ row' = [f \in File |->
           IF f \in files THEN [row[f] EXCEPT !.status = "attached", !.post = m] ELSE row[f]]
      /\ UNCHANGED <<blob, reserving, upload, hold, erased>>
  BY DEF Send, Attachable
<1>2. ASSUME NEW f \in files
      PROVE  /\ row[f] \in Row /\ St(f) = "ready"
             /\ row'[f] \in Row /\ St(f)' = "attached"
  <2>1. row[f] \in Row /\ St(f) = "ready"
    <3>1. f \in In({"ready"}) /\ f \in File /\ "none" \notin {"ready"}
      BY <1>1
    <3>2. QED BY <3>1, Found
  <2>2. row'[f] = [row[f] EXCEPT !.status = "attached", !.post = m]
    BY <1>1
  <2>3. row'[f] \in Row /\ row'[f].status = "attached"
    BY <2>1, <2>2 DEF Row, Status
  <2>4. QED BY <2>1, <2>3, NoneAssumption DEF St
<1>3. \A f \in File \ files : row'[f] = row[f]
  BY <1>1
<1>4. row' \in [File -> Row \cup {None}]
  BY <1>1, <1>2, <1>3 DEF Inv, TypeOK
<1>5. TypeOK'
  BY <1>1, <1>4 DEF Inv, TypeOK
<1>6. ASSUME NEW f \in files PROVE Kept(f)'
  BY <1>1, <1>2 DEF Inv, Kept, Stored, Uploading, Claimed
<1>7. ASSUME NEW g \in File \ files PROVE Kept(g)'
  BY <1>1, <1>3, UntouchedByRequests DEF Inv
<1>8. QED BY <1>5, <1>6, <1>7 DEF Inv

LEMMA DeleteKeeps ==
  ASSUME Inv, NEW m \in Post, Delete(m)
  PROVE  Inv'
<1> DEFINE files == {f \in In({"attached"}) : row[f].post = m}
<1>1. /\ files \subseteq In({"attached"}) /\ files \subseteq File
      /\ row' = [f \in File |->
           IF f \in files THEN [row[f] EXCEPT !.status = "deleting", !.due = TRUE] ELSE row[f]]
      /\ UNCHANGED <<blob, reserving, upload, hold, erased>>
  BY DEF Delete, In, Rows
<1> HIDE DEF files
<1>2. ASSUME NEW f \in files
      PROVE  St(f) = "attached" /\ row'[f] \in Row /\ St(f)' = "deleting"
  <2>1. row[f] \in Row /\ St(f) = "attached"
    <3>1. f \in In({"attached"}) /\ f \in File /\ "none" \notin {"attached"}
      BY <1>1
    <3>2. QED BY <3>1, Found
  <2>2. row'[f] = [row[f] EXCEPT !.status = "deleting", !.due = TRUE]
    BY <1>1
  <2>3. row'[f] \in Row /\ row'[f].status = "deleting"
    BY <2>1, <2>2 DEF Row, Status
  <2>4. QED BY <2>1, <2>3, NoneAssumption DEF St
<1>3. \A f \in File \ files : row'[f] = row[f]
  BY <1>1
<1>4. row' \in [File -> Row \cup {None}]
  BY <1>1, <1>2, <1>3 DEF Inv, TypeOK
<1>5. TypeOK'
  BY <1>1, <1>4 DEF Inv, TypeOK
<1>6. ASSUME NEW f \in files PROVE Kept(f)'
  BY <1>1, <1>2 DEF Inv, Kept, Stored, Uploading, Claimed
<1>7. ASSUME NEW g \in File \ files PROVE Kept(g)'
  BY <1>1, <1>3, UntouchedByRequests DEF Inv
<1>8. QED BY <1>5, <1>6, <1>7 DEF Inv

LEMMA ChangeAccessKeeps ==
  ASSUME Inv, NEW c \in Channel, NEW a, ChangeAccess(c, a)
  PROVE  Inv'
<1>1. TypeOK'
  BY DEF Inv, TypeOK, ChangeAccess
<1>2. ASSUME NEW f \in File PROVE Kept(f)'
  BY UntouchedByRequests DEF Inv, ChangeAccess
<1>3. QED BY <1>1, <1>2 DEF Inv

-----------------------------------------------------------------------------
(* The worker *)

LEMMA ClaimKeeps ==
  ASSUME Inv, NEW w \in Worker, NEW files \in SUBSET File, Claim(w, files)
  PROVE  Inv'
<1>1. /\ files \subseteq Cleanable
      /\ row' = [f \in File |->
           IF f \in files THEN [row[f] EXCEPT !.status = "deleting", !.due = FALSE] ELSE row[f]]
      /\ hold' = [hold EXCEPT ![w] = files]
      /\ UNCHANGED <<blob, reserving, upload, erased>>
  BY DEF Claim
<1>2. ASSUME NEW f \in files
      PROVE  /\ St(f) \in {"pending", "uploading", "ready", "deleting"} /\ row[f].due
             /\ row'[f] \in Row /\ St(f)' = "deleting"
  <2>1. /\ row[f] \in Row /\ row[f].due
        /\ St(f) \in {"pending", "uploading", "ready", "deleting"}
    <3>1. /\ f \in In({"pending", "uploading", "ready", "deleting"}) /\ f \in File
          /\ "none" \notin {"pending", "uploading", "ready", "deleting"}
      BY <1>1 DEF Cleanable, Unshared
    <3>2. QED BY <1>1, <3>1, Found DEF Cleanable
  <2>2. row'[f] = [row[f] EXCEPT !.status = "deleting", !.due = FALSE]
    BY <1>1
  <2>3. row'[f] \in Row /\ row'[f].status = "deleting"
    BY <2>1, <2>2 DEF Row, Status
  <2>4. QED BY <2>1, <2>3, NoneAssumption DEF St
<1>3. \A f \in File \ files : row'[f] = row[f]
  BY <1>1
<1>4. /\ row' \in [File -> Row \cup {None}]
      /\ hold' \in [Worker -> SUBSET File] /\ hold'[w] = files
      /\ \A v \in Worker : v # w => hold'[v] = hold[v]
  BY <1>1, <1>2, <1>3 DEF Inv, TypeOK
<1>5. TypeOK'
  BY <1>1, <1>4 DEF Inv, TypeOK
<1>6. \A f \in File : erased[w] # f
  BY DEF Inv, Kept, Claimed, Claim, Idle
<1>7. ASSUME NEW f \in files PROVE Kept(f)'
  <2>1. upload[f] # "sending"
    BY <1>2 DEF Inv, Kept, Uploading
  <2>2. Stored(f)' /\ Uploading(f)'
    BY <1>1, <1>2, <2>1 DEF Inv, Kept, Stored, Uploading
  <2>3. Claimed(f)'
    BY <1>1, <1>2, <1>4, <1>6 DEF Inv, Kept, Claimed
  <2>4. QED BY <2>2, <2>3 DEF Kept
<1>8. ASSUME NEW g \in File \ files PROVE Kept(g)'
  <2>1. \A v \in Worker : /\ g \in hold'[v] => g \in hold[v]
                          /\ erased'[v] = g => erased[v] = g /\ g \in hold'[v]
    BY <1>1, <1>4, <1>6 DEF Inv, Kept, Claimed
  <2>2. QED BY <1>1, <1>3, <2>1, Untouched DEF Inv
<1>9. QED BY <1>5, <1>7, <1>8 DEF Inv

LEMMA EraseKeeps ==
  ASSUME Inv, NEW w \in Worker, NEW f \in File, Erase(w, f)
  PROVE  Inv'
<1>1. /\ f \in hold[w] /\ erased[w] = None
      /\ blob' = blob \ {f} /\ erased' = [erased EXCEPT ![w] = f]
      /\ UNCHANGED <<row, upload, hold>>
  BY DEF Erase
<1>2. /\ erased'[w] = f /\ \A v \in Worker : v # w => erased'[v] = erased[v]
      /\ erased' \in [Worker -> File \cup {None}]
  BY <1>1 DEF Inv, TypeOK
<1>3. TypeOK'
  BY <1>1, <1>2 DEF Inv, TypeOK, Erase
<1>4. St(f) \in {"none", "deleting", "removed"} /\ St(f)' = St(f)
  BY <1>1 DEF Inv, Kept, Claimed, St
<1>5. Kept(f)'
  <2>1. Stored(f)' /\ Uploading(f)'
    BY <1>1, <1>4 DEF Inv, Kept, Stored, Uploading
  <2>2. Claimed(f)'
    BY <1>1, <1>2, <1>4 DEF Inv, Kept, Claimed
  <2>3. QED BY <2>1, <2>2 DEF Kept
<1>6. ASSUME NEW g \in File, g # f PROVE Kept(g)'
  <2>1. \A v \in Worker : /\ g \in hold'[v] => g \in hold[v]
                          /\ erased'[v] = g => erased[v] = g /\ g \in hold'[v]
    BY <1>1, <1>2, <1>6 DEF Inv, Kept, Claimed
  <2>2. row'[g] = row[g] /\ (g \in blob' <=> g \in blob) /\ upload'[g] = upload[g]
    BY <1>1, <1>6
  <2>3. QED BY <2>1, <2>2, Untouched DEF Inv
<1>7. QED BY <1>3, <1>5, <1>6 DEF Inv

\* A worker lets go of a file whose bytes it has deleted, or not.
LEMMA LetGo ==
  ASSUME Inv, NEW w \in Worker, NEW f \in File, f \in hold[w], erased[w] \in {None, f},
         row' \in [File -> Row \cup {None}],
         \/ St(f)' = St(f)
         \/ St(f)' = "removed" /\ f \notin blob',
         \A g \in File : g # f => row'[g] = row[g],
         blob' \in {blob, blob \ {f}},
         hold' = [hold EXCEPT ![w] = hold[w] \ {f}], erased' = [erased EXCEPT ![w] = None],
         UNCHANGED <<reserving, upload>>
  PROVE  Inv'
<1>1. /\ hold'[w] = hold[w] \ {f} /\ erased'[w] = None
      /\ \A v \in Worker : v # w => hold'[v] = hold[v] /\ erased'[v] = erased[v]
      /\ hold' \in [Worker -> SUBSET File] /\ erased' \in [Worker -> File \cup {None}]
  BY DEF Inv, TypeOK
<1>2. TypeOK'
  BY <1>1 DEF Inv, TypeOK
<1>3. St(f) \in {"none", "deleting", "removed"}
  BY DEF Inv, Kept, Claimed
<1>4. St(f)' \in {"none", "deleting", "removed"}
  BY <1>3
<1>5. None # f
  BY NoneAssumption
<1>6. Kept(f)'
  <2>1. Stored(f)'
    BY <1>3 DEF Inv, Kept, Stored
  <2>2. Uploading(f)'
    BY <1>3, <1>4 DEF Inv, Kept, Uploading
  <2>3. Claimed(f)'
    BY <1>1, <1>4, <1>5 DEF Inv, Kept, Claimed
  <2>4. QED BY <2>1, <2>2, <2>3 DEF Kept
<1>7. ASSUME NEW g \in File, g # f PROVE Kept(g)'
  <2>1. \A v \in Worker : /\ g \in hold'[v] => g \in hold[v]
                          /\ erased'[v] = g => erased[v] = g /\ g \in hold'[v]
    BY <1>1, <1>7, NoneAssumption DEF Inv, Kept, Claimed
  <2>2. g \in blob' <=> g \in blob
    BY <1>7
  <2>3. QED BY <1>7, <2>1, <2>2, Untouched DEF Inv
<1>8. QED BY <1>2, <1>6, <1>7 DEF Inv

LEMMA MarkKeeps ==
  ASSUME Inv, NEW w \in Worker, NEW f \in File, Mark(w, f)
  PROVE  Inv'
<1>1. f \in hold[w] /\ f \notin blob /\ erased[w] \in {None, f}
  BY DEF Inv, Kept, Claimed, Mark
<1>2. /\ row' \in [File -> Row \cup {None}]
      /\ St(f)' = St(f) \/ St(f)' = "removed"
      /\ \A g \in File : g # f => row'[g] = row[g]
  <2>1. CASE f \notin Rows
    <3>1. row' = row
      BY <2>1 DEF Mark, Removed
    <3>2. QED BY <3>1 DEF Inv, TypeOK, St
  <2>2. CASE f \in Rows
    <3>1. row' = [row EXCEPT ![f].status = "removed", ![f].due = FALSE] /\ row[f] # None
      BY <2>2 DEF Mark, Removed, Rows
    <3>2. "removed" \in Status
      BY DEF Status
    <3>3. QED BY <3>1, <3>2, Changed DEF Inv
  <2>3. QED BY <2>1, <2>2
<1>3. QED BY <1>1, <1>2, LetGo DEF Mark

LEMMA SkipKeeps ==
  ASSUME Inv, NEW w \in Worker, NEW f \in File, Skip(w, f)
  PROVE  Inv'
<1>1. row' = row /\ row \in [File -> Row \cup {None}] /\ St(f)' = St(f)
  BY DEF Skip, Inv, TypeOK, St
<1>2. QED BY <1>1, LetGo DEF Skip

LEMMA StopKeeps ==
  ASSUME Inv, NEW w \in Worker, Stop(w)
  PROVE  Inv'
<1>1. /\ hold'[w] = {} /\ erased'[w] = None
      /\ \A v \in Worker : v # w => hold'[v] = hold[v] /\ erased'[v] = erased[v]
      /\ hold' \in [Worker -> SUBSET File] /\ erased' \in [Worker -> File \cup {None}]
      /\ UNCHANGED <<row, blob, upload, reserving>>
  BY DEF Stop, Inv, TypeOK
<1>2. TypeOK'
  BY <1>1 DEF Inv, TypeOK
<1>3. ASSUME NEW g \in File PROVE Kept(g)'
  <2>1. \A v \in Worker : /\ g \in hold'[v] => g \in hold[v]
                          /\ erased'[v] = g => erased[v] = g /\ g \in hold'[v]
    BY <1>1, NoneAssumption DEF Inv, Kept, Claimed
  <2>2. QED BY <1>1, <2>1, Untouched DEF Inv
<1>4. QED BY <1>2, <1>3 DEF Inv

LEMMA PurgeKeeps ==
  ASSUME Inv, NEW w \in Worker, Purge(w)
  PROVE  Inv'
<1>1. /\ row' = [f \in File |-> IF f \in Old THEN None ELSE row[f]]
      /\ UNCHANGED <<blob, upload, hold, erased, reserving>>
  BY DEF Purge
<1>2. TypeOK'
  BY <1>1 DEF Inv, TypeOK
<1>3. ASSUME NEW f \in File, f \in Old PROVE Kept(f)'
  <2>1. St(f) = "removed"
    BY <1>3, Found DEF Old
  <2>2. St(f)' = "none"
    BY <1>1, <1>3 DEF St
  <2>3. upload[f] # "sending" /\ f \notin blob
    BY <2>1 DEF Inv, Kept, Stored, Uploading
  <2>4. QED BY <1>1, <2>1, <2>2, <2>3 DEF Inv, Kept, Stored, Uploading, Claimed
<1>4. ASSUME NEW g \in File, g \notin Old PROVE Kept(g)'
  BY <1>1, <1>4, UntouchedByRequests DEF Inv
<1>5. QED BY <1>2, <1>3, <1>4 DEF Inv

-----------------------------------------------------------------------------
(* Time *)

LEMMA TimeKeeps ==
  ASSUME Inv, NEW f \in File, Grow(f) \/ Elapse(f)
  PROVE  Inv'
<1>1. /\ row[f] # None /\ upload[f] # "sending" /\ St(f) \in Status
      /\ row' = [row EXCEPT ![f].old = TRUE] \/ row' = [row EXCEPT ![f].due = TRUE]
      /\ UNCHANGED <<blob, upload, hold, erased, reserving>>
  <2>1. row[f] # None
    BY DEF Grow, Elapse, Unshared, In, Rows
  <2>2. St(f) \in Status
    BY <2>1, RowTypes DEF Inv, St, Row
  <2>3. QED BY <2>1, <2>2 DEF Grow, Elapse
<1>2. /\ row' \in [File -> Row \cup {None}] /\ St(f)' = St(f)
      /\ \A g \in File : g # f => row'[g] = row[g]
  BY <1>1, OneField DEF Inv
<1>3. TypeOK'
  BY <1>1, <1>2 DEF Inv, TypeOK
<1>4. Kept(f)'
  BY <1>1, <1>2 DEF Inv, Kept, Stored, Uploading, Claimed
<1>5. ASSUME NEW g \in File, g # f PROVE Kept(g)'
  BY <1>1, <1>2, <1>5, UntouchedByRequests DEF Inv
<1>6. QED BY <1>3, <1>4, <1>5 DEF Inv

-----------------------------------------------------------------------------
(* The theorems *)

LEMMA StepInv == Inv /\ [Next]_vars => Inv'
<1> SUFFICES ASSUME Inv, [Next]_vars PROVE Inv'
  OBVIOUS
<1>1. ASSUME NEW f \in File, FileStep(f) PROVE Inv'
  BY <1>1, ReserveCommitKeeps, UploadBeginKeeps, UploadStoredKeeps, UploadReadyKeeps,
     UploadGoneKeeps, CancelKeeps, TimeKeeps DEF FileStep, UploadEnd
<1>2. ASSUME NEW c \in Channel, ChannelStep(c) PROVE Inv'
  BY <1>2, ReservingKeeps, SendKeeps, ChangeAccessKeeps DEF ChannelStep
<1>3. ASSUME NEW w \in Worker, WorkerStep(w) PROVE Inv'
  BY <1>3, ClaimKeeps, EraseKeeps, MarkKeeps, SkipKeeps, StopKeeps, PurgeKeeps DEF WorkerStep
<1>4. CASE UNCHANGED vars
  <2>1. TypeOK'
    BY <1>4 DEF Inv, TypeOK, vars
  <2>2. ASSUME NEW f \in File PROVE Kept(f)'
    BY <1>4, UntouchedByRequests DEF Inv, vars
  <2>3. QED BY <2>1, <2>2 DEF Inv
<1>5. QED BY <1>1, <1>2, <1>3, <1>4, DeleteKeeps DEF Next

\* The invariant is inductive.
THEOREM Inductive == Spec => []Inv
<1>1. QED BY InitInv, StepInv, PTL DEF Spec

\* The store holds bytes only for rows that will have them deleted, and holds those of every
\* file that can be sent or read, whatever uploads, messages, workers and failures do.
THEOREM StoreMatchesRows == Spec => []StorageMatchesRows
<1>1. Inv => StorageMatchesRows
  <2> SUFFICES ASSUME Inv PROVE StorageMatchesRows
    OBVIOUS
  <2>1. ASSUME NEW f \in blob PROVE f \in In({"uploading", "ready", "attached", "deleting"})
    <3>1. f \in File /\ St(f) \in {"uploading", "ready", "attached", "deleting"}
      BY DEF Inv, TypeOK, Kept, Stored
    <3>2. f \in Rows /\ St(f) = row[f].status
      BY <3>1 DEF St, Rows
    <3>3. QED BY <3>1, <3>2 DEF In
  <2>2. ASSUME NEW f \in In({"ready"}) \cup In({"attached"}) PROVE f \in blob
    <3>1. f \in File /\ St(f) \in {"ready", "attached"}
      BY DEF In, Rows, St
    <3>2. QED BY <3>1 DEF Inv, Kept, Stored
  <2>3. Readable \subseteq In({"attached"})
    BY DEF Readable
  <2>4. QED BY <2>1, <2>2, <2>3 DEF StorageMatchesRows
<1>2. QED BY Inductive, <1>1, PTL
-----------------------------------------------------------------------------
(* The limits of reserve(), where every conversation is locked with the    *)
(* workspace.                                                              *)

\* A reservation in progress has checked the limits, and nobody else is at it.
Limits ==
  /\ lately = Recent /\ IsFiniteSet(lately) /\ IsFiniteSet(Bytes)
  /\ LimitsKept
  /\ \A c \in Channel : reserving[c] # None =>
       /\ Used + reserving[c] <= Quota /\ Cardinality(lately) < PerHour
       /\ \A d \in Channel : reserving[d] # None => d = c

\* A file is none that was not reserved before, its size is what was reserved, and what is
\* removed is not used again.
Lasts(f) ==
  row'[f] # None =>
    /\ row[f] # None /\ row'[f].size = row[f].size
    /\ row[f].status = "removed" => row'[f].status = "removed"

\* It has the age it had, or there is none and it was old.
SameAge(f) ==
  IF row'[f] = None THEN row[f] = None \/ row[f].old
  ELSE row[f] # None /\ row'[f].old = row[f].old

\* Nothing is reserved.
Lasting ==
  /\ \A f \in File : Lasts(f)
  /\ \/ UNCHANGED lately /\ \A f \in File : SameAge(f)
     \/ \E f \in File : lately' = lately \ {f} /\ row[f] # None /\ row' = [row EXCEPT ![f].old = TRUE]

LEMMA SameLasts == ASSUME NEW f, row'[f] = row[f] PROVE Lasts(f) /\ SameAge(f)
BY DEF Lasts, SameAge

\* A file whose row is written with another status.
LEMMA RewrittenLasts ==
  ASSUME TypeOK, UNCHANGED lately, NEW f \in File, row[f] # None, row'[f] # None,
         row'[f].size = row[f].size, row'[f].old = row[f].old,
         row[f].status = "removed" => row'[f].status = "removed",
         \A g \in File : g # f => row'[g] = row[g]
  PROVE  Lasting
<1>1. Lasts(f) /\ SameAge(f)
  BY DEF Lasts, SameAge
<1>2. QED BY <1>1, SameLasts DEF Lasting

LEMMA ChangedLasts ==
  ASSUME TypeOK, UNCHANGED lately, NEW f \in File, row[f] # None, NEW st \in Status, NEW d \in BOOLEAN,
         row[f].status = "removed" => st = "removed",
         row' = [row EXCEPT ![f].status = st, ![f].due = d]
  PROVE  Lasting
<1>1. /\ St(f)' = st /\ row'[f] # None
      /\ row'[f].size = row[f].size /\ row'[f].old = row[f].old
      /\ \A g \in File : g # f => row'[g] = row[g]
  BY Changed
<1>2. QED BY <1>1, RewrittenLasts DEF St

LEMMA OneFieldLasts ==
  ASSUME TypeOK, UNCHANGED lately, NEW f \in File, row[f] # None, NEW st \in Status,
         \/ row' = [row EXCEPT ![f].status = st] /\ row[f].status # "removed"
         \/ row' = [row EXCEPT ![f].due = TRUE] /\ st = St(f)
  PROVE  Lasting
<1>1. /\ St(f)' = st /\ row'[f] # None
      /\ row'[f].size = row[f].size /\ row'[f].old = row[f].old
      /\ \A g \in File : g # f => row'[g] = row[g]
  BY OneField
<1>2. row[f].status = "removed" => row'[f].status = "removed"
  BY <1>1 DEF St
<1>3. QED BY <1>1, <1>2, RewrittenLasts

\* Several rows are written at once.
LEMMA ManyLast ==
  ASSUME TypeOK, UNCHANGED lately, NEW files \in SUBSET Rows,
         \A f \in files : row[f].status # "removed",
         \A f \in File \ files : row'[f] = row[f],
         \A f \in files : /\ row'[f] \in Row
                          /\ row'[f].size = row[f].size /\ row'[f].old = row[f].old
  PROVE  Lasting
<1>1. ASSUME NEW f \in files PROVE Lasts(f) /\ SameAge(f)
  BY NoneAssumption DEF Lasts, SameAge, Rows
<1>2. QED BY <1>1, SameLasts DEF Lasting

LEMMA RequestsLast ==
  ASSUME Inv, NEW f \in File,
         UploadBegin(f) \/ UploadStored(f) \/ UploadEnd(f) \/ Cancel(f) \/ Elapse(f)
  PROVE  Lasting
<1>1. CASE UNCHANGED row /\ UNCHANGED lately
  BY <1>1, SameLasts DEF Lasting
<1>2. CASE f \in In({"pending", "uploading"}) /\ UNCHANGED lately
           /\ \E st \in {"uploading", "ready"} : row' = [row EXCEPT ![f].status = st]
  <2>1. PICK st \in {"uploading", "ready"} : row' = [row EXCEPT ![f].status = st]
    BY <1>2
  <2>2. st \in Status /\ row[f] # None /\ row[f].status # "removed"
    BY <1>2 DEF In, Rows, Status
  <2>3. QED BY <1>2, <2>1, <2>2, OneFieldLasts DEF Inv
<1>3. CASE f \in Unshared /\ UNCHANGED lately
           /\ row' = [row EXCEPT ![f].status = "deleting", ![f].due = TRUE]
  <2>1. "deleting" \in Status /\ row[f] # None /\ row[f].status # "removed"
    BY <1>3 DEF Unshared, In, Rows, Status
  <2>2. QED BY <1>3, <2>1, ChangedLasts DEF Inv
<1>4. CASE f \in Unshared /\ UNCHANGED lately /\ row' = [row EXCEPT ![f].due = TRUE]
  <2>1. row[f] # None /\ St(f) \in Status
    BY <1>4, RowTypes DEF Inv, Unshared, In, Rows, St, Row
  <2>2. QED BY <1>4, <2>1, OneFieldLasts DEF Inv
<1>5. CASE UploadBegin(f)
  BY <1>2, <1>5 DEF UploadBegin, In
<1>6. CASE UploadStored(f)
  BY <1>1, <1>6 DEF UploadStored
<1>7. CASE UploadReady(f)
  BY <1>2, <1>7 DEF UploadReady, In
<1>8. CASE UploadAbandoned(f)
  <2>1. UNCHANGED lately /\ row' = Abandoned(f)
    BY <1>8 DEF UploadAbandoned
  <2>2. CASE f \in In({"uploading"})
    BY <1>3, <2>1, <2>2 DEF Abandoned, In, Unshared
  <2>3. CASE f \notin In({"uploading"})
    BY <1>1, <2>1, <2>3 DEF Abandoned
  <2>4. QED BY <2>2, <2>3
<1>9. CASE UploadStops(f)
  BY <1>1, <1>9 DEF UploadStops
<1>10. CASE Cancel(f)
  BY <1>3, <1>10 DEF Cancel, Cancellable, In, Unshared
<1>11. CASE Elapse(f)
  BY <1>4, <1>11 DEF Elapse
<1>12. QED BY <1>5, <1>6, <1>7, <1>8, <1>9, <1>10, <1>11 DEF UploadEnd

LEMMA GrowLasts ==
  ASSUME Inv, NEW f \in File, Grow(f)
  PROVE  Lasting
<1>1. /\ row[f] # None /\ St(f) \in Status
      /\ row' = [row EXCEPT ![f].old = TRUE] /\ lately' = lately \ {f}
  BY RowTypes DEF Grow, Inv, Rows
<1>2. /\ St(f)' = St(f) /\ row'[f] # None /\ row'[f].size = row[f].size
      /\ \A g \in File : g # f => row'[g] = row[g]
  BY <1>1, OneField DEF Inv
<1>3. Lasts(f)
  BY <1>1, <1>2 DEF Lasts, St
<1>4. QED BY <1>1, <1>2, <1>3, SameLasts DEF Lasting

LEMMA MessagesLast ==
  ASSUME Inv, NEW m \in Post, Delete(m) \/ \E c \in Channel, files \in SUBSET File : Send(c, m, files)
  PROVE  Lasting
<1>1. CASE Delete(m)
  <2> DEFINE files == {f \in In({"attached"}) : row[f].post = m}
  <2>1. /\ UNCHANGED lately
        /\ row' = [f \in File |->
             IF f \in files THEN [row[f] EXCEPT !.status = "deleting", !.due = TRUE] ELSE row[f]]
    BY <1>1 DEF Delete
  <2>2. files \in SUBSET Rows /\ \A f \in files : row[f].status = "attached"
    BY DEF In
  <2>3. \A f \in files : row[f] \in Row
    BY <2>2 DEF Inv, TypeOK, Rows
  <2> HIDE DEF files
  <2>4. ASSUME NEW f \in files
        PROVE  row'[f] \in Row /\ row'[f].size = row[f].size /\ row'[f].old = row[f].old
    <3>1. row'[f] = [row[f] EXCEPT !.status = "deleting", !.due = TRUE]
      BY <2>1, <2>2, <2>4 DEF Rows
    <3>2. QED BY <2>3, <2>4, <3>1 DEF Row, Status
  <2>5. \A f \in File \ files : row'[f] = row[f]
    BY <2>1
  <2>6. QED BY <2>1, <2>2, <2>4, <2>5, ManyLast DEF Inv
<1>2. ASSUME NEW c \in Channel, NEW files \in SUBSET File, Send(c, m, files) PROVE Lasting
  <2>1. /\ UNCHANGED lately /\ files \subseteq Attachable(c)
        /\ row' = [f \in File |->
             IF f \in files THEN [row[f] EXCEPT !.status = "attached", !.post = m] ELSE row[f]]
    BY <1>2 DEF Send
  <2>2. files \in SUBSET Rows /\ \A f \in files : row[f].status = "ready"
    BY <2>1 DEF Attachable, In
  <2>3. \A f \in files : row[f] \in Row
    BY <2>2 DEF Inv, TypeOK, Rows
  <2>4. ASSUME NEW f \in files
        PROVE  row'[f] \in Row /\ row'[f].size = row[f].size /\ row'[f].old = row[f].old
    <3>1. row'[f] = [row[f] EXCEPT !.status = "attached", !.post = m]
      BY <2>1, <2>2, <2>4 DEF Rows
    <3>2. QED BY <2>3, <2>4, <3>1 DEF Row, Status
  <2>5. \A f \in File \ files : row'[f] = row[f]
    BY <2>1
  <2>6. QED BY <2>1, <2>2, <2>4, <2>5, ManyLast DEF Inv
<1>3. QED BY <1>1, <1>2

LEMMA WorkersLast ==
  ASSUME Inv, NEW w \in Worker, WorkerStep(w)
  PROVE  Lasting
<1>1. ASSUME NEW files \in SUBSET File, Claim(w, files) PROVE Lasting
  <2>1. /\ UNCHANGED lately /\ files \subseteq Cleanable
        /\ row' = [f \in File |->
             IF f \in files THEN [row[f] EXCEPT !.status = "deleting", !.due = FALSE] ELSE row[f]]
    BY <1>1 DEF Claim
  <2>2. files \in SUBSET Rows /\ \A f \in files : row[f].status # "removed"
    BY <2>1 DEF Cleanable, Unshared, In
  <2>3. \A f \in files : row[f] \in Row
    BY <2>2 DEF Inv, TypeOK, Rows
  <2>4. ASSUME NEW f \in files
        PROVE  row'[f] \in Row /\ row'[f].size = row[f].size /\ row'[f].old = row[f].old
    <3>1. row'[f] = [row[f] EXCEPT !.status = "deleting", !.due = FALSE]
      BY <2>1, <2>2, <2>4 DEF Rows
    <3>2. QED BY <2>3, <2>4, <3>1 DEF Row, Status
  <2>5. \A f \in File \ files : row'[f] = row[f]
    BY <2>1
  <2>6. QED BY <2>1, <2>2, <2>4, <2>5, ManyLast DEF Inv
<1>2. ASSUME NEW f \in File, Mark(w, f) PROVE Lasting
  <2>1. UNCHANGED lately /\ row' = Removed(f)
    BY <1>2 DEF Mark
  <2>2. CASE f \in Rows
    <3>1. row[f] # None /\ row' = [row EXCEPT ![f].status = "removed", ![f].due = FALSE]
      BY <2>1, <2>2 DEF Removed, Rows
    <3>2. QED BY <2>1, <3>1, ChangedLasts DEF Inv, Status
  <2>3. CASE f \notin Rows
    BY <2>1, <2>3, SameLasts DEF Removed, Lasting
  <2>4. QED BY <2>2, <2>3
<1>3. ASSUME Purge(w) PROVE Lasting
  <2>1. /\ UNCHANGED lately
        /\ row' = [f \in File |-> IF f \in Old THEN None ELSE row[f]]
    BY <1>3 DEF Purge
  <2>2. ASSUME NEW f \in Old PROVE Lasts(f) /\ SameAge(f)
    BY <2>1, <2>2 DEF Lasts, SameAge, Old, In, Rows
  <2>3. \A f \in File \ Old : row'[f] = row[f]
    BY <2>1
  <2>4. QED BY <2>1, <2>2, <2>3, SameLasts DEF Lasting
<1>4. ASSUME UNCHANGED row, UNCHANGED lately PROVE Lasting
  BY <1>4, SameLasts DEF Lasting
<1>5. QED BY <1>1, <1>2, <1>3, <1>4 DEF WorkerStep, Erase, Skip, Stop

\* Whatever happens, but for the end of a reservation.
LEMMA AllLast ==
  ASSUME Inv, [Next]_vars, ~\E f \in File, c \in Channel : ReserveCommit(c, f)
  PROVE  Lasting
<1>1. ASSUME UNCHANGED row, UNCHANGED lately PROVE Lasting
  BY <1>1, SameLasts DEF Lasting
<1>2. ASSUME NEW f \in File, FileStep(f) PROVE Lasting
  BY <1>2, RequestsLast, GrowLasts DEF FileStep
<1>3. ASSUME NEW c \in Channel, ChannelStep(c) PROVE Lasting
  <2>1. CASE \E m \in Post, files \in SUBSET File : Send(c, m, files)
    BY <2>1, MessagesLast
  <2>2. CASE UNCHANGED row /\ UNCHANGED lately
    BY <1>1, <2>2
  <2>3. QED BY <1>3, <2>1, <2>2 DEF ChannelStep, ReserveBegin, ReserveAbort, ChangeAccess
<1>4. QED BY <1>1, <1>2, <1>3, MessagesLast, WorkersLast DEF Next, vars

LEMMA BytesLast ==
  ASSUME Inv, Lasting
  PROVE  Bytes' \subseteq Bytes
<1>1. \A f \in (Rows \ In({"removed"}))' : f \in Rows \ In({"removed"}) /\ row'[f].size = row[f].size
  BY DEF Lasting, Lasts, Rows, In
<1>2. QED BY <1>1 DEF Bytes

LEMMA RecentLast ==
  ASSUME Inv, Lasting, lately = Recent
  PROVE  lately' \subseteq lately /\ lately' = Recent'
<1>1. CASE UNCHANGED lately /\ \A f \in File : SameAge(f)
  BY <1>1 DEF SameAge, Recent, Rows
<1>2. ASSUME NEW f \in File, lately' = lately \ {f}, row[f] # None,
             row' = [row EXCEPT ![f].old = TRUE]
      PROVE  lately' = Recent'
  <2>1. row \in [File -> Row \cup {None}] /\ row[f] \in Row
    BY <1>2 DEF Inv, TypeOK
  <2> DEFINE r == [row[f] EXCEPT !.old = TRUE]
  <2>2. r \in Row /\ r.old = TRUE
    BY <2>1 DEF Row
  <2>3. row' = [row EXCEPT ![f] = r]
    BY <1>2
  <2> HIDE DEF r
  <2>4. row'[f] = r /\ \A g \in File : g # f => row'[g] = row[g]
    BY <2>1, <2>3
  <2>5. QED BY <1>2, <2>2, <2>4 DEF Recent, Rows
<1>3. QED BY <1>1, <1>2 DEF Lasting

LEMMA BytesGained ==
  ASSUME Inv, IsFiniteSet(Bytes), NEW c \in Channel, NEW f \in File, ReserveCommit(c, f)
  PROVE  IsFiniteSet(Bytes') /\ Used' <= Used + reserving[c]
<1>1. reserving[c] \in Size /\ reserving[c] \in Nat
  BY LimitsAssumption DEF Inv, TypeOK, ReserveCommit
<1> DEFINE new == {f} \X (1 .. reserving[c])
<1>2. /\ IsFiniteSet(1 .. reserving[c]) /\ Cardinality(1 .. reserving[c]) = reserving[c]
      /\ IsFiniteSet({f}) /\ Cardinality({f}) = 1
  <2>1. \A n \in Nat : /\ IsFiniteSet(1 .. n)
                      /\ Cardinality(1 .. n) = IF 1 > n THEN 0 ELSE n - 1 + 1
    BY FS_Interval
  <2>2. \A n \in Nat : (IF 1 > n THEN 0 ELSE n - 1 + 1) = n
    OBVIOUS
  <2>3. IsFiniteSet({f}) /\ Cardinality({f}) = 1
    BY FS_Singleton
  <2>4. QED BY <1>1, <2>1, <2>2, <2>3
<1>3. IsFiniteSet(new) /\ Cardinality(new) = Cardinality({f}) * Cardinality(1 .. reserving[c])
  BY <1>2, FS_Product
<1>4. IsFiniteSet(new) /\ Cardinality(new) = reserving[c]
  BY <1>1, <1>2, <1>3
<1>5. Bytes' = Bytes \cup new
  <2> DEFINE r == [channel |-> c, size |-> reserving[c], status |-> "pending", due |-> FALSE,
                   old |-> FALSE, post |-> None]
  <2>1. r \in Row /\ r.size = reserving[c] /\ r.status = "pending"
    BY <1>1 DEF Row, Status
  <2>2. f \notin Rows /\ row' = [row EXCEPT ![f] = r]
    BY DEF ReserveCommit, Unused
  <2> HIDE DEF r
  <2>3. row'[f] = r /\ r # None /\ \A g \in File : g # f => row'[g] = row[g]
    BY <2>1, <2>2, Written, NoneAssumption DEF Inv
  <2>4. (Rows \ In({"removed"}))' = (Rows \ In({"removed"})) \cup {f}
    BY <2>1, <2>2, <2>3 DEF Rows, In
  <2>5. \A g \in Rows \ In({"removed"}) : row'[g].size = row[g].size
    BY <2>2, <2>3 DEF Rows
  <2>6. QED BY <2>1, <2>3, <2>4, <2>5 DEF Bytes
<1> HIDE DEF new
<1>6. /\ IsFiniteSet(Bytes \cup new)
      /\ Cardinality(Bytes \cup new) = Cardinality(Bytes) + Cardinality(new) - Cardinality(Bytes \cap new)
  BY <1>4, FS_Union
<1>7. IsFiniteSet(Bytes \cap new)
  BY <1>4, FS_Intersection
<1>8. Cardinality(Bytes \cap new) \in Nat /\ Cardinality(Bytes) \in Nat
  BY <1>7, FS_CardinalityType
<1>9. QED BY <1>1, <1>4, <1>5, <1>6, <1>8 DEF Used

LEMMA LimitsStep ==
  ASSUME Direct = {}, Inv, Limits, [Next]_vars
  PROVE  Limits'
<1>1. CASE \E f \in File, c \in Channel : ReserveCommit(c, f)
  <2>1. PICK f \in File, c \in Channel : ReserveCommit(c, f)
    BY <1>1
  <2>2. IsFiniteSet(Bytes') /\ Used' <= Used + reserving[c]
    BY <2>1, BytesGained DEF Limits
  <2>3. Used' \in Nat /\ Used \in Nat
    BY <2>2, FS_CardinalityType DEF Used, Limits
  <2>4. /\ Used + reserving[c] <= Quota /\ Cardinality(lately) < PerHour
        /\ \A d \in Channel : reserving[d] # None => d = c
        /\ reserving[c] \in Nat
    BY <2>1, LimitsAssumption DEF Limits, ReserveCommit, Inv, TypeOK
  <2>5. Used' <= Quota
    BY <2>2, <2>3, <2>4, LimitsAssumption
  <2>6. lately' = lately \cup {f} /\ f \notin lately
    BY <2>1 DEF ReserveCommit, Unused
  <2>7. IsFiniteSet(lately') /\ Cardinality(lately') = Cardinality(lately) + 1
    BY <2>6, FS_AddElement DEF Limits
  <2>8. Cardinality(lately') <= PerHour
    BY <2>4, <2>7, FS_CardinalityType, LimitsAssumption DEF Limits
  <2>9. lately' = Recent'
    <3> DEFINE r == [channel |-> c, size |-> reserving[c], status |-> "pending", due |-> FALSE,
                     old |-> FALSE, post |-> None]
    <3>1. r \in Row /\ ~r.old
      BY <2>1 DEF Row, Status, ReserveCommit, Inv, TypeOK
    <3>2. row' = [row EXCEPT ![f] = r]
      BY <2>1 DEF ReserveCommit
    <3> HIDE DEF r
    <3>3. row'[f] = r /\ r # None /\ \A g \in File : g # f => row'[g] = row[g]
      BY <3>1, <3>2, Written, NoneAssumption DEF Inv
    <3>4. lately = Recent
      BY DEF Limits
    <3>5. QED BY <2>6, <3>1, <3>3, <3>4 DEF Recent, Rows
  <2>10. \A d \in Channel : reserving'[d] = None
    BY <2>1, <2>4 DEF ReserveCommit, Inv, TypeOK
  <2>11. QED BY <2>2, <2>5, <2>7, <2>8, <2>9, <2>10 DEF Limits, LimitsKept, QuotaKept
<1>2. CASE ~\E f \in File, c \in Channel : ReserveCommit(c, f)
  <2>1. Lasting
    BY <1>2, AllLast
  <2>2. Bytes' \subseteq Bytes /\ lately' \subseteq lately /\ lately' = Recent'
    BY <2>1, BytesLast, RecentLast DEF Limits
  <2>3. IsFiniteSet(Bytes) /\ IsFiniteSet(lately) /\ Used <= Quota /\ Cardinality(lately) <= PerHour
    BY DEF Limits, LimitsKept, QuotaKept
  <2>4. /\ IsFiniteSet(Bytes') /\ Used' <= Used
        /\ IsFiniteSet(lately') /\ Cardinality(lately') <= Cardinality(lately)
    BY <2>2, <2>3, FS_Subset DEF Used
  <2>5. /\ Used \in Nat /\ Used' \in Nat
        /\ Cardinality(lately) \in Nat /\ Cardinality(lately') \in Nat
    BY <2>3, <2>4, FS_CardinalityType DEF Used
  <2>6. Used' <= Quota /\ Cardinality(lately') <= PerHour
    BY <2>3, <2>4, <2>5, LimitsAssumption
  <2>7. CASE \E c \in Channel, s \in Size : ReserveBegin(c, s)
    <3>1. PICK c \in Channel, s \in Size : ReserveBegin(c, s)
      BY <2>7
    <3>2. /\ \A d \in Channel : reserving[d] = None
          /\ Used + s <= Quota /\ Cardinality(Recent) < PerHour
          /\ reserving' = [reserving EXCEPT ![c] = s] /\ UNCHANGED <<row, lately>>
      BY <3>1 DEF ReserveBegin, MayWrite, Free
    <3>3. Used' = Used
      BY <3>2 DEF Used, Bytes, Rows, In
    <3>4. \A d \in Channel : reserving'[d] # None => d = c /\ reserving'[d] = s
      BY <3>2 DEF Inv, TypeOK
    <3>5. Cardinality(lately') < PerHour
      BY <3>2 DEF Limits
    <3>6. QED BY <2>2, <2>4, <2>6, <3>2, <3>3, <3>4, <3>5 DEF Limits, LimitsKept, QuotaKept
  <2>8. CASE ~\E c \in Channel, s \in Size : ReserveBegin(c, s)
    <3>1. \A c \in Channel : reserving'[c] # None => reserving'[c] = reserving[c]
      <4>1. CASE \E c \in Channel : ReserveAbort(c)
        BY <4>1 DEF ReserveAbort, Inv, TypeOK
      <4>2. CASE UNCHANGED reserving
        BY <4>2
      <4>3. QED BY <1>2, <2>8, <4>1, <4>2 DEF Next, FileStep, UploadBegin, UploadStored, UploadEnd,
              UploadReady, UploadAbandoned, UploadStops, Cancel, Grow, Elapse, ChannelStep, Send,
              ChangeAccess, Delete, WorkerStep, Claim, Erase, Mark, Skip, Stop, Purge, vars
    <3>2. ASSUME NEW c \in Channel, reserving'[c] # None
          PROVE  /\ Used' + reserving'[c] <= Quota /\ Cardinality(lately') < PerHour
                 /\ \A d \in Channel : reserving'[d] # None => d = c
      <4>1. reserving'[c] = reserving[c] /\ reserving[c] \in Nat
        BY <3>1, <3>2, LimitsAssumption DEF Inv, TypeOK
      <4>2. /\ Used + reserving[c] <= Quota /\ Cardinality(lately) < PerHour
            /\ \A d \in Channel : reserving[d] # None => d = c
        BY <3>2, <4>1 DEF Limits
      <4>3. QED BY <2>4, <2>5, <3>1, <4>1, <4>2, LimitsAssumption
    <3>3. QED BY <2>2, <2>4, <2>6, <3>2 DEF Limits, LimitsKept, QuotaKept
  <2>9. QED BY <2>7, <2>8
<1>3. QED BY <1>1, <1>2

\* Where every conversation is locked with the workspace, nobody reserves more than the quota
\* or more often than the limit allows, whatever is uploaded, cancelled, removed and purged.
THEOREM WithinLimits ==
  ASSUME Direct = {}
  PROVE  Spec => []LimitsKept
<1>1. Init => Limits
  <2> SUFFICES ASSUME Init PROVE Limits
    OBVIOUS
  <2>1. Rows = {} /\ lately = {} /\ \A c \in Channel : reserving[c] = None
    BY DEF Init, Rows
  <2>2. Bytes = {} /\ Recent = {}
    BY <2>1 DEF Bytes, Recent
  <2>3. IsFiniteSet({}) /\ Cardinality({}) = 0
    BY FS_EmptySet
  <2>4. QED BY <2>1, <2>2, <2>3, LimitsAssumption DEF Limits, LimitsKept, QuotaKept, Used
<1>2. Inv /\ Limits /\ [Next]_vars => Limits'
  BY LimitsStep
<1>3. Limits => LimitsKept
  BY DEF Limits
<1>4. QED BY Inductive, <1>1, <1>2, <1>3, PTL DEF Spec
=============================================================================
