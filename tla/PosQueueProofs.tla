--------------------------- MODULE PosQueueProofs ---------------------------
(***************************************************************************)
(* PosQueue implements Delivery, for any number of operations, overlapping *)
(* flushes, requests given up, restarts and requests the server handles at *)
(* a time.  The mapping of fate and applied is the one of PosQueue's       *)
(* instance D.  The inductive invariant says which operation each request  *)
(* is for, that a positive answer was written first, and that the rows of  *)
(* the queue, and those a flush has read, belong to operations safeWrite   *)
(* has queued.  The second part is about the shifts of a server that       *)
(* handles one request at a time.                                          *)
(***************************************************************************)
EXTENDS PosQueue, SumTheorems

CallRow == [at : {"none", "sent", "checked", "replied"}, op : Ops \cup {None}, ok : BOOLEAN]
FateRow == {"new", "sending", "queued", "done", "refused", "lost"}

(* The tables are functions, and a row of the queue is a record.           *)
Shaped ==
  /\ call \in [Slots -> CallRow]
  /\ fate \in [Ops -> FateRow]
  /\ applied \in [Ops -> Nat]
  /\ todo = [f \in Flushes |-> todo[f]]
  /\ rows = [o \in Ops |-> [status |-> rows[o].status, createdAt |-> rows[o].createdAt,
                            attempts |-> rows[o].attempts]]

(* A request is for an operation that was handed over, and its positive    *)
(* answer comes after the write.                                           *)
CallsAreKnown == \A x \in Slots :
  ~Free(x) => /\ call[x].op \in Ops
              /\ fate[call[x].op] # "new"
              /\ call[x].at = "replied" /\ call[x].ok => applied[call[x].op] > 0

(* A direct write in flight is the operation's own, and it is being sent.  *)
WritesAreSending == \A o \in Ops : ~Free(o) => call[o].op = o /\ fate[o] = "sending"

(* Only queued operations have rows, and only they are flushed.            *)
RowsAreQueued == \A o \in Queued : fate[o] = "queued"
FlushesAreQueued == \A f \in Flushes :
  /\ \A row \in todo[f] : row.op \in Ops /\ fate[row.op] = "queued"
  /\ ~Free(f) => fate[call[f].op] = "queued"

IInv == Shaped /\ CallsAreKnown /\ WritesAreSending /\ RowsAreQueued /\ FlushesAreQueued

USE SlotAssumption

-----------------------------------------------------------------------------
(* Lemmas on the table of the queue and on requests.                       *)

(* enqueueOperation adds one row.                                          *)
LEMMA EnqueueAdds ==
  ASSUME Shaped, NEW o \in Ops, Enqueue(o)
  PROVE  /\ Queued' = Queued \cup {o}
         /\ fate' = [fate EXCEPT ![o] = "queued"]
         /\ Shaped!5'
  <1> DEFINE n == Now
  <1>1. rows' = [rows EXCEPT ![o] = [status |-> "pending", createdAt |-> n, attempts |-> 0]]
    BY DEF Enqueue
  <1> HIDE DEF n
  <1>2. \A p \in Ops : rows'[p] = IF p = o THEN [status |-> "pending", createdAt |-> n, attempts |-> 0] ELSE rows[p]
    BY <1>1 DEF Shaped
  <1> QED  BY <1>1, <1>2 DEF Shaped, Queued, Enqueue

(* An UPDATE that does not set "absent" neither adds nor removes a row.    *)
LEMMA UpdateKeeps ==
  ASSUME Shaped, NEW row, NEW attempts, NEW status, row.op \in Ops, status # "absent",
         Update(row, attempts, status)
  PROVE  Queued' = Queued /\ Shaped!5'
  <1>1. CASE row.op \notin Queued
    BY <1>1 DEF Update, Queued, Shaped
  <1>2. CASE row.op \in Queued
    <2> DEFINE c == rows[row.op].createdAt
               k == [status |-> status, createdAt |-> c, attempts |-> attempts]
    <2>1. rows' = [rows EXCEPT ![row.op] = k]
      BY <1>2 DEF Update
    <2> HIDE DEF c
    <2>2. \A p \in Ops : rows'[p] = IF p = row.op THEN k ELSE rows[p]
      BY <2>1 DEF Shaped
    <2>3. rows[row.op].status # "absent"
      BY <1>2 DEF Queued
    <2> QED  BY <2>1, <2>2, <2>3 DEF Queued, Shaped
  <1> QED  BY <1>1, <1>2

-----------------------------------------------------------------------------
(* Requests end, or are moved to a slot for strays; none is made.          *)
Fade ==
  /\ call' \in [Slots -> CallRow]
  /\ \A y \in Slots : call'[y].at = "none" \/ \E z \in Slots : call'[y] = call[z]
  /\ \A y \in Ops \cup Flushes : call'[y].at = "none" \/ call'[y] = call[y]

LEMMA NoCallTyped == NoCall \in CallRow
  BY DEF NoCall, CallRow

LEMMA EndFades ==
  ASSUME Shaped, NEW x \in Slots, call' = [call EXCEPT ![x] = NoCall]
  PROVE  Fade /\ call'[x].at = "none"
  BY NoCallTyped DEF Shaped, Fade, NoCall

LEMMA ThrowFades ==
  ASSUME Shaped, NEW x \in Ops \cup Flushes, Throws(x)
  PROVE  Fade /\ call'[x].at = "none"
  <1>1. CASE call' = [call EXCEPT ![x] = NoCall]
    BY <1>1, EndFades
  <1>2. ASSUME NEW s \in Strays, call' = [call EXCEPT ![s] = call[x], ![x] = NoCall]
        PROVE  Fade /\ call'[x].at = "none"
    <2>1. s # x /\ s \in Slots /\ x \in Slots /\ s \notin Ops \cup Flushes
      OBVIOUS
    <2>2. \A y \in Slots : call'[y] = IF y = x THEN NoCall ELSE IF y = s THEN call[x] ELSE call[y]
      BY <1>2, <2>1 DEF Shaped
    <2>3. call' \in [Slots -> CallRow]
      BY <1>2, <2>1, NoCallTyped DEF Shaped
    <2> QED  BY <2>1, <2>2, <2>3 DEF Fade, NoCall
  <1> QED  BY <1>1, <1>2 DEF Throws

(* What is known of the requests stays known.                              *)
LEMMA FadeKeeps ==
  ASSUME IInv, Fade, applied' = applied,
         \A o \in Ops : fate[o] # "new" => fate'[o] # "new"
  PROVE  CallsAreKnown'
  <1> SUFFICES ASSUME NEW y \in Slots, ~Free(y)'
               PROVE  /\ call'[y].op \in Ops
                      /\ fate'[call'[y].op] # "new"
                      /\ call'[y].at = "replied" /\ call'[y].ok => applied'[call'[y].op] > 0
    BY DEF CallsAreKnown
  <1>1. PICK z \in Slots : call'[y] = call[z]
    BY DEF Fade, Free
  <1>2. ~Free(z)
    BY <1>1 DEF Free
  <1> QED  BY <1>1, <1>2 DEF IInv, CallsAreKnown

(* Steps the abstract specification does not see.                          *)
LEMMA Stutters ==
  ASSUME UNCHANGED <<fate, applied>>, Queued' = Queued
  PROVE  UNCHANGED D!vars
  BY DEF D!vars, FateOf

Good == IInv' /\ [D!Next]_(D!vars)

-----------------------------------------------------------------------------
LEMMA InitGood == Init => IInv /\ D!Init
  <1> SUFFICES ASSUME Init PROVE IInv /\ D!Init
    OBVIOUS
  <1>1. Queued = {}
    BY DEF Init, Queued, NoRow
  <1>2. Shaped
    BY NoCallTyped DEF Init, Shaped, FateRow, NoRow
  <1>3. \A x \in Slots : Free(x)
    BY DEF Init, Free, NoCall
  <1>4. IInv
    BY <1>1, <1>2, <1>3 DEF Init, IInv, CallsAreKnown, WritesAreSending, RowsAreQueued, FlushesAreQueued
  <1>5. D!Init
    BY DEF Init, D!Init, FateOf
  <1> QED  BY <1>4, <1>5

LEMMA QuietGood ==
  ASSUME IInv, UNCHANGED <<call, fate, rows, todo, applied>>
  PROVE  Good
  <1>1. Queued' = Queued
    BY DEF Queued
  <1>2. IInv'
    BY <1>1 DEF IInv, Shaped, CallsAreKnown, WritesAreSending, RowsAreQueued, FlushesAreQueued, Free
  <1> QED  BY <1>1, <1>2, Stutters DEF Good

LEMMA ReadRowsGood ==
  ASSUME IInv, NEW f \in Flushes, ReadRows(f)
  PROVE  Good
  <1> USE DEF ReadRows, server, till
  <1>1. Queued' = Queued
    BY DEF Queued
  <1>2. Shaped'
    BY DEF IInv, Shaped
  <1>3. \A g \in Flushes : \A row \in todo'[g] : row.op \in Ops /\ fate[row.op] = "queued"
    <2>1. \A row \in {Row(o, rows[o].createdAt, rows[o].attempts) : o \in Queued} :
            row.op \in Ops /\ fate[row.op] = "queued"
      BY DEF Row, Queued, IInv, RowsAreQueued
    <2>2. \A g \in Flushes \ {f} : todo'[g] = todo[g]
      BY DEF IInv, Shaped
    <2>3. todo'[f] = {Row(o, rows[o].createdAt, rows[o].attempts) : o \in Queued}
      BY DEF IInv, Shaped
    <2> QED  BY <2>1, <2>2, <2>3 DEF IInv, FlushesAreQueued
  <1>4. IInv'
    BY <1>1, <1>2, <1>3 DEF IInv, CallsAreKnown, WritesAreSending, RowsAreQueued, FlushesAreQueued, Free
  <1> QED  BY <1>1, <1>4, Stutters DEF Good

(* A flush that is done with a row only leaves rows out.                   *)
LEMMA HandledKeeps ==
  ASSUME IInv, NEW f \in Flushes, NEW row, Handled(f, row)
  PROVE  /\ Shaped!4'
         /\ \A g \in Flushes : todo'[g] \subseteq todo[g]
  BY DEF IInv, Shaped, Handled

(* The steps of a flush that follow from its lemmas: rows are changed or   *)
(* removed, requests end, fates stay.                                      *)
LEMMA FlushGood ==
  ASSUME IInv, Fade, UNCHANGED <<fate, applied>>, Queued' \subseteq Queued, Shaped!4', Shaped!5',
         \A g \in Flushes : todo'[g] \subseteq todo[g]
  PROVE  IInv'
  <1>1. Shaped'
    BY DEF IInv, Shaped, Fade
  <1>2. CallsAreKnown'
    BY FadeKeeps
  <1>3. WritesAreSending'
    BY DEF IInv, WritesAreSending, Fade, Free
  <1>4. RowsAreQueued'
    BY DEF IInv, RowsAreQueued
  <1>5. FlushesAreQueued'
    BY DEF IInv, FlushesAreQueued, Fade, Free
  <1> QED  BY <1>1, <1>2, <1>3, <1>4, <1>5 DEF IInv

LEMMA SkipRowGood ==
  ASSUME IInv, NEW f \in Flushes, SkipRow(f)
  PROVE  Good
  <1>1. PICK row \in todo[f] :
          /\ Update(row, rows[row.op].attempts, "failed")
          /\ Handled(f, row)
          /\ UNCHANGED <<call, fate, applied>>
    BY DEF SkipRow, Oldest, server
  <1>2. Queued' = Queued /\ Shaped!5'
    BY <1>1, UpdateKeeps DEF IInv, FlushesAreQueued
  <1>3. Shaped!4' /\ \A g \in Flushes : todo'[g] \subseteq todo[g]
    BY <1>1, HandledKeeps
  <1>4. Fade
    BY <1>1 DEF IInv, Shaped, Fade
  <1>5. IInv'
    BY <1>1, <1>2, <1>3, <1>4, FlushGood
  <1> QED  BY <1>1, <1>2, <1>5, Stutters DEF Good

LEMMA SendRowGood ==
  ASSUME IInv, NEW f \in Flushes, SendRow(f)
  PROVE  Good
  <1>1. PICK row \in todo[f] :
          /\ call' = [call EXCEPT ![f] = Request(row.op)]
          /\ UNCHANGED <<fate, rows, todo, applied>>
    BY DEF SendRow, Oldest, server
  <1>2. row.op \in Ops /\ fate[row.op] = "queued"
    BY DEF IInv, FlushesAreQueued
  <1> DEFINE k == Request(row.op)
  <1>3. k \in CallRow /\ k.op = row.op /\ k.at = "sent"
    BY <1>2 DEF Request, CallRow
  <1> HIDE DEF k
  <1>4. call' = [call EXCEPT ![f] = k] /\ f \in Slots /\ f \notin Ops
    BY <1>1 DEF k
  <1>5. \A x \in Slots : call'[x] = IF x = f THEN k ELSE call[x]
    BY <1>4 DEF IInv, Shaped
  <1>6. Queued' = Queued
    BY <1>1 DEF Queued
  <1>7. Shaped'
    BY <1>1, <1>3, <1>4 DEF IInv, Shaped
  <1>8. CallsAreKnown'
    BY <1>1, <1>2, <1>3, <1>5 DEF IInv, CallsAreKnown, Free
  <1>9. WritesAreSending'
    BY <1>1, <1>4, <1>5 DEF IInv, WritesAreSending, Free
  <1>10. RowsAreQueued'
    BY <1>1, <1>6 DEF IInv, RowsAreQueued
  <1>11. FlushesAreQueued'
    BY <1>1, <1>2, <1>3, <1>5 DEF IInv, FlushesAreQueued, Free
  <1>12. IInv'
    BY <1>7, <1>8, <1>9, <1>10, <1>11 DEF IInv
  <1> QED  BY <1>1, <1>6, <1>12, Stutters DEF Good

(* A row is deleted on a positive answer, which comes after the write: the *)
(* operation is cleared, or was cleared before by another flush.           *)
LEMMA RowAnsweredGood ==
  ASSUME IInv, NEW f \in Flushes, RowAnswered(f)
  PROVE  Good
  <1>1. PICK row \in todo[f] :
          /\ row.op = call[f].op
          /\ call[f].at = "replied"
          /\ call' = [call EXCEPT ![f] = NoCall]
          /\ IF call[f].ok THEN rows' = [rows EXCEPT ![row.op] = NoRow] ELSE Tried(row)
          /\ Handled(f, row)
          /\ UNCHANGED <<fate, applied>>
    BY DEF RowAnswered, Sent, server
  <1>2. row.op \in Ops /\ fate[row.op] = "queued"
    BY DEF IInv, FlushesAreQueued
  <1>3. f \in Slots /\ Fade
    BY <1>1, EndFades DEF IInv
  <1>4. Shaped!4' /\ \A g \in Flushes : todo'[g] \subseteq todo[g]
    BY <1>1, HandledKeeps
  <1>5. CASE ~call[f].ok
    <2>1. Queued' = Queued /\ Shaped!5'
      BY <1>1, <1>2, <1>5, UpdateKeeps DEF IInv, Tried
    <2>2. IInv'
      BY <1>1, <1>3, <1>4, <2>1, FlushGood
    <2> QED  BY <1>1, <2>1, <2>2, Stutters DEF Good
  <1>6. CASE call[f].ok
    <2>1. rows' = [rows EXCEPT ![row.op] = NoRow]
      BY <1>1, <1>6
    <2>2. \A o \in Ops : rows'[o] = IF o = row.op THEN NoRow ELSE rows[o]
      BY <2>1 DEF IInv, Shaped
    <2>3. Queued' = Queued \ {row.op}
      BY <2>2 DEF Queued, NoRow
    <2>4. Shaped!5'
      BY <2>1, <2>2 DEF IInv, Shaped, NoRow
    <2>5. IInv'
      BY <1>1, <1>3, <1>4, <2>3, <2>4, FlushGood
    <2>6. applied[row.op] > 0
      BY <1>1, <1>3, <1>6 DEF IInv, CallsAreKnown, Free
    <2>7. CASE row.op \in Queued
      <3>1. D!Clear(row.op)
        BY <1>1, <1>2, <2>3, <2>6, <2>7 DEF D!Clear, D!Becomes, FateOf
      <3> QED  BY <1>2, <2>5, <3>1 DEF Good, D!Next
    <2>8. CASE row.op \notin Queued
      BY <1>1, <2>3, <2>5, <2>8, Stutters DEF Good
    <2> QED  BY <2>7, <2>8
  <1> QED  BY <1>5, <1>6

LEMMA RowThrowsGood ==
  ASSUME IInv, NEW f \in Flushes, RowThrows(f)
  PROVE  Good
  <1>1. PICK row \in todo[f] :
          Throws(f) /\ Tried(row) /\ Handled(f, row) /\ UNCHANGED <<fate, applied>>
    BY DEF RowThrows, Sent, server
  <1>2. Queued' = Queued /\ Shaped!5'
    BY <1>1, UpdateKeeps DEF IInv, FlushesAreQueued, Tried
  <1>3. Fade
    BY <1>1, ThrowFades DEF IInv
  <1>4. Shaped!4' /\ \A g \in Flushes : todo'[g] \subseteq todo[g]
    BY <1>1, HandledKeeps
  <1>5. IInv'
    BY <1>1, <1>2, <1>3, <1>4, FlushGood
  <1> QED  BY <1>1, <1>2, <1>5, Stutters DEF Good

-----------------------------------------------------------------------------
(* safeWrite, offline or after its request has failed.                     *)
LEMMA EnqueueGood ==
  ASSUME IInv, NEW o \in Ops, fate[o] \in {"new", "sending"}, Enqueue(o),
         Fade, call'[o].at = "none", UNCHANGED <<todo, applied>>
  PROVE  Good
  <1>1. /\ Queued' = Queued \cup {o}
        /\ fate' = [fate EXCEPT ![o] = "queued"]
        /\ Shaped!5'
    BY EnqueueAdds DEF IInv
  <1>2. \A p \in Ops : fate'[p] = IF p = o THEN "queued" ELSE fate[p]
    BY <1>1 DEF IInv, Shaped
  <1>3. Shaped'
    BY <1>1 DEF IInv, Shaped, Fade, FateRow
  <1>4. CallsAreKnown'
    BY <1>2, FadeKeeps
  <1>5. WritesAreSending'
    BY <1>2 DEF IInv, WritesAreSending, Fade, Free
  <1>6. RowsAreQueued'
    BY <1>1, <1>2 DEF IInv, RowsAreQueued, Queued
  <1>7. FlushesAreQueued'
    <2> SUFFICES ASSUME NEW f \in Flushes
                 PROVE  /\ \A row \in todo[f] : row.op \in Ops /\ fate'[row.op] = "queued"
                        /\ ~Free(f)' => fate'[call'[f].op] = "queued"
      BY DEF FlushesAreQueued
    <2>1. \A row \in todo[f] : row.op \in Ops /\ fate'[row.op] = "queued"
      BY <1>2 DEF IInv, FlushesAreQueued
    <2>2. ASSUME ~Free(f)' PROVE fate'[call'[f].op] = "queued"
      <3>1. call'[f] = call[f] /\ ~Free(f) /\ f \in Slots
        BY <2>2 DEF Fade, Free
      <3> QED  BY <3>1, <1>2 DEF IInv, FlushesAreQueued, CallsAreKnown
    <2> QED  BY <2>1, <2>2
  <1>8. IInv'
    BY <1>3, <1>4, <1>5, <1>6, <1>7 DEF IInv
  <1>9. o \notin Queued
    BY DEF IInv, RowsAreQueued
  <1>10. D!Keep(o)
    BY <1>1, <1>2, <1>9 DEF D!Keep, D!Becomes, FateOf
  <1> QED  BY <1>8, <1>10 DEF Good, D!Next

LEMMA WriteThrowsGood ==
  ASSUME IInv, NEW o \in Ops, WriteThrows(o)
  PROVE  Good
  <1>1. Throws(o) /\ Enqueue(o) /\ UNCHANGED <<todo, applied>>
    BY DEF WriteThrows, server
  <1>2. Fade /\ call'[o].at = "none"
    BY <1>1, ThrowFades DEF IInv
  <1>3. fate[o] = "sending"
    BY <1>1 DEF IInv, WritesAreSending, Throws, Free
  <1> QED  BY <1>1, <1>2, <1>3, EnqueueGood

LEMMA SafeWriteGood ==
  ASSUME IInv, NEW o \in Ops, SafeWrite(o)
  PROVE  Good
  <1>1. fate[o] = "new" /\ UNCHANGED <<todo, applied>>
    BY DEF SafeWrite, HandOver, server
  <1>2. Free(o) /\ o \in Slots
    BY <1>1 DEF IInv, WritesAreSending
  <1>3. CASE ~online
    <2>1. Enqueue(o) /\ call' = call
      BY <1>3 DEF SafeWrite
    <2>2. Fade /\ call'[o].at = "none"
      BY <2>1, <1>2 DEF IInv, Shaped, Fade, Free
    <2> QED  BY <1>1, <2>1, <2>2, EnqueueGood
  <1>4. CASE online
    <2>1. /\ call' = [call EXCEPT ![o] = Request(o)]
          /\ fate' = [fate EXCEPT ![o] = "sending"]
          /\ rows' = rows
      BY <1>4 DEF SafeWrite
    <2>2. Request(o) \in CallRow /\ Request(o).op = o /\ Request(o).at = "sent"
      BY DEF Request, CallRow
    <2>3. \A p \in Ops : fate'[p] = IF p = o THEN "sending" ELSE fate[p]
      BY <2>1 DEF IInv, Shaped
    <2>4. \A x \in Slots : call'[x] = IF x = o THEN Request(o) ELSE call[x]
      BY <2>1 DEF IInv, Shaped
    <2>5. Queued' = Queued
      BY <2>1 DEF Queued
    <2>6. Shaped'
      BY <1>1, <2>1, <2>2 DEF IInv, Shaped, FateRow
    <2>7. CallsAreKnown'
      BY <1>1, <2>2, <2>3, <2>4 DEF IInv, CallsAreKnown, Free
    <2>8. WritesAreSending'
      BY <2>2, <2>3, <2>4 DEF IInv, WritesAreSending, Free
    <2>9. RowsAreQueued'
      BY <1>1, <2>3, <2>5 DEF IInv, RowsAreQueued, Queued
    <2>10. FlushesAreQueued'
      <3> SUFFICES ASSUME NEW f \in Flushes
                   PROVE  /\ \A row \in todo[f] : row.op \in Ops /\ fate'[row.op] = "queued"
                          /\ ~Free(f)' => fate'[call'[f].op] = "queued"
        BY <1>1 DEF FlushesAreQueued
      <3>1. \A row \in todo[f] : row.op \in Ops /\ fate'[row.op] = "queued"
        BY <1>1, <2>3 DEF IInv, FlushesAreQueued
      <3>2. ASSUME ~Free(f)' PROVE fate'[call'[f].op] = "queued"
        <4>1. call'[f] = call[f] /\ ~Free(f) /\ f \in Slots
          BY <2>4, <3>2 DEF Free
        <4> QED  BY <1>1, <4>1, <2>3 DEF IInv, FlushesAreQueued, CallsAreKnown
      <3> QED  BY <3>1, <3>2
    <2>11. IInv'
      BY <2>6, <2>7, <2>8, <2>9, <2>10 DEF IInv
    <2>12. D!Send(o)
      BY <1>1, <2>3, <2>5 DEF D!Send, D!Becomes, FateOf
    <2> QED  BY <2>11, <2>12 DEF Good, D!Next
  <1> QED  BY <1>3, <1>4

LEMMA WriteAnsweredGood ==
  ASSUME IInv, NEW o \in Ops, WriteAnswered(o)
  PROVE  Good
  <1> DEFINE told == IF call[o].ok THEN "done" ELSE "refused"
  <1>1. /\ call[o].at = "replied"
        /\ call' = [call EXCEPT ![o] = NoCall]
        /\ fate' = [fate EXCEPT ![o] = told]
        /\ UNCHANGED <<rows, todo, applied>>
    BY DEF WriteAnswered, server
  <1>2. Fade /\ call'[o].at = "none" /\ o \in Slots
    BY <1>1, EndFades DEF IInv
  <1>3. fate[o] = "sending" /\ call[o].op = o
    BY <1>1 DEF IInv, WritesAreSending, Free
  <1>4. call[o].ok => applied[o] > 0
    BY <1>1, <1>2, <1>3 DEF IInv, CallsAreKnown, Free
  <1>5. \A p \in Ops : fate'[p] = IF p = o THEN told ELSE fate[p]
    BY <1>1 DEF IInv, Shaped
  <1>6. Queued' = Queued
    BY <1>1 DEF Queued
  <1>7. Shaped'
    BY <1>1, <1>2 DEF IInv, Shaped, Fade, FateRow
  <1>8. CallsAreKnown'
    BY <1>1, <1>2, <1>5, FadeKeeps
  <1>9. WritesAreSending'
    BY <1>2, <1>5 DEF IInv, WritesAreSending, Fade, Free
  <1>10. RowsAreQueued'
    BY <1>3, <1>5, <1>6 DEF IInv, RowsAreQueued, Queued
  <1>11. FlushesAreQueued'
    <2> SUFFICES ASSUME NEW f \in Flushes
                 PROVE  /\ \A row \in todo[f] : row.op \in Ops /\ fate'[row.op] = "queued"
                        /\ ~Free(f)' => fate'[call'[f].op] = "queued"
      BY <1>1 DEF FlushesAreQueued
    <2>1. \A row \in todo[f] : row.op \in Ops /\ fate'[row.op] = "queued"
      BY <1>3, <1>5 DEF IInv, FlushesAreQueued
    <2>2. ASSUME ~Free(f)' PROVE fate'[call'[f].op] = "queued"
      <3>1. call'[f] = call[f] /\ ~Free(f) /\ f \in Slots
        BY <1>2, <2>2 DEF Fade, Free
      <3> QED  BY <3>1, <1>3, <1>5 DEF IInv, FlushesAreQueued, CallsAreKnown
    <2> QED  BY <2>1, <2>2
  <1>12. IInv'
    BY <1>7, <1>8, <1>9, <1>10, <1>11 DEF IInv
  <1>13. D!Confirm(o) \/ D!Refuse(o)
    <2>1. FateOf(o) = "sending" /\ FateOf(o)' = told /\ \A p \in Ops \ {o} : FateOf(p)' = FateOf(p)
      BY <1>3, <1>5, <1>6 DEF FateOf
    <2> HIDE DEF told
    <2>2. D!Becomes(o, "sending", told)
      BY <1>1, <2>1 DEF D!Becomes
    <2>3. told = "refused" \/ (told = "done" /\ applied[o] > 0)
      BY <1>4 DEF told
    <2>4. CASE told = "refused"
      BY <2>2, <2>4 DEF D!Refuse
    <2>5. CASE told = "done" /\ applied[o] > 0
      BY <2>2, <2>5 DEF D!Confirm
    <2> QED  BY <2>3, <2>4, <2>5
  <1> QED  BY <1>12, <1>13 DEF Good, D!Next

-----------------------------------------------------------------------------
(* A restart loses what is being sent; the queue stays.                    *)
LEMMA RestartGood ==
  ASSUME IInv, Restart
  PROVE  Good
  <1> DEFINE free == {s \in Strays : Free(s)}
             under == {x \in Ops \cup Flushes : call[x].at \in {"sent", "checked"}}
  <1>1. /\ fate' = [o \in Ops |-> IF fate[o] = "sending" THEN "lost" ELSE fate[o]]
        /\ todo' = [f \in Flushes |-> {}]
        /\ UNCHANGED <<rows, applied>>
    BY DEF Restart, server
  <1>2. PICK goesOn \in [free -> under \cup {None}] :
          call' = [x \in Slots |->
                     IF x \in Ops \cup Flushes THEN NoCall
                     ELSE IF x \in free /\ goesOn[x] # None THEN call[goesOn[x]]
                     ELSE call[x]]
    BY DEF Restart
  <1>3. \A y \in Slots : call'[y] = NoCall \/ \E z \in Slots : call'[y] = call[z]
    BY <1>2
  <1>4. \A y \in Ops \cup Flushes : call'[y] = NoCall
    BY <1>2
  <1>5. call' \in [Slots -> CallRow]
    <2>1. \A y \in Slots : call'[y] \in CallRow
      BY <1>3, NoCallTyped DEF IInv, Shaped
    <2> HIDE DEF free, under
    <2> QED  BY <1>2, <2>1
  <1>6. Fade
    BY <1>3, <1>4, <1>5 DEF Fade, NoCall
  <1>7. Queued' = Queued
    BY <1>1 DEF Queued
  <1>8. Shaped'
    BY <1>1, <1>5 DEF IInv, Shaped, FateRow
  <1>9. CallsAreKnown'
    BY <1>1, <1>6, FadeKeeps
  <1>10. WritesAreSending' /\ FlushesAreQueued'
    BY <1>1, <1>4 DEF WritesAreSending, FlushesAreQueued, Free, NoCall
  <1>11. RowsAreQueued'
    BY <1>1, <1>7 DEF IInv, RowsAreQueued, Queued
  <1>12. IInv'
    BY <1>8, <1>9, <1>10, <1>11 DEF IInv
  <1>13. D!Restart
    BY <1>1, <1>7 DEF D!Restart, FateOf
  <1> QED  BY <1>12, <1>13 DEF Good, D!Next

LEMMA ForgottenGood ==
  ASSUME IInv, NEW s \in Strays, Forgotten(s)
  PROVE  Good
  <1>1. call' = [call EXCEPT ![s] = NoCall] /\ UNCHANGED <<fate, rows, todo, applied>>
    BY DEF Forgotten, server
  <1>2. Fade
    BY <1>1, EndFades DEF IInv
  <1>3. Queued' = Queued
    BY <1>1 DEF Queued
  <1>4. Shaped!4' /\ Shaped!5'
    BY <1>1 DEF IInv, Shaped
  <1>5. IInv'
    BY <1>1, <1>2, <1>3, <1>4, FlushGood
  <1> QED  BY <1>1, <1>3, <1>5, Stutters DEF Good

(* The server finds, rejects or writes; only writing shows.                *)
LEMMA ServerGood ==
  ASSUME IInv, NEW x \in Slots, ServerStep(x)
  PROVE  Good
  <1>1. UNCHANGED <<fate, rows, todo>>
    BY DEF ServerStep
  <1>2. Queued' = Queued
    BY <1>1 DEF Queued
  <1>3. ASSUME NEW at \in {"checked", "replied"}, NEW ok \in BOOLEAN, ~Free(x),
               Progress(x, at, ok),
               applied' \in [Ops -> Nat], \A o \in Ops : applied'[o] >= applied[o],
               at = "replied" /\ ok => applied'[call[x].op] > 0
        PROVE  IInv'
    <2> DEFINE k == [at |-> at, op |-> call[x].op, ok |-> ok]
    <2>1. \A y \in Slots : call'[y] = IF y = x THEN k ELSE call[y]
      BY <1>3 DEF IInv, Shaped, Progress
    <2>2. k \in CallRow /\ k.op = call[x].op /\ k.at = at /\ k.ok = ok
      BY <1>3 DEF IInv, Shaped, CallRow
    <2> HIDE DEF k
    <2>3. Shaped'
      <3>1. call' = [call EXCEPT ![x] = k]
        BY <1>3 DEF Progress, k
      <3> QED  BY <1>1, <1>3, <2>2, <3>1 DEF IInv, Shaped
    <2>4. CallsAreKnown'
      <3> SUFFICES ASSUME NEW y \in Slots, ~Free(y)'
                   PROVE  /\ call'[y].op \in Ops
                          /\ fate[call'[y].op] # "new"
                          /\ call'[y].at = "replied" /\ call'[y].ok => applied'[call'[y].op] > 0
        BY <1>1 DEF CallsAreKnown
      <3>1. CASE y = x
        BY <1>3, <2>1, <2>2, <3>1 DEF IInv, CallsAreKnown
      <3>2. CASE y # x
        <4>1. call'[y] = call[y] /\ ~Free(y)
          BY <2>1, <3>2 DEF Free
        <4>2. call[y].op \in Ops
          BY <4>1 DEF IInv, CallsAreKnown
        <4>3. applied'[call[y].op] >= applied[call[y].op] /\ applied'[call[y].op] \in Nat /\ applied[call[y].op] \in Nat
          BY <1>3, <4>2 DEF IInv, Shaped
        <4> QED  BY <4>1, <4>2, <4>3 DEF IInv, CallsAreKnown
      <3> QED  BY <3>1, <3>2
    <2>5. WritesAreSending'
      BY <1>1, <1>3, <2>1, <2>2 DEF IInv, WritesAreSending, Free
    <2>6. RowsAreQueued'
      BY <1>1, <1>2 DEF IInv, RowsAreQueued
    <2>7. FlushesAreQueued'
      BY <1>1, <1>3, <2>1, <2>2 DEF IInv, FlushesAreQueued, Free
    <2> QED  BY <2>3, <2>4, <2>5, <2>6, <2>7 DEF IInv
  <1>4. CASE Find(x) \/ Reject(x)
    <2>1. applied' = applied
      BY <1>4 DEF Find, Reject, server
    <2>2. ~Free(x) /\ \E at \in {"checked", "replied"} : Progress(x, at, FALSE)
      BY <1>4 DEF Find, Reject, Free
    <2>3. IInv'
      <3>1. applied' \in [Ops -> Nat] /\ \A o \in Ops : applied'[o] >= applied[o]
        BY <2>1 DEF IInv, Shaped
      <3>2. PICK at \in {"checked", "replied"} : Progress(x, at, FALSE)
        BY <2>2
      <3> QED  BY <1>3, <2>2, <3>1, <3>2
    <2> QED  BY <1>1, <1>2, <2>1, <2>3, Stutters DEF Good
  <1>5. CASE Write(x)
    <2>1. ~Free(x)
      BY <1>5 DEF Write, Free
    <2>2. PICK o \in Ops : o = call[x].op /\ fate[o] # "new"
      BY <2>1 DEF IInv, CallsAreKnown
    <2>3. PICK ok \in BOOLEAN : Progress(x, "replied", ok)
      BY <1>5 DEF Write
    <2>4. /\ applied' \in [Ops -> Nat]
          /\ \A p \in Ops : applied'[p] = IF p = o THEN applied[p] + 1 ELSE applied[p]
      BY <1>5, <2>2 DEF IInv, Shaped, Write
    <2>5. applied'[o] > 0 /\ \A p \in Ops : applied'[p] >= applied[p]
      BY <2>4 DEF IInv, Shaped
    <2>6. IInv'
      BY <1>3, <2>1, <2>2, <2>3, <2>4, <2>5
    <2>7. {p \in Ops : applied'[p] > 0} = {p \in Ops : applied[p] > 0} \cup {o}
      BY <2>4, <2>5 DEF IInv, Shaped
    <2>8. FateOf(o) # "new"
      BY <2>2 DEF FateOf
    <2>9. [p \in Ops |-> FateOf(p)]' = [p \in Ops |-> FateOf(p)]
      BY <1>1, <1>2 DEF FateOf
    <2>10. D!Apply(o)
      BY <2>7, <2>8, <2>9 DEF D!Apply
    <2> QED  BY <2>6, <2>10 DEF Good, D!Next
  <1> QED  BY <1>4, <1>5 DEF ServerStep, Serve

-----------------------------------------------------------------------------
LEMMA QueueNext ==
  ASSUME IInv, [Next]_vars
  PROVE  Good
  <1>1. CASE UNCHANGED vars
    BY <1>1, QuietGood DEF vars
  <1>2. CASE CheckHealth \/ RefreshOpenShift
    BY <1>2, QuietGood DEF CheckHealth, RefreshOpenShift, server
  <1>3. CASE Restart
    BY <1>3, RestartGood
  <1>4. CASE \E o \in Ops : SafeWrite(o) \/ WriteStep(o)
    BY <1>4, SafeWriteGood, WriteAnsweredGood, WriteThrowsGood DEF WriteStep
  <1>5. CASE \E f \in Flushes : SyncQueue(f) \/ FlushButton(f) \/ FlushStep(f)
    BY <1>5, ReadRowsGood, SkipRowGood, SendRowGood, RowAnsweredGood, RowThrowsGood
       DEF SyncQueue, FlushButton, FlushStep
  <1>6. CASE \E s \in Strays : Forgotten(s)
    BY <1>6, ForgottenGood
  <1>7. CASE \E x \in Slots : ServerStep(x)
    BY <1>7, ServerGood
  <1> QED  BY <1>1, <1>2, <1>3, <1>4, <1>5, <1>6, <1>7 DEF Next

(* PosQueue, Delivered: enqueueOperation, flushQueue and safeWrite remove a*)
(* queued operation only after the server has done it and lose none at a   *)
(* restart, for any number of operations, flushes, strays and restarts.    *)
THEOREM QueueDelivers == Spec => Delivered
  <1>1. Init => IInv /\ D!Init
    BY InitGood
  <1>2. IInv /\ [Next]_vars => IInv' /\ [D!Next]_(D!vars)
    BY QueueNext DEF Good
  <1> QED  BY <1>1, <1>2, PTL DEF Spec, Delivered, D!Spec

-----------------------------------------------------------------------------
(* One shift at a time.  While the server handles one request at a time,   *)
(* what a handler has found still holds when it writes: the invariant says *)
(* that at most one request is between its check and its write, and that   *)
(* its check still passes; the rest is about the table of shifts.          *)
ShiftShaped ==
  /\ ops \in [Ops -> [kind : Kinds \cup {None}, shift : Shifts \cup {None}]]
  /\ shifts \in [Shifts -> {"absent", "open", "closed"}]
  /\ openShift \in Shifts \cup {None}

(* An operation that was handed over has a kind, and a shift unless it     *)
(* opens one; one that was not has not been done.                          *)
HandedOver == \A o \in Ops :
  /\ fate[o] # "new" => /\ ops[o].kind \in Kinds
                        /\ ops[o].kind # "open" => ops[o].shift \in Shifts
  /\ fate[o] = "new" => applied[o] = 0

Checked(x) == call[x].at = "checked"
OneChecked == \A x, y \in Slots : Checked(x) /\ Checked(y) => x = y
CheckHolds == \A x \in Slots : Checked(x) => Passes(call[x].op)

OneOpen == \A s, t \in Shifts : Open(s) /\ Open(t) => s = t

(* The closes the server has done: one per shift, once, and it is closed.  *)
Closes(o) == ops[o].kind = "close" /\ applied[o] > 0
ClosedOnce ==
  /\ \A o \in Ops : Closes(o) => applied[o] = 1 /\ shifts[ops[o].shift] = "closed"
  /\ \A o, p \in Ops : Closes(o) /\ Closes(p) /\ ops[o].shift = ops[p].shift => o = p

ShiftInv == ShiftShaped /\ HandedOver /\ OneChecked /\ CheckHolds /\ OneOpen /\ ClosedOnce

(* The steps that neither hand over nor write.                             *)
Quiet ==
  /\ UNCHANGED <<ops, shifts, applied>>
  /\ openShift' \in Shifts \cup {None}
  /\ \A o \in Ops : fate'[o] = "new" <=> fate[o] = "new"

(* A request that is checked was checked before, perhaps in another slot.  *)
NoneChecked == \A y \in Slots : Checked(y)' => \E z \in Slots : call'[y] = call[z]

LEMMA QuietShift ==
  ASSUME IInv, ShiftInv, Quiet, NoneChecked, OneChecked'
  PROVE  ShiftInv'
  <1>1. ShiftShaped' /\ OneOpen' /\ ClosedOnce'
    BY DEF Quiet, ShiftInv, ShiftShaped, OneOpen, Open, ClosedOnce, Closes
  <1>2. HandedOver'
    BY DEF Quiet, ShiftInv, HandedOver
  <1>3. CheckHolds'
    <2> SUFFICES ASSUME NEW y \in Slots, Checked(y)' PROVE Passes(call[y].op)'
      BY DEF CheckHolds
    <2>1. PICK z \in Slots : call'[y] = call[z]
      BY DEF NoneChecked
    <2>2. Checked(z)
      BY <2>1 DEF Checked
    <2>3. Passes(call[z].op)
      BY <2>2 DEF ShiftInv, CheckHolds
    <2> QED  BY <2>1, <2>3 DEF Quiet, Passes, Open, OpenShifts
  <1> QED  BY <1>1, <1>2, <1>3 DEF ShiftInv

(* Requests that stay where they are, end, or are not checked.             *)
LEMMA StayShift ==
  ASSUME IInv, ShiftInv, Quiet,
         \A y \in Slots : call'[y].at # "checked" \/ call'[y] = call[y]
  PROVE  ShiftInv'
  <1>1. NoneChecked
    BY DEF NoneChecked, Checked
  <1>2. OneChecked'
    BY DEF ShiftInv, OneChecked, Checked
  <1> QED  BY <1>1, <1>2, QuietShift

LEMMA EndShift ==
  ASSUME IInv, ShiftInv, Quiet, NEW x \in Slots, call' = [call EXCEPT ![x] = NoCall]
  PROVE  ShiftInv'
  <1>1. \A y \in Slots : call'[y] = IF y = x THEN NoCall ELSE call[y]
    BY DEF IInv, Shaped
  <1> QED  BY <1>1, StayShift DEF NoCall

LEMMA ThrowShift ==
  ASSUME IInv, ShiftInv, Quiet, NEW x \in Ops \cup Flushes, Throws(x)
  PROVE  ShiftInv'
  <1>1. CASE call' = [call EXCEPT ![x] = NoCall]
    BY <1>1, EndShift
  <1>2. ASSUME NEW s \in Strays, call' = [call EXCEPT ![s] = call[x], ![x] = NoCall]
        PROVE  ShiftInv'
    <2>1. s # x /\ s \in Slots /\ x \in Slots
      OBVIOUS
    <2>2. \A y \in Slots : call'[y] = IF y = x THEN NoCall ELSE IF y = s THEN call[x] ELSE call[y]
      BY <1>2, <2>1 DEF IInv, Shaped
    <2>3. NoneChecked
      BY <2>1, <2>2 DEF NoneChecked, Checked, NoCall
    <2>4. OneChecked'
      BY <2>1, <2>2 DEF ShiftInv, OneChecked, Checked, NoCall
    <2> QED  BY <2>3, <2>4, QuietShift
  <1> QED  BY <1>1, <1>2 DEF Throws

LEMMA RestartShift ==
  ASSUME IInv, ShiftInv, Restart
  PROVE  ShiftInv'
  <1> DEFINE free == {s \in Strays : Free(s)}
             under == {x \in Ops \cup Flushes : call[x].at \in {"sent", "checked"}}
  <1>1. /\ fate' = [o \in Ops |-> IF fate[o] = "sending" THEN "lost" ELSE fate[o]]
        /\ UNCHANGED <<ops, shifts, applied>>
        /\ openShift' = None
    BY DEF Restart, server
  <1>2. PICK goesOn \in [free -> under \cup {None}] :
          /\ \A s, t \in free : s # t /\ goesOn[s] = goesOn[t] => goesOn[s] = None
          /\ call' = [x \in Slots |->
                     IF x \in Ops \cup Flushes THEN NoCall
                     ELSE IF x \in free /\ goesOn[x] # None THEN call[goesOn[x]]
                     ELSE call[x]]
    BY DEF Restart
  <1>3. Quiet
    BY <1>1 DEF Quiet
  <1>4. ASSUME NEW y \in Slots, Checked(y)'
        PROVE  \/ y \in free /\ goesOn[y] \in under /\ call'[y] = call[goesOn[y]]
               \/ y \notin Ops \cup Flushes /\ call'[y] = call[y]
    BY <1>2, <1>4 DEF Checked, NoCall
  <1>5. NoneChecked
    BY <1>4 DEF NoneChecked
  <1>6. ASSUME NEW y \in Slots, NEW z \in Slots, Checked(y)', Checked(z)'
        PROVE  y = z
    <2>1. CASE /\ y \in free /\ goesOn[y] \in under /\ call'[y] = call[goesOn[y]]
               /\ z \in free /\ goesOn[z] \in under /\ call'[z] = call[goesOn[z]]
      <3>1. Checked(goesOn[y]) /\ Checked(goesOn[z]) /\ goesOn[y] \in Slots /\ goesOn[z] \in Slots
        BY <1>6, <2>1 DEF Checked
      <3>2. goesOn[y] = goesOn[z]
        BY <3>1 DEF ShiftInv, OneChecked
      <3>3. None \notin under
        OBVIOUS
      <3> QED  BY <1>2, <2>1, <3>2, <3>3
    <2>2. CASE /\ y \in free /\ goesOn[y] \in under /\ call'[y] = call[goesOn[y]]
               /\ z \notin Ops \cup Flushes /\ call'[z] = call[z]
      <3>1. Checked(goesOn[y]) /\ Checked(z) /\ goesOn[y] \in Slots
        BY <1>6, <2>2 DEF Checked
      <3> QED  BY <2>2, <3>1 DEF ShiftInv, OneChecked
    <2>3. CASE /\ z \in free /\ goesOn[z] \in under /\ call'[z] = call[goesOn[z]]
               /\ y \notin Ops \cup Flushes /\ call'[y] = call[y]
      <3>1. Checked(goesOn[z]) /\ Checked(y) /\ goesOn[z] \in Slots
        BY <1>6, <2>3 DEF Checked
      <3> QED  BY <2>3, <3>1 DEF ShiftInv, OneChecked
    <2>4. CASE call'[y] = call[y] /\ call'[z] = call[z]
      BY <1>6, <2>4 DEF ShiftInv, OneChecked, Checked
    <2> HIDE DEF free, under
    <2> QED  BY <1>4, <1>6, <2>1, <2>2, <2>3, <2>4
  <1>7. OneChecked'
    BY <1>6 DEF OneChecked
  <1> QED  BY <1>3, <1>5, <1>7, QuietShift

LEMMA SafeWriteShift ==
  ASSUME IInv, ShiftInv, NEW o \in Ops, SafeWrite(o)
  PROVE  ShiftInv'
  <1>1. PICK kind \in Kinds : HandOver(o, kind)
    BY DEF SafeWrite
  <1>2. /\ fate[o] = "new"
        /\ ops' = [ops EXCEPT ![o] = [kind |-> kind, shift |-> openShift]]
        /\ kind # "open" => openShift \in Shifts
        /\ UNCHANGED <<shifts, applied, openShift>>
    BY <1>1 DEF SafeWrite, HandOver, ShiftInv, ShiftShaped, server, till
  <1> DEFINE row == [kind |-> kind, shift |-> openShift]
  <1>3. row \in [kind : Kinds \cup {None}, shift : Shifts \cup {None}]
    BY DEF ShiftInv, ShiftShaped
  <1>4. \A p \in Ops : ops'[p] = IF p = o THEN row ELSE ops[p]
    BY <1>2 DEF ShiftInv, ShiftShaped
  <1>5. \A p \in Ops \ {o} : fate'[p] = fate[p]
    BY DEF SafeWrite, Enqueue, IInv, Shaped
  <1>6. fate'[o] # "new"
    BY DEF SafeWrite, Enqueue, IInv, Shaped
  <1>7. applied[o] = 0
    BY <1>2 DEF ShiftInv, HandedOver
  <1>8. ShiftShaped'
    BY <1>2, <1>3 DEF ShiftInv, ShiftShaped
  <1>9. HandedOver'
    BY <1>2, <1>4, <1>5, <1>6 DEF ShiftInv, HandedOver
  <1>10. OneOpen' /\ ClosedOnce'
    BY <1>2, <1>4, <1>7 DEF ShiftInv, OneOpen, Open, ClosedOnce, Closes
  <1>11. \A y \in Slots : Checked(y)' => call'[y] = call[y]
    <2>1. CASE call' = call
      BY <2>1
    <2>2. CASE call' = [call EXCEPT ![o] = Request(o)]
      BY <2>2 DEF IInv, Shaped, Checked, Request
    <2> QED  BY <2>1, <2>2 DEF SafeWrite
  <1>12. OneChecked'
    BY <1>11 DEF ShiftInv, OneChecked, Checked
  <1>13. CheckHolds'
    <2> SUFFICES ASSUME NEW y \in Slots, Checked(y)' PROVE Passes(call[y].op)'
      BY DEF CheckHolds
    <2>1. call'[y] = call[y] /\ Checked(y)
      BY <1>11 DEF Checked
    <2>2. call[y].op \in Ops /\ fate[call[y].op] # "new"
      BY <2>1 DEF IInv, CallsAreKnown, Free, Checked
    <2>3. ops'[call[y].op] = ops[call[y].op]
      BY <1>2, <1>4, <2>2
    <2>4. Passes(call[y].op)
      BY <2>1 DEF ShiftInv, CheckHolds
    <2> QED  BY <1>2, <2>1, <2>3, <2>4 DEF Passes, Open, OpenShifts
  <1> QED  BY <1>8, <1>9, <1>10, <1>12, <1>13 DEF ShiftInv

(* The answer ends the form's request, or its failure queues the operation.*)
LEMMA WriteStepShift ==
  ASSUME IInv, ShiftInv, NEW o \in Ops, WriteStep(o)
  PROVE  ShiftInv'
  <1>1. ~Free(o)
    BY DEF WriteStep, WriteAnswered, WriteThrows, Throws, Free
  <1>2. fate[o] = "sending"
    BY <1>1 DEF IInv, WritesAreSending
  <1>3. CASE WriteAnswered(o)
    <2>1. call' = [call EXCEPT ![o] = NoCall]
      BY <1>3 DEF WriteAnswered
    <2>2. Quiet
      BY <1>2, <1>3 DEF WriteAnswered, Quiet, server, till, ShiftInv, ShiftShaped, IInv, Shaped
    <2> QED  BY <2>1, <2>2, EndShift
  <1>4. CASE WriteThrows(o)
    <2>1. Throws(o)
      BY <1>4 DEF WriteThrows
    <2>2. Quiet
      BY <1>2, <1>4 DEF WriteThrows, Enqueue, Quiet, server, till, ShiftInv, ShiftShaped, IInv, Shaped
    <2> QED  BY <2>1, <2>2, ThrowShift
  <1> QED  BY <1>3, <1>4 DEF WriteStep

LEMMA FlushShift ==
  ASSUME IInv, ShiftInv, NEW f \in Flushes, SyncQueue(f) \/ FlushButton(f) \/ FlushStep(f)
  PROVE  ShiftInv'
  <1>1. Quiet
    BY DEF Quiet, SyncQueue, FlushButton, ReadRows, FlushStep, SkipRow, SendRow, RowAnswered, RowThrows,
           server, till, ShiftInv, ShiftShaped
  <1>2. CASE call' = call
    BY <1>1, <1>2, StayShift
  <1>3. CASE SendRow(f)
    <2>1. PICK row : call' = [call EXCEPT ![f] = Request(row.op)]
      BY <1>3 DEF SendRow
    <2>2. \A y \in Slots : call'[y].at # "checked" \/ call'[y] = call[y]
      BY <2>1 DEF IInv, Shaped, Request
    <2> QED  BY <1>1, <2>2, StayShift
  <1>4. CASE RowAnswered(f)
    <2>1. call' = [call EXCEPT ![f] = NoCall]
      BY <1>4 DEF RowAnswered
    <2> QED  BY <1>1, <2>1, EndShift
  <1>5. CASE RowThrows(f)
    <2>1. Throws(f)
      BY <1>5 DEF RowThrows
    <2> QED  BY <1>1, <2>1, ThrowShift
  <1>6. SyncQueue(f) \/ FlushButton(f) \/ SkipRow(f) => call' = call
    BY DEF SyncQueue, FlushButton, ReadRows, SkipRow
  <1> QED  BY <1>2, <1>3, <1>4, <1>5, <1>6 DEF FlushStep

-----------------------------------------------------------------------------
(* The server's steps.                                                     *)
LEMMA FindShift ==
  ASSUME MaxHandlers = 1, IInv, ShiftInv, NEW x \in Slots, Find(x), ServerStep(x)
  PROVE  ShiftInv'
  <1>1. Handling = {}
    <2>1. IsFiniteSet(Handling)
      BY FiniteAssumption, FS_Subset DEF Handling
    <2>2. Cardinality(Handling) \in Nat /\ Cardinality(Handling) < 1
      BY <2>1, FS_CardinalityType DEF Find
    <2> QED  BY <2>1, <2>2, FS_EmptySet
  <1> DEFINE k == [at |-> "checked", op |-> call[x].op, ok |-> FALSE]
  <1>2. call' = [call EXCEPT ![x] = k]
    BY DEF Find, Progress
  <1>3. k.at = "checked" /\ k.op = call[x].op
    OBVIOUS
  <1> HIDE DEF k
  <1>4. \A y \in Slots : call'[y] = IF y = x THEN k ELSE call[y]
    BY <1>2 DEF IInv, Shaped
  <1>5. \A y \in Slots : Checked(y)' => y = x
    BY <1>1, <1>4 DEF Checked, Handling
  <1>6. UNCHANGED <<ops, shifts, applied, openShift, fate>>
    BY DEF Find, ServerStep, server, till
  <1>7. OneChecked'
    BY <1>5 DEF OneChecked
  <1>8. Passes(call[x].op)
    BY DEF Find
  <1>9. CheckHolds'
    BY <1>3, <1>4, <1>5, <1>6, <1>8 DEF CheckHolds, Passes, Open, OpenShifts
  <1>10. ShiftShaped' /\ OneOpen' /\ ClosedOnce' /\ HandedOver'
    BY <1>6 DEF ShiftInv, ShiftShaped, OneOpen, Open, ClosedOnce, Closes, HandedOver
  <1> QED  BY <1>7, <1>9, <1>10 DEF ShiftInv

LEMMA RejectShift ==
  ASSUME IInv, ShiftInv, NEW x \in Slots, Reject(x), ServerStep(x)
  PROVE  ShiftInv'
  <1>1. call' = [call EXCEPT ![x] = [at |-> "replied", op |-> call[x].op, ok |-> FALSE]]
    BY DEF Reject, Progress
  <1>2. \A y \in Slots : call'[y].at # "checked" \/ call'[y] = call[y]
    BY <1>1 DEF IInv, Shaped
  <1>3. Quiet
    BY DEF Quiet, Reject, ServerStep, server, till, ShiftInv, ShiftShaped
  <1> QED  BY <1>2, <1>3, StayShift

(* What is written passed the check, and passes it still.                  *)
LEMMA WritePasses ==
  ASSUME IInv, ShiftInv, NEW x \in Slots, Write(x)
  PROVE  /\ call[x].op \in Ops
         /\ fate[call[x].op] # "new"
         /\ Passes(call[x].op)
         /\ \A p \in Ops : applied'[p] = IF p = call[x].op THEN applied[p] + 1 ELSE applied[p]
  <1>1. Checked(x)
    BY DEF Write, Checked
  <1>2. call[x].op \in Ops /\ fate[call[x].op] # "new" /\ Passes(call[x].op)
    BY <1>1 DEF IInv, CallsAreKnown, Free, Checked, ShiftInv, CheckHolds
  <1> QED  BY <1>2 DEF Write, IInv, Shaped

LEMMA WriteShift ==
  ASSUME IInv, ShiftInv, NEW x \in Slots, Write(x), ServerStep(x)
  PROVE  ShiftInv'
  <1>1. PICK o \in Ops : o = call[x].op
    BY WritePasses
  <1>2. fate[o] # "new" /\ Passes(o) /\ \A p \in Ops : applied'[p] = IF p = o THEN applied[p] + 1 ELSE applied[p]
    BY <1>1, WritePasses
  <1>3. UNCHANGED <<ops, openShift, fate>> /\ Written(o)
    BY <1>1 DEF Write, ServerStep, till
  <1>4. \A y \in Slots : ~Checked(y)'
    <2>1. PICK ok : call' = [call EXCEPT ![x] = [at |-> "replied", op |-> call[x].op, ok |-> ok]]
      BY DEF Write, Progress
    <2>2. Checked(x)
      BY DEF Write, Checked
    <2>3. call'[x].at = "replied" /\ \A y \in Slots \ {x} : call'[y] = call[y]
      BY <2>1 DEF IInv, Shaped
    <2> QED  BY <2>2, <2>3 DEF ShiftInv, OneChecked, Checked
  <1>5. OneChecked' /\ CheckHolds'
    BY <1>4 DEF OneChecked, CheckHolds
  <1>6. HandedOver'
    BY <1>2, <1>3 DEF ShiftInv, HandedOver
  <1>7. \A p \in Ops : applied[p] \in Nat
    BY DEF IInv, Shaped
  <1>8. CASE ops[o].kind = "open"
    <2>1. PICK s \in Shifts : shifts[s] = "absent" /\ shifts' = [shifts EXCEPT ![s] = "open"]
      BY <1>3, <1>8 DEF Written
    <2>2. \A t \in Shifts : shifts'[t] = IF t = s THEN "open" ELSE shifts[t]
      BY <2>1 DEF ShiftInv, ShiftShaped
    <2>3. OpenShifts = {}
      BY <1>2, <1>8 DEF Passes
    <2>4. ShiftShaped'
      BY <1>3, <2>1 DEF ShiftInv, ShiftShaped
    <2>5. OneOpen'
      BY <2>2, <2>3 DEF OneOpen, Open, OpenShifts
    <2>6. \A p \in Ops : Closes(p)' <=> Closes(p)
      BY <1>2, <1>3, <1>8 DEF Closes
    <2>7. \A p \in Ops : Closes(p) => applied'[p] = applied[p] /\ ops[p].shift \in Shifts
      <3>1. \A p \in Ops : Closes(p) => fate[p] # "new"
        BY <1>7 DEF Closes, ShiftInv, HandedOver
      <3> QED  BY <1>2, <1>8, <3>1 DEF Closes, ShiftInv, HandedOver
    <2>8. ClosedOnce'
      BY <1>3, <2>1, <2>2, <2>6, <2>7 DEF ShiftInv, ClosedOnce
    <2> QED  BY <1>5, <1>6, <2>4, <2>5, <2>8 DEF ShiftInv
  <1>9. CASE ops[o].kind = "close"
    <2>1. ops[o].shift \in Shifts /\ shifts[ops[o].shift] = "open"
      BY <1>2, <1>9 DEF Passes, Open, ShiftInv, HandedOver
    <2>2. shifts' = [shifts EXCEPT ![ops[o].shift] = "closed"]
      BY <1>3, <1>9 DEF Written
    <2>3. \A t \in Shifts : shifts'[t] = IF t = ops[o].shift THEN "closed" ELSE shifts[t]
      BY <2>2 DEF ShiftInv, ShiftShaped
    <2>4. \A p \in Ops : Closes(p) => ops[p].shift # ops[o].shift /\ ops[p].shift \in Shifts /\ p # o
      <3>1. \A p \in Ops : Closes(p) => fate[p] # "new"
        BY <1>7 DEF Closes, ShiftInv, HandedOver
      <3>2. \A p \in Ops : Closes(p) => ops[p].shift \in Shifts
        BY <3>1 DEF Closes, ShiftInv, HandedOver
      <3> QED  BY <2>1, <3>2 DEF ShiftInv, ClosedOnce
    <2>5. applied[o] = 0 /\ applied'[o] = 1
      BY <1>2, <1>7, <1>9, <2>4 DEF Closes
    <2>6. \A p \in Ops : Closes(p)' <=> (Closes(p) \/ p = o)
      BY <1>2, <1>3, <1>9, <2>5 DEF Closes
    <2>7. ShiftShaped'
      BY <1>3, <2>1, <2>2 DEF ShiftInv, ShiftShaped
    <2>8. OneOpen'
      BY <2>3 DEF ShiftInv, OneOpen, Open
    <2>9. ClosedOnce'
      <3>1. ASSUME NEW p \in Ops, Closes(p)'
            PROVE  applied'[p] = 1 /\ shifts'[ops'[p].shift] = "closed"
        BY <1>2, <1>3, <2>1, <2>3, <2>4, <2>5, <2>6, <3>1 DEF ShiftInv, ClosedOnce
      <3>2. ASSUME NEW p \in Ops, NEW q \in Ops, Closes(p)', Closes(q)', ops'[p].shift = ops'[q].shift
            PROVE  p = q
        BY <1>3, <2>4, <2>6, <3>2 DEF ShiftInv, ClosedOnce
      <3> QED  BY <3>1, <3>2 DEF ClosedOnce
    <2> QED  BY <1>5, <1>6, <2>7, <2>8, <2>9 DEF ShiftInv
  <1>10. CASE ops[o].kind \in {"drop", "sale"} /\ shifts' = shifts
    <2>1. \A p \in Ops : (Closes(p)' <=> Closes(p)) /\ (Closes(p) => applied'[p] = applied[p])
      BY <1>2, <1>3, <1>10 DEF Closes
    <2>2. ClosedOnce'
      BY <1>3, <1>10, <2>1 DEF ShiftInv, ClosedOnce
    <2>3. ShiftShaped' /\ OneOpen'
      BY <1>3, <1>10 DEF ShiftInv, ShiftShaped, OneOpen, Open
    <2> QED  BY <1>5, <1>6, <2>2, <2>3 DEF ShiftInv
  <1> QED  BY <1>3, <1>8, <1>9, <1>10 DEF Written

-----------------------------------------------------------------------------
LEMMA ShiftStart == Init => ShiftInv
  <1> SUFFICES ASSUME Init PROVE ShiftInv
    OBVIOUS
  <1>1. PICK t \in Shifts \cup {None} : shifts = [s \in Shifts |-> IF s = t THEN "open" ELSE "absent"]
    BY DEF Init
  <1>2. ShiftShaped /\ OneOpen
    BY <1>1 DEF Init, ShiftShaped, OneOpen, Open
  <1>3. HandedOver /\ OneChecked /\ CheckHolds /\ ClosedOnce
    BY DEF Init, HandedOver, OneChecked, CheckHolds, Checked, NoCall, ClosedOnce, Closes
  <1> QED  BY <1>2, <1>3 DEF ShiftInv

LEMMA ShiftNext ==
  ASSUME MaxHandlers = 1, IInv, ShiftInv, [Next]_vars
  PROVE  ShiftInv'
  <1>1. CASE UNCHANGED vars
    <2>1. Quiet
      BY <1>1 DEF vars, Quiet, ShiftInv, ShiftShaped
    <2> QED  BY <1>1, <2>1, StayShift DEF vars
  <1>2. CASE CheckHealth \/ RefreshOpenShift
    <2>1. Quiet /\ call' = call
      BY <1>2 DEF CheckHealth, RefreshOpenShift, OpenShifts, server, Quiet, ShiftInv, ShiftShaped
    <2> QED  BY <2>1, StayShift
  <1>3. CASE Restart
    BY <1>3, RestartShift
  <1>4. CASE \E o \in Ops : SafeWrite(o) \/ WriteStep(o)
    BY <1>4, SafeWriteShift, WriteStepShift
  <1>5. CASE \E f \in Flushes : SyncQueue(f) \/ FlushButton(f) \/ FlushStep(f)
    BY <1>5, FlushShift
  <1>6. CASE \E s \in Strays : Forgotten(s)
    <2>1. PICK s \in Strays : Forgotten(s)
      BY <1>6
    <2>2. Quiet
      BY <2>1 DEF Forgotten, Quiet, server, till, ShiftInv, ShiftShaped
    <2>3. call' = [call EXCEPT ![s] = NoCall] /\ s \in Slots
      BY <2>1 DEF Forgotten
    <2> QED  BY <2>2, <2>3, EndShift
  <1>7. CASE \E x \in Slots : ServerStep(x)
    <2>1. PICK x \in Slots : ServerStep(x)
      BY <1>7
    <2>2. Find(x) \/ Reject(x) \/ Write(x)
      BY <2>1 DEF ServerStep, Serve
    <2> QED  BY <2>1, <2>2, FindShift, RejectShift, WriteShift
  <1> QED  BY <1>1, <1>2, <1>3, <1>4, <1>5, <1>6, <1>7 DEF Next

LEMMA ShiftsHold == MaxHandlers = 1 => (Spec => [](IInv /\ ShiftInv))
  <1> SUFFICES ASSUME MaxHandlers = 1 PROVE Spec => [](IInv /\ ShiftInv)
    OBVIOUS
  <1>1. Init => IInv /\ ShiftInv
    BY InitGood, ShiftStart
  <1>2. IInv /\ ShiftInv /\ [Next]_vars => (IInv /\ ShiftInv)'
    BY QueueNext, ShiftNext DEF Good
  <1> QED  BY <1>1, <1>2, PTL DEF Spec

(* The closes of a shift that count are at most one, done once.            *)
LEMMA ClosesAddUp ==
  ASSUME IInv, ShiftInv, NEW s \in Shifts
  PROVE  SumFunctionOnSet(applied, {o \in Ops : ops[o].kind = "close" /\ ops[o].shift = s}) <= 1
  <1> DEFINE all == {o \in Ops : ops[o].kind = "close" /\ ops[o].shift = s}
             done == {o \in all : applied[o] > 0}
  <1>1. IsFiniteSet(Ops)
    BY FiniteAssumption, FS_Subset
  <1>2. IsFiniteSet(all) /\ done \in SUBSET all
    BY <1>1, FS_Subset
  <1>3. \A o \in all : applied[o] \in Int /\ applied[o] \in Nat
    BY DEF IInv, Shaped
  <1>4. \A o \in all \ done : applied[o] = 0
    BY <1>3
  <1>5. PICK f : f = applied
    OBVIOUS
  <1>6. SumFunctionOnSet(f, all) = SumFunctionOnSet(f, done)
    <2> HIDE DEF all, done
    <2>1. \A o \in all : f[o] \in Int
      BY <1>3, <1>5
    <2>2. \A o \in all \ done : f[o] = 0
      BY <1>4, <1>5
    <2> QED  BY <1>2, <2>1, <2>2, SumSupport
  <1>7. SumFunctionOnSet(f, done) <= 1
    <2>1. CASE done = {}
      <3>1. SumFunctionOnSet(f, {}) = 0
        BY SumEmpty
      <3> HIDE DEF done
      <3> QED  BY <2>1, <3>1
    <2>2. CASE done # {}
      <3>1. PICK o \in Ops : o \in done
        BY <2>2
      <3>2. done = {o}
        BY <3>1 DEF ShiftInv, ClosedOnce, Closes
      <3>3. f[o] = 1
        BY <1>5, <3>1 DEF ShiftInv, ClosedOnce, Closes
      <3>4. SumFunctionOnSet(f, {o}) = 1
        <4>1. IsFiniteSet({}) /\ o \notin {} /\ {} \cup {o} = {o} /\ \A x \in {} \cup {o} : f[x] \in Int
          BY <3>3, FS_EmptySet
        <4>2. SumFunctionOnSet(f, {} \cup {o}) = f[o] + SumFunctionOnSet(f, {})
          BY <4>1, SumInsert
        <4> QED  BY <3>3, <4>1, <4>2, SumEmpty
      <3> HIDE DEF done
      <3> QED  BY <3>2, <3>4
    <2> QED  BY <2>1, <2>2
  <1> QED  BY <1>5, <1>6, <1>7

(* startShift and closeShift: while the server handles one request at a    *)
(* time, a device has at most one open shift and a shift is closed once,   *)
(* for any number of operations, replays, lost replies and restarts.       *)
THEOREM OneShiftStays == MaxHandlers = 1 => (Spec => []OneShiftAtATime)
  <1> SUFFICES ASSUME MaxHandlers = 1 PROVE Spec => []OneShiftAtATime
    OBVIOUS
  <1>1. IInv /\ ShiftInv => OneShiftAtATime
    <2> SUFFICES ASSUME IInv, ShiftInv PROVE OneShiftAtATime
      OBVIOUS
    <2>1. Cardinality(OpenShifts) <= 1
      <3>1. CASE OpenShifts = {}
        BY <3>1, FS_EmptySet
      <3>2. CASE OpenShifts # {}
        <4>1. PICK s \in Shifts : OpenShifts = {s}
          BY <3>2 DEF OpenShifts, ShiftInv, OneOpen, Open
        <4>2. Cardinality({s}) = 1
          BY FS_Singleton
        <4> QED  BY <4>1, <4>2
      <3> QED  BY <3>1, <3>2
    <2> QED  BY <2>1, ClosesAddUp DEF OneShiftAtATime
  <1> QED  BY <1>1, ShiftsHold, PTL

(* createCashDrop: while the server handles one request at a time, a cash  *)
(* drop is recorded only in a shift that is open, however late it is       *)
(* replayed.                                                               *)
THEOREM DropsStayInOpenShifts == MaxHandlers = 1 => (Spec => DropsWhileOpen)
  <1> SUFFICES ASSUME MaxHandlers = 1 PROVE Spec => DropsWhileOpen
    OBVIOUS
  <1> DEFINE Drops == \A o \in Ops :
               ops[o].kind = "drop" /\ applied'[o] > applied[o] => shifts[ops[o].shift] = "open"
  <1>1. ASSUME IInv, ShiftInv, [Next]_vars PROVE Drops
    <2>1. CASE applied' = applied
      BY <1>1, <2>1 DEF IInv, Shaped
    <2>2. ASSUME NEW x \in Slots, Write(x) PROVE Drops
      BY <1>1, <2>2, WritePasses DEF IInv, Shaped, Passes, Open
    <2>3. applied' = applied \/ \E x \in Slots : Write(x)
      BY <1>1 DEF Next, vars, server, CheckHealth, RefreshOpenShift, Restart, SafeWrite, WriteStep,
                  WriteAnswered, WriteThrows, SyncQueue, FlushButton, ReadRows, FlushStep, SkipRow, SendRow,
                  RowAnswered, RowThrows, Forgotten, ServerStep, Serve, Find, Reject
    <2> QED  BY <2>1, <2>2, <2>3
  <1>2. IInv /\ ShiftInv /\ [Next]_vars => [Drops]_vars
    BY <1>1
  <1> QED  BY <1>2, ShiftsHold, PTL DEF Spec, DropsWhileOpen

=============================================================================
