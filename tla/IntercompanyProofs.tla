------------------------- MODULE IntercompanyProofs --------------------------
(***************************************************************************)
(* The month of a holding company, for any number of handlers, companies   *)
(* and bills.  While handlers run one at a time, wherever they stop: under *)
(* the lock of a period only a payment taken back issues a bill, the       *)
(* entries of a bill balance, a paid bill was paid, and a period that is   *)
(* closed is complete.                                                     *)
(* One section per invariant.                                              *)
(***************************************************************************)
EXTENDS BackOffice, SumTheorems

(* The fields of a bill and of a handler.                                  *)
BillFields == {"status", "recipient", "net", "credit"}
TaskFields == {"at", "close", "total", "split", "left", "bill", "to", "net"}
(* A handler is a record with the fields of Idle.                          *)
TaskRow(t) == t = [f \in TaskFields |-> t[f]]

(* The tables are functions and their rows records.                        *)
TasksShaped == task = [k \in Clerks |-> task[k]] /\ \A k \in Clerks : TaskRow(task[k])
BillsShaped ==
  bills = [b \in Bills |-> bills[b]] /\ \A b \in Bills : bills[b] = [f \in BillFields |-> bills[b][f]]
PaymentsShaped == banked \in [Bills -> Int] /\ paying \in [Bills -> {"unpaid", "late", "summed"}]
FinanceShaped == TasksShaped /\ BillsShaped /\ PaymentsShaped

(* What a handler knows where it stands.                                   *)
Knows(t) ==
  /\ t.at \in {"pay", "note", "sum", "settle"} => t.bill \in Bills
  /\ t.at = "pay" => t.net \in Sums
  /\ calm /\ t.at = "settle" /\ t.to = "issued" =>
       bills[t.bill].status # "draft" /\ banked[t.bill] <= 0
  /\ calm /\ t.at = "issue" => ~locked

(* The invariant: the shapes, and what every handler knows.                *)
LockInv == FinanceShaped /\ \A k \in Clerks : Knows(task[k])

(* Places where a handler needs to know nothing.                           *)
Plain == {"idle", "pool", "reweigh", "weigh", "plan", "clear", "share", "bill", "find", "write",
          "lock", "credit", "another", "post", "unpost", "seller", "buyer"}

(* A handler goes to its next place.                                       *)
LEMMA GoesSets ==
  ASSUME FinanceShaped, NEW k \in Clerks, NEW next, task' = [task EXCEPT ![k] = next], TaskRow(next)
  PROVE  /\ task'[k] = next
         /\ \A j \in Clerks : j # k => task'[j] = task[j]
         /\ TasksShaped'
  <1>1. task'[k] = next /\ \A j \in Clerks : j # k => task'[j] = task[j]
    BY DEF FinanceShaped, TasksShaped
  <1>2. task' = [j \in Clerks |-> task'[j]]
    BY DEF FinanceShaped, TasksShaped
  <1> QED  BY <1>1, <1>2 DEF FinanceShaped, TasksShaped, TaskRow

LEMMA IdleIsRow == TaskRow(Idle)
  BY DEF TaskRow, TaskFields, Idle

(* The step of a handler that leaves bills and payments alone and goes to  *)
(* a place where it needs to know nothing.                                 *)
GoesToPlain(k) ==
  \E next : /\ TaskRow(next) /\ next.at \in Plain
            /\ task' = [task EXCEPT ![k] = next]

(* What the other handlers know is not disturbed: while calm they are      *)
(* idle.                                                                   *)
LEMMA OthersKnow ==
  ASSUME LockInv, NEW k \in Clerks,
         \A j \in Clerks : j # k => task'[j] = task[j],
         calm' => \A j \in Clerks \ {k} : At(j, "idle")
  PROVE  \A j \in Clerks \ {k} : Knows(task[j])'
  BY DEF LockInv, Knows, At

(* A step to a plain place keeps the invariant.                            *)
LEMMA PlainKeeps ==
  ASSUME LockInv, NEW k \in Clerks, GoesToPlain(k), UNCHANGED <<bills, banked, paying>>,
         calm' => \A j \in Clerks \ {k} : At(j, "idle")
  PROVE  LockInv'
  <1>1. PICK next : /\ TaskRow(next) /\ next.at \in Plain
                    /\ task' = [task EXCEPT ![k] = next]
    BY DEF GoesToPlain
  <1>2. /\ task'[k] = next /\ \A j \in Clerks : j # k => task'[j] = task[j]
        /\ FinanceShaped'
    BY <1>1, GoesSets DEF LockInv, FinanceShaped, BillsShaped, PaymentsShaped
  <1>3. Knows(task[k])'
    BY <1>1, <1>2 DEF Knows, Plain
  <1>4. \A j \in Clerks \ {k} : Knows(task[j])'
    BY <1>2, OthersKnow
  <1> QED  BY <1>2, <1>3, <1>4 DEF LockInv

LEMMA ThenIsPlain ==
  ASSUME FinanceShaped, NEW k \in Clerks, NEW place \in Plain, Then(k, place)
  PROVE  GoesToPlain(k)
  <1> DEFINE next == [task[k] EXCEPT !.at = place]
  <1>1. TaskRow(next) /\ next.at = place
    BY DEF FinanceShaped, TasksShaped, TaskRow, TaskFields
  <1>2. task' = [task EXCEPT ![k] = next]
    BY DEF Then, Goes
  <1> HIDE DEF next
  <1> QED  BY <1>1, <1>2 DEF GoesToPlain

LEMMA IdleIsPlain ==
  ASSUME FinanceShaped, NEW k \in Clerks, Goes(k, Idle) \/ Begin(k, Idle)
  PROVE  GoesToPlain(k)
  <1>1. TaskRow(Idle) /\ Idle.at \in Plain
    BY IdleIsRow DEF Idle, Plain
  <1>2. task' = [task EXCEPT ![k] = Idle]
    BY DEF Goes, Begin
  <1> QED  BY <1>1, <1>2 DEF GoesToPlain

LEMMA BeginIsPlain ==
  ASSUME NEW k \in Clerks, NEW next, TaskRow(next), next.at \in Plain,
         Begin(k, next) \/ Goes(k, next)
  PROVE  GoesToPlain(k)
  BY DEF GoesToPlain, Begin, Goes

(* The steps of the month's close before its bills, and the locks.         *)
Planning(k) ==
  \/ AskPool(k) \/ PoolUpsert(k) \/ WeightsDelete(k) \/ WeightsCreate(k)
  \/ AllocateRead(k) \/ AllocateDelete(k) \/ AllocateCreate(k)
  \/ GenerateRead(k) \/ GenerateFind(k) \/ SetLock(k)

LEMMA PlanningIsPlain ==
  ASSUME FinanceShaped, NEW k \in Clerks, Planning(k)
  PROVE  GoesToPlain(k) /\ UNCHANGED <<bills, banked, paying>>
  <1> USE DEF ledgers
  <1>1. CASE AskPool(k)
    <2>1. PICK total \in PoolTotals, split \in Splits, close \in BOOLEAN :
            Begin(k, [Idle EXCEPT !.at = "pool", !.close = close, !.total = total, !.split = split])
      BY <1>1 DEF AskPool
    <2> DEFINE next == [Idle EXCEPT !.at = "pool", !.close = close, !.total = total, !.split = split]
    <2>2. TaskRow(next) /\ next.at \in Plain
      BY IdleIsRow DEF TaskRow, TaskFields, Plain
    <2>3. Begin(k, next)
      BY <2>1
    <2> HIDE DEF next
    <2> QED  BY <1>1, <2>2, <2>3, BeginIsPlain DEF AskPool
  <1>2. CASE PoolUpsert(k)
    BY <1>2, ThenIsPlain, IdleIsPlain DEF PoolUpsert, Plain
  <1>3. CASE WeightsDelete(k)
    BY <1>3, ThenIsPlain DEF WeightsDelete, Plain
  <1>4. CASE WeightsCreate(k)
    BY <1>4, ThenIsPlain, IdleIsPlain DEF WeightsCreate, Plain
  <1>5. CASE AllocateRead(k)
    <2> DEFINE next == [task[k] EXCEPT !.at = "clear", !.total = pool, !.split = weights]
    <2>1. TaskRow(next) /\ next.at \in Plain
      BY DEF FinanceShaped, TasksShaped, TaskRow, TaskFields, Plain
    <2>2. Begin(k, next) \/ Goes(k, next)
      BY <1>5 DEF AllocateRead, GoOrBegin
    <2> HIDE DEF next
    <2> QED  BY <1>5, <2>1, <2>2, BeginIsPlain DEF AllocateRead
  <1>6. CASE AllocateDelete(k)
    BY <1>6, ThenIsPlain DEF AllocateDelete, Plain
  <1>7. CASE AllocateCreate(k)
    BY <1>7, ThenIsPlain, IdleIsPlain DEF AllocateCreate, Plain
  <1>8. CASE GenerateRead(k)
    <2> DEFINE next == [task[k] EXCEPT !.at = "find", !.split = shares, !.left = DOMAIN shares]
    <2>1. TaskRow(next) /\ next.at \in Plain
      BY DEF FinanceShaped, TasksShaped, TaskRow, TaskFields, Plain
    <2>2. Begin(k, next) \/ Goes(k, next)
      BY <1>8 DEF GenerateRead, GoOrBegin
    <2> HIDE DEF next
    <2> QED  BY <1>8, <2>1, <2>2, BeginIsPlain DEF GenerateRead
  <1>9. CASE GenerateFind(k)
    <2>1. CASE Goes(k, Idle)
      BY <1>9, <2>1, IdleIsPlain DEF GenerateFind
    <2>2. CASE ~Goes(k, Idle)
      <3>1. \E r, b : Goes(k, [task[k] EXCEPT !.at = "write", !.to = r, !.bill = b, !.left = @ \ {r}])
        BY <1>9, <2>2 DEF GenerateFind
      <3>0. PICK r, b : Goes(k, [task[k] EXCEPT !.at = "write", !.to = r, !.bill = b, !.left = @ \ {r}])
        BY <3>1
      <3> DEFINE next == [task[k] EXCEPT !.at = "write", !.to = r, !.bill = b, !.left = @ \ {r}]
      <3>2. TaskRow(next) /\ next.at \in Plain
        BY DEF FinanceShaped, TasksShaped, TaskRow, TaskFields, Plain
      <3>3. Goes(k, next)
        BY <3>0
      <3> HIDE DEF next
      <3> QED  BY <1>9, <3>2, <3>3, BeginIsPlain DEF GenerateFind
    <2> QED  BY <2>1, <2>2
  <1>10. CASE SetLock(k)
    BY <1>10, IdleIsPlain DEF SetLock, GoOrBegin
  <1> QED  BY <1>1, <1>2, <1>3, <1>4, <1>5, <1>6, <1>7, <1>8, <1>9, <1>10 DEF Planning

(* The steps of posting, withholding and the failures.                     *)
Posting(k) ==
  \/ CreditRead(k) \/ PostAllRead(k) \/ PostAnother(k)
  \/ PostRead(k) \/ PostDelete(k) \/ PostSeller(k) \/ PostBuyer(k)
  \/ Remit(k) \/ TaskStops(k)

LEMMA PostingIsPlain ==
  ASSUME FinanceShaped, NEW k \in Clerks, Posting(k)
  PROVE  GoesToPlain(k) /\ UNCHANGED <<bills, banked, paying>>
  <1> USE DEF ledgers
  <1>1. CASE CreditRead(k)
    <2>1. PICK b, n :
            Begin(k, [Idle EXCEPT !.at = "credit", !.to = bills[b].recipient, !.net = -n])
      BY <1>1 DEF CreditRead
    <2> DEFINE next == [Idle EXCEPT !.at = "credit", !.to = bills[b].recipient, !.net = -n]
    <2>2. TaskRow(next) /\ next.at \in Plain
      BY IdleIsRow DEF TaskRow, TaskFields, Plain
    <2>3. Begin(k, next)
      BY <2>1
    <2> HIDE DEF next
    <2> QED  BY <1>1, <2>2, <2>3, BeginIsPlain DEF CreditRead
  <1>2. CASE PostAllRead(k)
    <2> DEFINE next == [Idle EXCEPT !.at = "another", !.left = Existing]
    <2>1. TaskRow(next) /\ next.at \in Plain
      BY IdleIsRow DEF TaskRow, TaskFields, Plain
    <2>2. Begin(k, next)
      BY <1>2 DEF PostAllRead
    <2> HIDE DEF next
    <2> QED  BY <1>2, <2>1, <2>2, BeginIsPlain DEF PostAllRead
  <1>3. CASE PostAnother(k)
    <2>1. CASE Goes(k, Idle)
      BY <1>3, <2>1, IdleIsPlain DEF PostAnother
    <2>2. CASE ~Goes(k, Idle)
      <3>1. PICK b \in task[k].left :
              Goes(k, [task[k] EXCEPT !.at = "post", !.bill = b, !.left = @ \ {b}])
        BY <1>3, <2>2 DEF PostAnother
      <3> DEFINE next == [task[k] EXCEPT !.at = "post", !.bill = b, !.left = @ \ {b}]
      <3>2. TaskRow(next) /\ next.at \in Plain
        BY DEF FinanceShaped, TasksShaped, TaskRow, TaskFields, Plain
      <3>3. Goes(k, next)
        BY <3>1
      <3> HIDE DEF next
      <3> QED  BY <1>3, <3>2, <3>3, BeginIsPlain DEF PostAnother
    <2> QED  BY <2>1, <2>2
  <1>4. CASE PostRead(k)
    <2> DEFINE next == [task[k] EXCEPT !.at = "unpost", !.net = bills[task[k].bill].net]
    <2>1. TaskRow(next) /\ next.at \in Plain
      BY DEF FinanceShaped, TasksShaped, TaskRow, TaskFields, Plain
    <2>2. Goes(k, next)
      BY <1>4 DEF PostRead
    <2> HIDE DEF next
    <2> QED  BY <1>4, <2>1, <2>2, BeginIsPlain DEF PostRead
  <1>5. CASE PostDelete(k)
    BY <1>5, ThenIsPlain DEF PostDelete, Plain
  <1>6. CASE PostSeller(k)
    BY <1>6, ThenIsPlain DEF PostSeller, Plain
  <1>7. CASE PostBuyer(k)
    <2> DEFINE next == [Idle EXCEPT !.at = "another", !.left = task[k].left]
    <2>1. TaskRow(next) /\ next.at \in Plain
      BY IdleIsRow DEF TaskRow, TaskFields, Plain
    <2>2. Goes(k, next)
      BY <1>7 DEF PostBuyer
    <2> HIDE DEF next
    <2> QED  BY <1>7, <2>1, <2>2, BeginIsPlain DEF PostBuyer
  <1>8. CASE Remit(k)
    BY <1>8, IdleIsPlain DEF Remit
  <1>9. CASE TaskStops(k)
    BY <1>9, IdleIsPlain DEF TaskStops
  <1> QED  BY <1>1, <1>2, <1>3, <1>4, <1>5, <1>6, <1>7, <1>8, <1>9 DEF Posting

(* What a step does to the history variable calm.                          *)
Uncalm(k) == calm' => calm /\ \A j \in Clerks \ {k} : At(j, "idle")

(* What becomes issued under a lock, while calm: LockHolds in one step.    *)
NoNewIssue ==
  \A b \in Existing :
    calm' /\ locked /\ bills'[b].status = "issued" /\ bills[b].status # "issued" =>
      bills[b].status # "draft" /\ banked[b] <= 0

(* A step of another kind: where it goes it knows what it needs.           *)
LEMMA KnowingKeeps ==
  ASSUME LockInv, NEW k \in Clerks, NEW next, TaskRow(next), task' = [task EXCEPT ![k] = next],
         Uncalm(k), BillsShaped', PaymentsShaped',
         next.at \in {"pay", "note", "sum", "settle"} => next.bill \in Bills,
         next.at = "pay" => next.net \in Sums,
         next.at = "settle" /\ next.to = "issued" =>
           bills'[next.bill].status # "draft" /\ banked'[next.bill] <= 0,
         next.at = "issue" => ~locked'
  PROVE  LockInv'
  <1>1. /\ task'[k] = next /\ \A j \in Clerks : j # k => task'[j] = task[j]
        /\ FinanceShaped'
    BY GoesSets DEF LockInv, FinanceShaped
  <1>2. Knows(task[k])'
    BY <1>1 DEF Knows
  <1>3. \A j \in Clerks \ {k} : Knows(task[j])'
    BY <1>1, OthersKnow DEF Uncalm
  <1> QED  BY <1>1, <1>2, <1>3 DEF LockInv

LEMMA StatusSets ==
  ASSUME BillsShaped, NEW b, NEW status, bills' = [bills EXCEPT ![b].status = status]
  PROVE  /\ BillsShaped'
         /\ \A c \in Bills : bills'[c].status = IF c = b THEN status ELSE bills[c].status
  BY DEF BillsShaped, BillFields

LEMMA NetSets ==
  ASSUME BillsShaped, NEW b, NEW n, bills' = [bills EXCEPT ![b].net = n]
  PROVE  BillsShaped' /\ \A c \in Bills : bills'[c].status = bills[c].status
  BY DEF BillsShaped, BillFields

LEMMA PlainNoIssue ==
  ASSUME UNCHANGED bills PROVE NoNewIssue
  BY DEF NoNewIssue

LEMMA IssueReadKeeps ==
  ASSUME LockInv, NEW k \in Clerks, IssueRead(k), Uncalm(k)
  PROVE  LockInv' /\ NoNewIssue
  <1>1. PICK b \in Existing : Unlocked /\ Begin(k, [Idle EXCEPT !.at = "issue", !.bill = b])
    BY DEF IssueRead
  <1> DEFINE next == [Idle EXCEPT !.at = "issue", !.bill = b]
  <1>2. TaskRow(next) /\ next.at = "issue"
    BY IdleIsRow DEF TaskRow, TaskFields
  <1>3. task' = [task EXCEPT ![k] = next]
    BY <1>1 DEF Begin
  <1>4. UNCHANGED <<bills, banked, paying, locked>> /\ ~locked
    BY <1>1 DEF IssueRead, ledgers, Unlocked
  <1> HIDE DEF next
  <1>5. BillsShaped' /\ PaymentsShaped'
    BY <1>4 DEF LockInv, FinanceShaped, BillsShaped, PaymentsShaped
  <1> QED  BY <1>2, <1>3, <1>4, <1>5, KnowingKeeps, PlainNoIssue

LEMMA PayInvoiceKeeps ==
  ASSUME LockInv, NEW k \in Clerks, PayInvoice(k), Uncalm(k)
  PROVE  LockInv' /\ NoNewIssue
  <1>1. PICK b \in Existing, n \in Sums : Begin(k, [Idle EXCEPT !.at = "pay", !.bill = b, !.net = n])
    BY DEF PayInvoice
  <1> DEFINE next == [Idle EXCEPT !.at = "pay", !.bill = b, !.net = n]
  <1>2. TaskRow(next) /\ next.at = "pay" /\ next.bill = b /\ next.net = n
    BY IdleIsRow DEF TaskRow, TaskFields
  <1>3. task' = [task EXCEPT ![k] = next]
    BY <1>1 DEF Begin
  <1>4. UNCHANGED <<bills, banked, paying, locked>> /\ b \in Bills
    BY <1>1 DEF PayInvoice, ledgers, Existing
  <1> HIDE DEF next
  <1>5. BillsShaped' /\ PaymentsShaped'
    BY <1>4 DEF LockInv, FinanceShaped, BillsShaped, PaymentsShaped
  <1> QED  BY <1>2, <1>3, <1>4, <1>5, KnowingKeeps, PlainNoIssue

LEMMA ThenSets ==
  ASSUME LockInv, NEW k \in Clerks, NEW place, Then(k, place)
  PROVE  \E next : /\ TaskRow(next) /\ task' = [task EXCEPT ![k] = next]
                   /\ next.at = place /\ next.bill = task[k].bill
  <1> DEFINE next == [task[k] EXCEPT !.at = place]
  <1>1. TaskRow(next) /\ next.at = place /\ next.bill = task[k].bill
    BY DEF LockInv, FinanceShaped, TasksShaped, TaskRow, TaskFields
  <1>2. task' = [task EXCEPT ![k] = next]
    BY DEF Then, Goes
  <1> HIDE DEF next
  <1> QED  BY <1>1, <1>2

(* A payment is banked, or taken back.                                     *)
LEMMA PaymentCreateKeeps ==
  ASSUME LockInv, NEW k \in Clerks, PaymentCreate(k), Uncalm(k)
  PROVE  LockInv' /\ NoNewIssue
  <1> DEFINE b == task[k].bill
             n == task[k].net
  <1>1. b \in Bills /\ n \in Int
    BY IntercompanyAssumption DEF PaymentCreate, LockInv, Knows, At
  <1>2. /\ banked' = [banked EXCEPT ![b] = @ + n] /\ paying' = [paying EXCEPT ![b] = "late"]
        /\ Then(k, "note") /\ UNCHANGED bills
    BY DEF PaymentCreate
  <1>3. PICK next : /\ TaskRow(next) /\ task' = [task EXCEPT ![k] = next]
                    /\ next.at = "note" /\ next.bill = b
    BY <1>2, ThenSets
  <1> HIDE DEF b, n
  <1>4. PaymentsShaped'
    BY <1>1, <1>2 DEF LockInv, FinanceShaped, PaymentsShaped
  <1>5. BillsShaped'
    BY <1>2 DEF LockInv, FinanceShaped, BillsShaped, PaymentsShaped
  <1> QED  BY <1>1, <1>2, <1>3, <1>4, <1>5, KnowingKeeps, PlainNoIssue

LEMMA NoteCreateKeeps ==
  ASSUME LockInv, NEW k \in Clerks, NoteCreate(k), Uncalm(k)
  PROVE  LockInv' /\ NoNewIssue
  <1>1. task[k].bill \in Bills
    BY DEF NoteCreate, LockInv, Knows, At
  <1>2. Then(k, "sum") /\ UNCHANGED <<bills, banked, paying>>
    BY DEF NoteCreate
  <1>3. PICK next : /\ TaskRow(next) /\ task' = [task EXCEPT ![k] = next]
                    /\ next.at = "sum" /\ next.bill = task[k].bill
    BY <1>2, ThenSets
  <1>5. BillsShaped' /\ PaymentsShaped'
    BY <1>2 DEF LockInv, FinanceShaped, BillsShaped, PaymentsShaped
  <1> QED  BY <1>1, <1>2, <1>3, <1>5, KnowingKeeps, PlainNoIssue

LEMMA SumReadKeeps ==
  ASSUME LockInv, NEW k \in Clerks, SumRead(k), Uncalm(k)
  PROVE  LockInv' /\ NoNewIssue
  <1> DEFINE b == task[k].bill
             next == [task[k] EXCEPT !.at = "settle", !.to = StatusFor(b, banked[b])]
  <1>1. b \in Bills /\ banked[b] \in Int
    BY DEF SumRead, LockInv, FinanceShaped, PaymentsShaped, Knows, At
  <1>2. TaskRow(next) /\ next.at = "settle" /\ next.to = StatusFor(b, banked[b]) /\ next.bill = b
    BY DEF LockInv, FinanceShaped, TasksShaped, TaskRow, TaskFields
  <1>3. StatusFor(b, banked[b]) = "issued" => bills[b].status # "draft" /\ banked[b] <= 0
    BY <1>1 DEF StatusFor
  <1>4. task' = [task EXCEPT ![k] = next] /\ UNCHANGED <<bills, banked, paying>>
    BY DEF SumRead, Goes, ledgers
  <1> HIDE DEF next
  <1>5. BillsShaped' /\ PaymentsShaped'
    BY <1>4 DEF LockInv, FinanceShaped, BillsShaped, PaymentsShaped
  <1> HIDE DEF b
  <1> QED  BY <1>1, <1>2, <1>3, <1>4, <1>5, KnowingKeeps, PlainNoIssue

(* The status written after a payment is issued only where nothing is left *)
(* paid of a bill that was no draft.                                       *)
LEMMA SumWriteKeeps ==
  ASSUME LockInv, NEW k \in Clerks, SumWrite(k), Uncalm(k)
  PROVE  LockInv' /\ NoNewIssue
  <1>1. calm' /\ task[k].to = "issued" =>
          bills[task[k].bill].status # "draft" /\ banked[task[k].bill] <= 0
    BY DEF SumWrite, LockInv, Knows, At, Uncalm
  <1>2. /\ bills' = [bills EXCEPT ![task[k].bill].status = task[k].to]
        /\ paying' = [paying EXCEPT ![task[k].bill] = "summed"]
        /\ task' = [task EXCEPT ![k] = Idle] /\ UNCHANGED banked
    BY DEF SumWrite, Goes
  <1>3. BillsShaped' /\ NoNewIssue
    <2> DEFINE b == task[k].bill
               status == task[k].to
    <2>1. /\ bills' = [bills EXCEPT ![b].status = status]
          /\ calm' /\ status = "issued" => bills[b].status # "draft" /\ banked[b] <= 0
      BY <1>1, <1>2
    <2> HIDE DEF b, status
    <2>2. /\ BillsShaped'
          /\ \A c \in Bills : bills'[c].status = IF c = b THEN status ELSE bills[c].status
      BY <2>1 DEF LockInv, FinanceShaped, BillsShaped, BillFields
    <2> QED  BY <2>1, <2>2 DEF NoNewIssue, Existing
  <1>4. TaskRow(Idle) /\ Idle.at = "idle"
    BY IdleIsRow DEF Idle
  <1>5. PaymentsShaped'
    BY <1>2 DEF LockInv, FinanceShaped, PaymentsShaped
  <1>6. LockInv'
    BY <1>2, <1>3, <1>4, <1>5, KnowingKeeps
  <1> QED  BY <1>3, <1>6

(* A bill is issued by a handler which, while calm, has seen no lock.      *)
LEMMA IssueWriteKeeps ==
  ASSUME LockInv, NEW k \in Clerks, IssueWrite(k), Uncalm(k)
  PROVE  LockInv' /\ NoNewIssue
  <1>1. calm' => ~locked
    BY DEF IssueWrite, LockInv, Knows, At, Uncalm
  <1>2. /\ bills' = [bills EXCEPT ![task[k].bill].status = "issued"]
        /\ Then(k, "post") /\ UNCHANGED <<banked, paying>>
    BY DEF IssueWrite
  <1>3. PICK next : TaskRow(next) /\ task' = [task EXCEPT ![k] = next] /\ next.at = "post"
    BY <1>2, ThenSets
  <1>4. BillsShaped' /\ PaymentsShaped'
    BY <1>2, StatusSets DEF LockInv, FinanceShaped, PaymentsShaped
  <1>5. LockInv'
    BY <1>2, <1>3, <1>4, KnowingKeeps
  <1> QED  BY <1>1, <1>5 DEF NoNewIssue

(* A credit note is a bill of its own, issued at once; no earlier bill     *)
(* changes.                                                                *)
LEMMA CreditWriteKeeps ==
  ASSUME LockInv, NEW k \in Clerks, CreditWrite(k), Uncalm(k)
  PROVE  LockInv' /\ NoNewIssue
  <1>1. PICK b \in Bills \ Existing :
       /\ bills' = [bills EXCEPT ![b] = [status |-> "issued", recipient |-> task[k].to,
                                         net |-> task[k].net, credit |-> TRUE]]
       /\ Goes(k, [task[k] EXCEPT !.at = "post", !.bill = b])
    BY DEF CreditWrite
  <1> DEFINE next == [task[k] EXCEPT !.at = "post", !.bill = b]
  <1>2. TaskRow(next) /\ next.at = "post"
    BY DEF LockInv, FinanceShaped, TasksShaped, TaskRow, TaskFields
  <1>3. task' = [task EXCEPT ![k] = next] /\ UNCHANGED <<banked, paying>>
    BY <1>1 DEF Goes, CreditWrite
  <1> HIDE DEF next
  <1>4. BillsShaped' /\ \A c \in Bills : c # b => bills'[c] = bills[c]
    <2> DEFINE r == task[k].to
               n == task[k].net
    <2>1. bills' = [bills EXCEPT ![b] = [status |-> "issued", recipient |-> r, net |-> n, credit |-> TRUE]]
      BY <1>1
    <2> DEFINE row == [status |-> "issued", recipient |-> r, net |-> n, credit |-> TRUE]
    <2>2. row = [f \in BillFields |-> row[f]] /\ bills' = [bills EXCEPT ![b] = row]
      BY <2>1 DEF BillFields
    <2> HIDE DEF r, n, row
    <2> QED  BY <2>2 DEF LockInv, FinanceShaped, BillsShaped, PaymentsShaped
  <1>5. PaymentsShaped'
    BY <1>3 DEF LockInv, FinanceShaped, PaymentsShaped
  <1>6. LockInv'
    BY <1>2, <1>3, <1>4, <1>5, KnowingKeeps
  <1> QED  BY <1>4, <1>6 DEF NoNewIssue, Existing

(* A bill is generated or recomputed: a draft, never issued.               *)
LEMMA GenerateWriteKeeps ==
  ASSUME LockInv, NEW k \in Clerks, GenerateWrite(k), Uncalm(k)
  PROVE  LockInv' /\ NoNewIssue
  <1> DEFINE n == Charge(task[k].split[task[k].to])
  <1>1. BillsShaped' /\ NoNewIssue
    <2>1. CASE task[k].bill # None
      <3>1. bills' = [bills EXCEPT ![task[k].bill].net = n]
        BY <2>1 DEF GenerateWrite
      <3> HIDE DEF n
      <3>2. BillsShaped' /\ \A c \in Bills : bills'[c].status = bills[c].status
        BY <3>1, NetSets DEF LockInv, FinanceShaped
      <3> QED  BY <3>2 DEF NoNewIssue, Existing
    <2>2. CASE task[k].bill = None
      <3>1. PICK b \in Bills \ Existing :
              bills' = [bills EXCEPT ![b] = [status |-> "draft", recipient |-> task[k].to, net |-> n,
                                             credit |-> FALSE]]
        BY <2>2 DEF GenerateWrite
      <3> HIDE DEF n
      <3>2. BillsShaped' /\ \A c \in Bills : c # b => bills'[c] = bills[c]
        <4> DEFINE r == task[k].to
        <4>1. bills' = [bills EXCEPT ![b] = [status |-> "draft", recipient |-> r, net |-> n, credit |-> FALSE]]
          BY <3>1
        <4> DEFINE row == [status |-> "draft", recipient |-> r, net |-> n, credit |-> FALSE]
        <4>2. row = [f \in BillFields |-> row[f]] /\ bills' = [bills EXCEPT ![b] = row]
          BY <4>1 DEF BillFields
        <4> HIDE DEF r, row
        <4> QED  BY <4>2 DEF LockInv, FinanceShaped, BillsShaped, PaymentsShaped
      <3> QED  BY <3>2 DEF NoNewIssue, Existing
    <2> QED  BY <2>1, <2>2
  <1>2. GoesToPlain(k)
    BY ThenIsPlain, IdleIsPlain DEF GenerateWrite, LockInv, Plain
  <1>3. PICK next : TaskRow(next) /\ next.at \in Plain /\ task' = [task EXCEPT ![k] = next]
    BY <1>2 DEF GoesToPlain
  <1>4. PaymentsShaped'
    BY DEF GenerateWrite, ledgers, LockInv, FinanceShaped, PaymentsShaped
  <1>5. LockInv'
    BY <1>1, <1>3, <1>4, KnowingKeeps DEF Plain
  <1> QED  BY <1>1, <1>5

(* Every step of the finance handlers keeps the invariant and issues       *)
(* nothing under a lock.                                                   *)
LEMMA FinanceGoesOn == LockInv /\ [IntercompanyNext]_finance => LockInv' /\ (NoNewIssue \/ UNCHANGED finance)
  <1> SUFFICES ASSUME LockInv, [IntercompanyNext]_finance PROVE LockInv' /\ (NoNewIssue \/ UNCHANGED finance)
    OBVIOUS
  <1>1. CASE UNCHANGED finance
    <2>1. UNCHANGED <<bills, banked, paying, task, calm, locked>>
      BY <1>1 DEF finance
    <2> QED  BY <1>1, <2>1 DEF LockInv, FinanceShaped, TasksShaped, BillsShaped, PaymentsShaped, TaskRow, Knows
  <1>2. ASSUME NEW k \in Clerks, FinanceStep(k), calm' = (calm /\ \A j \in Clerks \ {k} : At(j, "idle"))
        PROVE  LockInv' /\ NoNewIssue
    <2>1. Uncalm(k)
      BY <1>2 DEF Uncalm
    <2>2. ASSUME Planning(k) \/ Posting(k) PROVE LockInv' /\ NoNewIssue
      <3>1. GoesToPlain(k) /\ UNCHANGED <<bills, banked, paying>>
        BY <2>2, PlanningIsPlain, PostingIsPlain DEF LockInv
      <3> QED  BY <2>1, <3>1, PlainKeeps, PlainNoIssue DEF Uncalm
    <2>3. \/ Planning(k) \/ Posting(k) \/ GenerateWrite(k) \/ IssueRead(k) \/ IssueWrite(k) \/ CreditWrite(k)
          \/ PayInvoice(k) \/ PaymentCreate(k) \/ NoteCreate(k) \/ SumRead(k) \/ SumWrite(k)
      BY <1>2 DEF FinanceStep, Planning, Posting
    <2> QED  BY <2>1, <2>2, <2>3, GenerateWriteKeeps, IssueReadKeeps, IssueWriteKeeps, CreditWriteKeeps,
                PayInvoiceKeeps, PaymentCreateKeeps, NoteCreateKeeps, SumReadKeeps, SumWriteKeeps
  <1> QED  BY <1>1, <1>2 DEF IntercompanyNext

LEMMA FinanceStarts == IntercompanyInit => LockInv
  <1> SUFFICES ASSUME IntercompanyInit PROVE LockInv
    OBVIOUS
  <1>1. TasksShaped /\ \A k \in Clerks : task[k].at = "idle"
    BY IdleIsRow DEF IntercompanyInit, TasksShaped, Idle
  <1>2. BillsShaped
    BY DEF IntercompanyInit, BillsShaped, NoBill, BillFields
  <1>3. PaymentsShaped
    BY DEF IntercompanyInit, PaymentsShaped
  <1> QED  BY <1>1, <1>2, <1>3 DEF LockInv, FinanceShaped, Knows

(* For any number of handlers, bills and periods and any amounts: while    *)
(* handlers run one at a time, a bill that exists becomes issued under the *)
(* lock of its period only from a status that is not draft and with        *)
(* nothing left paid, whatever is paid, credited, posted or closed         *)
(* (assertNotLocked, issueInvoice, recomputeInvoiceStatus).                *)
THEOREM LockProtects == Spec => LockHolds
  <1>1. Init => LockInv
    BY FinanceStarts DEF Init
  <1>2. [Next]_vars => [IntercompanyNext]_finance
    BY DEF Next, vars, IntercompanyNext
  <1>3. LockInv /\ [Next]_vars => LockInv' /\ (NoNewIssue \/ UNCHANGED finance)
    BY <1>2, FinanceGoesOn
  <1> QED  BY <1>1, <1>3, PTL DEF Spec, LockHolds, NoNewIssue

-----------------------------------------------------------------------------
(* The entries of a bill whose last posting came to its end.               *)
Entry(place, n) == [side |-> place, net |-> n]
Balanced(b) ==
  \/ books[b] = EmptyBag /\ (bills[b].status = "issued" => paying[b] # "unpaid")
  \/ \E n : books[b] = SetToBag({Entry("seller", n), Entry("buyer", n)})

(* Who is posting a bill marked it as torn, and knows what it wrote.       *)
Posts(t) ==
  /\ t.at \in {"seller", "buyer"} => t.bill \in torn
  /\ t.at = "seller" /\ t.bill \in Bills => books[t.bill] = EmptyBag
  /\ t.at = "buyer" /\ t.bill \in Bills => books[t.bill] = SetToBag({Entry("seller", t.net)})

BooksInv ==
  /\ LockInv
  /\ books = [b \in Bills |-> books[b]]
  /\ calm => (\A b \in Bills \ torn : Balanced(b)) /\ \A k \in Clerks : Posts(task[k])

LEMMA BagOfOne == ASSUME NEW e PROVE EmptyBag (+) SetToBag({e}) = SetToBag({e})
<1>1. DOMAIN EmptyBag = {} /\ DOMAIN SetToBag({e}) = {e} /\ SetToBag({e})[e] = 1
  BY DEF EmptyBag, SetToBag
<1>2. EmptyBag (+) SetToBag({e}) = [x \in {e} |-> 0 + SetToBag({e})[x]]
  BY <1>1 DEF (+)
<1> QED BY <1>1, <1>2 DEF SetToBag

LEMMA BagOfTwo ==
  ASSUME NEW d, NEW e, d # e
  PROVE  SetToBag({d}) (+) SetToBag({e}) = SetToBag({d, e})
<1>1. DOMAIN SetToBag({d}) = {d} /\ SetToBag({d})[d] = 1 /\ DOMAIN SetToBag({e}) = {e} /\ SetToBag({e})[e] = 1
  BY DEF SetToBag
<1>2. SetToBag({d}) (+) SetToBag({e})
      = [x \in {d, e} |-> (IF x \in {d} THEN SetToBag({d})[x] ELSE 0) + (IF x \in {e} THEN SetToBag({e})[x] ELSE 0)]
  BY <1>1 DEF (+)
<1> QED BY <1>1, <1>2 DEF SetToBag

(* A step that writes no entry and issues only what it marks as torn or    *)
(* what was paid.                                                          *)
LEMMA BooksKept ==
  ASSUME BooksInv, LockInv', NEW k \in Clerks, Uncalm(k),
         \A j \in Clerks : j # k => task'[j] = task[j],
         task'[k].at \notin {"seller", "buyer"}, books' = books, torn \subseteq torn',
         \A b \in Bills \ torn' : bills'[b].status = "issued" /\ paying'[b] = "unpaid" =>
                                   bills[b].status = "issued" /\ paying[b] = "unpaid"
  PROVE  BooksInv'
<1>1. (books = [b \in Bills |-> books[b]])'
  BY DEF BooksInv
<1>2. ASSUME calm' PROVE (\A b \in Bills \ torn : Balanced(b))' /\ (\A j \in Clerks : Posts(task[j]))'
  <2>1. calm /\ \A j \in Clerks \ {k} : At(j, "idle")
    BY <1>2 DEF Uncalm
  <2>2. \A b \in Bills \ torn' : Balanced(b)'
    BY <2>1 DEF BooksInv, Balanced
  <2>3. ASSUME NEW j \in Clerks PROVE task'[j].at \notin {"seller", "buyer"}
    BY <2>1 DEF At
  <2> QED BY <2>2, <2>3 DEF Posts
<1> QED BY <1>1, <1>2 DEF BooksInv

(* What a handler carries besides its place.                               *)
Same(u, t) == /\ u.close = t.close /\ u.total = t.total /\ u.split = t.split /\ u.left = t.left
              /\ u.bill = t.bill /\ u.to = t.to /\ u.net = t.net

LEMMA Became ==
  ASSUME FinanceShaped, NEW k \in Clerks, NEW next, Goes(k, next) \/ Begin(k, next)
  PROVE  task'[k] = next /\ task' = [task EXCEPT ![k] = next] /\ \A j \in Clerks : j # k => task'[j] = task[j]
BY DEF Goes, Begin, FinanceShaped, TasksShaped

LEMMA Moved ==
  ASSUME NEW t, TaskRow(t), NEW place, NEW u, u = [t EXCEPT !.at = place]
  PROVE  TaskRow(u) /\ u.at = place /\ Same(u, t)
BY DEF TaskRow, TaskFields, Same

LEMMA ThenMoves ==
  ASSUME FinanceShaped, NEW k \in Clerks, NEW place, Then(k, place)
  PROVE  /\ TaskRow(task'[k]) /\ task'[k].at = place /\ Same(task'[k], task[k])
         /\ \A j \in Clerks : j # k => task'[j] = task[j]
<1>1. TaskRow(task[k])
  BY DEF FinanceShaped, TasksShaped
<1>2. /\ task'[k] = [task[k] EXCEPT !.at = place]
      /\ \A j \in Clerks : j # k => task'[j] = task[j]
  BY Became DEF Then
<1> QED BY <1>1, <1>2, Moved

(* Whatever a handler does, the others do not move.                        *)
LEMMA OthersStay ==
  ASSUME FinanceShaped, NEW k \in Clerks, FinanceStep(k)
  PROVE  \A j \in Clerks : j # k => task'[j] = task[j]
<1>1. \E next : Goes(k, next) \/ Begin(k, next)
  <2>1. CASE Planning(k)
    BY <2>1 DEF Planning, AskPool, PoolUpsert, WeightsDelete, WeightsCreate, AllocateRead, AllocateDelete,
       AllocateCreate, GenerateRead, GenerateFind, SetLock, Then, GoOrBegin
  <2>2. CASE Posting(k)
    BY <2>2 DEF Posting, CreditRead, PostAllRead, PostAnother, PostRead, PostDelete, PostSeller, PostBuyer,
       Remit, TaskStops, Then
  <2>3. CASE GenerateWrite(k) \/ IssueRead(k) \/ IssueWrite(k) \/ CreditWrite(k) \/ PayInvoice(k)
             \/ PaymentCreate(k) \/ NoteCreate(k) \/ SumRead(k) \/ SumWrite(k)
    BY <2>3 DEF GenerateWrite, IssueRead, IssueWrite, CreditWrite, PayInvoice, PaymentCreate, NoteCreate,
       SumRead, SumWrite, Then
  <2> QED BY <2>1, <2>2, <2>3 DEF FinanceStep, Planning, Posting
<1> QED BY <1>1, Became

(* Where the steps lead that do not only change the place.                 *)
LEMMA AskPoolMoves ==
  ASSUME FinanceShaped, NEW k \in Clerks, AskPool(k)
  PROVE  \E total \in PoolTotals, split \in Splits, close \in BOOLEAN :
           /\ TaskRow(task'[k]) /\ task'[k].at = "pool" /\ task'[k].total = total
           /\ task'[k].split = split /\ task'[k].close = close /\ task'[k].net = 0
<1>1. PICK total \in PoolTotals, split \in Splits, close \in BOOLEAN :
        Begin(k, [Idle EXCEPT !.at = "pool", !.close = close, !.total = total, !.split = split])
  BY DEF AskPool
<1>2. PICK u : u = [Idle EXCEPT !.at = "pool", !.close = close, !.total = total, !.split = split]
  OBVIOUS
<1>3. TaskRow(u) /\ u.at = "pool" /\ u.total = total /\ u.split = split /\ u.close = close /\ u.net = 0
  BY <1>2 DEF Idle, TaskRow, TaskFields
<1>4. task'[k] = u
  BY <1>1, <1>2, Became
<1> QED BY <1>3, <1>4

LEMMA AllocateReadMoves ==
  ASSUME FinanceShaped, NEW k \in Clerks, AllocateRead(k)
  PROVE  /\ TaskRow(task'[k]) /\ task'[k].at = "clear" /\ task'[k].total = pool /\ task'[k].split = weights
         /\ task'[k].net = task[k].net /\ task'[k].close = task[k].close
<1>1. PICK u : u = [task[k] EXCEPT !.at = "clear", !.total = pool, !.split = weights]
  OBVIOUS
<1>2. TaskRow(u) /\ u.at = "clear" /\ u.total = pool /\ u.split = weights /\ u.net = task[k].net /\ u.close = task[k].close
  BY <1>1 DEF FinanceShaped, TasksShaped, TaskRow, TaskFields
<1>3. Goes(k, u) \/ Begin(k, u)
  BY <1>1 DEF AllocateRead, GoOrBegin
<1>4. task'[k] = u
  BY <1>3, Became
<1> QED BY <1>2, <1>4

LEMMA GenerateReadMoves ==
  ASSUME FinanceShaped, NEW k \in Clerks, GenerateRead(k)
  PROVE  /\ TaskRow(task'[k]) /\ task'[k].at = "find" /\ task'[k].split = shares /\ task'[k].left = DOMAIN shares
         /\ task'[k].total = task[k].total /\ task'[k].net = task[k].net /\ task'[k].close = task[k].close
<1>1. PICK u : u = [task[k] EXCEPT !.at = "find", !.split = shares, !.left = DOMAIN shares]
  OBVIOUS
<1>2. /\ TaskRow(u) /\ u.at = "find" /\ u.split = shares /\ u.left = DOMAIN shares
      /\ u.total = task[k].total /\ u.net = task[k].net /\ u.close = task[k].close
  BY <1>1 DEF FinanceShaped, TasksShaped, TaskRow, TaskFields
<1>3. Goes(k, u) \/ Begin(k, u)
  BY <1>1 DEF GenerateRead, GoOrBegin
<1>4. task'[k] = u
  BY <1>3, Became
<1> QED BY <1>2, <1>4

LEMMA GenerateFindMoves ==
  ASSUME FinanceShaped, NEW k \in Clerks, GenerateFind(k)
  PROVE  \/ task'[k] = Idle
         \/ \E r \in task[k].left :
              /\ TaskRow(task'[k]) /\ task'[k].at = "write" /\ task'[k].to = r
              /\ task'[k].bill \in (IF LiveBills(r) = {} THEN {None} ELSE LiveBills(r))
              /\ task'[k].left = task[k].left \ {r} /\ task'[k].split = task[k].split
              /\ task'[k].total = task[k].total /\ task'[k].net = task[k].net /\ task'[k].close = task[k].close
<1>1. CASE Goes(k, Idle)
  BY <1>1, Became
<1>2. CASE ~Goes(k, Idle)
  <2>0. PICK r \in task[k].left : \E b \in IF LiveBills(r) = {} THEN {None} ELSE LiveBills(r) :
          Goes(k, [task[k] EXCEPT !.at = "write", !.to = r, !.bill = b, !.left = @ \ {r}])
    BY <1>2 DEF GenerateFind
  <2>1. PICK b \in IF LiveBills(r) = {} THEN {None} ELSE LiveBills(r) :
          Goes(k, [task[k] EXCEPT !.at = "write", !.to = r, !.bill = b, !.left = @ \ {r}])
    BY <2>0
  <2>2. PICK u : u = [task[k] EXCEPT !.at = "write", !.to = r, !.bill = b, !.left = @ \ {r}]
    OBVIOUS
  <2>3. /\ TaskRow(u) /\ u.at = "write" /\ u.to = r /\ u.bill = b
        /\ u.left = task[k].left \ {r} /\ u.split = task[k].split
        /\ u.total = task[k].total /\ u.net = task[k].net /\ u.close = task[k].close
    BY <2>2 DEF FinanceShaped, TasksShaped, TaskRow, TaskFields
  <2>4. task'[k] = u
    BY <2>1, <2>2, Became
  <2> QED BY <2>1, <2>3, <2>4
<1> QED BY <1>1, <1>2

(* A handler that starts afresh at a bill.                                 *)
LEMMA StartsMoves ==
  ASSUME FinanceShaped, NEW k \in Clerks, IssueRead(k) \/ CreditRead(k) \/ PostAllRead(k) \/ PayInvoice(k)
  PROVE  /\ TaskRow(task'[k]) /\ task'[k].at \in {"issue", "credit", "another", "pay"}
         /\ task'[k].split = <<>> /\ task'[k].total = 0
         /\ task'[k].net \in {0} \cup Sums \cup {-n : n \in Sums \cup {bills[b].net : b \in Bills}}
<1>1. CASE IssueRead(k)
  <2>1. PICK b : Begin(k, [Idle EXCEPT !.at = "issue", !.bill = b])
    BY <1>1 DEF IssueRead
  <2>2. PICK u : u = [Idle EXCEPT !.at = "issue", !.bill = b]
    OBVIOUS
  <2>3. TaskRow(u) /\ u.at = "issue" /\ u.split = <<>> /\ u.total = 0 /\ u.net = 0
    BY <2>2 DEF Idle, TaskRow, TaskFields
  <2> QED BY <2>1, <2>2, <2>3, Became
<1>2. CASE CreditRead(k)
  <2>0. PICK b \in Existing : \E n \in Sums \cup {bills[b].net} :
          Begin(k, [Idle EXCEPT !.at = "credit", !.to = bills[b].recipient, !.net = -n])
    BY <1>2 DEF CreditRead
  <2>1. PICK n \in Sums \cup {bills[b].net} :
          Begin(k, [Idle EXCEPT !.at = "credit", !.to = bills[b].recipient, !.net = -n])
    BY <2>0
  <2>2. PICK u : u = [Idle EXCEPT !.at = "credit", !.to = bills[b].recipient, !.net = -n]
    OBVIOUS
  <2>3. TaskRow(u) /\ u.at = "credit" /\ u.split = <<>> /\ u.total = 0 /\ u.net = -n
    BY <2>2 DEF Idle, TaskRow, TaskFields
  <2>4. n \in Sums \cup {bills[c].net : c \in Bills}
    BY DEF Existing
  <2>5. task'[k] = u
    BY <2>1, <2>2, Became
  <2> QED BY <2>3, <2>4, <2>5
<1>3. CASE PostAllRead(k)
  <2>1. PICK u : u = [Idle EXCEPT !.at = "another", !.left = Existing]
    OBVIOUS
  <2>2. TaskRow(u) /\ u.at = "another" /\ u.split = <<>> /\ u.total = 0 /\ u.net = 0
    BY <2>1 DEF Idle, TaskRow, TaskFields
  <2> QED BY <1>3, <2>1, <2>2, Became DEF PostAllRead
<1>4. CASE PayInvoice(k)
  <2>1. PICK b \in Existing, n \in Sums : Begin(k, [Idle EXCEPT !.at = "pay", !.bill = b, !.net = n])
    BY <1>4 DEF PayInvoice
  <2>2. PICK u : u = [Idle EXCEPT !.at = "pay", !.bill = b, !.net = n]
    OBVIOUS
  <2>3. TaskRow(u) /\ u.at = "pay" /\ u.split = <<>> /\ u.total = 0 /\ u.net = n
    BY <2>2 DEF Idle, TaskRow, TaskFields
  <2> QED BY <2>1, <2>2, <2>3, Became
<1> QED BY <1>1, <1>2, <1>3, <1>4

(* And those that go on at the bills.                                      *)
LEMMA CreditWriteMoves ==
  ASSUME FinanceShaped, NEW k \in Clerks, CreditWrite(k)
  PROVE  \E b \in Bills \ Existing :
           /\ bills' = [bills EXCEPT ![b] = [status |-> "issued", recipient |-> task[k].to,
                                             net |-> task[k].net, credit |-> TRUE]]
           /\ torn' = torn \cup {b}
           /\ TaskRow(task'[k]) /\ task'[k].at = "post" /\ task'[k].split = task[k].split
           /\ task'[k].total = task[k].total /\ task'[k].net = task[k].net
<1>1. PICK b \in Bills \ Existing :
       /\ bills' = [bills EXCEPT ![b] = [status |-> "issued", recipient |-> task[k].to,
                                         net |-> task[k].net, credit |-> TRUE]]
       /\ torn' = torn \cup {b}
       /\ Goes(k, [task[k] EXCEPT !.at = "post", !.bill = b])
  BY DEF CreditWrite
<1>2. PICK u : u = [task[k] EXCEPT !.at = "post", !.bill = b]
  OBVIOUS
<1>3. TaskRow(u) /\ u.at = "post" /\ u.split = task[k].split /\ u.total = task[k].total /\ u.net = task[k].net
  BY <1>2 DEF FinanceShaped, TasksShaped, TaskRow, TaskFields
<1> QED BY <1>1, <1>2, <1>3, Became

LEMMA PostingMoves ==
  ASSUME FinanceShaped, NEW k \in Clerks, PostAnother(k) \/ PostRead(k) \/ PostBuyer(k)
  PROVE  \/ task'[k] = Idle
         \/ /\ TaskRow(task'[k]) /\ task'[k].at \in {"post", "unpost", "another"}
            /\ task'[k].split \in {task[k].split, <<>>} /\ task'[k].total \in {task[k].total, 0}
            /\ task'[k].net \in {task[k].net, 0, bills[task[k].bill].net}
            /\ (PostRead(k) => task'[k].bill = task[k].bill)
<1>1. CASE PostAnother(k)
  <2>1. CASE Goes(k, Idle)
    BY <2>1, Became
  <2>2. CASE ~Goes(k, Idle)
    <3>1. PICK b : Goes(k, [task[k] EXCEPT !.at = "post", !.bill = b, !.left = @ \ {b}])
      BY <1>1, <2>2 DEF PostAnother
    <3>2. PICK u : u = [task[k] EXCEPT !.at = "post", !.bill = b, !.left = @ \ {b}]
      OBVIOUS
    <3>3. TaskRow(u) /\ u.at = "post" /\ u.split = task[k].split /\ u.total = task[k].total /\ u.net = task[k].net
      BY <3>2 DEF FinanceShaped, TasksShaped, TaskRow, TaskFields
    <3>4. task'[k] = u /\ ~PostRead(k)
      BY <1>1, <3>1, <3>2, Became DEF PostAnother, PostRead, At
    <3> QED BY <3>3, <3>4
  <2> QED BY <2>1, <2>2
<1>2. CASE PostRead(k)
  <2>1. PICK u : u = [task[k] EXCEPT !.at = "unpost", !.net = bills[task[k].bill].net]
    OBVIOUS
  <2>2. /\ TaskRow(u) /\ u.at = "unpost" /\ u.split = task[k].split /\ u.total = task[k].total
        /\ u.net = bills[task[k].bill].net /\ u.bill = task[k].bill
    BY <2>1 DEF FinanceShaped, TasksShaped, TaskRow, TaskFields
  <2> QED BY <1>2, <2>1, <2>2, Became DEF PostRead
<1>3. CASE PostBuyer(k)
  <2>1. PICK u : u = [Idle EXCEPT !.at = "another", !.left = task[k].left]
    OBVIOUS
  <2>2. TaskRow(u) /\ u.at = "another" /\ u.split = <<>> /\ u.total = 0 /\ u.net = 0
    BY <2>1 DEF Idle, TaskRow, TaskFields
  <2>3. task'[k] = u /\ ~PostRead(k)
    BY <1>3, <2>1, Became DEF PostBuyer, PostRead, At
  <2> QED BY <2>2, <2>3
<1> QED BY <1>1, <1>2, <1>3

LEMMA SumReadMoves ==
  ASSUME FinanceShaped, NEW k \in Clerks, SumRead(k)
  PROVE  /\ TaskRow(task'[k]) /\ task'[k].at = "settle" /\ task'[k].split = task[k].split
         /\ task'[k].total = task[k].total /\ task'[k].net = task[k].net /\ task'[k].bill = task[k].bill
         /\ task'[k].to = StatusFor(task[k].bill, banked[task[k].bill])
<1>1. PICK u : u = [task[k] EXCEPT !.at = "settle", !.to = StatusFor(task[k].bill, banked[task[k].bill])]
  OBVIOUS
<1>2. /\ TaskRow(u) /\ u.at = "settle" /\ u.split = task[k].split
      /\ u.total = task[k].total /\ u.net = task[k].net /\ u.bill = task[k].bill
      /\ u.to = StatusFor(task[k].bill, banked[task[k].bill])
  BY <1>1 DEF FinanceShaped, TasksShaped, TaskRow, TaskFields
<1>3. Goes(k, u)
  BY <1>1 DEF SumRead
<1>4. task'[k] = u
  BY <1>3, Became
<1> QED BY <1>2, <1>4

(* The steps that write no entry lead to no place between two entries, and *)
(* issue a bill only with the mark or after a payment.                     *)
NoEntry(k) ==
  /\ task'[k].at \notin {"seller", "buyer"} /\ books' = books /\ torn \subseteq torn'
  /\ \A b \in Bills \ torn' : bills'[b].status = "issued" /\ paying'[b] = "unpaid" =>
                               bills[b].status = "issued" /\ paying[b] = "unpaid"

LEMMA PlanningLands ==
  ASSUME FinanceShaped, NEW k \in Clerks, Planning(k)
  PROVE  NoEntry(k)
<1> USE DEF ledgers, planning
<1>1. Idle.at = "idle"
  BY DEF Idle
<1>2. task'[k].at \notin {"seller", "buyer"}
  <2>1. CASE AskPool(k) \/ PoolUpsert(k) \/ WeightsDelete(k) \/ WeightsCreate(k)
    BY <1>1, <2>1, Became, ThenMoves, AskPoolMoves DEF PoolUpsert, WeightsDelete, WeightsCreate
  <2>2. CASE AllocateRead(k) \/ AllocateDelete(k) \/ AllocateCreate(k)
    BY <1>1, <2>2, Became, ThenMoves, AllocateReadMoves DEF AllocateDelete, AllocateCreate
  <2>3. CASE GenerateRead(k) \/ GenerateFind(k)
    BY <1>1, <2>3, GenerateReadMoves, GenerateFindMoves
  <2>4. CASE SetLock(k)
    BY <1>1, <2>4, Became DEF SetLock, GoOrBegin
  <2> QED BY <2>1, <2>2, <2>3, <2>4 DEF Planning
<1>3. UNCHANGED <<books, torn, bills, paying>>
  BY DEF Planning, AskPool, PoolUpsert, WeightsDelete, WeightsCreate, AllocateRead, AllocateDelete,
     AllocateCreate, GenerateRead, GenerateFind, SetLock
<1> QED BY <1>2, <1>3 DEF NoEntry

LEMMA StartsLand ==
  ASSUME FinanceShaped, NEW k \in Clerks,
         IssueRead(k) \/ CreditRead(k) \/ PostAllRead(k) \/ PayInvoice(k) \/ PaymentCreate(k) \/ NoteCreate(k)
         \/ SumRead(k) \/ Remit(k) \/ TaskStops(k) \/ PostAnother(k) \/ PostRead(k)
  PROVE  NoEntry(k)
<1>1. Idle.at = "idle"
  BY DEF Idle
<1>2. task'[k].at \notin {"seller", "buyer"}
  <2>1. CASE IssueRead(k) \/ CreditRead(k) \/ PostAllRead(k) \/ PayInvoice(k) \/ SumRead(k)
    BY <2>1, StartsMoves, SumReadMoves
  <2>2. CASE PaymentCreate(k) \/ NoteCreate(k) \/ Remit(k) \/ TaskStops(k)
    BY <1>1, <2>2, Became, ThenMoves DEF PaymentCreate, NoteCreate, Remit, TaskStops
  <2>3. CASE PostAnother(k) \/ PostRead(k)
    BY <1>1, <2>3, PostingMoves
  <2> QED BY <2>1, <2>2, <2>3
<1>3. UNCHANGED <<books, torn, bills>>
  BY DEF IssueRead, CreditRead, PostAllRead, PayInvoice, PaymentCreate, NoteCreate, SumRead, Remit, TaskStops,
     PostAnother, PostRead, ledgers
<1>4. UNCHANGED paying \/ paying' = [paying EXCEPT ![task[k].bill] = "late"]
  BY DEF IssueRead, CreditRead, PostAllRead, PayInvoice, PaymentCreate, NoteCreate, SumRead, Remit, TaskStops,
     PostAnother, PostRead, ledgers
<1>5. \A b \in Bills : paying'[b] = "unpaid" => paying[b] = "unpaid"
  BY <1>4 DEF FinanceShaped, PaymentsShaped
<1> QED BY <1>2, <1>3, <1>5 DEF NoEntry

LEMMA WritesLand ==
  ASSUME LockInv, NEW k \in Clerks, GenerateWrite(k) \/ IssueWrite(k) \/ CreditWrite(k) \/ SumWrite(k)
  PROVE  NoEntry(k)
<1>1. Idle.at = "idle" /\ FinanceShaped
  BY DEF Idle, LockInv
<1>2. CASE GenerateWrite(k)
  <2>1. task'[k].at \notin {"seller", "buyer"} /\ UNCHANGED <<books, torn, paying>>
    BY <1>1, <1>2, Became, ThenMoves DEF GenerateWrite, ledgers
  <2>2. \E n : (\E b : bills' = [bills EXCEPT ![b].net = n])
              \/ \E b, r : bills' = [bills EXCEPT ![b] = [status |-> "draft", recipient |-> r, net |-> n, credit |-> FALSE]]
    BY <1>2 DEF GenerateWrite
  <2>3. \A b \in Bills : bills'[b].status \in {bills[b].status, "draft"}
    BY <1>1, <2>2 DEF FinanceShaped, BillsShaped, BillFields
  <2> QED BY <2>1, <2>3 DEF NoEntry
<1>3. CASE IssueWrite(k)
  <2>1. PICK b : b = task[k].bill
    OBVIOUS
  <2>2. /\ bills' = [bills EXCEPT ![b].status = "issued"] /\ torn' = torn \cup {b} /\ books' = books
        /\ Then(k, "post") /\ UNCHANGED paying
    BY <1>3, <2>1 DEF IssueWrite
  <2>3. \A c \in Bills \ torn' : bills'[c].status = bills[c].status
    BY <1>1, <2>2, StatusSets DEF FinanceShaped
  <2> QED BY <1>1, <2>2, <2>3, ThenMoves DEF NoEntry
<1>4. CASE CreditWrite(k)
  <2>1. PICK b, row :
          bills' = [bills EXCEPT ![b] = row] /\ torn' = torn \cup {b} /\ task'[k].at = "post"
    BY <1>1, <1>4, CreditWriteMoves
  <2>2. \A c \in Bills \ torn' : bills'[c] = bills[c]
    BY <1>1, <2>1 DEF FinanceShaped, BillsShaped
  <2> QED BY <1>4, <2>1, <2>2 DEF NoEntry, CreditWrite
<1>5. CASE SumWrite(k)
  <2>1. PICK b, s : b = task[k].bill /\ s = task[k].to
    OBVIOUS
  <2>2. /\ bills' = [bills EXCEPT ![b].status = s] /\ paying' = [paying EXCEPT ![b] = "summed"]
        /\ UNCHANGED <<books, torn>>
    BY <1>5, <2>1 DEF SumWrite
  <2>3. \A c \in Bills : /\ bills'[c].status = IF c = b THEN s ELSE bills[c].status
                         /\ paying'[c] = IF c = b THEN "summed" ELSE paying[c]
    BY <1>1, <2>2 DEF FinanceShaped, PaymentsShaped, BillsShaped, BillFields
  <2>4. task'[k].at = "idle"
    BY <1>1, <1>5, Became DEF SumWrite
  <2> QED BY <2>2, <2>3, <2>4 DEF NoEntry
<1> QED BY <1>2, <1>3, <1>4, <1>5

(* The entries of a bill are deleted, its seller's is made, its buyer's.   *)
LEMMA EntriesKeep ==
  ASSUME BooksInv, LockInv', NEW k \in Clerks, Uncalm(k), PostDelete(k) \/ PostSeller(k) \/ PostBuyer(k)
  PROVE  BooksInv'
<1>1. FinanceShaped /\ books = [b \in Bills |-> books[b]]
  BY DEF BooksInv, LockInv
<1>2. PICK b, n : b = task[k].bill /\ n = task[k].net
  OBVIOUS
<1>3. UNCHANGED <<bills, paying>>
  BY DEF PostDelete, PostSeller, PostBuyer
<1>4. /\ (books = [c \in Bills |-> books[c]])' /\ \A c \in Bills \ {b} : books'[c] = books[c]
      /\ PostDelete(k) /\ b \in Bills => books'[b] = EmptyBag
      /\ PostSeller(k) /\ b \in Bills => books'[b] = books[b] (+) SetToBag({Entry("seller", n)})
      /\ PostBuyer(k) /\ b \in Bills => books'[b] = books[b] (+) SetToBag({Entry("buyer", n)})
  <2>1. CASE PostDelete(k)
    <3>1. books' = [books EXCEPT ![b] = EmptyBag] /\ task[k].at = "unpost"
      BY <1>2, <2>1 DEF PostDelete, Unposted, At
    <3>2. ~PostSeller(k) /\ ~PostBuyer(k)
      BY <3>1 DEF PostSeller, PostBuyer, At
    <3> QED BY <1>1, <3>1, <3>2
  <2>2. CASE PostSeller(k)
    <3>1. books' = [books EXCEPT ![b] = books[b] (+) SetToBag({Entry("seller", n)})] /\ task[k].at = "seller"
      BY <1>2, <2>2 DEF PostSeller, Post, Entry, At
    <3>2. ~PostDelete(k) /\ ~PostBuyer(k)
      BY <3>1 DEF PostDelete, PostBuyer, At
    <3> QED BY <1>1, <3>1, <3>2
  <2>3. CASE PostBuyer(k)
    <3>1. books' = [books EXCEPT ![b] = books[b] (+) SetToBag({Entry("buyer", n)})] /\ task[k].at = "buyer"
      BY <1>2, <2>3 DEF PostBuyer, Post, Entry, At
    <3>2. ~PostDelete(k) /\ ~PostSeller(k)
      BY <3>1 DEF PostDelete, PostSeller, At
    <3> QED BY <1>1, <3>1, <3>2
  <2> QED BY <2>1, <2>2, <2>3
<1>5. ASSUME calm' PROVE (\A c \in Bills \ torn : Balanced(c))' /\ (\A j \in Clerks : Posts(task[j]))'
  <2>1. /\ calm /\ \A j \in Clerks \ {k} : task[j].at = "idle"
        /\ \A c \in Bills \ torn : Balanced(c)
        /\ Posts(task[k])
    BY <1>5 DEF Uncalm, At, BooksInv
  <2>2. ASSUME NEW j \in Clerks \ {k} PROVE Posts(task[j])'
    <3>1. task'[j].at = "idle"
      BY <1>1, <2>1, OthersStay DEF FinanceStep
    <3> QED BY <3>1 DEF Posts
  <2>3. ASSUME NEW c \in Bills \ {b}, c \notin torn PROVE Balanced(c)'
    BY <1>3, <1>4, <2>1, <2>3 DEF Balanced
  <2>4. CASE PostDelete(k)
    <3>1. torn' = torn \cup {b} /\ task'[k].at = "seller" /\ task'[k].bill = b
      BY <1>1, <1>2, <2>4, ThenMoves DEF PostDelete, Same
    <3>2. Posts(task[k])'
      BY <1>4, <2>4, <3>1 DEF Posts
    <3> QED BY <2>2, <2>3, <3>1, <3>2
  <2>5. CASE PostSeller(k)
    <3>1. torn' = torn /\ task'[k].at = "buyer" /\ task'[k].bill = b /\ task'[k].net = n
      BY <1>1, <1>2, <2>5, ThenMoves DEF PostSeller, Same
    <3>2. b \in torn /\ (b \in Bills => books[b] = EmptyBag)
      BY <1>2, <2>1, <2>5 DEF PostSeller, Posts, At
    <3>3. b \in Bills => books'[b] = SetToBag({Entry("seller", n)})
      BY <1>4, <2>5, <3>2, BagOfOne
    <3>4. Posts(task[k])'
      BY <3>1, <3>2, <3>3 DEF Posts
    <3> QED BY <2>2, <2>3, <3>1, <3>2, <3>4
  <2>6. CASE PostBuyer(k)
    <3>1. torn' = torn \ {b}
      BY <1>2, <2>6 DEF PostBuyer
    <3>2. Idle.at = "idle"
      BY DEF Idle
    <3>3. task'[k].at \notin {"seller", "buyer"}
      <4>1. PICK u : u = [Idle EXCEPT !.at = "another", !.left = task[k].left]
        OBVIOUS
      <4>2. u.at = "another"
        BY <4>1 DEF Idle
      <4>3. task'[k] = u
        BY <1>1, <2>6, <4>1, Became DEF PostBuyer
      <4> QED BY <4>2, <4>3
    <3>4. b \in Bills => books[b] = SetToBag({Entry("seller", n)})
      BY <1>2, <2>1, <2>6 DEF PostBuyer, Posts, At
    <3>5. Entry("seller", n) # Entry("buyer", n)
      BY DEF Entry
    <3>6. b \in Bills => books'[b] = SetToBag({Entry("seller", n), Entry("buyer", n)})
      BY <1>4, <2>6, <3>4, <3>5, BagOfTwo
    <3>7. b \in Bills => Balanced(b)'
      BY <3>6 DEF Balanced
    <3>8. Posts(task[k])'
      BY <3>3 DEF Posts
    <3> QED BY <2>2, <2>3, <3>1, <3>7, <3>8
  <2> QED BY <2>4, <2>5, <2>6
<1> QED BY <1>4, <1>5 DEF BooksInv

LEMMA BooksStep == BooksInv /\ [IntercompanyNext]_finance => BooksInv'
<1> SUFFICES ASSUME BooksInv, [IntercompanyNext]_finance PROVE BooksInv'
  OBVIOUS
<1>1. LockInv /\ FinanceShaped /\ LockInv'
  BY FinanceGoesOn DEF BooksInv, LockInv
<1>2. CASE UNCHANGED finance
  BY <1>1, <1>2 DEF finance, BooksInv, Balanced, Posts
<1>3. ASSUME NEW k \in Clerks, FinanceStep(k), calm' = (calm /\ \A j \in Clerks \ {k} : At(j, "idle"))
      PROVE  BooksInv'
  <2>1. Uncalm(k)
    BY <1>3 DEF Uncalm
  <2>2. CASE PostDelete(k) \/ PostSeller(k) \/ PostBuyer(k)
    BY <1>1, <2>1, <2>2, EntriesKeep
  <2>3. CASE ~(PostDelete(k) \/ PostSeller(k) \/ PostBuyer(k))
    <3>1. NoEntry(k)
      BY <1>1, <1>3, <2>3, PlanningLands, StartsLand, WritesLand DEF FinanceStep, Planning
    <3>2. \A j \in Clerks : j # k => task'[j] = task[j]
      BY <1>1, <1>3, OthersStay
    <3> QED BY <1>1, <2>1, <3>1, <3>2, BooksKept DEF NoEntry
  <2> QED BY <2>2, <2>3
<1> QED BY <1>2, <1>3 DEF IntercompanyNext

LEMMA BooksStart == IntercompanyInit => BooksInv
<1> SUFFICES ASSUME IntercompanyInit PROVE BooksInv
  OBVIOUS
<1>1. books = [b \in Bills |-> books[b]] /\ \A b \in Bills : books[b] = EmptyBag /\ bills[b].status # "issued"
  BY DEF IntercompanyInit, NoBill
<1>2. \A k \in Clerks : task[k].at = "idle"
  BY DEF IntercompanyInit, Idle
<1> QED BY <1>1, <1>2, FinanceStarts DEF BooksInv, Balanced, Posts

LEMMA BooksFollow == BooksInv => BooksBalance
<1> SUFFICES ASSUME BooksInv, calm, NEW b \in Bills \ torn
             PROVE  \/ books[b] = EmptyBag /\ (bills[b].status = "issued" => paying[b] # "unpaid")
                    \/ \E seller, buyer \in BagToSet(books[b]) :
                         /\ books[b] = SetToBag({seller, buyer})
                         /\ seller.side = "seller" /\ buyer.side = "buyer" /\ seller.net = buyer.net
  BY DEF BooksBalance
<1>1. Balanced(b)
  BY DEF BooksInv
<1>2. ASSUME NEW n, books[b] = SetToBag({Entry("seller", n), Entry("buyer", n)})
      PROVE  \E seller, buyer \in BagToSet(books[b]) :
               /\ books[b] = SetToBag({seller, buyer})
               /\ seller.side = "seller" /\ buyer.side = "buyer" /\ seller.net = buyer.net
  <2>1. PICK seller, buyer : seller = Entry("seller", n) /\ buyer = Entry("buyer", n)
    OBVIOUS
  <2>2. seller.side = "seller" /\ buyer.side = "buyer" /\ seller.net = n /\ buyer.net = n
    BY <2>1 DEF Entry
  <2>3. BagToSet(books[b]) = {seller, buyer}
    BY <1>2, <2>1 DEF BagToSet, SetToBag
  <2> QED BY <1>2, <2>1, <2>2, <2>3
<1> QED BY <1>1, <1>2 DEF Balanced

(* While requests are served one at a time, wherever they stop: a bill     *)
(* whose last posting came to its end has one entry of the seller and one  *)
(* of the buyer over one amount, or none; and one that is issued and was   *)
(* never paid has them (postInvoiceToLedger).                              *)
THEOREM BooksStayBalanced == Spec => []BooksBalance
<1>1. Init => BooksInv
  BY BooksStart DEF Init
<1>2. BooksInv /\ [Next]_vars => BooksInv'
  BY BooksStep DEF Next, vars, IntercompanyNext
<1> QED  BY <1>1, <1>2, BooksFollow, PTL DEF Spec

-----------------------------------------------------------------------------
(* The types of what is planned and billed.                                *)
FiniteShares == UNION {[S -> Int] : S \in {T \in SUBSET Recipients : IsFiniteSet(T)}}

TypedTask(t) ==
  /\ t.split \in FiniteShares /\ t.total \in Int
  /\ t.at = "credit" => t.net \in Int
  /\ t.at = "idle" => t = Idle
  /\ t.at \in {"find", "write"} => t.left \subseteq DOMAIN t.split
  /\ t.at = "write" => t.to \in DOMAIN t.split

PlansTyped ==
  /\ pool \in Int \cup {None} /\ weights \in FiniteShares /\ shares \in FiniteShares
  /\ \A b \in Bills : bills[b].net \in Int

(* A recipient has a live bill for its share.                              *)
Billed(r) == \E b \in LiveBills(r) : bills[b].net = Charge(shares[r])
(* What the weights of a pool may add up to.                               *)
Around == Whole - Tolerance .. Whole + Tolerance
SharesOfPool == \E parts \in Around : SumOf(shares) = parts * pool

(* What the only handler knows: the weights it writes add up within the    *)
(* tolerance, the tables it emptied are empty, what it read is still       *)
(* there, and who is billed already.                                       *)
Aware(t) ==
  /\ t.at \in {"reweigh", "weigh", "clear", "share"} => SumOf(t.split) \in Around
  /\ t.at = "weigh" => weights = <<>>
  /\ t.at \in {"clear", "share"} => pool = t.total
  /\ t.at = "share" => shares = <<>>
  /\ t.at \in {"bill", "lock"} \/ (t.close /\ t.at \in {"find", "write"}) => SharesOfPool
  /\ t.at \in {"find", "write"} => t.split = shares
  /\ t.at = "find" => \A r \in DOMAIN shares \ t.left : Billed(r)
  /\ t.at = "write" => /\ \A r \in DOMAIN shares \ (t.left \cup {t.to}) : Billed(r)
                       /\ t.bill = None \/ t.bill \in LiveBills(t.to)
  /\ t.at = "lock" => \A r \in DOMAIN shares : Billed(r)
  /\ t.at = "settle" => (t.to = "paid" /\ t.bill \in Bills => banked[t.bill] >= bills[t.bill].net)

Settled ==
  \A b \in Bills : bills[b].status = "paid" /\ paying[b] # "late" => banked[b] >= bills[b].net
Calmly == Settled /\ (weights # <<>> => SumOf(weights) \in Around)

MonthInv ==
  /\ LockInv /\ PlansTyped
  /\ \A k \in Clerks : TypedTask(task[k])
  /\ calm => Calmly /\ \A k \in Clerks : Aware(task[k])

LEMMA IdleIsTyped == TypedTask(Idle) /\ Aware(Idle) /\ Aware(Idle)'
<1>1. <<>> \in FiniteShares
  <2>1. {} \in {T \in SUBSET Recipients : IsFiniteSet(T)}
    BY FS_EmptySet
  <2>2. <<>> \in [{} -> Int]
    OBVIOUS
  <2> QED BY <2>1, <2>2 DEF FiniteShares
<1> QED BY <1>1 DEF TypedTask, Aware, Idle

(* What is left to show of a step.                                         *)
LEMMA MonthKeeps ==
  ASSUME MonthInv, LockInv', NEW k \in Clerks, FinanceStep(k), Uncalm(k),
         PlansTyped', TypedTask(task'[k]), calm' => Calmly' /\ Aware(task[k])'
  PROVE  MonthInv'
<1>1. \A j \in Clerks : j # k => task'[j] = task[j]
  BY OthersStay DEF MonthInv, LockInv
<1>2. \A j \in Clerks : TypedTask(task'[j])
  BY <1>1 DEF MonthInv
<1>3. ASSUME calm', NEW j \in Clerks PROVE Aware(task[j])'
  <2>1. CASE j = k
    BY <1>3, <2>1
  <2>2. CASE j # k
    <3>1. task'[j].at = "idle"
      BY <1>1, <1>3, <2>2 DEF Uncalm, At
    <3> QED BY <3>1 DEF Aware
  <2> QED BY <2>1, <2>2
<1> QED BY <1>2, <1>3 DEF MonthInv, TypedTask

(* A step that plans nothing, bills nothing and banks nothing, to a place  *)
(* where nothing needs to be known.                                        *)
Careless == {"idle", "pool", "issue", "credit", "another", "post", "unpost", "seller", "buyer", "pay", "note", "sum"}
LEMMA CarelessKeeps ==
  ASSUME MonthInv, LockInv', NEW k \in Clerks, FinanceStep(k), Uncalm(k),
         UNCHANGED <<planning, bills, banked, paying>>, task'[k].at \in Careless, TypedTask(task'[k])
  PROVE  MonthInv'
<1>1. PlansTyped'
  BY DEF planning, MonthInv, PlansTyped
<1>2. calm' => Calmly' /\ Aware(task[k])'
  BY DEF planning, MonthInv, Calmly, Settled, Uncalm, Aware, Careless, SumOf
<1> QED BY <1>1, <1>2, MonthKeeps

LEMMA SplitsTyped == \A s \in Splits : s \in FiniteShares
BY IntercompanyAssumption DEF FiniteShares

LEMMA SharesJoin ==
  ASSUME NEW f \in FiniteShares, NEW g \in FiniteShares
  PROVE  Joined(f, g) \in FiniteShares /\ (f = <<>> => Joined(f, g) = g)
<1>1. PICK S \in SUBSET Recipients : IsFiniteSet(S) /\ f \in [S -> Int]
  BY DEF FiniteShares
<1>2. PICK T \in SUBSET Recipients : IsFiniteSet(T) /\ g \in [T -> Int]
  BY DEF FiniteShares
<1>3. Joined(f, g) = [r \in S \cup T |-> IF r \in S THEN f[r] ELSE g[r]]
  BY <1>1, <1>2 DEF Joined
<1>4. Joined(f, g) \in [S \cup T -> Int]
  BY <1>1, <1>2, <1>3
<1>5. IsFiniteSet(S \cup T) /\ S \cup T \in SUBSET Recipients
  BY <1>1, <1>2, FS_Union
<1>6. f = <<>> => Joined(f, g) = g
  BY <1>1, <1>2, <1>3
<1> QED BY <1>4, <1>5, <1>6 DEF FiniteShares

LEMMA OnlyPosting ==
  ASSUME MonthInv, LockInv', NEW k \in Clerks, Uncalm(k),
         \/ AskPool(k) \/ IssueRead(k) \/ CreditRead(k) \/ PostAllRead(k) \/ PayInvoice(k)
         \/ PostAnother(k) \/ PostRead(k) \/ PostDelete(k) \/ PostSeller(k) \/ PostBuyer(k)
         \/ Remit(k) \/ TaskStops(k) \/ NoteCreate(k)
  PROVE  MonthInv'
<1>1. FinanceShaped /\ TypedTask(task[k]) /\ (\A b \in Bills : bills[b].net \in Int) /\ FinanceStep(k)
  BY DEF MonthInv, LockInv, PlansTyped, FinanceStep
<1>2. UNCHANGED <<planning, bills, banked, paying>>
  BY DEF AskPool, IssueRead, CreditRead, PostAllRead, PayInvoice, PostAnother, PostRead, PostDelete, PostSeller,
     PostBuyer, Remit, TaskStops, NoteCreate, ledgers
<1>3. Sums \subseteq Int /\ PoolTotals \subseteq Int
  BY IntercompanyAssumption
<1>4. task[k].split \in FiniteShares /\ <<>> \in FiniteShares /\ task[k].total \in Int
  BY <1>1, IdleIsTyped DEF TypedTask, Idle
<1>5. task'[k].at \in Careless /\ TypedTask(task'[k])
  <2>1. CASE AskPool(k)
    BY <1>1, <1>3, <2>1, AskPoolMoves, SplitsTyped DEF TypedTask, Careless
  <2>2. CASE IssueRead(k) \/ CreditRead(k) \/ PostAllRead(k) \/ PayInvoice(k)
    <3>1. task'[k].net \in Int
      <4>1. task'[k].net \in {0} \cup Sums \cup {-n : n \in Sums \cup {bills[b].net : b \in Bills}}
        BY <1>1, <2>2, StartsMoves
      <4>2. \A n \in Sums \cup {bills[b].net : b \in Bills} : -n \in Int
        <5> SUFFICES ASSUME NEW n \in Sums \cup {bills[b].net : b \in Bills} PROVE -n \in Int
          OBVIOUS
        <5>1. n \in Int
          BY <1>1, <1>3
        <5> QED BY <5>1
      <4> HIDE DEF MonthInv
      <4>3. 0 \in Int /\ \A n \in Sums : n \in Int
        BY <1>3
      <4> QED BY <4>1, <4>2, <4>3, Zenon
    <3> QED BY <1>1, <1>4, <2>2, <3>1, StartsMoves DEF TypedTask, Careless
  <2>3. CASE PostAnother(k) \/ PostRead(k) \/ PostBuyer(k)
    <3>1. CASE task'[k] = Idle
      BY <3>1, IdleIsTyped DEF Careless, Idle
    <3>2. CASE task'[k] # Idle
      BY <1>1, <1>4, <2>3, <3>2, PostingMoves DEF TypedTask, Careless
    <3> QED BY <3>1, <3>2
  <2>4. CASE PostDelete(k) \/ PostSeller(k) \/ NoteCreate(k)
    BY <1>1, <1>4, <2>4, ThenMoves DEF PostDelete, PostSeller, NoteCreate, TypedTask, Careless, Same
  <2>5. CASE Remit(k) \/ TaskStops(k)
    BY <1>1, <2>5, Became, IdleIsTyped DEF Remit, TaskStops, Careless, Idle
  <2> QED BY <2>1, <2>2, <2>3, <2>4, <2>5
<1> QED BY <1>1, <1>2, <1>5, CarelessKeeps

(* The pool is written and its weights: what is rejected leaves the old    *)
(* weights, what is accepted adds up.                                      *)
LEMMA PoolKeeps ==
  ASSUME MonthInv, LockInv', NEW k \in Clerks, Uncalm(k), PoolUpsert(k) \/ WeightsDelete(k) \/ WeightsCreate(k)
  PROVE  MonthInv'
<1>1. /\ FinanceShaped /\ TypedTask(task[k]) /\ PlansTyped /\ FinanceStep(k)
      /\ task[k].split \in FiniteShares /\ task[k].total \in Int /\ <<>> \in FiniteShares
  BY IdleIsTyped DEF MonthInv, LockInv, FinanceStep, TypedTask, Idle
<1>2. UNCHANGED <<bills, banked, paying, shares>>
  BY DEF PoolUpsert, WeightsDelete, WeightsCreate, ledgers
<1>3. ASSUME calm' PROVE calm /\ Calmly /\ Aware(task[k])
  BY <1>3 DEF MonthInv, Uncalm
<1>4. CASE PoolUpsert(k)
  <2>1. PlansTyped'
    BY <1>1, <1>2, <1>4 DEF PlansTyped, PoolUpsert
  <2>2. calm' => Calmly'
    BY <1>2, <1>3, <1>4 DEF Calmly, Settled, PoolUpsert, SumOf
  <2>3. CASE Accepted(task[k].split)
    <3>1. task'[k].at = "reweigh" /\ Same(task'[k], task[k])
      BY <1>1, <1>4, <2>3, ThenMoves DEF PoolUpsert
    <3>2. TypedTask(task'[k])
      BY <1>1, <3>1 DEF TypedTask, Same
    <3>3. Aware(task[k])'
      BY <2>3, <3>1 DEF Aware, Same, SumOf, Accepted, Around
    <3> QED BY <1>1, <2>1, <2>2, <3>2, <3>3, MonthKeeps
  <2>4. CASE ~Accepted(task[k].split)
    <3>1. task'[k] = Idle
      BY <1>1, <1>4, <2>4, Became DEF PoolUpsert
    <3>2. Aware(task[k])'
      BY <3>1 DEF Aware, Idle
    <3> QED BY <1>1, <2>1, <2>2, <3>1, <3>2, MonthKeeps, IdleIsTyped
  <2> QED BY <2>3, <2>4
<1>5. CASE WeightsDelete(k)
  <2>1. PlansTyped' /\ weights' = <<>>
    BY <1>1, <1>2, <1>5 DEF PlansTyped, WeightsDelete
  <2>2. calm' => Calmly'
    BY <1>2, <1>3, <2>1 DEF Calmly, Settled
  <2>3. task[k].at = "reweigh" /\ task'[k].at = "weigh" /\ Same(task'[k], task[k])
    BY <1>1, <1>5, ThenMoves DEF WeightsDelete, At
  <2>4. TypedTask(task'[k])
    BY <1>1, <2>3 DEF TypedTask, Same
  <2>5. calm' => Aware(task[k])'
    BY <1>3, <2>1, <2>3 DEF Aware, Same, SumOf
  <2> QED BY <1>1, <2>1, <2>2, <2>4, <2>5, MonthKeeps
<1>6. CASE WeightsCreate(k)
  <2>1. task[k].at = "weigh" /\ pool' = pool
    BY <1>6 DEF WeightsCreate, At
  <2>2. /\ weights' = weights \/ weights' = Joined(weights, task[k].split)
        /\ weights = <<>> => weights' = Joined(weights, task[k].split)
    BY <1>6 DEF WeightsCreate
  <2>3. weights' \in FiniteShares /\ (weights = <<>> => weights' = task[k].split)
    BY <1>1, <2>2, SharesJoin DEF PlansTyped
  <2>4. PlansTyped'
    BY <1>1, <1>2, <2>1, <2>3 DEF PlansTyped
  <2>5. calm' => Calmly'
    <3> SUFFICES ASSUME calm' PROVE Calmly'
      OBVIOUS
    <3>1. weights = <<>> /\ SumOf(task[k].split) \in Around /\ Settled
      BY <1>3, <2>1 DEF Aware, Calmly
    <3> QED BY <1>2, <2>3, <3>1 DEF Calmly, Settled, SumOf, Around
  <2>6. (task'[k].at = "plan" /\ Same(task'[k], task[k])) \/ task'[k] = Idle
    BY <1>1, <1>6, ThenMoves, Became DEF WeightsCreate
  <2>7. TypedTask(task'[k])
    BY <1>1, <2>6, IdleIsTyped DEF TypedTask, Same
  <2>8. Aware(task[k])'
    BY <2>6, IdleIsTyped DEF Aware, Idle
  <2> QED BY <1>1, <2>4, <2>5, <2>7, <2>8, MonthKeeps
<1> QED BY <1>4, <1>5, <1>6

LEMMA AllocationSums ==
  ASSUME NEW n \in Int, NEW s \in FiniteShares
  PROVE  Allocation(n, s) \in FiniteShares /\ SumOf(Allocation(n, s)) = n * SumOf(s)
<1>1. PICK S \in SUBSET Recipients : IsFiniteSet(S) /\ s \in [S -> Int]
  BY DEF FiniteShares
<1>2. PICK a, z : a = Allocation(n, s) /\ z = [r \in S |-> 0]
  OBVIOUS
<1>3. a = [r \in S |-> n * s[r]]
  BY <1>1, <1>2 DEF Allocation
<1>4. \A r \in S : s[r] \in Int /\ n * s[r] \in Int
  BY <1>1
<1>5. a \in [S -> Int] /\ z \in [S -> Int] /\ s \in [S -> Int]
  BY <1>1, <1>2, <1>3, <1>4
<1>6. \A r \in S : a[r] = z[r] + n * s[r]
  BY <1>2, <1>3, <1>4
<1>7. SumFunction(a) = SumFunction(z) + n * SumFunction(s)
  BY <1>1, <1>5, <1>6, TotalLinear
<1>8. SumFunction(z) = 0
  BY <1>1, <1>2, <1>5, TotalZero
<1>9. SumFunction(s) \in Int
  BY <1>1, <1>5, TotalType
<1>10. n * SumFunction(s) \in Int
  BY <1>9
<1>11. SumFunction(a) = n * SumFunction(s)
  BY <1>7, <1>8, <1>10
<1> QED BY <1>1, <1>2, <1>5, <1>11 DEF FiniteShares, SumOf

(* The pool is shared out by weights that add up to the whole within the   *)
(* tolerance, so the shares add up to the pool within it.                  *)
LEMMA AllocateKeeps ==
  ASSUME MonthInv, LockInv', NEW k \in Clerks, Uncalm(k),
         AllocateRead(k) \/ AllocateDelete(k) \/ AllocateCreate(k)
  PROVE  MonthInv'
<1>1. /\ FinanceShaped /\ TypedTask(task[k]) /\ PlansTyped /\ FinanceStep(k)
      /\ task[k].split \in FiniteShares /\ task[k].total \in Int /\ <<>> \in FiniteShares
  BY IdleIsTyped DEF MonthInv, LockInv, FinanceStep, TypedTask, Idle
<1>2. UNCHANGED <<bills, banked, paying, pool, weights>>
  BY DEF AllocateRead, AllocateDelete, AllocateCreate, ledgers, planning
<1>3. ASSUME calm' PROVE calm /\ Calmly /\ Aware(task[k])
  BY <1>3 DEF MonthInv, Uncalm
<1>4. calm' => Calmly'
  BY <1>2, <1>3 DEF Calmly, Settled, SumOf
<1>5. CASE AllocateRead(k)
  <2>1. pool \in Int /\ weights # <<>> /\ UNCHANGED shares
    BY <1>1, <1>5 DEF AllocateRead, PlansTyped, planning
  <2>2. PlansTyped'
    BY <1>1, <1>2, <2>1 DEF PlansTyped
  <2>3. task'[k].at = "clear" /\ task'[k].total = pool /\ task'[k].split = weights
    BY <1>1, <1>5, AllocateReadMoves
  <2>4. TypedTask(task'[k])
    BY <1>1, <2>1, <2>3 DEF TypedTask, PlansTyped
  <2>5. calm' => Aware(task[k])'
    BY <1>2, <1>3, <2>1, <2>3 DEF Aware, Calmly, SumOf
  <2> QED BY <1>1, <1>4, <2>2, <2>4, <2>5, MonthKeeps
<1>6. CASE AllocateDelete(k)
  <2>1. PlansTyped' /\ shares' = <<>>
    BY <1>1, <1>2, <1>6 DEF PlansTyped, AllocateDelete
  <2>2. task[k].at = "clear" /\ task'[k].at = "share" /\ Same(task'[k], task[k])
    BY <1>1, <1>6, ThenMoves DEF AllocateDelete, At
  <2>3. TypedTask(task'[k])
    BY <1>1, <2>2 DEF TypedTask, Same
  <2>4. calm' => Aware(task[k])'
    BY <1>2, <1>3, <2>1, <2>2 DEF Aware, Same, SumOf
  <2> QED BY <1>1, <1>4, <2>1, <2>3, <2>4, MonthKeeps
<1>7. CASE AllocateCreate(k)
  <2>1. PICK a : a = Allocation(task[k].total, task[k].split)
    OBVIOUS
  <2>2. a \in FiniteShares /\ SumOf(a) = task[k].total * SumOf(task[k].split)
    BY <1>1, <2>1, AllocationSums
  <2>3. /\ task[k].at = "share"
        /\ shares' = shares \/ shares' = Joined(shares, a)
        /\ shares = <<>> => shares' = Joined(shares, a)
    BY <1>7, <2>1 DEF AllocateCreate, At
  <2>4. shares' \in FiniteShares /\ (shares = <<>> => shares' = a)
    BY <1>1, <2>2, <2>3, SharesJoin DEF PlansTyped
  <2>5. PlansTyped'
    BY <1>1, <1>2, <2>4 DEF PlansTyped
  <2>6. (task'[k].at = "bill" /\ Same(task'[k], task[k])) \/ task'[k] = Idle
    BY <1>1, <1>7, ThenMoves, Became DEF AllocateCreate
  <2>7. TypedTask(task'[k])
    BY <1>1, <2>6, IdleIsTyped DEF TypedTask, Same
  <2>8. ASSUME calm' PROVE SharesOfPool'
    <3>1. shares' = a /\ SumOf(task[k].split) \in Around /\ pool' = task[k].total
      BY <1>2, <1>3, <2>3, <2>4, <2>8 DEF Aware
    <3>2. SumOf(shares)' = SumOf(a)
      BY <3>1 DEF SumOf
    <3>3. PICK parts \in Around : parts = SumOf(task[k].split)
      BY <3>1
    <3>4. parts \in Int
      BY IntercompanyAssumption DEF Around
    <3>5. SumOf(a) = parts * task[k].total
      BY <1>1, <2>2, <3>3, <3>4
    <3> QED BY <3>1, <3>2, <3>3, <3>5 DEF SharesOfPool, Around
  <2>9. calm' => Aware(task[k])'
    BY <2>6, <2>8, IdleIsTyped DEF Aware, Idle
  <2> QED BY <1>1, <1>4, <2>5, <2>7, <2>9, MonthKeeps
<1> QED BY <1>5, <1>6, <1>7

(* The bills, one recipient after the other.                               *)
LEMMA FindKeeps ==
  ASSUME MonthInv, LockInv', NEW k \in Clerks, Uncalm(k), GenerateRead(k) \/ GenerateFind(k) \/ SetLock(k)
  PROVE  MonthInv'
<1>1. /\ FinanceShaped /\ TypedTask(task[k]) /\ PlansTyped /\ FinanceStep(k)
      /\ task[k].split \in FiniteShares /\ task[k].total \in Int
  BY DEF MonthInv, LockInv, FinanceStep, TypedTask
<1>2. UNCHANGED <<bills, banked, paying, pool, weights, shares>>
  BY DEF GenerateRead, GenerateFind, SetLock, ledgers, planning
<1>3. ASSUME calm' PROVE calm /\ Calmly /\ Aware(task[k])
  BY <1>3 DEF MonthInv, Uncalm
<1>4. (calm' => Calmly') /\ PlansTyped'
  BY <1>1, <1>2, <1>3 DEF Calmly, Settled, SumOf, PlansTyped
<1>5. /\ \A r : Billed(r)' <=> Billed(r)
      /\ SharesOfPool' <=> SharesOfPool
      /\ \A r : LiveBills(r)' = LiveBills(r)
  BY <1>2 DEF Billed, LiveBills, SharesOfPool, SumOf, Charge
<1>6. CASE GenerateRead(k)
  <2>1. /\ task'[k].at = "find" /\ task'[k].split = shares /\ task'[k].left = DOMAIN shares
        /\ task'[k].total = task[k].total /\ task'[k].close = task[k].close
        /\ task[k].at \in {"bill", "idle"}
    BY <1>1, <1>6, GenerateReadMoves DEF GenerateRead, GoOrBegin, Begin, At
  <2>2. TypedTask(task'[k])
    BY <1>1, <2>1 DEF TypedTask, PlansTyped
  <2>3. task[k].at = "idle" => task[k].close = FALSE
    BY <1>1 DEF TypedTask, Idle
  <2>4. calm' => Aware(task[k])'
    BY <1>2, <1>3, <1>5, <2>1, <2>3 DEF Aware
  <2> QED BY <1>1, <1>4, <2>2, <2>4, MonthKeeps
<1>7. CASE GenerateFind(k)
  <2>1. CASE task'[k] = Idle
    BY <1>1, <1>4, <2>1, IdleIsTyped, MonthKeeps DEF Aware, Idle
  <2>2. CASE task'[k] # Idle
    <3>1. PICK r \in task[k].left :
            /\ task'[k].at = "write" /\ task'[k].to = r
            /\ task'[k].bill \in (IF LiveBills(r) = {} THEN {None} ELSE LiveBills(r))
            /\ task'[k].left = task[k].left \ {r} /\ task'[k].split = task[k].split
            /\ task'[k].total = task[k].total /\ task'[k].close = task[k].close
      BY <1>1, <1>7, <2>2, GenerateFindMoves
    <3>2. task[k].at = "find"
      BY <1>7 DEF GenerateFind, At
    <3>3. TypedTask(task'[k])
      BY <1>1, <3>1, <3>2 DEF TypedTask
    <3>4. task'[k].left \cup {task'[k].to} = task[k].left
      BY <3>1
    <3>5. calm' => Aware(task[k])'
      BY <1>2, <1>3, <1>5, <3>1, <3>2, <3>4 DEF Aware
    <3> QED BY <1>1, <1>4, <3>3, <3>5, MonthKeeps
  <2> QED BY <2>1, <2>2
<1>8. CASE SetLock(k)
  <2>1. task'[k] = Idle
    BY <1>1, <1>8, Became DEF SetLock, GoOrBegin
  <2>2. Aware(task[k])'
    BY <2>1 DEF Aware, Idle
  <2> QED BY <1>1, <1>4, <2>1, <2>2, IdleIsTyped, MonthKeeps
<1> QED BY <1>6, <1>7, <1>8

(* A row of a bill changes in one field, or a row is added.                *)
LEMMA NetChanges ==
  ASSUME BillsShaped, NEW b, NEW n, bills' = [bills EXCEPT ![b].net = n]
  PROVE  \A c \in Bills : /\ bills'[c].status = bills[c].status /\ bills'[c].recipient = bills[c].recipient
                          /\ bills'[c].net = IF c = b THEN n ELSE bills[c].net
BY DEF BillsShaped, BillFields

LEMMA StatusChanges ==
  ASSUME BillsShaped, NEW b, NEW s, bills' = [bills EXCEPT ![b].status = s]
  PROVE  \A c \in Bills : /\ bills'[c].net = bills[c].net
                          /\ bills'[c].status = IF c = b THEN s ELSE bills[c].status
BY DEF BillsShaped, BillFields

LEMMA RowIsAdded ==
  ASSUME BillsShaped, NEW b \in Bills, NEW row, bills' = [bills EXCEPT ![b] = row]
  PROVE  bills'[b] = row /\ \A c \in Bills : c # b => bills'[c] = bills[c]
BY DEF BillsShaped

(* The charge of a recipient that is written: in a live bill of his or in  *)
(* a new one.  Whoever was billed still is.                                *)
LEMMA WriteBills ==
  ASSUME MonthInv, NEW k \in Clerks, GenerateWrite(k), calm
  PROVE  /\ \A r : r = task[k].to \/ Billed(r) => Billed(r)'
         /\ Settled'
<1>1. PICK t : t = task[k]
  OBVIOUS
<1>2. PICK n : n = Charge(shares[t.to])
  OBVIOUS
<1>3. /\ t.split = shares /\ t.at = "write" /\ (t.bill = None \/ t.bill \in LiveBills(t.to))
  BY <1>1 DEF MonthInv, Aware, GenerateWrite, At
<1>4. UNCHANGED <<shares, banked, paying>> /\ BillsShaped /\ Settled
  BY DEF MonthInv, LockInv, FinanceShaped, GenerateWrite, planning, ledgers, Calmly
<1>5. CASE t.bill # None
  <2>1. PICK b : b = t.bill /\ b \in LiveBills(t.to)
    BY <1>3, <1>5
  <2>2. bills' = [bills EXCEPT ![b].net = n]
    BY <1>1, <1>2, <1>3, <1>5, <2>1 DEF GenerateWrite
  <2>3. \A c \in Bills : /\ bills'[c].status = bills[c].status /\ bills'[c].recipient = bills[c].recipient
                         /\ bills'[c].net = IF c = b THEN n ELSE bills[c].net
    BY <1>4, <2>2 DEF BillsShaped, BillFields
  <2>4. \A r : LiveBills(r)' = LiveBills(r)
    BY <2>3 DEF LiveBills
  <2>5. Billed(t.to)'
    BY <1>2, <1>4, <2>1, <2>3, <2>4 DEF Billed, LiveBills, Charge
  <2>6. ASSUME NEW r, r # t.to, Billed(r) PROVE Billed(r)'
    <3>1. PICK c \in LiveBills(r) : bills[c].net = Charge(shares[r])
      BY <2>6 DEF Billed
    <3>2. c # b /\ c \in Bills
      BY <2>1, <2>6, <3>1 DEF LiveBills
    <3> QED BY <1>4, <2>3, <2>4, <3>1, <3>2 DEF Billed, Charge
  <2>7. Settled'
    <3>1. b \in Bills /\ bills[b].status # "paid"
      BY <2>1 DEF LiveBills
    <3> QED BY <1>4, <2>3, <3>1 DEF Settled
  <2> QED BY <1>1, <2>5, <2>6, <2>7
<1>6. CASE t.bill = None
  <2>1. PICK b \in Bills \ Existing :
          bills' = [bills EXCEPT ![b] = [status |-> "draft", recipient |-> t.to, net |-> n, credit |-> FALSE]]
    BY <1>1, <1>2, <1>3, <1>6 DEF GenerateWrite
  <2>2. PICK row : row = [status |-> "draft", recipient |-> t.to, net |-> n, credit |-> FALSE]
    OBVIOUS
  <2>3. bills'[b] = row /\ \A c \in Bills : c # b => bills'[c] = bills[c]
    BY <1>4, <2>1, <2>2, RowIsAdded
  <2>4. row.status = "draft" /\ row.recipient = t.to /\ row.net = n
    BY <2>2
  <2>5. bills[b].status = "absent"
    BY DEF Existing, NoBill
  <2>6. Billed(t.to)'
    BY <1>2, <1>4, <2>3, <2>4 DEF Billed, LiveBills, Charge
  <2>7. ASSUME NEW r, Billed(r) PROVE Billed(r)'
    <3>1. PICK c \in LiveBills(r) : bills[c].net = Charge(shares[r])
      BY <2>7 DEF Billed
    <3>2. c # b /\ c \in Bills
      BY <2>5, <3>1 DEF LiveBills
    <3> QED BY <1>4, <2>3, <3>1, <3>2 DEF Billed, LiveBills, Charge
  <2>8. Settled'
    BY <1>4, <2>3, <2>4 DEF Settled
  <2> QED BY <1>1, <2>6, <2>7, <2>8
<1> QED BY <1>5, <1>6

LEMMA WriteKeeps ==
  ASSUME MonthInv, LockInv', NEW k \in Clerks, Uncalm(k), GenerateWrite(k)
  PROVE  MonthInv'
<1>1. /\ FinanceShaped /\ BillsShaped /\ TypedTask(task[k]) /\ PlansTyped /\ FinanceStep(k)
      /\ task[k].split \in FiniteShares /\ task[k].total \in Int
  BY DEF MonthInv, LockInv, FinanceShaped, FinanceStep, TypedTask
<1>2. UNCHANGED <<banked, paying, pool, weights, shares>> /\ task[k].at = "write"
  BY DEF GenerateWrite, ledgers, planning, At
<1>3. ASSUME calm' PROVE calm /\ Calmly /\ Aware(task[k])
  BY <1>3 DEF MonthInv, Uncalm
<1>4. PlansTyped'
  <2>1. PICK n : n = Charge(task[k].split[task[k].to])
    OBVIOUS
  <2>2. n \in Int
    <3>1. task[k].split[task[k].to] \in Int
      BY <1>1, <1>2 DEF TypedTask, FiniteShares
    <3> QED BY <2>1, <3>1, IntercompanyAssumption DEF Charge
  <2>3. CASE task[k].bill # None
    <3>1. \E b : bills' = [bills EXCEPT ![b].net = n]
      BY <2>1, <2>3 DEF GenerateWrite
    <3>2. \A c \in Bills : bills'[c].net \in {n, bills[c].net}
      BY <1>1, <3>1, NetChanges
    <3> QED BY <1>1, <1>2, <2>2, <3>2 DEF PlansTyped
  <2>4. CASE task[k].bill = None
    <3>1. PICK b \in Bills :
            bills' = [bills EXCEPT ![b] = [status |-> "draft", recipient |-> task[k].to, net |-> n, credit |-> FALSE]]
      BY <2>1, <2>4 DEF GenerateWrite
    <3>2. \A c \in Bills : bills'[c].net \in {n, bills[c].net}
      BY <1>1, <3>1, RowIsAdded
    <3> QED BY <1>1, <1>2, <2>2, <3>2 DEF PlansTyped
  <2> QED BY <2>3, <2>4
<1>5. calm' => Calmly'
  BY <1>2, <1>3, WriteBills DEF Calmly, SumOf
<1>6. ASSUME calm' PROVE \A r \in DOMAIN shares' : r \notin task[k].left => Billed(r)'
  BY <1>2, <1>3, <1>6, WriteBills DEF Aware
<1>7. SharesOfPool' <=> SharesOfPool
  BY <1>2 DEF SharesOfPool, SumOf
<1>8. \/ task'[k] = Idle
      \/ task'[k].at = "find" /\ Same(task'[k], task[k])
      \/ task'[k].at = "lock" /\ Same(task'[k], task[k]) /\ task[k].left = {} /\ task[k].close
  BY <1>1, Became, ThenMoves DEF GenerateWrite
<1>9. TypedTask(task'[k])
  BY <1>1, <1>2, <1>8, IdleIsTyped DEF TypedTask, Same
<1>10. calm' => Aware(task[k])'
  <2>1. CASE task'[k] = Idle
    BY <2>1 DEF Aware, Idle
  <2>2. CASE task'[k].at = "find" /\ Same(task'[k], task[k])
    BY <1>2, <1>3, <1>6, <1>7, <2>2 DEF Aware, Same
  <2>3. CASE task'[k].at = "lock" /\ Same(task'[k], task[k]) /\ task[k].left = {} /\ task[k].close
    BY <1>2, <1>3, <1>6, <1>7, <2>3 DEF Aware, Same
  <2> QED BY <1>8, <2>1, <2>2, <2>3
<1> QED BY <1>1, <1>4, <1>5, <1>9, <1>10, MonthKeeps

(* The other bills that are written, and the payments.                     *)
LEMMA StatusKeeps ==
  ASSUME MonthInv, LockInv', NEW k \in Clerks, Uncalm(k),
         IssueWrite(k) \/ CreditWrite(k) \/ PaymentCreate(k) \/ SumRead(k) \/ SumWrite(k)
  PROVE  MonthInv'
<1>1. /\ FinanceShaped /\ BillsShaped /\ TypedTask(task[k]) /\ PlansTyped /\ FinanceStep(k)
      /\ task[k].split \in FiniteShares /\ task[k].total \in Int
      /\ task[k].at # "idle"
  BY DEF MonthInv, LockInv, FinanceShaped, FinanceStep, TypedTask, IssueWrite, CreditWrite, PaymentCreate, SumRead,
     SumWrite, At
<1>2. UNCHANGED <<pool, weights, shares>>
  BY DEF IssueWrite, CreditWrite, PaymentCreate, SumRead, SumWrite, ledgers, planning
<1>3. ASSUME calm' PROVE calm /\ Calmly /\ Aware(task[k])
  BY <1>3 DEF MonthInv, Uncalm
<1>4. PICK b, s : b = task[k].bill /\ s = task[k].to
  OBVIOUS
<1>5. /\ (\A c \in Bills : bills'[c].net \in Int)
      /\ TypedTask(task'[k])
      /\ calm' => Settled' /\ Aware(task[k])'
  <2>1. CASE IssueWrite(k)
    <3>1. bills' = [bills EXCEPT ![b].status = "issued"] /\ UNCHANGED <<banked, paying>>
      BY <1>4, <2>1 DEF IssueWrite
    <3>2. \A c \in Bills : /\ bills'[c].net = bills[c].net
                           /\ bills'[c].status = IF c = b THEN "issued" ELSE bills[c].status
      BY <1>1, <3>1 DEF BillsShaped, BillFields
    <3>3. task'[k].at = "post" /\ Same(task'[k], task[k])
      BY <1>1, <2>1, ThenMoves DEF IssueWrite
    <3> QED BY <1>1, <1>3, <3>1, <3>2, <3>3 DEF PlansTyped, TypedTask, Same, Calmly, Settled, Aware
  <2>2. CASE CreditWrite(k)
    <3>0. PICK c \in Bills \ Existing :
            /\ bills' = [bills EXCEPT ![c] = [status |-> "issued", recipient |-> task[k].to,
                                              net |-> task[k].net, credit |-> TRUE]]
            /\ TaskRow(task'[k]) /\ task'[k].at = "post" /\ task'[k].split = task[k].split
            /\ task'[k].total = task[k].total
      BY <1>1, <2>2, CreditWriteMoves
    <3>7. PICK row : row = [status |-> "issued", recipient |-> task[k].to, net |-> task[k].net, credit |-> TRUE]
      OBVIOUS
    <3>1. /\ c \in Bills /\ bills' = [bills EXCEPT ![c] = row] /\ row.status = "issued" /\ row.net = task[k].net
            /\ TaskRow(task'[k]) /\ task'[k].at = "post" /\ task'[k].split = task[k].split
            /\ task'[k].total = task[k].total
      BY <3>0, <3>7
    <3>2. bills'[c] = row /\ \A d \in Bills : d # c => bills'[d] = bills[d]
      BY <1>1, <3>1, RowIsAdded
    <3>3. task[k].net \in Int /\ UNCHANGED <<banked, paying>>
      BY <1>1, <2>2 DEF CreditWrite, TypedTask, At
    <3>4. \A d \in Bills : bills'[d].net \in Int
      BY <1>1, <3>1, <3>2, <3>3 DEF PlansTyped
    <3>5. Settled => Settled'
      BY <3>1, <3>2, <3>3 DEF Settled
    <3> QED BY <1>1, <1>3, <3>1, <3>4, <3>5 DEF TypedTask, Calmly, Aware
  <2>3. CASE PaymentCreate(k)
    <3>1. PICK n : n = task[k].net
      OBVIOUS
    <3>2. /\ banked' = [banked EXCEPT ![b] = @ + n] /\ paying' = [paying EXCEPT ![b] = "late"]
          /\ bills' = bills
      BY <1>4, <2>3, <3>1 DEF PaymentCreate
    <3>4. \A c \in Bills : paying'[c] # "late" => banked'[c] = banked[c] /\ paying'[c] = paying[c]
      BY <1>1, <3>2 DEF FinanceShaped, PaymentsShaped
    <3>5. task'[k].at = "note" /\ Same(task'[k], task[k])
      BY <1>1, <2>3, ThenMoves DEF PaymentCreate
    <3>6. Settled => Settled'
      BY <3>2, <3>4 DEF Settled
    <3>7. TypedTask(task'[k])
      BY <1>1, <3>5 DEF TypedTask, Same
    <3> QED BY <1>1, <1>3, <3>2, <3>5, <3>6, <3>7 DEF PlansTyped, Calmly, Aware
  <2>4. CASE SumRead(k)
    <3>1. /\ task'[k].at = "settle" /\ task'[k].split = task[k].split /\ task'[k].total = task[k].total
          /\ task'[k].bill = b /\ task'[k].to = StatusFor(b, banked[b])
          /\ UNCHANGED <<bills, banked, paying>>
      BY <1>1, <1>4, <2>4, SumReadMoves DEF SumRead, ledgers
    <3>2. StatusFor(b, banked[b]) = "paid" /\ b \in Bills => banked[b] >= bills[b].net
      <4> SUFFICES ASSUME StatusFor(b, banked[b]) = "paid" PROVE banked[b] >= bills[b].net
        OBVIOUS
      <4> QED BY DEF StatusFor
    <3>3. TypedTask(task'[k])
      BY <1>1, <3>1 DEF TypedTask
    <3>4. Aware(task[k])'
      BY <3>1, <3>2 DEF Aware
    <3> QED BY <1>1, <1>3, <3>1, <3>3, <3>4 DEF PlansTyped, Calmly, Settled
  <2>5. CASE SumWrite(k)
    <3>1. /\ bills' = [bills EXCEPT ![b].status = s] /\ paying' = [paying EXCEPT ![b] = "summed"]
          /\ UNCHANGED banked /\ task[k].at = "settle"
      BY <1>4, <2>5 DEF SumWrite, At
    <3>2. \A c \in Bills : /\ bills'[c].net = bills[c].net
                           /\ bills'[c].status = IF c = b THEN s ELSE bills[c].status
                           /\ c # b => paying'[c] = paying[c]
      BY <1>1, <3>1 DEF BillsShaped, BillFields, FinanceShaped, PaymentsShaped
    <3>3. task'[k] = Idle
      BY <1>1, <2>5, Became DEF SumWrite
    <3>4. ASSUME calm' PROVE Settled'
      <4>1. Settled /\ (s = "paid" /\ b \in Bills => banked[b] >= bills[b].net)
        BY <1>3, <1>4, <3>1, <3>4 DEF Calmly, Aware
      <4> QED BY <3>1, <3>2, <4>1 DEF Settled
    <3>5. Aware(task[k])'
      BY <3>3 DEF Aware, Idle
    <3> QED BY <1>1, <3>2, <3>3, <3>4, <3>5, IdleIsTyped DEF PlansTyped
  <2> QED BY <2>1, <2>2, <2>3, <2>4, <2>5
<1>6. PlansTyped' /\ (calm' => Calmly')
  BY <1>1, <1>2, <1>3, <1>5 DEF PlansTyped, Calmly, SumOf
<1> QED BY <1>1, <1>5, <1>6, MonthKeeps

LEMMA MonthStep == MonthInv /\ [IntercompanyNext]_finance => MonthInv'
<1> SUFFICES ASSUME MonthInv, [IntercompanyNext]_finance PROVE MonthInv'
  OBVIOUS
<1>1. LockInv'
  BY FinanceGoesOn DEF MonthInv
<1>2. CASE UNCHANGED finance
  BY <1>1, <1>2 DEF finance, planning, ledgers, MonthInv, PlansTyped, TypedTask, Calmly, Settled, Aware, SumOf, SharesOfPool,
     Billed, LiveBills, Charge
<1>3. ASSUME NEW k \in Clerks, FinanceStep(k), calm' = (calm /\ \A j \in Clerks \ {k} : At(j, "idle"))
      PROVE  MonthInv'
  <2>1. Uncalm(k)
    BY <1>3 DEF Uncalm
  <2> QED BY <1>1, <1>3, <2>1, OnlyPosting, PoolKeeps, AllocateKeeps, FindKeeps, WriteKeeps, StatusKeeps
          DEF FinanceStep
<1> QED BY <1>2, <1>3 DEF IntercompanyNext

LEMMA MonthStart == IntercompanyInit => MonthInv
<1> SUFFICES ASSUME IntercompanyInit PROVE MonthInv
  OBVIOUS
<1>1. \A k \in Clerks : task[k] = Idle
  BY DEF IntercompanyInit
<1>2. <<>> \in FiniteShares
  BY IdleIsTyped DEF TypedTask, Idle
<1>3. PlansTyped /\ Calmly
  BY <1>2 DEF IntercompanyInit, PlansTyped, Calmly, Settled, NoBill
<1> QED BY <1>1, <1>3, IdleIsTyped, FinanceStarts DEF MonthInv

(* The period is locked by a close only when the month is complete.        *)
MonthComplete ==
  \A k \in Clerks : calm' /\ At(k, "lock") /\ locked' /\ ~locked =>
    /\ \E parts \in Whole - Tolerance .. Whole + Tolerance : SumOf(shares) = parts * pool
    /\ \A r \in DOMAIN shares : \E b \in LiveBills(r) : bills[b].net = Charge(shares[r])

LEMMA MonthCloses == MonthInv /\ [IntercompanyNext]_finance => MonthComplete \/ UNCHANGED finance
<1> SUFFICES ASSUME MonthInv, IntercompanyNext PROVE MonthComplete
  OBVIOUS
<1>1. calm' => calm
  BY DEF IntercompanyNext
<1> QED BY <1>1 DEF MonthComplete, MonthInv, Aware, At, SharesOfPool, Around, Billed

(* While requests are served one at a time, a paid bill whose last payment *)
(* came as far as the status has payments for its amount, whatever is paid *)
(* and taken back: a bill is generated again only while it is not paid     *)
(* (recomputeInvoiceStatus).                                               *)
THEOREM PaidBillsAreBanked == Spec => []PaidIsBanked
<1>1. Init => MonthInv
  BY MonthStart DEF Init
<1>2. MonthInv /\ [Next]_vars => MonthInv'
  BY MonthStep DEF Next, vars, IntercompanyNext
<1>3. MonthInv => PaidIsBanked
  BY DEF MonthInv, Calmly, Settled, PaidIsBanked
<1> QED  BY <1>1, <1>2, <1>3, PTL DEF Spec

(* While requests are served one at a time, a close locks the period with  *)
(* the allocations adding up to the pool, to within the tolerance of the   *)
(* weights, and a live bill of every recipient for its share               *)
(* (createCostPool, runMonthClose).                                        *)
THEOREM ClosesAreComplete == Spec => CloseIsComplete
<1>1. Init => MonthInv
  BY MonthStart DEF Init
<1>2. MonthInv /\ [Next]_vars => MonthInv' /\ (MonthComplete \/ UNCHANGED finance)
  BY MonthStep, MonthCloses DEF Next, vars, IntercompanyNext
<1> QED  BY <1>1, <1>2, PTL DEF Spec, CloseIsComplete, MonthComplete
===============================================================================
