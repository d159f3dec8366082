---------------------------- MODULE ServiceRequests ----------------------------
(***************************************************************************)
(* The service requests of shared-services.service.ts: raised, approved or *)
(* rejected by somebody else, assigned, started, completed, cancelled.     *)
(* Every handler reads the row, decides, writes it without a condition and *)
(* then records what it did in the audit log, which is also the only place *)
(* where the author of a request is kept.                                  *)
(***************************************************************************)
EXTENDS Requests, FiniteSets

CONSTANTS Tickets,  \* ids of service_requests (bound)
          Actors    \* signed-in users

ASSUME TicketAssumption == None \notin Tickets \cup Actors

VARIABLES tickets,   \* status, whether its category requires approval, approvedBy, rejectedBy
          audit,     \* entries of audit_logs: ticket, action, actor; of the actions in Told
          visit,     \* per client, the handler it runs and how far it is
          approvals, \* history: tickets that were approved at some time
          orderly    \* history: handlers ran one at a time and to their end

requests == <<tickets, audit, visit, approvals, orderly>>

NoTicket == [status |-> "absent", gated |-> FALSE, approvedBy |-> None, rejectedBy |-> None]
NoVisit == [op |-> "none", ticket |-> None, actor |-> None, at |-> "start"]
Told == {"create", "approve"}  \* nothing reads the entries of the other actions

RequestsInit ==
  /\ tickets = [t \in Tickets |-> NoTicket]
  /\ audit = {}
  /\ visit = [c \in Clients |-> NoVisit]
  /\ approvals = {}
  /\ orderly = TRUE

(* Each operation, with the statuses it is allowed in; onHold is never set.*)
From ==
  [approve |-> {"open"}, reject |-> {"open"}, assign |-> {"open", "approved", "inProgress", "onHold"},
   start |-> {"open", "approved", "onHold"}, complete |-> {"inProgress"},
   cancel |-> {"open", "approved", "inProgress", "onHold"}]

MutantUngated(op, t) == tickets[t].status \in From[op]  \* approval is not required to start
Allowed(op, t) ==
  /\ tickets[t].status \in From[op]
  /\ op = "start" /\ tickets[t].gated => tickets[t].status # "open"

Go(c, next) == visit' = [visit EXCEPT ![c] = next]

(* createServiceRequest: the row, then the audit entry.                    *)
RaiseTicket(c) ==
  /\ visit[c] = NoVisit
  /\ \E t \in Tickets, u \in Actors, gated \in BOOLEAN :
       /\ tickets[t] = NoTicket
       /\ tickets' = [tickets EXCEPT ![t] = [NoTicket EXCEPT !.status = "open", !.gated = gated]]
       /\ Go(c, [op |-> "create", ticket |-> t, actor |-> u, at |-> "record"])
  /\ UNCHANGED <<audit, approvals>>

(* getRequestForUpdate and the status checks of the handler.               *)
ReadTicket(c) ==
  /\ visit[c] = NoVisit
  /\ \E t \in Tickets, op \in DOMAIN From :
       /\ Allowed(op, t)
       /\ IF op \in {"approve", "reject"}
          THEN \E u \in Actors : Go(c, [op |-> op, ticket |-> t, actor |-> u, at |-> "author"])
          ELSE Go(c, [op |-> op, ticket |-> t, actor |-> None, at |-> "write"])
  /\ UNCHANGED <<tickets, audit, approvals>>

(* assertNotSelfApproval: the author is looked up in the audit log.        *)
OwnRequest(t, u) == [ticket |-> t, action |-> "create", actor |-> u] \in audit

CheckAuthor(c) ==
  /\ visit[c].at = "author"
  /\ ~OwnRequest(visit[c].ticket, visit[c].actor)
  /\ Go(c, [visit[c] EXCEPT !.at = "write"])
  /\ UNCHANGED <<tickets, audit, approvals>>

(* The update, whatever the status is by now.                              *)
Status(op, was) ==
  CASE op = "approve" -> "approved" [] op = "reject" -> "rejected" [] op = "start" -> "inProgress"
    [] op = "complete" -> "completed" [] op = "cancel" -> "cancelled" [] op = "assign" -> was

WriteTicket(c) ==
  LET v == visit[c]
      t == v.ticket
      decides == v.op \in {"approve", "reject"}
  IN  /\ v.at = "write"
      /\ tickets' = [tickets EXCEPT ![t] =
           [status |-> Status(v.op, @.status), gated |-> @.gated,
            approvedBy |-> IF v.op = "approve" THEN v.actor ELSE IF decides THEN None ELSE @.approvedBy,
            rejectedBy |-> IF v.op = "reject" THEN v.actor ELSE IF decides THEN None ELSE @.rejectedBy]]
      /\ approvals' = IF v.op = "approve" THEN approvals \cup {t} ELSE approvals
      /\ Go(c, [v EXCEPT !.at = "record"])
      /\ UNCHANGED audit

RecordAudit(c) ==
  LET v == visit[c] IN
  /\ v.at = "record"
  /\ audit' = IF v.op \notin Told THEN audit
              ELSE audit \cup {[ticket |-> v.ticket, action |-> v.op, actor |-> v.actor]}
  /\ Go(c, NoVisit)
  /\ UNCHANGED <<tickets, approvals>>

(* The handler throws, or the server stops.                                *)
VisitStops(c) ==
  /\ visit[c] # NoVisit
  /\ Go(c, NoVisit)
  /\ UNCHANGED <<tickets, audit, approvals>>

Single == \A c, d \in Clients : visit[c] # NoVisit /\ visit[d] # NoVisit => c = d

RequestsNext ==
  \E c \in Clients :
    \/ /\ RaiseTicket(c) \/ ReadTicket(c) \/ CheckAuthor(c) \/ WriteTicket(c) \/ RecordAudit(c)
       /\ orderly' = (orderly /\ Single')
    \/ /\ VisitStops(c)
       /\ orderly' = (orderly /\ visit[c].at # "record")

-----------------------------------------------------------------------------
(* However handlers interleave, work on a request whose category requires  *)
(* approval was approved before it started; and while handlers run one at  *)
(* a time and to their end, its approval stands, was given by somebody     *)
(* other than its author and is in the audit log (startServiceRequest,     *)
(* assertNotSelfApproval).                                                 *)
FourEyes ==
  \A t \in Tickets : tickets[t].gated /\ tickets[t].status \in {"inProgress", "completed"} =>
    /\ t \in approvals
    /\ orderly =>
         LET by == tickets[t].approvedBy IN
         /\ [ticket |-> t, action |-> "approve", actor |-> by] \in audit
         /\ [ticket |-> t, action |-> "create", actor |-> by] \notin audit
         /\ tickets[t].rejectedBy = None
===============================================================================
