------------------------------- MODULE Consumer --------------------------------
(***************************************************************************)
(* The consumer of order events: events.consumer.ts, the inbox that keeps  *)
(* the events already seen (event-inbox.service.ts) and the handler of     *)
(* order-events.consumer.ts, in several server processes on one queue.     *)
(* The broker is outside: it delivers a queued message to one consumer,    *)
(* and puts it back when that connection closes before it is acknowledged. *)
(* A process connects when it starts and never again.                      *)
(***************************************************************************)
EXTENDS Requests, Integers, FiniteSets, Functions

CONSTANTS Servers,   \* processes with EVENTS_CONSUMERS_ENABLED
          Messages,  \* messages published to the queue
          Events,    \* event ids
          EventOf,   \* the id a message carries; None: invalid JSON or no id
          Prefetch,  \* EVENTS_PREFETCH
          MaxFaults  \* bound on closed connections, stopped servers and database errors

ASSUME ConsumerAssumption ==
  /\ None \notin Servers \cup Events
  /\ EventOf \in [Messages -> Events \cup {None}]
  /\ Prefetch \in Nat \ {0} /\ MaxFaults \in Nat

VARIABLES server,   \* consuming, deaf (no channel) or down
          message,  \* queued, unacked, acked or dead (dead-lettered)
          holder,   \* the server an unacknowledged message was delivered to
          job,      \* per server and message: none, recording, fresh or duplicate
          inbox,    \* event ids in event_inbox, unique for the consumer
          handled,  \* history: how often an event was handled
          faults    \* faults so far

events == <<server, message, holder, job, inbox, handled, faults>>

ConsumerInit ==
  /\ server = [s \in Servers |-> "down"]
  /\ message = [m \in Messages |-> "queued"]
  /\ holder = [m \in Messages |-> None]
  /\ job = [s \in Servers |-> [m \in Messages |-> "none"]]
  /\ inbox = {}
  /\ handled = [e \in Events |-> 0]
  /\ faults = 0

HeldBy(s) == {m \in Messages : holder[m] = s}
Working(s, m, next) == job' = [job EXCEPT ![s][m] = next]
Settle(m, next) == /\ message' = [message EXCEPT ![m] = next]
                   /\ holder' = [holder EXCEPT ![m] = None]

(* What the broker does when it loses the connection of a server.          *)
PutBack(s) ==
  /\ message' = [m \in Messages |-> IF m \in HeldBy(s) THEN "queued" ELSE message[m]]
  /\ holder' = [m \in Messages |-> IF m \in HeldBy(s) THEN None ELSE holder[m]]

Down(s) ==
  /\ server' = [server EXCEPT ![s] = "down"]
  /\ job' = [job EXCEPT ![s] = [m \in Messages |-> "none"]]

(* onModuleInit: ensureChannel swallows a failure, then nothing consumes.  *)
Start(s) ==
  /\ server[s] = "down"
  /\ \E up \in {"consuming", "deaf"} : server' = [server EXCEPT ![s] = up]
  /\ UNCHANGED <<message, holder, job, inbox, handled, faults>>

(* The broker delivers; a message without an id is rejected for good.      *)
DeliverMessage(s, m) ==
  /\ server[s] = "consuming"
  /\ message[m] = "queued"
  /\ Cardinality(HeldBy(s)) < Prefetch
  /\ IF EventOf[m] = None
     THEN Settle(m, "dead") /\ UNCHANGED job
     ELSE /\ message' = [message EXCEPT ![m] = "unacked"]
          /\ holder' = [holder EXCEPT ![m] = s]
          /\ Working(s, m, "recording")
  /\ UNCHANGED <<server, inbox, handled, faults>>

(* inbox.record: the insert, or the unique index that refuses it.          *)
MutantSeen(e) == FALSE  \* a unique violation is not recognised
Seen(e) == e \in inbox

RecordEvent(s, m) ==
  /\ job[s][m] = "recording"
  /\ Working(s, m, IF Seen(EventOf[m]) THEN "duplicate" ELSE "fresh")
  /\ inbox' = inbox \cup {EventOf[m]}
  /\ UNCHANGED <<server, message, holder, handled, faults>>

(* The database fails, before or after the insert is committed: the        *)
(* message is given back to the queue, or, when the channel is gone, the   *)
(* error handler itself throws.                                            *)
RecordFails(s, m) ==
  /\ faults < MaxFaults
  /\ job[s][m] = "recording"
  /\ inbox' \in {inbox, inbox \cup {EventOf[m]}}
  /\ IF server[s] = "consuming"
     THEN Settle(m, "queued") /\ Working(s, m, "none") /\ UNCHANGED server
     ELSE Down(s) /\ UNCHANGED <<message, holder>>
  /\ faults' = faults + 1
  /\ UNCHANGED handled

(* The event is handled unless it is a duplicate, then acknowledged.  When *)
(* the channel is gone ack throws and so does nack in the catch: nobody    *)
(* handles that rejection and the process ends.                            *)
MutantAnswer(s, m) ==  \* acknowledged before the inbox was written
  /\ job[s][m] # "none"
  /\ handled' = [handled EXCEPT ![EventOf[m]] = @ + IF job[s][m] = "fresh" THEN 1 ELSE 0]
  /\ IF server[s] = "consuming"
     THEN Settle(m, "acked") /\ Working(s, m, "none") /\ UNCHANGED server
     ELSE Down(s) /\ UNCHANGED <<message, holder>>
  /\ UNCHANGED <<inbox, faults>>

Answer(s, m) ==
  /\ job[s][m] \in {"fresh", "duplicate"}
  /\ handled' = [handled EXCEPT ![EventOf[m]] = @ + IF job[s][m] = "fresh" THEN 1 ELSE 0]
  /\ IF server[s] = "consuming"
     THEN Settle(m, "acked") /\ Working(s, m, "none") /\ UNCHANGED server
     ELSE Down(s) /\ UNCHANGED <<message, holder>>
  /\ UNCHANGED <<inbox, faults>>

(* The connection closes: the handlers go on, the channel is forgotten.    *)
ConnectionCloses(s) ==
  /\ faults < MaxFaults
  /\ server[s] = "consuming"
  /\ server' = [server EXCEPT ![s] = "deaf"]
  /\ PutBack(s)
  /\ faults' = faults + 1
  /\ UNCHANGED <<job, inbox, handled>>

ServerStops(s) ==
  /\ faults < MaxFaults
  /\ server[s] # "down"
  /\ Down(s) /\ PutBack(s)
  /\ faults' = faults + 1
  /\ UNCHANGED <<inbox, handled>>

ConsumerNext ==
  \E s \in Servers :
    \/ Start(s) \/ ConnectionCloses(s) \/ ServerStops(s)
    \/ \E m \in Messages : DeliverMessage(s, m) \/ RecordEvent(s, m) \/ RecordFails(s, m) \/ Answer(s, m)

-----------------------------------------------------------------------------
(* An event is handled at most once, whatever is published twice or        *)
(* delivered again, by whichever processes, and however handlers of a      *)
(* closed connection and those of the next one overlap (inbox.record).     *)
HandledOnce == \A e \in Events : handled[e] <= 1

(* No event is lost on the way to the inbox: a message with an id is in    *)
(* the queue, with a consumer that still has to answer for it, or its      *)
(* event is in the inbox (EventsConsumerService.handleMessage).  That the  *)
(* event was also handled does not follow: the inbox is written first.     *)
NothingLost ==
  \A m \in Messages : EventOf[m] # None =>
    \/ message[m] = "queued"
    \/ message[m] = "unacked" /\ \E s \in Servers : holder[m] = s /\ job[s][m] # "none"
    \/ message[m] = "acked" /\ EventOf[m] \in inbox
===============================================================================
