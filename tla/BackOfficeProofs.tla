-------------------------- MODULE BackOfficeProofs ---------------------------
(***************************************************************************)
(* Seven parts of the back office and the till, for any number of          *)
(* everything: events are handled once and not lost, a parcel is where its *)
(* carrier said, the facets of an item follow its columns, gated work was  *)
(* approved, a till nobody is signed in to shows it, what a till sells is  *)
(* paid for, and the rates of past months stay.  One section per part;     *)
(* each ends in the theorem its invariant is for.                          *)
(***************************************************************************)
EXTENDS BackOffice, SumTheorems

(* Where a handler of a delivered message is.                              *)
JobStates == {"none", "recording", "fresh", "duplicate"}

(* The types of the consumer's state.                                      *)
ConsumerTypes ==
  /\ server \in [Servers -> {"consuming", "deaf", "down"}]
  /\ message \in [Messages -> {"queued", "unacked", "acked", "dead"}]
  /\ holder \in [Messages -> Servers \cup {None}]
  /\ job \in [Servers -> [Messages -> JobStates]]
  /\ inbox \subseteq Events
  /\ handled \in [Events -> Nat]

(* What is worked on is an event; what is no event is dead at once.        *)
JobsAreEvents ==
  \A s \in Servers, m \in Messages : job[s][m] # "none" => EventOf[m] \in Events

(* After its insert a handler's event is in the inbox.                     *)
JobsRecorded ==
  \A s \in Servers, m \in Messages : job[s][m] \in {"fresh", "duplicate"} => EventOf[m] \in inbox

(* An event that had its effect is in the inbox.                           *)
HandledRecorded == \A e \in Events : handled[e] > 0 => e \in inbox

(* A handler that inserted the inbox row is about to have the effect and   *)
(* nobody had it before.                                                   *)
FreshIsUnhandled ==
  \A s \in Servers, m \in Messages : job[s][m] = "fresh" => handled[EventOf[m]] = 0

(* And it is the only one of its event: the inbox key refuses a second.    *)
FreshIsOne ==
  \A s, t \in Servers, m, n \in Messages :
    job[s][m] = "fresh" /\ job[t][n] = "fresh" /\ EventOf[m] = EventOf[n] => s = t /\ m = n

(* A server that is down works on nothing.                                 *)
DownIsIdle == \A s \in Servers, m \in Messages : server[s] = "down" => job[s][m] = "none"

(* A server with a channel holds what it works on, unacknowledged.         *)
ConsumingHolds ==
  \A s \in Servers, m \in Messages :
    server[s] = "consuming" /\ job[s][m] # "none" => holder[m] = s /\ message[m] = "unacked"

(* The broker takes back what the closed channel held.                     *)
HoldersConsume ==
  \A m \in Messages : holder[m] # None => server[holder[m]] = "consuming"

(* An unacknowledged message is worked on by the one that holds it.        *)
UnackedIsWorked ==
  \A m \in Messages : message[m] = "unacked" =>
    \E s \in Servers : holder[m] = s /\ job[s][m] # "none"

(* What is acknowledged was recorded, what is dead was no event.           *)
SettledIsRight ==
  \A m \in Messages : /\ message[m] = "acked" => EventOf[m] \in inbox
                      /\ message[m] = "dead" => EventOf[m] = None

OnceInv == JobsAreEvents /\ JobsRecorded /\ HandledRecorded /\ FreshIsUnhandled /\ FreshIsOne /\ HandledOnce

LostInv == DownIsIdle /\ ConsumingHolds /\ HoldersConsume /\ UnackedIsWorked /\ SettledIsRight

ConsumerInv == ConsumerTypes /\ OnceInv /\ LostInv

(* A handler goes to its next place.                                       *)
LEMMA WorkingSets ==
  ASSUME ConsumerTypes, NEW s \in Servers, NEW m \in Messages, NEW next \in JobStates,
         Working(s, m, next)
  PROVE  /\ job' \in [Servers -> [Messages -> JobStates]]
         /\ \A t \in Servers, n \in Messages :
              job'[t][n] = IF t = s /\ n = m THEN next ELSE job[t][n]
  <1> DEFINE row == [job[s] EXCEPT ![m] = next]
  <1>1. job' = [job EXCEPT ![s] = row]
    BY Zenon DEF Working
  <1>2. row \in [Messages -> JobStates] /\ \A n \in Messages : row[n] = IF n = m THEN next ELSE job[s][n]
    BY DEF ConsumerTypes
  <1> HIDE DEF row
  <1> QED  BY <1>1, <1>2 DEF ConsumerTypes

(* A server goes down: its handlers are gone.                              *)
LEMMA DownSets ==
  ASSUME ConsumerTypes, NEW s \in Servers, Down(s)
  PROVE  /\ job' \in [Servers -> [Messages -> JobStates]]
         /\ server' \in [Servers -> {"consuming", "deaf", "down"}]
         /\ \A t \in Servers, n \in Messages :
              job'[t][n] = IF t = s THEN "none" ELSE job[t][n]
         /\ \A t \in Servers : server'[t] = IF t = s THEN "down" ELSE server[t]
  <1> DEFINE row == [m \in Messages |-> "none"]
  <1>1. job' = [job EXCEPT ![s] = row] /\ server' = [server EXCEPT ![s] = "down"]
    BY Zenon DEF Down
  <1>2. row \in [Messages -> JobStates] /\ \A n \in Messages : row[n] = "none"
    BY DEF JobStates
  <1> HIDE DEF row
  <1> QED  BY <1>1, <1>2 DEF ConsumerTypes

(* A message is settled by the server that works on it.                    *)
LEMMA SettleSets ==
  ASSUME ConsumerTypes, NEW m \in Messages, NEW next \in {"queued", "unacked", "acked", "dead"},
         Settle(m, next)
  PROVE  /\ message' \in [Messages -> {"queued", "unacked", "acked", "dead"}]
         /\ holder' \in [Messages -> Servers \cup {None}]
  BY DEF Settle, ConsumerTypes

(* The broker takes back what a server held.                               *)
LEMMA PutBackSets ==
  ASSUME ConsumerTypes, NEW s \in Servers, PutBack(s)
  PROVE  /\ message' \in [Messages -> {"queued", "unacked", "acked", "dead"}]
         /\ holder' \in [Messages -> Servers \cup {None}]
  BY DEF PutBack, ConsumerTypes

(* Whatever stops handlers leaves at most one fresh handler of an event.   *)
LEMMA FewerFresh ==
  ASSUME FreshIsOne,
         \A s \in Servers, m \in Messages : job'[s][m] = "fresh" => job[s][m] = "fresh"
  PROVE  FreshIsOne'
  <1> SUFFICES ASSUME NEW s \in Servers, NEW t \in Servers, NEW m \in Messages, NEW n \in Messages,
                      job'[s][m] = "fresh", job'[t][n] = "fresh", EventOf[m] = EventOf[n]
               PROVE  s = t /\ m = n
    BY DEF FreshIsOne
  <1>1. job[s][m] = "fresh" /\ job[t][n] = "fresh"
    OBVIOUS
  <1> QED  BY <1>1 DEF FreshIsOne

(* And what it leaves is still unhandled.                                  *)
LEMMA FewerFreshUnhandled ==
  ASSUME FreshIsUnhandled, UNCHANGED handled,
         \A s \in Servers, m \in Messages : job'[s][m] = "fresh" => job[s][m] = "fresh"
  PROVE  FreshIsUnhandled'
  BY DEF FreshIsUnhandled

LEMMA ConsumerStarts == ConsumerInit => ConsumerInv
  <1> SUFFICES ASSUME ConsumerInit PROVE ConsumerInv
    OBVIOUS
  <1>1. ConsumerTypes
    BY DEF ConsumerInit, ConsumerTypes, JobStates
  <1>2. \A s \in Servers, m \in Messages : job[s][m] = "none"
    BY DEF ConsumerInit
  <1>3. OnceInv
    BY <1>2 DEF ConsumerInit, OnceInv, JobsAreEvents, JobsRecorded, HandledRecorded,
      FreshIsUnhandled, FreshIsOne, HandledOnce
  <1>4. LostInv
    BY <1>2 DEF ConsumerInit, LostInv, DownIsIdle, ConsumingHolds, HoldersConsume, UnackedIsWorked, SettledIsRight
  <1> QED  BY <1>1, <1>3, <1>4 DEF ConsumerInv

(* Every step of the consumers keeps the invariant, one case per action.   *)
LEMMA ConsumerGoesOn == ConsumerInv /\ [ConsumerNext]_events => ConsumerInv'
  <1> SUFFICES ASSUME ConsumerInv, [ConsumerNext]_events PROVE ConsumerInv'
    OBVIOUS
  <1> USE DEF ConsumerInv
  <1> USE ConsumerAssumption
  <1> DEFINE Once == OnceInv
             Lost == LostInv
  <1>1. ASSUME NEW s \in Servers, Start(s) PROVE ConsumerInv'
    <2>1. ConsumerTypes'
      BY <1>1 DEF Start, ConsumerTypes
    <2>2. OnceInv'
      BY <1>1 DEF Start, OnceInv, JobsAreEvents, JobsRecorded, HandledRecorded, FreshIsUnhandled, FreshIsOne, HandledOnce
    <2>3. LostInv'
      BY <1>1 DEF Start, ConsumerTypes, LostInv, DownIsIdle, ConsumingHolds, HoldersConsume, UnackedIsWorked, SettledIsRight
    <2> QED  BY <2>1, <2>2, <2>3
  <1>2. ASSUME NEW s \in Servers, NEW m \in Messages, DeliverMessage(s, m) PROVE ConsumerInv'
    <2>1. CASE EventOf[m] = None
      <3>1. Settle(m, "dead") /\ UNCHANGED <<server, job, inbox, handled>>
        BY <1>2, <2>1 DEF DeliverMessage
      <3>2. ConsumerTypes'
        BY <3>1, SettleSets DEF ConsumerTypes
      <3>3. OnceInv'
        BY <3>1 DEF OnceInv, JobsAreEvents, JobsRecorded, HandledRecorded, FreshIsUnhandled, FreshIsOne, HandledOnce
      <3>4. LostInv'
        BY <1>2, <2>1, <3>1 DEF DeliverMessage, Settle, ConsumerTypes, LostInv, DownIsIdle, ConsumingHolds, HoldersConsume, UnackedIsWorked, SettledIsRight
      <3> QED  BY <3>2, <3>3, <3>4
    <2>2. CASE EventOf[m] # None
      <3>1. /\ message' = [message EXCEPT ![m] = "unacked"]
            /\ holder' = [holder EXCEPT ![m] = s]
            /\ Working(s, m, "recording")
            /\ UNCHANGED <<server, inbox, handled>>
        BY <1>2, <2>2 DEF DeliverMessage
      <3>2. /\ job' \in [Servers -> [Messages -> JobStates]]
            /\ \A t \in Servers, n \in Messages :
                 job'[t][n] = IF t = s /\ n = m THEN "recording" ELSE job[t][n]
        BY <3>1, WorkingSets DEF JobStates
      <3>3. ConsumerTypes'
        BY <3>1, <3>2 DEF ConsumerTypes
      <3>4. OnceInv'
        <4>1. JobsAreEvents'
          BY <2>2, <3>1, <3>2 DEF ConsumerTypes, OnceInv, JobsAreEvents
        <4>2. JobsRecorded'
          BY <2>2, <3>1, <3>2 DEF ConsumerTypes, OnceInv, JobsRecorded
        <4>3. HandledRecorded'
          BY <2>2, <3>1, <3>2 DEF ConsumerTypes, OnceInv, HandledRecorded
        <4>0. \A t \in Servers, n \in Messages : job'[t][n] = "fresh" => job[t][n] = "fresh"
          BY <3>2
        <4>4. FreshIsUnhandled'
          BY <3>1, <4>0, FewerFreshUnhandled DEF OnceInv
        <4>5. FreshIsOne'
          BY <4>0, FewerFresh DEF OnceInv
        <4>6. HandledOnce'
          BY <2>2, <3>1, <3>2 DEF ConsumerTypes, OnceInv, FreshIsUnhandled, HandledOnce
        <4> QED  BY <4>1, <4>2, <4>3, <4>4, <4>5, <4>6 DEF OnceInv
      <3>5. LostInv'
        BY <1>2, <3>1, <3>2 DEF DeliverMessage, ConsumerTypes, LostInv, DownIsIdle, ConsumingHolds, HoldersConsume, UnackedIsWorked, SettledIsRight
      <3> QED  BY <3>3, <3>4, <3>5
    <2> QED  BY <2>1, <2>2
  <1>3. ASSUME NEW s \in Servers, NEW m \in Messages, RecordEvent(s, m) PROVE ConsumerInv'
    <2> DEFINE next == IF EventOf[m] \in inbox THEN "duplicate" ELSE "fresh"
    <2>1. /\ job[s][m] = "recording" /\ Working(s, m, next)
          /\ inbox' = inbox \cup {EventOf[m]}
          /\ UNCHANGED <<server, message, holder, handled>>
      BY <1>3 DEF RecordEvent, Seen
    <2>2. /\ job' \in [Servers -> [Messages -> JobStates]]
          /\ \A t \in Servers, n \in Messages :
               job'[t][n] = IF t = s /\ n = m THEN next ELSE job[t][n]
      BY <2>1, WorkingSets DEF JobStates
    <2>3. EventOf[m] \in Events
      BY <2>1 DEF OnceInv, JobsAreEvents
    <2>4. ConsumerTypes'
      BY <2>1, <2>2, <2>3 DEF ConsumerTypes
    <2>5. OnceInv'
      <3>1. JobsAreEvents'
        BY <2>1, <2>2, <2>3 DEF ConsumerTypes, OnceInv, JobsAreEvents
      <3>2. JobsRecorded'
        BY <2>1, <2>2, <2>3 DEF ConsumerTypes, OnceInv, JobsRecorded
      <3>3. HandledRecorded'
        BY <2>1, <2>2, <2>3 DEF ConsumerTypes, OnceInv, HandledRecorded
      <3>4. FreshIsUnhandled'
        BY <2>1, <2>2, <2>3 DEF ConsumerTypes, OnceInv, JobsRecorded, HandledRecorded, FreshIsUnhandled, FreshIsOne, HandledOnce
      <3>5. FreshIsOne'
        BY <2>1, <2>2, <2>3 DEF ConsumerTypes, OnceInv, JobsRecorded, FreshIsOne
      <3>6. HandledOnce'
        BY <2>1, <2>2, <2>3 DEF ConsumerTypes, OnceInv, FreshIsUnhandled, HandledOnce
      <3> QED  BY <3>1, <3>2, <3>3, <3>4, <3>5, <3>6 DEF OnceInv
    <2>6. LostInv'
      BY <2>1, <2>2 DEF ConsumerTypes, LostInv, DownIsIdle, ConsumingHolds, HoldersConsume, UnackedIsWorked, SettledIsRight
    <2> QED  BY <2>4, <2>5, <2>6
  <1>4. ASSUME NEW s \in Servers, NEW m \in Messages, RecordFails(s, m) PROVE ConsumerInv'
    <2>1. /\ job[s][m] = "recording" /\ inbox \subseteq inbox'
          /\ inbox' \subseteq inbox \cup {EventOf[m]} /\ UNCHANGED handled
      BY <1>4 DEF RecordFails
    <2>2. EventOf[m] \in Events
      BY <2>1 DEF OnceInv, JobsAreEvents
    <2>3. CASE server[s] = "consuming"
      <3>1. Settle(m, "queued") /\ Working(s, m, "none") /\ UNCHANGED server
        BY <1>4, <2>3 DEF RecordFails
      <3>2. /\ job' \in [Servers -> [Messages -> JobStates]]
            /\ \A t \in Servers, n \in Messages :
                 job'[t][n] = IF t = s /\ n = m THEN "none" ELSE job[t][n]
        BY <3>1, WorkingSets DEF JobStates
      <3>3. ConsumerTypes'
        BY <2>1, <2>2, <3>1, <3>2, SettleSets DEF ConsumerTypes
      <3>4. OnceInv'
        <4>1. JobsAreEvents'
          BY <2>1, <2>2, <3>2 DEF ConsumerTypes, OnceInv, JobsAreEvents
        <4>2. JobsRecorded'
          BY <2>1, <2>2, <3>2 DEF ConsumerTypes, OnceInv, JobsRecorded
        <4>3. HandledRecorded'
          BY <2>1, <2>2, <3>2 DEF ConsumerTypes, OnceInv, HandledRecorded
        <4>4. FreshIsUnhandled'
          BY <2>1, <2>2, <3>2 DEF ConsumerTypes, OnceInv, JobsRecorded, HandledRecorded, FreshIsUnhandled, FreshIsOne, HandledOnce
        <4>0. \A t \in Servers, n \in Messages : job'[t][n] = "fresh" => job[t][n] = "fresh"
          BY <3>2
        <4>5. FreshIsOne'
          BY <4>0, FewerFresh DEF OnceInv
        <4>6. HandledOnce'
          BY <2>1, <2>2, <3>2 DEF ConsumerTypes, OnceInv, FreshIsUnhandled, HandledOnce
        <4> QED  BY <4>1, <4>2, <4>3, <4>4, <4>5, <4>6 DEF OnceInv
      <3>5. LostInv'
        BY <2>1, <2>3, <3>1, <3>2 DEF Settle, ConsumerTypes, LostInv, DownIsIdle, ConsumingHolds, HoldersConsume, UnackedIsWorked, SettledIsRight
      <3> QED  BY <3>3, <3>4, <3>5
    <2>4. CASE server[s] # "consuming"
      <3>1. Down(s) /\ UNCHANGED <<message, holder>>
        BY <1>4, <2>4 DEF RecordFails
      <3>2. ConsumerTypes'
        BY <2>1, <2>2, <3>1, DownSets DEF ConsumerTypes
      <3>3. OnceInv'
        <4>1. JobsAreEvents'
          BY <2>1, <2>2, <3>1, DownSets DEF ConsumerTypes, OnceInv, JobsAreEvents
        <4>2. JobsRecorded'
          BY <2>1, <2>2, <3>1, DownSets DEF ConsumerTypes, OnceInv, JobsRecorded
        <4>3. HandledRecorded'
          BY <2>1, <2>2, <3>1, DownSets DEF ConsumerTypes, OnceInv, HandledRecorded
        <4>4. FreshIsUnhandled'
          BY <2>1, <2>2, <3>1, DownSets DEF ConsumerTypes, OnceInv, JobsRecorded, HandledRecorded, FreshIsUnhandled, FreshIsOne, HandledOnce
        <4>5. FreshIsOne'
          BY <2>1, <2>2, <3>1, DownSets DEF ConsumerTypes, OnceInv, JobsRecorded, FreshIsOne
        <4>6. HandledOnce'
          BY <2>1, <2>2, <3>1, DownSets DEF ConsumerTypes, OnceInv, FreshIsUnhandled, HandledOnce
        <4> QED  BY <4>1, <4>2, <4>3, <4>4, <4>5, <4>6 DEF OnceInv
      <3>4. LostInv'
        BY <2>1, <2>4, <3>1, DownSets DEF ConsumerTypes, LostInv, DownIsIdle, ConsumingHolds, HoldersConsume, UnackedIsWorked, SettledIsRight
      <3> QED  BY <3>2, <3>3, <3>4
    <2> QED  BY <2>3, <2>4
  <1>5. ASSUME NEW s \in Servers, NEW m \in Messages, Answer(s, m) PROVE ConsumerInv'
    <2>1. /\ job[s][m] \in {"fresh", "duplicate"} /\ UNCHANGED inbox
          /\ handled' = [handled EXCEPT ![EventOf[m]] = @ + IF job[s][m] = "fresh" THEN 1 ELSE 0]
      BY <1>5 DEF Answer
    <2>2. EventOf[m] \in Events /\ EventOf[m] \in inbox
      BY <2>1 DEF OnceInv, JobsAreEvents, JobsRecorded
    <2>3. handled' \in [Events -> Nat] /\ HandledOnce' /\ HandledRecorded'
      BY <2>1, <2>2 DEF ConsumerTypes, OnceInv, HandledOnce, HandledRecorded, FreshIsUnhandled
    <2>4. \A e \in Events : handled'[e] # handled[e] => e = EventOf[m] /\ job[s][m] = "fresh"
      BY <2>1, <2>2 DEF ConsumerTypes
    <2>5. CASE server[s] = "consuming"
      <3>1. Settle(m, "acked") /\ Working(s, m, "none") /\ UNCHANGED server
        BY <1>5, <2>5 DEF Answer
      <3>2. /\ job' \in [Servers -> [Messages -> JobStates]]
            /\ \A t \in Servers, n \in Messages :
                 job'[t][n] = IF t = s /\ n = m THEN "none" ELSE job[t][n]
        BY <3>1, WorkingSets DEF JobStates
      <3>3. ConsumerTypes'
        BY <2>1, <2>3, <3>1, <3>2, SettleSets DEF ConsumerTypes
      <3>4. OnceInv'
        <4>1. JobsAreEvents'
          BY <2>1, <2>2, <2>3, <2>4, <3>2 DEF ConsumerTypes, OnceInv, JobsAreEvents
        <4>2. JobsRecorded'
          BY <2>1, <2>2, <2>3, <2>4, <3>2 DEF ConsumerTypes, OnceInv, JobsRecorded
        <4>3. HandledRecorded'
          BY <2>1, <2>2, <2>3, <2>4, <3>2 DEF ConsumerTypes, OnceInv
        <4>4. FreshIsUnhandled'
          BY <2>1, <2>2, <2>3, <2>4, <3>2 DEF ConsumerTypes, OnceInv, JobsRecorded, HandledRecorded, FreshIsUnhandled, FreshIsOne, HandledOnce
        <4>0. \A t \in Servers, n \in Messages : job'[t][n] = "fresh" => job[t][n] = "fresh"
          BY <3>2
        <4>5. FreshIsOne'
          BY <4>0, FewerFresh DEF OnceInv
        <4>6. HandledOnce'
          BY <2>1, <2>2, <2>3, <2>4, <3>2 DEF ConsumerTypes, OnceInv
        <4> QED  BY <4>1, <4>2, <4>3, <4>4, <4>5, <4>6 DEF OnceInv
      <3>5. LostInv'
        BY <2>1, <2>2, <2>5, <3>1, <3>2 DEF Settle, ConsumerTypes, LostInv, DownIsIdle, ConsumingHolds, HoldersConsume, UnackedIsWorked, SettledIsRight
      <3> QED  BY <3>3, <3>4, <3>5
    <2>6. CASE server[s] # "consuming"
      <3>1. Down(s) /\ UNCHANGED <<message, holder>>
        BY <1>5, <2>6 DEF Answer
      <3>2. ConsumerTypes'
        BY <2>1, <2>3, <3>1, DownSets DEF ConsumerTypes
      <3>3. OnceInv'
        <4>1. JobsAreEvents'
          BY <2>1, <2>2, <2>3, <2>4, <3>1, DownSets DEF ConsumerTypes, OnceInv, JobsAreEvents
        <4>2. JobsRecorded'
          BY <2>1, <2>2, <2>3, <2>4, <3>1, DownSets DEF ConsumerTypes, OnceInv, JobsRecorded
        <4>3. HandledRecorded'
          BY <2>1, <2>2, <2>3, <2>4, <3>1, DownSets DEF ConsumerTypes, OnceInv
        <4>4. FreshIsUnhandled'
          BY <2>1, <2>2, <2>3, <2>4, <3>1, DownSets DEF ConsumerTypes, OnceInv, JobsRecorded, HandledRecorded, FreshIsUnhandled, FreshIsOne, HandledOnce
        <4>5. FreshIsOne'
          BY <2>1, <2>2, <2>3, <2>4, <3>1, DownSets DEF ConsumerTypes, OnceInv, JobsRecorded, FreshIsOne
        <4>6. HandledOnce'
          BY <2>1, <2>2, <2>3, <2>4, <3>1, DownSets DEF ConsumerTypes, OnceInv
        <4> QED  BY <4>1, <4>2, <4>3, <4>4, <4>5, <4>6 DEF OnceInv
      <3>4. LostInv'
        BY <2>1, <2>6, <3>1, DownSets DEF ConsumerTypes, LostInv, DownIsIdle, ConsumingHolds, HoldersConsume, UnackedIsWorked, SettledIsRight
      <3> QED  BY <3>2, <3>3, <3>4
    <2> QED  BY <2>5, <2>6
  <1>6. ASSUME NEW s \in Servers, ConnectionCloses(s) PROVE ConsumerInv'
    <2>1. ConsumerTypes'
      BY <1>6, PutBackSets DEF ConnectionCloses, ConsumerTypes
    <2>2. OnceInv'
      BY <1>6 DEF ConnectionCloses, OnceInv, JobsAreEvents, JobsRecorded, HandledRecorded, FreshIsUnhandled, FreshIsOne, HandledOnce
    <2>3. LostInv'
      BY <1>6 DEF ConnectionCloses, PutBack, HeldBy, ConsumerTypes, LostInv, DownIsIdle, ConsumingHolds, HoldersConsume, UnackedIsWorked, SettledIsRight
    <2> QED  BY <2>1, <2>2, <2>3
  <1>7. ASSUME NEW s \in Servers, ServerStops(s) PROVE ConsumerInv'
    <2>1. Down(s) /\ PutBack(s) /\ UNCHANGED <<inbox, handled>>
      BY <1>7 DEF ServerStops
    <2>2. ConsumerTypes'
      BY <2>1, DownSets, PutBackSets DEF ConsumerTypes
    <2>3. OnceInv'
      <3>1. JobsAreEvents'
        BY <2>1, DownSets DEF ConsumerTypes, OnceInv, JobsAreEvents
      <3>2. JobsRecorded'
        BY <2>1, DownSets DEF ConsumerTypes, OnceInv, JobsRecorded
      <3>3. HandledRecorded'
        BY <2>1, DownSets DEF ConsumerTypes, OnceInv, HandledRecorded
      <3>0. \A t \in Servers, n \in Messages : job'[t][n] = "fresh" => job[t][n] = "fresh"
        BY <2>1, DownSets
      <3>4. FreshIsUnhandled'
        BY <2>1, <3>0, FewerFreshUnhandled DEF OnceInv
      <3>5. FreshIsOne'
        BY <3>0, FewerFresh DEF OnceInv
      <3>6. HandledOnce'
        BY <2>1, DownSets DEF ConsumerTypes, OnceInv, FreshIsUnhandled, HandledOnce
      <3> QED  BY <3>1, <3>2, <3>3, <3>4, <3>5, <3>6 DEF OnceInv
    <2>4. LostInv'
      BY <2>1, DownSets DEF PutBack, HeldBy, ConsumerTypes, LostInv, DownIsIdle, ConsumingHolds, HoldersConsume, UnackedIsWorked, SettledIsRight
    <2> QED  BY <2>2, <2>3, <2>4
  <1>8. CASE UNCHANGED events
    <2>1. ConsumerTypes' /\ OnceInv'
      BY <1>8 DEF events, ConsumerTypes, OnceInv, JobsAreEvents, JobsRecorded, HandledRecorded, FreshIsUnhandled, FreshIsOne, HandledOnce
    <2>2. LostInv'
      BY <1>8 DEF events, LostInv, DownIsIdle, ConsumingHolds, HoldersConsume, UnackedIsWorked, SettledIsRight
    <2> QED  BY <2>1, <2>2
  <1> QED  BY <1>1, <1>2, <1>3, <1>4, <1>5, <1>6, <1>7, <1>8 DEF ConsumerNext

LEMMA ConsumerInvHelps == ConsumerInv => HandledOnce /\ NothingLost
  BY DEF ConsumerInv, ConsumerTypes, OnceInv, LostInv, UnackedIsWorked, SettledIsRight, NothingLost

LEMMA EventsSteps == [Next]_vars => [ConsumerNext]_events
  BY DEF Next, vars

LEMMA EventsStart == Init => ConsumerInit
  BY DEF Init

(* Once and not lost: for any number of servers, events and copies of      *)
(* messages, however deliveries, failures and restarts interleave, an      *)
(* event has its effect at most once, and a message is acknowledged only   *)
(* after its event was recorded in the inbox, dead only when it is no      *)
(* event (EventsConsumerService.handleMessage, event-inbox.service.ts).    *)
THEOREM EventsKept == Spec => [](HandledOnce /\ NothingLost)
  <1>1. Init => ConsumerInv
    BY EventsStart, ConsumerStarts
  <1>2. ConsumerInv /\ [Next]_vars => ConsumerInv'
    BY EventsSteps, ConsumerGoesOn
  <1> QED  BY <1>1, <1>2, ConsumerInvHelps, PTL DEF Spec

(* The second half alone: a message leaves the queue for good only when    *)
(* its event is in the inbox or it is none (handleMessage acks after the   *)
(* record, nacks without requeueing only what it cannot parse).            *)
THEOREM NothingIsLost == Spec => []NothingLost
  <1> QED  BY EventsKept, PTL

-----------------------------------------------------------------------------
(* A row of the shipments, and a report on its way.                        *)
Booked == [carrier : Carriers, number : Numbers, status : Nat]
Reports == [parcel : Parcels, status : Nat]
(* The carrier and tracking number of a row.                               *)
TrackOf(p) == <<parcels[p].carrier, parcels[p].number>>

(* The types of the parcels' state.                                        *)
ParcelTypes ==
  /\ parcels \in [Parcels -> Booked \cup {NoParcel}]
  /\ moved \in [Tracked -> Nat]
  /\ hook \in [Clients -> Reports \cup {NoHook}]
  /\ heard \in [Tracked -> Nat]
  /\ timely \in BOOLEAN

(* A report on its way is of a booked parcel of a carrier whose signature  *)
(* is verified, and says what the carrier did, or nothing.                 *)
ReportsAreTrue ==
  \A c \in Clients : hook[c] # NoHook =>
    LET p == hook[c].parcel IN
    /\ parcels[p] # NoParcel
    /\ parcels[p].carrier \in Verified
    /\ 0 < hook[c].status
    /\ hook[c].status <= moved[TrackOf(p)] \/ hook[c].status = InTransit

(* While reports come in time, one is on its way per tracking number, and  *)
(* it is the next one.                                                     *)
ReportsTakeTurns ==
  timely => \A c, d \in Clients : hook[c] # NoHook =>
    /\ hook[c].status = heard[TrackOf(hook[c].parcel)] + 1
    /\ hook[d] # NoHook /\ TrackOf(hook[d].parcel) = TrackOf(hook[c].parcel) => c = d

(* What was heard is of a number some row has.                             *)
HeardIsTracked ==
  \A t \in Tracked : heard[t] > 0 => \E p \in Parcels : TrackOf(p) = t

(* A row is never ahead of its carrier, but for a report without a status; *)
(* while reports are timely and its number is its own, it is where the     *)
(* last report left it.                                                    *)
ParcelReported(p) ==
  parcels[p] # NoParcel =>
    /\ parcels[p].status <= moved[TrackOf(p)] \/ parcels[p].status = InTransit
    /\ parcels[p].status > 0 => parcels[p].carrier \in Verified
    /\ timely /\ (\A q \in Parcels : TrackOf(q) = TrackOf(p) => q = p) =>
         parcels[p].status = heard[TrackOf(p)]

ParcelsInv ==
  /\ ParcelTypes /\ ReportsAreTrue /\ ReportsTakeTurns /\ HeardIsTracked
  /\ \A p \in Parcels : ParcelReported(p)

(* The rows of a tracking number are those found by it.                    *)
LEMMA RowsAreTracked ==
  ASSUME ParcelTypes, NEW p \in Parcels
  PROVE  /\ parcels[p] # NoParcel <=> TrackOf(p) \in Tracked
         /\ parcels[p] # NoParcel => parcels[p] \in Booked
         /\ \A k \in Carriers, n \in Numbers : p \in Of(k, n) <=> TrackOf(p) = <<k, n>>
  BY ParcelAssumption DEF ParcelTypes, Booked, NoParcel, Tracked, TrackOf, Of

LEMMA HookedIsBooked ==
  ASSUME ParcelTypes, NEW c \in Clients, hook[c] # NoHook
  PROVE  hook[c].parcel \in Parcels /\ hook[c].status \in Nat
  BY DEF ParcelTypes, Reports

LEMMA ParcelsStart == ParcelsInit => ParcelsInv
  <1> SUFFICES ASSUME ParcelsInit PROVE ParcelsInv
    OBVIOUS
  <1>1. ParcelTypes
    BY DEF ParcelsInit, ParcelTypes
  <1> QED  BY <1>1 DEF ParcelsInit, ParcelsInv, ReportsAreTrue, ReportsTakeTurns, HeardIsTracked, ParcelReported

(* A new row: its number has not been heard of, or it is not its own.      *)
LEMMA BookKeeps == ParcelsInv /\ BookParcel => ParcelsInv'
  <1> SUFFICES ASSUME ParcelsInv, BookParcel PROVE ParcelsInv'
    OBVIOUS
  <1> USE ParcelAssumption
  <1>1. PICK p \in Parcels, k \in Carriers, n \in Numbers :
          /\ parcels[p] = NoParcel
          /\ parcels' = [parcels EXCEPT ![p] = [carrier |-> k, number |-> n, status |-> 0]]
    BY DEF BookParcel
  <1>2. UNCHANGED <<moved, hook, heard, timely>>
    BY DEF BookParcel
  <1>3. ParcelTypes'
    BY <1>1, <1>2 DEF ParcelsInv, ParcelTypes, Booked
  <1>4. /\ parcels'[p] = [carrier |-> k, number |-> n, status |-> 0]
        /\ TrackOf(p)' = <<k, n>>
        /\ parcels'[p].status = 0 /\ parcels'[p].carrier = k
        /\ <<k, n>> \in Tracked
        /\ \A q \in Parcels : q # p => parcels'[q] = parcels[q] /\ TrackOf(q)' = TrackOf(q)
    BY <1>1 DEF ParcelsInv, ParcelTypes, TrackOf, Tracked
  <1>5. TrackOf(p) \notin Tracked
    BY <1>1, RowsAreTracked DEF ParcelsInv
  <1>6. \A c \in Clients : hook[c] # NoHook => hook[c].parcel \in Parcels \ {p}
    BY <1>1, HookedIsBooked DEF ParcelsInv, ReportsAreTrue
  <1>7. ReportsAreTrue'
    BY <1>2, <1>4, <1>6 DEF ParcelsInv, ReportsAreTrue
  <1>8. ReportsTakeTurns'
    BY <1>2, <1>4, <1>6 DEF ParcelsInv, ReportsTakeTurns
  <1>9. HeardIsTracked'
    <2> SUFFICES ASSUME NEW t \in Tracked, heard'[t] > 0 PROVE \E q \in Parcels : TrackOf(q)' = t
      BY DEF HeardIsTracked
    <2>1. PICK q \in Parcels : TrackOf(q) = t
      BY <1>2 DEF ParcelsInv, HeardIsTracked
    <2> QED  BY <2>1, <1>4, <1>5
  <1>10. ASSUME NEW q \in Parcels PROVE ParcelReported(q)'
    <2>1. CASE q = p
      <3>1. 0 <= moved'[<<k, n>>] /\ heard'[<<k, n>>] \in Nat
        BY <1>2, <1>4 DEF ParcelsInv, ParcelTypes
      <3>2. ASSUME \A r \in Parcels : TrackOf(r)' = TrackOf(p)' => r = p
            PROVE  heard'[<<k, n>>] = 0
        <4>1. \A r \in Parcels : TrackOf(r) # <<k, n>>
          BY <1>4, <1>5, <3>2
        <4> QED  BY <1>2, <1>4, <3>1, <4>1 DEF ParcelsInv, HeardIsTracked
      <3> QED  BY <2>1, <1>4, <3>1, <3>2 DEF ParcelReported
    <2>2. CASE q # p
      <3>1. ParcelReported(q) /\ parcels'[q] = parcels[q] /\ TrackOf(q)' = TrackOf(q)
        BY <2>2, <1>4 DEF ParcelsInv
      <3>2. parcels[q] # NoParcel => TrackOf(q) \in Tracked
        BY RowsAreTracked DEF ParcelsInv
      <3>3. ASSUME parcels[q] # NoParcel, \A r \in Parcels : TrackOf(r)' = TrackOf(q)' => r = q
            PROVE  \A r \in Parcels : TrackOf(r) = TrackOf(q) => r = q
        BY <3>1, <3>2, <3>3, <1>4, <1>5
      <3> QED  BY <1>2, <3>1, <3>3 DEF ParcelReported
    <2> QED  BY <2>1, <2>2
  <1> QED  BY <1>3, <1>7, <1>8, <1>9, <1>10 DEF ParcelsInv

LEMMA CarrierKeeps == ParcelsInv /\ CarrierMoves => ParcelsInv'
  <1> SUFFICES ASSUME ParcelsInv, CarrierMoves PROVE ParcelsInv'
    OBVIOUS
  <1>1. UNCHANGED <<parcels, hook, heard, timely>> /\ \A p : TrackOf(p)' = TrackOf(p)
    BY DEF CarrierMoves, TrackOf
  <1>2. moved' \in [Tracked -> Nat] /\ \A t \in Tracked : moved[t] <= moved'[t]
    BY ParcelAssumption DEF CarrierMoves, ParcelsInv, ParcelTypes, Tracked
  <1>3. ParcelTypes'
    BY <1>1, <1>2 DEF ParcelsInv, ParcelTypes
  <1>4. \A p \in Parcels : parcels[p] # NoParcel =>
          /\ parcels[p].status \in Nat /\ moved[TrackOf(p)] \in Nat /\ moved'[TrackOf(p)] \in Nat
          /\ moved[TrackOf(p)] <= moved'[TrackOf(p)]
    BY <1>2, RowsAreTracked DEF ParcelsInv, ParcelTypes, Booked
  <1>5. ReportsAreTrue'
    BY <1>1, <1>4, HookedIsBooked DEF ParcelsInv, ReportsAreTrue
  <1>6. ReportsTakeTurns' /\ HeardIsTracked'
    BY <1>1 DEF ParcelsInv, ReportsTakeTurns, HeardIsTracked
  <1>7. ASSUME NEW p \in Parcels PROVE ParcelReported(p)'
    <2>1. ParcelReported(p)
      BY DEF ParcelsInv
    <2> QED  BY <1>1, <1>4, <2>1 DEF ParcelReported
  <1> QED  BY <1>3, <1>5, <1>6, <1>7 DEF ParcelsInv

(* A carrier's call arrives; it finds one of the rows of its number.       *)
LEMMA FindKeeps == ASSUME ParcelsInv, NEW c \in Clients, FindParcel(c) PROVE ParcelsInv'
  <1>1. PICK k \in Verified, n \in Numbers : \E s \in 1..moved[<<k, n>>] : \E told \in Parsed(s) :
       /\ timely' = (timely /\ InOrder(k, n, s) /\ told = s /\ Of(k, n) # {})
       /\ IF Of(k, n) = {} THEN hook' = hook
          ELSE \E p \in Of(k, n) : hook' = [hook EXCEPT ![c] = [parcel |-> p, status |-> told]]
    BY DEF FindParcel
  <1>2. <<k, n>> \in Tracked /\ k \in Carriers /\ moved[<<k, n>>] \in Nat /\ heard[<<k, n>>] \in Nat
    BY ParcelAssumption DEF Tracked, ParcelsInv, ParcelTypes
  <1>0. PICK s \in 1..moved[<<k, n>>] : \E told \in Parsed(s) :
       /\ timely' = (timely /\ InOrder(k, n, s) /\ told = s /\ Of(k, n) # {})
       /\ IF Of(k, n) = {} THEN hook' = hook
          ELSE \E p \in Of(k, n) : hook' = [hook EXCEPT ![c] = [parcel |-> p, status |-> told]]
    BY <1>1
  <1>3. PICK told \in Parsed(s) :
       /\ timely' = (timely /\ InOrder(k, n, s) /\ told = s /\ Of(k, n) # {})
       /\ IF Of(k, n) = {} THEN hook' = hook
          ELSE \E p \in Of(k, n) : hook' = [hook EXCEPT ![c] = [parcel |-> p, status |-> told]]
    BY <1>0
  <1>4. UNCHANGED <<parcels, moved, heard>> /\ \A p : TrackOf(p)' = TrackOf(p)
    BY DEF FindParcel, TrackOf
  <1>5. timely' \in BOOLEAN /\ (timely' => timely)
    BY <1>3 DEF ParcelsInv, ParcelTypes
  <1>6. HeardIsTracked' /\ \A p \in Parcels : ParcelReported(p)'
    BY <1>4, <1>5 DEF ParcelsInv, HeardIsTracked, ParcelReported
  <1>7. CASE Of(k, n) = {}
    <2>1. hook' = hook /\ ~timely'
      BY <1>3, <1>7
    <2>2. ParcelTypes'
      BY <2>1, <1>4, <1>5 DEF ParcelsInv, ParcelTypes
    <2>3. ReportsAreTrue'
      BY <2>1, <1>4 DEF ParcelsInv, ReportsAreTrue
    <2>4. ReportsTakeTurns'
      BY <2>1 DEF ReportsTakeTurns
    <2> QED  BY <1>6, <2>2, <2>3, <2>4 DEF ParcelsInv
  <1>8. CASE Of(k, n) # {}
    <2>1. PICK p \in Of(k, n) : hook' = [hook EXCEPT ![c] = [parcel |-> p, status |-> told]]
      BY <1>3, <1>8
    <2>2. p \in Parcels /\ TrackOf(p) = <<k, n>> /\ parcels[p] # NoParcel /\ parcels[p].carrier = k
      BY <1>2, RowsAreTracked DEF Of, ParcelsInv
    <2>0. told \in Nat /\ 0 < told /\ (told <= moved[<<k, n>>] \/ told = InTransit)
      BY <1>2, <1>3, ParcelAssumption DEF Parsed
    <2>3. /\ hook'[c] = [parcel |-> p, status |-> told]
          /\ hook'[c].parcel = p /\ hook'[c].status = told
          /\ \A d \in Clients : d # c => hook'[d] = hook[d]
          /\ hook' \in [Clients -> Reports \cup {NoHook}]
      BY <2>0, <2>1, <2>2 DEF ParcelsInv, ParcelTypes, Reports
    <2>4. ParcelTypes'
      BY <1>4, <1>5, <2>3 DEF ParcelsInv, ParcelTypes
    <2>5. ReportsAreTrue'
      <3> SUFFICES ASSUME NEW d \in Clients, hook'[d] # NoHook
                   PROVE  LET q == hook'[d].parcel IN
                          /\ parcels[q] # NoParcel
                          /\ parcels[q].carrier \in Verified
                          /\ 0 < hook'[d].status
                          /\ hook'[d].status <= moved[TrackOf(q)] \/ hook'[d].status = InTransit
        BY <1>4 DEF ReportsAreTrue
      <3>1. CASE d = c
        BY <3>1, <2>0, <2>2, <2>3
      <3>2. CASE d # c
        BY <3>2, <2>3 DEF ParcelsInv, ReportsAreTrue
      <3> QED  BY <3>1, <3>2
    <2>6. ReportsTakeTurns'
      <3> SUFFICES ASSUME timely' PROVE ReportsTakeTurns'
        BY DEF ReportsTakeTurns
      <3>1. told = heard[<<k, n>>] + 1 /\ \A d \in Clients : hook[d] # NoHook => hook[d].parcel \notin Of(k, n)
        BY <1>3 DEF InOrder
      <3>2. \A d \in Clients : hook[d] # NoHook => TrackOf(hook[d].parcel) # <<k, n>>
        BY <3>1, <1>2, HookedIsBooked, RowsAreTracked DEF ParcelsInv
      <3>3. \A d \in Clients \ {c} : hook'[d] # NoHook =>
              /\ hook[d] # NoHook /\ hook'[d] = hook[d]
              /\ hook[d].status = heard[TrackOf(hook[d].parcel)] + 1
        BY <1>5, <2>3 DEF ParcelsInv, ReportsTakeTurns
      <3> SUFFICES ASSUME NEW d \in Clients, NEW e \in Clients, hook'[d] # NoHook
                   PROVE  /\ hook'[d].status = heard[TrackOf(hook'[d].parcel)] + 1
                          /\ hook'[e] # NoHook /\ TrackOf(hook'[e].parcel) = TrackOf(hook'[d].parcel) => d = e
        BY <1>4 DEF ReportsTakeTurns
      <3>4. hook'[d].status = heard[TrackOf(hook'[d].parcel)] + 1
        BY <2>2, <2>3, <3>1, <3>3
      <3>5. ASSUME d # e, hook'[e] # NoHook, TrackOf(hook'[e].parcel) = TrackOf(hook'[d].parcel)
            PROVE  FALSE
        <4>1. CASE d = c
          BY <4>1, <2>2, <2>3, <3>2, <3>3, <3>5
        <4>2. CASE e = c
          BY <4>2, <2>2, <2>3, <3>2, <3>3, <3>5
        <4>3. CASE d # c /\ e # c
          BY <4>3, <1>5, <3>3, <3>5 DEF ParcelsInv, ReportsTakeTurns
        <4> QED  BY <4>1, <4>2, <4>3
      <3> QED  BY <3>4, <3>5
    <2> QED  BY <1>6, <2>4, <2>5, <2>6 DEF ParcelsInv
  <1> QED  BY <1>7, <1>8

(* The status of the row found is written.                                 *)
LEMMA UpdateKeeps == ASSUME ParcelsInv, NEW c \in Clients, UpdateParcel(c) PROVE ParcelsInv'
  <1> DEFINE p == hook[c].parcel
             s == hook[c].status
             t == TrackOf(p)
  <1>1. /\ hook[c] # NoHook
        /\ parcels' = [parcels EXCEPT ![p].status = s]
        /\ heard' = [heard EXCEPT ![t] = IF s > @ THEN s ELSE @]
        /\ hook' = [hook EXCEPT ![c] = NoHook]
        /\ UNCHANGED <<moved, timely>>
    BY DEF UpdateParcel, TrackOf
  <1>2. /\ p \in Parcels /\ s \in Nat /\ parcels[p] # NoParcel /\ parcels[p].carrier \in Verified
        /\ 0 < s /\ (s <= moved[t] \/ s = InTransit)
    BY <1>1, HookedIsBooked DEF ParcelsInv, ReportsAreTrue
  <1>3. t \in Tracked /\ parcels[p] \in Booked
    BY <1>2, RowsAreTracked DEF ParcelsInv
  <1>4. timely => s = heard[t] + 1 /\ \A d \in Clients : hook[d] # NoHook /\ TrackOf(hook[d].parcel) = t => d = c
    BY <1>1 DEF ParcelsInv, ReportsTakeTurns
  <1> HIDE DEF p, s, t
  <1>5. /\ parcels' \in [Parcels -> Booked \cup {NoParcel}]
        /\ parcels'[p] # NoParcel /\ parcels'[p].status = s
        /\ parcels'[p].carrier = parcels[p].carrier /\ parcels'[p].number = parcels[p].number
        /\ \A q \in Parcels : q # p => parcels'[q] = parcels[q]
    BY <1>1, <1>2, <1>3, ParcelAssumption DEF ParcelsInv, ParcelTypes, Booked, NoParcel
  <1>6. TrackOf(p) = t /\ \A q \in Parcels : TrackOf(q)' = TrackOf(q)
    BY <1>5 DEF TrackOf, t
  <1>7. /\ heard' \in [Tracked -> Nat]
        /\ \A u \in Tracked : u # t => heard'[u] = heard[u]
        /\ timely => heard'[t] = s
    BY <1>1, <1>2, <1>3, <1>4 DEF ParcelsInv, ParcelTypes
  <1>8. /\ hook' \in [Clients -> Reports \cup {NoHook}]
        /\ \A d \in Clients : hook'[d] # NoHook => d # c /\ hook'[d] = hook[d]
    BY <1>1 DEF ParcelsInv, ParcelTypes
  <1>9. ParcelTypes'
    BY <1>1, <1>5, <1>7, <1>8 DEF ParcelsInv, ParcelTypes
  <1>10. \A q \in Parcels : parcels[q] # NoParcel => parcels'[q] # NoParcel /\ parcels'[q].carrier = parcels[q].carrier
    BY <1>5
  <1>11. \A d \in Clients : hook'[d] # NoHook => hook[d].parcel \in Parcels /\ hook'[d] = hook[d] /\ hook[d] # NoHook
    BY <1>8, HookedIsBooked DEF ParcelsInv
  <1>12. ReportsAreTrue'
    BY <1>1, <1>6, <1>10, <1>11 DEF ParcelsInv, ReportsAreTrue
  <1>13. ReportsTakeTurns'
    <2> SUFFICES ASSUME timely' PROVE ReportsTakeTurns'
      BY DEF ReportsTakeTurns
    <2>1. timely
      BY <1>1
    <2>2. \A d \in Clients : hook'[d] # NoHook =>
            TrackOf(hook[d].parcel) # t /\ TrackOf(hook[d].parcel) \in Tracked
      BY <2>1, <1>4, <1>8, <1>11, RowsAreTracked DEF ParcelsInv, ReportsAreTrue
    <2> QED  BY <2>1, <2>2, <1>6, <1>7, <1>11 DEF ParcelsInv, ReportsTakeTurns
  <1>14. HeardIsTracked'
    BY <1>2, <1>6, <1>7 DEF ParcelsInv, HeardIsTracked
  <1>15. ASSUME NEW q \in Parcels PROVE ParcelReported(q)'
    <2>1. ParcelReported(q)
      BY DEF ParcelsInv
    <2>2. CASE q = p
      BY <2>2, <1>1, <1>2, <1>5, <1>6, <1>7 DEF ParcelReported
    <2>3. CASE q # p /\ TrackOf(q) = t
      BY <2>1, <2>3, <1>1, <1>2, <1>5, <1>6 DEF ParcelReported
    <2>4. CASE q # p /\ TrackOf(q) # t
      <3>1. parcels'[q] = parcels[q] /\ TrackOf(q)' = TrackOf(q)
        BY <2>4, <1>5, <1>6
      <3>2. parcels[q] # NoParcel => heard'[TrackOf(q)] = heard[TrackOf(q)]
        BY <2>4, <1>7, RowsAreTracked DEF ParcelsInv
      <3> QED  BY <2>1, <3>1, <3>2, <1>1, <1>6 DEF ParcelReported
    <2> QED  BY <2>2, <2>3, <2>4
  <1> QED  BY <1>9, <1>12, <1>13, <1>14, <1>15 DEF ParcelsInv

LEMMA StopsKeeps == ASSUME ParcelsInv, NEW c \in Clients, HookStops(c) PROVE ParcelsInv'
  <1>1. /\ UNCHANGED <<parcels, moved, heard, timely>> /\ \A p : TrackOf(p)' = TrackOf(p)
        /\ hook' = [hook EXCEPT ![c] = NoHook]
    BY DEF HookStops, TrackOf
  <1>2. /\ hook' \in [Clients -> Reports \cup {NoHook}]
        /\ \A d \in Clients : hook'[d] # NoHook => hook'[d] = hook[d] /\ hook[d] # NoHook
    BY <1>1 DEF ParcelsInv, ParcelTypes
  <1>3. ParcelTypes' /\ HeardIsTracked' /\ \A p \in Parcels : ParcelReported(p)'
    BY <1>1, <1>2 DEF ParcelsInv, ParcelTypes, HeardIsTracked, ParcelReported
  <1>4. ReportsAreTrue' /\ ReportsTakeTurns'
    BY <1>1, <1>2 DEF ParcelsInv, ReportsAreTrue, ReportsTakeTurns
  <1> QED  BY <1>3, <1>4 DEF ParcelsInv

LEMMA FreightGoesOn == ParcelsInv /\ [ParcelsNext]_freight => ParcelsInv'
  <1> SUFFICES ASSUME ParcelsInv, [ParcelsNext]_freight PROVE ParcelsInv'
    OBVIOUS
  <1>1. CASE UNCHANGED freight
    BY <1>1 DEF freight, ParcelsInv, ParcelTypes, ReportsAreTrue, ReportsTakeTurns, HeardIsTracked, ParcelReported, TrackOf
  <1> QED  BY <1>1, BookKeeps, CarrierKeeps, FindKeeps, UpdateKeeps, StopsKeeps DEF ParcelsNext

LEMMA ParcelsInvHelps == ParcelsInv => StatusIsReported
  <1> SUFFICES ASSUME ParcelsInv, NEW p \in Parcels, parcels[p] # NoParcel
               PROVE  /\ parcels[p].status <= moved[TrackOf(p)] \/ parcels[p].status = InTransit
                      /\ parcels[p].status > 0 => parcels[p].carrier \in Verified
                      /\ timely /\ Of(parcels[p].carrier, parcels[p].number) = {p} =>
                           parcels[p].status = heard[TrackOf(p)]
    BY Zenon DEF StatusIsReported, TrackOf
  <1>1. ParcelReported(p)
    BY DEF ParcelsInv
  <1>2. Of(parcels[p].carrier, parcels[p].number) = {p} =>
          \A q \in Parcels : TrackOf(q) = TrackOf(p) => q = p
    BY DEF Of, TrackOf
  <1> QED  BY <1>1, <1>2 DEF ParcelReported, TrackOf

(* For any number of parcels, carriers and numbers: the status of a parcel *)
(* is one its carrier reported, never ahead of it, or in transit by a      *)
(* report without a status, and while reports arrive in time and a number  *)
(* is of one row it is the last one reported                               *)
(* (LogisticsWebhookService.applyWebhook).                                 *)
THEOREM OneStatus == Spec => []StatusIsReported
  <1>1. Init => ParcelsInv
    BY ParcelsStart DEF Init
  <1>2. [Next]_vars => [ParcelsNext]_freight
    BY DEF Next, vars
  <1>3. ParcelsInv /\ [Next]_vars => ParcelsInv'
    BY <1>2, FreightGoesOn
  <1> QED  BY <1>1, <1>3, ParcelsInvHelps, PTL DEF Spec

-----------------------------------------------------------------------------
(* The columns of an item of the catalog, by its scope.                    *)
Columns(i) == [Derived(ScopeOf[i]) -> FacetValues \cup {"", None}]

(* A column's facet has no value but the column's,                         *)
ShownOnce(row, facets) ==
  \A k \in DOMAIN row : row[k] \in FacetValues => \A t \in facets : t[1] = k => t = <<k, row[k]>>

(* and it is there.                                                        *)
Shown(row, facets) == \A k \in DOMAIN row : row[k] \in FacetValues => <<k, row[k]>> \in facets

(* The facets of an existing item are right.                               *)
FacetsRight(i) ==
  columns[i] # None =>
    /\ columns[i] \in Columns(i)
    /\ ShownOnce(columns[i], tags[i])
    /\ Shown(columns[i], tags[i])

(* Of the items that never were sent facets of their own.                  *)
CatalogInv ==
  /\ columns = [i \in Items |-> columns[i]]
  /\ tags = [i \in Items |-> tags[i]]
  /\ \A i \in Items \ handMade : FacetsRight(i)

LEMMA OthersStayRight ==
  ASSUME NEW i, FacetsRight(i), columns'[i] = columns[i], tags'[i] = tags[i]
  PROVE  FacetsRight(i)'
  BY DEF FacetsRight, ShownOnce, Shown, Columns

(* The facets derived from columns are theirs and no others.               *)
LEMMA FromColumnsShows ==
  ASSUME NEW row
  PROVE  /\ \A t \in FromColumns(row) : /\ t[1] \in DOMAIN row /\ row[t[1]] \in FacetValues
                                        /\ t = <<t[1], row[t[1]]>>
         /\ \A k \in DOMAIN row : row[k] \in FacetValues => <<k, row[k]>> \in FromColumns(row)
         /\ \A k : k \in KeysOf(FromColumns(row)) <=> k \in DOMAIN row /\ row[k] \in FacetValues
  <1>1. \A t \in FromColumns(row) : \E k \in DOMAIN row : row[k] \in FacetValues /\ t = <<k, row[k]>>
    BY DEF FromColumns
  <1>2. \A k \in DOMAIN row : row[k] \in FacetValues => <<k, row[k]>> \in FromColumns(row)
    BY DEF FromColumns
  <1>3. \A t \in FromColumns(row) : /\ t[1] \in DOMAIN row /\ row[t[1]] \in FacetValues
                                    /\ t = <<t[1], row[t[1]]>>
    BY <1>1
  <1>4. ASSUME NEW k PROVE k \in KeysOf(FromColumns(row)) <=> k \in DOMAIN row /\ row[k] \in FacetValues
    <2>1. ASSUME k \in KeysOf(FromColumns(row)) PROVE k \in DOMAIN row /\ row[k] \in FacetValues
      BY <1>3, <2>1 DEF KeysOf
    <2>2. ASSUME k \in DOMAIN row /\ row[k] \in FacetValues PROVE k \in KeysOf(FromColumns(row))
      <3>1. <<k, row[k]>> \in FromColumns(row) /\ <<k, row[k]>>[1] = k
        BY <1>2, <2>2
      <3> QED  BY <3>1 DEF KeysOf
    <2> QED  BY <2>1, <2>2
  <1> QED  BY <1>2, <1>3, <1>4

LEMMA SentIsColumns ==
  ASSUME NEW i, NEW row \in Sent(i)
  PROVE  row \in Columns(i) /\ DOMAIN row = Derived(ScopeOf[i])
  BY DEF Sent, Columns

LEMMA CatalogStarts == CatalogInit => CatalogInv
  BY DEF CatalogInit, CatalogInv, FacetsRight

(* A new item gets the facets of its columns.                              *)
LEMMA CreateKeeps ==
  ASSUME CatalogInv, NEW i \in Items, CreateItem(i)
  PROVE  CatalogInv'
  <1>1. PICK row \in Sent(i), explicit \in Explicit \cup {{}} :
       /\ columns' = [columns EXCEPT ![i] = row]
       /\ Apply(i, Merge(explicit, FromColumns(row)), {})
       /\ handMade' = IF explicit = {} THEN handMade ELSE handMade \cup {i}
    BY DEF CreateItem
  <1>2. tags' = [tags EXCEPT ![i] = Merge(explicit, FromColumns(row))]
    BY <1>1 DEF Apply
  <1>3. /\ columns' = [j \in Items |-> columns'[j]] /\ tags' = [j \in Items |-> tags'[j]]
        /\ columns'[i] = row /\ tags'[i] = Merge(explicit, FromColumns(row))
        /\ \A j \in Items : j # i => columns'[j] = columns[j] /\ tags'[j] = tags[j]
        /\ handMade \subseteq handMade'
    BY <1>1, <1>2 DEF CatalogInv
  <1>4. ASSUME i \notin handMade'
        PROVE  FacetsRight(i)'
    <2>1. tags'[i] = FromColumns(row)
      BY <1>1, <1>3, <1>4 DEF Merge, KeysOf
    <2>2. row \in Columns(i) /\ ShownOnce(row, tags'[i]) /\ Shown(row, tags'[i])
      BY <2>1, SentIsColumns, FromColumnsShows DEF ShownOnce, Shown
    <2> QED  BY <2>2, <1>3 DEF FacetsRight, ShownOnce, Shown, Columns
  <1>5. ASSUME NEW j \in Items \ handMade', j # i PROVE FacetsRight(j)'
    BY <1>3, <1>5, OthersStayRight DEF CatalogInv
  <1> QED  BY <1>3, <1>4, <1>5 DEF CatalogInv

(* The bulk replacement of facets, for items that are sent some.           *)
LEMMA ReplaceKeeps ==
  ASSUME CatalogInv, NEW i \in Items, ReplaceFacets(i)
  PROVE  CatalogInv'
  <1>1. PICK row \in Sent(i), explicit \in Explicit \cup {{}} :
       /\ columns' = [columns EXCEPT ![i] =
            [k \in DOMAIN row |-> IF row[k] = None THEN columns[i][k] ELSE row[k]]]
       /\ Apply(i, Merge(explicit, FromColumns(row)), {})
    BY DEF ReplaceFacets
  <1>2. handMade' = handMade \cup {i} /\ tags' = [tags EXCEPT ![i] = Merge(explicit, FromColumns(row))]
    BY <1>1 DEF Apply, ReplaceFacets
  <1>3. /\ columns' = [j \in Items |-> columns'[j]] /\ tags' = [j \in Items |-> tags'[j]]
        /\ \A j \in Items : j # i => columns'[j] = columns[j] /\ tags'[j] = tags[j]
    BY <1>1, <1>2 DEF CatalogInv
  <1>4. ASSUME NEW j \in Items \ handMade' PROVE FacetsRight(j)'
    BY <1>2, <1>3, OthersStayRight DEF CatalogInv
  <1> QED  BY <1>3, <1>4 DEF CatalogInv

(* An edit replaces the facets of the columns it was sent and leaves the   *)
(* others as they were.                                                    *)
LEMMA EditKeeps ==
  ASSUME CatalogInv, NEW i \in Items, UpdateItem(i)
  PROVE  CatalogInv'
  <1>1. PICK row \in Sent(i) :
       /\ columns' = [columns EXCEPT ![i] =
            [k \in DOMAIN row |-> IF row[k] = None THEN columns[i][k] ELSE row[k]]]
       /\ Apply(i, FromColumns(row), Other(i, FromColumns(row)))
    BY DEF UpdateItem
  <1> DEFINE new == [k \in DOMAIN row |-> IF row[k] = None THEN columns[i][k] ELSE row[k]]
             facets == FromColumns(row)
  <1>2. tags' = [tags EXCEPT ![i] = Other(i, facets) \cup facets] /\ handMade' = handMade /\ columns[i] # None
    BY <1>1 DEF Apply, UpdateItem
  <1>3. columns' = [columns EXCEPT ![i] = new]
    BY <1>1
  <1>4. /\ DOMAIN new = DOMAIN row
        /\ \A k \in DOMAIN row : new[k] = IF row[k] = None THEN columns[i][k] ELSE row[k]
        /\ new = [k \in DOMAIN row |-> new[k]]
    OBVIOUS
  <1> HIDE DEF new, facets
  <1>5. /\ columns' = [j \in Items |-> columns'[j]] /\ tags' = [j \in Items |-> tags'[j]]
        /\ columns'[i] = new /\ tags'[i] = Other(i, facets) \cup facets
        /\ \A j \in Items : j # i => columns'[j] = columns[j] /\ tags'[j] = tags[j]
    BY <1>2, <1>3 DEF CatalogInv
  <1>6. ASSUME i \notin handMade
        PROVE  FacetsRight(i)'
    <2>1. /\ columns[i] \in Columns(i)
          /\ ShownOnce(columns[i], tags[i]) /\ Shown(columns[i], tags[i])
      BY <1>2, <1>6 DEF CatalogInv, FacetsRight
    <2>2. row \in Columns(i) /\ DOMAIN row = Derived(ScopeOf[i]) /\ DOMAIN columns[i] = DOMAIN row
      BY <2>1, SentIsColumns DEF Columns
    <2>3. new \in Columns(i)
      BY <1>4, <2>1, <2>2 DEF Columns
    <2>4. /\ \A t \in facets : t[1] \in DOMAIN row /\ row[t[1]] \in FacetValues /\ t = <<t[1], row[t[1]]>>
          /\ \A k \in DOMAIN row : row[k] \in FacetValues => <<k, row[k]>> \in facets
          /\ \A k : k \in KeysOf(facets) <=> k \in DOMAIN row /\ row[k] \in FacetValues
      BY FromColumnsShows DEF facets
    <2>5. \A t : t \in Other(i, facets) <=> t \in tags[i] /\ t[1] \notin KeysOf(facets)
      BY DEF Other
    <2>6. \A k \in DOMAIN row : row[k] \in FacetValues => row[k] # None
      BY CatalogAssumption
    <2>7. ShownOnce(new, tags'[i])
      <3> SUFFICES ASSUME NEW k \in DOMAIN row, new[k] \in FacetValues, NEW t \in tags'[i], t[1] = k
                   PROVE  t = <<k, new[k]>>
        BY <1>4 DEF ShownOnce
      <3>1. CASE row[k] = None
        <4>1. new[k] = columns[i][k] /\ k \notin KeysOf(facets)
          BY <3>1, <1>4, <2>4, <2>6
        <4>2. t \in tags[i]
          BY <4>1, <1>5, <2>4, <2>5, <2>6, <3>1
        <4> QED  BY <4>1, <4>2, <2>1, <2>2 DEF ShownOnce
      <3>2. CASE row[k] # None
        <4>1. new[k] = row[k] /\ k \in KeysOf(facets)
          BY <3>2, <1>4, <2>4
        <4>2. t \in facets
          BY <4>1, <1>5, <2>5
        <4> QED  BY <4>1, <4>2, <2>4
      <3> QED  BY <3>1, <3>2
    <2>8. Shown(new, tags'[i])
      <3> SUFFICES ASSUME NEW k \in DOMAIN row, new[k] \in FacetValues
                   PROVE  <<k, new[k]>> \in tags'[i]
        BY <1>4 DEF Shown
      <3>1. CASE row[k] = None
        <4>1. new[k] = columns[i][k] /\ k \notin KeysOf(facets)
          BY <3>1, <1>4, <2>4, <2>6
        <4>2. <<k, new[k]>> \in tags[i] /\ <<k, new[k]>>[1] = k
          BY <4>1, <2>1, <2>2 DEF Shown
        <4> QED  BY <4>1, <4>2, <1>5, <2>5
      <3>2. CASE row[k] # None
        BY <3>2, <1>4, <1>5, <2>4
      <3> QED  BY <3>1, <3>2
    <2> QED  BY <2>3, <2>7, <2>8, <1>5 DEF FacetsRight, ShownOnce, Shown, Columns
  <1>7. ASSUME NEW j \in Items \ handMade', j # i PROVE FacetsRight(j)'
    BY <1>2, <1>5, <1>7, OthersStayRight DEF CatalogInv
  <1> QED  BY <1>2, <1>5, <1>6, <1>7 DEF CatalogInv

LEMMA CatalogGoesOn == CatalogInv /\ [CatalogNext]_catalog => CatalogInv'
  <1> SUFFICES ASSUME CatalogInv, [CatalogNext]_catalog PROVE CatalogInv'
    OBVIOUS
  <1>1. ASSUME UNCHANGED <<columns, tags, handMade>> PROVE CatalogInv'
    BY <1>1, OthersStayRight DEF CatalogInv
  <1>2. CASE UNCHANGED catalog
    BY <1>1, <1>2 DEF catalog
  <1>3. ASSUME NEW k \in Definable, NEW scope \in {"product", "variant"}, CreateFacetDefinition(k, scope)
        PROVE  CatalogInv'
    BY <1>1, <1>3 DEF CreateFacetDefinition
  <1> QED  BY <1>2, <1>3, CreateKeeps, ReplaceKeeps, EditKeeps DEF CatalogNext

LEMMA CatalogInvHelps == CatalogInv => FacetsFollowColumns
  <1> SUFFICES ASSUME CatalogInv, NEW i \in Items \ handMade, columns[i] # None,
                      NEW k \in DOMAIN columns[i], columns[i][k] \in FacetValues
               PROVE  {t \in tags[i] : t[1] = k} = {<<k, columns[i][k]>>}
    BY DEF FacetsFollowColumns
  <1>1. ShownOnce(columns[i], tags[i]) /\ Shown(columns[i], tags[i])
    BY DEF CatalogInv, FacetsRight
  <1>2. <<k, columns[i][k]>> \in tags[i] /\ <<k, columns[i][k]>>[1] = k
    BY <1>1 DEF Shown
  <1>3. \A t \in tags[i] : t[1] = k => t = <<k, columns[i][k]>>
    BY <1>1 DEF ShownOnce
  <1> QED  BY <1>2, <1>3

(* For any number of items, keys and values: the facets of an item that    *)
(* was never sent facets of its own are those of its columns, however it   *)
(* is edited (applyProductFacets, applyVariantFacets).                     *)
THEOREM FacetsFollow == Spec => []FacetsFollowColumns
  <1>1. Init => CatalogInv
    BY CatalogStarts DEF Init
  <1>2. [Next]_vars => [CatalogNext]_catalog
    BY DEF Next, vars
  <1>3. CatalogInv /\ [Next]_vars => CatalogInv'
    BY <1>2, CatalogGoesOn
  <1> QED  BY <1>1, <1>3, CatalogInvHelps, PTL DEF Spec

------------------------------------------------------------------------------
(* SHARED SERVICES: work on a service request that requires approval was   *)
(* approved, for any number of requests, actors and handlers; while        *)
(* handlers run one at a time and to their end, by somebody else than its  *)
(* author.                                                                 *)

(* The fields of a handler and of a row.                                   *)
VisitFields == {"op", "ticket", "actor", "at"}
TicketFields == {"status", "gated", "approvedBy", "rejectedBy"}
VisitRow(v) == v = [f \in VisitFields |-> v[f]]
TicketRow(r) == r = [f \in TicketFields |-> r[f]]

(* The tables are functions and their rows records.                        *)
TicketsShaped ==
  /\ tickets = [t \in Tickets |-> tickets[t]] /\ \A t \in Tickets : TicketRow(tickets[t])
  /\ visit = [c \in Clients |-> visit[c]] /\ \A c \in Clients : VisitRow(visit[c])

(* The statuses a request can have; onHold is never set.                   *)
Statuses == {"absent", "open", "approved", "rejected", "inProgress", "completed", "cancelled"}
(* A request whose category requires approval was acted upon.              *)
Worked(t) == tickets[t].gated /\ tickets[t].status \in {"approved", "inProgress", "completed"}

(* Whatever the interleaving, such a request was approved.                 *)
TicketKnown(t) == /\ tickets[t].status \in Statuses
                  /\ Worked(t) => t \in approvals

(* What a handler knows from its reads, whatever happened since.           *)
VisitKnown(v) ==
  v # NoVisit =>
    /\ v.ticket \in Tickets /\ tickets[v.ticket].status # "absent"
    /\ v.at \in {"author", "write"} => v.op \in DOMAIN From
    /\ v.at = "author" => v.op \in {"approve", "reject"}
    /\ v.at = "write" /\ v.op \in {"start", "complete"} /\ tickets[v.ticket].gated =>
         v.ticket \in approvals

(* An entry of the audit log.                                              *)
Entry(op, t, u) == [ticket |-> t, action |-> op, actor |-> u]

(* While handlers run one at a time and to their end, for a ticket and for *)
(* a handler.                                                              *)
Decided(t) ==
  Worked(t) =>
    LET u == tickets[t].approvedBy IN
    /\ tickets[t].rejectedBy = None
    /\ Entry("create", t, u) \notin audit
    /\ \/ Entry("approve", t, u) \in audit
       \/ \E c \in Clients : /\ visit[c].op = "approve" /\ visit[c].at = "record"
                             /\ visit[c].ticket = t /\ visit[c].actor = u

(* And what a handler read still holds.                                    *)
VisitAlone(v) ==
  LET was == tickets[v.ticket] IN
  /\ v.at = "record" /\ v.op = "create" => was.status = "open"
  /\ v.at = "record" /\ v.op = "approve" => was.status = "approved"
  /\ v.at = "write" /\ v.op = "approve" => Entry("create", v.ticket, v.actor) \notin audit
  /\ v.at = "write" /\ v.op \in {"start", "complete"} /\ was.gated =>
       was.status \in {"approved", "inProgress"}

(* The invariant: what holds always, and what holds while orderly.         *)
RequestsInv ==
  /\ TicketsShaped
  /\ \A t \in Tickets : TicketKnown(t)
  /\ \A c \in Clients : VisitKnown(visit[c])
  /\ orderly => /\ Single
                /\ \A t \in Tickets : Decided(t)
                /\ \A c \in Clients : VisitAlone(visit[c])

LEMMA NoVisitIsRow == VisitRow(NoVisit) /\ NoVisit.at = "start" /\ NoVisit.op = "none"
  BY DEF VisitRow, VisitFields, NoVisit

LEMMA NewVisitIsRow ==
  ASSUME NEW op, NEW t, NEW u, NEW at
  PROVE  LET v == [op |-> op, ticket |-> t, actor |-> u, at |-> at] IN
         VisitRow(v) /\ v.op = op /\ v.ticket = t /\ v.actor = u /\ v.at = at
  BY DEF VisitRow, VisitFields

(* A handler goes to its next place.                                       *)
LEMMA GoSets ==
  ASSUME TicketsShaped, NEW c \in Clients, NEW next, VisitRow(next), Go(c, next)
  PROVE  /\ visit'[c] = next
         /\ \A d \in Clients : d # c => visit'[d] = visit[d]
         /\ visit' = [d \in Clients |-> visit'[d]] /\ \A d \in Clients : VisitRow(visit'[d])
  <1>1. visit' = [visit EXCEPT ![c] = next]
    BY DEF Go
  <1>2. /\ visit'[c] = next /\ \A d \in Clients : d # c => visit'[d] = visit[d]
        /\ visit' = [d \in Clients |-> visit'[d]]
    BY <1>1 DEF TicketsShaped
  <1> QED  BY <1>2 DEF TicketsShaped

(* While handlers run one at a time, a handler that goes on was alone.     *)
LEMMA Alone1 ==
  ASSUME RequestsInv, NEW c \in Clients, orderly, visit[c] # NoVisit
  PROVE  \A d \in Clients : d # c => visit[d] = NoVisit
  BY DEF RequestsInv, Single

LEMMA RequestsStart == RequestsInit => RequestsInv
  <1> SUFFICES ASSUME RequestsInit PROVE RequestsInv
    OBVIOUS
  <1>1. tickets = [t \in Tickets |-> NoTicket] /\ visit = [c \in Clients |-> NoVisit]
    BY DEF RequestsInit
  <1>2. TicketsShaped
    BY <1>1, NoVisitIsRow DEF TicketsShaped, TicketRow, TicketFields, NoTicket
  <1>3. NoTicket.status = "absent" /\ NoTicket.gated = FALSE
    BY DEF NoTicket
  <1>4. \A t \in Tickets : TicketKnown(t) /\ Decided(t)
    BY <1>1, <1>3 DEF TicketKnown, Worked, Decided, Statuses
  <1>5. \A c \in Clients : VisitKnown(visit[c]) /\ VisitAlone(visit[c])
    BY <1>1, NoVisitIsRow DEF VisitKnown, VisitAlone
  <1> QED  BY <1>1, <1>2, <1>4, <1>5 DEF RequestsInv, Single

(* A new request was never acted upon.                                     *)
LEMMA RaiseKeeps ==
  ASSUME RequestsInv, NEW c \in Clients, RaiseTicket(c), orderly' = (orderly /\ Single')
  PROVE  RequestsInv'
  <1>1. PICK t \in Tickets, u \in Actors, gated \in BOOLEAN :
       /\ tickets[t] = NoTicket
       /\ tickets' = [tickets EXCEPT ![t] = [NoTicket EXCEPT !.status = "open", !.gated = gated]]
       /\ Go(c, [op |-> "create", ticket |-> t, actor |-> u, at |-> "record"])
    BY DEF RaiseTicket
  <1> DEFINE row == [NoTicket EXCEPT !.status = "open", !.gated = gated]
             next == [op |-> "create", ticket |-> t, actor |-> u, at |-> "record"]
  <1>2. TicketRow(row) /\ row.status = "open"
    BY DEF TicketRow, TicketFields, NoTicket
  <1>3. VisitRow(next) /\ next.op = "create" /\ next.ticket = t /\ next.at = "record"
    BY NewVisitIsRow
  <1>4. Go(c, next) /\ tickets' = [tickets EXCEPT ![t] = row] /\ UNCHANGED <<audit, approvals>>
    BY <1>1 DEF RaiseTicket
  <1>5. visit[c] = NoVisit /\ tickets[t].status = "absent"
    BY <1>1 DEF RaiseTicket, NoTicket
  <1> HIDE DEF row, next
  <1>6. /\ visit'[c] = next /\ \A d \in Clients : d # c => visit'[d] = visit[d]
        /\ visit' = [d \in Clients |-> visit'[d]] /\ \A d \in Clients : VisitRow(visit'[d])
    BY <1>3, <1>4, GoSets DEF RequestsInv
  <1>7. /\ tickets'[t] = row /\ \A s \in Tickets : s # t => tickets'[s] = tickets[s]
        /\ tickets' = [s \in Tickets |-> tickets'[s]]
    BY <1>4 DEF RequestsInv, TicketsShaped
  <1>8. TicketsShaped'
    BY <1>2, <1>6, <1>7 DEF RequestsInv, TicketsShaped
  <1>9. \A s \in Tickets : TicketKnown(s)'
    BY <1>2, <1>4, <1>7 DEF RequestsInv, TicketKnown, Worked, Statuses
  <1>10. \A d \in Clients : d # c => visit[d] = NoVisit \/ visit[d].ticket \in Tickets \ {t}
    BY <1>5 DEF RequestsInv, VisitKnown
  <1>11. \A d \in Clients : VisitKnown(visit[d])'
    BY <1>2, <1>3, <1>4, <1>6, <1>7, <1>10 DEF RequestsInv, VisitKnown
  <1>12. ASSUME orderly' PROVE (\A s \in Tickets : Decided(s)') /\ \A d \in Clients : VisitAlone(visit[d])'
    <2>1. \A s \in Tickets : Decided(s)
      BY <1>12 DEF RequestsInv
    <2>2. ASSUME NEW s \in Tickets PROVE Decided(s)'
      <3>1. CASE s = t
        BY <3>1, <1>2, <1>7 DEF Decided, Worked
      <3>2. CASE s # t
        BY <2>1, <3>2, <1>4, <1>5, <1>6, <1>7, NoVisitIsRow DEF Decided, Worked
      <3> QED  BY <3>1, <3>2
    <2>3. ASSUME NEW d \in Clients PROVE VisitAlone(visit[d])'
      <3>1. CASE d = c
        BY <3>1, <1>2, <1>3, <1>6, <1>7 DEF VisitAlone
      <3>2. CASE d # c
        <4>1. CASE visit[d] = NoVisit
          BY <3>2, <4>1, <1>6, NoVisitIsRow DEF VisitAlone
        <4>2. CASE visit[d] # NoVisit
          <5>1. visit'[d] = visit[d] /\ tickets'[visit[d].ticket] = tickets[visit[d].ticket]
            BY <3>2, <4>2, <1>6, <1>7, <1>10
          <5> QED  BY <5>1, <1>4, <1>12 DEF RequestsInv, VisitAlone
        <4> QED  BY <4>1, <4>2
      <3> QED  BY <3>1, <3>2
    <2> QED  BY <2>2, <2>3
  <1> QED  BY <1>8, <1>9, <1>11, <1>12 DEF RequestsInv

(* A handler goes to its next place and no row or entry changes.           *)
LEMMA MoveKeeps ==
  ASSUME RequestsInv, NEW c \in Clients, NEW next, VisitRow(next), Go(c, next),
         UNCHANGED <<tickets, audit, approvals>>,
         orderly' => orderly /\ Single' /\ (visit[c].at = "record" => visit[c].op # "approve"),
         VisitKnown(next), orderly => VisitAlone(next)
  PROVE  RequestsInv'
  <1>1. /\ visit'[c] = next /\ \A d \in Clients : d # c => visit'[d] = visit[d]
        /\ TicketsShaped'
    BY GoSets DEF RequestsInv, TicketsShaped
  <1>2. \A t \in Tickets : TicketKnown(t)'
    BY DEF RequestsInv, TicketKnown, Worked
  <1>3. \A d \in Clients : VisitKnown(visit[d])'
    BY <1>1 DEF RequestsInv, VisitKnown
  <1>4. ASSUME orderly' PROVE (\A t \in Tickets : Decided(t)') /\ \A d \in Clients : VisitAlone(visit[d])'
    <2>1. \A t \in Tickets : Decided(t)'
      BY <1>1, <1>4 DEF RequestsInv, Decided, Worked
    <2>2. \A d \in Clients : VisitAlone(visit[d])'
      BY <1>1, <1>4 DEF RequestsInv, VisitAlone
    <2> QED  BY <2>1, <2>2
  <1> QED  BY <1>1, <1>2, <1>3, <1>4 DEF RequestsInv

(* A handler reads a row and finds its status allowed.                     *)
LEMMA ReadKeeps ==
  ASSUME RequestsInv, NEW c \in Clients, ReadTicket(c), orderly' = (orderly /\ Single')
  PROVE  RequestsInv'
  <1>1. PICK t \in Tickets, op \in DOMAIN From :
       /\ Allowed(op, t)
       /\ IF op \in {"approve", "reject"}
          THEN \E u \in Actors : Go(c, [op |-> op, ticket |-> t, actor |-> u, at |-> "author"])
          ELSE Go(c, [op |-> op, ticket |-> t, actor |-> None, at |-> "write"])
    BY DEF ReadTicket
  <1>2. PICK u, at : /\ Go(c, [op |-> op, ticket |-> t, actor |-> u, at |-> at])
                     /\ at = IF op \in {"approve", "reject"} THEN "author" ELSE "write"
    BY <1>1
  <1> DEFINE next == [op |-> op, ticket |-> t, actor |-> u, at |-> at]
  <1>3. VisitRow(next) /\ next.op = op /\ next.ticket = t /\ next.at = at
    BY NewVisitIsRow
  <1>4. Go(c, next) /\ UNCHANGED <<tickets, audit, approvals>> /\ visit[c] = NoVisit
    BY <1>2 DEF ReadTicket
  <1>5. tickets[t].status \in From[op] /\ (op = "start" /\ tickets[t].gated => tickets[t].status # "open")
    BY <1>1 DEF Allowed
  <1>6. /\ tickets[t].status \in Statuses \ {"absent"}
        /\ op \in {"start", "complete"} /\ tickets[t].gated => tickets[t].status \in {"approved", "inProgress"}
    BY <1>5 DEF From, RequestsInv, TicketKnown, Statuses
  <1> HIDE DEF next
  <1>7. VisitKnown(next)
    BY <1>2, <1>3, <1>6 DEF VisitKnown, RequestsInv, TicketKnown, Worked
  <1>8. VisitAlone(next)
    BY <1>2, <1>3, <1>6 DEF VisitAlone
  <1> QED  BY <1>3, <1>4, <1>7, <1>8, MoveKeeps, NoVisitIsRow

(* The one who approves is not the author in the audit log.                *)
LEMMA CheckKeeps ==
  ASSUME RequestsInv, NEW c \in Clients, CheckAuthor(c), orderly' = (orderly /\ Single')
  PROVE  RequestsInv'
  <1> DEFINE next == [visit[c] EXCEPT !.at = "write"]
  <1>1. /\ VisitRow(next) /\ next.at = "write" /\ next.op = visit[c].op
        /\ next.ticket = visit[c].ticket /\ next.actor = visit[c].actor
    BY DEF RequestsInv, TicketsShaped, VisitRow, VisitFields
  <1>2. /\ Go(c, next) /\ UNCHANGED <<tickets, audit, approvals>>
        /\ visit[c].at = "author" /\ ~OwnRequest(visit[c].ticket, visit[c].actor)
    BY DEF CheckAuthor
  <1>3. visit[c] # NoVisit /\ visit[c].op \in {"approve", "reject"}
    BY <1>2, NoVisitIsRow DEF RequestsInv, VisitKnown
  <1>4. orderly => Entry("create", next.ticket, next.actor) \notin audit
    BY <1>1, <1>2 DEF OwnRequest, Entry
  <1>5. visit[c].ticket \in Tickets /\ tickets[visit[c].ticket].status # "absent"
    BY <1>3 DEF RequestsInv, VisitKnown
  <1> HIDE DEF next
  <1>6. VisitKnown(next)
    BY <1>1, <1>3, <1>5 DEF VisitKnown, From
  <1>7. orderly => VisitAlone(next)
    BY <1>1, <1>3, <1>4 DEF VisitAlone
  <1> QED  BY <1>1, <1>2, <1>6, <1>7, MoveKeeps

(* The update, in the terms of the invariant.                              *)
LEMMA WriteSets ==
  ASSUME RequestsInv, NEW c \in Clients, WriteTicket(c)
  PROVE  LET t == visit[c].ticket
             op == visit[c].op
             u == visit[c].actor
         IN  /\ visit[c] # NoVisit /\ visit[c].at = "write" /\ t \in Tickets /\ op \in DOMAIN From
             /\ TicketsShaped' /\ audit' = audit
             /\ \A s \in Tickets : s # t => tickets'[s] = tickets[s]
             /\ tickets'[t].status = Status(op, tickets[t].status)
             /\ tickets'[t].gated = tickets[t].gated
             /\ op = "approve" => tickets'[t].approvedBy = u /\ tickets'[t].rejectedBy = None
             /\ op \notin {"approve", "reject"} =>
                  /\ tickets'[t].approvedBy = tickets[t].approvedBy
                  /\ tickets'[t].rejectedBy = tickets[t].rejectedBy
             /\ approvals' = IF op = "approve" THEN approvals \cup {t} ELSE approvals
             /\ visit'[c].at = "record" /\ visit'[c].op = op /\ visit'[c].ticket = t /\ visit'[c].actor = u
             /\ visit'[c] # NoVisit
             /\ \A d \in Clients : d # c => visit'[d] = visit[d]
  <1> DEFINE t == visit[c].ticket
             op == visit[c].op
             u == visit[c].actor
             decides == op \in {"approve", "reject"}
             was == tickets[t]
             row == [status |-> Status(op, was.status), gated |-> was.gated,
                     approvedBy |-> IF op = "approve" THEN u ELSE IF decides THEN None ELSE was.approvedBy,
                     rejectedBy |-> IF op = "reject" THEN u ELSE IF decides THEN None ELSE was.rejectedBy]
             next == [visit[c] EXCEPT !.at = "record"]
  <1>1. /\ visit[c].at = "write" /\ Go(c, next) /\ audit' = audit
        /\ tickets' = [tickets EXCEPT ![t] = row]
        /\ approvals' = IF op = "approve" THEN approvals \cup {t} ELSE approvals
    BY DEF WriteTicket
  <1>2. visit[c] # NoVisit /\ t \in Tickets /\ op \in DOMAIN From
    BY <1>1, NoVisitIsRow DEF RequestsInv, VisitKnown
  <1>3. VisitRow(next) /\ next.at = "record" /\ next.op = op /\ next.ticket = t /\ next.actor = u
    BY DEF RequestsInv, TicketsShaped, VisitRow, VisitFields
  <1>4. /\ TicketRow(row) /\ row.status = Status(op, was.status) /\ row.gated = was.gated
        /\ op = "approve" => row.approvedBy = u /\ row.rejectedBy = None
        /\ op \notin {"approve", "reject"} =>
             row.approvedBy = was.approvedBy /\ row.rejectedBy = was.rejectedBy
    BY DEF TicketRow, TicketFields
  <1> HIDE DEF row, next
  <1>5. /\ visit'[c] = next /\ \A d \in Clients : d # c => visit'[d] = visit[d]
        /\ visit' = [d \in Clients |-> visit'[d]] /\ \A d \in Clients : VisitRow(visit'[d])
    BY <1>1, <1>3, GoSets DEF RequestsInv
  <1>6. /\ tickets'[t] = row /\ \A s \in Tickets : s # t => tickets'[s] = tickets[s]
        /\ tickets' = [s \in Tickets |-> tickets'[s]]
    BY <1>1, <1>2 DEF RequestsInv, TicketsShaped
  <1>7. TicketsShaped'
    BY <1>4, <1>5, <1>6 DEF RequestsInv, TicketsShaped
  <1>8. next # NoVisit
    BY <1>3, NoVisitIsRow
  <1> QED  BY <1>1, <1>2, <1>3, <1>4, <1>5, <1>6, <1>7, <1>8

(* The update: what it makes of the request was approved before, or is by  *)
(* it.                                                                     *)
LEMMA WriteKeeps ==
  ASSUME RequestsInv, NEW c \in Clients, WriteTicket(c), orderly' = (orderly /\ Single')
  PROVE  RequestsInv'
  <1>1. PICK t, op, u, was :
          t = visit[c].ticket /\ op = visit[c].op /\ u = visit[c].actor /\ was = tickets[t].status
    OBVIOUS
  <1>2. /\ visit[c] # NoVisit /\ visit[c].at = "write" /\ t \in Tickets /\ op \in DOMAIN From
        /\ TicketsShaped' /\ audit' = audit
        /\ \A s \in Tickets : s # t => tickets'[s] = tickets[s]
        /\ tickets'[t].gated = tickets[t].gated
        /\ visit'[c].at = "record" /\ visit'[c].op = op /\ visit'[c].ticket = t /\ visit'[c].actor = u
        /\ visit'[c] # NoVisit
        /\ \A d \in Clients : d # c => visit'[d] = visit[d]
    BY <1>1, WriteSets
  <1>3. tickets'[t].status = Status(op, was)
    BY <1>1, WriteSets
  <1>4. /\ op = "approve" => tickets'[t].approvedBy = u /\ tickets'[t].rejectedBy = None
        /\ op \notin {"approve", "reject"} =>
             /\ tickets'[t].approvedBy = tickets[t].approvedBy
             /\ tickets'[t].rejectedBy = tickets[t].rejectedBy
        /\ approvals' = IF op = "approve" THEN approvals \cup {t} ELSE approvals
    BY <1>1, WriteSets
  <1>5. was \in Statuses \ {"absent"}
    BY <1>1, <1>2 DEF RequestsInv, VisitKnown, TicketKnown
  <1>6. op \in {"approve", "reject", "assign", "start", "complete", "cancel"}
    BY <1>2 DEF From
  <1>7. /\ tickets'[t].status \in Statuses \ {"absent"}
        /\ op = "approve" => tickets'[t].status = "approved"
        /\ op = "assign" => tickets'[t].status = was
        /\ op \in {"reject", "cancel"} => tickets'[t].status \in {"rejected", "cancelled"}
    BY <1>3, <1>5, <1>6 DEF Status, Statuses
  <1>8. tickets[t].gated /\ op \in {"start", "complete"} => t \in approvals
    BY <1>1, <1>2 DEF RequestsInv, VisitKnown
  <1>9. \A s \in Tickets : TicketKnown(s)'
    <2>1. TicketKnown(t)
      BY <1>2 DEF RequestsInv
    <2>2. TicketKnown(t)'
      BY <2>1, <1>1, <1>2, <1>4, <1>6, <1>7, <1>8 DEF TicketKnown, Worked
    <2> QED  BY <2>2, <1>2, <1>4 DEF RequestsInv, TicketKnown, Worked
  <1>10. \A d \in Clients : VisitKnown(visit[d])'
    BY <1>2, <1>4, <1>7 DEF RequestsInv, VisitKnown
  <1>11. ASSUME orderly' PROVE (\A s \in Tickets : Decided(s)') /\ \A d \in Clients : VisitAlone(visit[d])'
    <2>1. orderly /\ \A d \in Clients : d # c => visit[d] = NoVisit
      BY <1>2, <1>11, Alone1
    <2>2. VisitAlone(visit[c]) /\ \A s \in Tickets : Decided(s)
      BY <2>1 DEF RequestsInv
    <2>3. \A d \in Clients : visit[d].at # "record"
      BY <2>1, <1>2, NoVisitIsRow
    <2>4. Decided(t)'
      <3>1. CASE op = "approve"
        BY <3>1, <1>1, <1>2, <1>4, <2>2 DEF Decided, VisitAlone
      <3>2. CASE op \in {"reject", "cancel"}
        BY <3>2, <1>7 DEF Decided, Worked
      <3>3. CASE op \in {"assign", "start", "complete"}
        <4>1. Worked(t)' => Worked(t)
          BY <3>3, <1>1, <1>2, <1>7, <2>2 DEF Worked, VisitAlone
        <4> QED  BY <4>1, <3>3, <1>2, <1>4, <2>2, <2>3 DEF Decided
      <3> QED  BY <3>1, <3>2, <3>3, <1>6
    <2>5. ASSUME NEW s \in Tickets, s # t PROVE Decided(s)'
      BY <2>5, <1>2, <2>2, <2>3 DEF Decided, Worked
    <2>6. VisitAlone(visit[c])'
      BY <1>2, <1>6, <1>7 DEF VisitAlone
    <2>7. \A d \in Clients : d # c => VisitAlone(visit[d])'
      BY <1>2, <2>1, NoVisitIsRow DEF VisitAlone
    <2> QED  BY <2>4, <2>5, <2>6, <2>7
  <1>12. orderly' => Single'
    OBVIOUS
  <1> QED  BY <1>2, <1>9, <1>10, <1>11, <1>12 DEF RequestsInv

(* The audit entry of the request's creation or approval.                  *)
LEMMA RecordKeeps ==
  ASSUME RequestsInv, NEW c \in Clients, RecordAudit(c), orderly' = (orderly /\ Single')
  PROVE  RequestsInv'
  <1>1. PICK t, op, u : t = visit[c].ticket /\ op = visit[c].op /\ u = visit[c].actor
    OBVIOUS
  <1>2. /\ visit[c].at = "record" /\ Go(c, NoVisit) /\ UNCHANGED <<tickets, approvals>>
        /\ audit' = IF op \notin Told THEN audit ELSE audit \cup {Entry(op, t, u)}
    BY <1>1 DEF RecordAudit, Entry
  <1>3. /\ visit'[c] = NoVisit /\ \A d \in Clients : d # c => visit'[d] = visit[d]
        /\ TicketsShaped' /\ visit[c] # NoVisit /\ t \in Tickets
    BY <1>1, <1>2, GoSets, NoVisitIsRow DEF RequestsInv, TicketsShaped, VisitKnown
  <1>4. (\A s \in Tickets : TicketKnown(s)') /\ \A d \in Clients : VisitKnown(visit[d])'
    BY <1>2, <1>3 DEF RequestsInv, TicketKnown, Worked, VisitKnown
  <1>5. ASSUME orderly' PROVE (\A s \in Tickets : Decided(s)') /\ \A d \in Clients : VisitAlone(visit[d])'
    <2>1. orderly /\ \A d \in Clients : d # c => visit[d] = NoVisit
      BY <1>3, <1>5, Alone1
    <2>2. VisitAlone(visit[c]) /\ \A s \in Tickets : Decided(s)
      BY <2>1 DEF RequestsInv
    <2>3. \A d \in Clients : VisitAlone(visit[d])'
      BY <1>3, <2>1, NoVisitIsRow DEF VisitAlone
    <2>4. \A s, v : Entry("create", s, v) = Entry(op, t, u) => op = "create" /\ s = t
      BY DEF Entry
    <2>5. ASSUME NEW s \in Tickets, Worked(s) PROVE Decided(s)'
      <3>1. op = "create" => s # t
        BY <1>1, <1>2, <2>2, <2>5 DEF VisitAlone, Worked
      <3>2. Entry("create", s, tickets[s].approvedBy) \notin audit'
        BY <1>2, <2>2, <2>4, <2>5, <3>1 DEF Decided
      <3>3. Entry("approve", s, tickets[s].approvedBy) \in audit'
        <4>1. CASE Entry("approve", s, tickets[s].approvedBy) \in audit
          BY <4>1, <1>2
        <4>2. CASE Entry("approve", s, tickets[s].approvedBy) \notin audit
          <5>1. visit[c].op = "approve" /\ visit[c].ticket = s /\ visit[c].actor = tickets[s].approvedBy
            BY <4>2, <2>1, <2>2, <2>5, NoVisitIsRow DEF Decided
          <5> QED  BY <5>1, <1>1, <1>2 DEF Told
        <4> QED  BY <4>1, <4>2
      <3> QED  BY <1>2, <2>2, <2>5, <3>2, <3>3 DEF Decided
    <2>6. \A s \in Tickets : ~Worked(s) => Decided(s)'
      BY <1>2 DEF Decided, Worked
    <2> QED  BY <2>3, <2>5, <2>6
  <1>6. orderly' => Single'
    OBVIOUS
  <1> QED  BY <1>3, <1>4, <1>5, <1>6 DEF RequestsInv

(* A handler that stops before its audit entry ends the order.             *)
LEMMA StopKeeps ==
  ASSUME RequestsInv, NEW c \in Clients, VisitStops(c), orderly' = (orderly /\ visit[c].at # "record")
  PROVE  RequestsInv'
  <1>1. Go(c, NoVisit) /\ UNCHANGED <<tickets, audit, approvals>>
    BY DEF VisitStops
  <1>2. VisitKnown(NoVisit) /\ VisitAlone(NoVisit)
    BY NoVisitIsRow DEF VisitKnown, VisitAlone
  <1>3. orderly' => Single'
    <2>1. visit'[c] = NoVisit /\ \A d \in Clients : d # c => visit'[d] = visit[d]
      BY <1>1, GoSets, NoVisitIsRow DEF RequestsInv
    <2> QED  BY <2>1 DEF RequestsInv, Single
  <1> QED  BY <1>1, <1>2, <1>3, MoveKeeps, NoVisitIsRow

LEMMA RequestsGoOn == RequestsInv /\ [RequestsNext]_requests => RequestsInv'
  <1> SUFFICES ASSUME RequestsInv, [RequestsNext]_requests PROVE RequestsInv'
    OBVIOUS
  <1>1. CASE UNCHANGED requests
    BY <1>1 DEF RequestsInv, requests, TicketsShaped, TicketKnown, Worked, VisitKnown, Single, Decided, VisitAlone
  <1>2. CASE RequestsNext
    <2>1. PICK c \in Clients :
            \/ /\ RaiseTicket(c) \/ ReadTicket(c) \/ CheckAuthor(c) \/ WriteTicket(c) \/ RecordAudit(c)
               /\ orderly' = (orderly /\ Single')
            \/ /\ VisitStops(c)
               /\ orderly' = (orderly /\ visit[c].at # "record")
      BY <1>2 DEF RequestsNext
    <2> QED  BY <2>1, RaiseKeeps, ReadKeeps, CheckKeeps, WriteKeeps, RecordKeeps, StopKeeps
  <1> QED  BY <1>1, <1>2

LEMMA RequestsInvHelps == RequestsInv => FourEyes
  <1> SUFFICES ASSUME RequestsInv, NEW t \in Tickets, tickets[t].gated,
                      tickets[t].status \in {"inProgress", "completed"}
               PROVE  /\ t \in approvals
                      /\ orderly =>
                           LET by == tickets[t].approvedBy IN
                           /\ [ticket |-> t, action |-> "approve", actor |-> by] \in audit
                           /\ [ticket |-> t, action |-> "create", actor |-> by] \notin audit
                           /\ tickets[t].rejectedBy = None
    BY DEF FourEyes
  <1>1. Worked(t)
    BY DEF Worked
  <1>2. t \in approvals
    BY <1>1 DEF RequestsInv, TicketKnown
  <1>3. ASSUME orderly PROVE Entry("approve", t, tickets[t].approvedBy) \in audit
    BY <1>1, <1>3 DEF RequestsInv, Decided, VisitAlone
  <1> QED  BY <1>1, <1>2, <1>3 DEF RequestsInv, Decided, Entry

(* For any number of requests, actors and handlers: work on a request that *)
(* requires approval was approved at some time, and while handlers run one *)
(* at a time and to their end its approval stands, is by another than its  *)
(* author and is in the audit log                                          *)
(* (SharedServicesService.startServiceRequest, assertNotSelfApproval).     *)
THEOREM FourEyesHolds == Spec => []FourEyes
  <1>1. Init => RequestsInv
    BY RequestsStart DEF Init
  <1>2. [Next]_vars => [RequestsNext]_requests
    BY DEF Next, vars
  <1>3. RequestsInv /\ [Next]_vars => RequestsInv'
    BY <1>2, RequestsGoOn
  <1> QED  BY <1>1, <1>3, RequestsInvHelps, PTL DEF Spec

------------------------------------------------------------------------------
(* THE TILL SESSION: for any number of overlapping runs of                 *)
(* evaluateAppState the till leaves the selling screens once nobody is     *)
(* signed in.                                                              *)

(* The property and the shape of the table of runs are inductive.          *)
SessionInv == checks = [e \in Checks |-> checks[e]] /\ SignedOutLeaves

(* A step that starts runs keeps it: one of them is to come to its end, or *)
(* the configuration is missed and its screen shown.                       *)
LEMMA EvaluateKeeps ==
  ASSUME SessionInv, NEW runs \in SUBSET Checks, runs # {}, Evaluate(runs)
  PROVE  SessionInv'
  <1>1. checks' = [e \in Checks |-> checks'[e]]
    BY DEF SessionInv, Evaluate
  <1>2. PICK e \in Checks : e \in runs
    OBVIOUS
  <1>3. CASE config'
    <2>1. checks' = [c \in Checks |-> IF c \in runs THEN "health" ELSE checks[c]]
      BY <1>3 DEF Evaluate
    <2>2. checks'[e] # "none"
      BY <2>1, <1>2
    <2> QED  BY <1>1, <2>2 DEF SessionInv, SignedOutLeaves
  <1>4. CASE ~config'
    <2>1. view' = "configMissing"
      BY <1>4 DEF Evaluate
    <2> QED  BY <1>1, <2>1 DEF SessionInv, SignedOutLeaves
  <1> QED  BY <1>3, <1>4

(* A step keeps it that touches neither cashier, screen, runs nor errors.  *)
LEMMA ScreenStays ==
  ASSUME SessionInv, UNCHANGED <<cashier, view, checks, failed>>
  PROVE  SessionInv'
  BY DEF SessionInv, SignedOutLeaves

(* A run that goes on is still to come to its end.                         *)
LEMMA GoOnKeeps ==
  ASSUME SessionInv, NEW e \in Checks, NEW what, what # "none", GoOn(e, what)
  PROVE  SessionInv'
  <1>1. checks' = [checks EXCEPT ![e] = what]
    BY DEF GoOn, Await
  <1>2. checks' = [c \in Checks |-> checks'[c]] /\ checks'[e] # "none"
    BY <1>1 DEF SessionInv
  <1> QED  BY <1>2 DEF SessionInv, SignedOutLeaves

(* A run that comes to its end shows a screen for the cashier as it is.    *)
LEMMA ShowKeeps ==
  ASSUME SessionInv, NEW e \in Checks, UNCHANGED cashier,
         Refused(e) \/ \E shift : Show(e, shift)
  PROVE  SessionInv'
  <1>1. checks' = [checks EXCEPT ![e] = "none"]
    BY DEF Refused, Show, Await
  <1>2. checks' = [c \in Checks |-> checks'[c]]
    BY <1>1 DEF SessionInv
  <1>3. view' \in {"shift", "checkout"} => cashier'
    BY DEF Refused, Show
  <1> QED  BY <1>2, <1>3 DEF SessionInv, SignedOutLeaves

(* The awaited requests of a run.                                          *)
LEMMA RunKeeps ==
  ASSUME SessionInv, NEW e \in Checks,
         \/ HealthAnswered(e) \/ DeviceAnswered(e) \/ ShiftAnswered(e) \/ SummaryAnswered(e)
         \/ CheckThrows(e)
  PROVE  SessionInv'
  <1>1. CASE HealthAnswered(e)
    <2>1. UNCHANGED cashier
      BY <1>1 DEF HealthAnswered
    <2>2. GoOn(e, "device") \/ Refused(e) \/ Show(e, openShift)
      BY <1>1 DEF HealthAnswered
    <2> QED  BY <2>1, <2>2, GoOnKeeps, ShowKeeps
  <1>2. CASE DeviceAnswered(e)
    <2>1. UNCHANGED cashier
      BY <1>2 DEF DeviceAnswered
    <2>2. GoOn(e, "shift") \/ Refused(e) \/ Show(e, openShift)
      BY <1>2 DEF DeviceAnswered
    <2> QED  BY <2>1, <2>2, GoOnKeeps, ShowKeeps
  <1>3. CASE ShiftAnswered(e)
    <2>1. UNCHANGED cashier
      BY <1>3 DEF ShiftAnswered
    <2>2. GoOn(e, "summary") \/ Show(e, openShift) \/ Show(e, FALSE) \/ Show(e, TRUE)
      BY <1>3 DEF ShiftAnswered
    <2> QED  BY <2>1, <2>2, GoOnKeeps, ShowKeeps
  <1>4. CASE SummaryAnswered(e)
    <2>1. UNCHANGED cashier /\ Show(e, openShift)
      BY <1>4 DEF SummaryAnswered
    <2> QED  BY <2>1, ShowKeeps
  <1>5. CASE CheckThrows(e)
    <2>1. checks' = [checks EXCEPT ![e] = "none"] /\ failed' = TRUE
      BY <1>5 DEF CheckThrows, Await
    <2>2. checks' = [c \in Checks |-> checks'[c]]
      BY <2>1 DEF SessionInv
    <2> QED  BY <2>1, <2>2 DEF SessionInv, SignedOutLeaves
  <1> QED  BY <1>1, <1>2, <1>3, <1>4, <1>5

(* The file could not be saved: the handler ended with an error.           *)
LEMMA ThrowKeeps ==
  ASSUME SessionInv, NEW now, NEW signedIn, SaveThrows(now, signedIn)
  PROVE  SessionInv'
  BY DEF SaveThrows, SessionInv, SignedOutLeaves

(* What starts runs.                                                       *)
LEMMA StartKeeps ==
  ASSUME SessionInv, NEW e \in Checks,
         \/ Login(e) \/ Activate(e) \/ ShiftChanged(e) \/ SignOut(e) \/ ReloadConfig(e)
         \/ \E f \in Checks : IdleTimeout(e, f)
  PROVE  SessionInv'
  <1>1. CASE Login(e)
    <2>1. Evaluate({e}) \/ SaveThrows(config, TRUE)
      BY <1>1 DEF Login
    <2> QED  BY <2>1, EvaluateKeeps, ThrowKeeps
  <1>2. CASE Activate(e)
    <2>1. Evaluate({e}) \/ SaveThrows(TRUE, FALSE)
      BY <1>2 DEF Activate
    <2> QED  BY <2>1, EvaluateKeeps, ThrowKeeps
  <1>3. CASE SignOut(e)
    <2>1. Evaluate({e}) \/ SaveThrows(config, FALSE)
      BY <1>3 DEF SignOut, EndSession
    <2> QED  BY <2>1, EvaluateKeeps, ThrowKeeps
  <1>4. ASSUME NEW f \in Checks, IdleTimeout(e, f) PROVE SessionInv'
    <2>1. Evaluate({e, f}) \/ SaveThrows(config, FALSE)
      BY <1>4 DEF IdleTimeout, EndSession
    <2> QED  BY <2>1, EvaluateKeeps, ThrowKeeps
  <1>5. CASE ShiftChanged(e) \/ ReloadConfig(e)
    <2>1. Evaluate({e})
      BY <1>5 DEF ShiftChanged, ReloadConfig
    <2> QED  BY <2>1, EvaluateKeeps
  <1> QED  BY <1>1, <1>2, <1>3, <1>4, <1>5

LEMMA SessionGoesOn == SessionInv /\ [SessionNext]_session => SessionInv'
  <1> SUFFICES ASSUME SessionInv, [SessionNext]_session PROVE SessionInv'
    OBVIOUS
  <1>1. ASSUME NEW e \in Checks, Bootstrap(e) PROVE SessionInv'
    <2>1. checks' = [c \in Checks |-> checks'[c]] /\ view' \notin {"shift", "checkout"}
      BY <1>1 DEF Bootstrap
    <2> QED  BY <2>1 DEF SessionInv, SignedOutLeaves
  <1>2. CASE Navigate
    <2>1. UNCHANGED <<cashier, checks, failed>> /\ (view' \in {"shift", "checkout"} => cashier)
      BY <1>2 DEF Navigate
    <2> QED  BY <2>1 DEF SessionInv, SignedOutLeaves
  <1>3. CASE SubmitForm \/ FormFails \/ RefreshAnswered \/ LookAgain \/ Moves
             \/ UNCHANGED session
    <2>1. UNCHANGED <<cashier, view, checks, failed>>
      BY <1>3 DEF SubmitForm, FormFails, RefreshAnswered, LookAgain, Moves, session
    <2> QED  BY <2>1, ScreenStays
  <1> QED  BY <1>1, <1>2, <1>3, RunKeeps, StartKeeps DEF SessionNext

(* However runs of evaluateAppState overlap, and for any number of them:   *)
(* signed out, the till leaves the selling screens, unless the last run    *)
(* ended with an error or saving the configuration threw.                  *)
THEOREM SignedOutIsShown == Spec => []SignedOutLeaves
  <1>1. Init => SessionInv
    BY DEF Init, SessionInit, SessionInv, SignedOutLeaves
  <1>2. [Next]_vars => [SessionNext]_session
    BY DEF Next, vars
  <1>3. SessionInv /\ [Next]_vars => SessionInv'
    BY <1>2, SessionGoesOn
  <1>4. SessionInv => SignedOutLeaves
    BY DEF SessionInv
  <1> QED  BY <1>1, <1>3, <1>4, PTL DEF Spec

------------------------------------------------------------------------------
(* THE TILL'S SALE: for any number of items, drafts, coupons and orders    *)
(* that wait, what an order takes off and what it sends as paid fits its   *)
(* own lines.                                                              *)

(* What can be asked for a cart, a draft, and the forms.                   *)
Wishes == [discount : Nat, promotion : Nat \cup {None}]
DraftRow == [cart : [Goods -> Nat], asked : Wishes]
FormRow == [kind : {"none", "single", "split", "plan"}, amount : Nat, late : BOOLEAN]

RegisterTypes ==
  /\ cart \in [Goods -> Nat] /\ asked \in Wishes
  /\ drafts \in Seq(DraftRow)
  /\ form \in FormRow /\ (form.kind = "none" => form = Closed)
  /\ picks \subseteq Goods /\ lookups \subseteq Nat
  /\ orders = [c \in Clients |-> orders[c]]

(* The totals are those of the cart, and the form of a single payment      *)
(* shows them unless a coupon or an item came, or the cart was emptied.    *)
TotalsRight == orderTotals = Summary(cart, asked)
FormRight == form.kind = "single" /\ ~form.late /\ Filled => form.amount = Due(orderTotals)

RegisterInv == RegisterTypes /\ TotalsRight /\ FormRight /\ OrdersAddUp

(* The summary of a cart: its units, and a discount within them.           *)
LEMMA SummaryRight ==
  ASSUME NEW items \in [Goods -> Nat], NEW wish \in Wishes
  PROVE  /\ UnitsIn(items) \in Nat
         /\ Summary(items, wish).total = UnitsIn(items)
         /\ Summary(items, wish).discount \in 0..UnitsIn(items)
         /\ Due(Summary(items, wish)) \in Nat
         /\ Due(Summary(items, wish)) = UnitsIn(items) - Summary(items, wish).discount
<1>1. UnitsIn(items) \in Nat
  BY RegisterAssumption, TotalType DEF UnitsIn
<1>2. PICK off \in Nat : off = IF wish.promotion # None THEN wish.promotion ELSE wish.discount
  BY DEF Wishes
<1>3. Summary(items, wish) =
        [total |-> UnitsIn(items), discount |-> IF off < UnitsIn(items) THEN off ELSE UnitsIn(items)]
  BY <1>2 DEF Summary
<1> QED BY <1>1, <1>2, <1>3 DEF Due

LEMMA NoItemsIsEmpty == NoItems \in [Goods -> Nat] /\ UnitsIn(NoItems) = 0
<1>1. NoItems \in [Goods -> Int] /\ NoItems \in [Goods -> Nat] /\ \A g \in Goods : NoItems[g] = 0
  BY DEF NoItems
<1>2. SumFunction(NoItems) = 0
  BY <1>1, RegisterAssumption, TotalZero
<1> QED BY <1>1, <1>2 DEF UnitsIn

LEMMA ClosedIsForm == Closed \in FormRow /\ Closed.kind = "none"
  BY DEF Closed, FormRow

(* One draft less, one more.                                               *)
LEMMA DraftsStay ==
  ASSUME NEW s \in Seq(DraftRow)
  PROVE  /\ \A n \in DOMAIN s : RemoveAt(s, n) \in Seq(DraftRow) /\ s[n] \in DraftRow
         /\ \A d \in DraftRow, n \in Nat :
              SubSeq(<<d>> \o s, 1, IF Len(<<d>> \o s) < n THEN Len(<<d>> \o s) ELSE n) \in Seq(DraftRow)
<1>1. ASSUME NEW n \in DOMAIN s PROVE RemoveAt(s, n) \in Seq(DraftRow) /\ s[n] \in DraftRow
  BY DEF RemoveAt
<1>2. ASSUME NEW d \in DraftRow, NEW n \in Nat
      PROVE  SubSeq(<<d>> \o s, 1, IF Len(<<d>> \o s) < n THEN Len(<<d>> \o s) ELSE n) \in Seq(DraftRow)
  OBVIOUS
<1> QED BY <1>1, <1>2

LEMMA RegisterStarts == RegisterInit => RegisterInv
<1> SUFFICES ASSUME RegisterInit PROVE RegisterInv
  OBVIOUS
<1>1. NothingAsked \in Wishes /\ Closed \in FormRow
  BY ClosedIsForm DEF NothingAsked, Wishes
<1>2. RegisterTypes /\ TotalsRight
  BY <1>1, NoItemsIsEmpty DEF RegisterInit, RegisterTypes, TotalsRight
<1>3. FormRight /\ OrdersAddUp
  BY DEF RegisterInit, FormRight, OrdersAddUp, Closed
<1> QED BY <1>2, <1>3 DEF RegisterInv

(* A handler that ends in updateCartSummary while no form is open.         *)
LEMMA SummarizeKeeps ==
  ASSUME RegisterInv, cart' \in [Goods -> Nat], asked' \in Wishes, drafts' \in Seq(DraftRow),
         picks' \subseteq Goods, lookups' \subseteq Nat, form = Closed, UNCHANGED <<form, orders>>, Summarize
  PROVE  RegisterInv'
BY DEF RegisterInv, RegisterTypes, TotalsRight, FormRight, OrdersAddUp, Summarize, Closed

(* What was awaited arrives under whatever form is open by then.           *)
LEMMA LateKeeps ==
  ASSUME RegisterInv, cart' \in [Goods -> Nat], asked' \in Wishes, picks' \subseteq Goods, lookups' \subseteq Nat,
         UNCHANGED <<drafts, orders>>, Summarize,
         form' = [form EXCEPT !.late = form.kind = "single"]
  PROVE  RegisterInv'
<1>0. form \in FormRow /\ (form.kind = "none" => form = Closed)
  BY DEF RegisterInv, RegisterTypes
<1>1. form' \in FormRow /\ form'.kind = form.kind /\ form'.amount = form.amount
      /\ form'.late = (form.kind = "single")
  BY <1>0 DEF FormRow
<1>2. form'.kind = "none" => form' = Closed
  <2>1. \A r \in FormRow : r = [kind |-> r.kind, amount |-> r.amount, late |-> r.late]
    BY DEF FormRow
  <2>2. form' = [kind |-> form'.kind, amount |-> form'.amount, late |-> form'.late]
    BY <1>1, <2>1
  <2>3. form.kind = "none" => form'.late = FALSE
    <3>1. form.kind = "none" => form.kind # "single"
      OBVIOUS
    <3> QED BY <1>1, <3>1, Zenon
  <2>4. form.kind = "none" => form'.amount = 0
    BY <1>0, <1>1 DEF Closed
  <2> QED BY <1>1, <2>2, <2>3, <2>4 DEF Closed
<1>3. FormRight'
  <2>1. form'.kind = "single" => form'.late = TRUE
    BY <1>1, Zenon
  <2> QED BY <2>1 DEF FormRight
<1> QED BY <1>1, <1>2, <1>3 DEF RegisterInv, RegisterTypes, TotalsRight, Summarize, OrdersAddUp

LEMMA RegisterGoesOn == RegisterInv /\ [RegisterNext]_register => RegisterInv'
<1> SUFFICES ASSUME RegisterInv, [RegisterNext]_register PROVE RegisterInv'
  OBVIOUS
<1>0. /\ cart \in [Goods -> Nat] /\ asked \in Wishes /\ drafts \in Seq(DraftRow) /\ form \in FormRow
      /\ picks \subseteq Goods /\ lookups \subseteq Nat /\ orders = [c \in Clients |-> orders[c]]
      /\ (form.kind = "none" => form = Closed) /\ Discounts \subseteq Nat
      /\ orderTotals = Summary(cart, asked) /\ FormRight /\ OrdersAddUp
  BY RegisterAssumption DEF RegisterInv, RegisterTypes, TotalsRight
<1>1. CASE EditCart
  <2>1. cart' \in [Goods -> Nat]
    <3>1. ASSUME NEW g \in Goods, NEW n \in 0..MaxUnits, cart' = [cart EXCEPT ![g] = n]
          PROVE  cart' \in [Goods -> Nat]
      BY <1>0, <3>1, RegisterAssumption
    <3>2. \/ cart' = NoItems
          \/ \E g \in Goods, n \in 0..MaxUnits : cart' = [cart EXCEPT ![g] = n]
      BY <1>1 DEF EditCart
    <3> QED BY <3>1, <3>2, NoItemsIsEmpty
  <2> QED BY <1>0, <1>1, <2>1, SummarizeKeeps DEF EditCart
<1>2. CASE EditWish
  <2>1. asked' \in Wishes
    BY <1>0, <1>2 DEF EditWish, Wishes, NothingAsked
  <2> QED BY <1>0, <1>2, <2>1, SummarizeKeeps DEF EditWish
<1>3. CASE ApplyCoupon
  <2>1. lookups' \subseteq Nat
    BY <1>0, <1>3 DEF ApplyCoupon
  <2>2. UNCHANGED <<cart, asked, orderTotals, drafts, form, picks, orders>>
    BY <1>3 DEF ApplyCoupon
  <2> QED BY <2>1, <2>2 DEF RegisterInv, RegisterTypes, TotalsRight, FormRight, Filled, OrdersAddUp
<1>4. CASE CouponFound
  <2>1. PICK v \in lookups :
          /\ lookups' = lookups \ {v} /\ asked' = [asked EXCEPT !.promotion = v]
          /\ form' = [form EXCEPT !.late = form.kind = "single"]
          /\ UNCHANGED <<cart, drafts, picks, orders>> /\ Summarize
    BY <1>4 DEF CouponFound
  <2>2. asked' \in Wishes /\ lookups' \subseteq Nat
    BY <1>0, <2>1 DEF Wishes
  <2> QED BY <1>0, <2>1, <2>2, LateKeeps
<1>5. CASE CouponFails
  <2>1. lookups' \subseteq Nat
    BY <1>0, <1>5 DEF CouponFails
  <2>2. UNCHANGED <<cart, asked, orderTotals, drafts, form, picks, orders>>
    BY <1>5 DEF CouponFails
  <2> QED BY <2>1, <2>2 DEF RegisterInv, RegisterTypes, TotalsRight, FormRight, Filled, OrdersAddUp
<1>6. CASE SaveDraft
  <2>1. PICK d : d = [cart |-> cart, asked |-> asked]
    OBVIOUS
  <2>2. d \in DraftRow
    BY <1>0, <2>1 DEF DraftRow
  <2>3. drafts' \in Seq(DraftRow)
    BY <1>0, <1>6, <2>1, <2>2, DraftsStay, RegisterAssumption DEF SaveDraft
  <2>4. NothingAsked \in Wishes
    BY DEF NothingAsked, Wishes
  <2> QED BY <1>0, <1>6, <2>3, <2>4, NoItemsIsEmpty, SummarizeKeeps DEF SaveDraft
<1>7. CASE RestoreDraft
  <2>1. PICK n \in DOMAIN drafts : /\ drafts' = RemoveAt(drafts, n)
                                   /\ cart' = drafts[n].cart /\ asked' = drafts[n].asked
    BY <1>7 DEF RestoreDraft
  <2>2. drafts' \in Seq(DraftRow) /\ drafts[n] \in DraftRow
    BY <1>0, <2>1, DraftsStay
  <2>3. cart' \in [Goods -> Nat] /\ asked' \in Wishes
    BY <2>1, <2>2 DEF DraftRow
  <2> QED BY <1>0, <1>7, <2>2, <2>3, SummarizeKeeps DEF RestoreDraft
<1>8. CASE DeleteDraft
  <2>1. drafts' \in Seq(DraftRow)
    <3>1. drafts' = <<>> \/ \E n \in DOMAIN drafts : drafts' = RemoveAt(drafts, n)
      BY <1>8 DEF DeleteDraft
    <3>2. \A n \in DOMAIN drafts : RemoveAt(drafts, n) \in Seq(DraftRow)
      BY <1>0, DraftsStay
    <3>3. <<>> \in Seq(DraftRow)
      OBVIOUS
    <3> QED BY <3>1, <3>2, <3>3, Zenon
  <2>2. UNCHANGED <<cart, asked, orderTotals, form, picks, lookups, orders>>
    BY <1>8 DEF DeleteDraft
  <2> QED BY <2>1, <2>2 DEF RegisterInv, RegisterTypes, TotalsRight, FormRight, Filled, OrdersAddUp
<1>9. CASE OpenForm
  <2>1. UNCHANGED <<cart, asked, orderTotals, drafts, picks, lookups, orders>>
    BY <1>9 DEF OpenForm
  <2>2. Due(orderTotals) \in Nat
    BY <1>0, SummaryRight
  <2>3. /\ form' \in FormRow /\ form'.kind # "none"
        /\ form'.kind = "single" => form'.amount = Due(orderTotals)
    <3>1. CASE form' = [kind |-> "single", amount |-> Due(orderTotals), late |-> FALSE]
      BY <2>2, <3>1 DEF FormRow
    <3>2. ASSUME NEW plan \in {"split", "plan"}, form' = [kind |-> plan, amount |-> 0, late |-> FALSE]
          PROVE  form' \in FormRow /\ form'.kind \notin {"none", "single"}
      BY <3>2 DEF FormRow
    <3> QED BY <1>9, <3>1, <3>2 DEF OpenForm
  <2>4. FormRight'
    BY <2>1, <2>3 DEF FormRight, Due
  <2> QED BY <2>1, <2>3, <2>4 DEF RegisterInv, RegisterTypes, TotalsRight, OrdersAddUp
<1>10. CASE CloseForm
  <2>1. form' = Closed /\ UNCHANGED <<cart, asked, orderTotals, drafts, picks, lookups, orders>>
    BY <1>10 DEF CloseForm
  <2>2. Closed \in FormRow /\ Closed.kind = "none"
    BY ClosedIsForm
  <2>3. FormRight'
    BY <2>1, <2>2 DEF FormRight
  <2> QED BY <2>1, <2>2, <2>3 DEF RegisterInv, RegisterTypes, TotalsRight, OrdersAddUp
<1>11. ASSUME NEW c \in Clients, SubmitOrder(c) PROVE RegisterInv'
  <2>1. PICK n : /\ Tendered(n)
                 /\ orders' = [orders EXCEPT ![c] =
                      [items |-> cart, discount |-> orderTotals.discount,
                       by |-> form.kind, paid |-> n, late |-> form.late]]
    BY <1>11 DEF SubmitOrder
  <2>2. /\ Filled /\ (form = Closed => Eligible)
        /\ UNCHANGED <<cart, asked, orderTotals, drafts, form, picks, lookups>>
    BY <1>11 DEF SubmitOrder
  <2>3. PICK o : o = [items |-> cart, discount |-> orderTotals.discount,
                      by |-> form.kind, paid |-> n, late |-> form.late]
    OBVIOUS
  <2>4. /\ orders'[c] = o /\ \A d \in Clients : d # c => orders'[d] = orders[d]
        /\ orders' = [d \in Clients |-> orders'[d]]
    BY <1>0, <2>1, <2>3
  <2>5. /\ UnitsIn(cart) \in Nat /\ orderTotals.discount \in 0..UnitsIn(cart)
        /\ Due(orderTotals) = UnitsIn(cart) - orderTotals.discount
    BY <1>0, SummaryRight
  <2>6. /\ o.items = cart /\ o.discount = orderTotals.discount /\ o.by = form.kind
        /\ o.late = form.late /\ o.paid = n
    BY <2>3
  <2>7. /\ form.kind = "none" => Due(orderTotals) <= CreditLimit
        /\ form.kind = "split" => n = Due(orderTotals)
        /\ form.kind = "plan" => n \in 1..Due(orderTotals)
        /\ form.kind = "single" /\ ~form.late => n \in {None, Due(orderTotals)}
    BY <1>0, <2>1, <2>2 DEF Tendered, Eligible, FormRight
  <2>8. OrdersAddUp'
    <3>1. ASSUME NEW d \in Clients, orders'[d] # None, d # c
          PROVE  orders[d] # None /\ orders[d] = orders'[d]
      BY <2>4, <3>1
    <3>2. /\ o.discount \in 0..UnitsIn(o.items)
          /\ o.by = "none" => UnitsIn(o.items) - o.discount <= CreditLimit
          /\ o.by = "split" => o.paid = UnitsIn(o.items) - o.discount
          /\ o.by = "plan" => o.paid \in 1..(UnitsIn(o.items) - o.discount)
          /\ o.by = "single" /\ ~o.late => o.paid \in {None, UnitsIn(o.items) - o.discount}
      BY <2>5, <2>6, <2>7
    <3> QED BY <1>0, <2>4, <3>1, <3>2 DEF OrdersAddUp
  <2> QED BY <2>2, <2>4, <2>8 DEF RegisterInv, RegisterTypes, TotalsRight, FormRight, Filled, Due
<1>12. ASSUME NEW c \in Clients, OrderTaken(c) PROVE RegisterInv'
  <2>1. /\ orders' = [orders EXCEPT ![c] = None] /\ cart' = NoItems /\ CloseOf(c)
        /\ UNCHANGED <<asked, drafts, picks, lookups>> /\ Summarize
    BY <1>12 DEF OrderTaken
  <2>2. form' = Closed \/ form' = form
    BY <2>1 DEF CloseOf
  <2>3. form' \in FormRow /\ (form'.kind = "none" => form' = Closed)
    BY <1>0, <2>2, ClosedIsForm, Zenon
  <2>4. OrdersAddUp' /\ orders' = [d \in Clients |-> orders'[d]]
    BY <1>0, <2>1 DEF OrdersAddUp
  <2>5. FormRight'
    BY <2>1, NoItemsIsEmpty DEF FormRight, Filled
  <2> QED BY <1>0, <2>1, <2>3, <2>4, <2>5, NoItemsIsEmpty DEF RegisterInv, RegisterTypes, TotalsRight, Summarize
<1>13. ASSUME NEW c \in Clients, OrderRefused(c) PROVE RegisterInv'
  <2>1. /\ orders' = [orders EXCEPT ![c] = None] /\ CloseOf(c)
        /\ UNCHANGED <<cart, asked, orderTotals, drafts, picks, lookups>>
    BY <1>13 DEF OrderRefused
  <2>2. form' = Closed \/ form' = form
    BY <2>1 DEF CloseOf
  <2>3. form' \in FormRow /\ (form'.kind = "none" => form' = Closed)
    BY <1>0, <2>2, ClosedIsForm, Zenon
  <2>4. OrdersAddUp' /\ orders' = [d \in Clients |-> orders'[d]]
    BY <1>0, <2>1 DEF OrdersAddUp
  <2>5. FormRight'
    BY <1>0, <2>1, <2>2 DEF FormRight, Filled, Closed, Due
  <2> QED BY <1>0, <2>1, <2>3, <2>4, <2>5 DEF RegisterInv, RegisterTypes, TotalsRight
<1>14. CASE UNCHANGED register
  BY <1>14 DEF register, RegisterInv, RegisterTypes, TotalsRight, FormRight, Filled, Due, OrdersAddUp
<1>15. CASE AskVariants
  <2>1. picks' \subseteq Goods
    BY <1>0, <1>15 DEF AskVariants
  <2>2. UNCHANGED <<cart, asked, orderTotals, drafts, form, lookups, orders>>
    BY <1>15 DEF AskVariants
  <2> QED BY <2>1, <2>2 DEF RegisterInv, RegisterTypes, TotalsRight, FormRight, Filled, OrdersAddUp
<1>16. CASE ItemAdded
  <2>1. PICK g \in picks :
          /\ picks' = picks \ {g} /\ cart' = [cart EXCEPT ![g] = @ + 1]
          /\ form' = [form EXCEPT !.late = form.kind = "single"]
          /\ UNCHANGED <<asked, drafts, lookups, orders>> /\ Summarize
    BY <1>16 DEF ItemAdded
  <2>2. cart' \in [Goods -> Nat] /\ picks' \subseteq Goods
    BY <1>0, <2>1
  <2> QED BY <1>0, <2>1, <2>2, LateKeeps
<1>17. CASE NothingAdded
  <2>1. picks' \subseteq Goods
    BY <1>0, <1>17 DEF NothingAdded
  <2>2. UNCHANGED <<cart, asked, orderTotals, drafts, form, lookups, orders>>
    BY <1>17 DEF NothingAdded
  <2> QED BY <2>1, <2>2 DEF RegisterInv, RegisterTypes, TotalsRight, FormRight, Filled, OrdersAddUp
<1> QED BY <1>1, <1>2, <1>3, <1>4, <1>5, <1>6, <1>7, <1>8, <1>9, <1>10, <1>11, <1>12, <1>13, <1>14,
           <1>15, <1>16, <1>17 DEF RegisterNext

(* state.orderTotals, the payment forms and submitOrder: for any cart,     *)
(* discounts, coupons, drafts and waiting orders, an order never takes off *)
(* more than its own lines come to; split payments are what they come to   *)
(* and a deposit or an instalment no more; a single payment that is sent   *)
(* is what they come to, unless a coupon or an item arrived while its form *)
(* was open; and a credit order is within the limit.                       *)
THEOREM OrdersArePaid == Spec => []OrdersAddUp
<1>1. Init => RegisterInv
  BY RegisterStarts DEF Init
<1>2. RegisterInv /\ [Next]_vars => RegisterInv'
  <2>1. [Next]_vars => [RegisterNext]_register
    BY DEF Next, vars
  <2> QED BY <2>1, RegisterGoesOn
<1>3. RegisterInv => OrdersAddUp
  BY DEF RegisterInv
<1> QED BY <1>1, <1>2, <1>3, PTL DEF Spec

------------------------------------------------------------------------------
(* AGREEMENTS: for any number of agreements, editors and days a day of a   *)
(* month that ended keeps its rate.                                        *)

DealRow == [from : Dates \cup {None}, to : EndDates \cup {None}, rate : Rates \cup {None}]

AgreementTypes ==
  /\ deals \in [Deals -> DealRow]
  /\ today \in Nat
  /\ draft = [c \in Editors |-> draft[c]]
  /\ \A c \in Editors : draft[c] # NoDraft =>
       draft[c].deal \in Deals /\ draft[c].row \in DealRow /\ draft[c].row.from # None
  /\ charged = [a \in Deals |-> [d \in Dates |-> charged[a][d]]]

(* Only days of months that ended were charged.                            *)
ChargedIsPast ==
  \A a \in Deals, d \in Dates : charged[a][d] # None => d < StartOfMonth(today)

(* One request at most is served, and what it checked still holds.         *)
DraftFits ==
  /\ \A c, e \in Busy : c = e
  /\ \A c \in Busy : EffectiveWindow(draft[c].row, deals[draft[c].deal])

(* An agreement has the rate it charged a day at, or begins after it.      *)
RateHolds(row, d, rate) == row.from = None \/ d < row.from \/ row.rate = rate
RatesHold ==
  \A a \in Deals, d \in Dates : charged[a][d] # None => RateHolds(deals[a], d, charged[a][d])

AgreementsInv == AgreementTypes /\ ChargedIsPast /\ (unmixed => DraftFits /\ RatesHold)

(* The remainder of the next number is 0 or the next remainder.            *)
LEMMA NextRemainder ==
  ASSUME NEW m \in Nat \ {0}, NEW x \in Nat
  PROVE  x % m \in 0..(m - 1) /\ ((x + 1) % m = 0 \/ (x + 1) % m = (x % m) + 1)
<1>1. PICK q \in Int, r \in 0..(m - 1) : x = m * q + r /\ r = x % m
  OBVIOUS
<1>2. PICK p \in Int, s \in 0..(m - 1) : x + 1 = m * p + s /\ s = (x + 1) % m
  OBVIOUS
<1>3. m * (p - q) = r + 1 - s
  BY <1>1, <1>2
<1>4. p - q = 0 \/ p - q = 1
  <2>1. ASSUME p - q >= 2 PROVE FALSE
    <3>1. m * (p - q) >= m * 2
      BY <2>1
    <3> QED BY <1>3, <3>1
  <2>2. ASSUME p - q <= -1 PROVE FALSE
    <3>1. m * (p - q) <= m * (-1)
      BY <2>2
    <3> QED BY <1>3, <3>1
  <2> QED BY <2>1, <2>2
<1>5. CASE p - q = 0
  <2>1. m * (p - q) = 0
    BY <1>5
  <2>2. r + 1 - s = 0
    BY <1>3, <2>1
  <2>3. s = r + 1
    BY <1>1, <1>2, <2>2
  <2> QED BY <1>1, <1>2, <2>3
<1>6. CASE p - q = 1
  <2>1. m * (p - q) = m
    BY <1>6
  <2>2. s = r + 1 - m
    BY <1>1, <1>2, <1>3, <2>1
  <2>3. s = 0
    BY <1>1, <1>2, <2>2
  <2> QED BY <1>1, <1>2, <2>3
<1> QED BY <1>1, <1>4, <1>5, <1>6

(* At midnight a month goes on or begins.                                  *)
LEMMA NextDay ==
  ASSUME NEW x \in Nat
  PROVE  /\ StartOfMonth(x) \in Nat /\ StartOfMonth(x) <= x
         /\ StartOfMonth(x) <= StartOfMonth(x + 1)
         /\ IsMonthStart(x + 1) => StartOfMonth(x + 1) = x + 1
<1>1. MonthLength \in Nat \ {0}
  BY AgreementsAssumption
<1>2. x % MonthLength \in 0..(MonthLength - 1) /\ (x % MonthLength) <= x
  BY <1>1
<1>3. (x + 1) % MonthLength = 0 \/ (x + 1) % MonthLength = (x % MonthLength) + 1
  BY <1>1, NextRemainder
<1> QED BY <1>1, <1>2, <1>3 DEF StartOfMonth, IsMonthStart

LEMMA AgreementsStart == AgreementsInit => AgreementsInv
BY AgreementsAssumption DEF AgreementsInit, AgreementsInv, AgreementTypes, DealRow, NoDeal, ChargedIsPast, DraftFits,
   Busy, RatesHold, Dates

LEMMA AskKeeps ==
  ASSUME AgreementsInv, NEW c \in Editors, AskDeal(c),
         unmixed' = (unmixed /\ \A b, e \in Busy' : b = e /\ today' = today)
  PROVE  AgreementsInv'
<1>1. PICK a \in Deals, input \in Inputs :
        /\ Merged(input, deals[a]).from # None
        /\ EffectiveWindow(Merged(input, deals[a]), deals[a])
        /\ draft' = [draft EXCEPT ![c] = [deal |-> a, row |-> Merged(input, deals[a])]]
  BY DEF AskDeal
<1>2. PICK row : row = Merged(input, deals[a])
  OBVIOUS
<1>3. UNCHANGED <<deals, today, charged>>
  BY DEF AskDeal
<1>4. row \in DealRow
  <2>1. deals[a] \in DealRow
    BY DEF AgreementsInv, AgreementTypes
  <2>2. DOMAIN deals[a] = {"from", "to", "rate"}
    BY <2>1 DEF DealRow
  <2>3. row = [f \in {"from", "to", "rate"} |-> IF input[f] = None THEN deals[a][f] ELSE input[f]]
    BY <1>2, <2>2 DEF Merged
  <2>4. row.from \in Dates \cup {None} /\ row.to \in EndDates \cup {None} /\ row.rate \in Rates \cup {None}
    BY <2>1, <2>3 DEF DealRow, Inputs
  <2> QED BY <2>3, <2>4 DEF DealRow
<1>5. /\ draft'[c] = [deal |-> a, row |-> row] /\ draft' = [e \in Editors |-> draft'[e]]
      /\ \A e \in Editors : e # c => draft'[e] = draft[e]
  BY <1>1, <1>2 DEF AgreementsInv, AgreementTypes
<1>6. AgreementTypes' /\ ChargedIsPast'
  <2>1. row.from # None
    BY <1>1, <1>2
  <2>2. AgreementTypes'
    BY <1>3, <1>4, <1>5, <2>1 DEF AgreementsInv, AgreementTypes
  <2> QED BY <1>3, <2>2 DEF AgreementsInv, ChargedIsPast, StartOfMonth
<1>7. ASSUME unmixed' PROVE DraftFits' /\ RatesHold'
  <2>1. unmixed /\ \A b, e \in Busy' : b = e
    BY <1>7
  <2>2. RatesHold'
    BY <1>3, <2>1 DEF AgreementsInv, RatesHold
  <2>3. row.from # None /\ NoDeal.from = None
    BY <1>1, <1>2 DEF NoDeal
  <2>4. draft'[c] # NoDraft
    BY <1>5, <2>3 DEF NoDraft
  <2>5. \A e \in Busy' : e = c
    BY <2>1, <2>4 DEF Busy
  <2>6. \A e \in Busy' : draft'[e].row = row /\ draft'[e].deal = a
    BY <1>5, <2>5
  <2>7. EffectiveWindow(row, deals[a]) /\ deals' = deals /\ today' = today
    BY <1>1, <1>2, <1>3
  <2>8. \A e \in Editors : (e \in Busy)' => EffectiveWindow(draft[e].row, deals[draft[e].deal])'
    <3> SUFFICES ASSUME NEW e \in Editors, (e \in Busy)'
                 PROVE  EffectiveWindow(draft[e].row, deals[draft[e].deal])'
      OBVIOUS
    <3>1. draft'[e].row = row /\ draft'[e].deal = a
      BY <2>6
    <3> QED BY <2>7, <3>1 DEF EffectiveWindow, StartOfMonth
  <2> QED BY <2>1, <2>2, <2>8 DEF DraftFits, Busy
<1> QED BY <1>6, <1>7 DEF AgreementsInv

LEMMA WriteDealKeeps ==
  ASSUME AgreementsInv, NEW c \in Editors, WriteDeal(c),
         unmixed' = (unmixed /\ \A b, e \in Busy' : b = e /\ today' = today)
  PROVE  AgreementsInv'
<1>1. PICK a, row : a = draft[c].deal /\ row = draft[c].row
  OBVIOUS
<1>2. /\ deals' = [deals EXCEPT ![a] = row]
      /\ draft' = [draft EXCEPT ![c] = NoDraft]
      /\ today' = today /\ charged' = charged /\ c \in Busy
  BY <1>1 DEF WriteDeal, Busy
<1>3. a \in Deals /\ row \in DealRow /\ row.from # None
  BY <1>1, <1>2 DEF AgreementsInv, AgreementTypes, Busy
<1>4. /\ deals' \in [Deals -> DealRow] /\ deals'[a] = row
      /\ \A b \in Deals : b # a => deals'[b] = deals[b]
  BY <1>2, <1>3 DEF AgreementsInv, AgreementTypes
<1>5. /\ draft' = [e \in Editors |-> draft'[e]] /\ draft'[c] = NoDraft
      /\ \A e \in Editors : e # c => draft'[e] = draft[e]
  BY <1>2 DEF AgreementsInv, AgreementTypes
<1>6. AgreementTypes' /\ ChargedIsPast'
  <2>1. AgreementTypes'
    BY <1>2, <1>4, <1>5 DEF AgreementsInv, AgreementTypes
  <2> QED BY <1>2, <2>1 DEF AgreementsInv, ChargedIsPast, StartOfMonth
<1>7. ASSUME unmixed' PROVE DraftFits' /\ RatesHold'
  <2>1. DraftFits /\ RatesHold
    BY <1>7 DEF AgreementsInv
  <2>2. Busy' = {}
    BY <1>2, <1>5, <2>1 DEF Busy, DraftFits
  <2>3. EffectiveWindow(row, deals[a])
    BY <1>1, <1>2, <2>1 DEF DraftFits
  <2>4. ASSUME NEW d \in Dates, charged[a][d] # None PROVE RateHolds(row, d, charged[a][d])
    <3>1. d \in Nat /\ StartOfMonth(today) \in Nat /\ d < StartOfMonth(today)
      BY <1>3, <2>4, NextDay DEF AgreementsInv, AgreementTypes, ChargedIsPast, Dates
    <3>2. RateHolds(deals[a], d, charged[a][d])
      BY <1>3, <2>1, <2>4 DEF RatesHold
    <3>3. CASE row.from # deals[a].from \/ (deals[a] # NoDeal /\ row.rate # deals[a].rate)
      <4>1. row.from >= StartOfMonth(today)
        BY <2>3, <3>3 DEF EffectiveWindow
      <4>2. row.from \in Nat
        BY <1>3 DEF DealRow, Dates
      <4> QED BY <3>1, <4>1, <4>2 DEF RateHolds
    <3>4. CASE row.from = deals[a].from /\ row.rate = deals[a].rate
      BY <3>2, <3>4 DEF RateHolds
    <3>5. CASE row.from = deals[a].from /\ deals[a] = NoDeal
      BY <1>3, <3>5 DEF NoDeal
    <3> QED BY <3>3, <3>4, <3>5
  <2>5. RatesHold'
    <3> SUFFICES ASSUME NEW b \in Deals, NEW d \in Dates, charged[b][d] # None
                 PROVE  RateHolds(deals'[b], d, charged[b][d])
      BY <1>2 DEF RatesHold, RateHolds
    <3> QED BY <1>4, <2>1, <2>4 DEF RatesHold
  <2>6. (\A b, e \in Busy : b = e)' /\ (\A e \in Busy : EffectiveWindow(draft[e].row, deals[draft[e].deal]))'
    BY <2>2
  <2> QED BY <2>5, <2>6 DEF DraftFits
<1> QED BY <1>6, <1>7 DEF AgreementsInv

(* When a month ends its days are charged at the rate of the row.          *)
LEMMA MidnightKeeps ==
  ASSUME AgreementsInv, Midnight,
         unmixed' = (unmixed /\ \A b, e \in Busy' : b = e /\ today' = today)
  PROVE  AgreementsInv'
<1>1. /\ today' = today + 1 /\ today \in Nat /\ deals' = deals /\ draft' = draft
      /\ charged' = [a \in Deals |-> [d \in Dates |-> charged'[a][d]]]
      /\ \A a \in Deals, d \in Dates :
            charged'[a][d] = IF IsMonthStart(today') /\ d \in StartOfMonth(today)..today
                             THEN RateOn(deals[a], d) ELSE charged[a][d]
  BY DEF Midnight, AgreementsInv, AgreementTypes
<1>2. /\ StartOfMonth(today) \in Nat /\ StartOfMonth(today) <= today
      /\ StartOfMonth(today') \in Nat /\ StartOfMonth(today) <= StartOfMonth(today')
      /\ IsMonthStart(today') => StartOfMonth(today') = today'
  BY <1>1, NextDay
<1>3. AgreementTypes'
  BY <1>1 DEF AgreementsInv, AgreementTypes
<1>4. ChargedIsPast'
  <2> SUFFICES ASSUME NEW a \in Deals, NEW d \in Dates, charged'[a][d] # None
               PROVE  d < StartOfMonth(today')
    BY DEF ChargedIsPast, StartOfMonth
  <2>1. d \in Nat
    BY AgreementsAssumption DEF Dates
  <2>2. CASE IsMonthStart(today') /\ d \in StartOfMonth(today)..today
    BY <1>1, <1>2, <2>1, <2>2
  <2>3. CASE ~(IsMonthStart(today') /\ d \in StartOfMonth(today)..today)
    <3>1. charged[a][d] # None
      BY <1>1, <2>3
    <3>2. d < StartOfMonth(today)
      BY <3>1 DEF AgreementsInv, ChargedIsPast
    <3> QED BY <1>2, <2>1, <3>2
  <2> QED BY <2>2, <2>3
<1>5. ASSUME unmixed' PROVE DraftFits' /\ RatesHold'
  <2>1. unmixed /\ Busy' = {}
    <3>1. today' # today
      BY <1>1
    <3> QED BY <1>5, <3>1, Zenon
  <2>2. RatesHold
    BY <2>1 DEF AgreementsInv
  <2>3. RatesHold'
    <3> SUFFICES ASSUME NEW a \in Deals, NEW d \in Dates, charged'[a][d] # None
                 PROVE  RateHolds(deals[a], d, charged'[a][d])
      BY <1>1 DEF RatesHold, RateHolds
    <3>1. CASE IsMonthStart(today') /\ d \in StartOfMonth(today)..today
      <4>1. charged'[a][d] = RateOn(deals[a], d)
        BY <1>1, <3>1
      <4> QED BY <4>1 DEF RateOn, RateHolds
    <3>2. CASE ~(IsMonthStart(today') /\ d \in StartOfMonth(today)..today)
      <4>1. charged'[a][d] = charged[a][d]
        BY <1>1, <3>2
      <4> QED BY <2>2, <4>1 DEF RatesHold
    <3> QED BY <3>1, <3>2
  <2>4. (\A b, e \in Busy : b = e)' /\ (\A e \in Busy : EffectiveWindow(draft[e].row, deals[draft[e].deal]))'
    BY <2>1
  <2> QED BY <2>3, <2>4 DEF DraftFits
<1> QED BY <1>3, <1>4, <1>5 DEF AgreementsInv

LEMMA AgreementsStutter == AgreementsInv /\ UNCHANGED agreements => AgreementsInv'
BY DEF agreements, AgreementsInv, AgreementTypes, ChargedIsPast, DraftFits, Busy, EffectiveWindow,
   StartOfMonth, RatesHold, RateHolds

LEMMA AgreementsStep == AgreementsInv /\ AgreementsNext => AgreementsInv'
<1> SUFFICES ASSUME AgreementsInv, AgreementsNext PROVE AgreementsInv'
  OBVIOUS
<1>1. unmixed' = (unmixed /\ \A b, e \in Busy' : b = e /\ today' = today)
  BY DEF AgreementsNext
<1>2. CASE \E c \in Editors : AskDeal(c)
  BY <1>1, <1>2, AskKeeps
<1>3. CASE \E c \in Editors : WriteDeal(c)
  BY <1>1, <1>3, WriteDealKeeps
<1>4. CASE Midnight
  BY <1>1, <1>4, MidnightKeeps
<1> QED BY <1>2, <1>3, <1>4 DEF AgreementsNext

LEMMA RatesFollow == AgreementsInv => PastRatesKept
<1> SUFFICES ASSUME AgreementsInv, unmixed, NEW a \in Deals, NEW d \in Dates, charged[a][d] # None
             PROVE  RateOn(deals[a], d) \in {None, charged[a][d]}
  BY DEF PastRatesKept
<1>1. RateHolds(deals[a], d, charged[a][d])
  BY DEF AgreementsInv, RatesHold
<1>2. d \in Nat
  BY AgreementsAssumption DEF Dates
<1>3. deals[a].from \in Nat \cup {None}
  BY AgreementsAssumption DEF AgreementsInv, AgreementTypes, DealRow, Dates
<1> QED BY <1>1, <1>2, <1>3 DEF RateHolds, RateOn, InForce

(* While requests are served one at a time and within a day, a day of a    *)
(* month that ended never gets another rate (assertEffectiveWindow).       *)
THEOREM PastRatesStay == Spec => []PastRatesKept
<1>1. Init => AgreementsInv
  BY AgreementsStart DEF Init
<1>2. AgreementsInv /\ [Next]_vars => AgreementsInv'
  BY AgreementsStep, AgreementsStutter DEF Next, vars
<1> QED  BY <1>1, <1>2, RatesFollow, PTL DEF Spec
===============================================================================
