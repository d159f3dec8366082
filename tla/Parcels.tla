-------------------------------- MODULE Parcels --------------------------------
(***************************************************************************)
(* Shipments of orders (logistics.service.ts) and the carriers' webhooks   *)
(* that report on them (logistics.webhook.service.ts).  The carrier is     *)
(* outside: it moves what it tracks by a number and reports each move; its *)
(* reports may be lost, repeated, overtake each other or come before the   *)
(* row is written.                                                         *)
(***************************************************************************)
EXTENDS Requests, Naturals

CONSTANTS Parcels,   \* ids of shipments (bound)
          Carriers,  \* gateways the factory finds by name
          Verified,  \* carriers whose gateway verifies webhooks: sendbox, shipbubble
          Numbers,   \* tracking numbers
          Furthest,  \* statuses are numbered in the order a carrier moves on; created is 0
          InTransit  \* the status of a report that names none

ASSUME ParcelAssumption ==
  /\ Verified \subseteq Carriers /\ Furthest \in Nat /\ InTransit \in Nat \ {0}
  /\ None \notin Parcels \cup Carriers \cup Numbers

VARIABLES parcels,  \* rows of shipments: carrier, tracking number, status
          moved,    \* how far each carrier has moved what it tracks by a number
          hook,     \* per client, the report it serves and the row it found
          heard,    \* history: the furthest report answered, per carrier and number
          timely    \* history: reports came in order, one at a time, after their row, and
                    \* named their status

freight == <<parcels, moved, hook, heard, timely>>

NoParcel == [carrier |-> None, number |-> None, status |-> 0]
NoHook == [parcel |-> None, status |-> 0]
Tracked == Carriers \X Numbers

ParcelsInit ==
  /\ parcels = [p \in Parcels |-> NoParcel]
  /\ moved = [t \in Tracked |-> 0]
  /\ hook = [c \in Clients |-> NoHook]
  /\ heard = [t \in Tracked |-> 0]
  /\ timely = TRUE

MutantOf(k, n) == {p \in Parcels : parcels[p].number = n}  \* any carrier's
Of(k, n) == {p \in Parcels : parcels[p].carrier = k /\ parcels[p].number = n}

(* createShipment: with the number in the body, whatever it is, or a new   *)
(* one from the gateway.                                                   *)
BookParcel ==
  /\ \E p \in Parcels, k \in Carriers, n \in Numbers :
       /\ parcels[p] = NoParcel
       /\ parcels' = [parcels EXCEPT ![p] = [carrier |-> k, number |-> n, status |-> 0]]
  /\ UNCHANGED <<moved, hook, heard, timely>>

(* Only the moves that can be reported matter.                             *)
CarrierMoves ==
  /\ \E t \in Verified \X Numbers : moved[t] < Furthest /\ moved' = [moved EXCEPT ![t] = @ + 1]
  /\ UNCHANGED <<parcels, hook, heard, timely>>

(* parseWebhook of the gateways                                            *)
Parsed(s) == {s, InTransit}

(* handleWebhook and the lookup of applyWebhook.  A carrier that cannot be *)
(* verified is refused; a report without a row is answered all the same.   *)
InOrder(k, n, s) ==
  /\ s = heard[<<k, n>>] + 1
  /\ \A c \in Clients : hook[c] # NoHook => hook[c].parcel \notin Of(k, n)

FindParcel(c) ==
  /\ hook[c] = NoHook
  /\ \E k \in Verified, n \in Numbers : \E s \in 1..moved[<<k, n>>] : \E told \in Parsed(s) :
       /\ timely' = (timely /\ InOrder(k, n, s) /\ told = s /\ Of(k, n) # {})
       /\ IF Of(k, n) = {} THEN hook' = hook
          ELSE \E p \in Of(k, n) : hook' = [hook EXCEPT ![c] = [parcel |-> p, status |-> told]]
  /\ UNCHANGED <<parcels, moved, heard>>

(* The update of applyWebhook, whatever status the row has.                *)
UpdateParcel(c) ==
  LET h == hook[c]
      t == <<parcels[h.parcel].carrier, parcels[h.parcel].number>>
  IN
  /\ h # NoHook
  /\ parcels' = [parcels EXCEPT ![h.parcel].status = h.status]
  /\ heard' = [heard EXCEPT ![t] = IF h.status > @ THEN h.status ELSE @]
  /\ hook' = [hook EXCEPT ![c] = NoHook]
  /\ UNCHANGED <<moved, timely>>

(* The server stops: the carrier may report again.                         *)
HookStops(c) ==
  /\ hook[c] # NoHook
  /\ hook' = [hook EXCEPT ![c] = NoHook]
  /\ UNCHANGED <<parcels, moved, heard, timely>>

ParcelsNext ==
  \/ BookParcel \/ CarrierMoves
  \/ \E c \in Clients : FindParcel(c) \/ UpdateParcel(c) \/ HookStops(c)

-----------------------------------------------------------------------------
(* A shipment has a status its own carrier reported for its own number, in *)
(* whatever order reports come, or is in transit because a report named no *)
(* status; and when reports named theirs and came in order, one at a time  *)
(* and after the row, the only row of a number has the furthest one        *)
(* answered (applyWebhook).                                                *)
StatusIsReported ==
  \A p \in Parcels : LET row == parcels[p] IN
    row # NoParcel =>
      /\ row.status <= moved[<<row.carrier, row.number>>] \/ row.status = InTransit
      /\ row.status > 0 => row.carrier \in Verified
      /\ timely /\ Of(row.carrier, row.number) = {p} => row.status = heard[<<row.carrier, row.number>>]
===============================================================================
