------------------------------ MODULE BackOffice ------------------------------
(* The back-office services, and the sale and the screens of a till.  They  *)
(* share no row, so a behaviour is about one of them: the others stay as   *)
(* they are.                                                               *)
EXTENDS Imports, Payables, Intercompany, Agreements, ServiceRequests, Parcels, Consumer,
        Catalog, Register, Session

CONSTANT Services  \* the services a behaviour may be about

VARIABLE service

vars == <<service, imports, payables, finance, agreements, requests, freight, events,
          catalog, register, session>>

Init ==
  /\ service \in Services
  /\ ImportsInit /\ PayablesInit /\ IntercompanyInit /\ AgreementsInit
  /\ RequestsInit /\ ParcelsInit /\ ConsumerInit /\ CatalogInit /\ RegisterInit
  /\ SessionInit

Next ==
  /\ UNCHANGED service
  /\ \/ service = "imports" /\ ImportsNext
     \/ service # "imports" /\ UNCHANGED imports
  /\ \/ service = "payables" /\ PayablesNext
     \/ service # "payables" /\ UNCHANGED payables
  /\ \/ service = "finance" /\ IntercompanyNext
     \/ service # "finance" /\ UNCHANGED finance
  /\ \/ service = "agreements" /\ AgreementsNext
     \/ service # "agreements" /\ UNCHANGED agreements
  /\ \/ service = "requests" /\ RequestsNext
     \/ service # "requests" /\ UNCHANGED requests
  /\ \/ service = "freight" /\ ParcelsNext
     \/ service # "freight" /\ UNCHANGED freight
  /\ \/ service = "events" /\ ConsumerNext
     \/ service # "events" /\ UNCHANGED events
  /\ \/ service = "catalog" /\ CatalogNext
     \/ service # "catalog" /\ UNCHANGED catalog
  /\ \/ service = "register" /\ RegisterNext
     \/ service # "register" /\ UNCHANGED register
  /\ \/ service = "session" /\ SessionNext
     \/ service # "session" /\ UNCHANGED session

Spec == Init /\ [][Next]_vars
===============================================================================
