------------------------------ MODULE Agreements ------------------------------
(***************************************************************************)
(* Intercompany agreements, intercompany-agreements.service.ts: a rate and *)
(* the dates it is in force, created and rewritten while time goes on.     *)
(* One rate stands for all that pricingChanged compares; the roles that    *)
(* companies need for an agreement only filter what is asked and are left  *)
(* out.                                                                    *)
(***************************************************************************)
EXTENDS Requests, Integers

CONSTANTS Editors,     \* concurrent requests that edit agreements
          Deals,       \* ids of agreements
          Rates,       \* rates asked for
          Safe,        \* those in the range of the agreement's type
          MonthLength, \* days of a month
          YearLength,  \* days of a year
          LastDay,     \* bound on the days
          EndDates     \* last days asked for

ASSUME AgreementsAssumption ==
  /\ Safe \subseteq Rates
  /\ MonthLength \in Nat \ {0} /\ YearLength \in Nat \ {0} /\ LastDay \in Nat
  /\ EndDates \subseteq 0..LastDay
  /\ None \notin Rates \cup Nat

VARIABLES deals,    \* agreements: effective from and to, rate
          today,
          draft,    \* per editor, the row its request is about to write
          charged,  \* history: the rate of a day when its month ended
          unmixed   \* history: no request was overtaken by another or by midnight

agreements == <<deals, today, draft, charged, unmixed>>

Dates == 0..LastDay
NoDeal == [from |-> None, to |-> None, rate |-> None]
NoDraft == [deal |-> None, row |-> NoDeal]

AgreementsInit ==
  /\ deals = [a \in Deals |-> NoDeal]
  /\ today = 0
  /\ draft = [c \in Editors |-> NoDraft]
  /\ charged = [a \in Deals |-> [d \in Dates |-> None]]
  /\ unmixed = TRUE

IsMonthStart(d) == (d % MonthLength) = 0
IsYearStart(d) == (d % YearLength) = 0
StartOfMonth(d) == d - (d % MonthLength)

(* assertEffectiveWindow                                                   *)
MutantWindow(new, old) ==  \* a change of the rate alone is not held to the month
  /\ (old.from # new.from) => (IsMonthStart(new.from) /\ new.from >= StartOfMonth(today))
  /\ new.to # None => new.to >= new.from
  /\ old # NoDeal /\ new.rate # old.rate => IsYearStart(new.from)
EffectiveWindow(new, old) ==
  LET repriced == old # NoDeal /\ new.rate # old.rate IN
  /\ old.from # new.from \/ repriced =>
       IsMonthStart(new.from) /\ new.from >= StartOfMonth(today)
  /\ new.to # None => new.to >= new.from
  /\ repriced => IsYearStart(new.from)

Merged(input, old) == [f \in DOMAIN old |-> IF input[f] = None THEN old[f] ELSE input[f]]
Inputs == [from : Dates \cup {None}, to : EndDates \cup {None}, rate : Rates \cup {None}]

(* createAgreement and updateAgreement up to their last statement: what is *)
(* not in the request is taken from the row that was read.                 *)
AskDeal(c) ==
  /\ draft[c] = NoDraft
  /\ \E a \in Deals, input \in Inputs :
       LET row == Merged(input, deals[a]) IN
       /\ row.from # None /\ row.rate \in Safe
       /\ EffectiveWindow(row, deals[a])
       /\ draft' = [draft EXCEPT ![c] = [deal |-> a, row |-> row]]
  /\ UNCHANGED <<deals, today, charged>>

WriteDeal(c) ==
  /\ draft[c] # NoDraft
  /\ deals' = [deals EXCEPT ![draft[c].deal] = draft[c].row]
  /\ draft' = [draft EXCEPT ![c] = NoDraft]
  /\ UNCHANGED <<today, charged>>

(* generateIntercompanyInvoices: agreements in force on the issue date.    *)
InForce(row, d) == /\ row.from # None /\ row.from <= d
                   /\ row.to = None \/ d <= row.to
RateOn(row, d) == IF InForce(row, d) THEN row.rate ELSE None

Midnight ==
  /\ today < LastDay
  /\ today' = today + 1
  /\ charged' = [a \in Deals |-> [d \in Dates |->
       IF IsMonthStart(today') /\ d \in StartOfMonth(today)..today
       THEN RateOn(deals[a], d) ELSE charged[a][d]]]
  /\ UNCHANGED <<deals, draft>>

Busy == {c \in Editors : draft[c] # NoDraft}

AgreementsNext ==
  /\ (\E c \in Editors : AskDeal(c) \/ WriteDeal(c)) \/ Midnight
  /\ unmixed' = (unmixed /\ \A c, e \in Busy' : c = e /\ today' = today)

(* While requests are served one at a time and within a day: a day of a    *)
(* month that ended at one rate never gets another, however often the      *)
(* agreement is moved, ended and repriced (assertEffectiveWindow,          *)
(* "Backdating agreements is not allowed").                                *)
PastRatesKept ==
  unmixed => \A a \in Deals, d \in Dates :
    charged[a][d] # None => RateOn(deals[a], d) \in {None, charged[a][d]}
===============================================================================
