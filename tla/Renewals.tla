------------------------------ MODULE Renewals ------------------------------
(***************************************************************************)
(* A customer renews the licences of his vehicles (CustomerRenewalsPage    *)
(* with DummyRazorpayModal, verifyRenewal) while an administrator sets the *)
(* price (AdminRenewalsPage, updateRenewalSettings), and the pages that say*)
(* which licences are over: the renewals, the dashboards, the tracking page*)
(* and the administrator's list.  The dialog stays mounted: what it knew of*)
(* the price survives until it is opened again.                            *)
(***************************************************************************)
EXTENDS Integers, Sequences, FiniteSets

CONSTANTS
    Vehicles,
    Prices,
    Default,           \* the amount of a dialog that has read none, or a price
    Day, Warn, Month, Year,  \* ticks of a day; days that are warned of; of a "month"; of a year
    Firsts,            \* the days on which licences end in the beginning
    LastTick,          \* bound: the clock
    Acts,              \* bound: what the customer, the administrator and others do
    None

(* What verifyRenewal answers, with the day it renewed on. *)
Results == [no : Nat, amount : Prices, day : Int]

(* Assumed where the constants get their values. *)
RenewalsAssumption ==
    /\ Default \in Prices /\ None \notin Vehicles \cup Results /\ Prices \subseteq Nat \ {0}
    /\ {Day, Warn, Month, Year} \subseteq Nat \ {0} /\ Warn < Month /\ Month + 1 < Year
    /\ Firsts \subseteq Int /\ {LastTick, Acts} \subseteq Nat

VARIABLES
    now,      \* the clock, in ticks
    ends,     \* vehicles.licence_expire_date, a day
    price,    \* renewal_settings: [amount, no], no counts its changes
    page,     \* the list of the customer's page, and its dialog: see RenewalsInit
    asks,     \* requests for the price: [running, answers], each by the opening that asked; an answer [price, no, of]
    pay,      \* the payment that runs: [vehicle, told, of, result], told: the amount on the button; a result [no, amount, day]
    ledger,   \* renewal_transactions: [vehicle, amount, own]
    history,  \* [told, lost, unread, late, settled], see the properties; settled: of [vehicle, day]
    acts

renewalVars == <<now, ends, price, page, asks, pay, ledger, history, acts>>

-----------------------------------------------------------------------------
(* What the pages say of a licence that ends with the beginning of day d.  *)
Today == now \div Day
Left(d) == -((now - d * Day) \div Day)   \* Math.ceil of the days that are left

getStatus(d) == IF Left(d) < 0 THEN "expired" ELSE IF Left(d) <= Month THEN "expiring" ELSE "active"
needsRenewal(d) == getStatus(d) \in {"expired", "expiring"}
getExpiryWarning(d) == IF Left(d) < 0 THEN "expired" ELSE IF Left(d) <= Warn THEN "expiring" ELSE "none"
expiringVehicles(d) == d * Day <= now + Month * Day
getExpiredBillingLicenses(d) == d <= Today

RenewalsTypeOK ==
    /\ now \in 0..LastTick
    /\ ends \in [Vehicles -> Int]
    /\ price.amount \in Prices /\ price.no \in 0..Acts
    /\ page.selected # None <=> page.open
    /\ page.paying <=> pay # <<>> \/ page.success
    /\ page.success => page.open
    /\ page.amount.of <= page.opening
    /\ Len(pay) <= 1
    /\ acts <= Acts

(* The page has been loaded. *)
Fresh(list) ==
    [list |-> list, open |-> FALSE, selected |-> None, loading |-> FALSE, paying |-> FALSE, success |-> FALSE,
     amount |-> [price |-> Default, no |-> 0, of |-> 0], opening |-> 0]
RenewalsInit ==
    /\ now = 0
    /\ ends \in [Vehicles -> Firsts]
    /\ \E p \in Prices : price = [amount |-> p, no |-> 0]
    /\ page = Fresh(ends)
    /\ asks = [running |-> {}, answers |-> {}]
    /\ pay = <<>> /\ ledger = <<>>
    /\ history = [told |-> 0, lost |-> 0, unread |-> FALSE, late |-> FALSE, settled |-> {}]
    /\ acts = 0

Act == acts < Acts /\ acts' = acts + 1

-----------------------------------------------------------------------------
(* handleRenewClick, and the effect of the dialog on isOpen. *)
handleRenewClick(v) ==
    /\ ~page.open /\ needsRenewal(page.list[v])
    /\ Act
    /\ page' = [page EXCEPT !.open = TRUE, !.selected = v, !.loading = TRUE, !.opening = @ + 1]
    /\ asks' = [asks EXCEPT !.running = @ \cup {page.opening + 1}]
    /\ history' = [history EXCEPT !.unread = FALSE, !.late = FALSE]
    /\ UNCHANGED <<now, ends, price, pay, ledger>>

(* getRenewalSettings; the answers come in any order, and any of them ends *)
(* the loading.                                                            *)
getRenewalSettings(of) ==
    /\ of \in asks.running
    /\ asks' = [running |-> asks.running \ {of},
                answers |-> asks.answers \cup {[price |-> price.amount, no |-> price.no, of |-> of]}]
    /\ UNCHANGED <<now, ends, price, page, pay, ledger, history, acts>>

SettingsArrive(a) ==
    /\ a \in asks.answers
    /\ asks' = [asks EXCEPT !.answers = @ \ {a}]
    /\ page' = [page EXCEPT !.amount = a, !.loading = FALSE]
    /\ history' = [history EXCEPT !.late = @ \/ a.of # page.opening]
    /\ UNCHANGED <<now, ends, price, pay, ledger, acts>>

SettingsFail(of) ==
    /\ of \in asks.running
    /\ asks' = [asks EXCEPT !.running = @ \ {of}]
    /\ page' = [page EXCEPT !.loading = FALSE]
    /\ history' = [history EXCEPT !.unread = TRUE]
    /\ UNCHANGED <<now, ends, price, pay, ledger, acts>>

(* The cross of the dialog, disabled while it pays. *)
onClose ==
    /\ page.open /\ ~page.paying
    /\ page' = [page EXCEPT !.open = FALSE, !.selected = None]
    /\ UNCHANGED <<now, ends, price, asks, pay, ledger, history, acts>>

(* Mutant: the button is not disabled while the price is being read. *)
PayUnread ==
    /\ page.open /\ ~page.paying
    /\ Act
    /\ page' = [page EXCEPT !.paying = TRUE]
    /\ pay' = <<[vehicle |-> page.selected, told |-> page.amount, of |-> page.opening, result |-> None]>>
    /\ UNCHANGED <<now, ends, price, asks, ledger, history>>

(* The button is disabled while the price is being read and while it pays. *)
handlePay ==
    /\ page.open /\ ~page.loading /\ ~page.paying
    /\ Act
    /\ page' = [page EXCEPT !.paying = TRUE]
    /\ pay' = <<[vehicle |-> page.selected, told |-> page.amount, of |-> page.opening, result |-> None]>>
    /\ UNCHANGED <<now, ends, price, asks, ledger, history>>

(* verifyRenewal: a year from the end, or from now if it is over, as a day;*)
(* the amount is the price of now, whatever the dialog showed.  Licences   *)
(* has the overlaps of its statements.                                     *)
Renewed(v) == IF ends[v] * Day > now THEN ends[v] + Year ELSE Today + Year
verifyRenewal(v, own) ==
    /\ ends' = [ends EXCEPT ![v] = Renewed(v)]
    /\ ledger' = Append(ledger, [vehicle |-> v, amount |-> price.amount, own |-> own])

PaymentVerified ==
    /\ pay # <<>> /\ pay[1].result = None
    /\ verifyRenewal(pay[1].vehicle, TRUE)
    /\ pay' = <<[pay[1] EXCEPT !.result = [no |-> price.no, amount |-> price.amount, day |-> Today]]>>
    /\ UNCHANGED <<now, price, page, asks, history, acts>>

PaymentAnswered ==
    /\ pay # <<>> /\ pay[1].result # None
    /\ pay' = <<>>
    /\ page' = [page EXCEPT !.success = TRUE]
    /\ history' = [history EXCEPT !.told = @ + 1, !.settled = @ \cup {[vehicle |-> pay[1].vehicle, day |-> pay[1].result.day]}]
    /\ UNCHANGED <<now, ends, price, asks, ledger, acts>>

(* An error before the payment was recorded, or its answer is lost. *)
PaymentFails ==
    /\ pay # <<>>
    /\ pay' = <<>>
    /\ page' = [page EXCEPT !.paying = FALSE]
    /\ history' = [history EXCEPT !.lost = IF pay[1].result = None THEN @ ELSE @ + 1]
    /\ UNCHANGED <<now, ends, price, asks, ledger, acts>>

(* onSuccess, two seconds later: the page is loaded anew. *)
Reload ==
    /\ page.success
    /\ page' = Fresh(ends)
    /\ asks' = [running |-> {}, answers |-> {}]
    /\ history' = [history EXCEPT !.unread = FALSE, !.late = FALSE]
    /\ UNCHANGED <<now, ends, price, pay, ledger, acts>>

-----------------------------------------------------------------------------
(* AdminRenewalsPage, updateRenewalSettings: what is in its field, of any  *)
(* age, is the price; an empty field is refused.                           *)
updateRenewalSettings(p) ==
    /\ Act
    /\ price' = [amount |-> p, no |-> price.no + 1]
    /\ UNCHANGED <<now, ends, page, asks, pay, ledger, history>>

(* Somebody else renews; time passes. *)
OtherRenews(v) ==
    /\ Act
    /\ verifyRenewal(v, FALSE)
    /\ UNCHANGED <<now, price, page, asks, pay, history>>

Tick ==
    /\ now < LastTick
    /\ now' = now + 1
    /\ UNCHANGED <<ends, price, page, asks, pay, ledger, history, acts>>

RenewalsNext ==
    \/ onClose \/ handlePay \/ PaymentVerified \/ PaymentAnswered \/ PaymentFails \/ Reload
    \/ Tick
    \/ \E v \in Vehicles : handleRenewClick(v) \/ OtherRenews(v)
    \/ \E of \in asks.running : getRenewalSettings(of) \/ SettingsFail(of)
    \/ \E a \in asks.answers : SettingsArrive(a)
    \/ \E p \in Prices : updateRenewalSettings(p)

RenewalsSpec == RenewalsInit /\ [][RenewalsNext]_renewalVars

-----------------------------------------------------------------------------
(* getStatus, getExpiryWarning, expiringVehicles and                       *)
(* getExpiredBillingLicenses: a licence that the administrator sees as over*)
(* is one that its customer is warned of and can pay for; what he is told  *)
(* is over the administrator sees, and what he is warned of he can pay for;*)
(* and the dashboard lists exactly what the renewals page offers.          *)
PagesAgreeOnLicences ==
    \A v \in Vehicles : LET d == ends[v] IN
        /\ getExpiredBillingLicenses(d) => getExpiryWarning(d) # "none"
        /\ getStatus(d) = "expired" => getExpiredBillingLicenses(d)
        /\ getExpiryWarning(d) # "none" => needsRenewal(d)
        /\ expiringVehicles(d) = needsRenewal(d)

(* DummyRazorpayModal: the amount on the button was read after the dialog  *)
(* was opened, unless it could not be read, or an answer to an earlier     *)
(* opening came later; and what is charged is that amount, unless the price*)
(* was changed after it had been read.                                     *)
ChargedAsShown ==
    pay # <<>> =>
        LET p == pay[1] IN
        /\ p.told.of = p.of \/ history.unread \/ history.late
        /\ p.result # None => p.result.amount = p.told.price \/ p.result.no # p.told.no \/ p.told.of = 0

(* handlePay: the page has recorded a payment for each success it told of, *)
(* and one for each answer that was lost, or that is still to come.        *)
PaidAsTold ==
    Cardinality({n \in DOMAIN ledger : ledger[n].own}) =
        history.told + history.lost + (IF pay # <<>> /\ pay[1].result # None THEN 1 ELSE 0)

(* onSuccess: a licence that was paid for is not offered again, the dialog *)
(* of the payment being gone, until the year it was paid for nears its end.*)
PaidIsNotOffered ==
    \A paid \in history.settled :
        ~page.success /\ now < (paid.day + Year - Month) * Day => ~needsRenewal(page.list[paid.vehicle])

RenewalsHold == PagesAgreeOnLicences /\ ChargedAsShown /\ PaidAsTold /\ PaidIsNotOffered
=============================================================================
