------------------------------ MODULE Quotation ------------------------------
(***************************************************************************)
(* The price list and the prices quoted from it: the settings page (client *)
(* SettingsManager.tsx, PaymentTemplatesSettings.tsx, settings.controller)  *)
(* and the booking form, which computes a total (BookingForm.tsx) that the  *)
(* server computes again from its own price list (hallBilling.ts).  Both    *)
(* screens work on a copy of the settings, which is fetched again when the  *)
(* server announces a change.                                              *)
(*                                                                         *)
(* An amount is in units that are all larger than PRICE_TOLERANCE_ILS.  The *)
(* price list is a VAT rate, one price of an upgrade, the prices taken off  *)
(* the list and the payment templates, the last two as versions.            *)
(***************************************************************************)
EXTENDS Integers, FiniteSets

CONSTANTS
    Officers,  \* people at a settings page or a booking form
    NoCopy,    \* the settings have not come yet
    Quotes     \* the traffic mixes: which screens, and how much is done on them

ASSUME QuoteAssumption ==
    /\ IsFiniteSet(Officers)
    /\ Quotes \subseteq [sites : SUBSET {"page", "form"}, changes : Nat, saves : Nat, losses : Nat]

VARIABLES
    quote,     \* bounds of this behaviour
    tariff,    \* the SystemSettings row
    copy,      \* what each person's browser has of it
    awaited,   \* who is fetching it again
    window,    \* what each person has open
    priced,    \* the priced fields of the booking
    chosen,    \* history: what was last chosen for each setting
    deaf,      \* history: who has missed an announcement since the last fetch
    overlaid   \* history: settings written back from a copy that was not fresh

quoteVars == <<quote, tariff, copy, awaited, window, priced, chosen, deaf, overlaid>>

Listed == {"reception", "lighting"}
Prices == {"vat", "reception"}
Tariffs == [vat : 0..1, reception : 0..1, terms : 0..1, hidden : SUBSET Listed]

\* What the booking form shows before the settings have come.
DefaultTariff == [vat |-> 0, reception |-> 0, terms |-> 0, hidden |-> {}]

(***************************************************************************)
(* The priced fields.  An input that has been cleared is Empty.            *)
(***************************************************************************)

Empty == -1
Num(n) == IF n = Empty THEN 0 ELSE n
Or(n, stored) == IF n = Empty THEN stored ELSE n

Papers == [hallOnly : BOOLEAN, guests : -1..2, minimum : -1..2, portion : {Empty, 0, 4},
           rental : {Empty, 0, 4}, kosher : {"machpud", "landa"}, vatAdded : BOOLEAN,
           percent : {0, 50}, amount : {0, 4}, upgrades : SUBSET Listed]

\* A form for a new booking.
NewPaper == [hallOnly |-> FALSE, guests |-> Empty, minimum |-> Empty, portion |-> 4,
             rental |-> Empty, kosher |-> "machpud", vatAdded |-> FALSE, percent |-> 0,
             amount |-> 0, upgrades |-> {}]

\* applyBookingToForm: the discounts are not stored with the booking.
LoadedPaper == [priced EXCEPT !.percent = 0, !.amount = 0]

KosherExtra == [machpud |-> 0, landa |-> 4]
UpgradePrice(t, key) == IF key = "reception" THEN 4 + 4 * t.reception ELSE 4
Percent(a, rate) == (a * rate) \div 100
VatRate(t) == 50 * t.vat

\* The hall total of the form: calculateTotals and finalizeBookingTotals.
calculateTotals(x, t) ==
    LET portions == IF Num(x.guests) > Num(x.minimum) THEN Num(x.guests) ELSE Num(x.minimum)
        mainBase == IF x.hallOnly THEN Num(x.rental) ELSE portions * Num(x.portion)
        hallExtras == (IF x.hallOnly THEN 0 ELSE portions * KosherExtra[x.kosher])
                      + (IF "reception" \in x.upgrades THEN UpgradePrice(t, "reception") ELSE 0)
        discount == Percent(mainBase, x.percent) + x.amount
        mainSubtotal == IF discount > mainBase THEN 0 ELSE mainBase - discount
        vat(a) == IF x.vatAdded THEN Percent(a, VatRate(t)) ELSE 0
    IN  mainSubtotal + vat(mainSubtotal) + hallExtras + vat(hallExtras)

\* The body of the request, with the fields a hall without food does not have.
Payload(x) ==
    IF x.hallOnly THEN [x EXCEPT !.guests = 0, !.portion = 0] ELSE [x EXCEPT !.rental = Empty]

\* Mutant: the contractual minimum is not billed.
ActualPortions(d) == Num(d.guests)

resolveBillablePortions(d) ==
    IF Num(d.minimum) > Num(d.guests) THEN Num(d.minimum) ELSE Num(d.guests)

\* The hall total of the server: computeServerPriceBreakdown.
ServerTotal(d, t) ==
    LET kosher == resolveBillablePortions(d) * KosherExtra[d.kosher]
        upgrades == IF "reception" \in d.upgrades THEN UpgradePrice(t, "reception") ELSE 0
        main == IF d.hallOnly THEN Num(d.rental) ELSE resolveBillablePortions(d) * Num(d.portion)
        extras == upgrades + (IF d.hallOnly THEN 0 ELSE kosher)
        discount == Percent(main, d.percent) + d.amount
        net == extras + (IF main > discount THEN main - discount ELSE 0)
    IN  IF d.vatAdded THEN net + Percent(net, VatRate(t)) ELSE net

\* What the server prices: a new booking as it is sent; an edit with the stored value
\* of what the request does not carry, and without discounts, which
\* updateBookingSchema does not name.
Priceable(x, edited) ==
    LET d == Payload(x)
    IN  IF ~edited THEN d
        ELSE [d EXCEPT !.guests = Or(@, priced.guests), !.minimum = Or(@, priced.minimum),
                       !.portion = Or(@, priced.portion), !.rental = Or(@, priced.rental),
                       !.percent = 0, !.amount = 0]

\* What createBooking and updateBooking store.
Recorded(x, edited) ==
    LET d == Payload(x)
    IN  [d EXCEPT !.guests = Num(@), !.portion = Num(@),
                  !.minimum = IF Num(@) = 0 THEN Num(d.guests) ELSE @,
                  !.rental = IF edited THEN Or(@, priced.rental) ELSE @,
                  !.percent = 0, !.amount = 0]

(***************************************************************************)
(* Screens and copies of the settings.                                     *)
(***************************************************************************)

Closed == [at |-> "away", draft |-> NoCopy, tab |-> NoCopy, typed |-> {}, paper |-> NewPaper,
           edited |-> FALSE]

QuoteInit ==
    /\ quote \in Quotes
    /\ tariff = DefaultTariff
    /\ copy = [o \in Officers |-> NoCopy]
    /\ awaited = {} /\ deaf = {} /\ overlaid = {}
    /\ window = [o \in Officers |-> Closed]
    /\ priced = [NewPaper EXCEPT !.guests = 1, !.minimum = 2, !.upgrades = {"lighting"}]
    /\ chosen = DefaultTariff

At(o, site) == window[o].at = site

\* A mounted query is fetched again; the page works on what the browser still has.
OpenPage(o) ==
    /\ At(o, "away") /\ "page" \in quote.sites
    /\ window' = [window EXCEPT ![o] = [Closed EXCEPT !.at = "page", !.draft = copy[o],
                     !.tab = IF copy[o] = NoCopy THEN NoCopy ELSE copy[o].terms]]
    /\ awaited' = awaited \cup {o}
    /\ UNCHANGED <<quote, tariff, copy, priced, chosen, deaf, overlaid>>

OpenBookingForm(o, edited) ==
    /\ At(o, "away") /\ "form" \in quote.sites
    /\ \A q \in Officers : ~At(q, "form")
    /\ window' = [window EXCEPT ![o] = [Closed EXCEPT !.at = "form", !.edited = edited,
                     !.paper = IF edited THEN LoadedPaper ELSE NewPaper]]
    /\ awaited' = awaited \cup {o}
    /\ UNCHANGED <<quote, tariff, copy, priced, chosen, deaf, overlaid>>

\* The draft is replaced when the data has changed, with what was typed into it.
TakesDraft(o) == tariff # copy[o]

\* The answer to a fetch.  The tab of the payment templates takes the first it sees.
Refetch(o) ==
    /\ o \in awaited
    /\ copy' = [copy EXCEPT ![o] = tariff]
    /\ awaited' = awaited \ {o} /\ deaf' = deaf \ {o}
    /\ window' = IF At(o, "page")
                 THEN [window EXCEPT ![o].draft = IF TakesDraft(o) THEN tariff ELSE @,
                                     ![o].typed = IF TakesDraft(o) THEN @ \cap {"terms"} ELSE @,
                                     ![o].tab = IF @ = NoCopy THEN tariff.terms ELSE @]
                 ELSE window
    /\ UNCHANGED <<quote, tariff, priced, chosen, overlaid>>

CloseWindow(o) ==
    /\ ~At(o, "away")
    /\ window' = [window EXCEPT ![o] = Closed]
    /\ awaited' = awaited \ {o}
    /\ UNCHANGED <<quote, tariff, copy, priced, chosen, deaf, overlaid>>

(***************************************************************************)
(* The settings page.                                                      *)
(***************************************************************************)

Change == quote.changes > 0 /\ quote' = [quote EXCEPT !.changes = @ - 1]

TypePrice(o, field) ==
    /\ At(o, "page") /\ window[o].draft # NoCopy /\ Change
    /\ window' = [window EXCEPT ![o].draft[field] = 1 - @, ![o].typed = @ \cup {field}]
    /\ UNCHANGED <<tariff, copy, awaited, priced, chosen, deaf, overlaid>>

TypeTerms(o) ==
    /\ At(o, "page") /\ window[o].tab # NoCopy /\ Change
    /\ window' = [window EXCEPT ![o].tab = 1 - @, ![o].typed = @ \cup {"terms"}]
    /\ UNCHANGED <<tariff, copy, awaited, priced, chosen, deaf, overlaid>>

\* Mutant: nobody is told.
Untold(missing) == {}

\* settings-updated makes every open screen fetch the settings again.
Told(missing) == {q \in Officers \ missing : ~At(q, "away")}

\* What of the draft may be older than the row: all of it while the page is fetching or
\* has missed an announcement; and what the page saved when somebody saved the value
\* before it again, for then the fetch brings nothing new and the draft is kept.
Old(o) ==
    IF o \in awaited \cup deaf THEN DOMAIN tariff
    ELSE {f \in DOMAIN tariff : window[o].draft[f] # copy[o][f]}

\* A PUT of some settings: what it writes, what of that was chosen, what may be older
\* than the row, who fetches again without being told, and who is not told.
PutSettings(next, choice, old, own, missing) ==
    /\ quote.saves > 0 /\ Cardinality(missing) <= quote.losses
    /\ quote' = [quote EXCEPT !.saves = @ - 1, !.losses = @ - Cardinality(missing)]
    /\ tariff' = next
    /\ awaited' = awaited \cup Told(missing) \cup own
    /\ deaf' = deaf \cup missing
    /\ chosen' = [f \in DOMAIN chosen |-> IF f \in choice THEN next[f] ELSE chosen[f]]
    /\ overlaid' = (overlaid \ choice) \cup {f \in old \ choice : next[f] # tariff[f]}
    /\ UNCHANGED <<copy, priced>>

\* saveGlobalSettings sends the whole draft.
SaveSettings(o, missing) ==
    /\ At(o, "page") /\ window[o].draft # NoCopy
    /\ PutSettings(window[o].draft, window[o].typed \cap Prices, Old(o), {o}, missing)
    /\ window' = [window EXCEPT ![o].typed = @ \cap {"terms"}]

\* persistHiddenPriceFields sends the list of hidden prices only, made from the draft.
HidePrice(o, key, missing) ==
    LET hidden == IF key \in window[o].draft.hidden THEN window[o].draft.hidden \ {key}
                  ELSE window[o].draft.hidden \cup {key}
    IN  /\ At(o, "page") /\ window[o].draft # NoCopy
        /\ PutSettings([tariff EXCEPT !.hidden = hidden], {"hidden"} \ Old(o), {"hidden"}, {o},
                       missing)
        /\ window' = [window EXCEPT ![o].draft.hidden = hidden]

\* saveAll of the payment templates sends the tab, which no fetch has brought up to
\* date since the page was opened.
SaveTerms(o, missing) ==
    /\ At(o, "page") /\ window[o].tab # NoCopy
    /\ PutSettings([tariff EXCEPT !.terms = window[o].tab], window[o].typed \cap {"terms"},
                   {"terms"}, {}, missing)
    /\ window' = [window EXCEPT ![o].typed = @ \ {"terms"}]

(***************************************************************************)
(* The booking form.                                                       *)
(***************************************************************************)

Shown(o) == IF copy[o] = NoCopy THEN DefaultTariff ELSE copy[o]

\* Typing guests sets the contractual minimum too; a price off the list is not shown.
Typed(x, visible) ==
    UNION {{[x EXCEPT !.guests = n, !.minimum = n] : n \in {Empty, 1, 2}},
           {[x EXCEPT !.portion = n] : n \in {Empty, 4}},
           {[x EXCEPT !.rental = n] : n \in {Empty, 4}},
           {[x EXCEPT !.hallOnly = ~@], [x EXCEPT !.vatAdded = ~@], [x EXCEPT !.percent = 50 - @],
            [x EXCEPT !.amount = 4 - @]},
           {[x EXCEPT !.kosher = k] : k \in DOMAIN KosherExtra},
           {[x EXCEPT !.upgrades = (@ \ {k}) \cup ({k} \ @)] : k \in visible}}

\* An upgrade ticked while editing is added to the booking at once.
FillIn(o) ==
    /\ At(o, "form") /\ Change
    /\ \E x \in Typed(window[o].paper, Listed \ Shown(o).hidden) \ {window[o].paper} :
        /\ window' = [window EXCEPT ![o].paper = x]
        /\ priced' = IF window[o].edited
                     THEN [priced EXCEPT !.upgrades =
                               @ \cup (x.upgrades \ window[o].paper.upgrades)]
                     ELSE priced
    /\ UNCHANGED <<tariff, copy, awaited, chosen, deaf, overlaid>>

\* What handleSubmit lets through, and createBookingSchema for a new booking.
Fillable(x, edited) ==
    IF x.hallOnly THEN Num(x.rental) > 0
    ELSE Num(x.guests) > 0 /\ (edited \/ Num(x.portion) > 0)

\* validateClientPricing compares the two totals; an answer closes the form.
SubmitForm(o) ==
    /\ At(o, "form") /\ quote.saves > 0
    /\ Fillable(window[o].paper, window[o].edited)
    /\ calculateTotals(window[o].paper, Shown(o))
           = ServerTotal(Priceable(window[o].paper, window[o].edited), tariff)
    /\ quote' = [quote EXCEPT !.saves = @ - 1]
    /\ priced' = Recorded(window[o].paper, window[o].edited)
    /\ window' = [window EXCEPT ![o] = Closed]
    /\ awaited' = awaited \ {o}
    /\ UNCHANGED <<tariff, copy, chosen, deaf, overlaid>>

(***************************************************************************)
(* The specification.                                                      *)
(***************************************************************************)

QuoteNext ==
    \E o \in Officers :
        \/ OpenPage(o) \/ OpenBookingForm(o, TRUE) \/ OpenBookingForm(o, FALSE)
        \/ Refetch(o) \/ CloseWindow(o) \/ TypeTerms(o) \/ FillIn(o) \/ SubmitForm(o)
        \/ \E field \in Prices : TypePrice(o, field)
        \/ \E missing \in SUBSET Officers :
            \/ SaveSettings(o, missing) \/ SaveTerms(o, missing)
            \/ \E key \in Listed : HidePrice(o, key, missing)

QuoteSpec == QuoteInit /\ [][QuoteNext]_quoteVars

(***************************************************************************)
(* Properties.                                                             *)
(***************************************************************************)

Displays == [at : {"away", "page", "form"}, draft : Tariffs \cup {NoCopy}, tab : {0, 1, NoCopy},
            typed : SUBSET (Prices \cup {"terms"}), paper : Papers, edited : BOOLEAN]

\* What every variable holds.
QuoteTypeOK ==
    /\ quote \in [sites : SUBSET {"page", "form"}, changes : Nat, saves : Nat, losses : Nat]
    /\ tariff \in Tariffs /\ chosen \in Tariffs
    /\ copy \in [Officers -> Tariffs \cup {NoCopy}]
    /\ awaited \subseteq Officers /\ deaf \subseteq Officers
    /\ window \in [Officers -> Displays]
    /\ priced \in Papers
    /\ overlaid \subseteq DOMAIN tariff

\* A setting that somebody has chosen stays until somebody chooses another value, whatever
\* the other pages save in the meantime; unless a page saved it from a draft that was old
\* (Old), or from the tab of the payment templates.
SettingKept ==
    \A f \in DOMAIN tariff \ overlaid : tariff[f] = chosen[f]

\* A form that may be sent and shows the price list in force is not refused for its
\* total: the browser and the server, which compute it apart, come to the same, also for
\* what an edit leaves out.  An edit with a discount, or whose price of a portion was
\* cleared, is excepted.
QuoteAccepted ==
    \A o \in Officers :
        LET x == window[o].paper IN
        /\ At(o, "form") /\ copy[o] = tariff /\ Fillable(x, window[o].edited)
        /\ window[o].edited => x.percent = 0 /\ x.amount = 0 /\ (x.hallOnly \/ x.portion # Empty)
        => calculateTotals(x, copy[o]) = ServerTotal(Priceable(x, window[o].edited), tariff)
=============================================================================
