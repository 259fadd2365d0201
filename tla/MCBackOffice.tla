---------------------------- MODULE MCBackOffice ----------------------------
(***************************************************************************)
(* The money of a booking, its number, its file and its production form,   *)
(* the signatures on its contract, the price list and the totals quoted    *)
(* from it, the gallery of designs, the survey after the event, scheduled  *)
(* greetings, the inbox of the staff, the check-in form, the cached        *)
(* calendar and the daily jobs, for TLC.  They share no state: a behaviour *)
(* is one of one part, the others at rest.                                 *)
(***************************************************************************)
EXTENDS PaymentLedger, Feedback, Greetings, CheckInQueue, EventCodes, BookingFile,
        CalendarCache, ProductionForm, DailyJobs, Quotation, Signing, DesignGallery, Inbox, TLC

\* The traffic mixes of the ledger.
NoMoney == [kinds |-> {}, calls |-> 0, option |-> FALSE, advance |-> 0, total |-> 0,
            mode |-> "off", amounts |-> {1}]
\* A booking with money from before the ledger: payments, invoices, webhooks.
Payments == [NoMoney EXCEPT !.kinds = {"pay", "invoice", "hook"}, !.calls = 4,
                            !.advance = 1, !.total = 2]
\* An option closed by an edit or by finalizeBooking while payments are entered.
Closing == [NoMoney EXCEPT !.kinds = {"pay", "edit", "finalize"}, !.calls = 2,
                           !.option = TRUE, !.mode = "live"]
\* The same without EasyCount, with two amounts or with one more call.
ClosingOff == [Closing EXCEPT !.mode = "off", !.amounts = {1, 2}]
ClosingLong == [Closing EXCEPT !.mode = "off", !.calls = 3]
\* Receipts asked for by edits and by hand, forced or not, unanswered or not.
Receipts == [NoMoney EXCEPT !.kinds = {"edit", "reissue"}, !.calls = 2, !.mode = "live",
                            !.advance = 1, !.total = 1]
Simulated == [NoMoney EXCEPT !.kinds = {"pay", "edit", "reissue"}, !.calls = 2, !.amounts = {1, 2},
                             !.mode = "simulation", !.advance = 1, !.total = 1]
\* A receipt asked for again where more than the advance was paid before the ledger.
Legacy == [NoMoney EXCEPT !.kinds = {"pay", "reissue"}, !.calls = 3, !.advance = 1, !.total = 2]
\* Two invoices of several amounts up to the hall's.
Invoicing == [NoMoney EXCEPT !.kinds = {"invoice", "hook"}, !.calls = 4, !.amounts = {1, 2}]
AllLedgers == {NoMoney, Payments, Closing, ClosingOff, ClosingLong, Receipts, Simulated, Legacy,
               Invoicing}
NoLedgers == {NoMoney}
\* One edit after a payment, nobody else at work.
EditAfterPayment == {[NoMoney EXCEPT !.kinds = {"pay", "edit"}, !.calls = 3, !.advance = 1,
                                     !.total = 1, !.mode = "live"]}

\* The traffic mixes of the survey.
NoSurvey == [hours |-> 1, starts |-> 0, faults |-> 0, desk |-> FALSE, answers |-> FALSE]
\* Three hourly sweeps, on one instance or two.
Sweeps == [NoSurvey EXCEPT !.hours = 3, !.starts = 3, !.faults = 1]
\* A sweep and the manager.
ByHand == [NoSurvey EXCEPT !.starts = 2, !.faults = 1, !.desk = TRUE]
\* A sweep while both sides answer.
Answers == [NoSurvey EXCEPT !.starts = 1, !.faults = 1, !.answers = TRUE]
AllSurveys == {NoSurvey, Sweeps, ByHand, Answers}
NoSurveys == {NoSurvey}
\* Two sweeps that start an hour, the backoff, apart; nothing fails.
SlowSweep == {[NoSurvey EXCEPT !.hours = 2, !.starts = 2]}

NoGreeting == [stops |-> 0, cards |-> {}]
NoSeasons == {NoGreeting}
AllSeasons == {NoGreeting, [stops |-> 1, cards |-> Cards]}

NoEvening == [saves |-> 0, runs |-> 0]
AllEvenings == {NoEvening, [saves |-> 3, runs |-> 3]}
NoEvenings == {NoEvening}

NoNumbers == [requests |-> 0, starts |-> 0]
\* Three requests, or lone numbers, and a server that starts.
AllNumberings == {NoNumbers, [requests |-> 3, starts |-> 1]}
NoNumberings == {NoNumbers}

NoDesk == [kinds |-> {}, work |-> 0]
\* Edits and live additions; and every kind of work.
AllDesks == {NoDesk, [kinds |-> {"edit", "addition"}, work |-> 4],
             [kinds |-> {"edit", "addition", "upgrade", "form"}, work |-> 3]}
NoDesks == {NoDesk}
\* One upgrade, or one production form.
UpgradeDesk == {[kinds |-> {"upgrade", "form"}, work |-> 1]}
\* Two booking forms.
EditorDesk == {[kinds |-> {"edit"}, work |-> 2]}

NoTraffic == [changes |-> 0, nights |-> 0, repairs |-> 0, outages |-> 0, losses |-> 0]
\* Two changes, one of them not heard; one change, the archive and an outage; one change
\* beside a date that is repaired.
AllTraffics == {NoTraffic, [NoTraffic EXCEPT !.changes = 2, !.losses = 1],
                [NoTraffic EXCEPT !.changes = 1, !.nights = 1, !.outages = 1],
                [NoTraffic EXCEPT !.changes = 1, !.repairs = 1]}
NoTraffics == {NoTraffic}

NoShift == [opens |-> 0, choices |-> 0, saves |-> 0]
\* Two forms opened, or one twice, with a menu or a check; one form with both.
AllShifts == {NoShift, [opens |-> 2, choices |-> 1, saves |-> 1],
              [opens |-> 1, choices |-> 2, saves |-> 1]}
NoShifts == {NoShift}

NoWeek == [days |-> 0, outages |-> 0, failures |-> 0]
\* From the day before the event to two days after it.
AllWeeks == {NoWeek, [days |-> 3, outages |-> 2, failures |-> 1]}
NoWeeks == {NoWeek}
QuietWeeks == {[NoWeek EXCEPT !.days = 3]}

NoQuote == [sites |-> {}, changes |-> 0, saves |-> 0, losses |-> 0]
\* Two settings pages, one of which may miss an announcement; a page and a booking form;
\* a booking form alone, for a new booking and for an edit of it.
AllQuotes == {NoQuote, [sites |-> {"page"}, changes |-> 2, saves |-> 2, losses |-> 1],
              [NoQuote EXCEPT !.sites = {"page", "form"}, !.changes = 2, !.saves = 1],
              [NoQuote EXCEPT !.sites = {"form"}, !.changes = 3, !.saves = 2]}
NoQuotes == {NoQuote}

NoSigning == [at |-> {[type |-> "other", option |-> FALSE, signed |-> FALSE, marks |-> {}]},
              calls |-> 0, changes |-> 0, api |-> FALSE]
\* A booking that is an event or an option, unsigned or half signed.
Unsigned == [type : Types, option : BOOLEAN, signed : {FALSE}, marks : {{}, {"A"}}]
AllSignings == {NoSigning, [NoSigning EXCEPT !.at = Unsigned, !.calls = 3, !.api = TRUE],
                [NoSigning EXCEPT !.at = {x \in Unsigned : ~x.option}, !.calls = 2, !.changes = 1]}
NoSignings == {NoSigning}

NoGallery == [requests |-> 0, faults |-> 0]
AllGalleries == {NoGallery, [requests |-> 4, faults |-> 1]}
NoGalleries == {NoGallery}

NoInbox == [arrivals |-> 0, opens |-> 0, replies |-> 0, hands |-> 0, faults |-> 0]
\* Two openings while messages come; a reply and a status set by hand.
AllInboxes == {NoInbox, [NoInbox EXCEPT !.arrivals = 2, !.opens = 2, !.faults = 1],
               [arrivals |-> 2, opens |-> 1, replies |-> 1, hands |-> 1, faults |-> 1]}
NoInboxes == {NoInbox}

\* All processes are p1 and p2; invoices, sides, greetings, bookings and days are
\* x1 and x2.
Symmetry == Permutations(Callers) \cup Permutations(Invoices)

VARIABLE part  \* the part of this behaviour

Parts == {"payment", "number", "file", "form", "quote", "signing", "gallery", "inbox",
          "feedback", "greeting", "checkIn", "cache", "jobs"}

\* The mix of every other part is that of nothing to do.  Of the bookings whose
\* production form is opened one has a form already.
Init ==
    /\ part \in Parts
    /\ PaymentInit /\ (mix # NoMoney <=> part = "payment")
    /\ NumberInit /\ (numbering # NoNumbers <=> part = "number")
    /\ FileInit /\ (desk # NoDesk <=> part = "file")
    /\ FormInit /\ (shift # NoShift <=> part = "form")
    /\ Cardinality({b \in Occasions : production[b].there}) = One(part = "form")
    /\ QuoteInit /\ (quote # NoQuote <=> part = "quote")
    /\ SigningInit /\ (signing # NoSigning <=> part = "signing")
    /\ GalleryInit /\ (gallery # NoGallery <=> part = "gallery")
    /\ InboxInit /\ (inbox # NoInbox <=> part = "inbox")
    /\ FeedbackInit /\ (survey # NoSurvey <=> part = "feedback")
    /\ GreetingInit /\ (season # NoGreeting <=> part = "greeting")
    /\ CheckInInit /\ (evening # NoEvening <=> part = "checkIn")
    /\ CacheInit /\ (traffic # NoTraffic <=> part = "cache")
    /\ JobsInit /\ (week # NoWeek <=> part = "jobs")

\* The parts, in groups to be left alone together.
moneyVars == <<paymentVars, numberVars, fileVars, formVars>>
guestsVars == <<feedbackVars, greetingVars, checkInVars, cacheVars, jobVars>>
officeVars == <<quoteVars, signingVars, galleryVars, inboxVars>>

MoneyNext ==
    \/ part = "payment" /\ PaymentNext /\ UNCHANGED <<numberVars, fileVars, formVars>>
    \/ part = "number" /\ NumberNext /\ UNCHANGED <<paymentVars, fileVars, formVars>>
    \/ part = "file" /\ FileNext /\ UNCHANGED <<paymentVars, numberVars, formVars>>
    \/ part = "form" /\ FormNext /\ UNCHANGED <<paymentVars, numberVars, fileVars>>

OfficeNext ==
    \/ part = "quote" /\ QuoteNext /\ UNCHANGED <<signingVars, galleryVars, inboxVars>>
    \/ part = "signing" /\ SigningNext /\ UNCHANGED <<quoteVars, galleryVars, inboxVars>>
    \/ part = "gallery" /\ GalleryNext /\ UNCHANGED <<quoteVars, signingVars, inboxVars>>
    \/ part = "inbox" /\ InboxNext /\ UNCHANGED <<quoteVars, signingVars, galleryVars>>

GuestsNext ==
    \/ /\ part = "feedback" /\ FeedbackNext
       /\ UNCHANGED <<greetingVars, checkInVars, cacheVars, jobVars>>
    \/ /\ part = "greeting" /\ GreetingNext
       /\ UNCHANGED <<feedbackVars, checkInVars, cacheVars, jobVars>>
    \/ /\ part = "checkIn" /\ CheckInNext
       /\ UNCHANGED <<feedbackVars, greetingVars, cacheVars, jobVars>>
    \/ /\ part = "cache" /\ CacheNext
       /\ UNCHANGED <<feedbackVars, greetingVars, checkInVars, jobVars>>
    \/ /\ part = "jobs" /\ JobsNext
       /\ UNCHANGED <<feedbackVars, greetingVars, checkInVars, cacheVars>>

Next ==
    /\ UNCHANGED part
    /\ \/ MoneyNext /\ UNCHANGED <<guestsVars, officeVars>>
       \/ OfficeNext /\ UNCHANGED <<moneyVars, guestsVars>>
       \/ GuestsNext /\ UNCHANGED <<moneyVars, officeVars>>

Spec == Init /\ [][Next]_<<part, moneyVars, guestsVars, officeVars>>

\* The type invariant of each module.
TypeOK ==
    /\ PaymentTypeOK /\ FeedbackTypeOK /\ GreetingTypeOK /\ CheckInTypeOK /\ NumberTypeOK
    /\ FileTypeOK /\ CacheTypeOK /\ FormTypeOK /\ JobsTypeOK /\ QuoteTypeOK
    /\ SigningTypeOK /\ GalleryTypeOK /\ InboxTypeOK
=============================================================================
