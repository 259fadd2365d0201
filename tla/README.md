# Maple Garden Events: TLA+ models and proofs

Maple Garden Events is the booking system of an event hall: a React client, an
Express server and a PostgreSQL database reached through Prisma. This directory
holds TLA+ modules that model the logic of the server and of the parts of the
client that keep state, TLC configurations that check them on small instances,
and theorems proved with TLAPS for every instance.

Paths below are relative to the repository's `src`; `S/` stands for
`server/src/Services/`, `U/` for `server/src/utils/`, `C/` for `client/src/`.

## 1. The system

| Component | State | Operations | What is hard |
|---|---|---|---|
| Time slots and day rules (`U/timeSlot.ts`, `U/bookingDateValidation.ts`) | none | normalise a slot, blocked and bookable slots of a weekday | rules are applied at the request and again under the lock, not everywhere the same |
| Booking lifecycle (`S/booking/bookingLifecycle.service.ts`, `helpers.ts`) | `Booking`, `EventDate`, `EventAddition` | createBooking (event, override, options on 1-3 dates), updateBooking (edit, group edit, conversion), finalizeBooking, addEventAddition, addBookingUpgrade | reads before the row lock, several dates in one transaction, several writers of one priced row |
| Options (`S/booking/bookingOptions.service.ts`, `U/optionDateSync.ts`, `U/optionRelease.ts`) | the same tables | release, bump, lists that repair desynced dates, edit or release of a group of options | siblings on dates nobody has locked |
| Calendar (`S/calendar.service.ts`, `U/eventDateLock.ts`) | the same tables | lockDateForChecking, releaseDate, createOption, saveOptionHold, bookEventFinal | an employee's checking lock shares its deadline column with options |
| Archive and retention job (`S/eventArchive.service.ts`, `U/cronJobs.ts`) | the same tables | nightly: delete what is past retention, archive what has passed | several transactions, restarts, requests in between |
| Event codes (`U/eventCode.ts`) | `SystemSettings.nextEventNumber`, unique `eventCode` | allocate, convert, raise the counter when a server starts | read and written back without a lock |
| Payments (`S/bookingPayment.service.ts`, `S/easyCount/*`) | `BookingPayment`, `HallInvoice`, totals copied to `Booking` | record, advance, invoice, webhook, receipt | totals summed by concurrent transactions, webhooks twice or late, an EasyCount that does not answer |
| WhatsApp outbox (`S/whatsapp/outbox*.ts`, `send.service.ts`) | `WhatsAppOutboxMessage` | enqueue with dedupe key, cancel, claim, send, retry, release stale claims | worker crash between send and mark, slow worker losing its claim |
| WhatsApp webhooks (`S/whatsapp/webhook*.ts`, `message.service.ts`) | `WhatsAppWebhookEvent`, `WhatsAppMessage`, `WhatsAppConversation` | persist once, claim, apply status, automation, older forwarding flow | redelivery, statuses out of order, a failure between two statements |
| Feedback (`U/feedbackHelpers.ts`, `feedback.controller.ts`) | `Feedback` | sweep, claim, send, retry, answer, alert | several instances, two sides that answer at once |
| Greetings (`S/greetingService.ts`) | `ScheduledGreeting` | schedule, cancel, job | cancel against claim, restart after a claim |
| Financial summary, payment deadlines (`S/eventFinancialSummary.service.ts`, `S/paymentDeadlineService.ts`) | columns of `Booking` | daily jobs | several instances, order against the archive job |
| Check-in (`S/checkInService.ts`, `C/utils/offlineCheckInQueue.ts`) | `EventCheckIn`, browser storage | save, queue, sync | queue read, sent and overwritten |
| Realtime and cache (`realtime.ts`, `cacheMiddleware.ts`, `C/utils/realtimeSync.ts`) | Redis, the screens | announce, clear, read through | an announcement before the commit, a copy stored after a clearing |
| Production form (`C/components/EventFormManager`, `eventForm.controller.ts`) | the editor in the browser, `EventForm` | open, load, save, leave | late answers, state that is not reset |
| Settings and prices (`settings.controller.ts`, `SettingsManager.tsx`, `PaymentTemplatesSettings.tsx`, `U/hallBilling.ts`) | `SystemSettings`, a copy in every browser | edit the draft, save, hide a price, save the templates; quote a total twice | several drafts of one row; a total computed by browser and server apart |
| Contract signatures (`S/booking/bookingContract.service.ts`, `U/contractFields.ts`, `ContractModal.tsx`) | two signatures and a flag on `Booking` | sign and send, edit, convert, finalize | three requests that read, decide and write |
| Design gallery (`designGallery.controller.ts`, `U/s3Storage.ts`) | `DesignGalleryItem`, files in a store | create, replace, remove | rows and files change in separate steps |
| WhatsApp inbox (`conversation.service.ts`, `whatsapp.controller.ts`, `WhatsAppInbox.tsx`) | `WhatsAppConversation`, the screens | open, list and mark read, reply, assign | messages that come between two statements |
| Auth, tenants, PDF, menus, other pages | - | stateless checks, rendering, single-row writes | no protocol of their own |

All server components meet in the database. Requests run concurrently in one or
more Node processes; `await` is where they interleave. The booking components
and the archive job share two tables, which is why they are one module here.
The other components hang off a booking's id or have tables of their own and
are separate modules.

What makes each component correct: slots are never booked twice (PRD, KPI "0
double bookings"), confirmed events are not lost when options are released, day
rules hold for what is stored, the status of a date agrees with its bookings
where other code relies on it, passed events are archived and expired ones
deleted, every request is answered; money is counted once and totals are sums;
messages, links, greetings and reminders go out once where the code promises
it and not never; statuses do not go back; a total is the sum of its parts
whoever wrote it last; screens end up showing the calendar as it is.

Where the code keeps such a promise only if something does not happen (a
crash, two requests at once, a lost answer), the property names the exception
through a *history variable*, which records that it happened and takes part in
no guard. Every excuse in a property is a behaviour of the code; section 5 lists
them.

## 2. Plan

Done, in this order: `TimeSlots`, `EventCalendar`, `SlotRegister`,
`EventCalendarProofs`; `WhatsAppOutbox`, `WhatsApp`, `WhatsAppProofs`;
`PaymentLedger`, `Feedback`, `Greetings`, `CheckInQueue` and their proofs;
`EventCodes`, `BookingFile`, `CalendarCache`, `ProductionForm`, `DailyJobs`,
`FileProofs`, `JobsProofs`; `Quotation`, `Signing`, `DesignGallery`, `Inbox`;
`OfficeProofs`, and in the older proof modules the theorems that were missing; the
abstract specifications `Delivery` and `PaymentBook` with the refinement proofs, type
correctness of every module, and `BackOfficeProofs`. Every invariant, action property
and refinement that a passing run checks is now a theorem (section 6).

Next, as models: the morning reminders of 09:00 and the daily automations of WhatsApp (what they enqueue
under which dedupe key), and the composition of the order numbers with the booking
transactions that take them.

## 3. Modules

Every module has CONSTANTS with a named assumption, one action per operation or
stage of one, and no RECURSIVE operator. Where a module covers several kinds of
work, a constant holds *traffic mixes*: records that say which kinds a behaviour
has and how much of each. The initial state chooses one, so that one run covers
them all without their product.

Operators marked as mutants are wrong variants of the definition that follows
them. They take part in no behaviour; PROJECT.json names the property that each
breaks when it takes the place of the right one.

### The hall

`TimeSlots` - the three slots and the weekday rules. A row stores its slot as
text and as a column; every writer derives both from one normalised slot, so the
model keeps one value.

`EventCalendar` - variables:

| Variable | Code |
|---|---|
| `calendar` | `EventDate` rows by date: `status`, `optionExpiresAt` (`none`, `live`, `lapsed`), `lockedBy` |
| `bookings` | `Booking` rows by id: date, slot, type of event, `isOption`, and `group`, which stands for client name, phone, seller and creation window of `ownedOptionBookingWhere` |
| `issued` | ids given out; a uuid never comes back |
| `request` | what each handler in flight has read, locked and deleted so far |
| `job` | the stage of the nightly job and the ids it has found |
| `today` | the clock, in days |
| `traffic` | the mix of this behaviour: kinds of operation, dates, slots, types, ids and clients |

*How transactions are modelled.* PostgreSQL runs at READ COMMITTED. A
transaction that decides everything after `SELECT ... FOR UPDATE` on the one
date it writes is one action. A handler that decides on something it read
earlier is several actions, with what it read kept in `request[r]`:

| Handler | Actions |
|---|---|
| createBooking, event | `ReadForConfirmed`, (`DeleteForOverride`), `CommitConfirmed` |
| createBooking, options | `ReadForOptions`, `LockForOptions` for each date, `CommitOptions` |
| updateBooking, one booking | `ReadForEdit`, `CommitEdit` |
| updateBooking, group | `ReadForEdit`, `GroupEditLock`, `GroupEditCommit` |
| updateBooking, conversion | `ReadForConvert`, `LockForConvert`, `CommitConvert` |
| releaseDate | `ReleaseDateRead`, `ReleaseDateWrite` |
| option lists, bumpOption | `SyncRead`, `SyncWrite`, `SetDeadline` |
| finalizeBooking, releaseOptions, bookEventFinal, createOption, lockDateForChecking, saveOptionHold | one action each |
| archive job | `PurgeScan`, `PurgeBookings`, `PurgeScanDates`, `PurgeDates`, `ArchiveScan`, `ArchiveCommit`, `JobAbort` |
| clock | `AdvanceDay`, `Lapse` |

A transaction's writes appear at its last action; until then its row locks are
visible to the others through `locked` (date rows), `BookingLockedBy` (booking
rows) and `SlotWrittenBy` (its entry in the unique index). Every error rolls
back, so an error path is `Reject`, which changes nothing. A deadlock is the
cycle in `BlockedBy` that `AbortDeadlock` breaks.

*Abstractions.* One tenant (every query is scoped by tenant). Names, prices,
contracts and codes are left out. Forbidden days are the constant
`ForbiddenDates`, one set for each type of event, because getDayStaticStatus tells
weddings from everything else; the Hebrew calendar that computes them is not modelled. An
edit or a conversion may keep the slot (`KeptSlot`) and the type (`KeptType`); the type it
is checked for is the one it gives or else the one it read (`CheckedType`), the type it
leaves is the one it gives or else the row's (`EditedType`), and the slot and the day are
checked only when it gives a slot (`bookingLifecycle.service.ts:698`). In a
group edit the slot the anchor moves to is the slot of the whole group, as in
the code; the deadline an edit sets is "in the future".

`SlotRegister` - the abstract specification: claims on slots that begin, move
within their date, become firm and end; never two on a slot, never firm to
tentative, and no id used again. `EventCalendar!IsRegister` states the
refinement: a booking is a claim, firm when it is no option. `Delivery` and
`PaymentBook` below are the other two specifications of this kind.

`EventCodes` - the order numbers: the counter as committed, the codes of the
committed bookings, the row locks (`holder`) of dates and of the settings row,
and the requests. A number is read (`ReadNumber`), written back (`WriteNumber`,
which waits for the settings row), used (`InsertBooking`, `CodeTaken`) and
committed (`CommitNumber`) or abandoned; a number allocated without a
transaction is used later or never (`UseNumber`). `ConvertCode` turns an option's
code into an event's; `BootScan`, `BootCompare`, `BootRaise` are initOrderSequence.
`rewound` remembers the numbers that a counter written back too low may give out
again.

`BookingFile` - the priced columns of one booking row and its four kinds of
writer: the booking form (`LoadForm`, `ServeEdit`, `WriteEdit`; the form sends
`expectedUpdatedAt`, but `updateBookingSchema` does not name it and `validate`
drops what a schema does not name, so no version is compared), live additions (`InsertAddition`, `LockRow`, `WriteAddition`, and
`AdditionFails` when two hold the booking by its foreign key), upgrades
(`ReadForUpgrade`) and the production form (`SaveForm`, `ReadForForm`), which end
in `WriteRefresh`. updatedAt is a version. Histories: `overrun` (an edit wrote
back an older sum of additions), `reckoned` (who computed the total last: `hall`, an
edit or an addition; `refresh`, an upgrade or the production form; `stale`, one of those
two from a row that had changed since), `lastEdit` and `blind` (an edit wrote over one that had been saved after
its form was opened and before it was served).

`ProductionForm` - the editor of `EventFormManager.tsx`: selected booking, the
form's data (fields, the image of the deposit check, the details read from it), the
menu and the chosen file; the answers on their way (`loads`), the checks that are being
read (`scans`) and the save on its way (`posting`). A datum is the booking it was
entered for. A check is chosen (`ChooseCheck`) or photographed (`PhotographCheck`); the
file is read (`FileRead`, `FileUnread`), then the server answers (`CheckScanned`), and both
write into the form that is open at that moment (`ScanLands`); `DeleteCheck` takes the
check out again. Where
the stored form lacks the details of a check, the booking's own are shown (`Hydrated`).
Histories: `early`, `strayed`, `carried`, `misread`.

`Signing` - the signatures of one contract: the row (`contract`), the booking form
of each signer with its contract window (`sheet`: `OpenSheet`, `ChangeType`,
`Untick`, `handleConfirmSignature`, `handleSubmit`) and the request each waits for
(`errand`): sign-and-send, an edit, a conversion or finalizeBooking, all of them
`ReadBooking`, `WriteContract` and, where the contract is complete, `MailContract`.
A request decides on what it read (`pickSignature`, `SyncedFlag`, `Denied`). A
signature is the side it belongs to. Histories: `given`, `wiped`, `retyped`.

### Money

`PaymentLedger` - the ledger rows, the totals on the booking, hall invoices and
the receipt of the advance. A caller is a request or a webhook; its steps are the
statements whose order matters, and `job[p].rows` is what its open transaction
has written. Actions: `Pay`, `OpenPayment`, `SumUp`, `Commit` (recordPayment and
the seed of the legacy advance); `Notify`, `RecordStatus`, `OpenHook`,
`InsertInvoicePayment` (the webhook); `AskInvoice`, `CheckBalance`, `PostFails`,
`StoreInvoice`; `UpdateBooking`, `FinalizeBooking`, `Reissue`, `CheckReceipt`,
`CreateDoc`, `StoreReceipt`, `EnsureAdvance`, `FindAdvance`, `AdvanceRow`,
`WriteAdvanceRow`. Histories: `astray`, `crossed`, `mirrored`, `edited`,
`agreed`, `received`, `overlaps`, `revived`, `receipts`, `excuses`.

`PaymentBook` - the abstract specification of the ledger, what those who read it rely
on: a book that is only added to. An entry keeps its number and source, its amount
unless it is the advance, and its document once it has one; no two entries share a
number or a document; a document that counts as settled has its entry.
`PaymentLedger!IsBook` states the refinement: the entries are the committed rows, and
an invoice is settled when EasyCount reported it paid after it was pending. Only
`Commit` moves the book; every other step stutters.

`Quotation` - the settings row (`tariff`: a VAT rate, a price, the hidden prices, the
payment templates), the copy in each browser and what is open there: the settings
page with its draft and the tab of the templates (`TypePrice`, `TypeTerms`,
`SaveSettings`, which sends the whole draft, `HidePrice`, `SaveTerms`), or the booking
form (`FillIn`, `SubmitForm`). `calculateTotals` is the browser's total and
`ServerTotal` the server's; `Priceable` and `Recorded` are what a request is priced
by and what it stores. A fetch is one step (`Refetch`). Amounts are in units larger
than `PRICE_TOLERANCE_ILS`, so a difference the code would forgive does not occur.
`Old` is what of a draft may be older than the row. Histories: `chosen`, `deaf`
(who has missed an announcement), `overlaid` (settings written back from a draft
that was old).

`DailyJobs` - the archive at 00:00, the overdue reminder at 08:00 (`PaymentJob`,
`ClaimReminder`, `SendReminder`) and the financial summary at 09:15
(`SummaryJob`, `SendSummary`), run by every instance that is up, with instances
that stop and return. Histories: `owed` and `troubled`.

### Messages

`WhatsAppOutbox` - for each message its row (`row`, `attempts`, `aged`), its entry
in the message ledger (`entry`, `wamid`), and for each worker where it is (`pc`),
the rows it listed (`due`) and claimed (`batch`) and the one it processes
(`current`, `sentAs`). A tick is `Tick`, `FindDue`, `Claim` or `LoseClaim` for each
candidate, `EndClaims`, then for each row a send with its answer,
`MarkOutboxSent`, `MarkMessageSent`, or `ReadAttempts` and `WriteRetry` or
`WriteFailed` with `MarkMessageFailed`, and `EndTick`. Faults: an error before or after the
provider accepted (`ThrowEarly`, `Throw`), an error that is swallowed (`Swallow`), a
crash, a claim that grows old with its worker dead (`DeadClaimAges`) or alive
(`LiveClaimAges`); `faults[m]` counts those that hit a message.

`Delivery` - the abstract specification of the outbox, what it promises those who queue
messages: a message is asked for, delivered at most once while it is open, then closed
as sent if the customer has it and as failed if not, or withdrawn, and the customer
never has one that was withdrawn; a fault disturbs its message, and each costs one more
copy at most. `WhatsAppOutbox!IsDelivery` states the refinement: `Standing` takes the
status of a row (Pending and Processing are open), copies and faults are
themselves, and claims, retries and workers are hidden.

`WhatsApp` - extends the outbox with the incoming side: `Post` and `PostAgain`
(redelivery), `StartJob`, `ClaimEvent`, `NextEvent` (the job), `ReadEntry` and
`WriteEntry` (a delivery status), `FindRecorded`, `InsertInbound`, `CountInbound`
(an inbound message), `CheckNotice`, `QueueNotice`, `CheckReply`, `QueueReply` (the
automation, which enqueues into the outbox), `MarkEvent`, `MarkEventFailed`,
`HandlerThrows`, `QueueingFails`, `HandlerCrashes`, `Cleanup` (retention), and
`LegacyRead`, `LegacyStore`, `LegacyNote` (the older flow). Histories: `counted`,
`raced`, `died`.

`Inbox` - what the staff see of the conversations: `InsertMessage` and `TallyMessage`
(the two statements of recordInboundMessage), `OpenThread`, then `ReadMessages`,
`MarkRead` and `ShowMessages` for one listing, `SendReply`, `StoreReply` (free text
within the care window, `CareWindowCloses`), `AwaitCustomer`, `SetStatus` (assigning
and setting a status, which no screen does), and `ListingFails`, `ReplyFails`.
`WhatsApp` has the webhook and the outbox before and after. Histories: `shown`,
`overlooked`, `outrun`.

`Feedback` - the rows of the two sides, the senders (a sweep of an instance or a
manager) through `Ensure`, `Claim`, `Send`, `Store`, and the guests through
`Submit`, `CommitAnswer`, `TellManager`. Histories: `copies`, `excused`, `missed`.

`Greetings` - `Schedule`, `BecomesDue`, the job (`Scan`, `Take`, `SendOut`,
`StoreOutcome`, `ClerkStops`), and `AskCancel`, `Cancel`, which write in two
steps. History: `crossing`.

### Screens

`CheckInQueue` - `Save` with four outcomes (served, refused, failed, served but
unanswered), the queue in local storage, and runs of the sync (`StartSync`, `Put`,
`EndSync`, `SyncStops`). History: `raced`.

`CalendarCache` - a change of the calendar as a list of steps that its handler
still has to do (commit, announce, clear, answer; lockDate, releaseDate and
saveOptionHold announce before they commit; the archive, addBookingUpgrade,
addEventAddition, upsertForm and issueEasyCountReceipt announce and clear nothing,
`TellOnly`), the repairs of option dates, which do neither (`RepairDate`:
syncEventDateWithOptionBookings outside a transaction, `helpers.ts:76-127`), the
Redis copy, the bag of answers still to be stored (`fills`) and the screens.
Histories: `settled`, `tainted`, `misled`.

`DesignGallery` - rows (`design`), files (`shelf`) and the request of each person
(`curating`) with its stages thumb, image, discard and row. Creating stores two
files and inserts the row; replacing stores two, deletes the old two and updates
the row; removing deletes the row and then the files. A thumbnail may fail and is
done without; any other failure ends the request where it is (`BreakOff`). The store
is S3: the local store does the same but passes over files it cannot delete.
Histories: `litter`, `torn`.

### Instances and proofs

`MCEventCalendar`, `MCWhatsApp` - instances for TLC, with their traffic mixes. `MCBackOffice` - the thirteen
modules `PaymentLedger`, `EventCodes`, `BookingFile`, `ProductionForm`, `Quotation`,
`Signing`, `DesignGallery`, `Inbox`, `Feedback`, `Greetings`, `CheckInQueue`,
`CalendarCache` and `DailyJobs` in one run. They share no state; the variable `part`
gives each behaviour work in exactly one of them, so that the state space is their
sum. `EventCalendarProofs`, `WhatsAppProofs`, `PaymentProofs` and `FeedbackProofs`
hold the theorems about the modules they are named after, `FileProofs` those about
`BookingFile`, `ProductionForm`, `CalendarCache` and `EventCodes`, `JobsProofs` about
`DailyJobs`, `Greetings` and `CheckInQueue`, `OfficeProofs` about `DesignGallery`,
`Signing`, `Inbox` and `Quotation`, and `BackOfficeProofs` about the thirteen together.

## 4. Runs

| Run | Instance | Checks | Shows |
|---|---|---|---|
| Hall | 2 requests, up to 3 ids, 2 dates and 2 slots, nine mixes | NoDoubleBooking, IndInv, CalendarAgrees (BookingsHaveRows, ArchivedArePast), ConversionSparesEvents, IsRegister, RulesKept, CheckingIsExclusive, JobDeletesOnlyExpired | the safety of the calendar, conversions, group edits, edits of the type of event, checking and the nights included |
| Progress | 2 dates, one of which expires within the clock, 2 requests, fair | EveryRequestAnswered, BookedPastIsArchived, RetentionEnforced | deadlocks are resolved, the job catches up |
| Messaging | 2 workers, 2 handlers, up to 2 faults, six mixes, fair | IsDelivery, OneCopyPerFault, CountedOnce, HandledReachesManager (with StoredIsNoted), StatusFallsOnlyByCrossing (with LedgerFollowsOutbox), OutboxDrains, StoredIsRecorded | the outbox delivers as `Delivery` says; what goes out and comes in is dealt with, and no more often than faults allow |
| BackOffice | 2 processes of each kind, 2 things they work on, one part at a time | TypeOK and the 21 properties of the thirteen modules | each part against its hazards |
| ArchiveMissed | fair, 1 date | ConfirmedPastIsArchived, violated | finding 1 |
| BlindEdit | two booking forms | NoBlindEdit, violated | finding 2 |
| FreedDate | 2 dates, 3 ids | FreedDateIsEmpty, violated | finding 3 |
| PaidDerived | one payment and one edit | PaidIsDerived, violated | finding 4 |
| SummaryMissed | the days around an event, nothing fails | SummaryArrives, violated | finding 5 |
| StatusCrossing | one message, three statuses, two handlers | HigherStatusStands, violated | finding 6 |
| SecondLink | two sweeps that overlap, nothing fails | NeverSentTwice, violated | finding 7 |
| SupplierTotal | one upgrade or one saved form | TotalIsHalls, violated | finding 8 |

The BackOffice properties, by module: `PaymentLedger` TotalIsLedger,
LedgerHoldsPayments, NeverOverInvoiced, OneReceipt, IsBook;
`Feedback` LinkOncePerClaim, DiscrepancyIsTold; `Greetings` GreetingOnce,
CancelledIsQuiet; `CheckInQueue` LastSaveKept; `EventCodes` NumberOnOneBooking;
`BookingFile` PricesAddUp; `ProductionForm` FormOfOneBooking; `Quotation`
SettingKept, QuoteAccepted; `Signing` ContractHolds (SignatureKept and
SignedIsComplete); `DesignGallery` FilesMatchRows; `Inbox` UnreadIsUnseen,
AnswerAwaited; `CalendarCache` ScreenFresh; `DailyJobs` RemindedOncePerDay.

In Hall a behaviour chooses one of nine mixes in its first state, because with everything
on at once the state space is out of reach: *Creating* (events, options and conversions
that give options back, on a Thursday and a Friday), *Converting* (the same with a third
booking on one slot), *Overriding* (with a third booking on one date), *Editing* (edits of
single bookings and of groups, renaming their client, against calendar options, holds and
conversions), *Weddings* (weddings and other events, created, edited and converted on a
date forbidden for weddings), *Siblings* (group edits that take siblings to another type of
event), *Saturdays*, *Checking* (all that the calendar page does to one date, with lapses,
repairs and conversions) and *Nightly* (the job with restarts, on a date that passes and
expires). Deadlock is not an error in any run: with ids, requests and the clock used up the
system may stop.

*Bounds of the calendar.* Two requests are enough for every conflict here: a
lock, an index entry or a stale read involves one holder and one other. Three
ids give an option, its sibling and the booking that gets in between; ids are
never reused, so three is also the number of bookings a behaviour creates. Two
dates give the opposite lock orders and the sibling's date; one date suffices
where all operations are about a single row. `LastDay` and `RetentionDays` make
the date current, passed and expired within the clock; in Progress one date
passes without expiring, so that nothing but the archive step can take it out of
BOOKED. `MaxOptionDates` is 3 as in the code; two dates never reach it. A mix holds
the ids and the clients that its bookings may have.

*Bounds of messaging.* `MaxAttempts` and `MaxRetries` are 2 (5 in the code), so
that a first failure, a retry and giving up all occur. The mixes are: one message,
two workers and two faults; two messages in one batch; three statuses of one
send, served and retried by two processes; two inbound messages with automation,
redelivery after retention and a fault; one inbound message left to the job with
two faults; the older flow with two requests.

*Bounds of the back office.* Two callers and two invoices of amounts 1 and 2
against a hall amount of 3, with up to four operations, on bookings with and without
an advance, with an option, and with money from before the ledger that is more than
the advance (`Legacy`); the two sides of an event
with two sweeps or a manager, three hours, two attempts and ratings on both sides
of each threshold; two greetings and two runs of the job, with a stop; three saves
and three sync runs; three requests for numbers and one start of a server; three
or four pieces of work on a booking's file by two hands, with one upgrade of each
payer; two changes of the calendar, one with the archive and an outage of
Redis, or one with a repair of an option's date; two openings of a form, of two bookings one of which has one already, and
a save; four days around the event on two instances with two outages and a failed
message; two settings pages of which one may miss an announcement, a page and a
booking form, or a form alone with three entries and two submissions; two signers
with three requests, or with two and a change of the type of event; four requests to
the gallery, one of which fails; two incoming messages with two openings, or with a
reply and a status set by hand, and a `PageLimit` of 1 (100 in the code), so that
there is more than a page. In every case one process more only repeats what two do to each other.

*Symmetry.* Ids, requests and groups are interchangeable in the calendar's safety
runs; processes (p1, p2) and things (x1, x2) in BackOffice. Runs with liveness use
no symmetry.

*Fairness of the calendar.* Handlers: strong fairness of "go on or answer", since
the event loop runs every handler and PostgreSQL's row locks are queues. `Refuse`
is part of it because a failed check is answered, and it is disabled while a
handler waits for a lock, so it does not hide a deadlock. Job and clock: weak
fairness (node-cron runs every midnight, and in Progress there are no restarts).
The deadlock detector: weak fairness. No request ever has to arrive.

*Fairness of messaging.* Weak fairness of the steps of each worker where the
outbox job runs, of the job of the webhooks, of the statements of each handler
that has not crashed, and of a dead claim growing old: node-cron starts the jobs
again for ever and time passes. Faults are never required and their number is
bounded; nothing says that a message is ever requested or posted.

## 5. Findings

1. *Archive missed* (`ArchiveMissed`). `S/eventArchive.service.ts:94` promises
   "Mark confirmed events whose date is yesterday or earlier as ARCHIVED"; the
   query takes dates of status BOOKED only. Converting one of two options of a
   date does not set BOOKED (`bookingLifecycle.service.ts:807-818`), and
   createOption sets OPTION on a date with an event (`calendar.service.ts:605`).
2. *Blind edit* (`BlindEdit`). updateBooking has a message for an edit of a booking
   "that was updated by another user" (`bookingLifecycle.service.ts:561-570`), and the
   form sends the version it was filled from (`BookingForm.tsx:1102`). The route's
   schema (`booking.validator.ts:162`) does not name expectedUpdatedAt, and
   `validate.ts:48` replaces the body by what the schema returns, so the comparison
   never takes place and the later of two edits wins.
3. *Freed date not empty* (`FreedDate`). `optionRelease.ts:66` "releases empty
   dates": the count of what is left is taken without the lock of that date, so
   a booking committed in between stays on a date shown as AVAILABLE. The slot
   is still protected: NoDoubleBooking does not look at the status.
4. *Total not derived* (`PaidDerived`). `bookingPayment.service.ts:2-3` calls the
   ledger the single source of truth and totalPaid a derived aggregate.
   updateBooking sets totalPaid to the advance (`bookingLifecycle.service.ts:785-790`),
   and recordAdvancePayment returns early when the receipt is on the ledger
   already (`:214-219`), so that the sum is not taken again.
5. *Summary missed* (`SummaryMissed`). `eventFinancialSummary.service.ts:3` "Runs
   the morning after the event date"; its query at line 101 asks for BOOKED at
   09:15, after the archive of 00:00 has set ARCHIVED.
6. *Status lowered* (`StatusCrossing`). `message.service.ts:24-25` "a lower-ranked status
   must never overwrite a higher one". applyStatusUpdate compares with a row it read
   before (`:190-198`) and updates by id (`:203-221`): of two handlers that both read
   first, the lower status may be written last.
7. *Second link* (`SecondLink`). `feedbackHelpers.ts:357-359` "can never send twice". The
   backoff of a claim counts from the start of the sweep (`:377-388`), so a claim made an
   hour later is free to be taken over while its sweep is still sending.
8. *Suppliers in the total* (`SupplierTotal`). `hallBilling.ts:3` and `:34` keep external
   suppliers out of totalPrice; addBookingUpgrade and upsertForm store a total that counts
   them in (`bookingUpgradesSync.ts:76`), until the next edit computes it without them.

Further behaviours the models have, which no document of the repository
contradicts, or which a property names as its excuse:

- *Calendar.* A group edit deletes a sibling that was converted into an event
  after it was selected (`optionDateSync.ts:114`), and it can move a sibling to a
  slot that the sibling's Friday blocks, or to a type of event its date is forbidden for
  (`:130-137`, `MovedAlong`). An edit or a conversion that gives a type of event and no slot
  stores that type without looking at the day (`bookingLifecycle.service.ts:611-617, 698`,
  `Retyped`). These two are what RulesKept excepts, and Hall has both. A conversion that
  keeps other options on the date leaves a checking lock there as it is, so that an event
  can stand on a date that an employee is checking (`ConvertedBeside`); CheckingIsExclusive
  says that nothing else does that. CalendarAgrees makes no claim about dates shown as
  AVAILABLE: finding 3 is one with an event on it. `calendar.service.ts:35` calls ARCHIVED
  a read-only archive; finalizeBooking, createOption, saveOptionHold and bookEventFinal
  take an archived date to another status.
- *Payments.* Two first payments at once both seed the legacy advance (`crossed`).
  A payment summed before another commits leaves a total short until the next one
  (`astray`). A total copied into advancePaid by a payment is counted again as an
  advance later (`mirrored`). An edit with the advance 0 sets
  the total to 0 and leaves the ledger as it is. An invoice that EasyCount reports
  paid at once never reaches the ledger: the webhook of an invoice that is stored
  as paid returns at once. Two invoices checked at once can exceed the hall
  amount together (`overlaps`). A booking from before the ledger whose total is more
  than its advance gets a row for the advance alone when its receipt is asked for
  first, because recordAdvancePayment does not seed the ledger
  (`bookingPayment.service.ts:207-245`); the difference is not seeded later (`edited`).
- *WhatsApp.* A lost answer, a swallowed error or a claim taken from a slow worker
  sends a second copy, one for each. recordInboundMessage writes the message and
  the conversation in two statements, and a retry finds the message and does not
  count it. StatusFallsOnlyByCrossing says that finding 6 is the only way
  a status falls, and that without it (`raced`) what was handled stands. A
  reported failure sets the entry to Failed whatever was delivered before it; its event
  may be gone by the retention when the entry is looked at.
- *Feedback.* LinkOncePerClaim counts the second links: one for each claim taken over as
  in finding 7, and one for each delivery nobody recorded, because its sweep stopped before
  storing it. Two sides that answer at once do not see each other and no discrepancy alert
  goes out (`missed`).
- *Greetings.* A greeting claimed by a process that stops stays PROCESSING.
- *Daily jobs.* The last installment, due 24 hours after the event, is not chased
  because the event is archived by then. A reminder whose message fails is not
  repeated that day: the claim is not given back. Two instances can both send the
  summary.
- *Check-in.* A queued save that is synced later overwrites a newer one made online
  (`raced`).
- *Prices.* PricesAddUp says which writer leaves which sum: an edit or an addition the
  hall's, an upgrade or the production form that and the suppliers' (finding 8), unless the
  row changed under the computation of those two. An edit writes back the sum of live additions it read (`overrun`). The
  schema of an edit drops the discounts as well: the form's total counts them, the
  server's does not, so that an edit with a discount is refused; the form of an
  existing booking opens without its discount, and saving it loses the discount. Two
  additions at once wait for each other on the booking and one fails.
- *Numbers.* A counter written back from an older read gives out numbers again
  (`rewound`); the unique index then refuses bookings until the counter has passed
  them or a server starts. An option whose number stands on an event cannot be
  converted. Options of several dates can deadlock through the settings row.
- *Calendar on screens.* A screen told before the commit or before the clearing may
  show the older month; an answer stored after a clearing, Redis being away, the
  archive and the writers that announce only leave a stale copy for up to its hour of life
  (`tainted`, `misled`). The repairs of option dates (`helpers.ts:76-127`, from
  `bookingOptions.service.ts:99, 300` and the lists) change the status of a date and
  neither announce it nor clear the copy: copy and screens stay as they were.
- *Settings.* The tab of the payment templates is filled once and saves what it then
  had over what others saved since; a page that has missed an announcement, or that
  is saved before its fetch is answered, writes older values back (`overlaid`). A
  fetch that brings new data replaces the draft with what was typed into it. An edit
  whose price of a portion was cleared is refused, because the browser counts it as 0
  and the server by the stored price.
- *Signatures.* A request that had read the row before another wrote it takes the
  other's signature off again, and a form opened before the signing, which says that
  the contract is not signed, clears what it does not have (`wiped`). An edit that
  changes the type of event while a signature is being stored leaves the flag of the
  other type (`retyped`). When printing fails after the signature was stored, the
  answer is an error and the screen stays as before.
- *Gallery.* A request that fails leaves the files it stored, or deletes the files of
  a row it then does not update (`torn`); two that cross leave the files of the one
  overwritten (`litter`).
- *Inbox.* A message that is counted between the two statements of a listing, does not
  fit on the page, or whose answer is lost or late, is taken off the counter unseen
  (`overlooked`). A reply sets WaitingForCustomer over a message that came after it was
  queued (`outrun`).
- *Production form.* The answer for one booking fills the editor of another opened
  meanwhile (`strayed`); the menu and the check image of the previous booking stay
  in the editor (`carried`); a check that is still being read when another booking is
  opened lands in that one's form, image and details, and is saved with it (`misread`,
  `EventFormManager.tsx:621-646, 1719-1724`); the answer of a save closes the editor of
  another booking.

## 6. Proofs

All theorems are proved from the named assumptions of the modules alone, for any
sets and bounds. The argument is always the same: an inductive invariant holds
initially, is kept by every step, and implies the property; the temporal step is
one use of PTL. What differs is the strengthening. (TLC checks IndInv itself, in the
run Hall.) No theorem has a premise on the traffic.

| Module | Theorem | States |
|---|---|---|
| `EventCalendarProofs` | `Inductive`, `TypeCorrect`, `NoDoubleBookings`, `LockedRowsStay` | `Spec => []` IndInv, TypeOK, NoDoubleBooking, LockedRowsRemain |
| | `ConversionsSpareEvents`, `JobDeletesExpired`, `CheckingStaysExclusive` | the action properties ConversionSparesEvents, JobDeletesOnlyExpired, CheckingIsExclusive |
| | `CalendarAlwaysAgrees`, `RulesOfTheDay` | CalendarAgrees, RulesKept |
| | `ImplementsRegister` | `Spec => IsRegister` |
| `WhatsAppProofs` | `TypeCorrect`, `SentOnce`, `CancelledIsNotSent`, `UnreadIsBounded` | TypeOK, SentOnceUnlessFault, CancelledNeverSent, CountedOnce |
| | `OneCopyForEachFault`, `HandledReaches`, `LoweringIsCrossing` | OneCopyPerFault, HandledReachesManager, StatusFallsOnlyByCrossing |
| | `ImplementsDelivery` | `Spec => IsDelivery` |
| `PaymentProofs` | `TotalFollowsLedger`, `PaidInvoiceHasRow`, `OneTaxDocument` | TotalIsLedger, PaidInvoiceOnLedger, OneReceipt |
| | `LedgerIsWhatWasPaid`, `InvoicesStayWithinHall` | LedgerHoldsPayments, NeverOverInvoiced |
| | `ImplementsBook` | `PaymentSpec => IsBook` |
| | `PaymentTypes` | PaymentTypeOK |
| `FeedbackProofs` | `OneLinkPerClaim`, `DiscrepancyReachesManager` | LinkOncePerClaim, DiscrepancyIsTold |
| | `FeedbackTypes` | FeedbackTypeOK |
| `FileProofs` | `PricesAlwaysAddUp`, `FormsNotMixed`, `ScreensAreFresh` | PricesAddUp, FormOfOneBooking, ScreenFresh |
| | `EventCodesNumberOnOneBooking` | NumberOnOneBooking |
| | `FileTypes`, `FormTypes`, `CachesTyped`, `NumberTypes` | FileTypeOK, FormTypeOK, CacheTypeOK, NumberTypeOK |
| `JobsProofs` | `OneReminderADay`, `SentOutOnce`, `CancelledStaysQuiet`, `QueueKeepsLastSave` | RemindedOncePerDay, GreetingOnce, CancelledIsQuiet, LastSaveKept |
| | `JobsTypes`, `GreetingTypes`, `CheckInTypes` | JobsTypeOK, GreetingTypeOK, CheckInTypeOK |
| `OfficeProofs` | `GalleryFilesMatch`, `SigningContractHolds` | FilesMatchRows, ContractHolds |
| | `InboxAnswerAwaited`, `InboxUnreadIsUnseen` | AnswerAwaited, UnreadIsUnseen |
| | `QuotationSettingKept`, `QuotationQuoteAccepted` | SettingKept, QuoteAccepted |
| | `GalleryTypes`, `SigningTypes`, `InboxTypes`, `QuoteTypes` | GalleryTypeOK, SigningTypeOK, InboxTypeOK, QuoteTypeOK |
| `BackOfficeProofs` | `BackOfficeParts` | `Spec` of `MCBackOffice` implies the specification of each of the thirteen parts |
| | `BackOfficeTypes`, `BackOfficeSafety` | TypeOK, and all the safety properties of the BackOffice run together |

CancelledNeverSent and PaidInvoiceOnLedger are in no run of their own: IsDelivery and
IsBook say as much, and they are lemmas on the way.

*Assumptions.* The constants are arbitrary sets but for what a proof needs and the code
gives: days, amounts and bounds are natural numbers; the sets that are counted (events of
WhatsApp, invoices, officers) are finite, since a database holds finitely many rows; the
markers for "none" are not members of the sets they stand beside; a status event names
one of the sends the outbox numbers from 1; the ids of hall invoices, which EasyCount
gives out, are not ids of its receipts (which the model numbers); a stored contract says it is signed only where
isContractFullySigned does, which `Signing` shows of every write; an option has neither
advance nor total, since createBooking stores neither for it.

*EventCalendar.* Even type correctness is not inductive by itself: a conversion
writes a row it checked two steps earlier, and only the row locks say that the
row is still there. `IndInv` is TypeOK and NoDoubleBooking with

- `EditKnowsDate`: the date an edit remembers is its booking's (ids are not
  reused and no booking changes its date);
- `LocksHeld`, `DateLocksExclusive`: which date rows a handler holds at each
  stage, and that no two hold the same;
- `RowLocksExclusive`, `LockedRowsRemain`: the same for booking rows, and that
  a locked row stays;
- `ConvertSlotHeld`: from the slot check of a conversion to its commit, nobody
  puts a booking on that slot, although the check is a step of its own;
- `DoomedAreOptions`: what a conversion has deleted remains an option of its
  group until the commit.

`CalendarWriters`, `BookingWriters` and `RequestWriters` split `Next` by what
changes. The `...Effect` lemmas say what each writer does to the booking table,
and `RowsContinue` sums them up: a row keeps its date and its firmness, ids are
fresh. `LockedRowsUntouched` and `ConvertSlotUntouched` are the two
non-interference facts. NoDoubleBooking is then preserved because an insert
follows a check under the date's lock (`InsertOnKeepsIndex`), an edit moves
within a date it has locked (`MoveKeepsIndex`, `EditKnowsDate`), a conversion has
`ConvertSlotHeld`, and a group edit is admitted by the unique index only. For the
refinement the witness of a step is what disappeared and what appeared in `Live`.

`CalendarInv` adds what the status of a date depends on: `JobKnows` (what the job has
found is still past retention, or over, when it writes: dates only grow older),
`LockNamesEmployee`, `BookingsHaveRows` and `ArchivedArePast`. CheckingStaysExclusive goes
by what a step does to one row of the calendar (`RowsWritten`) and by who makes an event
(`ConfirmedIsBooked`): all but a conversion make the date BOOKED in the same transaction,
and a conversion that does not is the one the property names (`ConvertedDate`). `RulesInv`
adds `RequestChecked`: a slot that a handler was given, and carries past its check, is one
the rules permit for the type it was checked for, and that is the type it was given, if
any. So what is edited keeps the rules (`EditedKeepsRules`), unless no slot was given.

*WhatsApp.* `OutboxInv` says where a row can be while a worker holds it: without a
fault at most one worker holds a message, its row is Processing, and before the
send no copy has gone out. `CopyInv` does the same with faults: the copies made, one
more if the row waits for a worker (`Base`), and the workers that may still send it
(`Senders`) are together at most one more than the faults (`Paced`). A step either
falls, yields a sender for a copy, or adds a sender with a fault (`Falls`, `Yields`,
`Grows`). `HandlerInv` bounds the unread counter: a message is
counted by the handler that inserted it, so those between insertion and counting
make up the difference. For HandledReaches and LoweringIsCrossing `LedgerInv` has `AllSettled` (once
the ledger names a send, its row is Sent and no worker will write to the entry again)
and `FlowInv`: what an event has led to so far, by the place its handler is at
(`Recorded`, `Reached`, `Arrived`), and that a status about to be written is higher than
the one read (`Rising`) and is of the send the ledger names (`Matched`), so that what was
handled is never above the ledger (`Ranked`). A status that falls all the same was written
from a read the ledger has left behind (`LoweringStep`).

`ImplementsDelivery` goes by message: the lemmas `...Delivers` show that each action leaves
each message as it is, queued, sent for the first time, closed by what the customer has,
or withdrawn unsent (`Calmly`), or else has disturbed it (`Roughly`). They rest on what
`OutboxInv` says of a message without a fault (`Orderly`): its row is marked Sent only
after its copy went out, and Failed only if none did. How many copies a disturbed message
may have had is `OneCopyForEachFault`. What the incoming side adds (`WhatsApp`) either
enqueues or leaves the outbox alone.

*Payments.* `LedgerInv` (`Shape`, `OwnRows`, `Faithful`, `Aimed`, `Hooked`,
`Summed`) says which rows an open transaction has written, that what it read of
an invoice is still true where it matters, and that a sum taken in a transaction
that nobody crossed is the sum at commit. `ReceiptInv` (`Standing`, `Checked`,
`OneReceipt`) counts issues on their way. `LeastNatural` gives the first advance
row, from the well-foundedness of strict inclusion on finite sets.

`HoldsInv` is about the sum itself. `Sized` and `Kinds` are types by stage; `OptionIdle`
keeps money off options; `DocsApart` says that no document stands on two rows, also
among the rows that open transactions have in hand; `Balanced` that, without one of the
excuses, the ledger is either empty or the agreed advance as one row plus what was
received; `WorksFit` that each open transaction brings one of three things: the first rows
with its own payment, one payment on a new row, or the agreed advance again, which
changes nothing. `BalanceInv` says of invoices that a caller which has checked the
balance, and since then nothing was stored, still fits in.

`ImplementsBook` needs `BookInv`: which documents a caller can have in hand (a receipt's
number for the advance, an invoice's id for a payment), that the rows of one transaction
repeat no document (`Unrepeated`), and that the only row written a second time is the
advance (`Restates`). `LedgerMoves` says that only a commit changes the ledger, and
`CommitWrites` that a commit keeps the number, source and document of every row. That
no document is on two rows of different transactions is `DocsApart`; that a paid invoice
has its row is `LedgerInv`.

Sums are folds over sets, and their laws would be proved by induction, whose theorem
takes an operator. They are proved by a smallest counterexample instead: the subsets of
a finite set for which a law fails have a minimal element by the well-foundedness of
strict inclusion (WellFoundedInduction), and removing one element contradicts it. That
gives the sum with and without an element (`AmountWith`, `AmountWithout`), of a part
(`TotalPart`) and under other weights (`TotalSame`).

*Feedback.* `FeedbackInv` (`SurveyShape`, `Stamped`, `CopiesCounted`) compares the claim
a sweep wrote with the time its backoff ends; `AlertInv` (`Made`, `Alone`,
`AnswersPending`) says that of two answers the second reads the first.

*Greetings and check-in.* `GreetingInv` (`GreetingShape`, `GreetingClaims`,
`Confirmed`): a greeting that waits has never gone out and no two runs have the same one
in hand. `CheckInInv` (`NothingOlder`, `RunsKeep`) relates what each run of the sync still
has to send with the queue.

*The booking's file, forms and screens.* `FileInv`: whoever sums additions holds the row
and sees it as it is (`HolderSeesRow`). `FormInv`: what is stored,
answered, posted, or in an editor whose answer has come (`EditorOwn`) is the
booking's own, or excused, and excuses are never taken back (`OwnStays`). `CacheInv`: the copy is no older than the last clearing and after a commit
a clearing is to come (`Copies`); a screen that is behind and waits for no answer will
be told, and none is satisfied while a change was announced and not committed (`Seen`). The
plans a change can still have are the tails of the three orders of the code
(`CommitFirst`, `TellFirst`, `TellOnly`), so a step is known by its plan.

*Daily jobs.* `ReminderInv`: the column lastReminder admits one sender a day
(`OneSender`), a day that is claimed is being served (`Claimed`), and a payment
found overdue is pursued until the day ends (`Pursued`), which needs that no
instance works on reminders before its job (`RemindersAtWork`) and nothing has happened on
days to come (`Ahead`).

*The office.* `GalleryInv`: a file has one owner, the request that stored it and then
the row (`OneOwner`), every file is owned, replaced or excused (`Accounted`), and no two
requests create the same row (`OneCreator`). `ContractInv` is the property with types:
signatures and their excuses are decided in one write. `InboxInv`: the counter is at
least the number of messages that no screen has had and none is about to show
(`CountsUnseen`). `QuoteInv`: a screen that waits for no fetch and has missed no
announcement has the row as it is (`CopyFresh`); then the two totals are the same
function of the same numbers, which is arithmetic on the rounding of the VAT.

*Numbers.* `NumberInv`: `StepOK` says for each stage which rows a request holds and that
its number is above the counter, or may be given out again; only one request has the
settings row (`Live`), and a number allocated without a transaction is nobody else's
until it is used (`LoneApart`).

*Types.* Each type invariant says more than types, and few are inductive. That of the
payments rests on four invariants of the ledger: a commit writes the total a caller
summed and a webhook the status it was notified of. That of the survey needs `MadeFirst`
(nobody claims, stores or answers a row before the rows are made); that of the greetings
`AtMostOneCard` (a run takes its batch one by one); that of the check-in counts every
save up to the last (`UpTo`); that of the cache that the answers on their way stay a bag
(`BagAdds`, `BagTakes`). The others follow from the invariants above.

*The back office together.* `MoneySteps`, `OfficeSteps` and `GuestsSteps` say that a step
of the composition is, for each part, a step of it or leaves its variables alone. So a
behaviour of the whole is one of each part (`BackOfficeParts`), and what is proved of the
parts holds of the whole, for any constants and not only those of the run.

*Only model-checked.* Liveness and everything under fairness, because the provers do not
handle ENABLED: EveryRequestAnswered, BookedPastIsArchived, RetentionEnforced,
OutboxDrains and StoredIsRecorded. The instances of the eight findings. Every invariant
and every refinement of the passing runs has its theorem.

## 7. Not modelled

- *WhatsApp*: template status events, the choice of the tenant, the length of
  delays and the batch size, the daily automations, which only enqueue under a
  dedupe key, the older flow's direct forward.
- *Feedback*: events with one side, the scan window and the due time, the three
  categories as more than one rating.
- *Greetings*: attachments, the batch of ten. *Check-in*: a request served long
  after it failed, a second tablet, getOrCreate, reports.
- *Payments*: a hall amount that changes, paymentStatus and the deadline (functions
  of what is modelled), the contents of documents, the mock provider.
- *Prices*: the other upgrades and kashrut prices, which are added the same way;
  fractions of amounts. *Settings*: menus, employees and the rest of the page, which
  the draft carries like the prices. *Contracts*: the text and the printed page.
  *Gallery*: names, categories, hidden designs, the local store. *Inbox*: the list of
  conversations and its filters. *Production form*: tables, notes,
  the email's claim.
- *Realtime*: other events than the calendar's; they have no cached copy.
- *Daily jobs*: the reminders of 09:00, kashrut alerts, backups.
- Authentication and roles, PDF, translations, menus, and the other pages: rendering, stateless checks and single-row writes. They are
  most of the repository's lines, which is why the models cover a small share of
  all lines and most of those that have a protocol.
- The texts of messages, the Hebrew calendar, time zones (days are whole).
