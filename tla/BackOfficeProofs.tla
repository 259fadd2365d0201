--------------------------- MODULE BackOfficeProofs ---------------------------
(***************************************************************************)
(* Theorems about the parts of the back office together, as MCBackOffice   *)
(* composes them: for every value of the constants, with as many people,   *)
(* instances, bookings and amounts as there are.                           *)
(*                                                                         *)
(* A behaviour of the whole is a behaviour of each part: it begins as the  *)
(* part does, and a step of another part leaves the part's variables       *)
(* alone.  What holds of a part therefore holds of the whole.              *)
(***************************************************************************)
EXTENDS MCBackOffice, PaymentProofs, FeedbackProofs, FileProofs, JobsProofs, OfficeProofs

vars == <<part, moneyVars, guestsVars, officeVars>>

\* A step of the whole is one of the money, the numbers, the file and the form, or
\* leaves them alone.
LEMMA MoneySteps ==
    ASSUME [Next]_vars
    PROVE  /\ [PaymentNext]_paymentVars
           /\ [NumberNext]_numberVars
           /\ [FileNext]_fileVars
           /\ [FormNext]_formVars
<1>1. CASE UNCHANGED vars
  BY <1>1 DEF vars, moneyVars, guestsVars, officeVars
<1>2. CASE MoneyNext /\ UNCHANGED <<guestsVars, officeVars>>
  BY <1>2 DEF MoneyNext, guestsVars, officeVars
<1>3. CASE OfficeNext /\ UNCHANGED <<moneyVars, guestsVars>>
  BY <1>3 DEF OfficeNext, moneyVars, guestsVars
<1>4. CASE GuestsNext /\ UNCHANGED <<moneyVars, officeVars>>
  BY <1>4 DEF GuestsNext, moneyVars, officeVars
<1> QED BY <1>1, <1>2, <1>3, <1>4 DEF Next

\* A step of the whole is one of the quotations, the contract, the gallery and the inbox, or
\* leaves them alone.
LEMMA OfficeSteps ==
    ASSUME [Next]_vars
    PROVE  /\ [QuoteNext]_quoteVars
           /\ [SigningNext]_signingVars
           /\ [GalleryNext]_galleryVars
           /\ [InboxNext]_inboxVars
<1>1. CASE UNCHANGED vars
  BY <1>1 DEF vars, moneyVars, guestsVars, officeVars
<1>2. CASE MoneyNext /\ UNCHANGED <<guestsVars, officeVars>>
  BY <1>2 DEF MoneyNext, guestsVars, officeVars
<1>3. CASE OfficeNext /\ UNCHANGED <<moneyVars, guestsVars>>
  BY <1>3 DEF OfficeNext, moneyVars, guestsVars
<1>4. CASE GuestsNext /\ UNCHANGED <<moneyVars, officeVars>>
  BY <1>4 DEF GuestsNext, moneyVars, officeVars
<1> QED BY <1>1, <1>2, <1>3, <1>4 DEF Next

\* A step of the whole is one of the survey, the greetings, the check-in, the calendar
\* and the jobs, or leaves them alone.
LEMMA GuestsSteps ==
    ASSUME [Next]_vars
    PROVE  /\ [FeedbackNext]_feedbackVars
           /\ [GreetingNext]_greetingVars
           /\ [CheckInNext]_checkInVars
           /\ [CacheNext]_cacheVars
           /\ [JobsNext]_jobVars
<1>1. CASE UNCHANGED vars
  BY <1>1 DEF vars, moneyVars, guestsVars, officeVars
<1>2. CASE MoneyNext /\ UNCHANGED <<guestsVars, officeVars>>
  BY <1>2 DEF MoneyNext, guestsVars, officeVars
<1>3. CASE OfficeNext /\ UNCHANGED <<moneyVars, guestsVars>>
  BY <1>3 DEF OfficeNext, moneyVars, guestsVars
<1>4. CASE GuestsNext /\ UNCHANGED <<moneyVars, officeVars>>
  BY <1>4 DEF GuestsNext, moneyVars, officeVars
<1> QED BY <1>1, <1>2, <1>3, <1>4 DEF Next

\* The whole begins as every part does.
LEMMA Beginnings ==
    ASSUME Init
    PROVE  /\ PaymentInit /\ NumberInit /\ FileInit /\ FormInit
           /\ QuoteInit /\ SigningInit /\ GalleryInit /\ InboxInit
           /\ FeedbackInit /\ GreetingInit /\ CheckInInit /\ CacheInit /\ JobsInit
BY DEF Init

\* Every behaviour of the back office is a behaviour of each of its parts.
THEOREM BackOfficeParts ==
    Spec => /\ PaymentSpec /\ NumberSpec /\ FileSpec /\ FormSpec
            /\ QuoteSpec /\ SigningSpec /\ GallerySpec /\ InboxSpec
            /\ FeedbackSpec /\ GreetingSpec /\ CheckInSpec /\ CacheSpec /\ JobsSpec
<1>1. Spec => PaymentSpec /\ NumberSpec /\ FileSpec /\ FormSpec
  BY Beginnings, MoneySteps, PTL
     DEF Spec, vars, PaymentSpec, NumberSpec, FileSpec, FormSpec
<1>2. Spec => QuoteSpec /\ SigningSpec /\ GallerySpec /\ InboxSpec
  BY Beginnings, OfficeSteps, PTL
     DEF Spec, vars, QuoteSpec, SigningSpec, GallerySpec, InboxSpec
<1>3. Spec => FeedbackSpec /\ GreetingSpec /\ CheckInSpec /\ CacheSpec /\ JobsSpec
  BY Beginnings, GuestsSteps, PTL
     DEF Spec, vars, FeedbackSpec, GreetingSpec, CheckInSpec, CacheSpec, JobsSpec
<1> QED BY <1>1, <1>2, <1>3

\* The type invariant of every part of the back office holds, whichever part is at work.
THEOREM BackOfficeTypes == Spec => []TypeOK
<1>1. Spec => /\ []PaymentTypeOK /\ []NumberTypeOK /\ []FileTypeOK /\ []FormTypeOK
              /\ []QuoteTypeOK /\ []SigningTypeOK /\ []GalleryTypeOK /\ []InboxTypeOK
              /\ []FeedbackTypeOK /\ []GreetingTypeOK /\ []CheckInTypeOK /\ []CacheTypeOK
              /\ []JobsTypeOK
  BY BackOfficeParts, PaymentTypes, NumberTypes, FileTypes, FormTypes, QuoteTypes, SigningTypes,
     GalleryTypes, InboxTypes, FeedbackTypes, GreetingTypes, CheckInTypes, CachesTyped, JobsTypes
<1>2. PaymentTypeOK /\ NumberTypeOK /\ FileTypeOK /\ FormTypeOK /\ QuoteTypeOK /\ SigningTypeOK
      /\ GalleryTypeOK /\ InboxTypeOK /\ FeedbackTypeOK /\ GreetingTypeOK /\ CheckInTypeOK
      /\ CacheTypeOK /\ JobsTypeOK => TypeOK
  BY DEF TypeOK
<1> QED BY <1>1, <1>2, PTL

\* What holds of the parts holds together: the money and its documents, the numbers
\* and prices of the booking and what is shown of it, the contract, the quotations and
\* the gallery, the inbox, and what the jobs send and the tablet saves.
THEOREM BackOfficeSafety ==
    Spec => /\ IsBook
            /\ [](/\ TotalIsLedger /\ LedgerHoldsPayments /\ PaidInvoiceOnLedger
                  /\ NeverOverInvoiced /\ OneReceipt)
            /\ [](/\ NumberOnOneBooking /\ PricesAddUp /\ FormOfOneBooking /\ ScreenFresh)
            /\ [](/\ SettingKept /\ QuoteAccepted /\ ContractHolds /\ FilesMatchRows
                  /\ UnreadIsUnseen /\ AnswerAwaited)
            /\ [](/\ LinkOncePerClaim /\ DiscrepancyIsTold /\ GreetingOnce /\ CancelledIsQuiet
                  /\ LastSaveKept /\ RemindedOncePerDay)
<1>1. Spec => IsBook
  BY BackOfficeParts, ImplementsBook
<1>2. Spec => [](/\ TotalIsLedger /\ LedgerHoldsPayments /\ PaidInvoiceOnLedger
                 /\ NeverOverInvoiced /\ OneReceipt)
  BY BackOfficeParts, TotalFollowsLedger, LedgerIsWhatWasPaid, PaidInvoiceHasRow,
     InvoicesStayWithinHall, OneTaxDocument, PTL
<1>3. Spec => [](/\ NumberOnOneBooking /\ PricesAddUp /\ FormOfOneBooking /\ ScreenFresh)
  BY BackOfficeParts, EventCodesNumberOnOneBooking, PricesAlwaysAddUp, FormsNotMixed,
     ScreensAreFresh, PTL
<1>4. Spec => [](/\ SettingKept /\ QuoteAccepted /\ ContractHolds /\ FilesMatchRows
                 /\ UnreadIsUnseen /\ AnswerAwaited)
  BY BackOfficeParts, QuotationSettingKept, QuotationQuoteAccepted, SigningContractHolds,
     GalleryFilesMatch, InboxUnreadIsUnseen, InboxAnswerAwaited, PTL
<1>5. Spec => [](/\ LinkOncePerClaim /\ DiscrepancyIsTold /\ GreetingOnce /\ CancelledIsQuiet
                 /\ LastSaveKept /\ RemindedOncePerDay)
  BY BackOfficeParts, OneLinkPerClaim, DiscrepancyReachesManager, SentOutOnce,
     CancelledStaysQuiet, QueueKeepsLastSave, OneReminderADay, PTL
<1> QED BY <1>1, <1>2, <1>3, <1>4, <1>5
=============================================================================
