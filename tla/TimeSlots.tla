------------------------------ MODULE TimeSlots ------------------------------
(***************************************************************************)
(* The three slots of an event day and the weekday rules on them           *)
(* (utils/timeSlot.ts).  A booking row stores its slot twice, as the text   *)
(* timeOfDay ("evening|18:00 - 00:00") and as the column timeSlot; every    *)
(* writer derives both from one normalised slot, so the model keeps one     *)
(* value.                                                                   *)
(***************************************************************************)
EXTENDS Naturals

Slots == {"morning", "noon", "evening"}

Weekdays == {"weekday", "friday", "saturday"}

\* Friday takes a morning event only, Saturday an evening event only.
BlockedSlots(weekday) ==
    CASE weekday = "friday"   -> {"noon", "evening"}
      [] weekday = "saturday" -> {"morning", "noon"}
      [] OTHER                -> {}

\* The slots of a day that are neither blocked nor taken.
BookableSlots(weekday, taken) == Slots \ (BlockedSlots(weekday) \cup taken)
==============================================================================
