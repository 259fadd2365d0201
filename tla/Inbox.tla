-------------------------------- MODULE Inbox --------------------------------
(***************************************************************************)
(* The inbox of the staff (conversation.service, whatsapp.controller,       *)
(* WhatsAppInbox.tsx) over the conversations that customers write into:     *)
(* opening one lists its newest messages and then marks it as read; a reply *)
(* is queued and then the conversation waits for the customer.  What the     *)
(* webhook and the outbox do before and after is in WhatsApp.                *)
(***************************************************************************)
EXTENDS Naturals, Sequences, FiniteSets

CONSTANTS
    Agents,      \* members of the staff with the inbox open
    Threads,     \* conversations
    PageLimit,   \* messages that one listing returns
    Inboxes,     \* the traffic mixes: records of the fields read below
    NoThread     \* nothing is selected

ASSUME InboxAssumption ==
    /\ PageLimit \in Nat \ {0} /\ NoThread \notin Threads
    /\ Inboxes \subseteq [arrivals : Nat, opens : Nat, replies : Nat, hands : Nat, faults : Nat]

VARIABLES
    inbox,       \* bounds of this behaviour
    thread,      \* the conversation rows
    log,         \* the messages of each conversation, in the order of their rows
    tallied,     \* the incoming ones whose conversation was updated
    selected,    \* the conversation each member of the staff has on the screen
    listings,    \* requests for messages that are not answered
    reply,       \* the reply each member of the staff waits for
    shown,       \* history: messages that were on a screen under their conversation
    overlooked,  \* history: messages marked as read that came to no screen
    outrun      \* history: conversations whose status was written over a message

inboxVars == <<inbox, thread, log, tallied, selected, listings, reply, shown, overlooked, outrun>>

Statuses == {"Unassigned", "Assigned", "WaitingForCustomer", "WaitingForManager", "Closed"}
NoReply == [at |-> "none", of |-> NoThread, place |-> 0]

InboxInit ==
    /\ inbox \in Inboxes
    /\ thread = [t \in Threads |-> [status |-> "Unassigned", unread |-> 0, open |-> FALSE]]
    /\ log = [t \in Threads |-> <<>>] /\ tallied = [t \in Threads |-> {}]
    /\ selected = [a \in Agents |-> NoThread]
    /\ listings = {} /\ reply = [a \in Agents |-> NoReply]
    /\ shown = {} /\ overlooked = {} /\ outrun = {}

Spend(what) == inbox[what] > 0 /\ inbox' = [inbox EXCEPT ![what] = @ - 1]

(***************************************************************************)
(* A message of the customer: a row, then an update of its conversation.   *)
(***************************************************************************)

\* Mutant: a conversation that has been worked on keeps its status.
KeepStatus(status) == IF status = "Unassigned" THEN "WaitingForManager" ELSE status

AfterInbound(status) == "WaitingForManager"

InsertMessage(t) ==
    /\ Spend("arrivals")
    /\ log' = [log EXCEPT ![t] = Append(@, "Inbound")]
    /\ UNCHANGED <<thread, tallied, selected, listings, reply, shown, overlooked, outrun>>

TallyMessage(t, i) ==
    /\ i \in DOMAIN log[t] \ tallied[t] /\ log[t][i] = "Inbound"
    /\ tallied' = [tallied EXCEPT ![t] = @ \cup {i}]
    /\ thread' = [thread EXCEPT ![t] =
           [status |-> AfterInbound(@.status), unread |-> @.unread + 1, open |-> TRUE]]
    /\ UNCHANGED <<inbox, log, selected, listings, reply, shown, overlooked, outrun>>

\* isWithinCustomerCareWindow: 24 hours pass.
CareWindowCloses(t) ==
    /\ thread[t].open /\ thread' = [thread EXCEPT ![t].open = FALSE]
    /\ UNCHANGED <<inbox, log, tallied, selected, listings, reply, shown, overlooked, outrun>>

(***************************************************************************)
(* listConversationMessages                                                *)
(***************************************************************************)

Listing(a, t) == [by |-> a, of |-> t, at |-> "sent", rows |-> 0]

\* Mutant: the oldest messages are returned.
OldestOf(l) == {<<l.of, i>> : i \in {j \in 1..l.rows : j <= PageLimit}}

\* The newest of the messages there were at the read.
PageOf(l) == {<<l.of, i>> : i \in {j \in 1..l.rows : j > l.rows - PageLimit}}

OpenThread(a, t) ==
    /\ selected[a] # t /\ Spend("opens")
    /\ selected' = [selected EXCEPT ![a] = t]
    /\ listings' = listings \cup {Listing(a, t)}
    /\ UNCHANGED <<thread, log, tallied, reply, shown, overlooked, outrun>>

ReadMessages(l) ==
    /\ l.at = "sent"
    /\ listings' = (listings \ {l}) \cup {[l EXCEPT !.at = "read", !.rows = Len(log[l.of])]}
    /\ UNCHANGED <<inbox, thread, log, tallied, selected, reply, shown, overlooked, outrun>>

\* markConversationRead, whatever has come since the messages were read, and however
\* many they were.
MarkRead(l) ==
    /\ l.at = "read"
    /\ listings' = (listings \ {l}) \cup {[l EXCEPT !.at = "marked"]}
    /\ thread' = [thread EXCEPT ![l.of].unread = 0]
    /\ overlooked' = overlooked \cup
           {<<l.of, i>> : i \in {j \in tallied[l.of] : j > l.rows \/ j + PageLimit <= l.rows}}
    /\ UNCHANGED <<inbox, log, tallied, selected, reply, shown, outrun>>

\* The answer fills the screen, whatever is selected by then.
ShowMessages(l) ==
    /\ l.at = "marked" /\ listings' = listings \ {l}
    /\ IF selected[l.by] = l.of
       THEN shown' = shown \cup PageOf(l) /\ UNCHANGED overlooked
       ELSE overlooked' = overlooked \cup PageOf(l) /\ UNCHANGED shown
    /\ UNCHANGED <<inbox, thread, log, tallied, selected, reply, outrun>>

\* A statement fails, or the answer is lost.
ListingFails(l) ==
    /\ Spend("faults") /\ listings' = listings \ {l}
    /\ overlooked' = IF l.at = "marked" THEN overlooked \cup PageOf(l) ELSE overlooked
    /\ UNCHANGED <<thread, log, tallied, selected, reply, shown, outrun>>

(***************************************************************************)
(* sendMessageInConversation                                               *)
(***************************************************************************)

SendReply(a) ==
    /\ selected[a] # NoThread /\ reply[a] = NoReply /\ Spend("replies")
    /\ reply' = [reply EXCEPT ![a] = [at |-> "sent", of |-> selected[a], place |-> 0]]
    /\ UNCHANGED <<thread, log, tallied, selected, listings, shown, overlooked, outrun>>

\* queueWhatsAppMessage: free text within the window of care only.
StoreReply(a) ==
    /\ reply[a].at = "sent"
    /\ LET t == reply[a].of IN
       IF thread[t].open
       THEN /\ log' = [log EXCEPT ![t] = Append(@, "Outbound")]
            /\ reply' = [reply EXCEPT ![a].at = "stored", ![a].place = Len(log[t]) + 1]
       ELSE reply' = [reply EXCEPT ![a] = NoReply] /\ UNCHANGED log
    /\ UNCHANGED <<inbox, thread, tallied, selected, listings, shown, overlooked, outrun>>

\* The status is written over that of a message that has come since; the inbox lists the
\* messages again.
AwaitCustomer(a) ==
    /\ reply[a].at = "stored"
    /\ LET t == reply[a].of IN
       /\ thread' = [thread EXCEPT ![t].status = "WaitingForCustomer"]
       /\ outrun' = IF \E i \in tallied[t] : i > reply[a].place THEN outrun \cup {t}
                                                               ELSE outrun \ {t}
       /\ listings' = listings \cup {Listing(a, t)}
    /\ reply' = [reply EXCEPT ![a] = NoReply]
    /\ UNCHANGED <<inbox, log, tallied, selected, shown, overlooked>>

\* A statement of the request fails; a stored reply goes out all the same.
ReplyFails(a) ==
    /\ reply[a] # NoReply /\ Spend("faults")
    /\ reply' = [reply EXCEPT ![a] = NoReply]
    /\ UNCHANGED <<thread, log, tallied, selected, listings, shown, overlooked, outrun>>

\* assignConversation and setConversationStatus, which no screen calls.
SetStatus(t, status) ==
    /\ Spend("hands")
    /\ thread' = [thread EXCEPT ![t].status = status]
    /\ outrun' = outrun \cup {t}
    /\ UNCHANGED <<log, tallied, selected, listings, reply, shown, overlooked>>

InboxNext ==
    \/ \E t \in Threads :
          \/ InsertMessage(t) \/ CareWindowCloses(t)
          \/ \E i \in DOMAIN log[t] : TallyMessage(t, i)
          \/ \E status \in Statuses : SetStatus(t, status)
          \/ \E a \in Agents : OpenThread(a, t)
    \/ \E l \in listings : ReadMessages(l) \/ MarkRead(l) \/ ShowMessages(l) \/ ListingFails(l)
    \/ \E a \in Agents : SendReply(a) \/ StoreReply(a) \/ AwaitCustomer(a) \/ ReplyFails(a)

InboxSpec == InboxInit /\ [][InboxNext]_inboxVars

Places == {<<t, i>> : t \in Threads, i \in Nat}
InboxTypeOK ==
    /\ inbox \in [arrivals : Nat, opens : Nat, replies : Nat, hands : Nat, faults : Nat]
    /\ thread \in [Threads -> [status : Statuses, unread : Nat, open : BOOLEAN]]
    /\ \A t \in Threads : tallied[t] \subseteq DOMAIN log[t]
    /\ selected \in [Agents -> Threads \cup {NoThread}]
    /\ listings \subseteq [by : Agents, of : Threads, at : {"sent", "read", "marked"}, rows : Nat]
    /\ reply \in [Agents -> [at : {"none", "sent", "stored"}, of : Threads \cup {NoThread},
                             place : Nat]]
    /\ outrun \subseteq Threads

\* A message of a customer that was on no screen is still counted as unread, or is on its
\* way to a screen; unless it came between the two statements of a listing, did not fit on
\* its page, or the answer was lost or came when another conversation was selected.
UnreadIsUnseen ==
    \A t \in Threads :
        LET unseen == {i \in tallied[t] : <<t, i>> \notin shown \cup overlooked}
            coming == {l \in listings : l.of = t /\ l.at = "marked"}
        IN  Cardinality({i \in unseen : \A l \in coming : <<t, i>> \notin PageOf(l)})
                <= thread[t].unread

\* A conversation that waits for the customer was answered after all of the customer's
\* messages, unless one came while the answer was being queued.
AnswerAwaited ==
    \A t \in Threads \ outrun : thread[t].status = "WaitingForCustomer" =>
        \A i \in tallied[t] : \E j \in DOMAIN log[t] : j > i /\ log[t][j] = "Outbound"
=============================================================================
