----------------------------- MODULE MCWhatsApp -----------------------------
(***************************************************************************)
(* Instances of WhatsApp for TLC: one customer, two inbound messages, the  *)
(* notices and the auto-reply they lead to, two messages requested by      *)
(* staff or by the daily automations, and three statuses of a first send.  *)
(***************************************************************************)
EXTENDS WhatsApp

CONSTANTS c1, i1, i2, w1, w2, h1, h2

Inbound(i) == [kind |-> "message", id |-> i, from |-> c1]
Template(k) == [kind |-> "template", key |-> k]

MCInbound == {Inbound(i1), Inbound(i2)}
MCMessages == {Template(1), Template(2), AutoReply(c1)} \cup {Notice(e) : e \in MCInbound}
MCStatuses == {[kind |-> "status", m |-> Template(1), k |-> 1, s |-> s] :
                  s \in {"Delivered", "Read", "Failed"}}
MCEvents == MCInbound \cup MCStatuses

Quiet == [requests |-> {}, cancels |-> FALSE, workers |-> {}, events |-> {},
          servers |-> {}, jobs |-> {}, async |-> FALSE, automation |-> FALSE,
          legacy |-> FALSE, closes |-> FALSE, cleanup |-> FALSE, faults |-> 0]

\* Two instances drain the outbox with one message and two faults; one instance
\* with two messages in its batch and one fault.
OneMessage == [Quiet EXCEPT !.requests = {Template(1)}, !.cancels = TRUE,
                            !.workers = {w1, w2}, !.faults = 2]
TwoMessages == [Quiet EXCEPT !.requests = {Template(1), Template(2)},
                             !.workers = {w1}, !.faults = 1]
\* One send and its statuses, served and retried by two processes.
Statuses == [Quiet EXCEPT !.requests = {Template(1)}, !.workers = {w1},
                          !.events = MCStatuses, !.servers = {h1, h2}, !.jobs = {h2}]
\* Two messages of a customer, the automation, redelivery after the retention.
Conversation == [Quiet EXCEPT !.events = MCInbound, !.servers = {h1}, !.jobs = {h2},
                              !.automation = TRUE, !.closes = TRUE, !.cleanup = TRUE,
                              !.faults = 1]
\* The same left to the job, with two faults on one message.
Queued == [Quiet EXCEPT !.events = {Inbound(i1)}, !.servers = {h1}, !.jobs = {h1, h2},
                        !.async = TRUE, !.automation = TRUE, !.faults = 2]
\* The older flow after the inline handling, with two requests at once.
Legacy == [Quiet EXCEPT !.events = MCInbound, !.servers = {h1, h2}, !.legacy = TRUE]

\* Two handlers of one message's statuses, for HigherStatusStands.
MCCrossing == {Statuses}

MCTraffics == {OneMessage, TwoMessages, Statuses, Conversation, Queued, Legacy}
==============================================================================
