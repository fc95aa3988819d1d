---------------------------- MODULE CampaignFanout ----------------------------
(* The fan-out of approved campaigns of one tenant (campaign/execute.py) over   *)
(* the customer send tool (agent/tools/send_whatsapp_template.py), with the     *)
(* operator's kill, the crashed-campaign sweep, customers who opt out or        *)
(* complain while a fan-out runs, and an owner who says STOP.                   *)
(*                                                                              *)
(* The pool is autocommit: an action is one statement, or a group of reads      *)
(* whose answers no write in between can make to disagree.                      *)
EXTENDS Naturals, FiniteSets

CONSTANTS
    Campaign,
    Customer,       \* every campaign has all of them as recipients
    Exec,           \* processes that can execute a campaign at the same time
    Nobody,
    GraphArmed,     \* campaigns approved on a legacy graph run: no status guard
    MaxRuns,        \* bound: executions of one campaign, replays included
    MaxDays,        \* bound: how often the contact interval elapses
    StatusReadsFail,\* whether a read of campaigns.status may fail
    CallsBlur       \* whether Twilio may take a message and the call still raise

ASSUME FanoutConstants ==
    /\ Nobody \notin Campaign \cup Customer
    /\ GraphArmed \subseteq Campaign
    /\ MaxRuns \in Nat /\ MaxDays \in Nat
    /\ StatusReadsFail \in BOOLEAN /\ CallsBlur \in BOOLEAN

Key == Campaign \X Customer     \* idempotency_key = campaign_id:customer_id
Pending == {"proposed", "approved"}

VARIABLES
    \* rows
    status,     \* campaigns.status
    ledger,     \* send_idempotency_keys.send_status of a pair, "none": no row
    old,        \* pairs whose row's created_at is past the TTL and the interval
    lastMsg,    \* age of the newest campaign_messages row: none, recent, quiet
    refused,    \* customers opted out or with an open complaint
    withdrawn,  \* tenants.opt_out
    \* executions
    pc, camp, todo, snap, cur,
    starts,     \* executions begun, per campaign
    days,
    \* what happened to the customers (history)
    delivered,  \* messages Twilio took, per pair
    blurred,    \* pairs with a message taken by a call that raised
    heard,      \* messages a customer got in the current interval
    killed,     \* campaigns an operator killed
    late,       \* messages of a campaign taken after its kill
    warned      \* executions whose customer had refused when they reached them

rows == <<status, ledger, old, lastMsg, refused, withdrawn>>
locals == <<pc, camp, todo, snap, cur, warned>>
past == <<delivered, blurred, heard, late>>
vars == <<rows, locals, past, starts, days, killed>>

Init ==
    /\ status = [c \in Campaign |-> "proposed"]
    /\ ledger = [k \in Key |-> "none"]
    /\ old = {}
    /\ lastMsg = [c \in Campaign |-> "none"]
    /\ refused = {}
    /\ withdrawn = FALSE
    /\ pc = [e \in Exec |-> "idle"]
    /\ camp = [e \in Exec |-> Nobody]
    /\ todo = [e \in Exec |-> {}]
    /\ snap = [e \in Exec |-> {}]
    /\ cur = [e \in Exec |-> Nobody]
    /\ starts = [c \in Campaign |-> 0]
    /\ days = 0
    /\ delivered = [k \in Key |-> 0]
    /\ blurred = {}
    /\ heard = [u \in Customer |-> 0]
    /\ killed = {}
    /\ late = [c \in Campaign |-> 0]
    /\ warned = {}

-------------------------------------------------------------------------------
(* One execution: execute_approved_campaign and the caller's guard.             *)

KeyOf(e) == <<camp[e], cur[e]>>

Goto(e, l) == pc' = [pc EXCEPT ![e] = l]

\* The execution returns, or its process dies: nothing of its locals survives.
Leave(e) ==
    /\ Goto(e, "idle")
    /\ camp' = [camp EXCEPT ![e] = Nobody]
    /\ todo' = [todo EXCEPT ![e] = {}]
    /\ snap' = [snap EXCEPT ![e] = {}]
    /\ cur' = [cur EXCEPT ![e] = Nobody]
    /\ warned' = warned \ {e}

\* The tool or the gate is done with the recipient in hand.
NextRecipient(e) ==
    /\ Goto(e, "boundary")
    /\ cur' = [cur EXCEPT ![e] = Nobody]
    /\ warned' = warned \ {e}
    /\ UNCHANGED <<camp, todo, snap>>

\* The manager loop's step, run the first time or again, executes a campaign that
\* is still pending; the graph's node executes whatever it was approved for.
MayExecute_Always(c) == TRUE                                      \* a mutant
MayExecute(c) == c \in GraphArmed \/ status[c] \in Pending

Start(e, c) ==
    /\ pc[e] = "idle"
    /\ starts[c] < MaxRuns
    /\ MayExecute(c)
    /\ Goto(e, "gate")
    /\ camp' = [camp EXCEPT ![e] = c]
    /\ starts' = [starts EXCEPT ![c] = @ + 1]
    /\ UNCHANGED <<rows, todo, snap, cur, warned, past, days, killed>>

\* The tenant's phase, opt-out, onboarding or WhatsApp account forbids sending.
GateRefuses(e) ==
    /\ pc[e] = "gate"
    /\ Leave(e)
    /\ UNCHANGED <<rows, past, starts, days, killed>>

\* The recipients and their flags are read once, here.
GatePasses(e) ==
    /\ pc[e] = "gate"
    /\ ~withdrawn
    /\ Goto(e, "entry")
    /\ todo' = [todo EXCEPT ![e] = Customer]
    /\ snap' = [snap EXCEPT ![e] = refused]
    /\ UNCHANGED <<rows, camp, cur, warned, past, starts, days, killed>>

\* An unreadable status counts as not cancelled.
SeesKill(e) == status[camp[e]] = "cancelled"
SeesNoKill_Unread(e) == TRUE                                      \* a mutant
SeesNoKill(e) == ~SeesKill(e) \/ StatusReadsFail

Entry(e) ==
    /\ pc[e] = "entry"
    /\ SeesNoKill(e)
    /\ Goto(e, "boundary")
    /\ UNCHANGED <<rows, camp, todo, snap, cur, warned, past, starts, days, killed>>

\* Killed before the start, or in flight at a recipient boundary: no advance.
KillStops(e) ==
    /\ pc[e] = "entry" \/ (pc[e] = "boundary" /\ todo[e] # {})
    /\ SeesKill(e)
    /\ Leave(e)
    /\ UNCHANGED <<rows, past, starts, days, killed>>

\* A recipient whose flags, as loaded, refuse is skipped without a call.
Skip(e, u) ==
    /\ pc[e] = "boundary"
    /\ u \in todo[e] \cap snap[e]
    /\ SeesNoKill(e)
    /\ todo' = [todo EXCEPT ![e] = @ \ {u}]
    /\ UNCHANGED <<rows, pc, camp, snap, cur, warned, past, starts, days, killed>>

TakeUp(e, u) ==
    /\ pc[e] = "boundary"
    /\ u \in todo[e] \ snap[e]
    /\ SeesNoKill(e)
    /\ Goto(e, "check")
    /\ todo' = [todo EXCEPT ![e] = @ \ {u}]
    /\ cur' = [cur EXCEPT ![e] = u]
    /\ warned' = IF u \in refused THEN warned \cup {e} ELSE warned
    /\ UNCHANGED <<rows, camp, snap, past, starts, days, killed>>

\* After the last recipient the status is set to 'sent' with no condition on what
\* it has become.
Advance(e) ==
    /\ pc[e] = "boundary" /\ todo[e] = {}
    /\ status' = [status EXCEPT ![camp[e]] = "sent"]
    /\ Leave(e)
    /\ UNCHANGED <<ledger, old, lastMsg, refused, withdrawn, past, starts, days, killed>>

\* The advance raises: the summary says so and the status stays.
AdvanceFails(e) ==
    /\ pc[e] = "boundary" /\ todo[e] = {}
    /\ Leave(e)
    /\ UNCHANGED <<rows, past, starts, days, killed>>

Crash(e) ==
    /\ pc[e] # "idle"
    /\ Leave(e)
    /\ UNCHANGED <<rows, past, starts, days, killed>>

-------------------------------------------------------------------------------
(* send_whatsapp_template for the recipient in hand.                            *)

\* _check_idempotency: a marker in flight blocks at any age, a sent row for a day.
Hit(k) == ledger[k] = "sending" \/ (ledger[k] = "sent" /\ k \notin old)

\* is_suppressed: some row of the customer says delivered within the interval.
Suppressed_Old(u) ==                                              \* a mutant
    \E c \in Campaign : ledger[<<c, u>>] = "sent" /\ <<c, u>> \in old
Suppressed(u) == \E c \in Campaign : ledger[<<c, u>>] = "sent" /\ <<c, u>> \notin old

\* The customer's own row, read again.
Consents_AsLoaded(e) == cur[e] \notin snap[e]                     \* a mutant
Consents(e) == cur[e] \notin refused

\* The tool answers without sending: a hit, a refusal, suppression, no opt-in, the
\* daily limit, no phone, a template the registry rejects, a database error.
Declines(e) ==
    /\ pc[e] = "check"
    /\ NextRecipient(e)
    /\ UNCHANGED <<rows, past, starts, days, killed>>

Clears(e) ==
    /\ pc[e] = "check"
    /\ ~Hit(KeyOf(e))
    /\ Consents(e)
    /\ ~Suppressed(cur[e])
    /\ Goto(e, "claim")
    /\ UNCHANGED <<rows, camp, todo, snap, cur, warned, past, starts, days, killed>>

\* _write_inflight_marker: the conditional upsert takes a new or a retryable row.
\* It does not touch created_at.
Claimable_Stale(k) == ledger[k] # "sent"                          \* a mutant
Claimable(k) == ledger[k] \notin {"sent", "sending"}

Claims(e) ==
    /\ pc[e] = "claim"
    /\ Claimable(KeyOf(e))
    /\ ledger' = [ledger EXCEPT ![KeyOf(e)] = "sending"]
    /\ Goto(e, "call")
    /\ UNCHANGED <<status, old, lastMsg, refused, withdrawn, camp, todo, snap, cur, warned,
                   past, starts, days, killed>>

LosesClaim(e) ==
    /\ pc[e] = "claim"
    /\ ~Claimable(KeyOf(e))
    /\ NextRecipient(e)
    /\ UNCHANGED <<rows, past, starts, days, killed>>

\* Twilio takes the message.
Taken(e) ==
    /\ delivered' = [delivered EXCEPT ![KeyOf(e)] = @ + 1]
    /\ heard' = [heard EXCEPT ![cur[e]] = @ + 1]
    /\ late' = IF camp[e] \in killed THEN [late EXCEPT ![camp[e]] = @ + 1] ELSE late

Delivers(e) ==
    /\ pc[e] = "call"
    /\ Taken(e)
    /\ Goto(e, "flip")
    /\ UNCHANGED <<rows, camp, todo, snap, cur, warned, blurred, starts, days, killed>>

\* Twilio takes the message and the call raises all the same (a lost answer).
DeliversAndRaises(e) ==
    /\ pc[e] = "call"
    /\ CallsBlur
    /\ Taken(e)
    /\ blurred' = blurred \cup {KeyOf(e)}
    /\ Goto(e, "fail")
    /\ UNCHANGED <<rows, camp, todo, snap, cur, warned, starts, days, killed>>

\* Twilio rejects the message, or the call raises before it got there.
Rejected(e) ==
    /\ pc[e] = "call"
    /\ Goto(e, "fail")
    /\ UNCHANGED <<rows, camp, todo, snap, cur, warned, past, starts, days, killed>>

\* _write_idempotency_ledger never overwrites 'sent'; _write_campaign_message is
\* the next statement and may not be reached.
WritesLedger(e, l) ==
    /\ ledger' = [ledger EXCEPT ![KeyOf(e)] = IF @ = "sent" THEN @ ELSE l]
    /\ lastMsg' \in {lastMsg, [lastMsg EXCEPT ![camp[e]] = "recent"]}
    /\ NextRecipient(e)
    /\ UNCHANGED <<status, old, refused, withdrawn, past, starts, days, killed>>

RecordsSent_AsError(e) == pc[e] = "flip" /\ WritesLedger(e, "error")   \* a mutant
RecordsSent(e)  == pc[e] = "flip" /\ WritesLedger(e, "sent")
RecordsError(e) == pc[e] = "fail" /\ WritesLedger(e, "error")

\* The ledger write itself raises: the row stays 'sending', the tool says db_error.
LedgerFails(e) ==
    /\ pc[e] \in {"flip", "fail"}
    /\ NextRecipient(e)
    /\ UNCHANGED <<rows, past, starts, days, killed>>

-------------------------------------------------------------------------------
(* The others.                                                                  *)

\* /kill-campaign: a compare-and-set from a pending status.
Kill(c) ==
    /\ status[c] \in Pending
    /\ status' = [status EXCEPT ![c] = "cancelled"]
    /\ killed' = killed \cup {c}
    /\ UNCHANGED <<ledger, old, lastMsg, refused, withdrawn, locals, past, starts, days>>

\* opt_out_handler: the owner says STOP.
OwnerStops ==
    /\ ~withdrawn
    /\ withdrawn' = TRUE
    /\ UNCHANGED <<status, ledger, old, lastMsg, refused, locals, past, starts, days, killed>>

\* data_inputs_enable_handler: the owner consents again.
OwnerReturns ==
    /\ withdrawn
    /\ withdrawn' = FALSE
    /\ UNCHANGED <<status, ledger, old, lastMsg, refused, locals, past, starts, days, killed>>

Refuses(u) ==
    /\ u \notin refused
    /\ refused' = refused \cup {u}
    /\ UNCHANGED <<status, ledger, old, lastMsg, withdrawn, locals, past, starts, days, killed>>

\* A customer opts in again, or the complaint is resolved.
Returns(u) ==
    /\ u \in refused
    /\ refused' = refused \ {u}
    /\ warned' = {e \in warned : cur[e] # u}
    /\ UNCHANGED <<status, ledger, old, lastMsg, withdrawn, pc, camp, todo, snap, cur,
                   past, starts, days, killed>>

Quiet == [c \in Campaign |-> IF lastMsg[c] = "recent" THEN "quiet" ELSE lastMsg[c]]

\* A fan-out writes its rows back to back: these gaps are gaps between executions.
TwoHoursPass ==
    /\ \A e \in Exec : pc[e] = "idle"
    /\ \E c \in Campaign : lastMsg[c] = "recent"
    /\ lastMsg' = Quiet
    /\ UNCHANGED <<status, ledger, old, refused, withdrawn, locals, past, starts, days, killed>>

\* The TTL of the ledger and the contact interval elapse.
DaysPass ==
    /\ \A e \in Exec : pc[e] = "idle"
    /\ days < MaxDays
    /\ days' = days + 1
    /\ old' = {k \in Key : ledger[k] # "none"}
    /\ heard' = [u \in Customer |-> 0]
    /\ lastMsg' = Quiet
    /\ UNCHANGED <<status, ledger, refused, withdrawn, locals, delivered, blurred, late,
                   starts, killed>>

\* reap_crashed_campaigns: an approved campaign whose newest message is two hours
\* old has failed. The update checks again what the scan read.
Sweep ==
    /\ status' = [c \in Campaign |->
                    IF status[c] = "approved" /\ lastMsg[c] = "quiet" THEN "failed" ELSE status[c]]
    /\ UNCHANGED <<ledger, old, lastMsg, refused, withdrawn, locals, past, starts, days, killed>>

-------------------------------------------------------------------------------

ToolStep(e) ==
    \/ Declines(e) \/ Clears(e) \/ Claims(e) \/ LosesClaim(e)
    \/ Delivers(e) \/ DeliversAndRaises(e) \/ Rejected(e)
    \/ RecordsSent(e) \/ RecordsError(e) \/ LedgerFails(e)

RunStep(e) ==
    \/ GateRefuses(e) \/ GatePasses(e) \/ Entry(e) \/ KillStops(e)
    \/ \E u \in Customer : Skip(e, u) \/ TakeUp(e, u)
    \/ Advance(e) \/ AdvanceFails(e)
    \/ ToolStep(e)

Next ==
    \/ \E e \in Exec : RunStep(e) \/ Crash(e) \/ \E c \in Campaign : Start(e, c)
    \/ \E c \in Campaign : Kill(c)
    \/ \E u \in Customer : Refuses(u) \/ Returns(u)
    \/ OwnerStops \/ OwnerReturns \/ TwoHoursPass \/ DaysPass \/ Sweep

Spec == Init /\ [][Next]_vars

\* A process that is not killed goes on, and the sweep is on a cron.
FairSpec == Spec /\ (\A e \in Exec : WF_vars(RunStep(e))) /\ WF_vars(Sweep)

-------------------------------------------------------------------------------
(* Properties.                                                                  *)

\* The types of the rows, the locals and the history.
TypeOK ==
    /\ status \in [Campaign -> Pending \cup {"sent", "failed", "cancelled"}]
    /\ ledger \in [Key -> {"none", "sending", "sent", "error"}]
    /\ old \subseteq Key
    /\ lastMsg \in [Campaign -> {"none", "recent", "quiet"}]
    /\ refused \subseteq Customer
    /\ withdrawn \in BOOLEAN
    /\ pc \in [Exec -> {"idle", "gate", "entry", "boundary", "check", "claim", "call",
                        "flip", "fail"}]
    /\ camp \in [Exec -> Campaign \cup {Nobody}]
    /\ todo \in [Exec -> SUBSET Customer]
    /\ snap \in [Exec -> SUBSET Customer]
    /\ cur \in [Exec -> Customer \cup {Nobody}]
    /\ \A e \in Exec : pc[e] # "idle" => camp[e] \in Campaign
    /\ \A e \in Exec : pc[e] \in {"check", "claim", "call", "flip", "fail"} => cur[e] \in Customer
    /\ starts \in [Campaign -> Nat] /\ days \in Nat
    /\ delivered \in [Key -> Nat]
    /\ blurred \subseteq Key
    /\ heard \in [Customer -> Nat]
    /\ killed \subseteq Campaign
    /\ late \in [Campaign -> Nat]
    /\ warned \subseteq Exec

\* Replays, crashes between the marker, the call and the flip, and executions of
\* one campaign by two processes reach a recipient once; a second message needs a
\* first one whose answer was lost (_write_inflight_marker, _check_idempotency).
OncePerPair == \A k \in Key : delivered[k] > 1 => k \in blurred

\* The ledger implements the abstract promise of EffectOnce.
Promise == INSTANCE EffectOnce WITH Key <- Key, delivered <- delivered, blurred <- blurred
PromiseKept == Promise!Spec

\* The flags a fan-out loaded may be hours old. Nobody who had opted out or
\* complained when the loop reached them, and has not come back since, gets as far
\* as a call (the tool's own re-check after the loop's stale one).
RefusalHonoured == \A e \in warned : pc[e] \notin {"claim", "call", "flip", "fail"}

\* A kill leaves at most the recipient in hand to be contacted, over replays and
\* restarts too, as long as one process executes the campaign.
KillLeavesOne == \A c \in Campaign : late[c] <= 1

\* Once a campaign is 'sent' no execution of it contacts anybody: the loop's status
\* guard against a replay of a step that had finished.
SentIsFinal ==
    [][\A c \in Campaign : status[c] = "sent" =>
         \A u \in Customer : delivered'[<<c, u>>] = delivered[<<c, u>>]]_vars

\* With one process, a customer is contacted twice in an interval, by any two
\* campaigns, only around a row that hides a delivery: one left in flight, one
\* whose answer was lost, or one created before the interval (is_suppressed).
OncePerInterval ==
    \A u \in Customer : heard[u] > 1 =>
        \E c \in Campaign : \/ ledger[<<c, u>>] = "sending"
                            \/ <<c, u>> \in blurred \cup old

(* Statements of the repository that the code does not keep.                    *)

\* "A killed campaign is NOT advanced to 'sent' (it stays 'cancelled')"
\* (campaign/execute.py).
CancelledStays ==
    [][\A c \in Campaign : status[c] = "cancelled" => status'[c] = "cancelled"]_vars

\* "I've stopped all messaging to your customers immediately. No campaigns [...]
\* will go out to anyone" (direct_handlers/opt_out_handler.py): no fan-out turns to
\* another customer after that.
StopStops ==
    [][withdrawn => \A e \in Exec : pc[e] = "boundary" => pc'[e] # "check"]_vars

\* The sweep moves "a crashed, partially-executed campaign to a TERMINAL status"
\* (orphan_reaper.py): a campaign quiet for two hours does not stay pending.
PartlySentEnds ==
    \A c \in Campaign : (lastMsg[c] = "quiet") ~> (status[c] \notin Pending)

===============================================================================
