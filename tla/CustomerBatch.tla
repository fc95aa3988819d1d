----------------------------- MODULE CustomerBatch -----------------------------
(* The life of an agent's batches of customer messages: the L3 hold (notice,     *)
(* delivery anchor, window, demotion), the two send drivers, the per-draft gate  *)
(* stack and its ledger, and the stops that cancel everything open. What the     *)
(* owner says is any answer here: OwnerApproval shows how he is asked.           *)
(*                                                                               *)
(* A lock is a row lock on the batch, held across a transaction; readers do not  *)
(* wait for it. Every other action is one statement or one transaction.          *)
EXTENDS Naturals

CONSTANTS
    Batch,
    Size,         \* drafts of a batch
    Nobody, Stopper,
    MaxCrashes,   \* bound: process deaths, and drivers ended by an error
    IdleStops     \* bound: stops that find nothing open; only KillSilences sees them

Draft == Batch \X (1 .. Size)
Driver == Batch \X {"L2", "L3"}      \* workflow ids l2_send_{batch}, l3_hold_{batch}

ASSUME BatchConstants ==
    /\ Size \in Nat /\ MaxCrashes \in Nat /\ IdleStops \in BOOLEAN
    /\ Nobody \notin Driver /\ Nobody \notin Draft /\ Stopper \notin Driver \cup {Nobody}

VARIABLES
    \* rows
    bst,        \* agent_draft_batches.status
    dst,        \* agent_drafts.status
    ledger,     \* send_idempotency_keys.send_status of 'agent:{draft}'
    anchor,     \* the presend notice: none, sent, late (undelivered for its window),
                \* delivered, due (send_not_before passed)
    trusted,    \* tenant_agent_autonomy: level L3 and not frozen
    lock,       \* who holds the row of a batch
    \* processes
    arm,        \* the executor that persisted a batch
    pc, todo, cur,    \* send drivers
    stop,       \* a kill or a revocation under way
    \* history
    delivered,  \* messages Twilio took for a draft
    blurred,    \* drafts with a message taken and an error returned
    after,      \* messages taken for a batch after it was closed
    crashes

drivers == <<pc, todo, cur>>
past == <<delivered, blurred, after>>
vars == <<bst, dst, ledger, anchor, trusted, lock, arm, drivers, stop, past, crashes>>

Init ==
    /\ bst = [b \in Batch |-> "none"]
    /\ dst = [d \in Draft |-> "none"]
    /\ ledger = [d \in Draft |-> "none"]
    /\ anchor = [b \in Batch |-> "none"]
    /\ trusted = FALSE
    /\ lock = [b \in Batch |-> Nobody]
    /\ arm = [b \in Batch |-> "idle"]
    /\ pc = [w \in Driver |-> "idle"]
    /\ todo = [w \in Driver |-> {}]
    /\ cur = [w \in Driver |-> Nobody]
    /\ stop = FALSE
    /\ delivered = [d \in Draft |-> 0]
    /\ blurred = {}
    /\ after = [b \in Batch |-> 0]
    /\ crashes = 0

Free(b) == lock[b] = Nobody
DraftsOf(b) == {d \in Draft : d[1] = b}
Drafted(b) == {d \in DraftsOf(b) : dst[d] = "drafted"}
\* _OPEN_BATCH_STATUSES
Opened == {b \in Batch : bst[b] \in {"awaiting", "approved", "hold", "sending"}}

\* Nobody is asked before the executor is done with L3.
Asked(b) == bst[b] = "awaiting" /\ arm[b] \in {"asking", "done"}

\* Closing batches halts what they have not sent.
Halted(S) == [d \in Draft |-> IF d[1] \in S /\ dst[d] = "drafted" THEN "halted" ELSE dst[d]]
Close(S) ==
    /\ bst' = [b \in Batch |-> IF b \in S THEN "closed" ELSE bst[b]]
    /\ dst' = Halted(S)

-------------------------------------------------------------------------------
(* The executor: persist, then the L3 arm, else the ask.                        *)

Arm(b, l) == arm' = [arm EXCEPT ![b] = l]

Persist(b) ==
    /\ bst[b] = "none"
    /\ bst' = [bst EXCEPT ![b] = "awaiting"]
    /\ dst' = [d \in Draft |-> IF d[1] = b THEN "drafted" ELSE dst[d]]
    /\ Arm(b, "persisted")
    /\ UNCHANGED <<ledger, anchor, trusted, lock, drivers, stop, past, crashes>>

\* L3, not frozen, and the always-confirm floor of the batch not tripped.
Eligible(b) ==
    /\ arm[b] = "persisted"
    /\ \/ trusted /\ bst[b] = "awaiting" /\ Arm(b, "eligible")
       \/ Arm(b, "asking")
    /\ UNCHANGED <<bst, dst, ledger, anchor, trusted, lock, drivers, stop, past, crashes>>

\* The owner's notice goes out before the flip.
Notify(b) ==
    /\ arm[b] = "eligible"
    /\ \E l \in {"noticed", "asking"} : Arm(b, l)
    /\ UNCHANGED <<bst, dst, ledger, anchor, trusted, lock, drivers, stop, past, crashes>>

\* A compare-and-set from the status it read.
Flippable(b) == bst[b] = "awaiting"

Flip(b) ==
    /\ arm[b] = "noticed" /\ Free(b)
    /\ IF Flippable(b)
       THEN /\ bst' = [bst EXCEPT ![b] = "hold"]
            /\ anchor' = [anchor EXCEPT ![b] = "sent"]
            /\ Arm(b, "held")
       ELSE Arm(b, "asking") /\ UNCHANGED <<bst, anchor>>
    /\ UNCHANGED <<dst, ledger, trusted, lock, drivers, stop, past, crashes>>

\* start_l3_hold, whose failure is swallowed.
StartHold(b) ==
    /\ arm[b] = "held"
    /\ pc' \in {pc, [pc EXCEPT ![<<b, "L3">>] = "poll"]}
    /\ Arm(b, "done")
    /\ UNCHANGED <<bst, dst, ledger, anchor, trusted, lock, todo, cur, stop, past, crashes>>

\* The ask was armed, or refused: then the batch is cancelled whatever became of it, and
\* all its drafts are halted.
AskArmed(b) ==
    /\ arm[b] = "asking"
    /\ Arm(b, "done")
    /\ UNCHANGED <<bst, dst, ledger, anchor, trusted, lock, drivers, stop, past, crashes>>

AskRefused(b) ==
    /\ arm[b] = "asking" /\ Free(b)
    /\ bst' = [bst EXCEPT ![b] = "closed"]
    /\ dst' = [d \in Draft |-> IF d[1] = b THEN "halted" ELSE dst[d]]
    /\ Arm(b, "done")
    /\ UNCHANGED <<ledger, anchor, trusted, lock, drivers, stop, past, crashes>>

\* A recovery drafts another batch.
ExecutorDies(b) ==
    /\ arm[b] \notin {"idle", "done"} /\ crashes < MaxCrashes
    /\ crashes' = crashes + 1
    /\ Arm(b, "done")
    /\ UNCHANGED <<bst, dst, ledger, anchor, trusted, lock, drivers, stop, past>>

ExecutorStep(b) ==
    Eligible(b) \/ Notify(b) \/ Flip(b) \/ StartHold(b) \/ AskArmed(b) \/ AskRefused(b)

-------------------------------------------------------------------------------
(* The hold.                                                                    *)

\* stamp_delivery_anchor: a 'delivered' callback that comes before the flip, or after
\* the batch left the hold, finds no row.
Anchor(b) ==
    /\ anchor[b] \in {"sent", "late"} /\ bst[b] = "hold" /\ Free(b)
    /\ anchor' = [anchor EXCEPT ![b] = "delivered"]
    /\ UNCHANGED <<bst, dst, ledger, trusted, lock, arm, drivers, stop, past, crashes>>

\* Hours: no transaction stays open as long.
WindowPasses(b) ==
    /\ anchor[b] = "delivered" /\ ~stop
    /\ anchor' = [anchor EXCEPT ![b] = "due"]
    /\ UNCHANGED <<bst, dst, ledger, trusted, lock, arm, drivers, stop, past, crashes>>

GracePasses(b) ==
    /\ anchor[b] = "sent" /\ bst[b] = "hold"
    /\ anchor' = [anchor EXCEPT ![b] = "late"]
    /\ UNCHANGED <<bst, dst, ledger, trusted, lock, arm, drivers, stop, past, crashes>>

Goto(w, l) == pc' = [pc EXCEPT ![w] = l]

\* _hold_state_body: gone, demote, send_now; anything else waits.
MaySend_Unanchored(b) == anchor[b] \in {"sent", "due"}             \* a mutant
MaySend(b) == anchor[b] = "due"
Undelivered_Never(b) == FALSE                                     \* a mutant
Undelivered(b) == anchor[b] = "late"

Poll(w) ==
    LET b == w[1] IN
    /\ pc[w] = "poll"
    /\ \/ bst[b] # "hold" /\ Goto(w, "done")
       \/ bst[b] = "hold" /\ Undelivered(b) /\ Goto(w, "demote")
       \/ bst[b] = "hold" /\ ~Undelivered(b) /\ MaySend(b) /\ Goto(w, "enum")
    /\ UNCHANGED <<bst, dst, ledger, anchor, trusted, lock, arm, todo, cur, stop, past, crashes>>

\* demote_auto_send_pending for one batch: under its row lock, and not while a stop has
\* the autonomy row, which the regression record writes too.
Demoted(b) ==
    /\ bst' = [bst EXCEPT ![b] = IF @ = "hold" THEN "awaiting" ELSE @]
    /\ anchor' = [anchor EXCEPT ![b] = IF bst[b] = "hold" THEN "none" ELSE @]

DemoteStep(w) ==
    /\ pc[w] = "demote" /\ Free(w[1]) /\ ~stop
    /\ Demoted(w[1])
    /\ Goto(w, "done")
    /\ UNCHANGED <<dst, ledger, trusted, lock, arm, todo, cur, stop, past, crashes>>

\* The owner wrote something.
Inbound(b) ==
    /\ bst[b] = "hold" /\ Free(b) /\ ~stop
    /\ Demoted(b)
    /\ UNCHANGED <<dst, ledger, trusted, lock, arm, drivers, stop, past, crashes>>

-------------------------------------------------------------------------------
(* The owner's answers and the stops.                                           *)

Approve(b) ==
    /\ Asked(b) /\ Free(b)
    /\ bst' = [bst EXCEPT ![b] = "approved"]
    /\ UNCHANGED <<dst, ledger, anchor, trusted, lock, arm, drivers, stop, past, crashes>>

\* A rejection, a timeout or an exhausted defer is a regression: at L3, also of a frozen
\* agent, it revokes, and the revocation cancels every open batch.
Revoked(b) == IF trusted THEN {Opened \ {b}} ELSE {{}, Opened \ {b}}

Reject(b) ==
    /\ Asked(b) /\ ~stop
    /\ \E S \in Revoked(b) :
          /\ \A c \in S \cup {b} : Free(c)
          /\ Close(S \cup {b})
    /\ trusted' = FALSE
    /\ UNCHANGED <<ledger, anchor, lock, arm, drivers, stop, past, crashes>>

\* A request for changes keeps the drafts of its batch.
Edit(b) ==
    /\ Asked(b) /\ ~stop
    /\ \E S \in Revoked(b) :
          /\ \A c \in S \cup {b} : Free(c)
          /\ bst' = [c \in Batch |->
                       IF c = b THEN "edit" ELSE IF c \in S THEN "closed" ELSE bst[c]]
          /\ dst' = Halted(S)
    /\ trusted' = FALSE
    /\ UNCHANGED <<ledger, anchor, lock, arm, drivers, stop, past, crashes>>

\* grant_l3, force_l3, the unfreezing of an L3 agent. Bound: while it can matter.
Unsettled == \E b \in Batch : bst[b] = "none" \/ b \in Opened

Grant ==
    /\ ~trusted /\ ~stop /\ Unsettled
    /\ trusted' = TRUE
    /\ UNCHANGED <<bst, dst, ledger, anchor, lock, arm, drivers, stop, past, crashes>>

\* kill_autonomy_by_keyword, set_frozen and revoke_l3 cancel in one transaction what their
\* statement sees open; the autonomy row shows it at the commit.
StopBegins ==
    /\ ~stop /\ (Opened # {} \/ (IdleStops /\ Unsettled))
    /\ \A b \in Opened : Free(b)
    /\ stop' = TRUE
    /\ lock' = [b \in Batch |-> IF b \in Opened THEN Stopper ELSE lock[b]]
    /\ UNCHANGED <<bst, dst, ledger, anchor, trusted, arm, drivers, past, crashes>>

StopCommits ==
    /\ stop
    /\ Close({b \in Batch : lock[b] = Stopper})
    /\ lock' = [b \in Batch |-> IF lock[b] = Stopper THEN Nobody ELSE lock[b]]
    /\ trusted' = FALSE
    /\ stop' = FALSE
    /\ UNCHANGED <<ledger, anchor, arm, drivers, past, crashes>>

\* cancel_batch: an operator cancels one.
CancelBatch(b) ==
    /\ b \in Opened /\ Free(b)
    /\ Close({b})
    /\ UNCHANGED <<ledger, anchor, trusted, lock, arm, drivers, stop, past, crashes>>

-------------------------------------------------------------------------------
(* A send driver: _l2_send_step_body, _hold_send_step_body.                     *)

\* start_l2_send: once per batch, from the reply or the reconciler.
StartL2(b) ==
    /\ bst[b] = "approved" /\ pc[<<b, "L2">>] = "idle"
    /\ Goto(<<b, "L2">>, "enum")
    /\ UNCHANGED <<bst, dst, ledger, anchor, trusted, lock, arm, todo, cur, stop, past, crashes>>

Drivable(w) ==
    IF w[2] = "L3" THEN bst[w[1]] = "hold" ELSE bst[w[1]] \in {"approved", "sending"}

Enumerate(w) ==
    /\ pc[w] = "enum"
    /\ todo' = [todo EXCEPT ![w] = IF Drivable(w) THEN Drafted(w[1]) ELSE {}]
    /\ Goto(w, "next")
    /\ UNCHANGED <<bst, dst, ledger, anchor, trusted, lock, arm, cur, stop, past, crashes>>

Finish(w) ==
    /\ pc[w] = "next" /\ todo[w] = {}
    /\ Goto(w, "done")
    /\ UNCHANGED <<bst, dst, ledger, anchor, trusted, lock, arm, todo, cur, stop, past, crashes>>

\* agent_send_draft: the draft is loaded with its batch; a terminal draft, a WABA that is
\* not live or a batch in the wrong state ends the call and marks nothing.
Sendable_AsEnumerated(w, d) == TRUE                               \* a mutant
Sendable(w, d) == dst[d] = "drafted" /\ Drivable(w)

Take(w, d) ==
    /\ pc[w] = "next" /\ d \in todo[w]
    /\ todo' = [todo EXCEPT ![w] = @ \ {d}]

PassOver(w, d) ==
    /\ Take(w, d)
    /\ UNCHANGED <<bst, dst, ledger, anchor, trusted, lock, arm, pc, cur, stop, past, crashes>>

\* Gate 0: the tenant may not be served by the agent. That refuses the draft for good,
\* before anybody looks at the state of the batch; only a hold is not L2's to touch.
Ineligible(w, d) ==
    /\ Take(w, d)
    /\ dst[d] = "drafted" /\ ~(w[2] = "L2" /\ bst[w[1]] = "hold")
    /\ dst' = [dst EXCEPT ![d] = "skipped"]
    /\ cur' = [cur EXCEPT ![w] = d]
    /\ Goto(w, "final")
    /\ UNCHANGED <<bst, ledger, anchor, trusted, lock, arm, stop, past, crashes>>

\* L2: the batch goes from approved to sending.
Begin(w, d) ==
    LET b == w[1] IN
    /\ Sendable(w, d)
    /\ w[2] = "L2" /\ bst[b] = "approved" => Free(b)
    /\ Take(w, d)
    /\ cur' = [cur EXCEPT ![w] = d]
    /\ bst' = IF w[2] = "L2" /\ bst[b] = "approved" THEN [bst EXCEPT ![b] = "sending"] ELSE bst
    /\ Goto(w, IF w[2] = "L3" THEN "lock" ELSE "send")
    /\ UNCHANGED <<dst, ledger, anchor, trusted, lock, arm, stop, past, crashes>>

\* L3: the row lock, and the state of the batch once more.
StillHeld_Unread(b) == TRUE                                       \* a mutant
StillHeld(b) == bst[b] = "hold"

Lock(w) ==
    LET b == w[1] IN
    /\ pc[w] = "lock" /\ Free(b)
    /\ IF StillHeld(b)
       THEN lock' = [lock EXCEPT ![b] = w] /\ Goto(w, "send") /\ UNCHANGED cur
       ELSE Goto(w, "next") /\ cur' = [cur EXCEPT ![w] = Nobody] /\ UNCHANGED lock
    /\ UNCHANGED <<bst, dst, ledger, anchor, trusted, arm, todo, stop, past, crashes>>

\* The call of agent_send_draft returns; at L3 its transaction commits.
Return(w) ==
    /\ Goto(w, "next")
    /\ cur' = [cur EXCEPT ![w] = Nobody]
    /\ lock' = [b \in Batch |-> IF lock[b] = w THEN Nobody ELSE lock[b]]

\* _finalize_batch_if_terminal: the batch is sent when no draft D of it is left open.
Terminal_Some(b, D) == \E d \in DraftsOf(b) : D[d] # "drafted"    \* a mutant
Terminal(b, D) == \A d \in DraftsOf(b) : D[d] # "drafted"

Finalized(b, D) ==
    IF Terminal(b, D) /\ bst[b] \in {"approved", "sending", "hold"}
    THEN [bst EXCEPT ![b] = "sent"] ELSE bst

\* A commit of its own at L2.
Finalize(w) ==
    LET b == w[1] IN
    /\ pc[w] = "final" /\ (Free(b) \/ Finalized(b, dst) = bst)
    /\ bst' = Finalized(b, dst)
    /\ Return(w)
    /\ UNCHANGED <<dst, ledger, anchor, trusted, arm, todo, stop, past, crashes>>

\* The draft in hand gets its status: with the rest of the transaction under a lock.
Settle(w, D) ==
    /\ dst' = D
    /\ IF lock[w[1]] = w
       THEN bst' = Finalized(w[1], D) /\ Return(w)
       ELSE Goto(w, "final") /\ UNCHANGED <<bst, lock, cur>>

\* A gate refuses for good: registry, opt-out, complaint, consent, caps.
Skip(w) ==
    /\ pc[w] \in {"lock", "send"}
    /\ Settle(w, [dst EXCEPT ![cur[w]] = IF @ = "drafted" THEN "skipped" ELSE @])
    /\ UNCHANGED <<ledger, anchor, trusted, arm, todo, stop, past, crashes>>

-------------------------------------------------------------------------------
(* send_whatsapp_template for the draft in hand.                                *)

\* A limit, a suppression, a database error: the draft stays drafted.
Decline(w) ==
    /\ pc[w] = "send"
    /\ Return(w)
    /\ UNCHANGED <<bst, dst, ledger, anchor, trusted, arm, todo, stop, past, crashes>>

\* The key was used: the tool answers 'sent' and sends nothing.
Used_Finished(d) == ledger[d] = "sent"                            \* a mutant
Used_Tried(d) == ledger[d] # "none"                               \* a mutant
Used(d) == ledger[d] \in {"sending", "sent"}

Echo(w) ==
    /\ pc[w] = "send" /\ Used(cur[w])
    /\ Goto(w, "mark")
    /\ UNCHANGED <<bst, dst, ledger, anchor, trusted, lock, arm, todo, cur, stop, past, crashes>>

\* The marker of this attempt, committed before the call.
Claim(w) ==
    /\ pc[w] = "send" /\ ~Used(cur[w])
    /\ ledger' = [ledger EXCEPT ![cur[w]] = "sending"]
    /\ Goto(w, "call")
    /\ UNCHANGED <<bst, dst, anchor, trusted, lock, arm, todo, cur, stop, past, crashes>>

\* Twilio takes the message.
Taken(w) ==
    /\ delivered' = [delivered EXCEPT ![cur[w]] = @ + 1]
    /\ after' = IF bst[w[1]] = "closed" THEN [after EXCEPT ![w[1]] = @ + 1] ELSE after

Deliver(w) ==
    /\ pc[w] = "call"
    /\ Taken(w)
    /\ Goto(w, "taken")
    /\ UNCHANGED <<bst, dst, ledger, anchor, trusted, lock, arm, todo, cur, stop, blurred, crashes>>

\* It rejects the message, or takes it and answers with an error. The error is recorded
\* at once, unless that write raises too.
Fail(w) ==
    /\ pc[w] = "call"
    /\ \/ Taken(w) /\ blurred' = blurred \cup {cur[w]}
       \/ UNCHANGED past
    /\ ledger' \in {ledger, [ledger EXCEPT ![cur[w]] = "error"]}
    /\ Return(w)
    /\ UNCHANGED <<bst, dst, anchor, trusted, arm, todo, stop, crashes>>

\* The ledger says 'sent' whether or not the record of the message is written: if that
\* raises, the tool answers with an error and the draft is not marked.
Record(w) ==
    /\ pc[w] = "taken"
    /\ ledger' = [ledger EXCEPT ![cur[w]] = "sent"]
    /\ \/ Goto(w, "mark") /\ UNCHANGED <<lock, cur>>
       \/ Return(w)
    /\ UNCHANGED <<bst, dst, anchor, trusted, arm, todo, stop, past, crashes>>

\* The ledger write raises: the marker stays, the draft too.
RecordFails(w) ==
    /\ pc[w] = "taken"
    /\ Return(w)
    /\ UNCHANGED <<bst, dst, ledger, anchor, trusted, arm, todo, stop, past, crashes>>

\* Draft and suppression record in one transaction, whatever the draft became.
Mark(w) ==
    /\ pc[w] = "mark"
    /\ Settle(w, [dst EXCEPT ![cur[w]] = "sent"])
    /\ UNCHANGED <<ledger, anchor, trusted, arm, todo, stop, past, crashes>>

\* A driver stops in the middle: an open transaction is rolled back.
Abort(w, l) ==
    /\ crashes < MaxCrashes
    /\ crashes' = crashes + 1
    /\ Goto(w, l)
    /\ todo' = [todo EXCEPT ![w] = {}]
    /\ cur' = [cur EXCEPT ![w] = Nobody]
    /\ lock' = [b \in Batch |-> IF lock[b] = w THEN Nobody ELSE lock[b]]
    /\ UNCHANGED <<bst, dst, ledger, anchor, trusted, arm, stop, past>>

\* DBOS runs the step again from its start.
DriverDies(w) ==
    /\ pc[w] \notin {"idle", "poll", "demote", "done", "failed"}
    /\ Abort(w, "enum")

\* A statement of a step raises, outside the tool, which answers its own errors. No step
\* is retried: the workflow ends in ERROR, and a start of its id does nothing.
DriverRaises(w) ==
    /\ pc[w] \in {"poll", "demote", "enum", "next", "lock", "send", "mark", "final"}
    /\ Abort(w, "failed")

Transport(w) ==
    \/ Decline(w) \/ Echo(w) \/ Claim(w) \/ Deliver(w) \/ Fail(w)
    \/ Record(w) \/ RecordFails(w)

DriverStep(w) ==
    \/ w[2] = "L3" /\ (Poll(w) \/ DemoteStep(w) \/ Lock(w))
    \/ Enumerate(w) \/ Finish(w) \/ Finalize(w) \/ Skip(w) \/ Transport(w) \/ Mark(w)
    \/ \E d \in Draft : PassOver(w, d) \/ Ineligible(w, d) \/ Begin(w, d)

DriverBreaks(w) == DriverDies(w) \/ DriverRaises(w)

-------------------------------------------------------------------------------
Next ==
    \/ \E b \in Batch :
          \/ Persist(b) \/ ExecutorStep(b) \/ ExecutorDies(b)
          \/ Anchor(b) \/ WindowPasses(b) \/ GracePasses(b) \/ Inbound(b)
          \/ Approve(b) \/ Reject(b) \/ Edit(b) \/ CancelBatch(b) \/ StartL2(b)
    \/ Grant \/ StopBegins \/ StopCommits
    \/ \E w \in Driver : DriverStep(w) \/ DriverBreaks(w)

Spec == Init /\ [][Next]_vars

\* The workflow of a hold goes on, DBOS recovers it, time passes and an open stop commits. A
\* batch is stopped once, so its lock is free in the end. Nothing is assumed of L2, owner,
\* operators or callbacks.
Fairness ==
    /\ \A b \in Batch : WF_vars(DriverStep(<<b, "L3">>))
    /\ WF_vars(StopCommits \/ \E b \in Batch : WindowPasses(b) \/ GracePasses(b))

FairSpec == Spec /\ Fairness

-------------------------------------------------------------------------------
(* Properties.                                                                  *)

BatchStatus == {"none", "awaiting", "hold", "approved", "sending", "sent", "edit", "closed"}
ArmPc == {"idle", "persisted", "eligible", "noticed", "held", "asking", "done"}
DriverPc == {"idle", "poll", "demote", "enum", "next", "lock", "send", "call", "taken",
             "mark", "final", "done", "failed"}

InHand == {"lock", "send", "call", "taken", "mark", "final"}
InTransaction == {"send", "call", "taken", "mark"}

RowTypes ==
    /\ bst \in [Batch -> BatchStatus]
    /\ dst \in [Draft -> {"none", "drafted", "sent", "skipped", "halted"}]
    /\ ledger \in [Draft -> {"none", "sending", "sent", "error"}]
    /\ anchor \in [Batch -> {"none", "sent", "late", "delivered", "due"}]
    /\ trusted \in BOOLEAN
    /\ lock \in [Batch -> Driver \cup {Nobody, Stopper}]
    /\ \A b \in Batch : lock[b] \in {Nobody, Stopper, <<b, "L3">>}

ProcessTypes ==
    /\ arm \in [Batch -> ArmPc]
    /\ pc \in [Driver -> DriverPc]
    /\ todo \in [Driver -> SUBSET Draft]
    /\ cur \in [Driver -> Draft \cup {Nobody}]
    /\ \A w \in Driver : pc[w] \in InHand => cur[w] \in DraftsOf(w[1])
    /\ \A b \in Batch : lock[b] = <<b, "L3">> <=> pc[<<b, "L3">>] \in InTransaction
    /\ stop \in BOOLEAN

HistoryTypes ==
    /\ delivered \in [Draft -> Nat]
    /\ blurred \subseteq Draft
    /\ after \in [Batch -> Nat]
    /\ crashes \in 0 .. MaxCrashes

\* The types of every variable; a batch is locked by its hold during a call's transaction.
TypeOK == RowTypes /\ ProcessTypes /\ HistoryTypes

\* A draft is delivered once, by whichever driver, across crashes, rolled back
\* transactions and the demotion of its batch from one driver to the other.
Promise == INSTANCE EffectOnce WITH Key <- Draft, delivered <- delivered, blurred <- blurred
PromiseKept == Promise!Spec

SentBy(w) == pc[w] = "call" /\ delivered' # delivered /\ pc'[w] # "call"

\* The end of a hold window never sends over an objection: the batch is on hold while a
\* message of its hold goes out, not demoted, cancelled or approved meanwhile.
NothingOverObjection ==
    [][\A w \in Driver : SentBy(w) /\ w[2] = "L3" => bst[w[1]] = "hold"]_vars

\* Silence is consent only after the notice was delivered and the hold has run out.
SilenceIsInformed ==
    [][\A w \in Driver : SentBy(w) /\ w[2] = "L3" => anchor[w[1]] = "due"]_vars

\* After a batch is closed one message of it may still go out, the one its driver had in
\* hand, and only if the owner had approved the batch.
StopLeavesOne ==
    \A b \in Batch : after[b] <= 1 /\ (after[b] = 1 => pc[<<b, "L2">>] # "idle")

\* A closed batch is not opened again by a step that read it open: the arm of a hold
\* that raced the stop, a late anchor, a demotion, a driver.
ClosedStays ==
    [][\A b \in Batch : bst[b] = "closed" => bst'[b] = "closed"]_vars

\* A draft recorded as sent was taken by Twilio, or an attempt on it died unseen: the
\* ledger says so.
SentIsTrue ==
    \A d \in Draft : dst[d] = "sent" => delivered[d] > 0 \/ ledger[d] = "sending"

\* A batch is reported sent when none of its drafts can be sent any more.
SentIsWhole ==
    \A b \in Batch : bst[b] = "sent" => Drafted(b) = {}

\* A hold that was started comes to its end: it sends, or is handed to the owner, or its
\* workflow ended in an error.
EveryHoldEnds ==
    \A b \in Batch : pc[<<b, "L3">>] = "poll" ~> pc[<<b, "L3">>] \in {"done", "failed"}

\* A kill silences the agent: "a window-expiry send can never fire over the objection"
\* (agents/autonomy.py:347).
KillSilences ==
    [][\A w \in Driver : SentBy(w) /\ w[2] = "L3" => trusted]_vars

\* "Batch -> 'sent' when every draft is terminal" (agents/customer_send.py:367).
TerminalIsReported ==
    \A b \in Batch :
        /\ bst[b] \in {"hold", "sending"}
        /\ \A w \in Driver : w[1] = b => pc[w] \in {"idle", "done", "failed"}
        => Drafted(b) # {}

===============================================================================
