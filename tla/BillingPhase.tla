----------------------------- MODULE BillingPhase -----------------------------
(* One tenant's money: Razorpay's events in their inbox, the subscription they   *)
(* belong to, and the phase that the events and the daily trial sweep move.      *)
(*                                                                               *)
(* An event is booked in one transaction; the phase it asks for is moved after   *)
(* the commit, in three steps that anybody may come between: read the phase,     *)
(* stamp the transition, commit it. A stamp is a place in the order of the       *)
(* clock: two transitions never have the same.                                   *)
EXTENDS Naturals

CONSTANTS
    Charge, Capture, Failure, Cancellation,    \* Razorpay's event ids, by type
    Token,        \* trial-end tokens (jti), one per attempt to subscribe
    Sub,          \* subscriptions the vendor may create
    Nobody, Sweep,
    Threshold,    \* _FAILURE_THRESHOLD
    MaxFaults     \* bound: processes that die and statements that fail

Event == Charge \cup Capture \cup Failure \cup Cancellation
Flipper == Event \cup {Sweep}
Phase == {"trial", "lapsed", "paid_active", "paid_at_risk", "cancelled"}

ASSUME BillingConstants ==
    /\ Threshold \in Nat \ {0} /\ MaxFaults \in Nat
    /\ Charge \cap (Capture \cup Failure \cup Cancellation) = {}
    /\ Capture \cap (Failure \cup Cancellation) = {} /\ Failure \cap Cancellation = {}
    /\ Sweep \notin Event /\ Nobody \notin Sub

VARIABLES
    \* rows
    phase,      \* tenants.phase
    verified,   \* tenants.verification_status is gstin_verified or above
    log,        \* phase_transitions
    row,        \* razorpay_webhook_events: none, drop (processed_at NULL), processed
    dead,       \* razorpay_webhook_dead_letter.status
    counted,    \* times an event is in subscriptions.cumulative_fees_paid_paise
    failures,   \* subscriptions.consecutive_payment_failures
    bound,      \* rows of subscriptions
    spent,      \* consumed_subscribe_tokens
    \* the vendor
    made,       \* subscriptions created under the key of a token
    \* processes
    hand,       \* the subscription an open subscribe transaction has created
    pc, read, stamp,    \* transitions under way
    \* the world
    clock,
    linked,     \* the owner got the subscribe link of an ended trial
    faults

inbox == <<row, dead, counted, failures>>
subscribing == <<bound, spent, made, hand>>
flip == <<pc, read, stamp, clock>>
vars == <<phase, verified, log, inbox, subscribing, flip, linked, faults>>

Init ==
    /\ phase = "trial" /\ verified = FALSE /\ log = {}
    /\ row = [e \in Event |-> "none"]
    /\ dead = [e \in Charge |-> "none"]
    /\ counted = [e \in Charge |-> 0]
    /\ failures = 0
    /\ bound = {} /\ spent = {} /\ made = [t \in Token |-> {}]
    /\ hand = [t \in Token |-> Nobody]
    /\ pc = [p \in Flipper |-> "none"]
    /\ read = [p \in Flipper |-> "trial"]
    /\ stamp = [p \in Flipper |-> 0]
    /\ clock = 0 /\ linked = FALSE /\ faults = 0

-------------------------------------------------------------------------------
(* The transition table and what moves it.                                      *)

Table == {
    <<"trial", "subscribe", "paid_active">>,
    <<"trial", "trial_expired", "lapsed">>,
    <<"trial", "cancellation_requested", "cancelled">>,
    <<"lapsed", "subscribe", "paid_active">>,
    <<"lapsed", "cancellation_requested", "cancelled">>,
    <<"paid_active", "cancellation_requested", "cancelled">>,
    <<"paid_at_risk", "cancellation_requested", "cancelled">>,
    <<"paid_active", "payment_failed", "paid_at_risk">>,
    <<"paid_at_risk", "payment_failed", "paid_at_risk">>}

Transition_Resubscribe == Table \cup {<<"cancelled", "subscribe", "paid_active">>}        \* a mutant
Transition == Table

Cause(p) == CASE p \in Capture -> "subscribe"
              [] p \in Failure -> "payment_failed"
              [] p \in Cancellation -> "cancellation_requested"
              [] OTHER -> "trial_expired"

Go(p, l) == pc' = [pc EXCEPT ![p] = l]

\* The locals of a transition go with it; only the sweep looks at its outcome.
Ends(p, outcome) ==
    /\ Go(p, IF p = Sweep THEN outcome ELSE "none")
    /\ read' = [read EXCEPT ![p] = "trial"]
    /\ stamp' = [stamp EXCEPT ![p] = 0]

\* The phase is read again, in a statement of its own.
ReadPhase(p) ==
    /\ pc[p] = "pending"
    /\ read' = [read EXCEPT ![p] = phase]
    /\ Go(p, "read")
    /\ UNCHANGED <<phase, verified, log, inbox, subscribing, stamp, clock, linked, faults>>

Target(p) == {t[3] : t \in {u \in Transition : u[1] = read[p] /\ u[2] = Cause(p)}}

\* A pair outside the table raises, and so does a subscribe before the business is verified.
Resolved(p) ==
    /\ Target(p) # {}
    /\ Cause(p) = "subscribe" => verified

\* The sweep looks at the phase before it asks; a transition is stamped before its
\* transaction begins.
Resolve(p) ==
    /\ pc[p] = "read"
    /\ IF Resolved(p)
       THEN /\ clock' = clock + 1
            /\ stamp' = [stamp EXCEPT ![p] = clock + 1]
            /\ Go(p, "stamped")
            /\ read' = read
       ELSE /\ Ends(p, IF read[p] = "trial" THEN "raised" ELSE "noop")
            /\ clock' = clock
    /\ UNCHANGED <<phase, verified, log, inbox, subscribing, linked, faults>>

\* check_invariants, in the transaction: no later stamp is committed, and a paid phase has a
\* conversion in the caller's state, which only a subscribe puts there.
Monotone_Unchecked(p) == TRUE                                     \* a mutant
Monotone(p) == \A r \in log : r.at =< stamp[p]

Converted(p, to) == to \in {"paid_active", "paid_at_risk"} => Cause(p) = "subscribe"

\* The row of the transition and the tenant's phase, whatever it has become meanwhile.
Commit(p) ==
    /\ pc[p] = "stamped"
    /\ \E to \in Target(p) :
        IF Monotone(p) /\ Converted(p, to)
        THEN /\ phase' = to
             /\ log' = log \cup {[at |-> stamp[p], from |-> read[p], to |-> to]}
             /\ Ends(p, "done")
        ELSE Ends(p, "raised") /\ UNCHANGED <<phase, log>>
    /\ UNCHANGED <<verified, inbox, subscribing, clock, linked, faults>>

\* A statement fails, or the process dies: for an event nobody tries again.
Fails(p) ==
    /\ pc[p] \in {"pending", "read", "stamped"} /\ faults < MaxFaults
    /\ faults' = faults + 1
    /\ Ends(p, "raised")
    /\ UNCHANGED <<phase, verified, log, inbox, subscribing, clock, linked>>

FlipStep(p) == ReadPhase(p) \/ Resolve(p) \/ Commit(p)

-------------------------------------------------------------------------------
(* Razorpay's events, delivered at least once, in any order.                    *)

Created == UNION {made[t] : t \in Token}

\* A charge whose amount does not parse is kept for an operator and acknowledged.
Enqueues(e) == row[e] # "processed"

Drop(e) ==
    /\ Created # {}
    /\ row' = IF row[e] = "processed" THEN row ELSE [row EXCEPT ![e] = "drop"]
    /\ dead' = IF Enqueues(e) /\ dead[e] = "none" THEN [dead EXCEPT ![e] = "pending"] ELSE dead
    /\ UNCHANGED <<phase, verified, log, counted, failures, subscribing, flip, linked, faults>>

\* The dedup: a known event is a duplicate, unless it was dropped and comes corrected.
Fresh_Unread(e) == TRUE                                           \* a mutant
Fresh(e) == row[e] # "processed"

Booked(e) == row' = [row EXCEPT ![e] = "processed"]

ChargeArrives(e) ==
    /\ Fresh(e) /\ bound # {}
    /\ Booked(e)
    /\ counted' = [counted EXCEPT ![e] = @ + 1]
    /\ dead' = IF row[e] = "drop" THEN [dead EXCEPT ![e] = "replayed"] ELSE dead
    /\ failures' = 0
    /\ UNCHANGED <<phase, verified, log, subscribing, flip, linked, faults>>

CaptureArrives(e) ==
    /\ Fresh(e) /\ bound # {}
    /\ Booked(e)
    /\ failures' = 0
    /\ IF phase \in {"trial", "lapsed"} THEN Go(e, "pending") ELSE pc' = pc
    /\ UNCHANGED <<phase, verified, log, dead, counted, subscribing, read, stamp, clock, linked, faults>>

FailureArrives(e) ==
    /\ Fresh(e) /\ bound # {}
    /\ Booked(e)
    /\ failures' = failures + 1
    /\ IF failures' >= Threshold THEN Go(e, "pending") ELSE pc' = pc
    /\ UNCHANGED <<phase, verified, log, dead, counted, subscribing, read, stamp, clock, linked, faults>>

CancellationArrives(e) ==
    /\ Fresh(e) /\ bound # {}
    /\ Booked(e)
    /\ Go(e, "pending")
    /\ UNCHANGED <<phase, verified, log, dead, counted, failures, subscribing, read, stamp, clock, linked, faults>>

\* A subscription the vendor has and the database has not: the event is recorded and
\* acknowledged, and counts for nobody. A correction for such a one is refused (422).
Ignored(e) ==
    /\ row[e] = "none" /\ Created \ bound # {}
    /\ Booked(e)
    /\ UNCHANGED <<phase, verified, log, dead, counted, failures, subscribing, flip, linked, faults>>

Arrives(e) ==
    \/ e \in Charge /\ (Drop(e) \/ ChargeArrives(e))
    \/ e \in Capture /\ CaptureArrives(e)
    \/ e \in Failure /\ FailureArrives(e)
    \/ e \in Cancellation /\ CancellationArrives(e)
    \/ Ignored(e)

-------------------------------------------------------------------------------
(* _do_subscribe: one transaction under the tenant's advisory lock, with the     *)
(* vendor's call inside.                                                        *)

LockFree_Ignored(t) == hand[t] = Nobody                           \* a mutant
LockFree(t) == \A u \in Token : hand[u] = Nobody

\* A bound subscription is returned; the token is spent on the answer.
SubscriptionExists(t) ==
    /\ LockFree(t) /\ t \notin spent /\ bound # {}
    /\ spent' = spent \cup {t}
    /\ UNCHANGED <<phase, verified, log, inbox, bound, made, hand, flip, linked, faults>>

\* The vendor may or may not honour the token as an idempotency key.
CreateAtVendor(t) ==
    /\ LockFree(t) /\ t \notin spent /\ bound = {}
    /\ \E s \in made[t] \cup (Sub \ Created) :
        /\ made' = [made EXCEPT ![t] = @ \cup {s}]
        /\ hand' = [hand EXCEPT ![t] = s]
    /\ UNCHANGED <<phase, verified, log, inbox, bound, spent, flip, linked, faults>>

Bind(t) ==
    /\ hand[t] # Nobody
    /\ bound' = bound \cup {hand[t]}
    /\ spent' = spent \cup {t}
    /\ hand' = [hand EXCEPT ![t] = Nobody]
    /\ UNCHANGED <<phase, verified, log, inbox, made, flip, linked, faults>>

\* The transaction is lost, and with it the use of the token; the vendor keeps what it made.
BindFails(t) ==
    /\ hand[t] # Nobody /\ faults < MaxFaults
    /\ faults' = faults + 1
    /\ hand' = [hand EXCEPT ![t] = Nobody]
    /\ UNCHANGED <<phase, verified, log, inbox, bound, spent, made, flip, linked>>

Subscribe(t) == SubscriptionExists(t) \/ CreateAtVendor(t) \/ Bind(t) \/ BindFails(t)

-------------------------------------------------------------------------------
(* The daily sweep over trials.                                                 *)

\* Scan, pause check and verdict, on a day after the thirtieth: what is not a trial now never
\* is one again.
Evaluate ==
    /\ pc[Sweep] = "none" /\ phase = "trial"
    /\ Go(Sweep, "pending")
    /\ UNCHANGED <<phase, verified, log, inbox, subscribing, read, stamp, clock, linked, faults>>

\* After a transition that failed the owner is not told that the trial is over; otherwise
\* they get the link, if it can be composed and the send's own gates let it pass.
Vouched_Always == TRUE                                            \* a mutant
Vouched == pc[Sweep] # "raised"

Outcome_Raises == {"done", "noop"}                                \* a mutant
Outcome == {"done", "noop", "raised"}

Tell ==
    /\ pc[Sweep] \in Outcome
    /\ \/ Vouched /\ linked' = TRUE
       \/ linked' = linked
    /\ Go(Sweep, "none")
    /\ UNCHANGED <<phase, verified, log, inbox, subscribing, read, stamp, clock, faults>>

\* The next run, or a recovery, starts from the scan.
SweepDies ==
    /\ pc[Sweep] # "none" /\ faults < MaxFaults
    /\ faults' = faults + 1
    /\ Ends(Sweep, "none")
    /\ UNCHANGED <<phase, verified, log, inbox, subscribing, clock, linked>>

\* Tries to expire what is due; without a next try a failed transition strands the tenant.
SweepStep == Evaluate \/ FlipStep(Sweep) \/ Tell

-------------------------------------------------------------------------------
(* The world.                                                                   *)

Verify ==
    /\ ~verified /\ verified' = TRUE
    /\ UNCHANGED <<phase, log, inbox, subscribing, flip, linked, faults>>

Next ==
    \/ \E p \in Flipper : FlipStep(p) \/ Fails(p)
    \/ \E e \in Event : Arrives(e)
    \/ \E t \in Token : Subscribe(t)
    \/ Evaluate \/ Tell \/ SweepDies \/ Verify

Spec == Init /\ [][Next]_vars

Fairness == WF_vars(SweepStep)

FairSpec == Spec /\ Fairness

-------------------------------------------------------------------------------
(* Properties.                                                                  *)

Transitions == [at : Nat, from : Phase, to : Phase]

\* Rows, locals and counters have their types.
TypeOK ==
    /\ phase \in Phase /\ verified \in BOOLEAN /\ log \subseteq Transitions
    /\ row \in [Event -> {"none", "drop", "processed"}]
    /\ dead \in [Charge -> {"none", "pending", "replayed"}]
    /\ counted \in [Charge -> Nat] /\ failures \in Nat
    /\ bound \subseteq Sub /\ spent \subseteq Token
    /\ made \in [Token -> SUBSET Sub] /\ hand \in [Token -> Sub \cup {Nobody}]
    /\ pc \in [Flipper -> {"none", "pending", "read", "stamped", "done", "noop", "raised"}]
    /\ read \in [Flipper -> Phase] /\ stamp \in [Flipper -> Nat]
    /\ clock \in Nat /\ faults \in 0 .. MaxFaults
    /\ linked \in BOOLEAN

\* A charge is counted at most once, however often it is delivered, dropped, corrected or
\* replayed (api/razorpay_ingress.py: "fees never double-count").
Fees == INSTANCE EffectOnce WITH Key <- Charge, delivered <- counted, blurred <- {}
FeesOnce == Fees!Spec

\* The dead-letter queue is exactly the dropped charges: none waits for a replay that would
\* be a duplicate, and none was acknowledged, not booked and forgotten.
QueueIsTrue == \A e \in Charge :
    /\ dead[e] = "pending" <=> row[e] = "drop"
    /\ dead[e] = "replayed" => counted[e] = 1

\* Two attempts to subscribe never leave the tenant with two bound subscriptions, whose
\* charges would both be taken.
OneSubscription == \A s, u \in bound : s = u

\* The mirror on the tenant's row is the transition with the latest stamp, so it can be
\* rebuilt from the log.
MirrorIsLatest ==
    /\ log = {} => phase = "trial"
    /\ \A r \in log : (\A q \in log : q.at =< r.at) => phase = r.to

\* The subscribe link says that the trial is over: no tenant in trial has it.
LinkIsTrue == linked => phase # "trial"

\* A cancelled tenant comes back only by a transition that read the phase before the
\* cancellation and was stamped after it.
CancelledStands == [][
    phase = "cancelled" /\ phase' # phase =>
        \E p \in Flipper : /\ pc[p] = "stamped" /\ pc'[p] # "stamped"
                           /\ read[p] # "cancelled"
                           /\ \A r \in log : r.at < stamp[p]]_vars

\* Every trial ends, whatever fails on the way.
TrialsEnd == <>(phase # "trial")

-------------------------------------------------------------------------------
(* What the repository says and the code does not do.                           *)

\* "if a concurrent event already moved the phase ... we no-op — never a wrong transition
\* (the TOCTOU is safe-by-raise)" (api/razorpay_ingress.py:421).
NeverWrong == [][\A r \in log' \ log : r.from = phase]_vars

\* "3 consecutive payment.failed -> paid_at_risk" (api/razorpay_ingress.py:51).
ThirdFailureBites == [][\A e \in Failure :
    pc[e] = "stamped" /\ pc'[e] = "none" /\ read[e] = phase /\ faults' = faults
        => phase' = "paid_at_risk"]_vars

===============================================================================
