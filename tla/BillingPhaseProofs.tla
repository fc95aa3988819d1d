-------------------------- MODULE BillingPhaseProofs --------------------------
(* What BillingPhase keeps for any set of events, tokens and vendor              *)
(* subscriptions, any threshold and any number of faults.                       *)
EXTENDS BillingPhase, TLAPS

-------------------------------------------------------------------------------
(* The table.                                                                   *)

\* Nothing leads back to trial, and nothing leaves cancelled.
LEMMA TableFacts ==
    \A t \in Transition : t[3] \in Phase /\ t[3] # "trial" /\ t[1] # "cancelled"
  BY DEF Transition, Table, Phase

LEMMA TargetFacts ==
    ASSUME NEW p, NEW to \in Target(p)
    PROVE  to \in Phase /\ to # "trial" /\ read[p] # "cancelled"
  <1>1. PICK t \in Transition : t[1] = read[p] /\ to = t[3]
    BY DEF Target
  <1>2. QED
    BY <1>1, TableFacts

LEMMA SweepIsNoEvent == Sweep \in Flipper /\ Sweep \notin Event /\ Nobody \notin Sub
  BY BillingConstants DEF Flipper

-------------------------------------------------------------------------------
(* Types.                                                                       *)

Locals == [Flipper -> {"none", "pending", "read", "stamped", "done", "noop", "raised"}]

\* The end of a transition leaves its locals typed.
LEMMA EndsTypes ==
    ASSUME TypeOK, NEW p \in Flipper, NEW o \in {"none", "done", "noop", "raised"}, Ends(p, o)
    PROVE  pc' \in Locals /\ read' \in [Flipper -> Phase] /\ stamp' \in [Flipper -> Nat]
  BY DEF TypeOK, Ends, Go, Locals, Phase

LEMMA InitTypes == Init => TypeOK
  <1>. SUFFICES ASSUME Init PROVE TypeOK
    OBVIOUS
  <1>1. phase \in Phase /\ read \in [Flipper -> Phase]
    BY DEF Init, Phase
  <1>2. faults \in 0 .. MaxFaults /\ clock \in Nat /\ failures \in Nat
    BY BillingConstants DEF Init
  <1>3. pc \in Locals /\ stamp \in [Flipper -> Nat]
    BY DEF Init, Locals
  <1>4. made \in [Token -> SUBSET Sub] /\ hand \in [Token -> Sub \cup {Nobody}]
    BY DEF Init
  <1>5. QED
    BY <1>1, <1>2, <1>3, <1>4 DEF Init, TypeOK, Locals

LEMMA FlipTypes ==
    ASSUME TypeOK, NEW p \in Flipper, FlipStep(p) \/ Fails(p)
    PROVE  TypeOK'
  <1>1. CASE ReadPhase(p)
    BY <1>1 DEF ReadPhase, Go, TypeOK, inbox, subscribing
  <1>2. CASE Resolve(p)
    <2>1. CASE Resolved(p)
      BY <1>2, <2>1 DEF Resolve, Go, TypeOK, inbox, subscribing
    <2>2. CASE ~Resolved(p)
      <3>1. Ends(p, IF read[p] = "trial" THEN "raised" ELSE "noop") /\ clock' = clock
        BY <1>2, <2>2 DEF Resolve
      <3>2. pc' \in Locals /\ read' \in [Flipper -> Phase] /\ stamp' \in [Flipper -> Nat]
        BY <3>1, EndsTypes
      <3>3. QED
        BY <1>2, <3>1, <3>2 DEF Resolve, TypeOK, Locals, inbox, subscribing
    <2>3. QED
      BY <2>1, <2>2
  <1>3. CASE Commit(p)
    <2>1. PICK to \in Target(p) :
            \/ /\ phase' = to
               /\ log' = log \cup {[at |-> stamp[p], from |-> read[p], to |-> to]}
               /\ Ends(p, "done")
            \/ Ends(p, "raised") /\ phase' = phase /\ log' = log
      BY <1>3 DEF Commit
    <2>2. phase' \in Phase /\ log' \subseteq Transitions
      BY <2>1, TargetFacts DEF TypeOK, Transitions
    <2>3. pc' \in Locals /\ read' \in [Flipper -> Phase] /\ stamp' \in [Flipper -> Nat]
      BY <2>1, EndsTypes
    <2>4. QED
      BY <1>3, <2>2, <2>3 DEF Commit, TypeOK, Locals, inbox, subscribing
  <1>4. CASE Fails(p)
    <2>1. pc' \in Locals /\ read' \in [Flipper -> Phase] /\ stamp' \in [Flipper -> Nat]
      BY <1>4, EndsTypes DEF Fails
    <2>2. faults' \in 0 .. MaxFaults
      BY <1>4, BillingConstants DEF Fails, TypeOK
    <2>3. QED
      BY <1>4, <2>1, <2>2 DEF Fails, TypeOK, Locals, inbox, subscribing
  <1>5. QED
    BY <1>1, <1>2, <1>3, <1>4 DEF FlipStep

LEMMA ArrivalTypes ==
    ASSUME TypeOK, NEW e \in Event, Arrives(e)
    PROVE  TypeOK'
  <1>. e \in Flipper
    BY DEF Flipper
  <1>1. CASE e \in Charge /\ Drop(e)
    BY <1>1 DEF Drop, TypeOK, subscribing, flip
  <1>2. CASE e \in Charge /\ ChargeArrives(e)
    BY <1>2 DEF ChargeArrives, Booked, TypeOK, subscribing, flip
  <1>3. CASE e \in Capture /\ CaptureArrives(e)
    BY <1>3 DEF CaptureArrives, Booked, Go, TypeOK, subscribing
  <1>4. CASE e \in Failure /\ FailureArrives(e)
    BY <1>4 DEF FailureArrives, Booked, Go, TypeOK, subscribing
  <1>5. CASE e \in Cancellation /\ CancellationArrives(e)
    BY <1>5 DEF CancellationArrives, Booked, Go, TypeOK, subscribing
  <1>6. CASE Ignored(e)
    BY <1>6 DEF Ignored, Booked, TypeOK, subscribing, flip
  <1>7. QED
    BY <1>1, <1>2, <1>3, <1>4, <1>5, <1>6 DEF Arrives

LEMMA SubscribeTypes ==
    ASSUME TypeOK, NEW t \in Token, Subscribe(t)
    PROVE  TypeOK'
  <1>1. CASE SubscriptionExists(t)
    BY <1>1 DEF SubscriptionExists, TypeOK, inbox, flip
  <1>2. CASE CreateAtVendor(t)
    <2>1. PICK s \in made[t] \cup (Sub \ Created) :
            /\ made' = [made EXCEPT ![t] = @ \cup {s}]
            /\ hand' = [hand EXCEPT ![t] = s]
      BY <1>2 DEF CreateAtVendor
    <2>2. s \in Sub /\ made[t] \cup {s} \in SUBSET Sub
      BY <2>1 DEF TypeOK
    <2>3. made' \in [Token -> SUBSET Sub] /\ hand' \in [Token -> Sub \cup {Nobody}]
      BY <2>1, <2>2 DEF TypeOK
    <2>4. QED
      BY <1>2, <2>3 DEF CreateAtVendor, TypeOK, inbox, flip
  <1>3. CASE Bind(t)
    BY <1>3 DEF Bind, TypeOK, inbox, flip
  <1>4. CASE BindFails(t)
    <2>1. faults' \in 0 .. MaxFaults
      BY <1>4, BillingConstants DEF BindFails, TypeOK
    <2>2. QED
      BY <1>4, <2>1 DEF BindFails, TypeOK, inbox, flip
  <1>5. QED
    BY <1>1, <1>2, <1>3, <1>4 DEF Subscribe

LEMMA SweepTypes ==
    ASSUME TypeOK, Evaluate \/ Tell \/ SweepDies \/ Verify
    PROVE  TypeOK'
  <1>1. CASE Evaluate
    BY <1>1, SweepIsNoEvent DEF Evaluate, Go, TypeOK, inbox, subscribing
  <1>2. CASE Tell
    BY <1>2, SweepIsNoEvent DEF Tell, Go, TypeOK, inbox, subscribing
  <1>3. CASE SweepDies
    <2>1. pc' \in Locals /\ read' \in [Flipper -> Phase] /\ stamp' \in [Flipper -> Nat]
      BY <1>3, EndsTypes, SweepIsNoEvent DEF SweepDies
    <2>2. faults' \in 0 .. MaxFaults
      BY <1>3, BillingConstants DEF SweepDies, TypeOK
    <2>3. QED
      BY <1>3, <2>1, <2>2 DEF SweepDies, TypeOK, Locals, inbox, subscribing
  <1>4. CASE Verify
    BY <1>4 DEF Verify, TypeOK, inbox, subscribing, flip
  <1>5. QED
    BY <1>1, <1>2, <1>3, <1>4

LEMMA NextTypes == TypeOK /\ [Next]_vars => TypeOK'
  <1>1. ASSUME TypeOK, UNCHANGED vars PROVE TypeOK'
    BY <1>1 DEF vars, inbox, subscribing, flip, TypeOK
  <1>2. QED
    BY <1>1, FlipTypes, ArrivalTypes, SubscribeTypes, SweepTypes DEF Next

\* Rows, locals and counters of the money path keep their types.
THEOREM TypeCorrect == Spec => []TypeOK
  BY InitTypes, NextTypes, PTL DEF Spec

-------------------------------------------------------------------------------
(* The inbox and the dead-letter queue.                                         *)

\* A charge is counted exactly when it is processed for a bound subscription, and then once.
Inbox == \A e \in Charge :
    /\ counted[e] \in {0, 1}
    /\ row[e] # "processed" => counted[e] = 0
    /\ dead[e] = "pending" <=> row[e] = "drop"
    /\ dead[e] = "replayed" => counted[e] = 1

LEMMA InitInbox == Init => Inbox
  BY DEF Init, Inbox, Event

\* Whoever books an event that is no charge, or does not touch the inbox.
LEMMA OthersKeepInbox ==
    ASSUME TypeOK, Inbox, NEW e \in Event, e \notin Charge, Booked(e), UNCHANGED <<dead, counted>>
    PROVE  Inbox'
  BY DEF TypeOK, Inbox, Booked, Event

LEMMA ArrivalKeepsInbox ==
    ASSUME TypeOK, Inbox, NEW e \in Event, Arrives(e)
    PROVE  Inbox'
  <1>1. CASE e \in Charge /\ Drop(e)
    <2>1. CASE row[e] = "processed"
      <3>1. row' = row /\ dead' = dead /\ counted' = counted
        BY <1>1, <2>1 DEF Drop, Enqueues
      <3>2. QED
        BY <3>1 DEF Inbox
    <2>2. CASE row[e] # "processed"
      <3>1. row' = [row EXCEPT ![e] = "drop"] /\ counted' = counted
        BY <1>1, <2>2 DEF Drop
      <3>2. dead' = IF dead[e] = "none" THEN [dead EXCEPT ![e] = "pending"] ELSE dead
        BY <1>1, <2>2 DEF Drop, Enqueues
      <3>3. dead[e] # "replayed" /\ counted[e] = 0
        BY <1>1, <2>2 DEF Inbox
      <3>4. dead'[e] = "pending" /\ row'[e] = "drop"
        BY <1>1, <3>1, <3>2, <3>3 DEF TypeOK
      <3>5. \A f \in Charge : f # e => dead'[f] = dead[f] /\ row'[f] = row[f]
        BY <1>1, <3>1, <3>2 DEF TypeOK, Event
      <3>6. QED
        BY <3>1, <3>3, <3>4, <3>5 DEF Inbox
    <2>3. QED
      BY <2>1, <2>2
  <1>2. CASE e \in Charge /\ ChargeArrives(e)
    <2>1. counted[e] = 0
      BY <1>2 DEF ChargeArrives, Fresh, Inbox
    <2>2. counted'[e] = 1 /\ row'[e] = "processed"
      BY <1>2, <2>1 DEF ChargeArrives, Booked, TypeOK
    <2>3. dead'[e] # "pending"
      BY <1>2 DEF ChargeArrives, Fresh, Inbox, TypeOK
    <2>4. \A f \in Charge : f # e => /\ counted'[f] = counted[f] /\ row'[f] = row[f]
                                    /\ dead'[f] = dead[f]
      BY <1>2 DEF ChargeArrives, Booked, TypeOK, Event
    <2>5. QED
      BY <2>2, <2>3, <2>4 DEF Inbox
  <1>3. CASE e \in Capture /\ CaptureArrives(e)
    BY <1>3, BillingConstants, OthersKeepInbox DEF CaptureArrives
  <1>4. CASE e \in Failure /\ FailureArrives(e)
    BY <1>4, BillingConstants, OthersKeepInbox DEF FailureArrives
  <1>5. CASE e \in Cancellation /\ CancellationArrives(e)
    BY <1>5, BillingConstants, OthersKeepInbox DEF CancellationArrives
  <1>6. CASE Ignored(e)
    BY <1>6 DEF Ignored, Booked, Inbox, TypeOK, Event
  <1>7. QED
    BY <1>1, <1>2, <1>3, <1>4, <1>5, <1>6 DEF Arrives

\* Only an arrival touches the inbox.
LEMMA InboxElsewhere ==
    ASSUME \/ \E p \in Flipper : FlipStep(p) \/ Fails(p)
           \/ \E t \in Token : Subscribe(t)
           \/ Evaluate \/ Tell \/ SweepDies \/ Verify
           \/ UNCHANGED vars
    PROVE  UNCHANGED inbox
  BY DEF FlipStep, ReadPhase, Resolve, Commit, Fails, Subscribe, SubscriptionExists,
         CreateAtVendor, Bind, BindFails, Evaluate, Tell, SweepDies, Verify, vars

LEMMA NextInbox == TypeOK /\ Inbox /\ [Next]_vars => Inbox'
  <1>1. ASSUME Inbox, UNCHANGED inbox PROVE Inbox'
    BY <1>1 DEF inbox, Inbox
  <1>2. QED
    BY <1>1, ArrivalKeepsInbox, InboxElsewhere DEF Next

LEMMA AlwaysInbox == Spec => [](TypeOK /\ Inbox)
  BY InitTypes, NextTypes, InitInbox, NextInbox, PTL DEF Spec

\* The dead-letter queue is the dropped charges.
THEOREM TrueQueue == Spec => []QueueIsTrue
  <1>1. Inbox => QueueIsTrue
    BY DEF Inbox, QueueIsTrue
  <1>2. QED
    BY <1>1, AlwaysInbox, PTL

\* A step counts one charge that was not counted, or none.
LEMMA CountsOnce ==
    TypeOK /\ Inbox /\ [Next]_vars => [Fees!Next]_<<counted, {}>>
  <1>. SUFFICES ASSUME TypeOK, Inbox, [Next]_vars
               PROVE  Fees!Next \/ UNCHANGED <<counted, {}>>
    OBVIOUS
  <1>1. ASSUME UNCHANGED inbox PROVE UNCHANGED <<counted, {}>>
    BY <1>1 DEF inbox
  <1>2. ASSUME NEW e \in Event, Arrives(e) PROVE Fees!Next \/ UNCHANGED <<counted, {}>>
    <2>1. CASE e \in Charge /\ ChargeArrives(e)
      <3>1. counted[e] = 0 /\ counted' = [counted EXCEPT ![e] = @ + 1]
        BY <2>1 DEF ChargeArrives, Fresh, Inbox
      <3>2. Fees!Deliver(e)
        BY <3>1 DEF Fees!Deliver
      <3>3. QED
        BY <2>1, <3>2 DEF Fees!Next
    <2>2. QED
      BY <1>2, <2>1 DEF Arrives, Drop, CaptureArrives, FailureArrives, CancellationArrives, Ignored
  <1>3. QED
    BY <1>1, <1>2, InboxElsewhere DEF Next

\* The inbox and the fees implement EffectOnce without its excuse.
THEOREM FeesRefinement == Spec => FeesOnce
  <1>1. Init => Fees!Init
    BY DEF Init, Fees!Init
  <1>2. QED
    BY <1>1, CountsOnce, AlwaysInbox, PTL DEF Spec, FeesOnce, Fees!Spec

-------------------------------------------------------------------------------
(* Subscriptions.                                                               *)

\* One transaction at a time has a subscription in hand, and only while none is bound.
Locked ==
    /\ \A t, u \in Token : hand[t] # Nobody /\ hand[u] # Nobody => t = u
    /\ \A t \in Token : hand[t] # Nobody => bound = {}
    /\ OneSubscription

LEMMA InitLocked == Init => Locked
  BY DEF Init, Locked, OneSubscription

LEMMA SubscribeKeepsLocked ==
    ASSUME TypeOK, Locked, NEW t \in Token, Subscribe(t)
    PROVE  Locked'
  <1>1. CASE SubscriptionExists(t)
    BY <1>1 DEF SubscriptionExists, Locked, OneSubscription
  <1>2. CASE CreateAtVendor(t)
    <2>1. bound' = {} /\ \A u \in Token : hand'[u] # Nobody => u = t
      BY <1>2 DEF CreateAtVendor, LockFree, TypeOK
    <2>2. QED
      BY <2>1 DEF Locked, OneSubscription
  <1>3. CASE Bind(t)
    <2>1. bound' = {hand[t]} /\ \A u \in Token : hand'[u] = Nobody
      BY <1>3 DEF Bind, Locked, TypeOK
    <2>2. QED
      BY <2>1 DEF Locked, OneSubscription
  <1>4. CASE BindFails(t)
    BY <1>4 DEF BindFails, Locked, OneSubscription, TypeOK
  <1>5. QED
    BY <1>1, <1>2, <1>3, <1>4 DEF Subscribe

LEMMA SubscribingElsewhere ==
    ASSUME \/ \E p \in Flipper : FlipStep(p) \/ Fails(p)
           \/ \E e \in Event : Arrives(e)
           \/ Evaluate \/ Tell \/ SweepDies \/ Verify
           \/ UNCHANGED vars
    PROVE  UNCHANGED subscribing
  BY DEF FlipStep, ReadPhase, Resolve, Commit, Fails, Arrives, Drop, ChargeArrives,
         CaptureArrives, FailureArrives, CancellationArrives, Ignored, Evaluate, Tell,
         SweepDies, Verify, vars

LEMMA NextLocked == TypeOK /\ Locked /\ [Next]_vars => Locked'
  <1>1. ASSUME Locked, UNCHANGED subscribing PROVE Locked'
    BY <1>1 DEF subscribing, Locked, OneSubscription
  <1>2. QED
    BY <1>1, SubscribeKeepsLocked, SubscribingElsewhere DEF Next

\* The tenant never has two bound subscriptions.
THEOREM OneBound == Spec => []OneSubscription
  <1>1. Locked => OneSubscription
    BY DEF Locked
  <1>2. QED
    BY <1>1, InitTypes, NextTypes, InitLocked, NextLocked, PTL DEF Spec

-------------------------------------------------------------------------------
(* Stamps, the log and the mirror.                                              *)

\* Stamps in use and stamps in the log are distinct, and none is ahead of the clock.
Stamps ==
    /\ \A p \in Flipper : pc[p] = "stamped" => stamp[p] =< clock
    /\ \A p, q \in Flipper : pc[p] = "stamped" /\ pc[q] = "stamped" /\ stamp[p] = stamp[q] => p = q
    /\ \A r \in log : r.at =< clock
    /\ \A r \in log, p \in Flipper : pc[p] = "stamped" => r.at # stamp[p]

\* What a process read tells something of what is: trial is left for good.
Reads ==
    /\ \A p \in Flipper : read[p] # "trial" => phase # "trial"
    /\ pc[Sweep] \in {"done", "noop"} => phase # "trial"
    /\ linked => phase # "trial"

Ledger == Stamps /\ Reads /\ MirrorIsLatest

LEMMA InitLedger == Init => Ledger
  BY SweepIsNoEvent DEF Init, Ledger, Stamps, Reads, MirrorIsLatest

\* A transition that ends without a commit.
LEMMA EndKeepsLedger ==
    ASSUME TypeOK, Ledger, NEW p \in Flipper, NEW o \in {"none", "noop", "raised"}, Ends(p, o),
           o = "noop" => phase # "trial", UNCHANGED <<phase, log, clock, linked>>
    PROVE  Ledger'
  <1>1. /\ pc'[p] # "stamped" /\ read'[p] = "trial"
        /\ \A q \in Flipper : q # p => pc'[q] = pc[q] /\ read'[q] = read[q] /\ stamp'[q] = stamp[q]
    BY DEF Ends, Go, TypeOK
  <1>2. Stamps'
    BY <1>1 DEF Ledger, Stamps
  <1>3. pc'[Sweep] \in {"done", "noop"} => phase # "trial"
    BY SweepIsNoEvent DEF Ends, Go, TypeOK, Ledger, Reads
  <1>4. Reads'
    BY <1>1, <1>3 DEF Ledger, Reads
  <1>5. QED
    BY <1>2, <1>4 DEF Ledger, MirrorIsLatest

\* A step of one process that neither stamps nor touches phase and log.
LEMMA GoKeepsLedger ==
    ASSUME TypeOK, Ledger, NEW p \in Flipper, NEW l \in {"none", "pending"}, Go(p, l),
           linked' => phase # "trial", UNCHANGED <<phase, log, clock, read, stamp>>
    PROVE  Ledger'
  <1>1. pc'[p] # "stamped" /\ \A q \in Flipper : q # p => pc'[q] = pc[q]
    BY DEF Go, TypeOK
  <1>2. Stamps'
    BY <1>1 DEF Ledger, Stamps
  <1>3. pc'[Sweep] \in {"done", "noop"} => phase # "trial"
    BY SweepIsNoEvent DEF Go, TypeOK, Ledger, Reads
  <1>4. QED
    BY <1>2, <1>3 DEF Ledger, Reads, MirrorIsLatest

LEMMA CommitKeepsLedger ==
    ASSUME TypeOK, Ledger, NEW p \in Flipper, Commit(p)
    PROVE  Ledger'
  <1>. /\ pc[p] = "stamped" /\ stamp[p] \in Nat /\ clock \in Nat
       /\ clock' = clock /\ linked' = linked
       /\ \A r \in log : r.at \in Nat
    BY DEF Commit, TypeOK, Transitions
  <1>1. PICK to \in Target(p) :
          \/ /\ Monotone(p)
             /\ phase' = to
             /\ log' = log \cup {[at |-> stamp[p], from |-> read[p], to |-> to]}
             /\ Ends(p, "done")
          \/ Ends(p, "raised") /\ phase' = phase /\ log' = log
    BY DEF Commit
  <1>2. CASE Ends(p, "raised") /\ phase' = phase /\ log' = log
    BY <1>2, EndKeepsLedger
  <1>3. CASE /\ Monotone(p)
             /\ phase' = to
             /\ log' = log \cup {[at |-> stamp[p], from |-> read[p], to |-> to]}
             /\ Ends(p, "done")
    <2>1. /\ pc'[p] # "stamped"
          /\ \A q \in Flipper : q # p => pc'[q] = pc[q] /\ stamp'[q] = stamp[q]
      BY <1>3 DEF Ends, Go, TypeOK
    <2>2. \A r \in log : r.at < stamp[p]
      BY <1>3 DEF Monotone, Ledger, Stamps
    <2>3. Stamps'
      BY <1>3, <2>1 DEF Ledger, Stamps
    <2>4. Reads'
      BY <1>3, TargetFacts DEF Reads
    <2>5. ASSUME NEW r \in log', \A q \in log' : q.at =< r.at PROVE r.to = to
      <3>. DEFINE new == [at |-> stamp[p], from |-> read[p], to |-> to]
      <3>1. new \in log' /\ new.at = stamp[p] /\ new.to = to
        BY <1>3
      <3>2. stamp[p] =< r.at
        BY <2>5, <3>1
      <3>3. r \notin log
        BY <2>2, <3>2
      <3>4. QED
        BY <1>3, <3>1, <3>3
    <2>6. QED
      BY <1>3, <2>3, <2>4, <2>5 DEF Ledger, MirrorIsLatest
  <1>4. QED
    BY <1>1, <1>2, <1>3

LEMMA FlipKeepsLedger ==
    ASSUME TypeOK, Ledger, NEW p \in Flipper, FlipStep(p) \/ Fails(p)
    PROVE  Ledger'
  <1>1. CASE ReadPhase(p)
    <2>1. /\ pc' = [pc EXCEPT ![p] = "read"] /\ read' = [read EXCEPT ![p] = phase]
          /\ UNCHANGED <<phase, log, stamp, clock, linked>>
      BY <1>1 DEF ReadPhase, Go
    <2>2. /\ pc'[p] = "read" /\ read'[p] = phase
          /\ \A q \in Flipper : q # p => pc'[q] = pc[q] /\ read'[q] = read[q]
      BY <2>1 DEF TypeOK
    <2>3. Stamps'
      BY <2>1, <2>2 DEF Ledger, Stamps
    <2>4. pc'[Sweep] \in {"done", "noop"} => pc[Sweep] \in {"done", "noop"}
      BY <2>2, SweepIsNoEvent
    <2>5. Reads'
      BY <2>1, <2>2, <2>4 DEF Ledger, Reads
    <2>6. QED
      BY <2>1, <2>3, <2>5 DEF Ledger, MirrorIsLatest
  <1>2. CASE Resolve(p)
    <2>1. CASE Resolved(p)
      <3>1. /\ clock' = clock + 1 /\ stamp' = [stamp EXCEPT ![p] = clock + 1]
            /\ pc' = [pc EXCEPT ![p] = "stamped"] /\ read' = read
            /\ UNCHANGED <<phase, log, linked>>
        BY <1>2, <2>1 DEF Resolve, Go
      <3>2. /\ pc'[p] = "stamped" /\ stamp'[p] = clock + 1
            /\ \A q \in Flipper : q # p => pc'[q] = pc[q] /\ stamp'[q] = stamp[q]
        BY <3>1 DEF TypeOK
      <3>3. clock \in Nat /\ stamp \in [Flipper -> Nat] /\ \A r \in log : r.at \in Nat
        BY DEF TypeOK, Transitions
      <3>4. Stamps'
        BY <3>1, <3>2, <3>3 DEF Ledger, Stamps
      <3>5. pc'[Sweep] \in {"done", "noop"} => pc[Sweep] \in {"done", "noop"}
        BY <3>2, SweepIsNoEvent
      <3>6. QED
        BY <3>1, <3>4, <3>5 DEF Ledger, Reads, MirrorIsLatest
    <2>2. CASE ~Resolved(p)
      <3>1. /\ Ends(p, IF read[p] = "trial" THEN "raised" ELSE "noop")
            /\ UNCHANGED <<phase, log, clock, linked>>
        BY <1>2, <2>2 DEF Resolve
      <3>2. QED
        BY <3>1, EndKeepsLedger DEF Ledger, Reads
    <2>3. QED
      BY <2>1, <2>2
  <1>3. CASE Commit(p)
    BY <1>3, CommitKeepsLedger
  <1>4. CASE Fails(p)
    BY <1>4, EndKeepsLedger DEF Fails
  <1>5. QED
    BY <1>1, <1>2, <1>3, <1>4 DEF FlipStep

LEMMA ArrivalKeepsLedger ==
    ASSUME TypeOK, Ledger, NEW e \in Event, Arrives(e)
    PROVE  Ledger'
  <1>. e \in Flipper
    BY DEF Flipper
  <1>1. UNCHANGED <<phase, log, clock, read, stamp, linked>>
    BY DEF Arrives, Drop, ChargeArrives, CaptureArrives, FailureArrives, CancellationArrives,
           Ignored, flip
  <1>2. Go(e, "pending") \/ pc' = pc
    BY DEF Arrives, Drop, ChargeArrives, CaptureArrives, FailureArrives, CancellationArrives,
           Ignored, flip
  <1>3. CASE Go(e, "pending")
    BY <1>1, <1>3, GoKeepsLedger DEF Ledger, Reads
  <1>4. CASE pc' = pc
    BY <1>1, <1>4 DEF Ledger, Stamps, Reads, MirrorIsLatest
  <1>5. QED
    BY <1>2, <1>3, <1>4

LEMMA SweepKeepsLedger ==
    ASSUME TypeOK, Ledger, Evaluate \/ Tell \/ SweepDies
    PROVE  Ledger'
  <1>1. CASE Evaluate
    BY <1>1, GoKeepsLedger, SweepIsNoEvent DEF Evaluate, Ledger, Reads
  <1>2. CASE Tell
    <2>1. linked' => phase # "trial"
      BY <1>2 DEF Tell, Vouched, Outcome, Ledger, Reads
    <2>2. QED
      BY <1>2, <2>1, GoKeepsLedger, SweepIsNoEvent DEF Tell
  <1>3. CASE SweepDies
    BY <1>3, EndKeepsLedger, SweepIsNoEvent DEF SweepDies
  <1>4. QED
    BY <1>1, <1>2, <1>3

LEMMA LedgerElsewhere ==
    ASSUME Ledger, (\E t \in Token : Subscribe(t)) \/ Verify \/ UNCHANGED vars
    PROVE  Ledger'
  <1>1. UNCHANGED <<phase, log, flip, linked>>
    BY DEF Subscribe, SubscriptionExists, CreateAtVendor, Bind, BindFails, Verify, vars
  <1>2. QED
    BY <1>1 DEF flip, Ledger, Stamps, Reads, MirrorIsLatest

LEMMA NextLedger == TypeOK /\ Ledger /\ [Next]_vars => Ledger'
  BY FlipKeepsLedger, ArrivalKeepsLedger, SweepKeepsLedger, LedgerElsewhere DEF Next

LEMMA AlwaysLedger == Spec => [](TypeOK /\ Ledger)
  BY InitTypes, NextTypes, InitLedger, NextLedger, PTL DEF Spec

\* The tenant's phase is the transition stamped last.
THEOREM MirrorTrue == Spec => []MirrorIsLatest
  <1>1. Ledger => MirrorIsLatest
    BY DEF Ledger
  <1>2. QED
    BY <1>1, AlwaysLedger, PTL

\* Whoever has the link of an ended trial is not in trial.
THEOREM LinkTrue == Spec => []LinkIsTrue
  <1>1. Ledger => LinkIsTrue
    BY DEF Ledger, Reads, LinkIsTrue
  <1>2. QED
    BY <1>1, AlwaysLedger, PTL

\* One step of CancelledStands.
StandStep ==
    phase = "cancelled" /\ phase' # phase =>
        \E p \in Flipper : /\ pc[p] = "stamped" /\ pc'[p] # "stamped"
                           /\ read[p] # "cancelled"
                           /\ \A r \in log : r.at < stamp[p]

LEMMA OnlyCommitsMove ==
    ASSUME [Next]_vars, phase' # phase
    PROVE  \E p \in Flipper : Commit(p)
  BY DEF Next, FlipStep, ReadPhase, Resolve, Fails, Arrives, Drop, ChargeArrives, CaptureArrives,
         FailureArrives, CancellationArrives, Ignored, Subscribe, SubscriptionExists,
         CreateAtVendor, Bind, BindFails, Evaluate, Tell, SweepDies, Verify, vars

LEMMA CancelledStep == TypeOK /\ Ledger /\ [Next]_vars => StandStep
  <1>. SUFFICES ASSUME TypeOK, Ledger, [Next]_vars, phase' # phase PROVE StandStep
    BY DEF StandStep
  <1>1. PICK p \in Flipper : Commit(p)
    BY OnlyCommitsMove
  <1>2. PICK to \in Target(p) : Monotone(p) /\ Ends(p, "done")
    BY <1>1 DEF Commit
  <1>3. pc[p] = "stamped" /\ pc'[p] # "stamped" /\ read[p] # "cancelled"
    BY <1>1, <1>2, TargetFacts DEF Commit, Ends, Go, TypeOK
  <1>4. \A r \in log : r.at < stamp[p]
    BY <1>2, <1>3 DEF Monotone, Ledger, Stamps, TypeOK, Transitions
  <1>5. QED
    BY <1>3, <1>4 DEF StandStep

\* A cancellation is overwritten only by a transition that read before it and was stamped after.
THEOREM CancelledForGood == Spec => CancelledStands
  <1>1. TypeOK /\ Ledger /\ [Next]_vars => [StandStep]_vars
    BY CancelledStep
  <1>2. QED
    BY <1>1, AlwaysLedger, PTL DEF Spec, CancelledStands, StandStep

===============================================================================
