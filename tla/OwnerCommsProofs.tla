--------------------------- MODULE OwnerCommsProofs ---------------------------
(* What OwnerComms keeps for any set of asks, tasks, pushes and turns, and any    *)
(* number of rows and faults.                                                    *)
EXTENDS OwnerComms, TLAPS

-------------------------------------------------------------------------------
(* Types.                                                                        *)

LEMMA Subjects ==
    /\ Ask \subseteq Subject /\ Task \subseteq Subject /\ Push \subseteq Subject
    /\ Nobody \notin Subject /\ Sweep \in Drainer
    /\ \A k \in Subject : k \in Ask => k \notin Task /\ k \notin Push
    /\ \A k \in Subject : k \in Push => k \notin Task
  BY CommsConstants DEF Subject, Drainer

\* A new row is the next one, and the only one that changes.
LEMMA EnqueueTypes ==
    ASSUME TypeOK, NEW k \in Subject, Enqueue(k)
    PROVE  /\ Slot \in Row /\ status[Slot] = "none"
           /\ size' \in 0 .. MaxRows /\ \A n \in 0 .. MaxRows : n =< size => n =< size'
           /\ status' \in [Row -> {"none", "queued", "old", "delivered", "dropped"}]
           /\ about' \in [Row -> Subject \cup {Nobody}]
           /\ \A i \in Row : (i =< size' <=> status'[i] # "none") /\ (i =< size' <=> about'[i] # Nobody)
  <1>1. MaxRows \in Nat /\ size \in Nat /\ Slot \in Row /\ Slot = size + 1 /\ size' = size + 1
    BY CommsConstants DEF TypeOK, Enqueue, Slot, Row
  <1>2. k # Nobody
    BY Subjects
  <1>3. status' = [status EXCEPT ![Slot] = "queued"] /\ about' = [about EXCEPT ![Slot] = k]
    BY DEF Enqueue
  <1>4. \A i \in Row : i \in Nat
    BY DEF Row
  <1>5. /\ status \in [Row -> {"none", "queued", "old", "delivered", "dropped"}]
        /\ about \in [Row -> Subject \cup {Nobody}]
        /\ \A i \in Row : (i =< size <=> status[i] # "none") /\ (i =< size <=> about[i] # Nobody)
    BY DEF TypeOK
  <1>6. \A i \in Row : (i =< size' <=> status'[i] # "none") /\ (i =< size' <=> about'[i] # Nobody)
    BY <1>1, <1>2, <1>3, <1>4, <1>5
  <1>7. status[Slot] = "none"
    BY <1>1, <1>4, <1>5
  <1>8. \A n \in 0 .. MaxRows : n =< size => n =< size'
    BY <1>1
  <1>9. QED
    BY <1>1, <1>3, <1>5, <1>6, <1>7, <1>8 DEF Enqueue

\* Changing the status of rows that exist.
LEMMA StatusTypes ==
    ASSUME TypeOK, UNCHANGED <<size, about>>,
           status' \in [Row -> {"none", "queued", "old", "delivered", "dropped"}],
           \A i \in Row : status[i] = "none" <=> status'[i] = "none"
    PROVE  /\ size' \in 0 .. MaxRows
           /\ about' \in [Row -> Subject \cup {Nobody}]
           /\ \A i \in Row : (i =< size' <=> status'[i] # "none") /\ (i =< size' <=> about'[i] # Nobody)
  BY DEF TypeOK

LEMMA DropTypes ==
    ASSUME TypeOK, NEW i, DropItem(i) \/ MarkDelivered(i)
    PROVE  /\ status' \in [Row -> {"none", "queued", "old", "delivered", "dropped"}]
           /\ \A j \in Row : status[j] = "none" <=> status'[j] = "none"
           /\ \A j \in Row : status'[j] = status[j] \/ Queued(j)
           /\ \A j \in Row : ~Queued(i) => status'[j] = status[j]
           /\ status'[i] \notin {"queued", "old"} \/ i \notin Row
  BY DEF TypeOK, DropItem, MarkDelivered, Droppable, Markable, Queued

LEMMA InitTypes == Init => TypeOK
  <1>. SUFFICES ASSUME Init PROVE TypeOK
    OBVIOUS
  <1>1. size \in 0 .. MaxRows /\ \A i \in Row : ~(i =< size)
    BY CommsConstants DEF Init, Row
  <1>2. faults \in 0 .. MaxFaults /\ blurred \subseteq Subject
    BY CommsConstants DEF Init
  <1>3. item \in [Ask -> 0 .. MaxRows] /\ hold \in [Drainer -> 0 .. MaxRows]
    BY CommsConstants DEF Init
  <1>4. \A d \in Drainer : hold[d] = 0 /\ pc[d] = "none" /\ hold[d] =< size
    BY CommsConstants DEF Init
  <1>5. size \in 0 .. MaxRows /\ told \in [Subject -> 0 .. 2]
    BY <1>1 DEF Init
  <1>6. QED
    BY <1>1, <1>2, <1>3, <1>4, <1>5 DEF Init, TypeOK

LEMMA FaultTypes == TypeOK /\ Fault => faults' \in 0 .. MaxFaults
  BY CommsConstants DEF TypeOK, Fault

LEMMA ArmTypes ==
    ASSUME TypeOK, NEW a \in Ask, ArmStep(a) \/ Decide(a) \/ Belt(a)
    PROVE  TypeOK'
  <1>0. a \in Subject /\ 0 \in 0 .. MaxRows /\ Row \subseteq 0 .. MaxRows
    BY Subjects, CommsConstants DEF Row
  <1>1. CASE ArmInserts(a) \/ ArmTells(a) \/ ArmStartsClock(a)
    <2>1. CASE ArmInserts(a)
      BY <2>1 DEF TypeOK, ArmInserts, Arm, queue, tasks, onboarding, drains
    <2>2. CASE ArmTells(a)
      <3>1. told' \in [Subject -> 0 .. 2]
        BY <1>0, <2>2 DEF TypeOK, ArmTells, Words
      <3>2. QED
        BY <2>2, <3>1 DEF TypeOK, ArmTells, Arm, queue, tasks, onboarding, drains
    <2>3. CASE ArmStartsClock(a)
      BY <2>3 DEF TypeOK, ArmStartsClock, Arm, queue, tasks, onboarding, drains
    <2>4. QED
      BY <1>1, <2>1, <2>2, <2>3
  <1>2. CASE ArmQueues(a)
    <2>1. CASE Enqueue(a) /\ item' = [item EXCEPT ![a] = Slot] /\ faults' = faults
      BY <1>0, <1>2, <2>1, EnqueueTypes DEF TypeOK, ArmQueues, tasks, onboarding, drains
    <2>2. CASE Fault /\ UNCHANGED <<queue, item>>
      BY <1>0, <1>2, <2>2, FaultTypes DEF TypeOK, ArmQueues, queue, tasks, onboarding, drains
    <2>3. QED
      BY <1>2, <2>1, <2>2 DEF ArmQueues
  <1>3. CASE ArmRefused(a)
    <2>1. UNCHANGED <<size, about>> /\ (DropItem(item[a]) \/ status' = status)
      BY <1>3 DEF ArmRefused
    <2>2. /\ status' \in [Row -> {"none", "queued", "old", "delivered", "dropped"}]
          /\ \A i \in Row : status[i] = "none" <=> status'[i] = "none"
      BY <2>1, DropTypes DEF TypeOK
    <2>3. approval' \in [Ask -> {"none", "open", "closed"}]
      BY <1>3 DEF TypeOK, ArmRefused
    <2>4. /\ size' \in 0 .. MaxRows /\ about' \in [Row -> Subject \cup {Nobody}]
          /\ \A i \in Row : (i =< size' <=> status'[i] # "none") /\ (i =< size' <=> about'[i] # Nobody)
      BY <2>1, <2>2, StatusTypes
    <2>5. faults' \in 0 .. MaxFaults
      BY <1>3, FaultTypes DEF ArmRefused
    <2>6. ArmEnds(a)
      BY <1>3 DEF ArmRefused
    <2>7. /\ arm' \in [Ask -> {"none", "inserted", "queued", "told", "clocked", "done"}]
          /\ item' \in [Ask -> 0 .. MaxRows]
      BY <1>0, <2>6 DEF TypeOK, ArmEnds
    <2>8. UNCHANGED <<size, clock, tasks, onboarding, drains, session, told, blurred, met>>
      BY <1>3 DEF ArmRefused
    <2>9. QED
      BY <2>2, <2>3, <2>4, <2>5, <2>7, <2>8 DEF TypeOK, tasks, onboarding, drains
  <1>4. CASE ArmMarks(a)
    <2>1. UNCHANGED <<size, about>> /\ MarkDelivered(item[a])
      BY <1>4 DEF ArmMarks
    <2>2. QED
      BY <1>0, <1>4, <2>1, StatusTypes, DropTypes DEF TypeOK, ArmMarks, ArmEnds, tasks, onboarding, drains
  <1>5. CASE ArmDies(a) \/ ArmClockFails(a)
    BY <1>0, <1>5, FaultTypes DEF TypeOK, ArmDies, ArmClockFails, Arm, ArmEnds, Blur, queue, tasks, onboarding, drains
  <1>6. CASE Decide(a) \/ Belt(a)
    BY <1>6 DEF TypeOK, Decide, Belt, queue, tasks, onboarding, drains
  <1>7. QED
    BY <1>1, <1>2, <1>3, <1>4, <1>5, <1>6 DEF ArmStep

LEMMA NotifyTypes ==
    ASSUME TypeOK, NEW t \in Task, NEW s \in Settler, NotifyStep(t, s)
    PROVE  TypeOK'
  <1>0. t \in Subject /\ faults \in 0 .. MaxFaults
    BY Subjects DEF TypeOK
  <1>1. ASSUME NEW l \in {"died", "sending", "told", "closed", "deferring", "deferred", "recorded", "done"},
               Settle(t, s, l)
        PROVE  settle' \in [Task -> [Settler ->
                    {"none", "died", "sending", "told", "closed", "deferring", "deferred", "recorded", "done"}]]
    BY <1>1 DEF TypeOK, Settle
  <1>2. CASE Notify(t, s)
    <2>1. met' \subseteq Task /\ blurred' \subseteq Subject
      BY <1>0, <1>2 DEF TypeOK, Notify, Blur
    <2>2. notice' \in [Task -> {"pending", "delivered", "failed"}]
      BY <1>2 DEF TypeOK, Notify
    <2>3. Settle(t, s, "done") \/ Settle(t, s, "sending")
      BY <1>2 DEF Notify
    <2>4. QED
      BY <1>1, <1>2, <2>1, <2>2, <2>3 DEF TypeOK, Notify, queue, asks, onboarding, drains
  <1>3. CASE NotifySends(t, s)
    <2>1. Settle(t, s, "told") \/ Settle(t, s, "closed") \/ Settle(t, s, "done")
      BY <1>3 DEF NotifySends
    <2>2. notice' \in [Task -> {"pending", "delivered", "failed"}]
      BY <1>3 DEF TypeOK, NotifySends
    <2>3. Words(t) \/ told' = told
      BY <1>3 DEF NotifySends
    <2>4. told' \in [Subject -> 0 .. 2]
      BY <1>0, <2>3 DEF TypeOK, Words
    <2>5. faults' \in 0 .. MaxFaults
      BY <1>0, <1>3, FaultTypes DEF NotifySends
    <2>6. QED
      BY <1>1, <1>3, <2>1, <2>2, <2>4, <2>5 DEF TypeOK, NotifySends, queue, asks, onboarding, drains
  <1>4. CASE NotifyDefers(t, s)
    <2>1. Settle(t, s, "deferring") \/ Settle(t, s, "deferred")
      BY <1>4 DEF NotifyDefers
    <2>2. faults' \in 0 .. MaxFaults
      BY <1>0, <1>4, FaultTypes DEF NotifyDefers
    <2>3. QED
      BY <1>1, <1>4, <2>1, <2>2 DEF TypeOK, NotifyDefers, queue, asks, onboarding, drains
  <1>5. CASE NotifyQueues(t, s)
    <2>1. Settle(t, s, "deferred")
      BY <1>5 DEF NotifyQueues
    <2>2. CASE Enqueue(t) /\ faults' = faults
      BY <1>0, <1>1, <1>5, <2>1, <2>2, EnqueueTypes DEF TypeOK, NotifyQueues, asks, onboarding, drains
    <2>3. CASE Fault /\ UNCHANGED queue
      BY <1>0, <1>1, <1>5, <2>1, <2>3, FaultTypes DEF TypeOK, NotifyQueues, queue, asks, onboarding, drains
    <2>4. QED
      BY <1>5, <2>2, <2>3 DEF NotifyQueues
  <1>6. CASE NotifyRecords(t, s) \/ NotifyReturns(t, s)
    <2>1. Settle(t, s, "recorded") \/ Settle(t, s, "done")
      BY <1>6 DEF NotifyRecords, NotifyReturns
    <2>2. faults' \in 0 .. MaxFaults /\ key' \subseteq Task /\ blurred' \subseteq Subject
      BY <1>0, <1>6, FaultTypes DEF TypeOK, NotifyRecords, NotifyReturns, Blur
    <2>3. notice' \in [Task -> {"pending", "delivered", "failed"}]
      BY <1>6 DEF TypeOK, NotifyRecords, NotifyReturns
    <2>4. UNCHANGED <<queue, asks, onboarding, drains, session, told, met>>
      BY <1>6 DEF NotifyRecords, NotifyReturns
    <2>5. QED
      BY <1>1, <2>1, <2>2, <2>3, <2>4 DEF TypeOK, queue, asks, onboarding, drains
  <1>7. CASE NotifyDies(t, s)
    <2>1. Settle(t, s, "died") /\ faults' \in 0 .. MaxFaults /\ blurred' \subseteq Subject
      BY <1>0, <1>7, FaultTypes DEF TypeOK, NotifyDies, Blur
    <2>2. QED
      BY <1>1, <1>7, <2>1 DEF TypeOK, NotifyDies, queue, asks, onboarding, drains
  <1>8. QED
    BY <1>2, <1>3, <1>4, <1>5, <1>6, <1>7 DEF NotifyStep

LEMMA PushTypes ==
    ASSUME TypeOK, NEW p \in Push, PushStep(p)
    PROVE  TypeOK'
  <1>0. p \in Subject
    BY Subjects
  <1>1. CASE PushQuestion(p)
    BY <1>0, <1>1, EnqueueTypes DEF TypeOK, PushQuestion, Moves, asks, tasks, drains
  <1>2. CASE PushRecap(p)
    BY <1>0, <1>2, EnqueueTypes DEF TypeOK, PushRecap, Moves, asks, tasks, drains
  <1>3. CASE PushChecks(p) \/ PushCompletes(p) \/ PushEnds(p) \/ Answer(p)
    BY <1>3, FaultTypes DEF TypeOK, PushChecks, PushCompletes, PushEnds, Answer, Moves, queue, asks, tasks, drains
  <1>4. QED
    BY <1>1, <1>2, <1>3 DEF PushStep

\* A row somebody holds is a row.
LEMMA HeldRow ==
    ASSUME TypeOK, NEW d \in Drainer, InHand(d)
    PROVE  hold[d] \in Row /\ about[hold[d]] \in Subject
  BY CommsConstants DEF TypeOK, InHand, Row

LEMMA DrainTypes ==
    ASSUME TypeOK, NEW d \in Drainer, DrainStep(d) \/ DrainFails(d)
    PROVE  TypeOK'
  <1>0. 0 \in 0 .. MaxRows /\ Row \subseteq 0 .. MaxRows /\ \A i \in Row : i # 0
    BY CommsConstants DEF Row
  <1>1. CASE Pick(d)
    <2>1. PICK i \in Row :
              /\ NextDeliverable(i)
              /\ hold' = [hold EXCEPT ![d] = i]
              /\ Blur(about[i], Draining(about[i]) \/ Arming(about[i]) \/ Settling(about[i]))
      BY <1>1 DEF Pick
    <2>2. about[i] \in Subject /\ i =< size
      BY <2>1 DEF TypeOK, NextDeliverable, Queued
    <2>3. blurred' \subseteq Subject
      BY <2>1, <2>2 DEF TypeOK, Blur
    <2>4. QED
      BY <1>0, <1>1, <2>1, <2>2, <2>3 DEF TypeOK, Pick, queue, asks, tasks, onboarding
  <1>2. CASE Inspect(d)
    <2>1. CASE UNCHANGED <<status, hold>> /\ pc' = [pc EXCEPT ![d] = "cleared"] /\ faults' \in 0 .. MaxFaults
      BY <1>2, <2>1 DEF TypeOK, Inspect, asks, tasks, onboarding
    <2>2. CASE DropItem(hold[d]) /\ Drained(d) /\ faults' = faults
      <3>1. UNCHANGED <<size, about>>
        BY <1>2 DEF Inspect
      <3>2. QED
        BY <1>0, <1>2, <2>2, <3>1, StatusTypes, DropTypes DEF TypeOK, Inspect, Drained, asks, tasks, onboarding
    <2>3. faults \in 0 .. MaxFaults
      BY DEF TypeOK
    <2>4. QED
      BY <1>2, <2>1, <2>2, <2>3, FaultTypes DEF Inspect
  <1>3. CASE Send(d)
    BY <1>3, FaultTypes DEF TypeOK, Send, Words, queue, asks, tasks, onboarding
  <1>4. CASE Mark(d)
    <2>1. UNCHANGED <<size, about>> /\ MarkDelivered(hold[d])
      BY <1>4 DEF Mark
    <2>2. /\ pc' \in [Drainer -> {"none", "turned", "picked", "cleared", "told", "missed", "marked", "done"}]
          /\ hold' \in [Drainer -> 0 .. MaxRows]
          /\ \A e \in Drainer :
                /\ hold'[e] =< size
                /\ pc'[e] \in {"picked", "cleared", "told", "missed", "marked"} <=> hold'[e] # 0
      <3>1. size \in Nat /\ pc[d] \in {"told", "missed"} /\ hold[d] # 0
        BY <1>4, CommsConstants DEF TypeOK, Mark
      <3>2. CASE pc' = [pc EXCEPT ![d] = "marked"] /\ hold' = hold
        BY <3>1, <3>2 DEF TypeOK
      <3>3. CASE Drained(d)
        BY <1>0, <3>1, <3>3 DEF TypeOK, Drained
      <3>4. QED
        BY <1>4, <3>2, <3>3 DEF Mark
    <2>3. UNCHANGED <<asks, tasks, onboarding, session, told, blurred, met, faults>>
      BY <1>4 DEF Mark
    <2>4. QED
      BY <2>1, <2>2, <2>3, StatusTypes, DropTypes DEF TypeOK, asks, tasks, onboarding
  <1>5. CASE Flip(d)
    <2>1. notice' \in [Task -> {"pending", "delivered", "failed"}]
      BY <1>5 DEF TypeOK, Flip
    <2>2. QED
      BY <1>0, <1>5, <2>1 DEF TypeOK, Flip, Drained, queue, asks, onboarding
  <1>6. CASE DrainFails(d)
    <2>1. about[hold[d]] \in Subject
      BY <1>6, HeldRow DEF DrainFails
    <2>2. QED
      BY <1>0, <1>6, <2>1, FaultTypes DEF TypeOK, DrainFails, Blur, InHand, queue, asks, tasks, onboarding
  <1>7. QED
    BY <1>1, <1>2, <1>3, <1>4, <1>5, <1>6 DEF DrainStep

LEMMA WorldTypes ==
    ASSUME TypeOK,
           DropStale \/ (\E m \in Turn : TurnArrives(m)) \/ SessionCloses \/ (\E i \in Row : Ages(i))
    PROVE  TypeOK'
  <1>1. CASE DropStale
    BY <1>1, StatusTypes DEF TypeOK, DropStale, Stale, asks, tasks, onboarding, drains
  <1>2. CASE \E m \in Turn : TurnArrives(m)
    BY <1>2 DEF TypeOK, TurnArrives, Drainer, queue, asks, tasks, onboarding
  <1>3. CASE SessionCloses
    BY <1>3 DEF TypeOK, SessionCloses, queue, asks, tasks, onboarding, drains
  <1>4. CASE \E i \in Row : Ages(i)
    BY <1>4, StatusTypes DEF TypeOK, Ages, asks, tasks, onboarding, drains
  <1>5. QED
    BY <1>1, <1>2, <1>3, <1>4

\* Rows, statuses and the places of every process keep their types (tables of
\* owner_comms_queue.py, the locals of the arm, the settle and drain_one).
THEOREM TypeCorrect == Spec => []TypeOK
  <1>1. TypeOK /\ [Next]_vars => TypeOK'
    <2>1. CASE UNCHANGED vars
      BY <2>1 DEF TypeOK, vars, queue, asks, tasks, onboarding, drains
    <2>2. QED
      BY <2>1, ArmTypes, NotifyTypes, PushTypes, DrainTypes, WorldTypes DEF Next
  <1>2. QED
    BY <1>1, InitTypes, PTL DEF Spec

-------------------------------------------------------------------------------
(* Rows: every step but an enqueue only settles or ages rows that are queued.    *)

RowsShrink ==
    /\ UNCHANGED <<size, about>>
    /\ \A i \in Row :
        \/ status'[i] = status[i]
        \/ Queued(i) /\ status'[i] \in {"old", "delivered", "dropped"}

ArmEnqueues(a) == arm[a] = "inserted" /\ Enqueue(a)
NotifyEnqueues(t) == (\E s \in Settler : settle[t][s] = "deferring") /\ Enqueue(t)
PushEnqueues(p) == word[p] \in {"composing", "closing"} /\ Enqueue(p)

LEMMA SettledRows ==
    ASSUME TypeOK, NEW i, UNCHANGED <<size, about>>, DropItem(i) \/ MarkDelivered(i)
    PROVE  RowsShrink
  BY DEF TypeOK, DropItem, MarkDelivered, Droppable, Markable, Queued, RowsShrink

LEMMA ArmRows ==
    ASSUME TypeOK, NEW a \in Ask, ArmStep(a) \/ Decide(a) \/ Belt(a)
    PROVE  RowsShrink \/ ArmEnqueues(a)
  <1>1. CASE ArmInserts(a) \/ ArmTells(a) \/ ArmStartsClock(a) \/ ArmClockFails(a) \/ ArmDies(a) \/ Decide(a) \/ Belt(a)
    BY <1>1 DEF ArmInserts, ArmTells, ArmStartsClock, ArmClockFails, ArmDies, Decide, Belt, queue, RowsShrink
  <1>2. CASE ArmQueues(a)
    BY <1>2 DEF ArmQueues, queue, RowsShrink, ArmEnqueues
  <1>3. CASE ArmRefused(a) \/ ArmMarks(a)
    BY <1>3, SettledRows DEF ArmRefused, ArmMarks, RowsShrink
  <1>4. QED
    BY <1>1, <1>2, <1>3 DEF ArmStep

LEMMA NotifyRows ==
    ASSUME TypeOK, NEW t \in Task, NEW s \in Settler, NotifyStep(t, s)
    PROVE  RowsShrink \/ NotifyEnqueues(t)
  <1>1. CASE NotifyQueues(t, s)
    BY <1>1 DEF NotifyQueues, queue, RowsShrink, NotifyEnqueues
  <1>2. CASE \/ Notify(t, s) \/ NotifySends(t, s) \/ NotifyDefers(t, s)
             \/ NotifyRecords(t, s) \/ NotifyReturns(t, s) \/ NotifyDies(t, s)
    BY <1>2 DEF Notify, NotifySends, NotifyDefers, NotifyRecords, NotifyReturns, NotifyDies, queue, RowsShrink
  <1>3. QED
    BY <1>1, <1>2 DEF NotifyStep

LEMMA PushRows ==
    ASSUME TypeOK, NEW p \in Push, PushStep(p)
    PROVE  RowsShrink \/ PushEnqueues(p)
  BY DEF PushStep, PushChecks, PushQuestion, PushCompletes, PushRecap, PushEnds, Answer, Moves,
         queue, RowsShrink, PushEnqueues

LEMMA DrainRows ==
    ASSUME TypeOK, NEW d \in Drainer, DrainStep(d) \/ DrainFails(d)
    PROVE  RowsShrink
  <1>1. CASE Pick(d) \/ Send(d) \/ Flip(d) \/ DrainFails(d)
    BY <1>1 DEF Pick, Send, Flip, DrainFails, queue, RowsShrink
  <1>2. CASE Inspect(d)
    BY <1>2, SettledRows DEF Inspect, RowsShrink
  <1>3. CASE Mark(d)
    BY <1>3, SettledRows DEF Mark
  <1>4. QED
    BY <1>1, <1>2, <1>3 DEF DrainStep

LEMMA WorldRows ==
    ASSUME TypeOK,
           DropStale \/ (\E m \in Turn : TurnArrives(m)) \/ SessionCloses \/ (\E i \in Row : Ages(i))
    PROVE  RowsShrink
  <1>1. CASE DropStale \/ \E i \in Row : Ages(i)
    BY <1>1 DEF TypeOK, DropStale, Stale, Ages, Queued, RowsShrink
  <1>2. CASE SessionCloses \/ \E m \in Turn : TurnArrives(m)
    BY <1>2 DEF SessionCloses, TurnArrives, queue, RowsShrink
  <1>3. QED
    BY <1>1, <1>2

LEMMA RowSteps ==
    ASSUME TypeOK, [Next]_vars
    PROVE  \/ RowsShrink
           \/ \E a \in Ask : ArmEnqueues(a)
           \/ \E t \in Task : NotifyEnqueues(t)
           \/ \E p \in Push : PushEnqueues(p)
  <1>1. CASE UNCHANGED vars
    BY <1>1 DEF vars, queue, RowsShrink
  <1>2. QED
    BY <1>1, ArmRows, NotifyRows, PushRows, DrainRows, WorldRows DEF Next

LEMMA Enqueues ==
    ASSUME TypeOK, [Next]_vars, ~RowsShrink
    PROVE  \E k \in Subject : Enqueue(k)
  BY RowSteps, Subjects DEF ArmEnqueues, NotifyEnqueues, PushEnqueues

\* What has left the queue never comes back to it: the guards of mark_delivered and drop_item
\* (owner_comms_queue.py:110-189) hold against any order of arms, drains and sweeps.
THEOREM FinalLedger == Spec => LedgerIsFinal
  <1>1. TypeOK /\ [Next]_vars =>
            \A i \in Row : status[i] \in {"delivered", "dropped"} => status'[i] = status[i]
    <2>. SUFFICES ASSUME TypeOK, [Next]_vars,
                         NEW i \in Row, status[i] \in {"delivered", "dropped"}
                  PROVE  status'[i] = status[i]
      OBVIOUS
    <2>1. CASE RowsShrink
      BY <2>1 DEF RowsShrink, Queued
    <2>2. CASE ~RowsShrink
      <3>1. PICK k \in Subject : Enqueue(k)
        BY <2>2, Enqueues
      <3>2. status[Slot] = "none" /\ status' = [status EXCEPT ![Slot] = "queued"]
        BY <3>1, EnqueueTypes DEF Enqueue
      <3>3. QED
        BY <3>2 DEF TypeOK
    <2>3. QED
      BY <2>1, <2>2
  <1>2. QED
    BY <1>1, TypeCorrect, PTL DEF Spec, LedgerIsFinal

\* The new row is the only queued one that was not queued before.
LEMMA NewRow ==
    ASSUME TypeOK, NEW k \in Subject, Enqueue(k)
    PROVE  /\ Slot \in Row /\ about'[Slot] = k /\ ~Queued(Slot) /\ about[Slot] = Nobody
           /\ \A i \in Row : i # Slot => about'[i] = about[i] /\ (Queued(i)' <=> Queued(i))
  <1>1. status' = [status EXCEPT ![Slot] = "queued"] /\ about' = [about EXCEPT ![Slot] = k]
    BY DEF Enqueue
  <1>2. Slot \in Row /\ status[Slot] = "none" /\ about[Slot] = Nobody
    BY EnqueueTypes DEF TypeOK
  <1>3. QED
    BY <1>1, <1>2 DEF TypeOK, Queued

\* Only the row that is queued waits anew.
LEMMA OneMoreWaits ==
    ASSUME TypeOK, NEW n \in Subject, Enqueue(n)
    PROVE  \A k \in Subject : k # n => (Waiting(k)' => Waiting(k))
  BY NewRow DEF Waiting, Queued

\* Where rows only shrink, none waits that did not wait.
LEMMA FewerRows ==
    ASSUME RowsShrink
    PROVE  /\ \A i \in Row : Queued(i)' => Queued(i) /\ about'[i] = about[i]
           /\ \A k : Waiting(k)' => Waiting(k)
  BY DEF RowsShrink, Queued, Waiting

-------------------------------------------------------------------------------
(* Settling. One settler at a time has a task in hand that they have not met in, *)
(* and what it read of the queue is still true when it writes there.             *)

Deferred ==
    /\ met \subseteq blurred /\ OneDeferral
    /\ \A t \in Task \ met :
        /\ \A s, r \in Settler : Hot(t, s) /\ Hot(t, r) => s = r
        /\ \A s \in Settler : settle[t][s] = "deferring" => ~Waiting(t)

\* A settler moves itself alone, takes the task in hand only in Notify, and is about to defer only
\* where no row waits.
LEMMA SettlerMoves ==
    ASSUME TypeOK, NEW t \in Task, NEW s \in Settler, NotifyStep(t, s)
    PROVE  /\ \A u \in Task : u # t => settle'[u] = settle[u]
           /\ \A r \in Settler : r # s => settle'[t][r] = settle[t][r]
           /\ Hot(t, s)' => \/ Hot(t, s)
                            \/ /\ Notify(t, s) /\ t \notin key /\ settle'[t][s] = "sending"
                               /\ Settling(t) => t \in met'
           /\ settle'[t][s] = "deferring" => RowsShrink /\ ~Waiting(t)
           /\ NotifyEnqueues(t) => ~Hot(t, s)'
           /\ met \subseteq met' /\ blurred \subseteq blurred' /\ met' \ met \subseteq blurred'
  <1>1. ASSUME NEW l, Settle(t, s, l)
        PROVE  /\ \A u \in Task : u # t => settle'[u] = settle[u]
               /\ \A r \in Settler : r # s => settle'[t][r] = settle[t][r]
               /\ settle'[t][s] = l
    BY <1>1 DEF TypeOK, Settle
  <1>2. CASE Notify(t, s)
    <2>1. Settle(t, s, "done") \/ (Settle(t, s, "sending") /\ t \notin key /\ (Settling(t) => t \in met'))
      BY <1>2 DEF Notify
    <2>2. met \subseteq met' /\ blurred \subseteq blurred' /\ met' \ met \subseteq blurred'
      BY <1>2 DEF Notify, Blur
    <2>3. ~NotifyEnqueues(t)
      BY <1>2, EnqueueTypes, Subjects DEF Notify, NotifyEnqueues, Enqueue, queue, TypeOK
    <2>4. QED
      BY <1>1, <1>2, <2>1, <2>2, <2>3 DEF Hot
  <1>3. CASE NotifySends(t, s)
    <2>1. (Settle(t, s, "told") \/ Settle(t, s, "closed") \/ Settle(t, s, "done")) /\ Hot(t, s)
      BY <1>3 DEF NotifySends, Hot
    <2>2. ~NotifyEnqueues(t) /\ UNCHANGED <<blurred, met>>
      BY <1>3, EnqueueTypes, Subjects DEF NotifySends, NotifyEnqueues, Enqueue, queue, TypeOK
    <2>3. QED
      BY <1>1, <2>1, <2>2
  <1>4. CASE NotifyDefers(t, s)
    <2>1. ((Settle(t, s, "deferring") /\ ~Waiting(t)) \/ Settle(t, s, "deferred")) /\ Hot(t, s)
      BY <1>4 DEF NotifyDefers, Undeferred, Hot
    <2>2. ~NotifyEnqueues(t) /\ UNCHANGED <<blurred, met>> /\ RowsShrink
      BY <1>4, EnqueueTypes, Subjects DEF NotifyDefers, NotifyEnqueues, Enqueue, queue, TypeOK, RowsShrink
    <2>3. QED
      BY <1>1, <2>1, <2>2
  <1>5. CASE NotifyQueues(t, s) \/ NotifyRecords(t, s) \/ NotifyReturns(t, s) \/ NotifyDies(t, s)
    <2>1. Settle(t, s, "deferred") \/ Settle(t, s, "recorded") \/ Settle(t, s, "done") \/ Settle(t, s, "died")
      BY <1>5 DEF NotifyQueues, NotifyRecords, NotifyReturns, NotifyDies
    <2>2. met' = met /\ blurred \subseteq blurred'
      BY <1>5 DEF NotifyQueues, NotifyRecords, NotifyReturns, NotifyDies, Blur
    <2>3. QED
      BY <1>1, <2>1, <2>2 DEF Hot
  <1>6. QED
    BY <1>2, <1>3, <1>4, <1>5 DEF NotifyStep

\* Who queues the row is the settler that moves.
LEMMA SettlerQueues ==
    ASSUME TypeOK, NEW t \in Task, NEW s \in Settler, NotifyStep(t, s), NotifyEnqueues(t)
    PROVE  NotifyQueues(t, s) /\ settle[t][s] = "deferring"
  <1>1. ~(UNCHANGED queue)
    BY EnqueueTypes, Subjects DEF NotifyEnqueues, Enqueue, queue, TypeOK
  <1>2. QED
    BY <1>1 DEF NotifyStep, Notify, NotifySends, NotifyDefers, NotifyQueues, NotifyRecords, NotifyReturns, NotifyDies

\* No step but a settler's moves a settler, or makes two meet.
LEMMA OthersSettle ==
    ASSUME TypeOK, [Next]_vars
    PROVE  \/ settle' = settle /\ met' = met /\ blurred \subseteq blurred' /\ \A t \in Task : ~NotifyEnqueues(t)
           \/ \E t \in Task, s \in Settler : NotifyStep(t, s)
  <1>1. ASSUME NEW t \in Task, UNCHANGED queue
        PROVE  ~NotifyEnqueues(t)
    BY <1>1, EnqueueTypes, Subjects DEF NotifyEnqueues, Enqueue, queue, TypeOK
  <1>2. ASSUME NEW t \in Task, RowsShrink \/ \E k \in Subject \ Task : Enqueue(k)
        PROVE  ~NotifyEnqueues(t)
    BY <1>2, EnqueueTypes, NewRow, Subjects DEF NotifyEnqueues, Enqueue, RowsShrink, TypeOK
  <1>3. ASSUME NEW a \in Ask, ArmStep(a) \/ Decide(a) \/ Belt(a)
        PROVE  settle' = settle /\ met' = met /\ blurred \subseteq blurred'
    BY <1>3 DEF ArmStep, ArmInserts, ArmQueues, ArmTells, ArmRefused, ArmStartsClock, ArmClockFails, ArmMarks, ArmDies,
           Decide, Belt, Blur, tasks
  <1>4. ASSUME NEW p \in Push, PushStep(p)
        PROVE  settle' = settle /\ met' = met /\ blurred \subseteq blurred'
    BY <1>4 DEF PushStep, PushChecks, PushQuestion, PushCompletes, PushRecap, PushEnds, Answer, tasks
  <1>5. ASSUME NEW d \in Drainer, DrainStep(d) \/ DrainFails(d)
        PROVE  settle' = settle /\ met' = met /\ blurred \subseteq blurred'
    BY <1>5 DEF DrainStep, Pick, Inspect, Send, Mark, Flip, DrainFails, Blur, tasks
  <1>6. ASSUME DropStale \/ (\E m \in Turn : TurnArrives(m)) \/ SessionCloses \/ (\E i \in Row : Ages(i))
        PROVE  settle' = settle /\ met' = met /\ blurred \subseteq blurred'
    BY <1>6 DEF DropStale, TurnArrives, SessionCloses, Ages, tasks
  <1>7. CASE UNCHANGED vars
    BY <1>1, <1>7 DEF vars, tasks
  <1>8. CASE \E a \in Ask : ArmStep(a) \/ Decide(a) \/ Belt(a)
    BY <1>2, <1>3, <1>8, ArmRows, Subjects DEF ArmEnqueues
  <1>9. CASE \E p \in Push : PushStep(p)
    BY <1>2, <1>4, <1>9, PushRows, Subjects DEF PushEnqueues
  <1>10. CASE \E d \in Drainer : DrainStep(d) \/ DrainFails(d)
    BY <1>2, <1>5, <1>10, DrainRows
  <1>11. CASE DropStale \/ (\E m \in Turn : TurnArrives(m)) \/ SessionCloses \/ (\E i \in Row : Ages(i))
    BY <1>2, <1>6, <1>11, WorldRows
  <1>12. QED
    BY <1>7, <1>8, <1>9, <1>10, <1>11 DEF Next

\* Where a task comes to wait, a settler has just queued it.
LEMMA WaitsByQueueing ==
    ASSUME TypeOK, [Next]_vars, NEW t \in Task, Waiting(t)'
    PROVE  Waiting(t) \/ NotifyEnqueues(t)
  <1>1. CASE RowsShrink
    BY <1>1, FewerRows
  <1>2. CASE ~RowsShrink
    <2>1. PICK k \in Subject : Enqueue(k) /\ (k \in Task => NotifyEnqueues(k))
      BY <1>2, RowSteps, Subjects DEF ArmEnqueues, NotifyEnqueues, PushEnqueues
    <2>2. QED
      BY <2>1, OneMoreWaits, Subjects
  <1>3. QED
    BY <1>1, <1>2

LEMMA DeferredStep ==
    ASSUME TypeOK, Deferred, [Next]_vars
    PROVE  Deferred'
  <1>1. met \subseteq met' /\ met' \subseteq blurred'
    BY OthersSettle, SettlerMoves DEF Deferred
  <1>2. OneDeferral'
    <2>1. CASE RowsShrink
      BY <1>1, <2>1 DEF RowsShrink, Deferred, OneDeferral, Queued
    <2>2. CASE ~RowsShrink
      <3>1. PICK k \in Subject : Enqueue(k) /\ (k \in Task => NotifyEnqueues(k))
        BY <2>2, RowSteps, Subjects DEF ArmEnqueues, NotifyEnqueues, PushEnqueues
      <3>2. k \in Task \ met => ~Waiting(k)
        BY <3>1 DEF Deferred, NotifyEnqueues
      <3>3. /\ \A i \in Row : i # Slot => (Queued(i)' <=> Queued(i)) /\ about'[i] = about[i]
            /\ about'[Slot] = k /\ Slot \in Row
        BY <3>1, NewRow
      <3>4. SUFFICES ASSUME NEW i \in Row, NEW j \in Row, Queued(i)', Queued(j)',
                            about'[i] = about'[j], about'[i] \in Task \ met', i # j
                     PROVE  FALSE
        BY DEF OneDeferral
      <3>5. CASE i # Slot /\ j # Slot
        BY <1>1, <3>3, <3>4, <3>5 DEF Deferred, OneDeferral
      <3>6. CASE i = Slot \/ j = Slot
        BY <1>1, <3>2, <3>3, <3>4, <3>6 DEF Waiting
      <3>7. QED
        BY <3>5, <3>6
    <2>3. QED
      BY <2>1, <2>2
  <1>3. ASSUME NEW t \in Task \ met'
        PROVE  /\ \A s, r \in Settler : Hot(t, s)' /\ Hot(t, r)' => s = r
               /\ \A s \in Settler : settle'[t][s] = "deferring" => ~Waiting(t)'
    <2>0. /\ \A s, r \in Settler : Hot(t, s) /\ Hot(t, r) => s = r
          /\ \A s \in Settler : settle[t][s] = "deferring" => ~Waiting(t)
      BY <1>1 DEF Deferred
    <2>1. CASE settle' = settle /\ ~NotifyEnqueues(t)
      BY <2>0, <2>1, WaitsByQueueing DEF Hot
    <2>2. ASSUME NEW u \in Task, NEW x \in Settler, NotifyStep(u, x), u # t
          PROVE  settle'[t] = settle[t] /\ ~NotifyEnqueues(t)
      BY <2>2, SettlerMoves, NotifyRows, EnqueueTypes, NewRow, Subjects DEF NotifyEnqueues, Enqueue, RowsShrink, TypeOK
    <2>3. ASSUME NEW x \in Settler, NotifyStep(t, x)
          PROVE  /\ \A s, r \in Settler : Hot(t, s)' /\ Hot(t, r)' => s = r
                 /\ \A s \in Settler : settle'[t][s] = "deferring" => ~Waiting(t)'
      <3>1. \A r \in Settler : r # x => settle'[t][r] = settle[t][r]
        BY <2>3, SettlerMoves
      <3>2. Hot(t, x)' => Hot(t, x) \/ ~Settling(t)
        BY <2>3, SettlerMoves
      <3>3. \A s, r \in Settler : Hot(t, s)' /\ Hot(t, r)' => s = r
        BY <2>0, <3>1, <3>2 DEF Hot, Settling
      <3>4. settle'[t][x] = "deferring" => ~Waiting(t)'
        BY <2>3, SettlerMoves, FewerRows
      <3>5. ASSUME NEW s \in Settler, s # x, settle'[t][s] = "deferring" PROVE ~Waiting(t)'
        <4>1. settle[t][s] = "deferring" /\ ~Waiting(t)
          BY <2>0, <3>1, <3>5
        <4>2. ~NotifyEnqueues(t)
          <5>. SUFFICES ASSUME NotifyEnqueues(t) PROVE FALSE
            OBVIOUS
          <5>1. Hot(t, s) /\ Hot(t, x)
            BY <2>3, <4>1, SettlerQueues DEF Hot
          <5>2. QED
            BY <2>0, <3>5, <5>1
        <4>3. QED
          BY <4>1, <4>2, WaitsByQueueing
      <3>6. QED
        BY <3>3, <3>4, <3>5
    <2>4. CASE settle'[t] = settle[t] /\ ~NotifyEnqueues(t)
      BY <2>0, <2>4, WaitsByQueueing DEF Hot
    <2>5. QED
      BY <2>1, <2>2, <2>3, <2>4, OthersSettle
  <1>4. QED
    BY <1>1, <1>2, <1>3 DEF Deferred

LEMMA InitDeferred == Init => Deferred
  <1>. SUFFICES ASSUME Init PROVE Deferred
    OBVIOUS
  <1>1. \A i : ~Queued(i)
    BY DEF Init, Queued
  <1>2. \A t \in Task, s \in Settler : settle[t][s] = "none"
    BY DEF Init
  <1>3. QED
    BY <1>1, <1>2 DEF Init, Deferred, OneDeferral, Hot

\* However often a settle is replayed and whatever becomes of its row, one promise at most waits
\* for a task, unless both settlers had it in hand (has_queued_task_ref, owner_comms_queue.py:149-163).
THEOREM OneDeferralHolds == Spec => []OneDeferral
  <1>1. Init => Deferred
    BY InitDeferred
  <1>2. TypeOK /\ Deferred /\ [Next]_vars => Deferred'
    BY DeferredStep
  <1>3. Deferred => OneDeferral
    BY DEF Deferred
  <1>4. QED
    BY <1>1, <1>2, <1>3, TypeCorrect, PTL DEF Spec

-------------------------------------------------------------------------------
(* Telling. What keeps a second teller away from news that is not blurred: a row *)
(* of its own, one drain at a time, and a trace of the first telling that every  *)
(* other teller reads before it speaks.                                          *)

Holds(d, k) == InHand(d) /\ about[hold[d]] = k

\* An ask no drain will deliver: decided, or its clock runs.
Spent(k) == k \in Ask /\ (approval[k] = "closed" \/ clock[k] # "none")
Over(k) == Spent(k) \/ (k \in Ask /\ arm[k] = "told")

\* A push that has queued nothing.
Silent(p) == word[p] \in {"none", "composing", "closing", "nothing"}

RowsAreOne ==
    /\ \A i, j \in Row : Queued(i) /\ Queued(j) /\ about[i] = about[j] /\ about[i] \notin Task => i = j
    /\ \A a \in Ask : arm[a] \in {"none", "inserted"} => \A i \in Row : about[i] # a
    /\ \A p \in Push : Silent(p) => told[p] = 0 /\ \A i \in Row : about[i] # p

AskOK(a) ==
    /\ arm[a] = "none" <=> approval[a] = "none"
    /\ a \notin blurred /\ arm[a] = "clocked" => Spent(a)
    /\ a \notin blurred /\ arm[a] \in {"none", "inserted", "queued"} => told[a] = 0
    /\ a \notin blurred /\ arm[a] \in {"none", "inserted", "queued", "told"} => ~Draining(a)

TaskOK(t) == t \notin blurred =>
    /\ \A s \in Settler : settle[t][s] = "recorded" => t \in key
    /\ t \in key => ~Settling(t)
    /\ \A s \in Settler : settle[t][s] \in {"sending", "closed", "deferring"} => told[t] = 0
    /\ Settling(t) \/ t \in key => ~Waiting(t) /\ ~Draining(t)
    /\ told[t] # 0 /\ notice[t] = "pending" /\ t \notin key =>
        (\E s \in Settler : settle[t][s] = "told") \/ Draining(t)

DrainOK(d) ==
    \A k \in Subject \ blurred : Holds(d, k) =>
        /\ \A e \in Drainer : Holds(e, k) => e = d
        /\ \A i \in Row : Queued(i) /\ about[i] = k => hold[d] = i
        /\ pc[d] \in {"cleared", "missed"} => told[k] = 0
        /\ pc[d] = "picked" => told[k] = 0 \/ Spent(k)

RowOK(i) ==
    \A k \in Subject \ blurred : Queued(i) /\ about[i] = k /\ told[k] # 0 =>
        Over(k) \/ \E d \in Drainer : hold[d] = i /\ pc[d] = "told"

Told ==
    /\ TypeOK /\ Deferred /\ RowsAreOne /\ ToldOnce
    /\ \A a \in Ask : AskOK(a)
    /\ \A t \in Task : TaskOK(t)
    /\ \A d \in Drainer : DrainOK(d)
    /\ \A i \in Row : RowOK(i)

LEMMA InitTold == Init => Told
  <1>. SUFFICES ASSUME Init PROVE Told
    OBVIOUS
  <1>1. TypeOK
    BY InitTypes
  <1>2. \A i : ~Queued(i)
    BY DEF Init, Queued
  <1>3. \A d \in Drainer : ~InHand(d)
    BY DEF Init, InHand
  <1>4. Deferred /\ RowsAreOne /\ ToldOnce
    BY <1>2, InitDeferred, Subjects DEF Init, RowsAreOne, ToldOnce
  <1>5. \A a \in Ask : AskOK(a)
    BY <1>3, Subjects DEF Init, AskOK, Draining
  <1>6. \A t \in Task : TaskOK(t)
    BY <1>2, <1>3, Subjects DEF Init, TaskOK, Settling, Hot, Draining, Waiting
  <1>7. (\A d \in Drainer : DrainOK(d)) /\ (\A i \in Row : RowOK(i))
    BY <1>2, <1>3 DEF DrainOK, RowOK, Holds
  <1>8. QED
    BY <1>1, <1>4, <1>5, <1>6, <1>7 DEF Told

\* A row that exists keeps its news.
LEMMA RowsKeepNews ==
    ASSUME TypeOK, [Next]_vars
    PROVE  /\ \A i \in Row : about[i] # Nobody => about'[i] = about[i]
           /\ \A d \in Drainer : InHand(d) => about'[hold[d]] = about[hold[d]]
  <1>1. \A i \in Row : about[i] # Nobody => about'[i] = about[i]
    <2>1. CASE RowsShrink
      BY <2>1 DEF RowsShrink
    <2>2. CASE ~RowsShrink
      BY <2>2, Enqueues, NewRow
    <2>3. QED
      BY <2>1, <2>2
  <1>2. QED
    BY <1>1, HeldRow, Subjects

\* Without a pick or an end of a drain, the same drains hold the same news.
LEMMA SameHands ==
    ASSUME TypeOK, [Next]_vars, hold' = hold
    PROVE  /\ \A d \in Drainer : \A k \in Subject : Holds(d, k)' <=> Holds(d, k)
           /\ \A k \in Subject : Draining(k)' <=> Draining(k)
  <1>1. \A d \in Drainer : \A k \in Subject : Holds(d, k)' <=> Holds(d, k)
    BY RowsKeepNews DEF Holds, InHand
  <1>2. QED
    BY <1>1 DEF Draining, Holds

-------------------------------------------------------------------------------
(* Rows stay one per news.                                                       *)

LEMMA RowsStayOne ==
    ASSUME TypeOK, RowsAreOne, [Next]_vars,
           \A a \in Ask : arm'[a] \in {"none", "inserted"} =>
                arm[a] \in {"none", "inserted"} /\ ~ArmEnqueues(a),
           \A p \in Push : Silent(p)' =>
                Silent(p) /\ ~PushEnqueues(p) /\ (told[p] = 0 => told'[p] = 0)
    PROVE  RowsAreOne'
  <1>1. CASE RowsShrink
    BY <1>1, FewerRows DEF RowsAreOne, RowsShrink
  <1>2. CASE ~RowsShrink
    <2>1. PICK k \in Subject : /\ Enqueue(k)
                               /\ \/ k \in Ask /\ ArmEnqueues(k)
                                  \/ k \in Task /\ NotifyEnqueues(k)
                                  \/ k \in Push /\ PushEnqueues(k)
      BY <1>2, RowSteps, Subjects DEF ArmEnqueues, NotifyEnqueues, PushEnqueues
    <2>2. k \in Task \/ ~Waiting(k)
      BY <2>1, Subjects DEF RowsAreOne, Silent, ArmEnqueues, PushEnqueues, Waiting, Queued
    <2>3. /\ about'[Slot] = k /\ Slot \in Row
          /\ \A i \in Row : i # Slot => about'[i] = about[i] /\ (Queued(i)' <=> Queued(i))
      BY <2>1, NewRow
    <2>4. \A i, j \in Row : Queued(i)' /\ Queued(j)' /\ about'[i] = about'[j] /\ about'[i] \notin Task => i = j
      BY <2>2, <2>3 DEF RowsAreOne, Waiting
    <2>5. \A a \in Ask : arm'[a] \in {"none", "inserted"} => a # k /\ \A i \in Row : about'[i] # a
      BY <2>1, <2>3, Subjects DEF RowsAreOne
    <2>6. \A p \in Push : Silent(p)' => p # k /\ \A i \in Row : about'[i] # p
      BY <2>1, <2>3, Subjects DEF RowsAreOne
    <2>7. QED
      BY <2>4, <2>5, <2>6 DEF RowsAreOne
  <1>3. QED
    BY <1>1, <1>2

-------------------------------------------------------------------------------
(* What a step does not touch.                                                   *)

LEMMA DrainFrame ==
    ASSUME Told, [Next]_vars, hold' = hold, pc' = pc, blurred \subseteq blurred',
           \A k \in Ask : Spent(k) => Spent(k)',
           \A k \in Subject \ blurred' : Draining(k) => told'[k] = told[k],
           RowsShrink \/ \E n \in Subject : Enqueue(n) /\ (n \in blurred' \/ ~Draining(n))
    PROVE  \A d \in Drainer : DrainOK(d)'
  <1>. SUFFICES ASSUME NEW d \in Drainer, NEW k \in Subject \ blurred', Holds(d, k)'
                PROVE  /\ \A e \in Drainer : Holds(e, k)' => e = d
                       /\ \A i \in Row : Queued(i)' /\ about'[i] = k => hold'[d] = i
                       /\ pc'[d] \in {"cleared", "missed"} => told'[k] = 0
                       /\ pc'[d] = "picked" => told'[k] = 0 \/ Spent(k)'
    BY DEF DrainOK
  <1>1. \A e \in Drainer : Holds(e, k)' <=> Holds(e, k)
    BY SameHands DEF Told
  <1>2. Draining(k) /\ k \in Subject \ blurred
    BY <1>1 DEF Draining, Holds
  <1>3. DrainOK(d)
    BY DEF Told
  <1>4. Spent(k) => Spent(k)'
    BY DEF Spent
  <1>5. \A i \in Row : Queued(i)' /\ about'[i] = k => Queued(i) /\ about[i] = k
    BY <1>2, FewerRows, NewRow DEF Told
  <1>6. QED
    BY <1>1, <1>2, <1>3, <1>4, <1>5 DEF DrainOK

LEMMA RowFrame ==
    ASSUME Told, RowsShrink, hold' = hold, pc' = pc, blurred \subseteq blurred',
           \A k \in Ask \ blurred' : Over(k) => Over(k)',
           \A k \in Subject \ blurred' : told'[k] = told[k] \/ ~Waiting(k) \/ Over(k)'
    PROVE  \A i \in Row : RowOK(i)'
  <1>. SUFFICES ASSUME NEW i \in Row, NEW k \in Subject \ blurred', Queued(i)', about'[i] = k, told'[k] # 0
                PROVE  Over(k)' \/ \E d \in Drainer : hold'[d] = i /\ pc'[d] = "told"
    BY DEF RowOK
  <1>1. Queued(i) /\ about[i] = k /\ Waiting(k)
    BY FewerRows DEF Waiting
  <1>2. CASE Over(k)'
    BY <1>2
  <1>3. CASE ~Over(k)'
    <2>1. told[k] # 0 /\ k \in Subject \ blurred
      BY <1>1, <1>3
    <2>2. ~Over(k)
      BY <1>3 DEF Over, Spent
    <2>3. QED
      BY <1>1, <2>1, <2>2 DEF Told, RowOK
  <1>4. QED
    BY <1>2, <1>3

\* A new row of news that nobody has been told.
LEMMA RowGrows ==
    ASSUME Told, NEW n \in Subject, Enqueue(n), n \in blurred \/ told[n] = 0,
           hold' = hold, pc' = pc, blurred' = blurred, told' = told,
           \A k \in Ask : Over(k) => Over(k)'
    PROVE  \A i \in Row : RowOK(i)'
  <1>. SUFFICES ASSUME NEW i \in Row, NEW k \in Subject \ blurred', Queued(i)', about'[i] = k, told'[k] # 0
                PROVE  Over(k)' \/ \E d \in Drainer : hold'[d] = i /\ pc'[d] = "told"
    BY DEF RowOK
  <1>1. i # Slot /\ Queued(i) /\ about[i] = k
    BY NewRow DEF Told
  <1>2. Over(k) => Over(k)'
    BY DEF Over, Spent
  <1>3. QED
    BY <1>1, <1>2 DEF Told, RowOK

LEMMA AskFrame ==
    ASSUME Told, [Next]_vars, hold' = hold, UNCHANGED <<arm, approval, clock>>, blurred \subseteq blurred',
           \A a \in Ask : told'[a] = told[a]
    PROVE  \A a \in Ask : AskOK(a)'
  <1>. SUFFICES ASSUME NEW a \in Ask PROVE AskOK(a)'
    OBVIOUS
  <1>1. Draining(a)' <=> Draining(a)
    BY SameHands, Subjects DEF Told
  <1>2. AskOK(a)
    BY DEF Told
  <1>3. QED
    BY <1>1, <1>2 DEF AskOK, Spent

LEMMA TaskFrame ==
    ASSUME Told, [Next]_vars, hold' = hold, UNCHANGED tasks, blurred \subseteq blurred',
           \A t \in Task : told'[t] = told[t] /\ (Waiting(t)' => Waiting(t))
    PROVE  \A t \in Task : TaskOK(t)'
  <1>. SUFFICES ASSUME NEW t \in Task PROVE TaskOK(t)'
    OBVIOUS
  <1>1. Draining(t)' <=> Draining(t)
    BY SameHands, Subjects DEF Told
  <1>2. TaskOK(t)
    BY DEF Told
  <1>3. QED
    BY <1>1, <1>2 DEF TaskOK, Settling, Hot, tasks

-------------------------------------------------------------------------------
(* arm_pause_request, decisions and the belt.                                    *)

LEMMA ArmTold ==
    ASSUME Told, NEW a \in Ask, ArmStep(a) \/ Decide(a) \/ Belt(a)
    PROVE  Told'
  <1>. a \in Subject /\ [Next]_vars /\ TypeOK
    BY Subjects DEF Next, Told
  <1>1. hold' = hold /\ pc' = pc /\ UNCHANGED tasks /\ word' = word
    BY DEF ArmStep, ArmInserts, ArmQueues, ArmTells, ArmRefused, ArmStartsClock, ArmClockFails, ArmMarks, ArmDies,
           Decide, Belt, drains, onboarding
  <1>2. blurred \subseteq blurred' /\ (arm[a] = "told" => arm'[a] \in {"told", "clocked"} \/ a \in blurred')
    BY DEF ArmStep, ArmInserts, ArmQueues, ArmTells, ArmRefused, ArmStartsClock, ArmClockFails, ArmMarks, ArmDies,
           Decide, Belt, Blur, Arm, ArmEnds, TypeOK
  <1>3. AskOK(a)
    BY DEF Told
  <1>4. \/ told' = told
        \/ ArmTells(a) /\ (a \in blurred \/ (told[a] = 0 /\ ~Draining(a)))
    BY <1>3 DEF ArmStep, ArmInserts, ArmQueues, ArmTells, ArmRefused, ArmStartsClock, ArmClockFails, ArmMarks, ArmDies,
           Decide, Belt, AskOK
  <1>5. \A k \in Subject : k # a => told'[k] = told[k]
    BY <1>4 DEF ArmTells, Words, TypeOK
  <1>6. \A b \in Ask : b # a => UNCHANGED <<arm[b], approval[b], clock[b]>>
    <2>1. CASE ArmRefused(a)
      <3>1. approval' = approval \/ approval' = [approval EXCEPT ![a] = "closed"]
        BY <2>1 DEF ArmRefused
      <3>2. clock' = clock /\ ArmEnds(a)
        BY <2>1 DEF ArmRefused
      <3>3. QED
        BY <3>1, <3>2 DEF ArmEnds, TypeOK
    <2>2. CASE ArmInserts(a) \/ ArmQueues(a) \/ ArmTells(a)
      BY <2>2 DEF ArmInserts, ArmQueues, ArmTells, Arm, TypeOK
    <2>3. CASE ArmStartsClock(a) \/ ArmClockFails(a) \/ ArmMarks(a) \/ ArmDies(a)
      <3>1. CASE ArmStartsClock(a)
        BY <3>1 DEF ArmStartsClock, Arm, TypeOK
      <3>2. CASE ArmClockFails(a)
        BY <3>2 DEF ArmClockFails, Arm, TypeOK
      <3>3. CASE ArmMarks(a) \/ ArmDies(a)
        BY <3>3 DEF ArmMarks, ArmDies, ArmEnds, TypeOK
      <3>4. QED
        BY <2>3, <3>1, <3>2, <3>3
    <2>4. CASE Decide(a) \/ Belt(a)
      BY <2>4 DEF Decide, Belt, TypeOK
    <2>5. QED
      BY <2>1, <2>2, <2>3, <2>4 DEF ArmStep
  <1>7. /\ arm'[a] = "none" <=> approval'[a] = "none"
        /\ a \notin blurred' /\ arm'[a] = "clocked" => Spent(a)'
        /\ Spent(a) => Spent(a)'
        /\ arm'[a] \in {"none", "inserted"} => arm[a] \in {"none", "inserted"} /\ ~ArmEnqueues(a)
        /\ arm'[a] = "queued" => arm[a] \in {"inserted", "queued"}
        /\ arm'[a] = "told" => arm[a] \in {"queued", "told"}
    <2>1. CASE ArmInserts(a)
      BY <1>3, <2>1 DEF AskOK, ArmInserts, Arm, Spent, TypeOK, ArmEnqueues
    <2>2. CASE ArmQueues(a)
      BY <1>3, <2>2 DEF AskOK, ArmQueues, Spent, TypeOK, ArmEnqueues
    <2>3. CASE ArmTells(a) \/ ArmStartsClock(a)
      BY <1>3, <2>3 DEF AskOK, ArmTells, ArmStartsClock, Arm, Spent, TypeOK, ArmEnqueues
    <2>4. CASE ArmRefused(a) \/ ArmMarks(a) \/ ArmDies(a) \/ ArmClockFails(a)
      BY <1>3, <2>4 DEF AskOK, ArmRefused, ArmMarks, ArmDies, ArmClockFails, Arm, Blur, ArmEnds, Spent, TypeOK, ArmEnqueues
    <2>5. CASE Decide(a) \/ Belt(a)
      BY <1>3, <2>5 DEF AskOK, Decide, Belt, Spent, TypeOK, ArmEnqueues, Enqueue, queue
    <2>6. QED
      BY <2>1, <2>2, <2>3, <2>4, <2>5 DEF ArmStep
  <1>8. \A b \in Ask : (Spent(b) => Spent(b)') /\ (b \notin blurred' /\ Over(b) => Over(b)')
    BY <1>2, <1>6, <1>7 DEF Spent, Over
  <1>9. \A b \in Ask : AskOK(b)'
    <2>. SUFFICES ASSUME NEW b \in Ask PROVE AskOK(b)'
      OBVIOUS
    <2>1. Draining(b)' <=> Draining(b)
      BY <1>1, SameHands, Subjects
    <2>2. AskOK(b)
      BY DEF Told
    <2>3. CASE b # a
      BY <1>2, <1>5, <1>6, <2>1, <2>2, <2>3, Subjects DEF AskOK, Spent
    <2>4. CASE b = a
      <3>1. ArmTells(a) => arm'[a] = "told"
        BY DEF ArmTells, Arm, TypeOK
      <3>2. QED
        BY <1>2, <1>4, <1>7, <2>1, <2>2, <2>4, <3>1 DEF AskOK
    <2>5. QED
      BY <2>3, <2>4
  <1>10. \A t \in Task : TaskOK(t)'
    <2>1. \A t \in Task : Waiting(t)' => Waiting(t)
      BY ArmRows, FewerRows, OneMoreWaits, Subjects DEF ArmEnqueues
    <2>2. \A t \in Task : told'[t] = told[t]
      BY <1>5, Subjects
    <2>3. QED
      BY <1>1, <1>2, <2>1, <2>2, TaskFrame
  <1>11. \A d \in Drainer : DrainOK(d)'
    <2>1. \A k \in Subject \ blurred' : Draining(k) => told'[k] = told[k]
      BY <1>2, <1>4, <1>5
    <2>2. ArmEnqueues(a) => a \in blurred' \/ ~Draining(a)
      BY <1>2, <1>3 DEF AskOK, ArmEnqueues
    <2>3. RowsShrink \/ \E n \in Subject : Enqueue(n) /\ (n \in blurred' \/ ~Draining(n))
      BY <2>2, ArmRows DEF ArmEnqueues
    <2>4. QED
      BY <1>1, <1>2, <1>8, <2>1, <2>3, DrainFrame
  <1>12. \A i \in Row : RowOK(i)'
    <2>1. CASE RowsShrink
      <3>1. ArmTells(a) => Over(a)'
        BY DEF ArmTells, Arm, Over, TypeOK
      <3>2. \A k \in Subject \ blurred' : told'[k] = told[k] \/ ~Waiting(k) \/ Over(k)'
        BY <1>4, <1>5, <3>1
      <3>3. QED
        BY <1>1, <1>2, <1>8, <2>1, <3>2, RowFrame
    <2>2. CASE ~RowsShrink
      <3>1. ArmEnqueues(a)
        BY <2>2, ArmRows
      <3>2. a \in blurred \/ told[a] = 0
        BY <1>3, <3>1 DEF AskOK, ArmEnqueues
      <3>3. ArmQueues(a)
        BY <3>1 DEF ArmEnqueues, ArmStep, ArmInserts, ArmQueues, ArmTells, ArmRefused, ArmStartsClock, ArmClockFails, ArmMarks,
               ArmDies, Decide, Belt, Enqueue, queue, TypeOK
      <3>4. told' = told /\ blurred' = blurred
        BY <3>3 DEF ArmQueues
      <3>5. \A k \in Ask : Over(k) => Over(k)'
        BY <1>6, <3>3 DEF ArmQueues, Over, Spent, TypeOK
      <3>6. QED
        BY <1>1, <3>1, <3>2, <3>4, <3>5, RowGrows DEF ArmEnqueues
    <2>3. QED
      BY <2>1, <2>2
  <1>13. RowsAreOne'
    <2>1. \A b \in Ask : arm'[b] \in {"none", "inserted"} => arm[b] \in {"none", "inserted"} /\ ~ArmEnqueues(b)
      <3>1. \A b \in Ask : b # a => ~ArmEnqueues(b)
        BY ArmRows, NewRow, Subjects DEF ArmEnqueues, RowsShrink, Enqueue, TypeOK
      <3>2. QED
        BY <1>6, <1>7, <3>1
    <2>2. \A p \in Push : Silent(p)' => Silent(p) /\ ~PushEnqueues(p) /\ (told[p] = 0 => told'[p] = 0)
      <3>1. \A p \in Push : ~PushEnqueues(p)
        BY ArmRows, NewRow, Subjects DEF ArmEnqueues, PushEnqueues, RowsShrink, Enqueue, TypeOK
      <3>2. QED
        BY <1>1, <1>5, <3>1, Subjects DEF Silent
    <2>3. QED
      BY <2>1, <2>2, RowsStayOne DEF Told
  <1>14. ToldOnce'
    <2>1. ArmTells(a) => a \in blurred \/ told'[a] = 1
      BY <1>4, <1>3 DEF ArmTells, Words, TypeOK, AskOK
    <2>2. QED
      BY <1>2, <1>4, <1>5, <2>1 DEF Told, ToldOnce
  <1>15. QED
    BY <1>9, <1>10, <1>11, <1>12, <1>13, <1>14, ArmTypes, DeferredStep DEF Told

-------------------------------------------------------------------------------
(* maybe_notify_owner_of_task_outcome.                                           *)

LEMMA NotifyTold ==
    ASSUME Told, NEW t \in Task, NEW s \in Settler, NotifyStep(t, s)
    PROVE  Told'
  <1>. t \in Subject /\ t \notin Ask /\ t \notin Push /\ [Next]_vars /\ TypeOK
    BY Subjects DEF Next, Told
  <1>1. hold' = hold /\ pc' = pc /\ UNCHANGED <<arm, approval, clock>> /\ word' = word
    BY DEF NotifyStep, Notify, NotifySends, NotifyDefers, NotifyQueues, NotifyRecords, NotifyReturns, NotifyDies,
           asks, drains, onboarding
  <1>2. blurred \subseteq blurred' /\ \A r \in Settler : r # s => settle'[t][r] = settle[t][r]
    BY SettlerMoves
  <1>3. TaskOK(t) /\ (t \notin blurred => \A r, q \in Settler : Hot(t, r) /\ Hot(t, q) => r = q)
    BY DEF Told, Deferred
  <1>4. \/ told' = told
        \/ /\ NotifySends(t, s) /\ settle[t][s] = "sending" /\ Words(t)
           /\ t \in blurred \/ (told[t] = 0 /\ ~Waiting(t) /\ ~Draining(t))
    <2>1. CASE NotifySends(t, s)
      BY <1>3, <2>1 DEF NotifySends, TaskOK, Settling, Hot
    <2>2. CASE ~NotifySends(t, s)
      BY <2>2 DEF NotifyStep, Notify, NotifyDefers, NotifyQueues, NotifyRecords, NotifyReturns, NotifyDies
    <2>3. QED
      BY <2>1, <2>2
  <1>5. \A k \in Subject : k # t => told'[k] = told[k]
    BY <1>4 DEF Words, TypeOK
  <1>6. \A u \in Task : u # t => settle'[u] = settle[u] /\ notice'[u] = notice[u] /\ (u \in key' <=> u \in key)
    <2>1. \A u \in Task : u # t => settle'[u] = settle[u]
      BY SettlerMoves
    <2>2. \A u \in Task : u # t => notice'[u] = notice[u]
      BY DEF NotifyStep, Notify, NotifySends, NotifyDefers, NotifyQueues, NotifyRecords, NotifyReturns, NotifyDies, TypeOK
    <2>3. key' = key \/ key' = key \cup {t}
      BY DEF NotifyStep, Notify, NotifySends, NotifyDefers, NotifyQueues, NotifyRecords, NotifyReturns, NotifyDies
    <2>4. QED
      BY <2>1, <2>2, <2>3
  <1>7. \A k \in Subject : Draining(k)' <=> Draining(k)
    BY <1>1, SameHands
  <1>8. \A u \in Task : u # t => (Waiting(u)' => Waiting(u))
    BY NotifyRows, FewerRows, OneMoreWaits, Subjects DEF NotifyEnqueues
  <1>9. TaskOK(t)'
    <2>. SUFFICES ASSUME t \notin blurred'
                  PROVE  /\ \A r \in Settler : settle'[t][r] = "recorded" => t \in key'
                         /\ t \in key' => ~Settling(t)'
                         /\ \A r \in Settler : settle'[t][r] \in {"sending", "closed", "deferring"} => told'[t] = 0
                         /\ Settling(t)' \/ t \in key' => ~Waiting(t)' /\ ~Draining(t)'
                         /\ told'[t] # 0 /\ notice'[t] = "pending" /\ t \notin key' =>
                                (\E r \in Settler : settle'[t][r] = "told") \/ Draining(t)'
      BY DEF TaskOK
    <2>0. /\ \A r \in Settler : settle[t][r] = "recorded" => t \in key
          /\ t \in key => ~Settling(t)
          /\ \A r \in Settler : settle[t][r] \in {"sending", "closed", "deferring"} => told[t] = 0
          /\ Settling(t) \/ t \in key => ~Waiting(t) /\ ~Draining(t)
          /\ told[t] # 0 /\ notice[t] = "pending" /\ t \notin key =>
                (\E r \in Settler : settle[t][r] = "told") \/ Draining(t)
          /\ \A r, q \in Settler : Hot(t, r) /\ Hot(t, q) => r = q
          /\ Draining(t)' <=> Draining(t)
          /\ \A r \in Settler : r # s => settle'[t][r] = settle[t][r]
      BY <1>2, <1>3, <1>7 DEF TaskOK
    <2>1. CASE Notify(t, s)
      <3>1. Waiting(t)' => Waiting(t)
        BY <2>1, FewerRows DEF Notify, queue, RowsShrink
      <3>2. CASE t \in key
        <4>1. settle'[t][s] = "done" /\ notice'[t] # "pending" /\ key' = key
          BY <2>1, <3>2 DEF Notify, Settle, TypeOK
        <4>2. QED
          BY <2>0, <3>1, <3>2, <4>1 DEF Settling, Hot
      <3>3. CASE t \notin key
        <4>1. settle'[t][s] = "sending" /\ notice[t] = "pending" /\ notice' = notice /\ key' = key /\ told' = told
          BY <2>1, <3>3 DEF Notify, Settle, TypeOK
        <4>2. ~Settling(t) /\ ~Waiting(t) /\ ~Draining(t)
          BY <2>1, <3>3 DEF Notify, Blur
        <4>3. told[t] = 0
          BY <2>0, <3>3, <4>1, <4>2 DEF Settling, Hot
        <4>4. QED
          BY <2>0, <3>1, <3>3, <4>1, <4>2, <4>3
      <3>4. QED
        BY <3>2, <3>3
    <2>2. CASE NotifySends(t, s)
      <3>1. Waiting(t)' => Waiting(t)
        BY <2>2, FewerRows DEF NotifySends, queue, RowsShrink
      <3>2. Hot(t, s) /\ settle[t][s] = "sending" /\ key' = key
        BY <2>2 DEF NotifySends, Hot
      <3>3. settle'[t][s] \in {"told", "closed", "done"}
        BY <2>2 DEF NotifySends, Settle, TypeOK
      <3>4. settle'[t][s] # "told" => told' = told
        BY <2>2 DEF NotifySends, Settle, TypeOK
      <3>5. \A r \in Settler : r # s => ~Hot(t, r)
        BY <2>0, <3>2
      <3>6. QED
        BY <2>0, <3>1, <3>2, <3>3, <3>4, <3>5 DEF Settling, Hot
    <2>3. CASE NotifyDefers(t, s)
      <3>1. Waiting(t)' => Waiting(t)
        BY <2>3, FewerRows DEF NotifyDefers, queue, RowsShrink
      <3>2. Hot(t, s) /\ settle[t][s] = "closed" /\ UNCHANGED <<key, notice, told>>
        BY <2>3 DEF NotifyDefers, Hot
      <3>3. settle'[t][s] \in {"deferring", "deferred"}
        BY <2>3 DEF NotifyDefers, Settle, TypeOK
      <3>4. QED
        BY <2>0, <3>1, <3>2, <3>3 DEF Settling, Hot
    <2>4. CASE NotifyQueues(t, s)
      <3>1. Hot(t, s) /\ settle[t][s] = "deferring" /\ UNCHANGED <<key, notice, told>>
        BY <2>4 DEF NotifyQueues, Hot
      <3>2. settle'[t][s] = "deferred"
        BY <2>4 DEF NotifyQueues, Settle, TypeOK
      <3>3. ~Settling(t)' /\ t \notin key
        BY <2>0, <3>1, <3>2 DEF Settling, Hot
      <3>4. QED
        BY <2>0, <3>1, <3>2, <3>3
    <2>5. CASE NotifyRecords(t, s)
      <3>1. Waiting(t)' => Waiting(t)
        BY <2>5, FewerRows DEF NotifyRecords, queue, RowsShrink
      <3>2. Hot(t, s) /\ settle[t][s] = "told" /\ settle'[t][s] = "recorded" /\ t \in key'
        BY <2>5 DEF NotifyRecords, Hot, Settle, Blur, TypeOK
      <3>3. ~Settling(t)' /\ \A r \in Settler : settle'[t][r] \notin {"sending", "closed", "deferring"}
        BY <2>0, <3>2 DEF Settling, Hot
      <3>4. QED
        BY <2>0, <3>1, <3>2, <3>3 DEF Settling
    <2>6. CASE NotifyReturns(t, s)
      <3>1. Waiting(t)' => Waiting(t)
        BY <2>6, FewerRows DEF NotifyReturns, queue, RowsShrink
      <3>2. settle[t][s] \in {"deferred", "recorded"} /\ settle'[t][s] = "done" /\ UNCHANGED <<key, told>>
        BY <2>6 DEF NotifyReturns, Settle, TypeOK
      <3>3. notice'[t] = "pending" => notice[t] = "pending"
        BY <2>6 DEF NotifyReturns, TypeOK
      <3>4. QED
        BY <2>0, <3>1, <3>2, <3>3 DEF Settling, Hot
    <2>7. CASE NotifyDies(t, s)
      <3>1. Waiting(t)' => Waiting(t)
        BY <2>7, FewerRows DEF NotifyDies, queue, RowsShrink
      <3>2. settle[t][s] # "told" /\ settle'[t][s] = "died" /\ UNCHANGED <<key, notice, told>>
        BY <2>7 DEF NotifyDies, Settle, Blur, TypeOK
      <3>3. QED
        BY <2>0, <3>1, <3>2 DEF Settling, Hot
    <2>8. QED
      BY <2>1, <2>2, <2>3, <2>4, <2>5, <2>6, <2>7 DEF NotifyStep
  <1>10. \A u \in Task : TaskOK(u)'
    <2>. SUFFICES ASSUME NEW u \in Task, u # t PROVE TaskOK(u)'
      BY <1>9
    <2>1. TaskOK(u)
      BY DEF Told
    <2>2. told'[u] = told[u] /\ (Draining(u)' <=> Draining(u))
      BY <1>5, <1>7, Subjects
    <2>3. QED
      BY <1>2, <1>6, <1>8, <2>1, <2>2 DEF TaskOK, Settling, Hot
  <1>11. \A a \in Ask : AskOK(a)'
    BY <1>1, <1>2, <1>5, AskFrame, Subjects
  <1>12. \A a \in Ask : (Spent(a) => Spent(a)') /\ (Over(a) => Over(a)')
    BY <1>1 DEF Spent, Over
  <1>13. \A d \in Drainer : DrainOK(d)'
    <2>1. \A k \in Subject \ blurred' : Draining(k) => told'[k] = told[k]
      BY <1>2, <1>4, <1>5
    <2>2. NotifyEnqueues(t) => t \in blurred' \/ ~Draining(t)
      BY <1>2, <1>3 DEF TaskOK, NotifyEnqueues, Settling, Hot
    <2>3. RowsShrink \/ \E n \in Subject : Enqueue(n) /\ (n \in blurred' \/ ~Draining(n))
      BY <2>2, NotifyRows DEF NotifyEnqueues
    <2>4. QED
      BY <1>1, <1>2, <1>12, <2>1, <2>3, DrainFrame
  <1>14. \A i \in Row : RowOK(i)'
    <2>1. CASE RowsShrink
      <3>1. \A k \in Subject \ blurred' : told'[k] = told[k] \/ ~Waiting(k)
        BY <1>2, <1>4, <1>5
      <3>2. QED
        BY <1>1, <1>2, <1>12, <2>1, <3>1, RowFrame
    <2>2. CASE ~RowsShrink
      <3>1. NotifyEnqueues(t) /\ NotifyQueues(t, s) /\ settle[t][s] = "deferring"
        BY <2>2, NotifyRows, SettlerQueues
      <3>2. t \in blurred \/ told[t] = 0
        BY <1>3, <3>1 DEF TaskOK
      <3>3. told' = told /\ blurred' = blurred
        BY <3>1 DEF NotifyQueues
      <3>4. QED
        BY <1>1, <1>12, <3>1, <3>2, <3>3, RowGrows DEF NotifyEnqueues
    <2>3. QED
      BY <2>1, <2>2
  <1>15. RowsAreOne'
    <2>1. \A a \in Ask : ~ArmEnqueues(a)
      BY NotifyRows, NewRow, Subjects DEF NotifyEnqueues, ArmEnqueues, RowsShrink, Enqueue, TypeOK
    <2>2. \A p \in Push : ~PushEnqueues(p)
      BY NotifyRows, NewRow, Subjects DEF NotifyEnqueues, PushEnqueues, RowsShrink, Enqueue, TypeOK
    <2>3. \A p \in Push : Silent(p)' => Silent(p) /\ told'[p] = told[p]
      BY <1>1, <1>5, Subjects DEF Silent
    <2>4. QED
      BY <1>1, <2>1, <2>2, <2>3, RowsStayOne DEF Told
  <1>16. ToldOnce'
    <2>1. told' = told \/ t \in blurred \/ told'[t] = 1
      BY <1>4 DEF Words, TypeOK
    <2>2. QED
      BY <1>2, <1>5, <2>1 DEF Told, ToldOnce
  <1>17. QED
    BY <1>10, <1>11, <1>13, <1>14, <1>15, <1>16, NotifyTypes, DeferredStep DEF Told

-------------------------------------------------------------------------------
(* push_next_question_after_discovery, and the world.                            *)

LEMMA PushTold ==
    ASSUME Told, NEW p \in Push, PushStep(p)
    PROVE  Told'
  <1>. p \in Subject /\ p \notin Ask /\ p \notin Task /\ [Next]_vars /\ TypeOK
    BY Subjects DEF Next, Told
  <1>1. hold' = hold /\ pc' = pc /\ UNCHANGED <<arm, approval, clock, tasks, told, blurred>>
    BY DEF PushStep, PushChecks, PushQuestion, PushCompletes, PushRecap, PushEnds, Answer, asks, tasks, drains
  <1>2. \A a \in Ask : (Spent(a) => Spent(a)') /\ (Over(a) => Over(a)')
    BY <1>1 DEF Spent, Over
  <1>3. \A a \in Ask : AskOK(a)'
    BY <1>1, AskFrame
  <1>4. \A t \in Task : TaskOK(t)'
    <2>1. \A t \in Task : Waiting(t)' => Waiting(t)
      BY PushRows, FewerRows, OneMoreWaits, Subjects DEF PushEnqueues
    <2>2. QED
      BY <1>1, <2>1, TaskFrame
  <1>5. \A d \in Drainer : DrainOK(d)'
    <2>1. PushEnqueues(p) => ~Draining(p)
      BY HeldRow DEF Told, RowsAreOne, Silent, PushEnqueues, Draining
    <2>2. RowsShrink \/ \E n \in Subject : Enqueue(n) /\ (n \in blurred' \/ ~Draining(n))
      BY <2>1, PushRows DEF PushEnqueues
    <2>3. QED
      BY <1>1, <1>2, <2>2, DrainFrame
  <1>6. \A i \in Row : RowOK(i)'
    <2>1. CASE RowsShrink
      BY <1>1, <1>2, <2>1, RowFrame
    <2>2. CASE ~RowsShrink
      <3>1. PushEnqueues(p)
        BY <2>2, PushRows
      <3>2. told[p] = 0
        BY <3>1 DEF Told, RowsAreOne, Silent, PushEnqueues
      <3>3. QED
        BY <1>1, <1>2, <3>1, <3>2, RowGrows DEF PushEnqueues
    <2>3. QED
      BY <2>1, <2>2
  <1>7. RowsAreOne'
    <2>1. \A a \in Ask : ~ArmEnqueues(a)
      BY PushRows, NewRow, Subjects DEF PushEnqueues, ArmEnqueues, RowsShrink, Enqueue, TypeOK
    <2>2. \A q \in Push : q # p => ~PushEnqueues(q) /\ word'[q] = word[q]
      <3>1. \A q \in Push : q # p => word'[q] = word[q]
        BY DEF PushStep, PushChecks, PushQuestion, PushCompletes, PushRecap, PushEnds, Answer, Moves, TypeOK
      <3>2. QED
        BY <3>1, PushRows, NewRow, Subjects DEF PushEnqueues, RowsShrink, Enqueue, TypeOK
    <2>3. Silent(p)' => Silent(p) /\ ~PushEnqueues(p)
      <3>1. CASE PushQuestion(p) \/ PushRecap(p) \/ Answer(p)
        BY <3>1 DEF PushQuestion, PushRecap, Answer, Moves, Silent, TypeOK
      <3>2. CASE PushChecks(p) \/ PushCompletes(p) \/ PushEnds(p)
        <4>1. Silent(p) /\ UNCHANGED queue
          BY <3>2 DEF PushChecks, PushCompletes, PushEnds, Moves, Silent
        <4>2. ~PushEnqueues(p)
          BY <4>1, EnqueueTypes DEF PushEnqueues, Enqueue, queue, TypeOK
        <4>3. QED
          BY <4>1, <4>2
      <3>3. QED
        BY <3>1, <3>2 DEF PushStep
    <2>4. QED
      BY <1>1, <2>1, <2>2, <2>3, RowsStayOne DEF Told, Silent
  <1>8. ToldOnce'
    BY <1>1 DEF Told, ToldOnce
  <1>9. QED
    BY <1>3, <1>4, <1>5, <1>6, <1>7, <1>8, PushTypes, DeferredStep DEF Told

LEMMA WorldTold ==
    ASSUME Told,
           DropStale \/ (\E m \in Turn : TurnArrives(m)) \/ SessionCloses \/ (\E i \in Row : Ages(i))
    PROVE  Told'
  <1>. [Next]_vars /\ TypeOK /\ RowsShrink
    BY WorldRows DEF Next, Told
  <1>1. hold' = hold /\ UNCHANGED <<arm, approval, clock, tasks, told, blurred, word>>
    BY DEF DropStale, TurnArrives, SessionCloses, Ages, asks, tasks, drains, onboarding
  <1>2. \A a \in Ask : (Spent(a) => Spent(a)') /\ (Over(a) => Over(a)')
    BY <1>1 DEF Spent, Over
  <1>3. \A a \in Ask : AskOK(a)'
    BY <1>1, AskFrame
  <1>4. \A t \in Task : TaskOK(t)'
    BY <1>1, FewerRows, TaskFrame
  <1>5. \A d \in Drainer : pc'[d] = pc[d] \/ (~InHand(d) /\ pc[d] = "none" /\ pc'[d] = "turned")
    BY DEF TypeOK, DropStale, TurnArrives, SessionCloses, Ages, drains, InHand
  <1>6. \A d \in Drainer : DrainOK(d)'
    <2>. SUFFICES ASSUME NEW d \in Drainer, NEW k \in Subject \ blurred', Holds(d, k)'
                  PROVE  /\ \A e \in Drainer : Holds(e, k)' => e = d
                         /\ \A i \in Row : Queued(i)' /\ about'[i] = k => hold'[d] = i
                         /\ pc'[d] \in {"cleared", "missed"} => told'[k] = 0
                         /\ pc'[d] = "picked" => told'[k] = 0 \/ Spent(k)'
      BY DEF DrainOK
    <2>1. \A e \in Drainer : Holds(e, k)' <=> Holds(e, k)
      BY <1>1, SameHands
    <2>2. Spent(k) => Spent(k)'
      BY <1>2 DEF Spent
    <2>3. DrainOK(d)
      BY DEF Told
    <2>4. \A i \in Row : Queued(i)' /\ about'[i] = k => Queued(i) /\ about[i] = k
      BY FewerRows
    <2>5. QED
      BY <1>1, <1>5, <2>1, <2>2, <2>3, <2>4 DEF DrainOK
  <1>7. \A i \in Row : RowOK(i)'
    <2>. SUFFICES ASSUME NEW i \in Row PROVE RowOK(i)'
      OBVIOUS
    <2>1. Queued(i)' => Queued(i) /\ about'[i] = about[i]
      BY FewerRows
    <2>2. RowOK(i) /\ \A k : Over(k) => Over(k)'
      BY <1>2 DEF Told, Over, Spent
    <2>3. QED
      BY <1>1, <1>5, <2>1, <2>2 DEF RowOK
  <1>8. RowsAreOne'
    BY <1>1, RowsStayOne, NewRow, Subjects DEF Told, Silent, ArmEnqueues, PushEnqueues, RowsShrink, Enqueue, TypeOK
  <1>9. QED
    BY <1>1, <1>3, <1>4, <1>6, <1>7, <1>8, WorldTypes, DeferredStep DEF Told, ToldOnce

-------------------------------------------------------------------------------
(* drain_one.                                                                    *)

\* What a drain never touches.
LEMMA DrainLeaves ==
    ASSUME TypeOK, NEW d \in Drainer, DrainStep(d) \/ DrainFails(d)
    PROVE  /\ UNCHANGED <<arm, approval, clock, key, settle, word>> /\ blurred \subseteq blurred'
           /\ \A e \in Drainer : e # d => hold'[e] = hold[e] /\ pc'[e] = pc[e]
           /\ \A i \in Row : Queued(i)' => Queued(i)
           /\ UNCHANGED about
           /\ \A k : (Spent(k) <=> Spent(k)') /\ (Over(k) <=> Over(k)') /\ (Waiting(k)' => Waiting(k))
  <1>1. UNCHANGED <<arm, approval, clock, key, settle, word>>
    BY DEF DrainStep, Pick, Inspect, Send, Mark, Flip, DrainFails, asks, tasks, onboarding
  <1>2. blurred \subseteq blurred'
    BY DEF DrainStep, Pick, Inspect, Send, Mark, Flip, DrainFails, Blur
  <1>3. \A e \in Drainer : e # d => hold'[e] = hold[e] /\ pc'[e] = pc[e]
    <2>1. CASE Pick(d) \/ Send(d) \/ Flip(d) \/ DrainFails(d)
      BY <2>1 DEF TypeOK, Pick, Send, Flip, DrainFails, Drained
    <2>2. CASE Inspect(d)
      BY <2>2 DEF TypeOK, Inspect, Drained
    <2>3. CASE Mark(d)
      BY <2>3 DEF TypeOK, Mark, Drained
    <2>4. QED
      BY <2>1, <2>2, <2>3 DEF DrainStep
  <1>4. RowsShrink
    BY DrainRows
  <1>5. QED
    BY <1>1, <1>2, <1>3, <1>4, FewerRows DEF RowsShrink, Spent, Over

\* A drain that goes on with its row, or lets go of it, tells nobody but in Send.
LEMMA DrainTellsInSend ==
    ASSUME TypeOK, NEW d \in Drainer, DrainStep(d) \/ DrainFails(d)
    PROVE  told' = told \/ (Send(d) /\ Words(about[hold[d]]) /\ pc'[d] = "told")
  BY DEF DrainStep, Pick, Inspect, Send, Mark, Flip, DrainFails, TypeOK

\* A drain takes a row up, goes on with it or lets go of it.
LEMMA DrainHands ==
    ASSUME Told, NEW d \in Drainer, DrainStep(d) \/ DrainFails(d)
    PROVE  \/ /\ Pick(d) /\ ~InHand(d) /\ hold'[d] \in Row /\ Queued(hold'[d]) /\ pc'[d] = "picked"
              /\ told' = told /\ notice' = notice
              /\ \A k \in Subject : k = about[hold'[d]] =>
                    (Draining(k) \/ Arming(k) \/ Settling(k) => k \in blurred')
           \/ hold' = hold /\ InHand(d)
           \/ hold' = [hold EXCEPT ![d] = 0] /\ InHand(d) /\ told' = told
  <1>1. CASE Pick(d)
    <2>1. ~InHand(d)
      BY <1>1 DEF Told, TypeOK, Pick, Begins, InHand
    <2>2. PICK i \in Row : /\ NextDeliverable(i) /\ hold' = [hold EXCEPT ![d] = i]
                           /\ Blur(about[i], Draining(about[i]) \/ Arming(about[i]) \/ Settling(about[i]))
      BY <1>1 DEF Pick
    <2>3. hold'[d] = i /\ pc'[d] = "picked" /\ told' = told /\ notice' = notice
      BY <1>1, <2>2 DEF Told, TypeOK, Pick, tasks
    <2>4. QED
      BY <1>1, <2>1, <2>2, <2>3 DEF NextDeliverable, Blur
  <1>2. CASE Inspect(d)
    BY <1>2 DEF Told, TypeOK, Inspect, Drained, InHand
  <1>3. CASE Send(d)
    BY <1>3 DEF Told, TypeOK, Send, InHand
  <1>4. CASE Mark(d)
    BY <1>4 DEF Told, TypeOK, Mark, Drained, InHand
  <1>5. CASE Flip(d)
    BY <1>5 DEF Told, TypeOK, Flip, Drained, InHand
  <1>6. CASE DrainFails(d)
    BY <1>6 DEF DrainFails
  <1>7. QED
    BY <1>1, <1>2, <1>3, <1>4, <1>5, <1>6 DEF DrainStep

\* Whom drain d tells, if it tells now, nobody has told.
LEMMA SendIsFirst ==
    ASSUME Told, NEW d \in Drainer, Send(d), NEW k \in Subject \ blurred, Holds(d, k)
    PROVE  told[k] = 0
  BY DEF Told, DrainOK, Send

\* After the step nobody but d can be new to a piece of news.
LEMMA DrainsAfter ==
    ASSUME Told, NEW d \in Drainer, DrainStep(d) \/ DrainFails(d), NEW k \in Subject, NEW e \in Drainer, Holds(e, k)'
    PROVE  \/ Holds(e, k)
           \/ e = d /\ Pick(d) /\ k = about[hold'[d]]
  <1>. TypeOK /\ about' = about
    BY DrainLeaves DEF Told
  <1>1. CASE e # d
    BY <1>1, DrainLeaves DEF Holds, InHand
  <1>2. CASE e = d
    <2>1. CASE Pick(d)
      BY <1>2, <2>1 DEF Holds, InHand
    <2>2. CASE hold' = hold
      BY <1>2, <2>2 DEF Holds, InHand
    <2>3. CASE hold' = [hold EXCEPT ![d] = 0]
      BY <1>2, <2>3 DEF Holds, InHand, TypeOK
    <2>4. QED
      BY <2>1, <2>2, <2>3, DrainHands
  <1>3. QED
    BY <1>1, <1>2

LEMMA DrainTellsOnce ==
    ASSUME Told, NEW d \in Drainer, DrainStep(d) \/ DrainFails(d)
    PROVE  /\ ToldOnce'
           /\ \A k \in Subject \ blurred' :
                told'[k] = told[k] \/ (Send(d) /\ Holds(d, k) /\ told[k] = 0 /\ told'[k] = 1 /\ pc'[d] = "told")
  <1>. TypeOK /\ blurred \subseteq blurred'
    BY DrainLeaves DEF Told
  <1>1. ASSUME NEW k \in Subject \ blurred'
        PROVE  told'[k] = told[k] \/ (Send(d) /\ Holds(d, k) /\ told[k] = 0 /\ told'[k] = 1 /\ pc'[d] = "told")
    <2>1. CASE told' = told
      BY <2>1
    <2>2. CASE Send(d) /\ Words(about[hold[d]]) /\ pc'[d] = "told"
      <3>1. CASE about[hold[d]] = k
        <4>1. Holds(d, k)
          BY <2>2, <3>1 DEF Send, Holds, InHand, TypeOK
        <4>2. told[k] = 0
          BY <2>2, <4>1, SendIsFirst
        <4>3. told'[k] = 1
          BY <2>2, <3>1, <4>2 DEF Words, TypeOK
        <4>4. QED
          BY <2>2, <4>1, <4>2, <4>3
      <3>2. CASE about[hold[d]] # k
        BY <2>2, <3>2 DEF Words, TypeOK
      <3>3. QED
        BY <3>1, <3>2
    <2>3. QED
      BY <2>1, <2>2, DrainTellsInSend
  <1>2. ToldOnce'
    BY <1>1 DEF Told, ToldOnce
  <1>3. QED
    BY <1>1, <1>2

LEMMA DrainAsks ==
    ASSUME Told, NEW d \in Drainer, DrainStep(d) \/ DrainFails(d), NEW a \in Ask
    PROVE  AskOK(a)'
  <1>. a \in Subject /\ TypeOK
    BY Subjects DEF Told
  <1>1. UNCHANGED <<arm, approval, clock>> /\ blurred \subseteq blurred' /\ about' = about
    BY DrainLeaves
  <1>2. AskOK(a)
    BY DEF Told
  <1>3. ASSUME a \notin blurred', arm[a] \in {"none", "inserted", "queued", "told"}
        PROVE  ~Draining(a)' /\ told'[a] = told[a]
    <2>1. ~Draining(a)
      BY <1>1, <1>2, <1>3 DEF AskOK
    <2>2. told'[a] = told[a]
      BY <1>1, <1>3, <2>1, DrainTellsOnce DEF Draining, Holds
    <2>3. SUFFICES ASSUME NEW e \in Drainer, Holds(e, a)' PROVE FALSE
      BY <2>2 DEF Draining, Holds
    <2>4. e = d /\ Pick(d) /\ a = about[hold'[d]]
      BY <2>1, <2>3, DrainsAfter DEF Draining, Holds
    <2>5. hold'[d] \in Row /\ Queued(hold'[d]) /\ ~Arming(a)
      BY <1>3, <2>4, DrainHands DEF Pick, InHand, Holds, Told, TypeOK, Begins
    <2>6. arm[a] \in {"none", "inserted"}
      BY <1>3, <2>5 DEF Arming
    <2>7. QED
      BY <2>4, <2>5, <2>6 DEF Told, RowsAreOne
  <1>4. QED
    BY <1>1, <1>2, <1>3 DEF AskOK, Spent

LEMMA DrainDrains ==
    ASSUME Told, NEW d \in Drainer, DrainStep(d) \/ DrainFails(d), NEW e \in Drainer
    PROVE  DrainOK(e)'
  <1>. TypeOK /\ about' = about /\ blurred \subseteq blurred' /\ \A k : Spent(k) <=> Spent(k)'
    BY DrainLeaves DEF Told
  <1>. SUFFICES ASSUME NEW k \in Subject \ blurred', Holds(e, k)'
                PROVE  /\ \A f \in Drainer : Holds(f, k)' => f = e
                       /\ \A i \in Row : Queued(i)' /\ about'[i] = k => hold'[e] = i
                       /\ pc'[e] \in {"cleared", "missed"} => told'[k] = 0
                       /\ pc'[e] = "picked" => told'[k] = 0 \/ Spent(k)'
    BY DEF DrainOK
  <1>1. CASE e = d /\ Pick(d) /\ k = about[hold'[d]]
    <2>1. /\ hold'[d] \in Row /\ Queued(hold'[d]) /\ pc'[d] = "picked" /\ told' = told
          /\ ~Draining(k) /\ ~Arming(k) /\ ~Settling(k)
      BY <1>1, DrainHands DEF Pick, InHand, Told, TypeOK, Begins
    <2>2. \A f \in Drainer : Holds(f, k)' => f = e
      BY <1>1, <2>1, DrainsAfter DEF Draining, Holds
    <2>3. ASSUME told[k] # 0 PROVE Spent(k)
      <3>1. Over(k)
        BY <1>1, <2>1, <2>3 DEF Told, RowOK, Draining, InHand, TypeOK
      <3>2. QED
        BY <2>1, <3>1 DEF Over, Arming
    <2>4. \A i \in Row : Queued(i)' /\ about'[i] = k => hold'[e] = i
      BY <1>1, <2>1, DrainLeaves DEF Told, RowsAreOne, Deferred, OneDeferral
    <2>5. QED
      BY <1>1, <2>1, <2>2, <2>3, <2>4
  <1>2. CASE Holds(e, k) /\ ~(e = d /\ Pick(d) /\ k = about[hold'[d]])
    <2>1. DrainOK(e)
      BY DEF Told
    <2>2. \A f \in Drainer : Holds(f, k)' => f = e
      <3>1. SUFFICES ASSUME NEW f \in Drainer, Holds(f, k)', f # e PROVE FALSE
        OBVIOUS
      <3>2. f = d /\ Pick(d) /\ k = about[hold'[d]]
        BY <1>2, <2>1, <3>1, DrainsAfter DEF DrainOK
      <3>3. ~Draining(k)
        BY <3>2, DrainHands DEF Pick, InHand, Told, TypeOK, Begins
      <3>4. QED
        BY <1>2, <3>3 DEF Draining, Holds
    <2>3. pc'[e] \in {"cleared", "missed"} => told'[k] = 0
      <3>1. CASE e # d
        <4>1. pc'[e] = pc[e] /\ told'[k] = told[k]
          BY <1>2, <2>1, <3>1, DrainLeaves, DrainTellsOnce DEF DrainOK
        <4>2. QED
          BY <1>2, <2>1, <4>1 DEF DrainOK
      <3>2. CASE e = d
        <4>1. SUFFICES ASSUME pc'[d] \in {"cleared", "missed"} PROVE told'[k] = 0
          BY <3>2
        <4>2. (Inspect(d) /\ pc[d] = "picked" /\ (Deliverable(k) \/ k \in Push)) \/ (Send(d) /\ pc[d] = "cleared")
          BY <1>2, <3>2, <4>1 DEF DrainStep, Pick, Inspect, Send, Mark, Flip, DrainFails, Drained, TypeOK, Holds
        <4>3. told[k] = 0
          BY <1>2, <2>1, <3>2, <4>2, Subjects DEF DrainOK, Deliverable, Spent, TypeOK
        <4>4. told'[k] = told[k]
          BY <4>1, DrainTellsOnce
        <4>5. QED
          BY <4>3, <4>4
      <3>3. QED
        BY <3>1, <3>2
    <2>4. pc'[e] = "picked" => told'[k] = 0 \/ Spent(k)'
      <3>1. CASE e # d
        <4>1. pc'[e] = pc[e] /\ told'[k] = told[k]
          BY <1>2, <2>1, <3>1, DrainLeaves, DrainTellsOnce DEF DrainOK
        <4>2. QED
          BY <1>2, <2>1, <4>1 DEF DrainOK
      <3>2. CASE e = d
        BY <1>2, <3>2 DEF DrainStep, Pick, Inspect, Send, Mark, Flip, DrainFails, Drained, TypeOK, Holds, InHand, Begins
      <3>3. QED
        BY <3>1, <3>2
    <2>5. hold'[e] = hold[e]
      <3>1. CASE e # d
        BY <3>1, DrainLeaves
      <3>2. CASE e = d
        BY <1>2, <3>2, DrainHands DEF Holds, InHand, TypeOK
      <3>3. QED
        BY <3>1, <3>2
    <2>6. \A i \in Row : Queued(i)' /\ about'[i] = k => hold'[e] = i
      BY <1>2, <2>1, <2>5, DrainLeaves DEF DrainOK
    <2>7. QED
      BY <2>2, <2>3, <2>4, <2>6
  <1>3. QED
    BY <1>1, <1>2, DrainsAfter

LEMMA DrainRowsOK ==
    ASSUME Told, NEW d \in Drainer, DrainStep(d) \/ DrainFails(d), NEW i \in Row
    PROVE  RowOK(i)'
  <1>. TypeOK /\ about' = about /\ blurred \subseteq blurred' /\ \A k : Over(k) <=> Over(k)'
    BY DrainLeaves DEF Told
  <1>. SUFFICES ASSUME NEW k \in Subject \ blurred', Queued(i)', about[i] = k, told'[k] # 0, ~Over(k)
                PROVE  \E e \in Drainer : hold'[e] = i /\ pc'[e] = "told"
    BY DEF RowOK
  <1>1. Queued(i)
    BY DrainLeaves
  <1>2. CASE Send(d) /\ Holds(d, k) /\ told[k] = 0 /\ pc'[d] = "told"
    BY <1>1, <1>2 DEF Send, Told, DrainOK
  <1>3. CASE told'[k] = told[k]
    <2>1. PICK e \in Drainer : hold[e] = i /\ pc[e] = "told"
      BY <1>1, <1>3 DEF Told, RowOK
    <2>2. CASE e # d
      BY <2>1, <2>2, DrainLeaves
    <2>3. CASE e = d
      <3>1. CASE Mark(d)
        BY <1>1, <2>1, <2>3, <3>1 DEF Mark, MarkDelivered, Markable, Queued, TypeOK
      <3>2. CASE DrainFails(d)
        BY <2>1, <2>3, <3>2 DEF DrainFails, Blur
      <3>3. QED
        BY <2>1, <2>3, <3>1, <3>2 DEF DrainStep, Pick, Inspect, Send, Flip, Begins
    <2>4. QED
      BY <2>2, <2>3
  <1>4. QED
    BY <1>2, <1>3, DrainTellsOnce

LEMMA DrainTasks ==
    ASSUME Told, NEW d \in Drainer, DrainStep(d) \/ DrainFails(d), NEW t \in Task
    PROVE  TaskOK(t)'
  <1>. t \in Subject /\ t \notin Ask /\ TypeOK
    BY Subjects DEF Told
  <1>1. /\ UNCHANGED <<key, settle>> /\ blurred \subseteq blurred' /\ about' = about
        /\ Waiting(t)' => Waiting(t)
    BY DrainLeaves
  <1>2. TaskOK(t)
    BY DEF Told
  <1>3. ASSUME t \notin blurred', Settling(t) \/ t \in key
        PROVE  ~Draining(t)' /\ told'[t] = told[t]
    <2>1. ~Draining(t) /\ ~Waiting(t)
      BY <1>1, <1>2, <1>3 DEF TaskOK
    <2>2. told'[t] = told[t]
      BY <1>1, <1>3, <2>1, DrainTellsOnce DEF Draining, Holds
    <2>3. SUFFICES ASSUME NEW e \in Drainer, Holds(e, t)' PROVE FALSE
      BY <2>2 DEF Draining, Holds
    <2>4. e = d /\ Pick(d) /\ t = about[hold'[d]]
      BY <2>1, <2>3, DrainsAfter DEF Draining, Holds
    <2>5. hold'[d] \in Row /\ Queued(hold'[d])
      BY <2>4, DrainHands DEF Pick, InHand, Told, TypeOK, Begins
    <2>6. QED
      BY <2>1, <2>4, <2>5 DEF Waiting
  <1>4. ASSUME t \notin blurred', told'[t] # 0, notice'[t] = "pending", t \notin key,
               \A s \in Settler : settle[t][s] # "told"
        PROVE  Draining(t)'
    <2>1. notice[t] = "pending"
      BY <1>4 DEF DrainStep, Pick, Inspect, Send, Mark, Flip, DrainFails, tasks, TypeOK
    <2>2. Draining(t)
      BY <1>1, <1>2, <1>4, <2>1, DrainTellsOnce DEF TaskOK, Draining, Holds
    <2>3. PICK e \in Drainer : Holds(e, t)
      BY <2>2 DEF Draining, Holds
    <2>4. CASE e # d
      BY <1>1, <2>3, <2>4, DrainLeaves DEF Draining, Holds, InHand
    <2>5. CASE e = d
      <3>1. DrainOK(d) /\ ~Spent(t)
        BY DEF Told, Spent
      <3>2. told[t] # 0 \/ Send(d)
        BY <1>4, DrainTellsOnce
      <3>3. hold' = hold
        <4>1. CASE Inspect(d)
          BY <1>1, <1>4, <2>3, <2>5, <3>1, <3>2, <4>1 DEF DrainOK, Inspect, Send
        <4>2. CASE Send(d)
          BY <4>2 DEF Send
        <4>3. CASE Mark(d)
          BY <2>3, <2>5, <4>3 DEF Mark, Holds
        <4>4. CASE Flip(d)
          BY <1>4, <2>3, <2>5, <4>4 DEF Flip, Holds, TypeOK
        <4>5. CASE DrainFails(d)
          BY <1>1, <1>4, <2>3, <2>5, <3>1, <3>2, <4>5 DEF DrainOK, DrainFails, Blur, Holds, Send, TypeOK, InHand
        <4>6. CASE Pick(d)
          BY <2>3, <2>5, <4>6 DEF Pick, Begins, Holds, InHand, TypeOK
        <4>7. QED
          BY <4>1, <4>2, <4>3, <4>4, <4>5, <4>6 DEF DrainStep
      <3>4. QED
        BY <1>1, <2>3, <3>3 DEF Draining, Holds, InHand
    <2>6. QED
      BY <2>4, <2>5
  <1>5. QED
    BY <1>1, <1>2, <1>3, <1>4 DEF TaskOK, Settling, Hot

LEMMA DrainTold ==
    ASSUME Told, NEW d \in Drainer, DrainStep(d) \/ DrainFails(d)
    PROVE  Told'
  <1>. TypeOK /\ [Next]_vars
    BY DEF Told, Next
  <1>1. RowsAreOne'
    <2>1. RowsShrink /\ UNCHANGED <<arm, word>>
      BY DrainRows, DrainLeaves
    <2>2. \A p \in Push : Silent(p) => told'[p] = told[p]
      <3>. SUFFICES ASSUME NEW p \in Push, Silent(p) PROVE told'[p] = told[p]
        OBVIOUS
      <3>1. InHand(d) => about[hold[d]] # p
        BY HeldRow DEF Told, RowsAreOne
      <3>2. Send(d) => InHand(d)
        BY DEF Send, InHand, TypeOK
      <3>3. CASE Send(d) /\ Words(about[hold[d]])
        BY <3>1, <3>2, <3>3, Subjects DEF Words, TypeOK
      <3>4. QED
        BY <3>3, DrainTellsInSend
    <2>3. QED
      BY <2>1, <2>2, RowsStayOne, NewRow, Subjects DEF Told, Silent, ArmEnqueues, PushEnqueues, RowsShrink, Enqueue, TypeOK
  <1>2. QED
    BY <1>1, DrainTypes, DeferredStep, DrainTellsOnce, DrainAsks, DrainTasks, DrainDrains, DrainRowsOK DEF Told

\* However arms, settles and drains interleave, crash and are replayed, the owner hears the same
\* ask, outcome or question twice only around an overlap or a death the code cannot see
\* (owner_comms_drainer.py:55-104, task_outcome.py:480-523).
THEOREM NobodyToldTwice == Spec => []ToldOnce
  <1>1. Told /\ [Next]_vars => Told'
    <2>1. CASE UNCHANGED vars
      BY <2>1 DEF vars, queue, asks, tasks, onboarding, drains, Told, TypeOK, RowsAreOne, ToldOnce,
             AskOK, TaskOK, DrainOK, RowOK, Spent, Over, Holds, InHand, Draining, Waiting, Queued,
             Deferred, OneDeferral, Hot, Settling, Silent
    <2>2. QED
      BY <2>1, ArmTold, NotifyTold, PushTold, DrainTold, WorldTold DEF Next
  <1>2. QED
    BY <1>1, InitTold, PTL DEF Spec, Told

===============================================================================
