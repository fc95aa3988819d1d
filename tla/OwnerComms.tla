------------------------------ MODULE OwnerComms ------------------------------
(* What one tenant's owner is told outside an answer: asks for approval, the      *)
(* outcomes of tasks, the next question of the onboarding journey. They wait in   *)
(* owner_comms_queue for an open 24-hour session, and three kinds of process      *)
(* tell them: the one that has the news, the hook after an owner's turn, and the  *)
(* ten-minute sweep.                                                              *)
(*                                                                                *)
(* Nothing locks a queue row between the read that picks it and the update that   *)
(* marks it: an action is one statement, or reads no write can make disagree.     *)
EXTENDS Naturals, FiniteSets

CONSTANTS
    Ask,         \* approvals to be armed
    Task,        \* manager tasks that end
    Push,        \* runs of discovery that have something for the journey
    Turn,        \* turns of the owner, each with its hook
    Settler,     \* who settles a task: the end of its workflow, the reaper that gives it up
    Tail,        \* the first of them
    Sweep, Nobody,
    MaxNews,     \* bound: asks, settlers and pushes that have news
    MaxRows,     \* bound: rows of the queue
    MaxFaults    \* bound: processes that die and calls that fail

Subject == Ask \cup Push \cup Task
Drainer == Turn \cup {Sweep}
Row == 1 .. MaxRows          \* in the order of queued_at

ASSUME CommsConstants ==
    /\ MaxNews \in Nat /\ MaxRows \in Nat /\ MaxFaults \in Nat
    /\ Ask \cap (Push \cup Task) = {} /\ Push \cap Task = {}
    /\ Sweep \notin Turn /\ Nobody \notin Subject

VARIABLES
    \* owner_comms_queue
    size, about,
    status,     \* old: queued longer than MAX_QUEUE_AGE
    \* pending_approvals
    approval,   \* none, open, closed
    clock,      \* timeout_at: none (NULL), running, due
    arm, item,  \* arm_pause_request: its place and its queue row
    \* manager_tasks
    notice,     \* owner_notification_status
    key,        \* send_idempotency_keys
    settle,     \* maybe_notify_owner_of_task_outcome: its place, per settler
    \* onboarding_journey
    journey,
    word,       \* a push is composing, closing or nothing, or says a question, one the owner has
                \* answered or the recap
    \* drain_one
    pc, hold,
    \* the world
    session,
    told,       \* times the owner got the words, counted to two
    blurred,    \* news that two processes had in hand at once, or one told and died
    met,        \* tasks both settlers had in hand at once
    faults

queue == <<size, about, status>>
asks == <<approval, clock, arm, item>>
tasks == <<notice, key, settle>>
onboarding == <<journey, word>>
drains == <<pc, hold>>
vars == <<queue, asks, tasks, onboarding, drains, session, told, blurred, met, faults>>

Init ==
    /\ size = 0
    /\ status = [i \in Row |-> "none"] /\ about = [i \in Row |-> Nobody]
    /\ approval = [a \in Ask |-> "none"] /\ clock = [a \in Ask |-> "none"]
    /\ arm = [a \in Ask |-> "none"] /\ item = [a \in Ask |-> 0]
    /\ notice = [t \in Task |-> "pending"] /\ key = {}
    /\ settle = [t \in Task |-> [s \in Settler |-> "none"]]
    /\ journey = "active" /\ word = [p \in Push |-> "none"]
    /\ pc = [d \in Drainer |-> "none"] /\ hold = [d \in Drainer |-> 0]
    /\ session = FALSE
    /\ told = [k \in Subject |-> 0] /\ blurred = {} /\ met = {} /\ faults = 0

-------------------------------------------------------------------------------
(* The queue.                                                                    *)

Queued(i) == i \in Row /\ status[i] \in {"queued", "old"}
Waiting(k) == \E i \in Row : Queued(i) /\ about[i] = k

Slot == size + 1

Enqueue(k) ==
    /\ size < MaxRows
    /\ size' = size + 1
    /\ status' = [status EXCEPT ![Slot] = "queued"]
    /\ about' = [about EXCEPT ![Slot] = k]

\* A send that fails once costs one fault.
Fault == faults < MaxFaults /\ faults' = faults + 1

\* drop_item and mark_delivered flip a row that is still queued.
Droppable(i) == Queued(i)
Markable_Approvals(i) == Queued(i) /\ about[i] \in Ask            \* a mutant
Markable(i) == Queued(i)

DropItem(i) == status' = IF Droppable(i) THEN [status EXCEPT ![i] = "dropped"] ELSE status
MarkDelivered(i) == status' = IF Markable(i) THEN [status EXCEPT ![i] = "delivered"] ELSE status

\* 100, 60 and 50.
Rank(k) == IF k \in Ask THEN 3 ELSE IF k \in Push THEN 2 ELSE 1

NextDeliverable(i) ==
    /\ Queued(i)
    /\ \A j \in Row : Queued(j) /\ j # i =>
        \/ Rank(about[j]) < Rank(about[i])
        \/ Rank(about[j]) = Rank(about[i]) /\ i < j

\* Who has k in hand: a drain until its row is settled, the arm until the clock runs.
InHand(d) == hold[d] # 0
Draining(k) == \E d \in Drainer : InHand(d) /\ about[hold[d]] = k
Arming(k) == k \in Ask /\ arm[k] \in {"queued", "told"}
Hot(t, s) == settle[t][s] \in {"sending", "told", "closed", "deferring"}
Settling(k) == k \in Task /\ \E s \in Settler : Hot(k, s)

\* Who has had news: an ask, a push, a settler of a task.
News ==
    {a \in Ask : arm[a] # "none"} \cup {p \in Push : word[p] # "none"}
        \cup {k \in Task \X Settler : settle[k[1]][k[2]] # "none"}
Room(k) == Cardinality(News \cup {k}) =< MaxNews

Blur(k, cond) == blurred' = IF cond THEN blurred \cup {k} ELSE blurred

Words(k) == told' = [told EXCEPT ![k] = IF @ < 2 THEN @ + 1 ELSE @]

-------------------------------------------------------------------------------
(* arm_pause_request: one open approval per tenant, its queue row, then the ask. *)

Arm(a, l) == arm' = [arm EXCEPT ![a] = l] /\ item' = item
ArmEnds(a) == arm' = [arm EXCEPT ![a] = "done"] /\ item' = [item EXCEPT ![a] = 0]

ArmInserts(a) ==
    /\ arm[a] = "none" /\ Room(a) /\ \A b \in Ask : approval[b] # "open"
    /\ approval' = [approval EXCEPT ![a] = "open"]
    /\ Arm(a, "inserted")
    /\ UNCHANGED <<queue, clock, tasks, onboarding, drains, session, told, blurred, met, faults>>

\* The row is bookkeeping: the arm goes on without one.
ArmQueues(a) ==
    /\ arm[a] = "inserted"
    /\ arm' = [arm EXCEPT ![a] = "queued"]
    /\ \/ Enqueue(a) /\ item' = [item EXCEPT ![a] = Slot] /\ faults' = faults
       \/ Fault /\ UNCHANGED <<queue, item>>
    /\ UNCHANGED <<approval, clock, tasks, onboarding, drains, session, told, blurred, met>>

\* Buttons in the session or Meta's template outside it.
ArmTells(a) ==
    /\ arm[a] = "queued"
    /\ Words(a)
    /\ Arm(a, "told")
    /\ UNCHANGED <<queue, approval, clock, tasks, onboarding, drains, session, blurred, met, faults>>

\* _rollback_arm deletes the approval and drops the row; what refused the ask may stop either.
ArmRefused(a) ==
    /\ arm[a] = "queued" /\ Fault
    /\ \/ approval' = [approval EXCEPT ![a] = "closed"] /\ (DropItem(item[a]) \/ status' = status)
       \/ approval' = approval /\ DropItem(item[a])
    /\ ArmEnds(a)
    /\ UNCHANGED <<size, about, clock, tasks, onboarding, drains, session, told, blurred, met>>

ArmStartsClock(a) ==
    /\ arm[a] = "told"
    /\ clock' = IF approval[a] = "open" /\ clock[a] = "none" THEN [clock EXCEPT ![a] = "running"] ELSE clock
    /\ Arm(a, "clocked")
    /\ UNCHANGED <<queue, approval, tasks, onboarding, drains, session, told, blurred, met, faults>>

\* The arm goes on: nothing says now that the owner has been asked.
ArmClockFails(a) ==
    /\ arm[a] = "told" /\ Fault
    /\ Arm(a, "clocked")
    /\ Blur(a, TRUE)
    /\ UNCHANGED <<queue, approval, clock, tasks, onboarding, drains, session, told, met>>

ArmMarks(a) ==
    /\ arm[a] = "clocked"
    /\ MarkDelivered(item[a])
    /\ ArmEnds(a)
    /\ UNCHANGED <<size, about, approval, clock, tasks, onboarding, drains, session, told, blurred, met, faults>>

\* The process dies; its replay finds an open approval and does not ask again.
ArmDies(a) ==
    /\ arm[a] \in {"inserted", "queued", "told", "clocked"} /\ Fault
    /\ ArmEnds(a)
    /\ Blur(a, arm[a] = "told")
    /\ UNCHANGED <<queue, approval, clock, tasks, onboarding, drains, session, told, met>>

ArmStep(a) ==
    \/ ArmInserts(a) \/ ArmQueues(a) \/ ArmTells(a) \/ ArmRefused(a)
    \/ ArmStartsClock(a) \/ ArmClockFails(a) \/ ArmMarks(a) \/ ArmDies(a)

\* The approval is decided, by a message of the owner's or by the timeout sweep.
Decide(a) ==
    /\ approval[a] = "open"
    /\ approval' = [approval EXCEPT ![a] = "closed"]
    /\ UNCHANGED <<queue, clock, arm, item, tasks, onboarding, drains, session, told, blurred, met, faults>>

-------------------------------------------------------------------------------
(* maybe_notify_owner_of_task_outcome. The workflow replays its step until it     *)
(* returns; the reaper does not find the task again.                             *)

Settle(t, s, l) == settle' = [settle EXCEPT ![t][s] = l]

Notify(t, s) ==
    /\ settle[t][s] = "none" \/ (s = Tail /\ settle[t][s] = "died")
    /\ notice[t] = "pending" /\ Room(<<t, s>>)
    /\ IF t \in key
       THEN /\ notice' = [notice EXCEPT ![t] = "delivered"]
            /\ Settle(t, s, "done") /\ UNCHANGED <<blurred, met>>
       ELSE /\ Settle(t, s, "sending") /\ notice' = notice
            /\ Blur(t, Draining(t) \/ Waiting(t) \/ Settling(t))
            /\ met' = IF Settling(t) THEN met \cup {t} ELSE met
    /\ UNCHANGED <<queue, asks, key, onboarding, drains, session, told, faults>>

\* Freeform: outside the session Twilio answers 63016.
NotifySends(t, s) ==
    /\ settle[t][s] = "sending"
    /\ \/ session /\ Words(t) /\ Settle(t, s, "told") /\ UNCHANGED <<notice, faults>>
       \/ ~session /\ Settle(t, s, "closed") /\ UNCHANGED <<notice, told, faults>>
       \/ /\ Fault /\ notice' = [notice EXCEPT ![t] = IF @ = "pending" THEN "failed" ELSE @]
          /\ Settle(t, s, "done") /\ told' = told
    /\ UNCHANGED <<queue, asks, key, onboarding, drains, session, blurred, met>>

\* Only a row that is still queued counts as a deferral.
Undeferred_Always(t) == TRUE                                      \* a mutant
Undeferred(t) == ~Waiting(t)

NotifyDefers(t, s) ==
    /\ settle[t][s] = "closed"
    /\ \/ Settle(t, s, IF Undeferred(t) THEN "deferring" ELSE "deferred") /\ faults' = faults
       \/ Settle(t, s, "deferred") /\ Fault
    /\ UNCHANGED <<queue, asks, notice, key, onboarding, drains, session, told, blurred, met>>

NotifyQueues(t, s) ==
    /\ settle[t][s] = "deferring"
    /\ \/ Enqueue(t) /\ faults' = faults
       \/ Fault /\ UNCHANGED queue
    /\ Settle(t, s, "deferred")
    /\ UNCHANGED <<asks, notice, key, onboarding, drains, session, told, blurred, met>>

NotifyRecords(t, s) ==
    /\ settle[t][s] = "told"
    /\ \/ key' = key \cup {t} /\ UNCHANGED <<blurred, faults>>
       \/ Fault /\ key' = key /\ Blur(t, TRUE)
    /\ Settle(t, s, "recorded")
    /\ UNCHANGED <<queue, asks, notice, onboarding, drains, session, told, met>>

NotifyReturns(t, s) ==
    /\ settle[t][s] \in {"deferred", "recorded"}
    /\ notice' = IF settle[t][s] = "recorded" /\ notice[t] = "pending"
                 THEN [notice EXCEPT ![t] = "delivered"] ELSE notice
    /\ Settle(t, s, "done")
    /\ UNCHANGED <<queue, asks, key, onboarding, drains, session, told, blurred, met, faults>>

NotifyDies(t, s) ==
    /\ Hot(t, s) \/ settle[t][s] \in {"deferred", "recorded"}
    /\ Fault
    /\ Settle(t, s, "died")
    /\ Blur(t, settle[t][s] = "told")
    /\ UNCHANGED <<queue, asks, notice, key, onboarding, drains, session, told, met>>

NotifyStep(t, s) ==
    \/ Notify(t, s) \/ NotifySends(t, s) \/ NotifyDefers(t, s) \/ NotifyQueues(t, s)
    \/ NotifyRecords(t, s) \/ NotifyReturns(t, s) \/ NotifyDies(t, s)

-------------------------------------------------------------------------------
(* push_next_question_after_discovery. A replayed run of discovery is another    *)
(* run.                                                                          *)

Moves(p, from, to) == word[p] = from /\ word' = [word EXCEPT ![p] = to]

\* At most one queued push, as far as one read can tell.
PushChecks(p) ==
    /\ journey = "active" /\ Room(p) /\ \A q \in Push : ~Waiting(q)
    /\ Moves(p, "none", "composing")
    /\ UNCHANGED <<queue, asks, tasks, journey, drains, session, told, blurred, met, faults>>

\* The owner may have answered since the question was composed.
PushQuestion(p) ==
    /\ \E w \in {"question", "answered"} : Moves(p, "composing", w)
    /\ Enqueue(p)
    /\ UNCHANGED <<asks, tasks, journey, drains, session, told, blurred, met, faults>>

PushCompletes(p) ==
    /\ Moves(p, "composing", "closing")
    /\ journey' = "complete"
    /\ UNCHANGED <<queue, asks, tasks, drains, session, told, blurred, met, faults>>

PushRecap(p) ==
    /\ Moves(p, "closing", "recap")
    /\ Enqueue(p)
    /\ UNCHANGED <<asks, tasks, journey, drains, session, told, blurred, met, faults>>

\* There is nothing to ask, a statement raises or the process dies.
PushEnds(p) ==
    /\ \/ Moves(p, "composing", "nothing") /\ faults' = faults
       \/ Moves(p, "closing", "nothing") /\ Fault
    /\ UNCHANGED <<queue, asks, tasks, journey, drains, session, told, blurred, met>>

\* The owner's turn answers a question that waits.
Answer(p) ==
    /\ journey = "active" /\ Waiting(p)
    /\ Moves(p, "question", "answered")
    /\ UNCHANGED <<queue, asks, tasks, journey, drains, session, told, blurred, met, faults>>

PushStep(p) ==
    \/ PushChecks(p) \/ PushQuestion(p) \/ PushCompletes(p) \/ PushRecap(p)
    \/ PushEnds(p) \/ Answer(p)

-------------------------------------------------------------------------------
(* drain_one.                                                                    *)

\* The hook runs once per turn, the sweep again and again.
Begins(d) == pc[d] = IF d = Sweep THEN "none" ELSE "turned"

Drained(d) ==
    /\ pc' = [pc EXCEPT ![d] = IF d = Sweep THEN "none" ELSE "done"]
    /\ hold' = [hold EXCEPT ![d] = 0]

Pick(d) ==
    /\ Begins(d) /\ session
    /\ \E i \in Row :
        /\ NextDeliverable(i)
        /\ hold' = [hold EXCEPT ![d] = i]
        /\ Blur(about[i], Draining(about[i]) \/ Arming(about[i]) \/ Settling(about[i]))
    /\ pc' = [pc EXCEPT ![d] = "picked"]
    /\ UNCHANGED <<queue, asks, tasks, onboarding, session, told, met, faults>>

\* An ask must be open and its clock not running, a push the journey's next word.
Deliverable(k) ==
    /\ k \in Ask => approval[k] = "open" /\ clock[k] = "none"
    /\ k \in Push => journey = "active" /\ word[k] # "answered"

Inspect(d) ==
    /\ pc[d] = "picked"
    /\ \/ /\ Deliverable(about[hold[d]])
          /\ pc' = [pc EXCEPT ![d] = "cleared"] /\ UNCHANGED <<status, hold, faults>>
       \/ /\ ~Deliverable(about[hold[d]])
          /\ DropItem(hold[d]) /\ Drained(d) /\ faults' = faults
       \/ /\ about[hold[d]] \in Push /\ Fault       \* the check fails open
          /\ pc' = [pc EXCEPT ![d] = "cleared"] /\ UNCHANGED <<status, hold>>
    /\ UNCHANGED <<size, about, asks, tasks, onboarding, session, told, blurred, met>>

\* The words go out while the session lasts. Otherwise the belt is Meta's template, which has not
\* got them; its result is not looked at either.
Send(d) ==
    /\ pc[d] = "cleared"
    /\ \/ /\ session /\ Words(about[hold[d]])
          /\ pc' = [pc EXCEPT ![d] = "told"] /\ faults' = faults
       \/ /\ ~session /\ pc' = [pc EXCEPT ![d] = "missed"] /\ UNCHANGED <<told, faults>>
       \/ /\ Fault /\ pc' = [pc EXCEPT ![d] = "missed"] /\ told' = told
    /\ UNCHANGED <<queue, asks, tasks, onboarding, hold, session, blurred, met>>

\* A task's own status follows in a transaction of its own.
Mark(d) ==
    /\ pc[d] \in {"told", "missed"}
    /\ MarkDelivered(hold[d])
    /\ IF about[hold[d]] \in Task
       THEN pc' = [pc EXCEPT ![d] = "marked"] /\ hold' = hold
       ELSE Drained(d)
    /\ UNCHANGED <<size, about, asks, tasks, onboarding, session, told, blurred, met, faults>>

Flip(d) ==
    /\ pc[d] = "marked"
    /\ LET t == about[hold[d]]
       IN  notice' = IF notice[t] = "pending" THEN [notice EXCEPT ![t] = "delivered"] ELSE notice
    /\ Drained(d)
    /\ UNCHANGED <<queue, asks, key, settle, onboarding, session, told, blurred, met, faults>>

\* A call raises and ends the drain, or the process dies and the turn's step runs again.
DrainFails(d) ==
    /\ InHand(d) /\ Fault
    /\ \E l \in IF d = Sweep THEN {"none"} ELSE {"turned", "done"} : pc' = [pc EXCEPT ![d] = l]
    /\ hold' = [hold EXCEPT ![d] = 0]
    /\ Blur(about[hold[d]], pc[d] \in {"told", "marked"})
    /\ UNCHANGED <<queue, asks, tasks, onboarding, session, told, met>>

DrainStep(d) == Pick(d) \/ Inspect(d) \/ Send(d) \/ Mark(d) \/ Flip(d)

-------------------------------------------------------------------------------
(* The rest of the sweep.                                                        *)

Stale_Never(i) == FALSE                                           \* a mutant
Stale(i) == status[i] = "old"

DropStale ==
    /\ pc[Sweep] = "none" /\ \E i \in Row : Stale(i)
    /\ status' = [i \in Row |-> IF Stale(i) THEN "dropped" ELSE status[i]]
    /\ UNCHANGED <<size, about, asks, tasks, onboarding, drains, session, told, blurred, met, faults>>

\* An approval a day old whose clock does not run is taken for a dead arm's, and is due at once.
Belt(a) ==
    /\ pc[Sweep] = "none" /\ arm[a] = "done" /\ approval[a] = "open" /\ clock[a] = "none"
    /\ clock' = [clock EXCEPT ![a] = "due"]
    /\ UNCHANGED <<queue, approval, arm, item, tasks, onboarding, drains, session, told, blurred, met, faults>>

-------------------------------------------------------------------------------
(* The world.                                                                    *)

TurnArrives(m) ==
    /\ pc[m] = "none"
    /\ pc' = [pc EXCEPT ![m] = "turned"]
    /\ session' = TRUE
    /\ UNCHANGED <<queue, asks, tasks, onboarding, hold, told, blurred, met, faults>>

SessionCloses ==
    /\ session /\ session' = FALSE
    /\ UNCHANGED <<queue, asks, tasks, onboarding, drains, told, blurred, met, faults>>

\* Arms, settles, pushes and drains last seconds, a week is longer.
Quiet ==
    /\ \A d \in Drainer : ~InHand(d) /\ pc[d] # "turned"
    /\ \A a \in Ask : arm[a] \in {"none", "done"}
    /\ \A t \in Task, s \in Settler : settle[t][s] \in {"none", "died", "done"}
    /\ \A p \in Push : word[p] \notin {"composing", "closing"}

Ages(i) ==
    /\ status[i] = "queued" /\ Quiet
    /\ \A j \in Row : j < i => status[j] # "queued"
    /\ status' = [status EXCEPT ![i] = "old"]
    /\ UNCHANGED <<size, about, asks, tasks, onboarding, drains, session, told, blurred, met, faults>>

Next ==
    \/ \E a \in Ask : ArmStep(a) \/ Decide(a) \/ Belt(a)
    \/ \E t \in Task, s \in Settler : NotifyStep(t, s)
    \/ \E p \in Push : PushStep(p)
    \/ \E d \in Drainer : DrainStep(d) \/ DrainFails(d)
    \/ DropStale
    \/ \E m \in Turn : TurnArrives(m)
    \/ SessionCloses
    \/ \E i \in Row : Ages(i)

Spec == Init /\ [][Next]_vars

Fairness == WF_vars(DrainStep(Sweep) \/ DropStale)

FairSpec == Spec /\ Fairness

-------------------------------------------------------------------------------
(* Properties.                                                                   *)

\* Rows, statuses and the places of every process have their types.
TypeOK ==
    /\ size \in 0 .. MaxRows
    /\ status \in [Row -> {"none", "queued", "old", "delivered", "dropped"}]
    /\ about \in [Row -> Subject \cup {Nobody}]
    /\ \A i \in Row : (i =< size <=> status[i] # "none") /\ (i =< size <=> about[i] # Nobody)
    /\ approval \in [Ask -> {"none", "open", "closed"}]
    /\ clock \in [Ask -> {"none", "running", "due"}]
    /\ arm \in [Ask -> {"none", "inserted", "queued", "told", "clocked", "done"}]
    /\ item \in [Ask -> 0 .. MaxRows]
    /\ notice \in [Task -> {"pending", "delivered", "failed"}] /\ key \subseteq Task
    /\ settle \in [Task -> [Settler ->
        {"none", "died", "sending", "told", "closed", "deferring", "deferred", "recorded", "done"}]]
    /\ journey \in {"active", "complete"}
    /\ word \in [Push -> {"none", "composing", "closing", "nothing", "question", "answered", "recap"}]
    /\ pc \in [Drainer -> {"none", "turned", "picked", "cleared", "told", "missed", "marked", "done"}]
    /\ hold \in [Drainer -> 0 .. MaxRows]
    /\ \A d \in Drainer :
        /\ hold[d] =< size
        /\ pc[d] \in {"picked", "cleared", "told", "missed", "marked"} <=> hold[d] # 0
    /\ session \in BOOLEAN /\ told \in [Subject -> 0 .. 2]
    /\ blurred \subseteq Subject /\ met \subseteq Task /\ faults \in 0 .. MaxFaults

\* The owner hears the same ask, outcome or question twice only if two processes had it in hand
\* at once, or one of them told it and died before it could say so.
ToldOnce == \A k \in Subject \ blurred : told[k] =< 1

\* However often a settle dies and is replayed, and whatever is drained, dropped or aged meanwhile,
\* at most one row promises a task's outcome, unless both settlers had it in hand at once.
OneDeferral == \A i, j \in Row :
    Queued(i) /\ Queued(j) /\ about[i] = about[j] /\ about[i] \in Task \ met => i = j

\* The ledger of what was delivered is final, whoever else had the row in hand.
LedgerIsFinal == [][\A i \in Row : status[i] \in {"delivered", "dropped"} => status'[i] = status[i]]_vars

\* Again and again every row is settled, or is young and waits for the owner to come back: the
\* queue runs empty in an open session, and what waited too long leaves it without one.
EveryItemEnds == []<>(\A i \in Row : Queued(i) => status[i] = "queued" /\ ~session)

-------------------------------------------------------------------------------
(* What the repository says and the code does not do.                            *)

\* "complete the journey and enqueue the honest recap" (onboarding/whatsapp_journey.py:486):
\* it is not dropped before its age.
RecapReaches == [][\A i \in Row :
    about[i] \in Push /\ word[about[i]] = "recap" /\ status'[i] = "dropped" => status[i] \in {"old", "dropped"}]_vars

\* "at most one queued journey-push item per tenant" (onboarding/whatsapp_journey.py:489).
OneQueuedPush == \A i, j \in Row :
    Queued(i) /\ Queued(j) /\ about[i] \in Push /\ about[j] \in Push => i = j

\* "an APPROVAL's decision timeout clock starts at DELIVERY" (owner_comms_queue.py:7): an ask that
\* was drained does not become due without a window.
DueAfterWindow == [][\A a \in Ask : clock[a] = "none" /\ clock'[a] = "due" => told[a] = 0]_vars

\* "so the settle ledger stays truthful" (owner_comms_drainer.py:165).
DeliveredIsTold == \A t \in Task : notice[t] = "delivered" => told[t] > 0

\* "re-sending would be a duplicate ask" (owner_comms_drainer.py:72).
AskedOnce == \A a \in Ask : told[a] =< 1

===============================================================================
