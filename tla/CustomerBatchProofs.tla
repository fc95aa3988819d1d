-------------------------- MODULE CustomerBatchProofs --------------------------
(* Theorems about CustomerBatch, for every set of batches and every size.       *)
EXTENDS CustomerBatch, TLAPS

-------------------------------------------------------------------------------
(* The inductive invariant, in three layers.                                    *)

TodoTypes ==
    \A w \in Driver : todo[w] \subseteq DraftsOf(w[1]) /\ cur[w] \in DraftsOf(w[1]) \cup {Nobody}
Inv1 == TypeOK /\ TodoTypes

\* The two drivers of a batch, its lock and its status.
ApprovedDrives ==
    \A b \in Batch :
        /\ pc[<<b, "L2">>] # "idle" => bst[b] \in {"approved", "sending", "sent", "closed"}
        /\ pc[<<b, "L2">>] \notin {"poll", "demote", "lock"}
HeldWhileLocked == \A b \in Batch : lock[b] = <<b, "L3">> => bst[b] = "hold"
ArmedFirst ==
    \A b \in Batch : /\ arm[b] # "done" => pc[<<b, "L3">>] = "idle"
                     /\ bst[b] = "none" => arm[b] = "idle"
DueInside ==
    \A b \in Batch :
        bst[b] = "hold" /\ pc[<<b, "L3">>] \notin {"idle", "poll", "demote", "done", "failed"}
            => anchor[b] = "due"
AfterStop ==
    \A b \in Batch :
        after[b] > 0 => /\ after[b] = 1 /\ bst[b] = "closed"
                        /\ pc[<<b, "L2">>] \notin {"idle", "send", "call"}
WholeReport == \A d \in Draft : bst[d[1]] = "sent" => dst[d] # "drafted"

Inv2 == ApprovedDrives /\ DueInside /\ AfterStop /\ WholeReport

\* The ledger and the message in hand.
Unlogged == \A d \in Draft : ledger[d] \in {"none", "error"} => delivered[d] = 0 \/ d \in blurred
Logged == \A d \in Draft : ledger[d] = "sent" => delivered[d] > 0
InCall ==
    \A w \in Driver :
        /\ pc[w] \in {"call", "taken"} => ledger[cur[w]] = "sending"
        /\ pc[w] = "call" => delivered[cur[w]] = 0 \/ cur[w] \in blurred
        /\ pc[w] = "taken" => delivered[cur[w]] > 0
        /\ pc[w] = "mark" => delivered[cur[w]] > 0 \/ ledger[cur[w]] = "sending"
UnsentInHand ==
    \A w \in Driver :
        pc[w] \in {"send", "call"} \/ (pc[w] = "lock" /\ bst[w[1]] = "hold")
            => dst[cur[w]] # "sent"

Inv3 == Unlogged /\ Logged /\ InCall /\ UnsentInHand /\ SentIsTrue


-------------------------------------------------------------------------------
(* Facts about the constants.                                                   *)

\* A driver is the L2 or the L3 workflow of its batch, and a draft has a batch.
LEMMA Drivers ==
    /\ \A b \in Batch : /\ <<b, "L2">> \in Driver /\ <<b, "L3">> \in Driver
                        /\ <<b, "L2">>[1] = b /\ <<b, "L3">>[1] = b
                        /\ <<b, "L2">>[2] = "L2" /\ <<b, "L3">>[2] = "L3"
    /\ \A w \in Driver : /\ w[1] \in Batch
                         /\ \/ w[2] = "L2" /\ w = <<w[1], "L2">>
                            \/ w[2] = "L3" /\ w = <<w[1], "L3">>
                         /\ w # Nobody /\ w # Stopper
    /\ \A b, c \in Batch : /\ <<b, "L2">> # <<c, "L3">>
                           /\ <<b, "L3">> = <<c, "L3">> => b = c
                           /\ <<b, "L2">> = <<c, "L2">> => b = c
    /\ \A d \in Draft : d[1] \in Batch /\ d \in DraftsOf(d[1])
    /\ \A b \in Batch : DraftsOf(b) = {d \in Draft : d[1] = b} /\ Drafted(b) \subseteq DraftsOf(b)
    /\ Nobody \notin Draft /\ Nobody # Stopper
    /\ MaxCrashes \in Nat
BY BatchConstants, SMT DEF Driver, Draft, DraftsOf, Drafted

-------------------------------------------------------------------------------
(* Inv1: one lemma per group of actions.                                        *)

LEMMA InitInv1 == Init => Inv1
<1> SUFFICES ASSUME Init PROVE Inv1 OBVIOUS
<1> USE Drivers DEF Init
<1>1. RowTypes BY DEF RowTypes, BatchStatus
<1>2. ProcessTypes BY DEF ProcessTypes, ArmPc, DriverPc, InHand, InTransaction
<1>3. HistoryTypes BY DEF HistoryTypes
<1>4. TodoTypes BY DEF TodoTypes
<1> QED BY <1>1, <1>2, <1>3, <1>4 DEF Inv1, TypeOK

\* Closing batches keeps the types of batches and drafts.
LEMMA CloseTypes ==
    ASSUME RowTypes, NEW S, Close(S)
    PROVE  /\ bst' \in [Batch -> BatchStatus]
           /\ dst' \in [Draft -> {"none", "drafted", "sent", "skipped", "halted"}]
BY Drivers DEF RowTypes, Close, Halted, BatchStatus

\* An executor, the owner, an operator and the notice touch neither drivers nor locks.
Outside(b) ==
    \/ Persist(b) \/ ExecutorDies(b) \/ Anchor(b) \/ WindowPasses(b) \/ GracePasses(b)
    \/ Inbound(b) \/ Approve(b) \/ Reject(b) \/ Edit(b) \/ CancelBatch(b) \/ Grant
    \/ Eligible(b) \/ Notify(b) \/ Flip(b) \/ AskArmed(b) \/ AskRefused(b)

LEMMA OutsideInv1 ==
    ASSUME Inv1, NEW b \in Batch, Outside(b)
    PROVE  Inv1'
<1> USE Drivers DEF Inv1, TypeOK
<1>1. UNCHANGED <<drivers, lock, stop, past, ledger>>
  BY DEF Outside, Persist, ExecutorDies, Anchor, WindowPasses, GracePasses, Inbound, Approve,
         Reject, Edit, CancelBatch, Grant, Eligible, Notify, Flip, AskArmed, AskRefused
<1>2. /\ bst' \in [Batch -> BatchStatus]
      /\ dst' \in [Draft -> {"none", "drafted", "sent", "skipped", "halted"}]
      /\ anchor' \in [Batch -> {"none", "sent", "late", "delivered", "due"}]
      /\ trusted' \in BOOLEAN
  <2>1. CASE Persist(b) BY <2>1 DEF Persist, RowTypes, BatchStatus
  <2>2. CASE Flip(b) BY <2>2 DEF Flip, RowTypes, BatchStatus
  <2>3. CASE AskRefused(b) BY <2>3 DEF AskRefused, RowTypes, BatchStatus
  <2>4. CASE Inbound(b) BY <2>4 DEF Inbound, Demoted, RowTypes, BatchStatus
  <2>5. CASE Approve(b) BY <2>5 DEF Approve, RowTypes, BatchStatus
  <2>6. CASE Reject(b) BY <2>6, CloseTypes DEF Reject, RowTypes
  <2>7. CASE Edit(b)
    <3>1. PICK S : /\ bst' = [c \in Batch |-> IF c = b THEN "edit"
                                               ELSE IF c \in S THEN "closed" ELSE bst[c]]
                   /\ dst' = Halted(S)
      BY <2>7 DEF Edit
    <3>2. UNCHANGED anchor /\ trusted' = FALSE BY <2>7 DEF Edit
    <3> QED BY <3>1, <3>2 DEF Halted, RowTypes, BatchStatus
  <2>8. CASE CancelBatch(b) BY <2>8, CloseTypes DEF CancelBatch, RowTypes
  <2>9. CASE Anchor(b) \/ WindowPasses(b) \/ GracePasses(b) \/ Grant
    <3>1. UNCHANGED <<bst, dst>> BY <2>9 DEF Anchor, WindowPasses, GracePasses, Grant
    <3>2. anchor' = anchor \/ \E a \in {"late", "delivered", "due"} :
                                   anchor' = [anchor EXCEPT ![b] = a]
      BY <2>9 DEF Anchor, WindowPasses, GracePasses, Grant
    <3>3. trusted' \in {trusted, TRUE}
      BY <2>9 DEF Anchor, WindowPasses, GracePasses, Grant
    <3>4. anchor' \in [Batch -> {"none", "sent", "late", "delivered", "due"}]
      BY <3>2 DEF RowTypes
    <3>5. trusted' \in BOOLEAN BY <3>3 DEF RowTypes
    <3> QED BY <3>1, <3>4, <3>5 DEF RowTypes
  <2>10. CASE Eligible(b) \/ Notify(b) \/ AskArmed(b) \/ ExecutorDies(b)
    BY <2>10 DEF Eligible, Notify, AskArmed, ExecutorDies, RowTypes
  <2> QED BY <2>1, <2>2, <2>3, <2>4, <2>5, <2>6, <2>7, <2>8, <2>9, <2>10 DEF Outside
<1>3. arm' \in [Batch -> ArmPc] /\ crashes' \in 0 .. MaxCrashes
  <2>1. CASE UNCHANGED <<arm, crashes>> BY <2>1 DEF ProcessTypes, HistoryTypes
  <2>2. ASSUME NEW l \in ArmPc, Arm(b, l) PROVE arm' \in [Batch -> ArmPc]
    BY <2>2 DEF Arm, ProcessTypes
  <2>3. CASE ExecutorDies(b)
    BY <2>2, <2>3 DEF ExecutorDies, ArmPc, HistoryTypes
  <2>4. CASE Persist(b) \/ Eligible(b) \/ Notify(b) \/ Flip(b) \/ AskArmed(b) \/ AskRefused(b)
    BY <2>2, <2>4 DEF Persist, Eligible, Notify, Flip, AskArmed, AskRefused, ArmPc, HistoryTypes
  <2> QED
    BY <2>1, <2>3, <2>4
    DEF Outside, Anchor, WindowPasses, GracePasses, Inbound, Approve, Reject, Edit,
        CancelBatch, Grant
<1>4. RowTypes' BY <1>1, <1>2 DEF RowTypes
<1>5. ProcessTypes' BY <1>1, <1>3 DEF ProcessTypes, drivers, DraftsOf
<1>6. HistoryTypes' BY <1>1, <1>3 DEF HistoryTypes, past
<1>7. TodoTypes' BY <1>1 DEF TodoTypes, drivers, DraftsOf
<1> QED BY <1>4, <1>5, <1>6, <1>7


\* A driver moves to a label; its lock is held within its transaction and no longer.
Moves(w, l) ==
    /\ pc' = [pc EXCEPT ![w] = l]
    /\ \E T \in SUBSET DraftsOf(w[1]) : todo' = [todo EXCEPT ![w] = T]
    /\ \E x \in DraftsOf(w[1]) \cup {Nobody} :
          cur' = [cur EXCEPT ![w] = x] /\ (l \in InHand => x # Nobody)
    /\ lock' \in [Batch -> Driver \cup {Nobody, Stopper}]
    /\ \A b \in Batch : b # w[1] \/ w[2] = "L2" => lock'[b] = lock[b]
    /\ w[2] = "L3" => /\ lock'[w[1]] \in {lock[w[1]], Nobody, w}
                      /\ lock'[w[1]] = w <=> l \in InTransaction

LEMMA MoveTypes ==
    ASSUME Inv1, NEW w \in Driver, NEW l \in DriverPc, Moves(w, l), UNCHANGED <<arm, stop>>
    PROVE  /\ ProcessTypes' /\ TodoTypes'
           /\ lock' \in [Batch -> Driver \cup {Nobody, Stopper}]
           /\ \A b \in Batch : lock'[b] \in {Nobody, Stopper, <<b, "L3">>}
<1> USE Drivers DEF Inv1, TypeOK
<1>1. PICK T \in SUBSET DraftsOf(w[1]) : todo' = [todo EXCEPT ![w] = T] BY DEF Moves
<1>2. PICK x \in DraftsOf(w[1]) \cup {Nobody} :
         cur' = [cur EXCEPT ![w] = x] /\ (l \in InHand => x # Nobody)
  BY DEF Moves
<1>3. pc' = [pc EXCEPT ![w] = l] BY DEF Moves
<1>4. TodoTypes' /\ todo' \in [Driver -> SUBSET Draft]
  BY <1>1, <1>2 DEF TodoTypes, ProcessTypes, DraftsOf
<1>5. pc' \in [Driver -> DriverPc] BY <1>3 DEF ProcessTypes
<1>6. /\ cur' \in [Driver -> Draft \cup {Nobody}]
      /\ \A v \in Driver : pc'[v] \in InHand => cur'[v] \in DraftsOf(v[1])
  BY <1>2, <1>3 DEF ProcessTypes
<1>7. lock' \in [Batch -> Driver \cup {Nobody, Stopper}] BY DEF Moves
<1>8. \A b \in Batch : /\ lock'[b] \in {Nobody, Stopper, <<b, "L3">>}
                       /\ lock'[b] = <<b, "L3">> <=> pc'[<<b, "L3">>] \in InTransaction
  <2> TAKE b \in Batch
  <2>1. CASE b = w[1] /\ w[2] = "L3"
    <3>1. w = <<b, "L3">> /\ pc'[w] = l BY <2>1, <1>3 DEF ProcessTypes
    <3>2. lock'[b] \in {lock[b], Nobody, w} /\ (lock'[b] = w <=> l \in InTransaction)
      BY <2>1 DEF Moves
    <3> QED BY <3>1, <3>2 DEF RowTypes
  <2>2. CASE b # w[1] \/ w[2] = "L2"
    <3>1. lock'[b] = lock[b] BY <2>2 DEF Moves
    <3>2. pc'[<<b, "L3">>] = pc[<<b, "L3">>] BY <2>2, <1>3 DEF ProcessTypes
    <3> QED BY <3>1, <3>2 DEF ProcessTypes, RowTypes
  <2> QED BY <2>1, <2>2
<1>9. ProcessTypes'
  BY <1>4, <1>5, <1>6, <1>8 DEF ProcessTypes, DraftsOf
<1> QED BY <1>4, <1>7, <1>8, <1>9

\* A step that keeps the lock and the draft in hand.
LEMMA GotoMoves ==
    ASSUME Inv1, NEW w \in Driver, NEW l \in DriverPc, Goto(w, l), UNCHANGED <<todo, cur, lock>>,
           l \in InHand => pc[w] \in InHand,
           w[2] = "L3" => (l \in InTransaction <=> pc[w] \in InTransaction)
    PROVE  Moves(w, l)
<1> USE Drivers DEF Inv1, TypeOK
<1>1. todo' = [todo EXCEPT ![w] = todo[w]] /\ todo[w] \in SUBSET DraftsOf(w[1])
  BY DEF ProcessTypes, TodoTypes
<1>2. lock' \in [Batch -> Driver \cup {Nobody, Stopper}] /\ \A b \in Batch : lock'[b] = lock[b]
  BY DEF RowTypes
<1>3. w[2] = "L3" => (lock'[w[1]] = w <=> l \in InTransaction)
  <2> SUFFICES ASSUME w[2] = "L3" PROVE lock'[w[1]] = w <=> l \in InTransaction OBVIOUS
  <2>1. w = <<w[1], "L3">> /\ w[1] \in Batch OBVIOUS
  <2>2. lock[w[1]] = w <=> pc[w] \in InTransaction BY <2>1 DEF ProcessTypes
  <2> QED BY <2>2
<1>4. cur' = [cur EXCEPT ![w] = cur[w]] /\ (l \in InHand => cur[w] # Nobody)
  BY DEF ProcessTypes
<1>5. cur[w] \in DraftsOf(w[1]) \cup {Nobody} BY DEF TodoTypes
<1> QED BY <1>1, <1>2, <1>3, <1>4, <1>5 DEF Moves, Goto

\* A call returns.
LEMMA ReturnMoves ==
    ASSUME Inv1, NEW w \in Driver, Return(w), UNCHANGED todo
    PROVE  Moves(w, "next")
<1> USE Drivers DEF Inv1, TypeOK
<1>1. todo' = [todo EXCEPT ![w] = todo[w]] /\ todo[w] \in SUBSET DraftsOf(w[1])
  BY DEF ProcessTypes, TodoTypes
<1>2. lock' = [b \in Batch |-> IF lock[b] = w THEN Nobody ELSE lock[b]] BY DEF Return
<1>3. /\ lock' \in [Batch -> Driver \cup {Nobody, Stopper}]
      /\ \A b \in Batch : b # w[1] \/ w[2] = "L2" => lock'[b] = lock[b]
      /\ w[2] = "L3" => lock'[w[1]] \in {lock[w[1]], Nobody, w} /\ lock'[w[1]] # w
  BY <1>2 DEF RowTypes
<1> QED BY <1>1, <1>3 DEF Moves, Return, Goto, InHand, InTransaction


\* The rows a driver writes.
Rows(w) ==
    /\ bst' \in [Batch -> BatchStatus]
    /\ dst' \in [Draft -> {"none", "drafted", "sent", "skipped", "halted"}]
    /\ ledger' \in [Draft -> {"none", "sending", "sent", "error"}]
    /\ anchor' \in [Batch -> {"none", "sent", "late", "delivered", "due"}]
    /\ trusted' \in BOOLEAN
    /\ HistoryTypes'

LEMMA DriverInv1 ==
    ASSUME Inv1, NEW w \in Driver, NEW l \in DriverPc, Moves(w, l), Rows(w),
           UNCHANGED <<arm, stop>>
    PROVE  Inv1'
BY MoveTypes DEF Rows, Inv1, TypeOK, RowTypes

\* What the gates and the marking leave of the rows.
LEMMA FinalizedTypes ==
    ASSUME Inv1, NEW b \in Batch, NEW D
    PROVE  Finalized(b, D) \in [Batch -> BatchStatus]
BY DEF Finalized, Inv1, TypeOK, RowTypes, BatchStatus

LEMMA SettleInv1 ==
    ASSUME Inv1, NEW w \in Driver, pc[w] \in {"lock", "send", "mark"},
           NEW D \in [Draft -> {"none", "drafted", "sent", "skipped", "halted"}],
           Settle(w, D), UNCHANGED <<ledger, anchor, trusted, arm, todo, stop, past, crashes>>
    PROVE  Inv1'
<1> USE Drivers DEF Inv1, TypeOK
<1>1. Rows(w)
  BY FinalizedTypes DEF Settle, Rows, RowTypes, HistoryTypes, past
<1>2. CASE lock[w[1]] = w
  BY <1>1, <1>2, ReturnMoves, DriverInv1 DEF Settle, DriverPc
<1>3. CASE lock[w[1]] # w
  <2>1. w[2] = "L3" => pc[w] \notin InTransaction
    <3> SUFFICES ASSUME w[2] = "L3" PROVE pc[w] \notin InTransaction OBVIOUS
    <3>1. w = <<w[1], "L3">> /\ w[1] \in Batch OBVIOUS
    <3> QED BY <1>3, <3>1 DEF ProcessTypes
  <2>2. Goto(w, "final") /\ UNCHANGED <<lock, cur>> BY <1>3 DEF Settle
  <2>3. Moves(w, "final") BY <2>1, <2>2, GotoMoves DEF InHand, InTransaction, DriverPc
  <2> QED BY <1>1, <2>3, DriverInv1 DEF DriverPc
<1> QED BY <1>2, <1>3

LEMMA TransportInv1 ==
    ASSUME Inv1, NEW w \in Driver, Transport(w)
    PROVE  Inv1'
<1> USE Drivers DEF Inv1, TypeOK
<1>1. cur[w] \in Draft
  BY DEF Transport, Decline, Echo, Claim, Deliver, Fail, Record, RecordFails,
         ProcessTypes, InHand, DraftsOf
<1>2. UNCHANGED <<bst, dst, anchor, trusted, arm, todo, stop, crashes>>
  BY DEF Transport, Decline, Echo, Claim, Deliver, Fail, Record, RecordFails
<1>3. Taken(w) => /\ delivered' \in [Draft -> Nat] /\ after' \in [Batch -> Nat]
  BY <1>1 DEF Taken, HistoryTypes
<1>4. HistoryTypes'
  <2>1. CASE UNCHANGED past BY <1>2, <2>1 DEF HistoryTypes, past
  <2>2. CASE Taken(w) /\ blurred' \subseteq blurred \cup {cur[w]}
    BY <1>1, <1>2, <1>3, <2>2 DEF HistoryTypes
  <2> QED
    BY <2>1, <2>2
    DEF Transport, Decline, Echo, Claim, Deliver, Fail, Record, RecordFails
<1>5. Rows(w)
  <2>1. \/ ledger' = ledger
        \/ \E s \in {"sending", "sent", "error"} : ledger' = [ledger EXCEPT ![cur[w]] = s]
    BY DEF Transport, Decline, Echo, Claim, Deliver, Fail, Record, RecordFails
  <2>2. ledger' \in [Draft -> {"none", "sending", "sent", "error"}] BY <2>1 DEF RowTypes
  <2> QED BY <1>2, <1>4, <2>2 DEF Rows, RowTypes
<1>6. CASE Decline(w) \/ Fail(w) \/ RecordFails(w)
  BY <1>5, <1>6, ReturnMoves, DriverInv1 DEF Decline, Fail, RecordFails, DriverPc
<1>7. ASSUME NEW l \in {"mark", "call", "taken"}, Goto(w, l), UNCHANGED <<todo, cur, lock>>,
             pc[w] \in InTransaction
      PROVE  Inv1'
  <2>1. Moves(w, l) BY <1>7, GotoMoves DEF InHand, InTransaction, DriverPc
  <2> QED BY <1>2, <1>5, <2>1, DriverInv1 DEF DriverPc
<1>8. CASE Echo(w) BY <1>7, <1>8 DEF Echo, InTransaction
<1>9. CASE Claim(w) BY <1>7, <1>9 DEF Claim, InTransaction
<1>10. CASE Deliver(w) BY <1>7, <1>10 DEF Deliver, InTransaction
<1>11. CASE Record(w)
  <2>1. CASE Goto(w, "mark") /\ UNCHANGED <<lock, cur>>
    BY <1>7, <1>11, <2>1 DEF Record, InTransaction
  <2>2. CASE Return(w) BY <1>5, <1>11, <2>2, ReturnMoves, DriverInv1 DEF Record, DriverPc
  <2> QED BY <1>11, <2>1, <2>2 DEF Record
<1> QED BY <1>6, <1>8, <1>9, <1>10, <1>11 DEF Transport

\* The steps of a driver around the call.
LEMMA LoopInv1 ==
    ASSUME Inv1, NEW w \in Driver, UNCHANGED <<dst, ledger, trusted, arm, stop, past, crashes>>,
           \/ Enumerate(w) \/ Finish(w) \/ Finalize(w)
           \/ w[2] = "L3" /\ (Poll(w) \/ DemoteStep(w) \/ Lock(w))
           \/ \E d \in Draft : PassOver(w, d) \/ Begin(w, d)
           \/ w[2] = "L2" /\ StartL2(w[1])
    PROVE  Inv1'
<1> USE Drivers DEF Inv1, TypeOK
<1>1. HistoryTypes' BY DEF HistoryTypes, past
<1>2. ASSUME UNCHANGED <<bst, anchor>> PROVE Rows(w) BY <1>1, <1>2 DEF Rows, RowTypes
<1>3. ASSUME NEW l \in {"done", "demote", "enum"}, Goto(w, l), UNCHANGED <<todo, cur, lock>>,
             pc[w] \in {"idle", "poll", "demote", "next"}
      PROVE  Moves(w, l)
  BY <1>3, GotoMoves DEF InHand, InTransaction, DriverPc
<1>4. CASE Finish(w) BY <1>2, <1>3, <1>4, DriverInv1 DEF Finish, DriverPc
<1>5. CASE Poll(w) BY <1>2, <1>3, <1>5, DriverInv1 DEF Poll, DriverPc
<1>6. CASE w[2] = "L2" /\ StartL2(w[1])
  <2>1. w = <<w[1], "L2">> BY <1>6
  <2> QED BY <1>2, <1>3, <1>6, <2>1, DriverInv1 DEF StartL2, DriverPc
<1>7. CASE DemoteStep(w)
  <2>1. Rows(w) BY <1>1, <1>7 DEF DemoteStep, Demoted, Rows, RowTypes, BatchStatus
  <2> QED BY <1>3, <1>7, <2>1, DriverInv1 DEF DemoteStep, DriverPc
<1>8. CASE Finalize(w)
  <2>1. Rows(w) BY <1>1, <1>8, FinalizedTypes DEF Finalize, Rows, RowTypes
  <2> QED BY <1>8, <2>1, ReturnMoves, DriverInv1 DEF Finalize, DriverPc
<1>9. CASE Enumerate(w)
  <2>1. \E T \in SUBSET DraftsOf(w[1]) : todo' = [todo EXCEPT ![w] = T]
    BY <1>9 DEF Enumerate
  <2>2. cur' = [cur EXCEPT ![w] = cur[w]] /\ cur[w] \in DraftsOf(w[1]) \cup {Nobody}
    BY <1>9 DEF Enumerate, ProcessTypes, TodoTypes
  <2>3. lock' = lock /\ lock \in [Batch -> Driver \cup {Nobody, Stopper}]
    BY <1>9 DEF Enumerate, RowTypes
  <2>4. w[2] = "L3" => lock[w[1]] # w
    <3> SUFFICES ASSUME w[2] = "L3" PROVE lock[w[1]] # w OBVIOUS
    <3>1. w = <<w[1], "L3">> /\ w[1] \in Batch OBVIOUS
    <3> QED BY <1>9, <3>1 DEF Enumerate, ProcessTypes, InTransaction
  <2>5. Moves(w, "next")
    BY <1>9, <2>1, <2>2, <2>3, <2>4 DEF Moves, Enumerate, Goto, InHand, InTransaction
  <2> QED BY <1>2, <1>9, <2>5, DriverInv1 DEF Enumerate, DriverPc
<1>10. ASSUME NEW d \in Draft, PassOver(w, d) PROVE Inv1'
  <2>1. todo' = [todo EXCEPT ![w] = todo[w] \ {d}] /\ todo[w] \ {d} \in SUBSET DraftsOf(w[1])
    BY <1>10 DEF PassOver, Take, ProcessTypes, TodoTypes
  <2>2. cur' = [cur EXCEPT ![w] = cur[w]] /\ cur[w] \in DraftsOf(w[1]) \cup {Nobody}
    BY <1>10 DEF PassOver, ProcessTypes, TodoTypes
  <2>3. lock' = lock /\ lock \in [Batch -> Driver \cup {Nobody, Stopper}]
    BY <1>10 DEF PassOver, RowTypes
  <2>4. w[2] = "L3" => lock[w[1]] # w
    <3> SUFFICES ASSUME w[2] = "L3" PROVE lock[w[1]] # w OBVIOUS
    <3>1. w = <<w[1], "L3">> /\ w[1] \in Batch OBVIOUS
    <3> QED BY <1>10, <3>1 DEF PassOver, Take, ProcessTypes, InTransaction
  <2>5. pc' = [pc EXCEPT ![w] = "next"] BY <1>10 DEF PassOver, Take, ProcessTypes
  <2>6. Moves(w, "next") BY <2>1, <2>2, <2>3, <2>4, <2>5 DEF Moves, InHand, InTransaction
  <2> QED BY <1>2, <1>10, <2>6, DriverInv1 DEF PassOver, DriverPc
<1>11. ASSUME NEW d \in Draft, Begin(w, d) PROVE Inv1'
  <2>1. /\ todo' = [todo EXCEPT ![w] = todo[w] \ {d}] /\ todo[w] \ {d} \in SUBSET DraftsOf(w[1])
        /\ d \in DraftsOf(w[1])
    BY <1>11 DEF Begin, Take, ProcessTypes, TodoTypes
  <2>2. cur' = [cur EXCEPT ![w] = d] BY <1>11 DEF Begin
  <2>3. lock' = lock /\ lock \in [Batch -> Driver \cup {Nobody, Stopper}]
    BY <1>11 DEF Begin, RowTypes
  <2>4. w[2] = "L3" => lock[w[1]] # w
    <3> SUFFICES ASSUME w[2] = "L3" PROVE lock[w[1]] # w OBVIOUS
    <3>1. w = <<w[1], "L3">> /\ w[1] \in Batch OBVIOUS
    <3> QED BY <1>11, <3>1 DEF Begin, Take, ProcessTypes, InTransaction
  <2>5. d # Nobody OBVIOUS
  <2>6. /\ w[2] = "L3" => Goto(w, "lock") /\ Moves(w, "lock")
        /\ w[2] = "L2" => Goto(w, "send") /\ Moves(w, "send")
    BY <1>11, <2>1, <2>2, <2>3, <2>4, <2>5 DEF Begin, Moves, Goto, InTransaction
  <2>7. bst' \in [Batch -> BatchStatus] BY <1>11 DEF Begin, RowTypes, BatchStatus
  <2>8. Rows(w) BY <1>1, <1>11, <2>7 DEF Begin, Rows, RowTypes
  <2> QED BY <1>11, <2>6, <2>8, DriverInv1 DEF Begin, DriverPc
<1>12. CASE w[2] = "L3" /\ Lock(w)
  <2>1. w = <<w[1], "L3">> /\ w[1] \in Batch /\ w \in Driver /\ Nobody # w BY <1>12
  <2>2. todo' = [todo EXCEPT ![w] = todo[w]] /\ todo[w] \in SUBSET DraftsOf(w[1])
    BY <1>12 DEF Lock, ProcessTypes, TodoTypes
  <2>3. CASE StillHeld(w[1])
    <3>1. cur' = [cur EXCEPT ![w] = cur[w]] /\ cur[w] \in DraftsOf(w[1]) /\ cur[w] # Nobody
      BY <1>12, <2>3 DEF Lock, ProcessTypes, InHand
    <3>2. lock' = [lock EXCEPT ![w[1]] = w] BY <1>12, <2>3 DEF Lock
    <3>3. Moves(w, "send")
      BY <1>12, <2>1, <2>2, <2>3, <3>1, <3>2 DEF Lock, Moves, Goto, InTransaction, RowTypes
    <3> QED BY <1>2, <1>12, <3>3, DriverInv1 DEF Lock, DriverPc
  <2>4. CASE ~StillHeld(w[1])
    <3>1. cur' = [cur EXCEPT ![w] = Nobody] /\ lock' = lock BY <1>12, <2>4 DEF Lock
    <3>2. lock[w[1]] # w BY <1>12, <2>1 DEF Lock, Free
    <3>3. Moves(w, "next")
      BY <1>12, <2>1, <2>2, <2>4, <3>1, <3>2
      DEF Lock, Moves, Goto, InHand, InTransaction, RowTypes
    <3> QED BY <1>2, <1>12, <3>3, DriverInv1 DEF Lock, DriverPc
  <2> QED BY <2>3, <2>4
<1> QED BY <1>4, <1>5, <1>6, <1>7, <1>8, <1>9, <1>10, <1>11, <1>12


LEMMA StopInv1 ==
    ASSUME Inv1, StopBegins \/ StopCommits
    PROVE  Inv1'
<1> USE Drivers DEF Inv1, TypeOK
<1>1. CASE StopBegins
  <2>1. /\ lock' \in [Batch -> Driver \cup {Nobody, Stopper}]
        /\ \A b \in Batch : /\ lock'[b] \in {Nobody, Stopper, <<b, "L3">>}
                            /\ lock'[b] = <<b, "L3">> <=> lock[b] = <<b, "L3">>
    <3>1. \A b \in Batch : /\ lock'[b] = IF b \in Opened THEN Stopper ELSE lock[b]
                           /\ b \in Opened => lock[b] = Nobody
      BY <1>1 DEF StopBegins, Free, Opened
    <3>2. \A b \in Batch : <<b, "L3">> # Nobody /\ <<b, "L3">> # Stopper OBVIOUS
    <3>3. lock' = [b \in Batch |-> IF b \in Opened THEN Stopper ELSE lock[b]]
      BY <1>1 DEF StopBegins
    <3> QED BY <3>1, <3>2, <3>3 DEF RowTypes
  <2>2. RowTypes' BY <1>1, <2>1 DEF StopBegins, RowTypes
  <2>3. ProcessTypes' BY <1>1, <2>1 DEF StopBegins, ProcessTypes, drivers, DraftsOf
  <2>4. HistoryTypes' /\ TodoTypes'
    BY <1>1 DEF StopBegins, HistoryTypes, TodoTypes, drivers, past, DraftsOf
  <2> QED BY <2>2, <2>3, <2>4
<1>2. CASE StopCommits
  <2>1. /\ lock' \in [Batch -> Driver \cup {Nobody, Stopper}]
        /\ \A b \in Batch : /\ lock'[b] \in {Nobody, Stopper, <<b, "L3">>}
                            /\ lock'[b] = <<b, "L3">> <=> lock[b] = <<b, "L3">>
    <3>1. \A b \in Batch : lock'[b] = IF lock[b] = Stopper THEN Nobody ELSE lock[b]
      BY <1>2 DEF StopCommits
    <3>2. \A b \in Batch : <<b, "L3">> # Nobody /\ <<b, "L3">> # Stopper OBVIOUS
    <3>3. lock' = [b \in Batch |-> IF lock[b] = Stopper THEN Nobody ELSE lock[b]]
      BY <1>2 DEF StopCommits
    <3> QED BY <3>1, <3>2, <3>3 DEF RowTypes
  <2>2. RowTypes' BY <1>2, <2>1, CloseTypes DEF StopCommits, RowTypes
  <2>3. ProcessTypes' BY <1>2, <2>1 DEF StopCommits, ProcessTypes, drivers, DraftsOf
  <2>4. HistoryTypes' /\ TodoTypes'
    BY <1>2 DEF StopCommits, HistoryTypes, TodoTypes, drivers, past, DraftsOf
  <2> QED BY <2>2, <2>3, <2>4
<1> QED BY <1>1, <1>2

LEMMA StartHoldInv1 ==
    ASSUME Inv1, NEW b \in Batch, StartHold(b), pc[<<b, "L3">>] = "idle"
    PROVE  Inv1'
<1> USE Drivers DEF Inv1, TypeOK
<1> DEFINE w == <<b, "L3">>
<1>1. UNCHANGED <<bst, dst, ledger, anchor, trusted, lock, todo, cur, stop, past, crashes>>
  BY DEF StartHold
<1>2. arm' \in [Batch -> ArmPc] BY DEF StartHold, Arm, ProcessTypes, ArmPc
<1>3. /\ pc' \in [Driver -> DriverPc]
      /\ \A v \in Driver : pc'[v] = pc[v] \/ (v = w /\ pc'[v] = "poll")
  <2>1. pc' \in {pc, [pc EXCEPT ![w] = "poll"]} BY DEF StartHold
  <2>2. w \in Driver /\ "poll" \in DriverPc BY DEF DriverPc
  <2>3. pc \in [Driver -> DriverPc] BY DEF ProcessTypes
  <2> QED BY <2>1, <2>2, <2>3
<1>4. \A v \in Driver : /\ pc'[v] \in InHand => pc[v] \in InHand
                        /\ pc'[v] \in InTransaction <=> pc[v] \in InTransaction
  BY <1>3 DEF InHand, InTransaction
<1> HIDE DEF w
<1>5. ProcessTypes' BY <1>1, <1>2, <1>3, <1>4 DEF ProcessTypes, DraftsOf
<1>6. RowTypes' /\ HistoryTypes' /\ TodoTypes'
  BY <1>1 DEF RowTypes, HistoryTypes, TodoTypes, past, DraftsOf
<1> QED BY <1>5, <1>6

LEMMA MarkInv1 ==
    ASSUME Inv1, NEW w \in Driver, Skip(w) \/ Mark(w)
    PROVE  Inv1'
<1> USE Drivers DEF Inv1, TypeOK
<1>1. CASE Skip(w)
  <2> DEFINE D == [dst EXCEPT ![cur[w]] = IF @ = "drafted" THEN "skipped" ELSE @]
  <2>1. D \in [Draft -> {"none", "drafted", "sent", "skipped", "halted"}] BY DEF RowTypes
  <2>2. Settle(w, D) /\ pc[w] \in {"lock", "send", "mark"} BY <1>1 DEF Skip
  <2> HIDE DEF D
  <2> QED BY <1>1, <2>1, <2>2, SettleInv1 DEF Skip
<1>2. CASE Mark(w)
  <2> DEFINE D == [dst EXCEPT ![cur[w]] = "sent"]
  <2>1. D \in [Draft -> {"none", "drafted", "sent", "skipped", "halted"}] BY DEF RowTypes
  <2>2. Settle(w, D) /\ pc[w] \in {"lock", "send", "mark"} BY <1>2 DEF Mark
  <2> HIDE DEF D
  <2> QED BY <1>2, <2>1, <2>2, SettleInv1 DEF Mark
<1> QED BY <1>1, <1>2

LEMMA DriverBreaksInv1 ==
    ASSUME Inv1, NEW w \in Driver, DriverBreaks(w)
    PROVE  Inv1'
<1> USE Drivers DEF Inv1, TypeOK
<1>1. PICK l \in {"enum", "failed"} : Abort(w, l) BY DEF DriverBreaks, DriverDies, DriverRaises
<1>2. Rows(w) BY <1>1 DEF Abort, Rows, RowTypes, HistoryTypes, past
<1>3. lock' = [b \in Batch |-> IF lock[b] = w THEN Nobody ELSE lock[b]] BY <1>1 DEF Abort
<1>4. /\ lock' \in [Batch -> Driver \cup {Nobody, Stopper}]
      /\ \A b \in Batch : b # w[1] \/ w[2] = "L2" => lock'[b] = lock[b]
      /\ w[2] = "L3" => lock'[w[1]] \in {lock[w[1]], Nobody, w} /\ lock'[w[1]] # w
  BY <1>3 DEF RowTypes
<1>5. Moves(w, l)
  BY <1>1, <1>4 DEF Abort, Moves, Goto, InHand, InTransaction
<1> QED BY <1>1, <1>2, <1>5, DriverInv1 DEF Abort, DriverPc

\* A tenant the agent may not serve.
LEMMA IneligibleInv1 ==
    ASSUME Inv1, NEW w \in Driver, NEW d \in Draft, Ineligible(w, d)
    PROVE  Inv1'
<1> USE Drivers DEF Inv1, TypeOK
<1>1. /\ todo' = [todo EXCEPT ![w] = todo[w] \ {d}] /\ todo[w] \ {d} \in SUBSET DraftsOf(w[1])
      /\ d \in DraftsOf(w[1]) /\ d # Nobody
  BY DEF Ineligible, Take, ProcessTypes, TodoTypes
<1>2. cur' = [cur EXCEPT ![w] = d] /\ Goto(w, "final") BY DEF Ineligible
<1>3. lock' = lock /\ lock \in [Batch -> Driver \cup {Nobody, Stopper}]
  BY DEF Ineligible, RowTypes
<1>4. w[2] = "L3" => lock[w[1]] # w
  <2> SUFFICES ASSUME w[2] = "L3" PROVE lock[w[1]] # w OBVIOUS
  <2>1. w = <<w[1], "L3">> /\ w[1] \in Batch OBVIOUS
  <2> QED BY <2>1 DEF Ineligible, Take, ProcessTypes, InTransaction
<1>5. Moves(w, "final") BY <1>1, <1>2, <1>3, <1>4 DEF Moves, Goto, InTransaction
<1>6. Rows(w) BY DEF Ineligible, Rows, RowTypes, HistoryTypes, past
<1> QED BY <1>5, <1>6, DriverInv1 DEF Ineligible, DriverPc

LEMMA DriverStepInv1 ==
    ASSUME Inv1, NEW w \in Driver, DriverStep(w) \/ DriverBreaks(w)
    PROVE  Inv1'
<1>1. CASE Transport(w) BY <1>1, TransportInv1
<1>2. CASE Skip(w) \/ Mark(w) BY <1>2, MarkInv1
<1>3. CASE DriverBreaks(w) BY <1>3, DriverBreaksInv1
<1>4. CASE w[2] = "L3" /\ (Poll(w) \/ DemoteStep(w) \/ Lock(w))
  <2>1. UNCHANGED <<dst, ledger, trusted, arm, stop, past, crashes>>
    BY <1>4 DEF Poll, DemoteStep, Lock
  <2> QED BY <1>4, <2>1, LoopInv1
<1>5. CASE Enumerate(w) \/ Finish(w) \/ Finalize(w)
  <2>1. UNCHANGED <<dst, ledger, trusted, arm, stop, past, crashes>>
    BY <1>5 DEF Enumerate, Finish, Finalize
  <2> QED BY <1>5, <2>1, LoopInv1
<1>6. CASE \E d \in Draft : PassOver(w, d) \/ Begin(w, d)
  <2>1. UNCHANGED <<dst, ledger, trusted, arm, stop, past, crashes>>
    BY <1>6 DEF PassOver, Begin
  <2> QED BY <1>6, <2>1, LoopInv1
<1>7. CASE \E d \in Draft : Ineligible(w, d) BY <1>7, IneligibleInv1
<1> QED BY <1>1, <1>2, <1>3, <1>4, <1>5, <1>6, <1>7 DEF DriverStep

LEMMA StartL2Inv1 ==
    ASSUME Inv1, NEW b \in Batch, StartL2(b)
    PROVE  Inv1'
<1> DEFINE w == <<b, "L2">>
<1>1. w \in Driver /\ w[1] = b /\ w[2] = "L2" BY Drivers
<1> HIDE DEF w
<1>2. UNCHANGED <<dst, ledger, trusted, arm, stop, past, crashes>> BY DEF StartL2
<1>3. w[2] = "L2" /\ StartL2(w[1]) BY <1>1
<1> QED BY <1>1, <1>2, <1>3, LoopInv1


-------------------------------------------------------------------------------
(* How steps move the statuses.                                                 *)

\* The kinds of steps.
LEMMA Steps ==
    ASSUME [Next]_vars
    PROVE  \/ UNCHANGED vars
           \/ \E b \in Batch : Outside(b) \/ StartHold(b) \/ StartL2(b)
           \/ StopBegins \/ StopCommits
           \/ \E w \in Driver : DriverStep(w) \/ DriverBreaks(w)
<1>1. CASE Grant BY <1>1 DEF Grant, Unsettled, Outside
<1>2. ASSUME NEW b \in Batch,
             \/ Persist(b) \/ ExecutorStep(b) \/ ExecutorDies(b)
             \/ Anchor(b) \/ WindowPasses(b) \/ GracePasses(b) \/ Inbound(b)
             \/ Approve(b) \/ Reject(b) \/ Edit(b) \/ CancelBatch(b) \/ StartL2(b)
      PROVE  Outside(b) \/ StartHold(b) \/ StartL2(b)
  BY <1>2 DEF ExecutorStep, Outside
<1> QED BY <1>1, <1>2 DEF Next

\* The transitions of a batch.
Edge(s, t) ==
    \/ t = s \/ t = "closed"
    \/ s = "none" /\ t = "awaiting"
    \/ s = "awaiting" /\ t \in {"hold", "approved", "edit"}
    \/ s = "hold" /\ t = "awaiting"
    \/ s = "approved" /\ t = "sending"
    \/ s \in {"approved", "sending", "hold"} /\ t = "sent"

\* A batch moves along an edge, and not under the lock of its hold.
Moved(b) == Edge(bst[b], bst'[b]) /\ (bst'[b] # bst[b] => lock'[b] # <<b, "L3">>)

LEMMA FreeOfHold == \A b \in Batch : Free(b) => lock[b] # <<b, "L3">>
<1>1. \A w \in Driver : w # Nobody BY Drivers
<1>2. \A b \in Batch : <<b, "L3">> \in Driver BY Drivers
<1> QED BY <1>1, <1>2 DEF Free

LEMMA OutsideMoved ==
    ASSUME Inv1, HeldWhileLocked, NEW c \in Batch, Outside(c), NEW b \in Batch
    PROVE  Moved(b)
<1> USE DEF Moved, Edge
<1>1. UNCHANGED lock /\ bst \in [Batch -> BatchStatus]
  BY DEF Outside, Persist, ExecutorDies, Anchor, WindowPasses, GracePasses, Inbound, Approve,
         Reject, Edit, CancelBatch, Grant, Eligible, Notify, Flip, AskArmed, AskRefused,
         Inv1, TypeOK, RowTypes
<1>2. CASE Persist(c)
  <2>1. bst[c] = "none" /\ bst' = [bst EXCEPT ![c] = "awaiting"] BY <1>2 DEF Persist
  <2>2. lock[c] # <<c, "L3">> BY <2>1 DEF HeldWhileLocked
  <2> QED BY <1>1, <2>1, <2>2
<1>3. CASE Flip(c)
  <2>1. bst' = bst \/ (bst[c] = "awaiting" /\ bst' = [bst EXCEPT ![c] = "hold"])
    BY <1>3 DEF Flip, Flippable
  <2>2. lock[c] # <<c, "L3">> BY <1>3, FreeOfHold DEF Flip
  <2> QED BY <1>1, <2>1, <2>2
<1>4. CASE AskRefused(c)
  <2>1. bst' = [bst EXCEPT ![c] = "closed"] BY <1>4 DEF AskRefused
  <2>2. lock[c] # <<c, "L3">> BY <1>4, FreeOfHold DEF AskRefused
  <2> QED BY <1>1, <2>1, <2>2
<1>5. CASE Inbound(c)
  <2>1. bst[c] = "hold" /\ bst' = [bst EXCEPT ![c] = "awaiting"] BY <1>1, <1>5 DEF Inbound, Demoted
  <2>2. lock[c] # <<c, "L3">> BY <1>5, FreeOfHold DEF Inbound
  <2> QED BY <1>1, <2>1, <2>2
<1>6. CASE Approve(c)
  <2>1. bst[c] = "awaiting" /\ bst' = [bst EXCEPT ![c] = "approved"] BY <1>6 DEF Approve, Asked
  <2>2. lock[c] # <<c, "L3">> BY <1>6, FreeOfHold DEF Approve
  <2> QED BY <1>1, <2>1, <2>2
<1>7. ASSUME NEW S, Close(S), \A x \in S \cap Batch : Free(x) PROVE Moved(b)
  <2>1. bst'[b] = IF b \in S THEN "closed" ELSE bst[b] BY <1>7 DEF Close
  <2>2. b \in S => lock[b] # <<b, "L3">> BY <1>7, FreeOfHold
  <2> QED BY <1>1, <2>1, <2>2
<1>8. CASE Reject(c)
  <2>1. PICK S \in Revoked(c) : Close(S \cup {c}) /\ \A x \in S \cup {c} : Free(x)
    BY <1>8 DEF Reject
  <2> QED BY <1>7, <2>1
<1>9. CASE Edit(c)
  <2>1. PICK S \in Revoked(c) :
           /\ \A x \in S \cup {c} : Free(x)
           /\ bst' = [x \in Batch |-> IF x = c THEN "edit"
                                      ELSE IF x \in S THEN "closed" ELSE bst[x]]
    BY <1>9 DEF Edit
  <2>2. b \in S \cup {c} => lock[b] # <<b, "L3">> BY <2>1, FreeOfHold
  <2>3. bst[c] = "awaiting" BY <1>9 DEF Edit, Asked
  <2> QED BY <1>1, <2>1, <2>2, <2>3
<1>10. CASE CancelBatch(c) BY <1>7, <1>10 DEF CancelBatch
<1>11. CASE UNCHANGED bst BY <1>11
<1> QED
  BY <1>2, <1>3, <1>4, <1>5, <1>6, <1>8, <1>9, <1>10, <1>11
  DEF Outside, ExecutorDies, Anchor, WindowPasses, GracePasses, Grant, Eligible, Notify, AskArmed


LEMMA StopMoved ==
    ASSUME Inv1, HeldWhileLocked, StopBegins \/ StopCommits, NEW b \in Batch
    PROVE  Moved(b)
<1> USE DEF Moved, Edge
<1>1. CASE StopBegins BY <1>1 DEF StopBegins
<1>2. CASE StopCommits
  <2>1. bst'[b] = IF lock[b] = Stopper THEN "closed" ELSE bst[b]
    BY <1>2 DEF StopCommits, Close
  <2>2. lock'[b] = IF lock[b] = Stopper THEN Nobody ELSE lock[b] BY <1>2 DEF StopCommits
  <2>3. \A w \in Driver : w # Nobody BY Drivers
  <2>4. <<b, "L3">> \in Driver BY Drivers
  <2> QED BY <2>1, <2>2, <2>3, <2>4
<1> QED BY <1>1, <1>2

\* What finalizing does to a batch.
LEMMA FinalizedMoves ==
    ASSUME Inv1, NEW c \in Batch, NEW D, NEW b \in Batch
    PROVE  \/ Finalized(c, D)[b] = bst[b]
           \/ /\ b = c /\ Finalized(c, D)[b] = "sent" /\ Terminal(c, D)
              /\ bst[b] \in {"approved", "sending", "hold"}
BY DEF Finalized, Inv1, TypeOK, RowTypes

\* The lock of a batch a driver works on.
LEMMA OwnLock ==
    ASSUME Inv1, NEW w \in Driver
    PROVE  /\ w[1] \in Batch
           /\ lock[w[1]] = w => w = <<w[1], "L3">>
<1>1. w[1] \in Batch /\ (w = <<w[1], "L2">> \/ w = <<w[1], "L3">>) BY Drivers
<1>2. lock[w[1]] \in {Nobody, Stopper, <<w[1], "L3">>} BY <1>1 DEF Inv1, TypeOK, RowTypes
<1>3. w # Nobody /\ w # Stopper BY Drivers
<1> QED BY <1>1, <1>2, <1>3

LEMMA SettleMoved ==
    ASSUME Inv1, NEW w \in Driver, NEW D, Settle(w, D), NEW b \in Batch
    PROVE  Moved(b)
<1> USE DEF Moved, Edge
<1>1. CASE lock[w[1]] # w BY <1>1 DEF Settle
<1>2. CASE lock[w[1]] = w
  <2>1. bst' = Finalized(w[1], D) /\ Return(w) BY <1>2 DEF Settle
  <2>2. w[1] \in Batch /\ w = <<w[1], "L3">> BY <1>2, OwnLock
  <2>3. lock'[b] = IF lock[b] = w THEN Nobody ELSE lock[b] BY <2>1 DEF Return
  <2>4. w # Nobody BY Drivers
  <2>5. CASE b = w[1] BY <1>2, <2>1, <2>2, <2>3, <2>4, <2>5, FinalizedMoves
  <2>6. CASE b # w[1] BY <2>1, <2>2, <2>6, FinalizedMoves
  <2> QED BY <2>5, <2>6
<1> QED BY <1>1, <1>2

LEMMA DriverMoved ==
    ASSUME Inv1, NEW w \in Driver, DriverStep(w) \/ DriverBreaks(w), NEW b \in Batch
    PROVE  Moved(b)
<1> USE DEF Moved, Edge
<1>1. w[1] \in Batch /\ bst \in [Batch -> BatchStatus]
  BY Drivers DEF Inv1, TypeOK, RowTypes
<1>2. CASE Skip(w) BY <1>2, SettleMoved DEF Skip
<1>3. CASE Mark(w) BY <1>3, SettleMoved DEF Mark
<1>4. CASE DemoteStep(w)
  <2>1. bst' = [bst EXCEPT ![w[1]] = IF @ = "hold" THEN "awaiting" ELSE @]
    BY <1>4 DEF DemoteStep, Demoted
  <2>2. lock[w[1]] # <<w[1], "L3">> /\ UNCHANGED lock BY <1>1, <1>4, FreeOfHold DEF DemoteStep
  <2> QED BY <1>1, <2>1, <2>2
<1>5. CASE Finalize(w)
  <2>1. bst' = Finalized(w[1], dst) /\ (Free(w[1]) \/ bst' = bst) /\ Return(w)
    BY <1>5 DEF Finalize
  <2>2. lock'[b] = IF lock[b] = w THEN Nobody ELSE lock[b] BY <2>1 DEF Return
  <2>3. Free(w[1]) => lock[w[1]] # <<w[1], "L3">> BY <1>1, FreeOfHold
  <2>4. \A v \in Driver : v # Nobody BY Drivers
  <2>5. <<b, "L3">> \in Driver BY Drivers
  <2>6. lock'[b] = <<b, "L3">> => lock[b] = <<b, "L3">> BY <2>2, <2>4, <2>5
  <2> QED BY <1>1, <2>1, <2>3, <2>6, FinalizedMoves
<1>6. ASSUME NEW d \in Draft, Begin(w, d) PROVE Moved(b)
  <2>1. CASE w[2] = "L2" /\ bst[w[1]] = "approved"
    <3>1. bst' = [bst EXCEPT ![w[1]] = "sending"] /\ Free(w[1]) /\ UNCHANGED lock
      BY <1>6, <2>1 DEF Begin
    <3>2. lock[w[1]] # <<w[1], "L3">> BY <1>1, <3>1, FreeOfHold
    <3> QED BY <1>1, <2>1, <3>1, <3>2
  <2>2. CASE ~(w[2] = "L2" /\ bst[w[1]] = "approved") BY <1>6, <2>2 DEF Begin
  <2> QED BY <2>1, <2>2
<1>7. CASE UNCHANGED bst BY <1>7
<1> QED
  BY <1>2, <1>3, <1>4, <1>5, <1>6, <1>7
  DEF DriverStep, Poll, Lock, Enumerate, Finish, Transport, Decline, Echo, Claim, Deliver, Fail,
      Record, RecordFails, PassOver, Ineligible, DriverBreaks,
        DriverDies, DriverRaises, Abort

LEMMA NextMoved ==
    ASSUME Inv1, HeldWhileLocked, [Next]_vars, NEW b \in Batch
    PROVE  Moved(b)
<1>1. CASE UNCHANGED vars BY <1>1 DEF vars, Moved, Edge
<1>2. ASSUME NEW c \in Batch, StartHold(c) \/ StartL2(c) PROVE Moved(b)
  BY <1>2 DEF StartHold, StartL2, Moved, Edge
<1> QED BY <1>1, <1>2, Steps, OutsideMoved, StopMoved, DriverMoved


-------------------------------------------------------------------------------
(* Inv1 holds.                                                                  *)

\* A hold is started by the executor that is done with its batch.
LEMMA NextArmed ==
    ASSUME Inv1, HeldWhileLocked, ArmedFirst, [Next]_vars
    PROVE  ArmedFirst'
<1>1. \A b \in Batch : bst'[b] = "none" => bst[b] = "none" BY NextMoved DEF Moved, Edge
<1>2. ASSUME UNCHANGED arm,
             \A b \in Batch : pc[<<b, "L3">>] = "idle" => pc'[<<b, "L3">>] = "idle"
      PROVE  ArmedFirst'
  BY <1>1, <1>2 DEF ArmedFirst
<1>3. ASSUME NEW b \in Batch, Outside(b) PROVE ArmedFirst'
  <2>1. UNCHANGED pc
    BY <1>3
    DEF Outside, Persist, ExecutorDies, Anchor, WindowPasses, GracePasses, Inbound, Approve,
        Reject, Edit, CancelBatch, Grant, Eligible, Notify, Flip, AskArmed, AskRefused, drivers
  <2>2. CASE UNCHANGED arm BY <1>2, <2>1, <2>2
  <2>3. ASSUME NEW l, arm' = [arm EXCEPT ![b] = l],
               arm[b] \notin {"done", "idle"} \/ (bst[b] = "none" /\ bst'[b] # "none")
        PROVE  ArmedFirst'
    BY <1>1, <2>1, <2>3 DEF ArmedFirst, Inv1, TypeOK, ProcessTypes
  <2>4. CASE Persist(b)
    <3>1. bst[b] = "none" /\ Arm(b, "persisted") /\ bst' = [bst EXCEPT ![b] = "awaiting"]
      BY <2>4 DEF Persist
    <3>2. bst'[b] = "awaiting" BY <3>1 DEF Inv1, TypeOK, RowTypes
    <3> QED BY <2>3, <3>1, <3>2 DEF Arm
  <2>5. CASE ExecutorDies(b) \/ Eligible(b) \/ Notify(b) \/ Flip(b) \/ AskArmed(b) \/ AskRefused(b)
    BY <2>3, <2>5
    DEF ExecutorDies, Eligible, Notify, Flip, AskArmed, AskRefused, Arm
  <2> QED
    BY <1>3, <2>2, <2>4, <2>5
    DEF Outside, Anchor, WindowPasses, GracePasses, Inbound, Approve, Reject, Edit,
        CancelBatch, Grant
<1>4. ASSUME NEW b \in Batch, StartHold(b) PROVE ArmedFirst'
  <2>1. /\ arm[b] = "held" /\ arm' = [arm EXCEPT ![b] = "done"]
        /\ pc' \in {pc, [pc EXCEPT ![<<b, "L3">>] = "poll"]}
    BY <1>4 DEF StartHold, Arm
  <2>2. bst[b] # "none" BY <2>1 DEF ArmedFirst
  <2>3. \A c \in Batch : c # b => pc'[<<c, "L3">>] = pc[<<c, "L3">>]
    <3>1. \A c \in Batch : c # b => <<c, "L3">> # <<b, "L3">> BY Drivers
    <3> QED BY <2>1, <3>1, Drivers DEF Inv1, TypeOK, ProcessTypes
  <2> QED BY <1>1, <2>1, <2>2, <2>3 DEF ArmedFirst, Inv1, TypeOK, ProcessTypes
<1>5. ASSUME NEW w \in Driver, NEW l, Goto(w, l), pc[w] # "idle", UNCHANGED arm PROVE ArmedFirst'
  <2>1. \A b \in Batch : pc[<<b, "L3">>] = "idle" => pc'[<<b, "L3">>] = "idle"
    BY <1>5, Drivers DEF Goto, Inv1, TypeOK, ProcessTypes
  <2> QED BY <1>2, <1>5, <2>1
<1>6. ASSUME NEW b \in Batch, StartL2(b) PROVE ArmedFirst'
  <2>1. pc' = [pc EXCEPT ![<<b, "L2">>] = "enum"] /\ UNCHANGED arm BY <1>6 DEF StartL2, Goto
  <2>2. \A c \in Batch : pc'[<<c, "L3">>] = pc[<<c, "L3">>]
    <3>1. \A c \in Batch : <<c, "L3">> # <<b, "L2">> BY Drivers
    <3> QED BY <2>1, <3>1, Drivers DEF Inv1, TypeOK, ProcessTypes
  <2> QED BY <1>2, <2>1, <2>2
<1>7. ASSUME NEW w \in Driver, DriverStep(w) \/ DriverBreaks(w) PROVE ArmedFirst'
  <2>1. UNCHANGED arm /\ pc[w] # "idle" /\ (UNCHANGED pc \/ \E l : Goto(w, l))
    BY <1>7
    DEF DriverStep, Poll, DemoteStep, Lock, Enumerate, Finish, Finalize, Skip, Settle, Return,
        Transport, Decline, Echo, Claim, Deliver, Fail, Record, RecordFails, Mark,
        PassOver, Ineligible,
        Begin, Take, DriverBreaks, DriverDies, DriverRaises, Abort
  <2> QED BY <1>2, <1>5, <2>1
<1>8. CASE StopBegins \/ StopCommits
  BY <1>2, <1>8 DEF StopBegins, StopCommits, drivers
<1>9. CASE UNCHANGED vars BY <1>2, <1>9 DEF vars, drivers
<1> QED BY <1>3, <1>4, <1>6, <1>7, <1>8, <1>9, Steps

LEMMA NextInv1 ==
    ASSUME Inv1, ArmedFirst, [Next]_vars
    PROVE  Inv1'
<1>1. ASSUME NEW b \in Batch, StartHold(b) PROVE Inv1'
  <2>1. pc[<<b, "L3">>] = "idle" BY <1>1 DEF StartHold, ArmedFirst
  <2> QED BY <1>1, <2>1, StartHoldInv1
<1>2. CASE UNCHANGED vars
  <2> USE <1>2 DEF vars, drivers, past
  <2>1. RowTypes' /\ HistoryTypes' BY DEF Inv1, TypeOK, RowTypes, HistoryTypes
  <2>2. ProcessTypes' /\ TodoTypes' BY DEF Inv1, TypeOK, ProcessTypes, TodoTypes, DraftsOf
  <2> QED BY <2>1, <2>2 DEF Inv1, TypeOK
<1> QED BY <1>1, <1>2, Steps, OutsideInv1, StartL2Inv1, StopInv1, DriverStepInv1

\* Who takes the lock of a hold read the batch under it.
LEMMA NextHeld ==
    ASSUME Inv1, HeldWhileLocked, [Next]_vars
    PROVE  HeldWhileLocked'
<1> SUFFICES ASSUME NEW b \in Batch, lock'[b] = <<b, "L3">>
             PROVE  bst'[b] = "hold"
  BY DEF HeldWhileLocked
<1>1. bst'[b] = bst[b] BY NextMoved DEF Moved
<1>2. <<b, "L3">> # Nobody /\ <<b, "L3">> # Stopper BY Drivers
<1>3. CASE lock[b] = <<b, "L3">> BY <1>1, <1>3 DEF HeldWhileLocked
<1>4. CASE lock[b] # <<b, "L3">>
  <2>1. ASSUME NEW c \in Batch, Outside(c) \/ StartHold(c) \/ StartL2(c) PROVE FALSE
    BY <1>4, <2>1
    DEF Outside, Persist, ExecutorDies, Anchor, WindowPasses, GracePasses, Inbound, Approve,
        Reject, Edit, CancelBatch, Grant, Eligible, Notify, Flip, AskArmed, AskRefused,
        StartHold, StartL2
  <2>2. CASE StopBegins \/ StopCommits BY <1>2, <1>4, <2>2 DEF StopBegins, StopCommits
  <2>3. ASSUME NEW w \in Driver, Return(w) PROVE FALSE BY <1>2, <1>4, <2>3 DEF Return
  <2>4. ASSUME NEW w \in Driver, w[2] = "L3", Lock(w) PROVE bst'[b] = "hold"
    <3>1. w[1] \in Batch /\ w = <<w[1], "L3">> BY <2>4, Drivers
    <3>2. StillHeld(w[1]) /\ lock' = [lock EXCEPT ![w[1]] = w] BY <1>4, <2>4 DEF Lock
    <3>3. b = w[1] BY <1>4, <3>1, <3>2 DEF Inv1, TypeOK, RowTypes
    <3> QED BY <1>1, <3>2, <3>3 DEF StillHeld
  <2>5. ASSUME NEW w \in Driver, DriverBreaks(w) PROVE FALSE
    BY <1>2, <1>4, <2>5 DEF DriverBreaks, DriverDies, DriverRaises, Abort
  <2>6. ASSUME NEW w \in Driver, DriverStep(w) PROVE bst'[b] = "hold"
    BY <1>4, <2>3, <2>4, <2>6
    DEF DriverStep, Poll, DemoteStep, Enumerate, Finish, Finalize, Skip, Settle,
        Transport, Decline, Echo, Claim, Deliver, Fail, Record, RecordFails, Mark,
        PassOver, Ineligible, Begin
  <2>7. CASE UNCHANGED vars BY <1>4, <2>7 DEF vars
  <2> QED BY <2>1, <2>2, <2>5, <2>6, <2>7, Steps
<1> QED BY <1>3, <1>4

BaseInv == Inv1 /\ ArmedFirst /\ HeldWhileLocked

LEMMA BaseHolds == Spec => []BaseInv
<1>1. Init => BaseInv
  <2> SUFFICES ASSUME Init PROVE BaseInv OBVIOUS
  <2>1. ArmedFirst BY Drivers DEF Init, ArmedFirst
  <2>2. HeldWhileLocked BY Drivers DEF Init, HeldWhileLocked
  <2> QED BY <2>1, <2>2, InitInv1 DEF BaseInv
<1>2. BaseInv /\ [Next]_vars => BaseInv'
  BY NextInv1, NextArmed, NextHeld DEF BaseInv
<1> QED BY <1>1, <1>2, PTL DEF Spec

\* The types of every variable, and a batch locked by its hold during the transaction of
\* a call and no longer (customer_send.py's BEGIN ... COMMIT around the send).
THEOREM TypeCorrect == Spec => []TypeOK
<1>1. BaseInv => TypeOK BY DEF BaseInv, Inv1
<1> QED BY <1>1, BaseHolds, PTL


\* A closed batch is never opened again: every write to it is conditional on a status it
\* read in the same statement, or under the lock (agents/autonomy.py, l3_hold.py).
THEOREM ClosedForGood == Spec => ClosedStays
<1>1. BaseInv /\ [Next]_vars => [\A b \in Batch : bst[b] = "closed" => bst'[b] = "closed"]_vars
  BY NextMoved DEF BaseInv, Moved, Edge
<1> QED BY <1>1, BaseHolds, PTL DEF Spec, ClosedStays

\* A message of a hold goes out under the lock of a batch that is still on hold.
LEMMA CallsHeld ==
    ASSUME BaseInv, NEW w \in Driver, w[2] = "L3", pc[w] \in InTransaction
    PROVE  bst[w[1]] = "hold" /\ lock[w[1]] = w
<1>1. w[1] \in Batch /\ w = <<w[1], "L3">> BY Drivers
<1>2. lock[w[1]] = <<w[1], "L3">> BY <1>1 DEF BaseInv, Inv1, TypeOK, ProcessTypes
<1> QED BY <1>1, <1>2 DEF BaseInv, HeldWhileLocked

\* An objection that committed before a message of the hold went out keeps it in: the
\* demotion, the cancel and the approval wait for the row the send has locked.
THEOREM ObjectionWins == Spec => NothingOverObjection
<1>1. ASSUME BaseInv, NEW w \in Driver, SentBy(w) /\ w[2] = "L3"
      PROVE  bst[w[1]] = "hold"
  BY <1>1, CallsHeld DEF SentBy, InTransaction
<1>2. BaseInv =>
        [\A w \in Driver : SentBy(w) /\ w[2] = "L3" => bst[w[1]] = "hold"]_vars
  BY <1>1
<1> QED BY <1>2, BaseHolds, PTL DEF NothingOverObjection

-------------------------------------------------------------------------------
(* Inv2: the two drivers and the status of their batch.                         *)

\* What a driver of L2 does.
L2Moves(b) ==
    LET v == <<b, "L2">> IN
    \/ pc'[v] = pc[v]
    \/ pc[v] = "idle" /\ bst[b] = "approved" /\ bst'[b] = bst[b] /\ pc'[v] = "enum"
    \/ /\ pc[v] # "idle" /\ pc'[v] \in {"enum", "next", "send", "call", "taken", "mark",
                                          "final", "done", "failed"}
       /\ pc'[v] = "send" => bst[b] \in {"approved", "sending"}
       /\ pc'[v] = "call" => pc[v] = "send"

\* What a driver of L3 does: it starts to drive when the hold has run out.
Driving == DriverPc \ {"idle", "poll", "demote", "done", "failed"}
L3Moves(b) ==
    LET v == <<b, "L3">> IN
    \/ pc'[v] = pc[v] \/ pc'[v] \notin Driving \/ pc[v] \in Driving
    \/ anchor[b] = "due" /\ anchor'[b] = anchor[b]

LEMMA NextDrivers ==
    ASSUME Inv1, ArmedFirst, [Next]_vars, NEW b \in Batch
    PROVE  L2Moves(b) /\ L3Moves(b)
<1> USE DEF L2Moves, L3Moves
<1>1. /\ <<b, "L2">> \in Driver /\ <<b, "L3">> \in Driver
      /\ <<b, "L2">>[1] = b /\ <<b, "L3">>[1] = b /\ <<b, "L2">>[2] = "L2" /\ <<b, "L3">>[2] = "L3"
  BY Drivers
<1>2. pc \in [Driver -> DriverPc] BY DEF Inv1, TypeOK, ProcessTypes
<1>3. CASE UNCHANGED pc BY <1>3
<1>4. ASSUME NEW c \in Batch, Outside(c) PROVE UNCHANGED pc
  BY <1>4
  DEF Outside, Persist, ExecutorDies, Anchor, WindowPasses, GracePasses, Inbound, Approve,
      Reject, Edit, CancelBatch, Grant, Eligible, Notify, Flip, AskArmed, AskRefused, drivers
<1>5. ASSUME NEW c \in Batch, StartHold(c) PROVE L2Moves(b) /\ L3Moves(b)
  <2>1. <<c, "L3">> # <<b, "L2">> /\ <<c, "L3">> \in Driver BY Drivers
  <2>2. pc' \in {pc, [pc EXCEPT ![<<c, "L3">>] = "poll"]} BY <1>5 DEF StartHold
  <2>3. pc'[<<b, "L2">>] = pc[<<b, "L2">>] BY <1>1, <1>2, <2>1, <2>2
  <2>4. pc'[<<b, "L3">>] \in {pc[<<b, "L3">>], "poll"} BY <1>1, <1>2, <2>2
  <2> QED BY <2>3, <2>4 DEF Driving
<1>6. ASSUME NEW c \in Batch, StartL2(c) PROVE L2Moves(b) /\ L3Moves(b)
  <2>1. /\ <<c, "L2">> # <<b, "L3">> /\ <<c, "L2">> \in Driver
        /\ <<c, "L2">> = <<b, "L2">> => c = b
    BY Drivers
  <2>2. /\ pc' = [pc EXCEPT ![<<c, "L2">>] = "enum"] /\ bst[c] = "approved"
        /\ pc[<<c, "L2">>] = "idle" /\ UNCHANGED bst
    BY <1>6 DEF StartL2, Goto
  <2>3. pc'[<<b, "L3">>] = pc[<<b, "L3">>] BY <1>1, <1>2, <2>1, <2>2
  <2>4. CASE c = b BY <1>1, <1>2, <2>2, <2>3, <2>4
  <2>5. CASE c # b BY <1>1, <1>2, <2>1, <2>2, <2>3, <2>5
  <2> QED BY <2>4, <2>5
<1>7. CASE StopBegins \/ StopCommits BY <1>3, <1>7 DEF StopBegins, StopCommits, drivers
<1>8. ASSUME NEW w \in Driver, NEW l, Goto(w, l), pc[w] # "idle",
             l \in {"enum", "next", "send", "call", "taken", "mark", "final", "done", "failed"}
                \/ w[2] = "L3",
             pc[w] \notin Driving /\ l \in Driving
                => anchor[w[1]] = "due" /\ UNCHANGED anchor,
             w[2] = "L2" /\ l = "send" => bst[w[1]] \in {"approved", "sending"},
             l = "call" => pc[w] = "send"
      PROVE  L2Moves(b) /\ L3Moves(b)
  <2>1. pc'[w] = l /\ \A v \in Driver \ {w} : pc'[v] = pc[v]
    BY <1>2, <1>8 DEF Goto
  <2>2. CASE w = <<b, "L2">> \/ w = <<b, "L3">> BY <1>1, <1>8, <2>1, <2>2
  <2>3. CASE w # <<b, "L2">> /\ w # <<b, "L3">> BY <1>1, <2>1, <2>3
  <2> QED BY <2>2, <2>3
<1>9. ASSUME NEW w \in Driver, DriverBreaks(w) PROVE L2Moves(b) /\ L3Moves(b)
  BY <1>2, <1>8, <1>9 DEF DriverBreaks, DriverDies, DriverRaises, Abort, Driving
<1>10. ASSUME NEW w \in Driver, w[2] = "L3", Poll(w) \/ DemoteStep(w) \/ Lock(w)
       PROVE  L2Moves(b) /\ L3Moves(b)
  <2>1. CASE Poll(w) BY <1>8, <1>10, <2>1 DEF Poll, MaySend, Driving
  <2>2. CASE DemoteStep(w) BY <1>8, <1>10, <2>2 DEF DemoteStep, Driving
  <2>3. CASE Lock(w) BY <1>8, <1>10, <2>3 DEF Lock, Driving, DriverPc
  <2> QED BY <1>10, <2>1, <2>2, <2>3
<1>11. ASSUME NEW w \in Driver, NEW d \in Draft, Begin(w, d) PROVE L2Moves(b) /\ L3Moves(b)
  <2>1. pc[w] = "next" /\ Goto(w, IF w[2] = "L3" THEN "lock" ELSE "send")
    BY <1>11 DEF Begin, Take
  <2>2. w[2] = "L2" => bst[w[1]] \in {"approved", "sending"}
    BY <1>11 DEF Begin, Sendable, Drivable
  <2>3. w[2] \in {"L2", "L3"} BY Drivers
  <2> QED BY <1>8, <2>1, <2>2, <2>3 DEF Driving, DriverPc
<1>12. ASSUME NEW w \in Driver, DriverStep(w) PROVE L2Moves(b) /\ L3Moves(b)
  <2>1. CASE Enumerate(w) \/ Finish(w) \/ Finalize(w)
    BY <1>8, <2>1 DEF Enumerate, Finish, Finalize, Return, Driving, DriverPc
  <2>2. CASE Skip(w) \/ Mark(w)
    <3>1. /\ pc[w] \in {"lock", "send", "mark"} /\ pc[w] # "idle"
          /\ Goto(w, "next") \/ Goto(w, "final")
      BY <2>2 DEF Skip, Mark, Settle, Return
    <3> QED BY <1>8, <3>1 DEF Driving, DriverPc
  <2>3. CASE Transport(w)
    <3>1. /\ pc[w] \in {"send", "call", "taken"}
          /\ \/ Goto(w, "next") \/ Goto(w, "mark") \/ Goto(w, "taken")
             \/ Goto(w, "call") /\ pc[w] = "send"
      BY <2>3
      DEF Transport, Decline, Echo, Claim, Deliver, Fail, Record, RecordFails, Return
    <3> QED BY <1>8, <3>1 DEF Driving, DriverPc
  <2>4. CASE \E d \in Draft : PassOver(w, d) BY <1>3, <2>4 DEF PassOver
  <2>5. CASE \E d \in Draft : Ineligible(w, d)
    <3>1. pc[w] = "next" /\ Goto(w, "final") BY <2>5 DEF Ineligible, Take
    <3> QED BY <1>8, <3>1 DEF Driving, DriverPc
  <2> QED BY <1>10, <1>11, <1>12, <2>1, <2>2, <2>3, <2>4, <2>5 DEF DriverStep
<1>13. CASE UNCHANGED vars BY <1>3, <1>13 DEF vars, drivers
<1> QED BY <1>3, <1>4, <1>5, <1>6, <1>7, <1>9, <1>12, <1>13, Steps


LEMMA NextApproved ==
    ASSUME BaseInv, ApprovedDrives, [Next]_vars
    PROVE  ApprovedDrives'
<1> SUFFICES ASSUME NEW b \in Batch
             PROVE  /\ pc'[<<b, "L2">>] # "idle" => bst'[b] \in {"approved", "sending", "sent", "closed"}
                    /\ pc'[<<b, "L2">>] \notin {"poll", "demote", "lock"}
  BY DEF ApprovedDrives
<1>1. Edge(bst[b], bst'[b]) BY NextMoved DEF BaseInv, Moved
<1>2. L2Moves(b) BY NextDrivers DEF BaseInv
<1> QED BY <1>1, <1>2 DEF Edge, L2Moves, ApprovedDrives

\* What becomes of the notice of a hold, and when a hold begins.
AnchorMoves(b) ==
    /\ anchor[b] = "due" => anchor'[b] = "due" \/ bst'[b] # "hold" \/ arm[b] # "done"
    /\ bst'[b] = "hold" => bst[b] = "hold" \/ (arm[b] # "done" /\ UNCHANGED pc)

LEMMA NextAnchor ==
    ASSUME BaseInv, [Next]_vars, NEW b \in Batch
    PROVE  AnchorMoves(b)
<1> USE DEF AnchorMoves
<1>1. /\ bst \in [Batch -> BatchStatus]
      /\ anchor \in [Batch -> {"none", "sent", "late", "delivered", "due"}]
  BY DEF BaseInv, Inv1, TypeOK, RowTypes
<1>2. CASE UNCHANGED <<bst, anchor>> BY <1>2
<1>3. ASSUME UNCHANGED anchor, bst'[b] = bst[b] \/ bst'[b] # "hold" PROVE AnchorMoves(b)
  BY <1>3
<1>4. ASSUME NEW c \in Batch, Outside(c) PROVE AnchorMoves(b)
  <2>1. CASE Persist(c)
    <3>1. UNCHANGED anchor /\ bst' = [bst EXCEPT ![c] = "awaiting"] BY <2>1 DEF Persist
    <3> QED BY <1>1, <1>3, <3>1
  <2>2. CASE Flip(c)
    <3>1. arm[c] # "done" /\ UNCHANGED pc BY <2>2 DEF Flip, drivers
    <3>2. \A x \in Batch : x # c => bst'[x] = bst[x] /\ anchor'[x] = anchor[x]
      BY <1>1, <2>2 DEF Flip
    <3> QED BY <3>1, <3>2
  <2>3. CASE AskRefused(c)
    <3>1. UNCHANGED anchor /\ bst' = [bst EXCEPT ![c] = "closed"] BY <2>3 DEF AskRefused
    <3> QED BY <1>1, <1>3, <3>1
  <2>4. CASE Inbound(c)
    <3>1. bst[c] = "hold" /\ Demoted(c) BY <2>4 DEF Inbound
    <3> QED BY <1>1, <3>1 DEF Demoted
  <2>5. CASE Approve(c)
    <3>1. UNCHANGED anchor /\ bst' = [bst EXCEPT ![c] = "approved"] BY <2>5 DEF Approve
    <3> QED BY <1>1, <1>3, <3>1
  <2>6. ASSUME NEW S, Close(S), UNCHANGED anchor PROVE AnchorMoves(b)
    BY <1>3, <2>6 DEF Close
  <2>7. CASE Reject(c)
    <3>1. \E S : Close(S) BY <2>7 DEF Reject
    <3>2. UNCHANGED anchor BY <2>7 DEF Reject
    <3> QED BY <2>6, <3>1, <3>2
  <2>8. CASE Edit(c)
    <3>1. \E S : bst' = [x \in Batch |-> IF x = c THEN "edit"
                                         ELSE IF x \in S THEN "closed" ELSE bst[x]]
      BY <2>8 DEF Edit
    <3>2. UNCHANGED anchor BY <2>8 DEF Edit
    <3> QED BY <1>3, <3>1, <3>2
  <2>9. CASE CancelBatch(c) BY <2>6, <2>9 DEF CancelBatch
  <2>10. CASE Anchor(c) \/ WindowPasses(c) \/ GracePasses(c)
    <3>1. UNCHANGED bst /\ anchor[c] # "due" BY <2>10 DEF Anchor, WindowPasses, GracePasses
    <3>2. \E a : anchor' = [anchor EXCEPT ![c] = a]
      BY <2>10 DEF Anchor, WindowPasses, GracePasses
    <3> QED BY <1>1, <3>1, <3>2
  <2> QED
    BY <1>2, <1>4, <2>1, <2>2, <2>3, <2>4, <2>5, <2>7, <2>8, <2>9, <2>10
    DEF Outside, ExecutorDies, Grant, Eligible, Notify, AskArmed
<1>5. ASSUME NEW c \in Batch, StartHold(c) \/ StartL2(c) PROVE AnchorMoves(b)
  BY <1>2, <1>5 DEF StartHold, StartL2
<1>6. CASE StopBegins BY <1>2, <1>6 DEF StopBegins
<1>7. CASE StopCommits BY <1>3, <1>7 DEF StopCommits, Close
<1>8. ASSUME NEW w \in Driver, DriverStep(w) \/ DriverBreaks(w) PROVE AnchorMoves(b)
  <2>1. w[1] \in Batch BY Drivers
  <2>2. CASE DemoteStep(w) BY <1>1, <2>1, <2>2 DEF DemoteStep, Demoted
  <2>3. ASSUME NEW D, bst' = Finalized(w[1], D), UNCHANGED anchor PROVE AnchorMoves(b)
    BY <1>3, <2>1, <2>3, FinalizedMoves DEF BaseInv
  <2>4. CASE Finalize(w) BY <2>3, <2>4 DEF Finalize
  <2>5. ASSUME NEW D, Settle(w, D), UNCHANGED anchor PROVE AnchorMoves(b)
    BY <1>2, <2>3, <2>5 DEF Settle
  <2>6. CASE Skip(w) \/ Mark(w) BY <2>5, <2>6 DEF Skip, Mark
  <2>7. ASSUME NEW d \in Draft, Begin(w, d) PROVE AnchorMoves(b)
    BY <1>1, <1>3, <2>1, <2>7 DEF Begin
  <2> QED
    BY <1>2, <1>8, <2>2, <2>4, <2>6, <2>7
    DEF DriverStep, Poll, Lock, Enumerate, Finish, Transport, Decline, Echo, Claim, Deliver,
        Fail, Record, RecordFails, PassOver, Ineligible, DriverBreaks,
        DriverDies, DriverRaises, Abort
<1>9. CASE UNCHANGED vars BY <1>2, <1>9 DEF vars
<1> QED BY <1>4, <1>5, <1>6, <1>7, <1>8, <1>9, Steps

LEMMA NextDue ==
    ASSUME BaseInv, DueInside, [Next]_vars
    PROVE  DueInside'
<1> SUFFICES ASSUME NEW b \in Batch, bst'[b] = "hold",
                    pc'[<<b, "L3">>] \notin {"idle", "poll", "demote", "done", "failed"}
             PROVE  anchor'[b] = "due"
  BY DEF DueInside
<1>1. AnchorMoves(b) BY NextAnchor
<1>2. L3Moves(b) BY NextDrivers DEF BaseInv
<1>3. arm[b] # "done" => pc[<<b, "L3">>] = "idle" BY DEF BaseInv, ArmedFirst
<1>4. pc'[<<b, "L3">>] \in Driving
  BY NextInv1, Drivers DEF BaseInv, Inv1, TypeOK, ProcessTypes, Driving
<1> QED BY <1>1, <1>2, <1>3, <1>4 DEF AnchorMoves, L3Moves, DueInside, Driving


\* Twilio takes a message in the call of a driver, which leaves the call.
LEMMA NextTaken ==
    ASSUME Inv1, [Next]_vars
    PROVE  \/ UNCHANGED <<delivered, after>>
           \/ \E w \in Driver : /\ pc[w] = "call" /\ Taken(w) /\ UNCHANGED bst
                                /\ pc'[w] \in {"taken", "next"}
<1>1. ASSUME NEW b \in Batch, Outside(b) \/ StartHold(b) \/ StartL2(b)
      PROVE  UNCHANGED <<delivered, after>>
  BY <1>1
  DEF Outside, Persist, ExecutorDies, Anchor, WindowPasses, GracePasses, Inbound, Approve,
      Reject, Edit, CancelBatch, Grant, Eligible, Notify, Flip, AskArmed, AskRefused,
      StartHold, StartL2, past
<1>2. CASE StopBegins \/ StopCommits BY <1>2 DEF StopBegins, StopCommits, past
<1>3. ASSUME NEW w \in Driver, Deliver(w) \/ Fail(w)
      PROVE  \/ UNCHANGED <<delivered, after>>
             \/ /\ pc[w] = "call" /\ Taken(w) /\ UNCHANGED bst
                /\ pc'[w] \in {"taken", "next"}
  <2>1. pc[w] = "call" /\ UNCHANGED bst /\ (Taken(w) \/ UNCHANGED past)
    BY <1>3 DEF Deliver, Fail
  <2>2. pc'[w] \in {"taken", "next"}
    BY <1>3 DEF Deliver, Fail, Return, Goto, Inv1, TypeOK, ProcessTypes
  <2> QED BY <2>1, <2>2 DEF past
<1>4. ASSUME NEW w \in Driver, DriverStep(w) \/ DriverBreaks(w), ~Deliver(w), ~Fail(w)
      PROVE  UNCHANGED <<delivered, after>>
  BY <1>4
  DEF DriverStep, Poll, DemoteStep, Lock, Enumerate, Finish, Finalize, Skip, Mark, Transport,
      Decline, Echo, Claim, Record, RecordFails, PassOver, Ineligible, Begin,
      DriverBreaks, DriverDies, DriverRaises, Abort, past
<1>5. CASE UNCHANGED vars BY <1>5 DEF vars, past
<1> QED BY <1>1, <1>2, <1>3, <1>4, <1>5, Steps

LEMMA NextAfter ==
    ASSUME BaseInv, AfterStop, [Next]_vars
    PROVE  AfterStop'
<1> SUFFICES ASSUME NEW b \in Batch, after'[b] > 0
             PROVE  /\ after'[b] = 1 /\ bst'[b] = "closed"
                    /\ pc'[<<b, "L2">>] \notin {"idle", "send", "call"}
  BY DEF AfterStop
<1>1. /\ <<b, "L2">> \in Driver /\ after \in [Batch -> Nat]
  BY Drivers DEF BaseInv, Inv1, TypeOK, HistoryTypes
<1>2. bst[b] = "closed" => bst'[b] = "closed" BY NextMoved DEF BaseInv, Moved, Edge
<1>3. L2Moves(b) BY NextDrivers DEF BaseInv
<1>4. CASE after'[b] = after[b] BY <1>1, <1>2, <1>3, <1>4 DEF AfterStop, L2Moves
<1>5. CASE after'[b] # after[b]
  <2>1. PICK w \in Driver : /\ pc[w] = "call" /\ Taken(w) /\ UNCHANGED bst
                            /\ pc'[w] \in {"taken", "next"}
    BY <1>5, NextTaken DEF BaseInv
  <2>2. w[1] = b /\ bst[b] = "closed" /\ after'[b] = after[b] + 1
    BY <1>1, <1>5, <2>1 DEF Taken
  <2>3. w[2] # "L3" BY <2>1, <2>2, CallsHeld DEF InTransaction
  <2>4. w = <<b, "L2">> BY <2>2, <2>3, Drivers
  <2>5. after[b] = 0 BY <1>1, <2>1, <2>4 DEF AfterStop
  <2> QED BY <1>2, <2>1, <2>2, <2>4, <2>5
<1> QED BY <1>4, <1>5

\* Only a new batch gets drafts, and a batch is sent when it has none left open.
LEMMA NextDrafted ==
    ASSUME Inv1, [Next]_vars, NEW d \in Draft
    PROVE  /\ dst'[d] = "drafted" => dst[d] = "drafted" \/ bst[d[1]] = "none"
           /\ bst'[d[1]] = "sent" => bst[d[1]] = "sent" \/ dst'[d] # "drafted"
<1> DEFINE P == /\ dst'[d] = "drafted" => dst[d] = "drafted" \/ bst[d[1]] = "none"
                /\ bst'[d[1]] = "sent" => bst[d[1]] = "sent" \/ dst'[d] # "drafted"
<1>1. /\ bst \in [Batch -> BatchStatus]
      /\ dst \in [Draft -> {"none", "drafted", "sent", "skipped", "halted"}]
      /\ d[1] \in Batch /\ d \in DraftsOf(d[1])
  BY Drivers DEF Inv1, TypeOK, RowTypes
<1>2. ASSUME UNCHANGED dst, bst' = bst \/ \A x \in Batch : bst'[x] = bst[x] \/ bst'[x] # "sent"
      PROVE  P
  BY <1>1, <1>2
<1>3. ASSUME NEW S, dst' = Halted(S),
             \A x \in Batch : bst'[x] = bst[x] \/ bst'[x] # "sent"
      PROVE  P
  <2>1. dst'[d] = "drafted" => dst[d] = "drafted" BY <1>3 DEF Halted
  <2> QED BY <1>1, <1>3, <2>1
<1>4. ASSUME NEW S, Close(S) PROVE P
  <2>1. dst' = Halted(S) /\ \A x \in Batch : bst'[x] = bst[x] \/ bst'[x] # "sent"
    BY <1>4 DEF Close
  <2> QED BY <1>3, <2>1
<1>5. ASSUME NEW c \in Batch, Outside(c) PROVE P
  <2>1. CASE Persist(c)
    <3>1. bst[c] = "none" /\ bst' = [bst EXCEPT ![c] = "awaiting"] BY <2>1 DEF Persist
    <3>2. dst'[d] = IF d[1] = c THEN "drafted" ELSE dst[d] BY <2>1 DEF Persist
    <3> QED BY <1>1, <3>1, <3>2
  <2>2. CASE AskRefused(c)
    <3>1. bst' = [bst EXCEPT ![c] = "closed"] BY <2>2 DEF AskRefused
    <3>2. dst'[d] = IF d[1] = c THEN "halted" ELSE dst[d] BY <2>2 DEF AskRefused
    <3> QED BY <1>1, <3>1, <3>2
  <2>3. CASE Flip(c) BY <1>1, <1>2, <2>3 DEF Flip
  <2>4. CASE Inbound(c) BY <1>1, <1>2, <2>4 DEF Inbound, Demoted
  <2>5. CASE Approve(c) BY <1>1, <1>2, <2>5 DEF Approve
  <2>6. CASE Reject(c)
    <3>1. \E S : Close(S) BY <2>6 DEF Reject
    <3> QED BY <1>4, <3>1
  <2>7. CASE Edit(c)
    <3>1. PICK S : /\ dst' = Halted(S)
                   /\ bst' = [x \in Batch |-> IF x = c THEN "edit"
                                              ELSE IF x \in S THEN "closed" ELSE bst[x]]
      BY <2>7 DEF Edit
    <3>2. \A x \in Batch : bst'[x] = bst[x] \/ bst'[x] # "sent" BY <3>1
    <3> QED BY <1>3, <3>1, <3>2
  <2>8. CASE CancelBatch(c) BY <1>4, <2>8 DEF CancelBatch
  <2> HIDE DEF P
  <2> QED
    BY <1>2, <1>5, <2>1, <2>2, <2>3, <2>4, <2>5, <2>6, <2>7, <2>8
    DEF Outside, ExecutorDies, Anchor, WindowPasses, GracePasses, Grant, Eligible, Notify, AskArmed
<1>6. ASSUME NEW c \in Batch, StartHold(c) \/ StartL2(c) PROVE P
  BY <1>2, <1>6 DEF StartHold, StartL2
<1>7. ASSUME StopBegins \/ StopCommits PROVE P
  BY <1>2, <1>4, <1>7 DEF StopBegins, StopCommits
<1>8. ASSUME UNCHANGED vars PROVE P BY <1>2, <1>8 DEF vars
<1>9. ASSUME NEW w \in Driver, DriverStep(w) \/ DriverBreaks(w) PROVE P
  <2>1. w[1] \in Batch BY Drivers
  <2>2. ASSUME NEW D, bst' = Finalized(w[1], D), dst' = D, D[d] = "drafted" => dst[d] = "drafted"
        PROVE  P
    <3>1. \/ bst'[d[1]] = bst[d[1]]
          \/ d[1] = w[1] /\ Terminal(w[1], D)
      BY <1>1, <2>1, <2>2, FinalizedMoves
    <3>2. Terminal(d[1], D) => D[d] # "drafted" BY <1>1 DEF Terminal
    <3> QED BY <2>2, <3>1, <3>2
  <2>3. CASE Finalize(w)
    <3>1. bst' = Finalized(w[1], dst) /\ dst' = dst BY <2>3 DEF Finalize
    <3> QED BY <2>2, <3>1
  <2>4. ASSUME NEW D, Settle(w, D), D[d] = "drafted" => dst[d] = "drafted" PROVE P
    <3>1. dst' = D /\ (bst' = Finalized(w[1], D) \/ UNCHANGED bst) BY <2>4 DEF Settle
    <3> QED BY <2>2, <2>4, <3>1
  <2>5. CASE Skip(w)
    <3> DEFINE D == [dst EXCEPT ![cur[w]] = IF @ = "drafted" THEN "skipped" ELSE @]
    <3>1. Settle(w, D) BY <2>5 DEF Skip
    <3>2. D[d] = "drafted" => dst[d] = "drafted" BY <1>1
    <3> HIDE DEF D
    <3> QED BY <2>4, <3>1, <3>2
  <2>6. CASE Mark(w)
    <3> DEFINE D == [dst EXCEPT ![cur[w]] = "sent"]
    <3>1. Settle(w, D) BY <2>6 DEF Mark
    <3>2. D[d] = "drafted" => dst[d] = "drafted" BY <1>1
    <3> HIDE DEF D
    <3> QED BY <2>4, <3>1, <3>2
  <2>7. ASSUME NEW x \in Draft, Begin(w, x) PROVE P
    <3>1. UNCHANGED dst /\ bst' \in {bst, [bst EXCEPT ![w[1]] = "sending"]}
      BY <2>7 DEF Begin
    <3> QED BY <1>1, <1>2, <2>1, <3>1
  <2>8. CASE DemoteStep(w) BY <1>1, <1>2, <2>1, <2>8 DEF DemoteStep, Demoted
  <2>9. ASSUME NEW x \in Draft, Ineligible(w, x) PROVE P
    <3>1. UNCHANGED bst /\ dst' = [dst EXCEPT ![x] = "skipped"] BY <2>9 DEF Ineligible
    <3> QED BY <1>1, <3>1
  <2> HIDE DEF P
  <2> QED
    BY <1>2, <1>9, <2>3, <2>5, <2>6, <2>7, <2>8, <2>9
    DEF DriverStep, Poll, Lock, Enumerate, Finish, Transport, Decline, Echo, Claim, Deliver,
        Fail, Record, RecordFails, PassOver, Ineligible, DriverBreaks,
        DriverDies, DriverRaises, Abort
<1> HIDE DEF P
<1>10. P BY <1>5, <1>6, <1>7, <1>8, <1>9, Steps
<1> QED BY <1>10 DEF P

LEMMA NextWhole ==
    ASSUME Inv1, WholeReport, [Next]_vars
    PROVE  WholeReport'
<1> SUFFICES ASSUME NEW d \in Draft, bst'[d[1]] = "sent" PROVE dst'[d] # "drafted"
  BY DEF WholeReport
<1> QED BY NextDrafted DEF WholeReport

LEMMA Inv2Holds == Spec => [](BaseInv /\ Inv2)
<1>1. Init => Inv2
  <2> SUFFICES ASSUME Init PROVE Inv2 OBVIOUS
  <2>1. ApprovedDrives /\ DueInside BY Drivers DEF Init, ApprovedDrives, DueInside
  <2>2. AfterStop BY DEF Init, AfterStop
  <2>3. WholeReport BY Drivers DEF Init, WholeReport
  <2> QED BY <2>1, <2>2, <2>3 DEF Inv2
<1>2. BaseInv /\ Inv2 /\ [Next]_vars => Inv2'
  BY NextApproved, NextDue, NextAfter, NextWhole DEF Inv2, BaseInv
<1> QED BY <1>1, <1>2, BaseHolds, PTL DEF Spec

\* Silence sends only after the notice was delivered and its window ran out
\* (l3_hold.py's delivery anchor), whatever demoted and re-armed the batch meanwhile.
THEOREM InformedSilence == Spec => SilenceIsInformed
<1>1. ASSUME BaseInv, Inv2, NEW w \in Driver, SentBy(w) /\ w[2] = "L3"
      PROVE  anchor[w[1]] = "due"
  <2>1. w[1] \in Batch /\ w = <<w[1], "L3">> BY <1>1, Drivers
  <2>2. bst[w[1]] = "hold" BY <1>1, CallsHeld DEF SentBy, InTransaction
  <2> QED BY <1>1, <2>1, <2>2 DEF Inv2, DueInside, SentBy
<1>2. BaseInv /\ Inv2 =>
        [\A w \in Driver : SentBy(w) /\ w[2] = "L3" => anchor[w[1]] = "due"]_vars
  BY <1>1
<1> QED BY <1>2, Inv2Holds, PTL DEF SilenceIsInformed

\* A stop leaves one message at most, of a batch the owner had approved.
THEOREM StopBound == Spec => []StopLeavesOne
<1>1. BaseInv /\ Inv2 => StopLeavesOne
  <2> SUFFICES ASSUME BaseInv, Inv2, NEW b \in Batch
               PROVE  after[b] <= 1 /\ (after[b] = 1 => pc[<<b, "L2">>] # "idle")
    BY DEF StopLeavesOne
  <2>1. after[b] \in Nat BY DEF BaseInv, Inv1, TypeOK, HistoryTypes
  <2> QED BY <2>1 DEF Inv2, AfterStop
<1> QED BY <1>1, Inv2Holds, PTL

\* A batch is reported sent only when none of its drafts is left to send.
THEOREM WholeReports == Spec => []SentIsWhole
<1>1. Inv2 => SentIsWhole
  BY Drivers DEF Inv2, WholeReport, SentIsWhole, Drafted
<1> QED BY <1>1, Inv2Holds, PTL


-------------------------------------------------------------------------------
(* Inv3: the ledger and the message in hand.                                    *)

\* Two drivers of a batch are never in a call together.
LEMMA Exclusive ==
    ASSUME BaseInv, ApprovedDrives, NEW w \in Driver, NEW v \in Driver \ {w},
           pc[w] \in InTransaction, pc[v] \in InTransaction
    PROVE  w[1] # v[1] /\ cur[w] # cur[v]
<1>1. w[1] # v[1]
  <2> SUFFICES ASSUME w[1] = v[1] PROVE FALSE OBVIOUS
  <2>1. PICK x \in {w, v}, y \in {w, v} : x[2] = "L3" /\ y[2] = "L2" /\ x[1] = y[1]
    BY Drivers
  <2>2. bst[x[1]] = "hold" BY <2>1, CallsHeld
  <2>3. pc[y] # "idle" /\ y = <<x[1], "L2">> /\ x[1] \in Batch
    BY <2>1, Drivers DEF InTransaction
  <2> QED BY <2>2, <2>3 DEF ApprovedDrives
<1>2. cur[w] \in DraftsOf(w[1]) /\ cur[v] \in DraftsOf(v[1])
  BY DEF BaseInv, Inv1, TypeOK, ProcessTypes, InHand, InTransaction
<1> QED BY <1>1, <1>2 DEF DraftsOf

\* A step that writes no ledger, sends nothing and records no draft as sent.
Quiet ==
    /\ UNCHANGED <<ledger, past>>
    /\ \A d \in Draft : dst'[d] = "sent" => dst[d] = "sent"
    /\ \A v \in Driver :
          \/ pc'[v] = pc[v] /\ cur'[v] = cur[v]
          \/ pc'[v] \notin {"lock", "send", "call", "taken", "mark"}
          \/ pc'[v] \in {"lock", "send"} /\ dst'[cur'[v]] # "sent"

LEMMA QuietInv3 ==
    ASSUME BaseInv, ApprovedDrives, Inv3, Quiet, [Next]_vars
    PROVE  Inv3'
<1> USE DEF Inv3
<1>1. Unlogged' /\ Logged' BY DEF Quiet, past, Unlogged, Logged
<1>2. InCall' BY DEF Quiet, past, InCall
<1>3. SentIsTrue' BY DEF Quiet, past, SentIsTrue
<1>4. UnsentInHand'
  <2> SUFFICES ASSUME NEW w \in Driver,
                      pc'[w] \in {"send", "call"} \/ (pc'[w] = "lock" /\ bst'[w[1]] = "hold")
               PROVE  dst'[cur'[w]] # "sent"
    BY DEF UnsentInHand
  <2>1. CASE pc'[w] = pc[w] /\ cur'[w] = cur[w]
    <3>1. cur[w] \in Draft
      BY <2>1 DEF BaseInv, Inv1, TypeOK, ProcessTypes, InHand, DraftsOf
    <3>2. dst[cur[w]] # "sent"
      <4>1. CASE pc[w] \in {"send", "call"} BY <4>1 DEF UnsentInHand
      <4>2. CASE pc[w] = "lock" /\ bst'[w[1]] = "hold"
        <5>1. w[1] \in Batch /\ (w = <<w[1], "L2">> \/ w = <<w[1], "L3">>) BY Drivers
        <5>2. AnchorMoves(w[1]) BY <5>1, NextAnchor
        <5>3. CASE bst[w[1]] = "hold" BY <4>2, <5>3 DEF UnsentInHand
        <5>4. CASE bst[w[1]] # "hold"
          <6>1. arm[w[1]] # "done" /\ bst[w[1]] # "hold" BY <4>2, <5>2, <5>4 DEF AnchorMoves
          <6>2. w = <<w[1], "L2">> BY <4>2, <5>1, <6>1 DEF BaseInv, ArmedFirst
          <6>3. pc'[<<w[1], "L2">>] # "idle" /\ pc[<<w[1], "L2">>] = "lock" BY <4>2, <6>2
          <6> QED BY <5>1, <6>3 DEF ApprovedDrives
        <5> QED BY <5>3, <5>4
      <4> QED BY <2>1, <4>1, <4>2
    <3> QED BY <2>1, <3>1, <3>2 DEF Quiet
  <2>2. CASE pc'[w] \in {"lock", "send"} /\ dst'[cur'[w]] # "sent" BY <2>2
  <2> QED BY <2>1, <2>2 DEF Quiet
<1> QED BY <1>1, <1>2, <1>3, <1>4


LEMMA OutsideQuiet ==
    ASSUME BaseInv,
           \/ UNCHANGED vars \/ StopBegins \/ StopCommits
           \/ \E b \in Batch : Outside(b) \/ StartHold(b) \/ StartL2(b)
    PROVE  Quiet
<1>1. UNCHANGED <<ledger, past>>
  BY DEF Outside, Persist, ExecutorDies, Anchor, WindowPasses, GracePasses, Inbound, Approve,
         Reject, Edit, CancelBatch, Grant, Eligible, Notify, Flip, AskArmed, AskRefused,
         StartHold, StartL2, StopBegins, StopCommits, vars
<1>2. \A d \in Draft : dst'[d] = "sent" => dst[d] = "sent"
  <2> SUFFICES ASSUME NEW d \in Draft PROVE dst'[d] = "sent" => dst[d] = "sent" OBVIOUS
  <2>1. CASE UNCHANGED dst BY <2>1
  <2>2. CASE \E S : dst' = Halted(S) BY <2>2 DEF Halted
  <2>3. ASSUME NEW c \in Batch, NEW l \in {"drafted", "halted"},
               dst' = [x \in Draft |-> IF x[1] = c THEN l ELSE dst[x]]
        PROVE  dst'[d] = "sent" => dst[d] = "sent"
    BY <2>3
  <2>4. ASSUME NEW c \in Batch, Outside(c) \/ StartHold(c) \/ StartL2(c)
        PROVE  dst'[d] = "sent" => dst[d] = "sent"
    <3>1. CASE Persist(c) BY <2>3, <3>1 DEF Persist
    <3>2. CASE AskRefused(c) BY <2>3, <3>2 DEF AskRefused
    <3>3. CASE Reject(c)
      <4>1. \E S : dst' = Halted(S) BY <3>3 DEF Reject, Close
      <4> QED BY <2>2, <4>1
    <3>4. CASE Edit(c)
      <4>1. \E S : dst' = Halted(S) BY <3>4 DEF Edit
      <4> QED BY <2>2, <4>1
    <3>5. CASE CancelBatch(c) BY <2>2, <3>5 DEF CancelBatch, Close
    <3> QED
      BY <2>1, <2>4, <3>1, <3>2, <3>3, <3>4, <3>5
      DEF Outside, ExecutorDies, Anchor, WindowPasses, GracePasses, Inbound, Approve, Grant,
          Eligible, Notify, Flip, AskArmed, StartHold, StartL2
  <2>5. CASE StopBegins \/ StopCommits \/ UNCHANGED vars
    BY <2>1, <2>2, <2>5 DEF StopBegins, StopCommits, Close, vars
  <2> QED BY <2>4, <2>5
<1>3. \A v \in Driver : \/ pc'[v] = pc[v] /\ cur'[v] = cur[v]
                        \/ pc'[v] \in {"poll", "enum"}
  <2>1. UNCHANGED cur
    BY DEF Outside, Persist, ExecutorDies, Anchor, WindowPasses, GracePasses, Inbound, Approve,
           Reject, Edit, CancelBatch, Grant, Eligible, Notify, Flip, AskArmed, AskRefused,
           StartHold, StartL2, StopBegins, StopCommits, vars, drivers
  <2>2. \/ UNCHANGED pc
        \/ \E w \in Driver : \E l \in {"poll", "enum"} : pc' = [pc EXCEPT ![w] = l]
    <3>1. \A b \in Batch : <<b, "L2">> \in Driver /\ <<b, "L3">> \in Driver BY Drivers
    <3> QED
      BY <3>1
      DEF Outside, Persist, ExecutorDies, Anchor, WindowPasses, GracePasses, Inbound, Approve,
          Reject, Edit, CancelBatch, Grant, Eligible, Notify, Flip, AskArmed, AskRefused,
          StartHold, StartL2, StopBegins, StopCommits, vars, drivers, Goto
  <2> QED BY <2>1, <2>2 DEF BaseInv, Inv1, TypeOK, ProcessTypes
<1> QED BY <1>1, <1>2, <1>3 DEF Quiet

\* The steps of a driver that are not about the call.
LEMMA DriverQuiet ==
    ASSUME BaseInv, Inv3, NEW w \in Driver,
           DriverStep(w) \/ DriverBreaks(w),
           ~Echo(w), ~Claim(w), ~Deliver(w), ~Fail(w), ~Record(w), ~Mark(w)
    PROVE  Quiet
<1>1. /\ pc \in [Driver -> DriverPc] /\ cur \in [Driver -> Draft \cup {Nobody}]
      /\ dst \in [Draft -> {"none", "drafted", "sent", "skipped", "halted"}]
  BY DEF BaseInv, Inv1, TypeOK, ProcessTypes, RowTypes
<1>2. ASSUME NEW l, NEW x, Goto(w, l), cur' = [cur EXCEPT ![w] = x],
             UNCHANGED <<ledger, past>>, \A d \in Draft : dst'[d] = "sent" => dst[d] = "sent",
             \/ l \notin {"lock", "send", "call", "taken", "mark"}
             \/ l \in {"lock", "send"} /\ dst'[x] # "sent"
      PROVE  Quiet
  <2>1. \A v \in Driver : IF v = w THEN pc'[v] = l /\ cur'[v] = x
                                   ELSE pc'[v] = pc[v] /\ cur'[v] = cur[v]
    BY <1>1, <1>2 DEF Goto
  <2> QED BY <1>2, <2>1 DEF Quiet
<1>3. cur = [cur EXCEPT ![w] = cur[w]] BY <1>1
<1>4. CASE DriverBreaks(w) BY <1>2, <1>4 DEF DriverBreaks, DriverDies, DriverRaises, Abort
<1>5. CASE Poll(w)
  <2>1. pc[w] = "poll" /\ \E l \in {"done", "demote", "enum"} : Goto(w, l) BY <1>5 DEF Poll
  <2> QED BY <1>2, <1>3, <1>5, <2>1 DEF Poll
<1>6. CASE DemoteStep(w) \/ Finish(w) BY <1>2, <1>3, <1>6 DEF DemoteStep, Finish
<1>7. CASE Enumerate(w) BY <1>2, <1>3, <1>7 DEF Enumerate
<1>8. CASE Lock(w)
  <2>1. CASE StillHeld(w[1])
    <3>1. dst[cur[w]] # "sent"
      BY <1>8, <2>1 DEF Lock, StillHeld, Inv3, UnsentInHand
    <3> QED BY <1>2, <1>3, <1>8, <2>1, <3>1 DEF Lock
  <2>2. CASE ~StillHeld(w[1]) BY <1>2, <1>8, <2>2 DEF Lock
  <2> QED BY <2>1, <2>2
<1>9. CASE Finalize(w) BY <1>2, <1>9 DEF Finalize, Return
<1>10. CASE Skip(w)
  <2> DEFINE D == [dst EXCEPT ![cur[w]] = IF @ = "drafted" THEN "skipped" ELSE @]
  <2>1. Settle(w, D) /\ UNCHANGED <<ledger, past>> BY <1>10 DEF Skip
  <2>2. \A d \in Draft : D[d] = "sent" => dst[d] = "sent" BY <1>1
  <2> HIDE DEF D
  <2>3. \A d \in Draft : dst'[d] = "sent" => dst[d] = "sent" BY <2>1, <2>2 DEF Settle
  <2>4. CASE Return(w) BY <1>2, <2>1, <2>3, <2>4 DEF Return
  <2>5. CASE Goto(w, "final") /\ UNCHANGED cur BY <1>2, <1>3, <2>1, <2>3, <2>5
  <2> QED BY <2>1, <2>4, <2>5 DEF Settle
<1>11. CASE Decline(w) \/ RecordFails(w) BY <1>2, <1>11 DEF Decline, RecordFails, Return
<1>12. ASSUME NEW d \in Draft, PassOver(w, d) PROVE Quiet
  BY <1>12 DEF PassOver, Quiet
<1>13. ASSUME NEW d \in Draft, Begin(w, d) PROVE Quiet
  <2>1. dst[d] = "drafted" /\ UNCHANGED dst BY <1>13 DEF Begin, Sendable
  <2>2. Goto(w, "lock") \/ Goto(w, "send") BY <1>13 DEF Begin
  <2> QED BY <1>2, <1>13, <2>1, <2>2 DEF Begin
<1>14. ASSUME NEW d \in Draft, Ineligible(w, d) PROVE Quiet
  <2>1. \A x \in Draft : dst'[x] = "sent" => dst[x] = "sent" BY <1>1, <1>14 DEF Ineligible
  <2> QED BY <1>2, <1>14, <2>1 DEF Ineligible
<1> QED
  BY <1>4, <1>5, <1>6, <1>7, <1>8, <1>9, <1>10, <1>11, <1>12, <1>13, <1>14
  DEF DriverStep, Transport


\* A step of the call changes the record of the draft in hand only.
Loud(w, d) ==
    /\ \A x \in Draft \ {d} : /\ ledger'[x] = ledger[x] /\ delivered'[x] = delivered[x]
                              /\ dst'[x] = dst[x]
                              /\ x \in blurred => x \in blurred'
    /\ \A v \in Driver \ {w} : pc'[v] = pc[v] /\ cur'[v] = cur[v]
    /\ pc'[w] # "lock"
    /\ pc'[w] \in {"send", "call", "taken", "mark"} => cur'[w] = d
    /\ ledger'[d] \in {"none", "error"} => delivered'[d] = 0 \/ d \in blurred'
    /\ ledger'[d] = "sent" => delivered'[d] > 0
    /\ dst'[d] = "sent" => delivered'[d] > 0 \/ ledger'[d] = "sending"
    /\ pc'[w] \in {"call", "taken"} => ledger'[d] = "sending"
    /\ pc'[w] = "call" => delivered'[d] = 0 \/ d \in blurred'
    /\ pc'[w] = "taken" => delivered'[d] > 0
    /\ pc'[w] = "mark" => delivered'[d] > 0 \/ ledger'[d] = "sending"
    /\ pc'[w] \in {"send", "call"} => dst'[d] # "sent"

LEMMA LoudInv3 ==
    ASSUME BaseInv, ApprovedDrives, Inv3, [Next]_vars,
           NEW w \in Driver, pc[w] \in InTransaction, Loud(w, cur[w])
    PROVE  Inv3'
<1> DEFINE d == cur[w]
<1>1. /\ d \in DraftsOf(w[1]) /\ d \in Draft
      /\ \A v \in Driver : pc[v] \in InHand => cur[v] \in DraftsOf(v[1]) /\ cur[v] \in Draft
  BY DEF BaseInv, Inv1, TypeOK, ProcessTypes, InHand, InTransaction, DraftsOf
<1>2. Loud(w, d) OBVIOUS
<1>3. \A v \in Driver \ {w} : pc[v] \in InTransaction => cur[v] # d
  BY Exclusive
<1> HIDE DEF d
<1>4. Unlogged' BY <1>2 DEF Loud, Inv3, Unlogged
<1>5. Logged' BY <1>2 DEF Loud, Inv3, Logged
<1>6. SentIsTrue' BY <1>2 DEF Loud, Inv3, SentIsTrue
<1>7. InCall'
  <2> SUFFICES ASSUME NEW v \in Driver
               PROVE  /\ pc'[v] \in {"call", "taken"} => ledger'[cur'[v]] = "sending"
                      /\ pc'[v] = "call" => delivered'[cur'[v]] = 0 \/ cur'[v] \in blurred'
                      /\ pc'[v] = "taken" => delivered'[cur'[v]] > 0
                      /\ pc'[v] = "mark" => delivered'[cur'[v]] > 0 \/ ledger'[cur'[v]] = "sending"
    BY DEF InCall
  <2>1. CASE v = w BY <1>2, <2>1 DEF Loud
  <2>2. CASE v # w /\ pc'[v] \in {"call", "taken", "mark"}
    <3>1. pc'[v] = pc[v] /\ cur'[v] = cur[v] BY <1>2, <2>2 DEF Loud
    <3>2. cur[v] \in Draft \ {d} BY <1>1, <1>3, <2>2, <3>1 DEF InHand, InTransaction
    <3> QED BY <1>2, <3>1, <3>2 DEF Loud, Inv3, InCall
  <2> QED BY <2>1, <2>2
<1>8. UnsentInHand'
  <2> SUFFICES ASSUME NEW v \in Driver,
                      pc'[v] \in {"send", "call"} \/ (pc'[v] = "lock" /\ bst'[v[1]] = "hold")
               PROVE  dst'[cur'[v]] # "sent"
    BY DEF UnsentInHand
  <2>1. CASE v = w BY <1>2, <2>1 DEF Loud
  <2>2. CASE v # w /\ pc'[v] \in {"send", "call"}
    <3>1. pc'[v] = pc[v] /\ cur'[v] = cur[v] BY <1>2, <2>2 DEF Loud
    <3>2. cur[v] \in Draft \ {d} BY <1>1, <1>3, <2>2, <3>1 DEF InHand, InTransaction
    <3> QED BY <1>2, <2>2, <3>1, <3>2 DEF Loud, Inv3, UnsentInHand
  <2>3. CASE v # w /\ pc'[v] = "lock" /\ bst'[v[1]] = "hold"
    <3>1. pc'[v] = pc[v] /\ cur'[v] = cur[v] BY <1>2, <2>3 DEF Loud
    <3>2. v[1] \in Batch /\ v = <<v[1], "L3">>
      BY <2>3, <3>1, Drivers DEF ApprovedDrives
    <3>3. bst[v[1]] = "hold"
      <4>1. AnchorMoves(v[1]) BY <3>2, NextAnchor
      <4> QED BY <2>3, <3>1, <3>2, <4>1 DEF AnchorMoves, BaseInv, ArmedFirst
    <3>4. w[1] # v[1]
      <4> SUFFICES ASSUME w[1] = v[1] PROVE FALSE OBVIOUS
      <4>1. w = <<v[1], "L2">> BY <2>3, <3>2, Drivers
      <4> QED BY <3>2, <3>3, <4>1 DEF ApprovedDrives, InTransaction
    <3>5. cur[v] \in Draft \ {d} BY <1>1, <2>3, <3>1, <3>4 DEF InHand, DraftsOf
    <3> QED BY <1>2, <2>3, <3>1, <3>3, <3>5 DEF Loud, Inv3, UnsentInHand
  <2> QED BY <2>1, <2>2, <2>3
<1> QED BY <1>4, <1>5, <1>6, <1>7, <1>8 DEF Inv3

LEMMA CallLoud ==
    ASSUME BaseInv, Inv3, NEW w \in Driver,
           Echo(w) \/ Claim(w) \/ Deliver(w) \/ Fail(w) \/ Record(w) \/ Mark(w)
    PROVE  pc[w] \in InTransaction /\ Loud(w, cur[w])
<1> DEFINE d == cur[w]
<1>1. pc[w] \in {"send", "call", "taken", "mark"}
  BY DEF Echo, Claim, Deliver, Fail, Record, Mark
<1>2. /\ pc \in [Driver -> DriverPc] /\ cur \in [Driver -> Draft \cup {Nobody}]
      /\ dst \in [Draft -> {"none", "drafted", "sent", "skipped", "halted"}]
      /\ ledger \in [Draft -> {"none", "sending", "sent", "error"}]
      /\ delivered \in [Draft -> Nat] /\ d \in Draft
  BY <1>1 DEF BaseInv, Inv1, TypeOK, ProcessTypes, RowTypes, HistoryTypes, InHand, DraftsOf
<1>3. /\ pc[w] \in {"send", "call"} => dst[d] # "sent"
      /\ ledger[d] \in {"none", "error"} => delivered[d] = 0 \/ d \in blurred
      /\ ledger[d] = "sent" => delivered[d] > 0
      /\ dst[d] = "sent" => delivered[d] > 0 \/ ledger[d] = "sending"
      /\ pc[w] \in {"call", "taken"} => ledger[d] = "sending"
      /\ pc[w] = "call" => delivered[d] = 0 \/ d \in blurred
      /\ pc[w] = "taken" => delivered[d] > 0
      /\ pc[w] = "mark" => delivered[d] > 0 \/ ledger[d] = "sending"
  BY <1>2 DEF Inv3, UnsentInHand, Unlogged, Logged, SentIsTrue, InCall
<1> HIDE DEF d
<1>4. ASSUME NEW l, Goto(w, l) PROVE pc'[w] = l /\ \A v \in Driver \ {w} : pc'[v] = pc[v]
  BY <1>2, <1>4 DEF Goto
<1>5. Echo(w) => Loud(w, d)
  <2> SUFFICES ASSUME Echo(w) PROVE Loud(w, d) OBVIOUS
  <2>1. UNCHANGED <<dst, ledger, cur, delivered, blurred>> /\ pc[w] = "send" /\ Used(d) /\ Goto(w, "mark")
    BY DEF Echo, past, d
  <2> QED BY <1>2, <1>3, <1>4, <2>1 DEF Loud, Used, d
<1>6. Claim(w) => Loud(w, d)
  <2> SUFFICES ASSUME Claim(w) PROVE Loud(w, d) OBVIOUS
  <2>1. /\ UNCHANGED <<dst, cur, delivered, blurred>> /\ pc[w] = "send" /\ ~Used(d)
        /\ Goto(w, "call") /\ ledger' = [ledger EXCEPT ![d] = "sending"]
    BY DEF Claim, past, d
  <2>2. ledger[d] \in {"none", "error"} BY <1>2, <2>1 DEF Used
  <2> QED BY <1>2, <1>3, <1>4, <2>1, <2>2 DEF Loud, d
<1>7. Deliver(w) => Loud(w, d)
  <2> SUFFICES ASSUME Deliver(w) PROVE Loud(w, d) OBVIOUS
  <2>1. /\ UNCHANGED <<dst, cur, ledger, blurred>> /\ pc[w] = "call"
        /\ Goto(w, "taken") /\ delivered' = [delivered EXCEPT ![d] = @ + 1]
    BY DEF Deliver, Taken, d
  <2> QED BY <1>2, <1>3, <1>4, <2>1 DEF Loud, d
<1>8. Fail(w) => Loud(w, d)
  <2> SUFFICES ASSUME Fail(w) PROVE Loud(w, d) OBVIOUS
  <2>1. /\ UNCHANGED dst /\ pc[w] = "call" /\ Goto(w, "next")
        /\ cur' = [cur EXCEPT ![w] = Nobody]
        /\ ledger' \in {ledger, [ledger EXCEPT ![d] = "error"]}
        /\ \/ delivered' = [delivered EXCEPT ![d] = @ + 1] /\ blurred' = blurred \cup {d}
           \/ UNCHANGED <<delivered, blurred>>
    BY DEF Fail, Return, Taken, past, d
  <2> QED BY <1>2, <1>3, <1>4, <2>1 DEF Loud, d
<1>9. Record(w) => Loud(w, d)
  <2> SUFFICES ASSUME Record(w) PROVE Loud(w, d) OBVIOUS
  <2>1. /\ UNCHANGED <<dst, delivered, blurred>> /\ pc[w] = "taken"
        /\ ledger' = [ledger EXCEPT ![d] = "sent"]
        /\ \/ Goto(w, "mark") /\ UNCHANGED cur
           \/ Goto(w, "next") /\ cur' = [cur EXCEPT ![w] = Nobody]
    BY DEF Record, Return, past, d
  <2> QED BY <1>2, <1>3, <1>4, <2>1 DEF Loud, d
<1>10. Mark(w) => Loud(w, d)
  <2> SUFFICES ASSUME Mark(w) PROVE Loud(w, d) OBVIOUS
  <2>1. /\ UNCHANGED <<ledger, delivered, blurred>> /\ pc[w] = "mark"
        /\ dst' = [dst EXCEPT ![d] = "sent"]
        /\ \/ Goto(w, "next") /\ cur' = [cur EXCEPT ![w] = Nobody]
           \/ Goto(w, "final") /\ UNCHANGED cur
    BY DEF Mark, Settle, Return, past, d
  <2>2. \A v \in Driver \ {w} : cur'[v] = cur[v] BY <1>2, <2>1
  <2>3. /\ pc'[w] \in {"next", "final"}
        /\ \A v \in Driver \ {w} : pc'[v] = pc[v]
    BY <1>4, <2>1
  <2> QED BY <1>2, <1>3, <2>1, <2>2, <2>3 DEF Loud
<1> QED BY <1>1, <1>5, <1>6, <1>7, <1>8, <1>9, <1>10 DEF InTransaction, d


LEMMA NextInv3 ==
    ASSUME BaseInv, ApprovedDrives, Inv3, [Next]_vars
    PROVE  Inv3'
<1>1. ASSUME NEW w \in Driver,
             Echo(w) \/ Claim(w) \/ Deliver(w) \/ Fail(w) \/ Record(w) \/ Mark(w)
      PROVE  Inv3'
  BY <1>1, CallLoud, LoudInv3
<1>2. ASSUME NEW w \in Driver, DriverStep(w) \/ DriverBreaks(w) PROVE Inv3'
  BY <1>1, <1>2, DriverQuiet, QuietInv3
<1> QED BY <1>2, OutsideQuiet, QuietInv3, Steps

LEMMA Inv3Holds == Spec => [](BaseInv /\ Inv2 /\ Inv3)
<1>1. Init => Inv3
  <2> SUFFICES ASSUME Init PROVE Inv3 OBVIOUS
  <2>1. Unlogged /\ Logged BY DEF Init, Unlogged, Logged
  <2>2. InCall /\ UnsentInHand BY DEF Init, InCall, UnsentInHand
  <2>3. SentIsTrue BY DEF Init, SentIsTrue
  <2> QED BY <2>1, <2>2, <2>3 DEF Inv3
<1>2. BaseInv /\ Inv2 /\ Inv3 /\ [Next]_vars => Inv3' BY NextInv3 DEF Inv2
<1> QED BY <1>1, <1>2, Inv2Holds, PTL DEF Spec

\* What the operator reads as sent was taken by Twilio, or died in an attempt the ledger
\* still shows in flight (the idempotency hit of send_whatsapp_template).
THEOREM TrueReports == Spec => []SentIsTrue
<1>1. Inv3 => SentIsTrue BY DEF Inv3
<1> QED BY <1>1, Inv3Holds, PTL

\* A step takes a message for one draft, or changes nothing a customer could notice.
LEMMA NextPromised ==
    ASSUME BaseInv, Inv3, [Next]_vars
    PROVE  [Promise!Next]_<<delivered, blurred>>
<1>1. ASSUME NEW w \in Driver, Deliver(w) \/ Fail(w)
      PROVE  Promise!Next \/ UNCHANGED <<delivered, blurred>>
  <2>1. pc[w] = "call" BY <1>1 DEF Deliver, Fail
  <2>2. cur[w] \in Draft
    BY <2>1 DEF BaseInv, Inv1, TypeOK, ProcessTypes, InHand, DraftsOf
  <2>3. delivered[cur[w]] = 0 \/ cur[w] \in blurred BY <2>1 DEF Inv3, InCall
  <2>4. CASE Taken(w) /\ blurred' \in {blurred, blurred \cup {cur[w]}}
    <3>1. delivered' = [delivered EXCEPT ![cur[w]] = @ + 1] BY <2>4 DEF Taken
    <3>2. Promise!Deliver(cur[w]) BY <2>3, <2>4, <3>1 DEF Promise!Deliver
    <3> QED BY <2>2, <3>2 DEF Promise!Next
  <2>5. CASE UNCHANGED past BY <2>5 DEF past
  <2> QED BY <1>1, <2>4, <2>5 DEF Deliver, Fail
<1>2. ASSUME Quiet PROVE UNCHANGED <<delivered, blurred>> BY <1>2 DEF Quiet, past
<1>3. ASSUME NEW w \in Driver, DriverStep(w) \/ DriverBreaks(w)
      PROVE  Promise!Next \/ UNCHANGED <<delivered, blurred>>
  <2>1. CASE Deliver(w) \/ Fail(w) BY <1>1, <2>1
  <2>2. CASE Echo(w) \/ Claim(w) \/ Record(w) \/ Mark(w)
    BY <2>2 DEF Echo, Claim, Record, Mark, past
  <2> QED BY <1>2, <1>3, <2>1, <2>2, DriverQuiet
<1>4. CASE \/ UNCHANGED vars \/ StopBegins \/ StopCommits
           \/ \E b \in Batch : Outside(b) \/ StartHold(b) \/ StartL2(b)
  BY <1>2, <1>4, OutsideQuiet
<1> QED BY <1>3, <1>4, Steps

\* The drivers and the ledger keep the promise of EffectOnce for every draft.
THEOREM PromiseRefinement == Spec => PromiseKept
<1>1. Init => Promise!Init BY DEF Init, Promise!Init
<1>2. BaseInv /\ Inv2 /\ Inv3 /\ [Next]_vars => [Promise!Next]_<<delivered, blurred>>
  BY NextPromised
<1> QED BY <1>1, <1>2, Inv3Holds, PTL DEF Spec, PromiseKept, Promise!Spec

===============================================================================
