------------------------ MODULE ManagerTaskStoryProofs ------------------------
(* More safety of ManagerTask, for every value of its constants: what the owner *)
(* is told about a task, who waits for the owner, and in which order the steps  *)
(* of a plan run.                                                               *)
EXTENDS ManagerTaskSafetyProofs

-------------------------------------------------------------------------------
(* The closures. A workflow or a sweep that has told the owner how a task ended *)
(* leaves the row 'delivered', and nothing sets it to 'pending' again: the      *)
(* workflow is past its last settle function, or the row is dead_letter and no  *)
(* sweep has it among the candidates it read before.                            *)

Closing == {"notify", "tail", "tailNotify", "settle", "promote", "done"}

DeadForGood(t) == row[t].status = "dead_letter" /\ \A c \in scanned : c[1] # t

OneClosure ==
    \A t \in Task : told[t] # {} =>
        /\ row[t].notify = "delivered"
        /\ loc[t].pc \in Closing \/ DeadForGood(t)
        /\ \A x, y \in told[t] : x = y

\* What a sweep remembers is dead, and it strikes a candidate once.
SweepBooks ==
    /\ \A t \in struck \union holders : DeadForGood(t)
    /\ \A c, d \in scanned : c[1] = d[1] => c = d

StoryInv == redrives = 0 => OneClosure /\ SweepBooks

(* It holds of an empty database.                                               *)
LEMMA InitStory == Init => StoryInv
BY DEF Init, StoryInv, OneClosure, SweepBooks

(* A compare-and-set that changes the status alone leaves the other columns.    *)
LEMMA StatusAlone ==
    ASSUME TypeInv, NEW t \in Task, NEW from, NEW s, Cas(t, from, Status(t, s)) \/ UNCHANGED taskVars
    PROVE  /\ row'[t].notify = row[t].notify /\ row'[t].outcome = row[t].outcome
           /\ row'[t].stamp = row[t].stamp
BY DEF TypeInv, TypeOK, Row, Cas, Status, taskVars

(* A block, a decline or a verification writes only a task that is not closed.  *)
LEMMA CasOpen ==
    ASSUME NEW t \in Task, NEW from \in SUBSET NonTerminal, NEW new, Cas(t, from, new)
    PROVE  UNCHANGED row \/ row[t].status \in NonTerminal
BY DEF Cas, taskVars

(* A workflow that is closing goes on closing.                                  *)
LEMMA ClosingStep ==
    ASSUME TypeInv, NEW t \in Task, Workflow(t), loc[t].pc \in Closing
    PROVE  /\ NotifyOwner(t) \/ TailRead(t) \/ SettleBlock(t) \/ Promote(t)
           /\ loc'[t].pc \in Closing
<1>1. NotifyOwner(t) \/ TailRead(t) \/ SettleBlock(t) \/ Promote(t)
  BY DEF Workflow, Closing, At, TriageStart, CyclesSpent, ClaimNone, ClaimStep, TakeStep,
         ClaimRejected, Validated, ValidationFails, ReviewAccepts, ReviewRevises, ReviewAsks,
         ReviewEscalates, ReviewSkipped, DispatchRaises, GateArms, GateRefused, Revise,
         RevisionsSpent, AnswerSeen, PollsSpent, GiveUp, ArmEscalation, Park,
         ApprovalSeen, Execute, Report, AfterExecute, Decline, ChangesAsked,
         ResumeAfterChanges, OwnerUnreachable, Verified, AppendRetryStep, VerifySpent
<1>2. PICK p \in Closing : Go(t, Jump(t, p))
  BY <1>1 DEF NotifyOwner, TailRead, SettleBlock, Promote, Closing
<1>3. loc \in [Task -> Loc] /\ Jump(t, p).pc = p
  BY DEF TypeInv, TypeOK, Jump, Loc
<1> QED
  BY <1>1, <1>2, <1>3 DEF Go, GoElse, Crash

(* What a step of a workflow does to what the owner was told: it sends the      *)
(* closure, or it blocks, declines or completes a task that is not closed, or   *)
(* it leaves the notification alone.                                            *)
LEMMA NotifyStep ==
    ASSUME TypeInv, NEW t \in Task, Workflow(t)
    PROVE  \/ loc[t].pc \in {"notify", "tailNotify"} /\ Closure(t)
           \/ told' = told /\ row'[t].notify = row[t].notify
           \/ told' = told /\ row[t].status \in NonTerminal /\ loc[t].pc \notin Closing
<1> USE DEF taskVars, effectVars
<1>1. CASE NotifyOwner(t)
  BY <1>1 DEF NotifyOwner
<1>2. CASE \/ TriageStart(t) \/ ClaimNone(t) \/ ClaimRejected(t) \/ Validated(t)
           \/ ReviewRevises(t) \/ ReviewSkipped(t) \/ DispatchRaises(t)
           \/ GateArms(t) \/ GateRefused(t) \/ Revise(t) \/ PollsSpent(t)
  BY <1>2 DEF TriageStart, ClaimNone, ClaimRejected, Validated, ReviewRevises, ReviewSkipped,
              DispatchRaises, GateArms, GateRefused, Revise, PollsSpent, StopPolling
<1>3. CASE \/ \E ran, advanced \in BOOLEAN : Execute(t, ran, advanced)
           \/ \E heard \in BOOLEAN : Report(t, heard)
           \/ AfterExecute(t) \/ ChangesAsked(t) \/ TailRead(t)
  BY <1>3 DEF Execute, FanOut, Report, AfterExecute, ChangesAsked, TailRead
<1>4. CASE \/ CyclesSpent(t) \/ ValidationFails(t) \/ RevisionsSpent(t) \/ GiveUp(t)
           \/ ArmEscalation(t) \/ OwnerUnreachable(t) \/ VerifySpent(t)
  <2>1. Block(t) /\ told' = told /\ loc[t].pc \notin Closing
    BY <1>4 DEF CyclesSpent, ValidationFails, RevisionsSpent, GiveUp, ArmEscalation,
                OwnerUnreachable, VerifySpent, At, Closing
  <2>2. UNCHANGED row \/ row[t].status \in NonTerminal
    BY <2>1, CasOpen DEF Block
  <2> QED
    BY <2>1, <2>2
<1>5. CASE Decline(t) \/ Verified(t)
  <2>1. told' = told /\ loc[t].pc \notin Closing
    BY <1>5 DEF Decline, Verified, At, Closing
  <2>2. {"verifying"} \in SUBSET NonTerminal
    BY DEF NonTerminal, ActiveState
  <2>3. UNCHANGED row \/ row[t].status \in NonTerminal
    BY <1>5, <2>2, CasOpen DEF Decline, Verified
  <2> QED
    BY <2>1, <2>3
<1>6. CASE \/ ClaimStep(t) \/ \E campaign \in BOOLEAN : ReviewAccepts(t, campaign)
           \/ ReviewAsks(t) \/ ReviewEscalates(t) \/ AnswerSeen(t)
  <2>1. told' = told
    BY <1>6 DEF ClaimStep, TakeStep, ReviewAccepts, ReviewAsks, ReviewEscalates, AnswerSeen
  <2>2. \E from, s : Cas(t, from, Status(t, s)) \/ UNCHANGED taskVars
    BY <1>6 DEF ClaimStep, TakeStep, ReviewAccepts, ReviewAsks, ReviewEscalates, AnswerSeen,
                StepThenTask
  <2> QED
    BY <2>1, <2>2, StatusAlone
<1>7. CASE ApprovalSeen(t) \/ ResumeAfterChanges(t) \/ SettleBlock(t)
  <2>1. told' = told
    BY <1>7 DEF ApprovalSeen, ResumeAfterChanges, SettleBlock
  <2>2. \E from, s : Cas(t, from, Status(t, s)) \/ UNCHANGED taskVars
    BY <1>7 DEF ApprovalSeen, Restore, ResumeAfterChanges, SettleBlock
  <2> QED
    BY <2>1, <2>2, StatusAlone
<1>8. CASE Park(t)
  <2>1. row \in [Task -> Row] /\ told' = told
    BY <1>8 DEF Park, TypeInv, TypeOK
  <2>2. UNCHANGED row \/ row' = [row EXCEPT ![t] = Parked(t)]
    BY <1>8 DEF Park
  <2>3. Parked(t).notify = row[t].notify
    BY <2>1 DEF Parked, Status, Row
  <2> QED
    BY <2>1, <2>2, <2>3
<1>9. CASE AppendRetryStep(t)
  BY <1>9 DEF AppendRetryStep, TypeInv, TypeOK, Row
<1>10. CASE Promote(t)
  <2>1. told' = told /\ (UNCHANGED row \/ HandsOver(t))
    BY <1>10, PromoteHandsOver DEF Promote
  <2>2. ASSUME NEW q \in Task, row' = [row EXCEPT ![q].status = "planned"]
        PROVE  row'[t].notify = row[t].notify
    BY <2>2 DEF TypeInv, TypeOK, Row
  <2> QED
    BY <2>1, <2>2 DEF HandsOver, Queued
<1> QED
  BY <1>1, <1>2, <1>3, <1>4, <1>5, <1>6, <1>7, <1>8, <1>9, <1>10 DEF Workflow

(* Sending a closure, or leaving it, changes no status, and tells at most the   *)
(* outcome of a row whose notification is pending.                              *)
LEMMA ClosureTells ==
    ASSUME TypeInv, NEW t \in Task, Closure(t)
    PROVE  /\ \A u \in Task \ {t} : row'[u] = row[u] /\ told'[u] = told[u]
           /\ row'[t].status = row[t].status
           /\ row[t].notify # "pending" => row' = row /\ told' = told
           /\ \/ told'[t] = told[t]
              \/ told'[t] = told[t] \union {row[t].outcome} /\ row'[t].notify = "delivered"
           /\ row'[t].outcome = row[t].outcome
BY DEF Closure, TypeInv, TypeOK, Row, taskVars

(* A step after which every closure told still stands, if it sends none.        *)
LEMMA StoryKept ==
    ASSUME OneClosure, SweepBooks, UNCHANGED told, scanned' \subseteq scanned,
           \A u \in Task : loc[u].pc \in Closing => loc'[u].pc \in Closing,
           \A u \in Task : told[u] # {} => row'[u].notify = row[u].notify,
           \A u \in Task : DeadForGood(u) => row'[u].status = "dead_letter",
           \A u \in (struck' \union holders') \ (struck \union holders) : DeadForGood(u)',
           struck' \union holders' \subseteq Task
    PROVE  OneClosure' /\ SweepBooks'
<1>1. \A u \in Task : DeadForGood(u) => DeadForGood(u)'
  BY DEF DeadForGood
<1>2. OneClosure'
  BY <1>1 DEF OneClosure
<1>3. SweepBooks'
  BY <1>1 DEF SweepBooks
<1> QED
  BY <1>2, <1>3

(* One step of a workflow.                                                      *)
LEMMA WorkflowStory ==
    ASSUME TypeInv, TypeInv', StoryInv, NEW t \in Task, Workflow(t)
    PROVE  StoryInv'
<1> SUFFICES ASSUME redrives' = 0 PROVE OneClosure' /\ SweepBooks'
  BY DEF StoryInv
<1>1. UNCHANGED <<scanned, struck, holders, redrives>>
  BY DEF Workflow, reapVars, TriageStart, CyclesSpent, ClaimNone, ClaimStep, TakeStep,
       ClaimRejected, Validated, ValidationFails, ReviewAccepts, ReviewRevises, ReviewAsks,
       ReviewEscalates, ReviewSkipped, DispatchRaises, GateArms, GateRefused, Revise,
       RevisionsSpent, AnswerSeen, PollsSpent, StopPolling, GiveUp, ArmEscalation, Park,
       ApprovalSeen, Execute, FanOut, Report, AfterExecute, Decline, ChangesAsked,
       ResumeAfterChanges, OwnerUnreachable, Verified, AppendRetryStep, VerifySpent,
       NotifyOwner, TailRead, SettleBlock, Promote
<1>2. /\ OneClosure /\ SweepBooks
      /\ row \in [Task -> Row] /\ told \in [Task -> SUBSET Outcome]
      /\ struck' \union holders' \subseteq Task
  BY <1>1 DEF StoryInv, TypeInv, TypeOK
<1>3. \A u \in Task \ {t} : loc'[u] = loc[u]
  <2>1. CASE TriageStart(t)
    BY <2>1 DEF TriageStart, TypeInv, TypeOK
  <2>2. CASE ~TriageStart(t)
    BY <2>2, WorkflowEffect DEF Moves
  <2> QED
    BY <2>1, <2>2
<1>4. \A u \in Task : loc[u].pc \in Closing => loc'[u].pc \in Closing
  BY <1>3, ClosingStep
<1>5. /\ \A u \in Task \ {t} : row'[u] = row[u] \/ (row[u].status = "queued" /\ row'[u].notify = row[u].notify)
      /\ row[t].status = "dead_letter" => row'[t].status = "dead_letter"
  <2>1. CASE TriageStart(t)
    BY <2>1 DEF TriageStart, taskVars
  <2>2. CASE ~TriageStart(t) /\ Writes(t)
    BY <2>2 DEF Writes, NonTerminal, ActiveState
  <2>3. CASE HandsOver(t)
    BY <1>2, <2>3 DEF HandsOver, Queued, Row
  <2> QED
    BY <2>1, <2>2, <2>3, WorkflowEffect
<1>6. \A u \in Task : DeadForGood(u) => row'[u].status = "dead_letter"
  BY <1>5 DEF DeadForGood
<1>7. CASE told' = told /\ \/ row'[t].notify = row[t].notify
                           \/ row[t].status \in NonTerminal /\ loc[t].pc \notin Closing
  <2>1. told[t] # {} => row'[t].notify = row[t].notify
    BY <1>2, <1>7 DEF OneClosure, DeadForGood, NonTerminal, ActiveState
  <2>2. \A u \in Task : told[u] # {} => row'[u].notify = row[u].notify
    BY <1>5, <2>1
  <2> QED
    BY <1>1, <1>2, <1>4, <1>6, <1>7, <2>2, StoryKept
<1>8. CASE loc[t].pc \in {"notify", "tailNotify"} /\ Closure(t)
  <2>1. CASE row[t].notify # "pending"
    BY <1>1, <1>2, <1>4, <1>6, <1>8, <2>1, ClosureTells, StoryKept
  <2>2. CASE row[t].notify = "pending"
    <3>1. told[t] = {}
      BY <1>2, <2>2 DEF OneClosure
    <3>2. loc'[t].pc \in Closing
      BY <1>4, <1>8 DEF Closing
    <3>3. \A u \in Task : DeadForGood(u) => DeadForGood(u)'
      BY <1>1, <1>6 DEF DeadForGood
    <3>4. \A u \in Task \ {t} : row'[u] = row[u] /\ told'[u] = told[u]
      BY <1>8, ClosureTells
    <3>5. told'[t] # {} => told'[t] = {row[t].outcome} /\ row'[t].notify = "delivered"
      BY <1>8, <3>1, ClosureTells
    <3>6. OneClosure'
      BY <1>2, <1>4, <3>2, <3>3, <3>4, <3>5 DEF OneClosure
    <3>7. SweepBooks'
      BY <1>1, <1>2, <3>3 DEF SweepBooks
    <3> QED
      BY <3>6, <3>7
  <2> QED
    BY <2>1, <2>2
<1> QED
  BY <1>7, <1>8, NotifyStep

(* One statement of the stall sweep.                                            *)
LEMMA ReaperStory ==
    ASSUME TypeInv, TypeInv', SlotInv, StoryInv, Reaper
    PROVE  StoryInv'
<1> USE DEF taskVars, effectVars
<1> SUFFICES ASSUME redrives' = 0 PROVE OneClosure' /\ SweepBooks'
  BY DEF StoryInv
<1>1. UNCHANGED <<loc, redrives>>
  BY DEF Reaper, ReaperScan, ReaperDies, ReaperStrike, ReaperWakes, ReaperCloses, OrphanSweep,
         ReaperNotifies, reapVars
<1>2. /\ OneClosure /\ SweepBooks /\ row \in [Task -> Row] /\ told \in [Task -> SUBSET Outcome]
      /\ struck \subseteq Task /\ holders \subseteq Task /\ scanned \subseteq Task \X Nat
      /\ struck' \union holders' \subseteq Task
  BY <1>1 DEF StoryInv, TypeInv, TypeOK
<1>3. CASE ReaperScan
  <2>1. UNCHANGED <<row, told, holders, struck>> /\ scanned = {}
        /\ scanned' = {<<t, row[t].attempt>> : t \in Stalled}
    BY <1>3 DEF ReaperScan
  <2>2. \A c, d \in scanned' : c[1] = d[1] => c = d
    BY <2>1
  <2>3. \A u \in Task : row[u].status = "dead_letter" => \A c \in scanned' : c[1] # u
    BY <2>1 DEF Stalled, StallState
  <2>4. \A u \in Task : DeadForGood(u) => DeadForGood(u)'
    BY <2>1, <2>3 DEF DeadForGood
  <2> QED
    BY <1>1, <1>2, <2>1, <2>2, <2>4 DEF OneClosure, SweepBooks
<1>4. CASE ReaperDies
  <2>1. UNCHANGED <<row, told>> /\ scanned' = {} /\ struck' = {} /\ holders' = {}
    BY <1>4 DEF ReaperDies
  <2> QED
    BY <1>1, <1>2, <2>1, StoryKept DEF DeadForGood
<1>5. ASSUME NEW c \in scanned, ReaperStrike(c[1], c[2])
      PROVE  OneClosure' /\ SweepBooks'
  <2>1. PICK t \in Task, attempt \in Nat : ReaperStrike(t, attempt)
    BY <1>2, <1>5
  <2>2. /\ <<t, attempt>> \in scanned /\ scanned' = scanned \ {<<t, attempt>>}
        /\ UNCHANGED <<told, holders>>
        /\ \A u \in Task \ {t} : row'[u] = row[u]
        /\ row'[t].notify = row[t].notify
        /\ \/ struck' = struck
           \/ struck' = struck \union {t} /\ row'[t].status = "dead_letter"
    BY <1>2, <2>1 DEF ReaperStrike, Row
  <2>3. ~DeadForGood(t)
    BY <2>2 DEF DeadForGood
  <2>4. \A d \in scanned' : d[1] # t
    BY <1>2, <2>2 DEF SweepBooks
  <2>5. \A u \in (struck' \union holders') \ (struck \union holders) : DeadForGood(u)'
    BY <2>2, <2>4 DEF DeadForGood
  <2>6. \A u \in Task : DeadForGood(u) => row'[u].status = "dead_letter"
    BY <2>2, <2>3 DEF DeadForGood
  <2>7. \A u \in Task : told[u] # {} => row'[u].notify = row[u].notify
    BY <2>2
  <2> QED
    BY <1>1, <1>2, <2>2, <2>5, <2>6, <2>7, StoryKept
<1>6. ASSUME NEW t \in Task, ReaperWakes(t)
      PROVE  OneClosure' /\ SweepBooks'
  <2> DEFINE r == [Status(t, "planned") EXCEPT !.retry = "none"]
  <2>a. /\ UNCHANGED <<told, scanned, struck, holders>>
        /\ row[t].status = "blocked" /\ row' = [row EXCEPT ![t] = r]
    BY <1>6 DEF ReaperWakes, Cas, reapVars
  <2>b. r.notify = row[t].notify
    BY <1>2 DEF Status, Row
  <2>1. /\ UNCHANGED <<told, scanned, struck, holders>>
        /\ \A u \in Task \ {t} : row'[u] = row[u]
        /\ row'[t].notify = row[t].notify /\ row[t].status = "blocked"
    <3> HIDE DEF r
    <3> QED
      BY <1>2, <2>a, <2>b
  <2> QED
    BY <1>1, <1>2, <2>1, StoryKept DEF DeadForGood
<1>7. ASSUME NEW t \in Task, ReaperCloses(t)
      PROVE  OneClosure' /\ SweepBooks'
  <2>1. /\ t \in struck /\ struck' \subseteq struck /\ holders' \subseteq holders \union {t}
        /\ UNCHANGED <<told, scanned>>
        /\ \A u \in Task \ {t} : row'[u] = row[u]
        /\ row'[t].status = row[t].status
        /\ row[t].notify = "delivered" => row'[t].notify = row[t].notify
    BY <1>2, <1>7 DEF ReaperCloses, Row
  <2>2. \A u \in Task : DeadForGood(u) => row'[u].status = "dead_letter"
    BY <2>1 DEF DeadForGood
  <2>3. \A u \in Task : told[u] # {} => row'[u].notify = row[u].notify
    BY <1>2, <2>1 DEF OneClosure
  <2> QED
    BY <1>1, <1>2, <2>1, <2>2, <2>3, StoryKept
<1>8. ASSUME NEW t \in Task, OrphanSweep(t)
      PROVE  OneClosure' /\ SweepBooks'
  <2>1. /\ scanned = {} /\ scanned' = {} /\ UNCHANGED <<told, struck>>
        /\ holders' = holders \union {t}
        /\ \A u \in Task \ {t} : row'[u] = row[u]
        /\ row[t].status = "waiting_owner"
        /\ row' = [row EXCEPT ![t] = [row[t] EXCEPT !.status = "dead_letter", !.outcome = "escalated",
                        !.notify = IF @ = "not_required" THEN "pending" ELSE @]]
    BY <1>2, <1>8 DEF OrphanSweep, Cas
  <2>2. /\ row'[t].status = "dead_letter"
        /\ row[t].notify = "delivered" => row'[t].notify = "delivered"
    BY <1>2, <2>1 DEF Row
  <2>3. \A u \in Task : DeadForGood(u) => row'[u].status = "dead_letter"
    BY <2>1, <2>2 DEF DeadForGood
  <2>4. \A u \in Task : told[u] # {} => row'[u].notify = row[u].notify
    BY <1>2, <2>1, <2>2 DEF OneClosure
  <2>5. DeadForGood(t)'
    BY <2>1, <2>2 DEF DeadForGood
  <2> QED
    BY <1>1, <1>2, <2>1, <2>3, <2>4, <2>5, StoryKept
<1>9. ASSUME NEW t \in Task, ReaperNotifies(t)
      PROVE  OneClosure' /\ SweepBooks'
  <2>1. /\ Closure(t) /\ t \in holders /\ holders' \subseteq holders
        /\ UNCHANGED <<scanned, struck>>
    BY <1>9 DEF ReaperNotifies
  <2>2. \A u \in Task : DeadForGood(u) => row'[u].status = "dead_letter"
    BY <2>1, ClosureTells DEF DeadForGood
  <2>3. \A u \in Task : DeadForGood(u) => DeadForGood(u)'
    BY <2>1, <2>2 DEF DeadForGood
  <2>4. SweepBooks'
    BY <1>2, <2>1, <2>3 DEF SweepBooks
  <2>5. CASE row[t].notify # "pending"
    BY <1>1, <1>2, <2>1, <2>2, <2>5, ClosureTells, StoryKept
  <2>6. CASE row[t].notify = "pending"
    <3>1. told[t] = {} /\ DeadForGood(t)'
      BY <1>2, <2>1, <2>3, <2>6 DEF OneClosure, SweepBooks
    <3>2. \A u \in Task \ {t} : row'[u] = row[u] /\ told'[u] = told[u]
      BY <2>1, ClosureTells
    <3>3. told'[t] # {} => told'[t] = {row[t].outcome} /\ row'[t].notify = "delivered"
      BY <2>1, <3>1, ClosureTells
    <3>4. OneClosure'
      BY <1>1, <1>2, <2>3, <3>1, <3>2, <3>3 DEF OneClosure
    <3> QED
      BY <2>4, <3>4
  <2> QED
    BY <2>5, <2>6
<1> QED
  BY <1>3, <1>4, <1>5, <1>6, <1>7, <1>8, <1>9 DEF Reaper

(* The owner, the clock and the operator.                                       *)
LEMMA OutsideStory ==
    ASSUME TypeInv, TypeInv', SlotInv, StoryInv, Outside
    PROVE  StoryInv'
<1> USE DEF taskVars, effectVars, reapVars
<1> SUFFICES ASSUME redrives' = 0 PROVE OneClosure' /\ SweepBooks'
  BY DEF StoryInv
<1>1. UNCHANGED <<told, scanned, struck, holders, redrives>>
  <2>a. redrives' \in {redrives, redrives + 1}
    BY DEF Outside, AnHourPasses, Admit, AdmitAs, OwnerAnswers, RetryFallsDue, Redrive,
           RedriveFrom, Resolve
  <2>b. redrives \in Nat
    BY DEF TypeInv, TypeOK
  <2>1. redrives' = redrives
    BY <2>a, <2>b
  <2> QED
    BY <2>1 DEF Outside, AnHourPasses, Admit, AdmitAs, OwnerAnswers, RetryFallsDue, Redrive,
                RedriveFrom, Resolve
<1>2. /\ OneClosure /\ SweepBooks /\ row \in [Task -> Row] /\ loc \in [Task -> Loc]
      /\ struck' \union holders' \subseteq Task
  BY <1>1 DEF StoryInv, TypeInv, TypeOK
<1>3. CASE UNCHANGED <<row, loc>>
  BY <1>1, <1>2, <1>3, StoryKept DEF DeadForGood
<1>4. CASE AnHourPasses \/ \E t \in Task : OwnerAnswers(t)
  BY <1>3, <1>4 DEF AnHourPasses, OwnerAnswers
<1>5. ASSUME NEW t \in Task, NEW n \in 1..MaxPlan, Admit(t, n)
      PROVE  OneClosure' /\ SweepBooks'
  <2>1. PICK s : AdmitAs(t, n, s)
    BY <1>5 DEF Admit
  <2>2. /\ loc[t].pc = "absent" /\ row[t].status = "absent"
        /\ \A u \in Task \ {t} : row'[u] = row[u] /\ loc'[u] = loc[u]
        /\ row'[t].notify = row[t].notify
    BY <1>2, <2>1 DEF AdmitAs, At, SlotInv, AbsentHasNoRow, Row
  <2>3. \A u \in Task : loc[u].pc \in Closing => loc'[u].pc \in Closing
    BY <2>2 DEF Closing
  <2>4. \A u \in Task : DeadForGood(u) => row'[u].status = "dead_letter"
    BY <2>2 DEF DeadForGood
  <2>5. \A u \in Task : told[u] # {} => row'[u].notify = row[u].notify
    BY <2>2
  <2> QED
    BY <1>1, <1>2, <2>3, <2>4, <2>5, StoryKept
<1>6. ASSUME NEW t \in Task, RetryFallsDue(t)
      PROVE  OneClosure' /\ SweepBooks'
  <2>1. /\ loc' = loc /\ \A u \in Task \ {t} : row'[u] = row[u]
        /\ row'[t].notify = row[t].notify /\ row'[t].status = row[t].status
    BY <1>2, <1>6 DEF RetryFallsDue, Row
  <2> QED
    BY <1>1, <1>2, <2>1, StoryKept DEF DeadForGood
<1>7. ASSUME NEW t \in Task, Redrive(t)
      PROVE  FALSE
  BY <1>1, <1>7 DEF Redrive, RedriveFrom, TypeInv, TypeOK
<1>8. ASSUME NEW t \in Task, NEW d \in Dispatch, NEW decision \in Decision,
             Resolve(t, d, decision)
      PROVE  OneClosure' /\ SweepBooks'
  BY <1>1, <1>3, <1>8 DEF Resolve, TypeInv, TypeOK
<1> QED
  BY <1>4, <1>5, <1>6, <1>7, <1>8 DEF Outside

(* At most one closure is told of a task, as long as nothing is redriven.       *)
THEOREM StoryInvariant == Spec => []StoryInv
<1>1. ASSUME TypeInv, TypeInv', SlotInv, StoryInv, [Next]_vars
      PROVE  StoryInv'
  <2>1. CASE Next
    BY <1>1, <2>1, WorkflowStory, ReaperStory, OutsideStory DEF Next
  <2>2. CASE UNCHANGED vars
    BY <1>1, <2>2 DEF vars, StoryInv, OneClosure, SweepBooks, DeadForGood
  <2> QED
    BY <1>1, <2>1, <2>2
<1> QED
  BY <1>1, InitStory, TypeInvariant, SlotInvariant, PTL DEF Spec

(* The owner is never told both "done" and "I could not complete it" of a task  *)
(* nobody redrove, whoever tells: the workflow's own end, its replay after a    *)
(* crash, or the stall sweep.                                                   *)
THEOREM OneStoryTold == Spec => []OneStory
<1>1. StoryInv => OneStory
  BY DEF StoryInv, OneClosure, OneStory
<1> QED
  BY <1>1, StoryInvariant, PTL

-------------------------------------------------------------------------------
(* A run without crashes. Every step of a workflow then reaches its checkpoint, *)
(* so the program counter follows the edges below.                              *)

\* The edges out of the main loop's points.
LoopEdge(t) ==
    LET p == loc[t].pc
        q == loc'[t].pc
    IN \/ p = "triage" /\ q \in {"claim", "idle"}
       \/ p = "claim" /\ q \in {"validate", "tail", "error"}
       \/ p = "validate" /\ q \in {"dispatch", "tail"}
       \/ p = "dispatch" /\ q \in {"gate", "claim", "verify", "revise", "waitAnswer", "arm", "error"}
       \/ p = "gate" /\ q \in {"claim", "verify"}
       \/ p = "revise" /\ q \in {"claim", "tail", "error"}
       \/ p = "waitAnswer" /\ q \in {"claim", "giveUp"}
       \/ p \in {"giveUp", "arm"} /\ q = "tail"
       \/ p = "report" /\ q = "afterExec"
       \/ p = "afterExec" /\ q \in {"claim", "verify"}
       \/ p = "changed" /\ q = "claim"
       \/ p = "verify" /\ q \in {"claim", "tail", "notify"}
       \/ p \in Closing /\ q \in Closing

\* The edges of the wait for an approval, which stays with the dispatch it armed.
AskEdge(t) ==
    LET p == loc[t].pc
        q == loc'[t].pc
        a == approval[t][D(t)]
    IN \/ p = "gate" /\ q = "park" /\ D(t)' = D(t) + 1
       \/ /\ D(t)' = D(t)
          /\ \/ p = "park" /\ q = "waitApproval"
             \/ p = "waitApproval" /\ q = "route" /\ a # "pending"
             \/ p = "waitApproval" /\ q = "giveUp"
             \/ p = "route" /\ q \in {"report", "afterExec"} /\ a = "approved"
             \/ p = "route" /\ q = "changed" /\ a = "needs_changes"
             \/ p = "route" /\ q \in {"tail", "notify", "error"}

KeepsStep(t) == loc'[t].seq = loc[t].seq /\ loc'[t].gen = loc[t].gen

(* Without a crash the step moves on.                                           *)
LEMMA GoCalm ==
    ASSUME TypeInv, NEW t \in Task, NEW l, NEW again, GoElse(t, l, again), crashes' = 0
    PROVE  /\ loc' = [loc EXCEPT ![t] = l] /\ loc'[t] = l /\ crashes = 0
           /\ \A u \in Task \ {t} : loc'[u] = loc[u]
<1>1. crashes \in Nat /\ loc \in [Task -> Loc]
  BY DEF TypeInv, TypeOK
<1>2. ~Crash(t, again)
  BY <1>1 DEF Crash
<1> QED
  BY <1>1, <1>2 DEF GoElse

(* So does a review: both its commits are made.                                 *)
LEMMA ReviewCalm ==
    ASSUME TypeInv, NEW t \in Task, NEW from, NEW to, NEW taskFrom, NEW new, NEW l,
           StepThenTask(t, from, to, taskFrom, new, l), crashes' = 0
    PROVE  CasStep(t, from, to) /\ Cas(t, taskFrom, new) /\ Go(t, l)
<1>1. crashes \in Nat
  BY DEF TypeInv, TypeOK
<1>2. ~Crash(t, loc[t])
  BY <1>1 DEF Crash
<1> QED
  BY <1>2 DEF StepThenTask

(* The fields of the local states the actions go to.                            *)
LEMMA Fields ==
    ASSUME NEW l \in Loc, NEW p
    PROVE  /\ Head(l).pc = "claim" /\ Head(l).cycles = l.cycles
           /\ Tail(l).pc = "tail" /\ Tail(l).cycles = l.cycles
           /\ [Tail(l) EXCEPT !.pc = p].pc = p /\ [Tail(l) EXCEPT !.pc = p].cycles = l.cycles
           /\ [Head(l) EXCEPT !.pc = p].pc = p /\ [Head(l) EXCEPT !.pc = p].cycles = l.cycles
           /\ Dispatched(l, p).pc = p /\ Dispatched(l, p).cycles = l.cycles + 1
           /\ Dispatched(l, p).seq = l.seq /\ Dispatched(l, p).gen = l.gen
           /\ Dispatched(Head(l), p).pc = p
BY DEF Head, Tail, Dispatched, Loc

(* ... and those of a jump.                                                     *)
LEMMA JumpFields ==
    ASSUME TypeInv, NEW t \in Task, NEW p
    PROVE  /\ Jump(t, p).pc = p /\ Jump(t, p).cycles = loc[t].cycles
           /\ Jump(t, p).seq = loc[t].seq /\ Jump(t, p).gen = loc[t].gen
<1>1. loc[t] \in Loc
  BY DEF TypeInv, TypeOK
<1> QED
  BY <1>1 DEF Jump, Loc

(* replace_step without a crash: done, or refused and the workflow in ERROR.    *)
LEMMA ReplaceCalm ==
    ASSUME TypeInv, NEW t \in Task, NEW l \in Loc, Replace(t, l), crashes' = 0
    PROVE  /\ crashes = 0 /\ \A u \in Task \ {t} : loc'[u] = loc[u]
           /\ \/ ~Mine(t) /\ loc'[t].pc = "error" /\ loc'[t].cycles = loc[t].cycles
                 /\ UNCHANGED planVars
              \/ /\ Mine(t) /\ loc'[t].pc = l.pc /\ loc'[t].cycles = l.cycles
                 /\ step' = [step EXCEPT ![t][loc[t].seq] = "pending"]
                 /\ gen' = [gen EXCEPT ![t][loc[t].seq] = @ + 1]
<1>1. loc \in [Task -> Loc] /\ loc[t] \in Loc
  BY DEF TypeInv, TypeOK
<1>2. CASE Mine(t)
  <2> DEFINE r == [l EXCEPT !.revs[loc[t].seq] = @ + 1]
  <2>1. /\ Go(t, r) /\ step' = [step EXCEPT ![t][loc[t].seq] = "pending"]
        /\ gen' = [gen EXCEPT ![t][loc[t].seq] = @ + 1]
    BY <1>2 DEF Replace
  <2>2. r.pc = l.pc /\ r.cycles = l.cycles
    BY DEF Loc
  <2> HIDE DEF r
  <2> QED
    BY <1>2, <2>1, <2>2, GoCalm DEF Go
<1>3. CASE ~Mine(t)
  <2>1. loc' = [loc EXCEPT ![t] = [Tail(loc[t]) EXCEPT !.pc = "error"]] /\ crashes = 0
        /\ UNCHANGED planVars
    BY <1>3 DEF Replace, Fail, planVars
  <2> QED
    BY <1>1, <1>3, <2>1, Fields
<1> QED
  BY <1>2, <1>3

(* Every step of a workflow follows an edge.                                    *)
LEMMA CalmStep ==
    ASSUME TypeInv, NEW t \in Task, Workflow(t), crashes' = 0
    PROVE  /\ crashes = 0 /\ \A u \in Task \ {t} : loc'[u] = loc[u]
           /\ LoopEdge(t) \/ AskEdge(t)
<1> USE DEF At
<1>a. loc \in [Task -> Loc] /\ loc[t] \in Loc
  BY DEF TypeInv, TypeOK
<1>b. ASSUME NEW l, Go(t, l)
      PROVE  loc'[t] = l /\ crashes = 0 /\ \A u \in Task \ {t} : loc'[u] = loc[u]
  BY <1>b, GoCalm DEF Go
<1>1. CASE TriageStart(t)
  <2>1. crashes = 0 /\ \A u \in Task \ {t} : loc'[u] = loc[u]
    BY <1>a, <1>1 DEF TriageStart
  <2>2. loc[t].pc = "triage" /\ loc'[t].pc \in {"claim", "idle"}
    BY <1>a, <1>1 DEF TriageStart, Loc
  <2> QED
    BY <2>1, <2>2 DEF LoopEdge
<1>2. CASE \/ CyclesSpent(t) \/ ClaimNone(t) \/ ValidationFails(t) \/ RevisionsSpent(t)
           \/ GiveUp(t) \/ ArmEscalation(t) \/ OwnerUnreachable(t) \/ VerifySpent(t)
  <2>1. /\ Go(t, Tail(loc[t]))
        /\ loc[t].pc \in {"claim", "validate", "revise", "giveUp", "arm", "route", "verify"}
    BY <1>2 DEF CyclesSpent, ClaimNone, ValidationFails, RevisionsSpent, GiveUp, ArmEscalation,
                OwnerUnreachable, VerifySpent
  <2>2. loc'[t].pc = "tail" /\ D(t)' = D(t)
    BY <1>a, <1>b, <2>1, Fields DEF D
  <2> QED
    BY <1>b, <2>1, <2>2 DEF LoopEdge, AskEdge
<1>3. CASE ClaimStep(t)
  <2> DEFINE s == Least(Pending(t))
             l == [loc[t] EXCEPT !.pc = "validate", !.seq = s, !.gen = gen[t][s]]
  <2>1. loc[t].pc = "claim" /\ Go(t, l)
    BY <1>3 DEF ClaimStep, TakeStep
  <2>a. l.pc = "validate"
    BY <1>a DEF Loc
  <2> HIDE DEF l
  <2>2. loc'[t].pc = "validate"
    BY <1>b, <2>1, <2>a
  <2> QED
    BY <1>b, <2>1, <2>2 DEF LoopEdge
<1>4. CASE ClaimRejected(t) \/ DispatchRaises(t)
  <2>1. /\ loc[t].pc \in {"claim", "dispatch"} /\ crashes = 0
        /\ loc' = [loc EXCEPT ![t] = [Tail(loc[t]) EXCEPT !.pc = "error"]]
    BY <1>4 DEF ClaimRejected, DispatchRaises, Fail
  <2>2. loc'[t].pc = "error" /\ \A u \in Task \ {t} : loc'[u] = loc[u]
    BY <1>a, <2>1, Fields
  <2> QED
    BY <2>1, <2>2 DEF LoopEdge
<1>5. CASE Validated(t)
  <2>1. loc[t].pc = "validate" /\ Go(t, Jump(t, "dispatch"))
    BY <1>5 DEF Validated
  <2>2. loc'[t].pc = "dispatch"
    BY <1>b, <2>1, JumpFields
  <2> QED
    BY <1>b, <2>1, <2>2 DEF LoopEdge
<1>6. ASSUME NEW campaign \in BOOLEAN, ReviewAccepts(t, campaign)
      PROVE  /\ crashes = 0 /\ \A u \in Task \ {t} : loc'[u] = loc[u]
             /\ LoopEdge(t)
  <2>1. loc[t].pc = "dispatch"
    BY <1>6 DEF ReviewAccepts
  <2>2. PICK n \in {"verify", "claim"} : 
            \/ Go(t, [Jump(t, "gate") EXCEPT !.next = n])
            \/ Go(t, Dispatched(Head(loc[t]), n))
    <3>1. PICK n \in {"verify", "claim"} :
              LET then == IF campaign THEN [Jump(t, "gate") EXCEPT !.next = n]
                                      ELSE Dispatched(Head(loc[t]), n)
              IN \/ StepThenTask(t, "running", "done", {"running"}, Status(t, "verifying"), then)
                 \/ Go(t, then)
      BY <1>6 DEF ReviewAccepts
    <3> QED
      BY <3>1, ReviewCalm
  <2>3. [Jump(t, "gate") EXCEPT !.next = n].pc = "gate"
    BY <1>a DEF Jump, Loc
  <2>4. Dispatched(Head(loc[t]), n).pc = n
    BY <1>a, Fields
  <2>5. loc'[t].pc \in {"gate", "verify", "claim"}
    BY <1>b, <2>2, <2>3, <2>4
  <2> QED
    BY <1>b, <2>1, <2>2, <2>5 DEF LoopEdge
<1>7. CASE ReviewRevises(t) \/ ReviewAsks(t) \/ ReviewEscalates(t) \/ ReviewSkipped(t)
  <2>1. /\ loc[t].pc = "dispatch"
        /\ \E p \in {"revise", "waitAnswer", "arm"} : Go(t, Dispatched(loc[t], p))
    BY <1>7, ReviewCalm DEF ReviewRevises, ReviewAsks, ReviewEscalates, ReviewSkipped
  <2>2. loc'[t].pc \in {"revise", "waitAnswer", "arm"}
    BY <1>a, <1>b, <2>1, Fields
  <2> QED
    BY <1>b, <2>1, <2>2 DEF LoopEdge
<1>8. CASE GateArms(t)
  <2>1. loc[t].pc = "gate" /\ GoElse(t, Dispatched(loc[t], "park"), Jump(t, "dispatch"))
    BY <1>8 DEF GateArms
  <2>2. loc'[t] = Dispatched(loc[t], "park") /\ crashes = 0 /\ \A u \in Task \ {t} : loc'[u] = loc[u]
    BY <2>1, GoCalm
  <2> QED
    BY <1>a, <2>1, <2>2, Fields DEF AskEdge, D
<1>9. CASE GateRefused(t)
  <2>1. /\ loc[t].pc = "gate"
        /\ GoElse(t, Dispatched(Head(loc[t]), loc[t].next), Jump(t, "dispatch"))
    BY <1>9 DEF GateRefused
  <2>2. /\ loc'[t] = Dispatched(Head(loc[t]), loc[t].next)
        /\ crashes = 0 /\ \A u \in Task \ {t} : loc'[u] = loc[u]
    BY <2>1, GoCalm
  <2>3. loc[t].next \in {"claim", "verify"}
    BY <1>a DEF Loc
  <2> QED
    BY <1>a, <2>1, <2>2, <2>3, Fields DEF LoopEdge
<1>10. CASE Revise(t)
  <2>1. loc[t].pc = "revise" /\ Replace(t, Head(loc[t])) /\ Head(loc[t]) \in Loc
    BY <1>10, <1>a, HeadType DEF Revise
  <2>2. Head(loc[t]).pc = "claim"
    BY <1>a, Fields
  <2> QED
    BY <2>1, <2>2, ReplaceCalm DEF LoopEdge
<1>11. CASE AnswerSeen(t)
  <2>1. loc[t].pc = "waitAnswer" /\ Go(t, Head(loc[t]))
    BY <1>11, ReviewCalm DEF AnswerSeen
  <2>2. loc'[t].pc = "claim"
    BY <1>a, <1>b, <2>1, Fields
  <2> QED
    BY <1>b, <2>1, <2>2 DEF LoopEdge
<1>12. CASE PollsSpent(t)
  <2>1. /\ loc[t].pc \in {"waitAnswer", "waitApproval"} /\ crashes = 0
        /\ loc' = [loc EXCEPT ![t] = Jump(t, "giveUp")]
    BY <1>12 DEF PollsSpent, StopPolling
  <2>2. loc'[t].pc = "giveUp" /\ D(t)' = D(t) /\ \A u \in Task \ {t} : loc'[u] = loc[u]
    BY <1>a, <2>1, JumpFields DEF D
  <2> QED
    BY <2>1, <2>2 DEF LoopEdge, AskEdge
<1>13. CASE Park(t)
  <2> DEFINE l == [Jump(t, "waitApproval") EXCEPT !.pre = row[t].status]
  <2>1. loc[t].pc = "park" /\ (Go(t, l) \/ Go(t, Jump(t, "waitApproval")))
    BY <1>13 DEF Park
  <2>2. l.pc = "waitApproval" /\ l.cycles = loc[t].cycles
    BY <1>a DEF Jump, Loc
  <2>3. Jump(t, "waitApproval").pc = "waitApproval" /\ Jump(t, "waitApproval").cycles = loc[t].cycles
    BY JumpFields
  <2> HIDE DEF l
  <2>4. loc'[t].pc = "waitApproval" /\ D(t)' = D(t)
    BY <1>b, <2>1, <2>2, <2>3 DEF D
  <2> QED
    BY <1>b, <2>1, <2>4 DEF AskEdge
<1>14. CASE ApprovalSeen(t)
  <2>1. /\ loc[t].pc = "waitApproval" /\ approval[t][D(t)] # "pending"
        /\ Go(t, Jump(t, "route"))
    BY <1>14 DEF ApprovalSeen
  <2>2. loc'[t].pc = "route" /\ D(t)' = D(t)
    BY <1>b, <2>1, JumpFields DEF D
  <2> QED
    BY <1>b, <2>1, <2>2 DEF AskEdge
<1>15. ASSUME NEW ran \in BOOLEAN, NEW advanced \in BOOLEAN, Execute(t, ran, advanced)
       PROVE  /\ crashes = 0 /\ \A u \in Task \ {t} : loc'[u] = loc[u]
              /\ AskEdge(t)
  <2>1. PICK p \in {"report", "afterExec"} : Go(t, Jump(t, p))
    BY <1>15 DEF Execute, FanOut
  <2>2. loc[t].pc = "route" /\ approval[t][D(t)] = "approved"
    BY <1>15 DEF Execute
  <2>3. loc'[t].pc = p /\ D(t)' = D(t)
    BY <1>b, <2>1, JumpFields DEF D
  <2> QED
    BY <1>b, <2>1, <2>2, <2>3 DEF AskEdge
<1>16. ASSUME NEW heard \in BOOLEAN, Report(t, heard)
       PROVE  /\ crashes = 0 /\ \A u \in Task \ {t} : loc'[u] = loc[u]
              /\ LoopEdge(t)
  <2>1. loc[t].pc = "report" /\ Go(t, [Jump(t, "afterExec") EXCEPT !.reported = @ \/ heard])
    BY <1>16 DEF Report
  <2>2. [Jump(t, "afterExec") EXCEPT !.reported = @ \/ heard].pc = "afterExec"
    BY <1>a DEF Jump, Loc
  <2> QED
    BY <1>b, <2>1, <2>2 DEF LoopEdge
<1>17. CASE AfterExecute(t)
  <2>1. /\ loc[t].pc = "afterExec"
        /\ \/ Go(t, [Head(loc[t]) EXCEPT !.pc = "verify"])
           \/ Go(t, [Head(loc[t]) EXCEPT !.pc = "claim"])
    BY <1>17 DEF AfterExecute
  <2>a. /\ [Head(loc[t]) EXCEPT !.pc = "verify"].pc = "verify"
        /\ [Head(loc[t]) EXCEPT !.pc = "claim"].pc = "claim"
    BY <1>a DEF Head, Loc
  <2>2. loc'[t].pc \in {"verify", "claim"}
    BY <1>b, <2>1, <2>a
  <2> QED
    BY <1>b, <2>1, <2>2 DEF LoopEdge
<1>18. CASE Decline(t) \/ Verified(t)
  <2>1. /\ loc[t].pc \in {"route", "verify"} /\ Go(t, [Tail(loc[t]) EXCEPT !.pc = "notify"])
    BY <1>18 DEF Decline, Verified
  <2>a. /\ [Tail(loc[t]) EXCEPT !.pc = "notify"].pc = "notify"
        /\ [Tail(loc[t]) EXCEPT !.pc = "notify"].cycles = loc[t].cycles
    BY <1>a DEF Tail, Head, Loc
  <2>2. loc'[t].pc = "notify" /\ D(t)' = D(t)
    BY <1>b, <2>1, <2>a DEF D
  <2> QED
    BY <1>b, <2>1, <2>2 DEF LoopEdge, AskEdge
<1>19. CASE ChangesAsked(t)
  <2>1. /\ loc[t].pc = "route" /\ approval[t][D(t)] = "needs_changes"
        /\ Replace(t, Jump(t, "changed"))
    BY <1>19 DEF ChangesAsked
  <2>2. Jump(t, "changed").pc = "changed" /\ Jump(t, "changed").cycles = loc[t].cycles
    BY JumpFields
  <2>3. Jump(t, "changed") \in Loc
    BY <1>a, JumpType DEF PC
  <2> QED
    BY <2>1, <2>2, <2>3, ReplaceCalm DEF AskEdge, D
<1>20. CASE ResumeAfterChanges(t)
  <2>1. loc[t].pc = "changed" /\ Go(t, Head(loc[t]))
    BY <1>20 DEF ResumeAfterChanges
  <2>2. loc'[t].pc = "claim"
    BY <1>a, <1>b, <2>1, Fields
  <2> QED
    BY <1>b, <2>1, <2>2 DEF LoopEdge
<1>21. CASE AppendRetryStep(t)
  <2>1. crashes \in Nat /\ loc[t].pc = "verify"
    BY <1>21 DEF TypeInv, TypeOK, AppendRetryStep
  <2>2. Go(t, [Head(loc[t]) EXCEPT !.tries = @ + 1])
    BY <1>21, <2>1 DEF AppendRetryStep, Crash
  <2>3. Head(loc[t]) \in Loc /\ Head(loc[t]).pc = "claim"
    BY <1>a, HeadType, Fields
  <2>4. [Head(loc[t]) EXCEPT !.tries = @ + 1].pc = "claim"
    BY <2>3 DEF Loc
  <2>5. loc'[t].pc = "claim"
    BY <1>b, <2>2, <2>4
  <2> QED
    BY <1>b, <2>1, <2>2, <2>5 DEF LoopEdge
<1>22. CASE NotifyOwner(t) \/ TailRead(t) \/ SettleBlock(t) \/ Promote(t)
  <2>1. loc[t].pc \in Closing /\ \E p : Go(t, Jump(t, p))
    BY <1>22 DEF NotifyOwner, TailRead, SettleBlock, Promote, Closing
  <2>2. loc'[t].pc \in Closing
    BY <2>1, ClosingStep
  <2> QED
    BY <1>b, <2>1, <2>2 DEF LoopEdge
<1> QED
  BY <1>1, <1>2, <1>3, <1>4, <1>5, <1>6, <1>7, <1>8, <1>9, <1>10, <1>11, <1>12, <1>13,
     <1>14, <1>15, <1>16, <1>17, <1>18, <1>19, <1>20, <1>21, <1>22 DEF Workflow


(* What a step of a workflow does to the terminal outcome, the stamp and the    *)
(* closures: only a verification completes the task, only the park stamps it,   *)
(* and the owner is told what the row says.                                     *)
LEMMA RowStep ==
    ASSUME TypeInv, NEW t \in Task, Workflow(t)
    PROVE  /\ \A u \in Task \ {t} : /\ row'[u].outcome = row[u].outcome
                                    /\ row'[u].stamp = row[u].stamp /\ told'[u] = told[u]
           /\ row'[t].outcome \in {row[t].outcome, "escalated", "cancelled"} \/ Verified(t)
           /\ row'[t].stamp = row[t].stamp \/ Park(t)
           /\ told'[t] \subseteq told[t] \union {row[t].outcome}
<1> USE DEF taskVars, effectVars
<1>a. row \in [Task -> Row] /\ row[t] \in Row /\ told \in [Task -> SUBSET Outcome]
  BY DEF TypeInv, TypeOK
<1>b. \A u \in Task \ {t} : row'[u].outcome = row[u].outcome /\ row'[u].stamp = row[u].stamp
  <2>1. CASE TriageStart(t)
    BY <2>1 DEF TriageStart
  <2>2. CASE Writes(t)
    BY <2>2 DEF Writes
  <2>3. CASE HandsOver(t)
    BY <1>a, <2>3 DEF HandsOver, Queued, Row
  <2> QED
    BY <2>1, <2>2, <2>3, WorkflowEffect
<1>1. CASE NotifyOwner(t)
  <2>1. Closure(t)
    BY <1>1 DEF NotifyOwner
  <2>2. row'[t].stamp = row[t].stamp
    BY <1>a, <2>1 DEF Closure, Row
  <2> QED
    BY <1>b, <2>1, <2>2, ClosureTells
<1>2. ASSUME UNCHANGED <<row, told>>
      PROVE  /\ row'[t].outcome = row[t].outcome /\ row'[t].stamp = row[t].stamp
             /\ told' = told
  BY <1>2
<1>3. CASE \/ TriageStart(t) \/ ClaimNone(t) \/ ClaimRejected(t) \/ Validated(t)
           \/ ReviewRevises(t) \/ ReviewSkipped(t) \/ DispatchRaises(t)
           \/ GateArms(t) \/ GateRefused(t) \/ Revise(t) \/ PollsSpent(t)
  BY <1>3, <1>b, <1>2 DEF TriageStart, ClaimNone, ClaimRejected, Validated, ReviewRevises,
              ReviewSkipped, DispatchRaises, GateArms, GateRefused, Revise, PollsSpent, StopPolling
<1>4. CASE \/ \E ran, advanced \in BOOLEAN : Execute(t, ran, advanced)
           \/ \E heard \in BOOLEAN : Report(t, heard)
           \/ AfterExecute(t) \/ ChangesAsked(t) \/ TailRead(t)
  BY <1>4, <1>b, <1>2 DEF Execute, FanOut, Report, AfterExecute, ChangesAsked, TailRead
<1>5. CASE \/ CyclesSpent(t) \/ ValidationFails(t) \/ RevisionsSpent(t) \/ GiveUp(t)
           \/ ArmEscalation(t) \/ OwnerUnreachable(t) \/ VerifySpent(t)
  <2>1. Block(t) /\ told' = told
    BY <1>5 DEF CyclesSpent, ValidationFails, RevisionsSpent, GiveUp, ArmEscalation,
                OwnerUnreachable, VerifySpent
  <2> DEFINE r == [row[t] EXCEPT !.status = "blocked", !.outcome = "escalated",
                                 !.notify = "pending"]
  <2>a. Cas(t, NonTerminal, r)
    BY <2>1 DEF Block
  <2>b. r.outcome = "escalated" /\ r.stamp = row[t].stamp
    BY <1>a DEF Row
  <2>2. /\ row'[t].outcome \in {row[t].outcome, "escalated"}
        /\ row'[t].stamp = row[t].stamp
    <3> HIDE DEF r
    <3> QED
      BY <1>a, <2>a, <2>b DEF Cas
  <2> QED
    BY <1>b, <2>1, <2>2
<1>6. CASE Decline(t) \/ Verified(t)
  <2>1. told' = told
    BY <1>6 DEF Decline, Verified
  <2>2. CASE Decline(t)
    <3>1. /\ row'[t].outcome \in {row[t].outcome, "cancelled"}
          /\ row'[t].stamp = row[t].stamp
      BY <1>a, <2>2 DEF Decline, Cas, Row
    <3> QED
      BY <1>b, <2>1, <3>1
  <2>3. CASE Verified(t)
    <3> DEFINE n == IF loc[t].reported THEN "not_required" ELSE "pending"
               r == [row[t] EXCEPT !.status = "completed", !.outcome = "completed", !.notify = n]
    <3>a. Cas(t, {"verifying"}, r)
      BY <2>3 DEF Verified
    <3>b. r.stamp = row[t].stamp
      <4> HIDE DEF n
      <4> QED
        BY <1>a DEF Row
    <3>1. row'[t].stamp = row[t].stamp
      <4> HIDE DEF r
      <4> QED
        BY <1>a, <3>a, <3>b DEF Cas
    <3> QED
      BY <1>b, <2>1, <2>3, <3>1
  <2> QED
    BY <1>6, <2>2, <2>3
<1>7. CASE \/ ClaimStep(t) \/ \E campaign \in BOOLEAN : ReviewAccepts(t, campaign)
           \/ ReviewAsks(t) \/ ReviewEscalates(t) \/ AnswerSeen(t)
  <2>1. told' = told
    BY <1>7 DEF ClaimStep, TakeStep, ReviewAccepts, ReviewAsks, ReviewEscalates, AnswerSeen
  <2>2. \E from, s : Cas(t, from, Status(t, s)) \/ UNCHANGED taskVars
    BY <1>7 DEF ClaimStep, TakeStep, ReviewAccepts, ReviewAsks, ReviewEscalates, AnswerSeen,
                StepThenTask
  <2> QED
    BY <1>b, <2>1, <2>2, StatusAlone
<1>8. CASE ApprovalSeen(t) \/ ResumeAfterChanges(t) \/ SettleBlock(t)
  <2>1. told' = told
    BY <1>8 DEF ApprovalSeen, ResumeAfterChanges, SettleBlock
  <2>2. \E from, s : Cas(t, from, Status(t, s)) \/ UNCHANGED taskVars
    BY <1>8 DEF ApprovalSeen, Restore, ResumeAfterChanges, SettleBlock
  <2> QED
    BY <1>b, <2>1, <2>2, StatusAlone
<1>9. CASE Park(t)
  <2>1. told' = told
    BY <1>9 DEF Park
  <2>2. UNCHANGED row \/ row' = [row EXCEPT ![t] = Parked(t)]
    BY <1>9 DEF Park
  <2>3. Parked(t).outcome = row[t].outcome
    BY <1>a DEF Parked, Status, Row
  <2>4. row'[t].outcome = row[t].outcome
    BY <1>a, <2>2, <2>3
  <2> QED
    BY <1>b, <1>9, <2>1, <2>4
<1>10. CASE AppendRetryStep(t)
  <2>1. /\ row'[t].outcome = row[t].outcome /\ row'[t].stamp = row[t].stamp
        /\ told' = told
    BY <1>10, <1>a DEF AppendRetryStep, Row
  <2> QED
    BY <1>b, <2>1
<1>11. CASE Promote(t)
  <2>1. told' = told /\ (UNCHANGED row \/ HandsOver(t))
    BY <1>11, PromoteHandsOver DEF Promote
  <2>2. ASSUME NEW q \in Task, row' = [row EXCEPT ![q].status = "planned"]
        PROVE  row'[t].outcome = row[t].outcome /\ row'[t].stamp = row[t].stamp
    BY <1>a, <2>2 DEF Row
  <2> QED
    BY <1>b, <2>1, <2>2 DEF HandsOver, Queued
<1> QED
  BY <1>1, <1>3, <1>4, <1>5, <1>6, <1>7, <1>8, <1>9, <1>10, <1>11 DEF Workflow

(* What the other actors do to those columns, to the approvals and to the       *)
(* workflows.                                                                   *)
LEMMA OthersStep ==
    ASSUME TypeInv, Reaper \/ Outside, crashes' = 0
    PROVE  /\ crashes = 0
           /\ \A u \in Task :
                 /\ row'[u].outcome \in {row[u].outcome, "escalated"}
                 /\ row'[u].stamp = row[u].stamp
                 /\ told'[u] \subseteq told[u] \union {row[u].outcome}
                 /\ loc'[u] = loc[u] \/ (loc[u].pc = "absent" /\ loc'[u].pc = "triage")
                 /\ \A d \in Dispatch : approval'[u][d] = approval[u][d] \/ approval[u][d] = "pending"
<1> USE DEF taskVars, effectVars, ownerVars
<1>a. /\ row \in [Task -> Row] /\ loc \in [Task -> Loc] /\ told \in [Task -> SUBSET Outcome]
      /\ approval \in [Task -> [Dispatch -> Decision \union {"none", "pending"}]]
      /\ crashes \in Nat
  BY DEF TypeInv, TypeOK
<1> DEFINE Goal ==
        /\ crashes = 0
        /\ \A u \in Task :
              /\ row'[u].outcome \in {row[u].outcome, "escalated"}
              /\ row'[u].stamp = row[u].stamp
              /\ told'[u] \subseteq told[u] \union {row[u].outcome}
              /\ loc'[u] = loc[u] \/ (loc[u].pc = "absent" /\ loc'[u].pc = "triage")
              /\ \A d \in Dispatch : approval'[u][d] = approval[u][d] \/ approval[u][d] = "pending"
<1>1. CASE ReaperScan \/ AnHourPasses \/ \E t \in Task : OwnerAnswers(t)
  BY <1>1, <1>a DEF ReaperScan, AnHourPasses, OwnerAnswers
<1>2. CASE ReaperDies
  BY <1>2, <1>a DEF ReaperDies
<1>b. ASSUME crashes' = crashes, UNCHANGED <<told, approval, loc>>,
             \A u \in Task : /\ row'[u].outcome \in {row[u].outcome, "escalated"}
                             /\ row'[u].stamp = row[u].stamp
      PROVE  Goal
  BY <1>b, <1>a
<1>c. ASSUME NEW t \in Task, NEW r, row' = [row EXCEPT ![t] = r],
             r.outcome \in {row[t].outcome, "escalated"}, r.stamp = row[t].stamp
      PROVE  \A u \in Task : /\ row'[u].outcome \in {row[u].outcome, "escalated"}
                             /\ row'[u].stamp = row[u].stamp
  BY <1>c, <1>a
<1>d. ASSUME UNCHANGED row
      PROVE  \A u \in Task : /\ row'[u].outcome \in {row[u].outcome, "escalated"}
                             /\ row'[u].stamp = row[u].stamp
  BY <1>d
<1>3. ASSUME NEW t \in Task, NEW attempt \in Nat, ReaperStrike(t, attempt)
      PROVE  Goal
  <2>1. PICK s, y, a : row' = [row EXCEPT ![t].status = s, ![t].retry = y, ![t].attempt = a]
    BY <1>3 DEF ReaperStrike
  <2>2. \A u \in Task : /\ row'[u].outcome \in {row[u].outcome, "escalated"}
                        /\ row'[u].stamp = row[u].stamp
    BY <1>a, <2>1 DEF Row
  <2> QED
    BY <1>3, <1>b, <2>2 DEF ReaperStrike
<1>4. ASSUME NEW t \in Task, ReaperWakes(t)
      PROVE  Goal
  <2> DEFINE r == [Status(t, "planned") EXCEPT !.retry = "none"]
  <2>1. row' = [row EXCEPT ![t] = r]
    BY <1>4 DEF ReaperWakes, Cas
  <2>2. r.outcome = row[t].outcome /\ r.stamp = row[t].stamp
    BY <1>a DEF Status, Row
  <2> HIDE DEF r
  <2> QED
    BY <1>4, <1>b, <1>c, <2>1, <2>2 DEF ReaperWakes
<1>5. ASSUME NEW t \in Task, ReaperCloses(t)
      PROVE  Goal
  <2>1. \A u \in Task : /\ row'[u].outcome \in {row[u].outcome, "escalated"}
                        /\ row'[u].stamp = row[u].stamp
    BY <1>5, <1>a DEF ReaperCloses, Row
  <2>2. \A u \in Task, d \in Dispatch : approval'[u][d] = approval[u][d] \/ approval[u][d] = "pending"
    BY <1>5, <1>a DEF ReaperCloses
  <2> QED
    BY <1>5, <1>a, <2>1, <2>2 DEF ReaperCloses
<1>6. ASSUME NEW t \in Task, OrphanSweep(t)
      PROVE  Goal
  <2> DEFINE n == IF row[t].notify = "not_required" THEN "pending" ELSE row[t].notify
             r == [row[t] EXCEPT !.status = "dead_letter", !.outcome = "escalated", !.notify = n]
  <2>1. row' = [row EXCEPT ![t] = r]
    BY <1>6 DEF OrphanSweep, Cas
  <2>2. r.outcome = "escalated" /\ r.stamp = row[t].stamp
    <3> HIDE DEF n
    <3> QED
      BY <1>a DEF Row
  <2> HIDE DEF r
  <2> QED
    BY <1>6, <1>b, <1>c, <2>1, <2>2 DEF OrphanSweep
<1>7. ASSUME NEW t \in Task, ReaperNotifies(t)
      PROVE  Goal
  <2>1. Closure(t) /\ UNCHANGED <<approval, loc, crashes>>
    BY <1>7 DEF ReaperNotifies
  <2>2. row'[t].stamp = row[t].stamp
    BY <1>a, <2>1 DEF Closure, Row
  <2> QED
    BY <1>a, <2>1, <2>2, ClosureTells
<1>8. ASSUME NEW t \in Task, NEW n \in 1..MaxPlan, Admit(t, n)
      PROVE  Goal
  <2>1. PICK s : AdmitAs(t, n, s)
    BY <1>8 DEF Admit
  <2>2. \A u \in Task : row'[u].outcome = row[u].outcome /\ row'[u].stamp = row[u].stamp
    BY <1>a, <2>1 DEF AdmitAs, Row
  <2>3. \A u \in Task : loc'[u] = loc[u] \/ (loc[u].pc = "absent" /\ loc'[u].pc = "triage")
    BY <1>a, <2>1 DEF AdmitAs, At, Loc
  <2> QED
    BY <1>a, <2>1, <2>2, <2>3 DEF AdmitAs
<1>9. ASSUME NEW t \in Task, RetryFallsDue(t)
      PROVE  Goal
  <2>1. \A u \in Task : row'[u].outcome = row[u].outcome /\ row'[u].stamp = row[u].stamp
    BY <1>a, <1>9 DEF RetryFallsDue, Row
  <2> QED
    BY <1>9, <1>b, <2>1 DEF RetryFallsDue
<1>e. ASSUME NEW t \in Task, NEW from, Cas(t, from, Redriven(t)) \/ UNCHANGED row
      PROVE  \A u \in Task : /\ row'[u].outcome \in {row[u].outcome, "escalated"}
                             /\ row'[u].stamp = row[u].stamp
  <2>1. Redriven(t).outcome = row[t].outcome /\ Redriven(t).stamp = row[t].stamp
    BY <1>a DEF Redriven, Row
  <2>2. UNCHANGED row \/ row' = [row EXCEPT ![t] = Redriven(t)]
    BY <1>e DEF Cas
  <2> QED
    BY <1>c, <2>1, <2>2
<1>10. ASSUME NEW t \in Task, Redrive(t)
       PROVE  Goal
  BY <1>10, <1>b, <1>e DEF Redrive, RedriveFrom
<1>11. ASSUME NEW t \in Task, NEW d \in Dispatch, NEW decision \in Decision,
              Resolve(t, d, decision)
       PROVE  Goal
  <2>1. \A u \in Task : /\ row'[u].outcome \in {row[u].outcome, "escalated"}
                        /\ row'[u].stamp = row[u].stamp
    BY <1>11, <1>e DEF Resolve
  <2>2. /\ approval[t][d] = "pending" /\ approval' = [approval EXCEPT ![t][d] = decision]
        /\ UNCHANGED <<told, loc, crashes>>
    BY <1>11 DEF Resolve
  <2> QED
    BY <1>a, <2>1, <2>2
<1>12. ASSUME NEW c \in scanned, ReaperStrike(c[1], c[2])
       PROVE  Goal
  <2>1. c[1] \in Task /\ c[2] \in Nat
    BY DEF TypeInv, TypeOK
  <2> QED
    BY <1>3, <1>12, <2>1
<1> QED
  BY <1>1, <1>2, <1>12, <1>4, <1>5, <1>6, <1>7, <1>8, <1>9, <1>10, <1>11 DEF Reaper, Outside

-------------------------------------------------------------------------------
(* No success after a refusal. Until the workflow routes on the owner's         *)
(* decision, the approvals of its earlier dispatches were all granted or sent   *)
(* back for changes; a refusal takes it out of the loop, to a closing that      *)
(* reports no success. So at the verification no approval was refused.          *)

Early  == {"absent", "triage", "idle", "claim", "validate", "dispatch", "gate", "revise",
           "waitAnswer", "report", "afterExec", "changed", "verify"}
Asking == {"park", "waitApproval", "route"}

Granted(t, d) == approval[t][d] \in {"none", "approved", "needs_changes"}

LoopGranted    == \A t \in Task : loc[t].pc \in Early => \A d \in Dispatch : Granted(t, d)
AskedLast      == \A t \in Task : loc[t].pc \in Asking =>
                      \A d \in Dispatch : d # D(t) => Granted(t, d)
SuccessGranted == \A t \in Task : row[t].outcome = "completed" \/ "completed" \in told[t] =>
                      loc[t].pc \in Closing /\ \A d \in Dispatch : Granted(t, d)

RefusalInv == crashes = 0 => LoopGranted /\ AskedLast /\ SuccessGranted

(* It holds of an empty database.                                               *)
LEMMA InitRefusal == Init => RefusalInv
BY DEF Init, RefusalInv, LoopGranted, AskedLast, SuccessGranted, Granted, Asking

(* The edges of the main loop, seen from the parts of the run.                  *)
LEMMA LoopParts ==
    ASSUME NEW t \in Task, LoopEdge(t)
    PROVE  /\ loc'[t].pc \notin Asking
           /\ loc'[t].pc \in Early => loc[t].pc \in Early
           /\ loc[t].pc \in Closing => loc'[t].pc \in Closing
           /\ loc[t].pc = "verify" => loc'[t].pc \in {"claim", "tail", "notify"}
BY DEF LoopEdge, Early, Asking, Closing

(* ... and those of the wait for an approval.                                   *)
LEMMA AskParts ==
    ASSUME NEW t \in Task, AskEdge(t)
    PROVE  /\ loc[t].pc \in Asking \/ (loc[t].pc = "gate" /\ loc'[t].pc = "park" /\ D(t)' = D(t) + 1)
           /\ loc'[t].pc \in Asking => loc'[t].pc = "park" \/ D(t)' = D(t)
           /\ loc[t].pc \in Asking => loc'[t].pc # "park" /\ D(t)' = D(t)
           /\ loc'[t].pc \in Early => Granted(t, D(t))
BY DEF AskEdge, Early, Asking, Granted

(* One step of a workflow.                                                      *)
LEMMA WorkflowRefusal ==
    ASSUME TypeInv, TypeInv', RefusalInv, NEW t \in Task, Workflow(t)
    PROVE  RefusalInv'
<1> SUFFICES ASSUME crashes' = 0 PROVE LoopGranted' /\ AskedLast' /\ SuccessGranted'
  BY DEF RefusalInv
<1>1. /\ LoopGranted /\ AskedLast /\ SuccessGranted
      /\ \A u \in Task \ {t} : loc'[u] = loc[u]
      /\ LoopEdge(t) \/ AskEdge(t)
  BY CalmStep DEF RefusalInv
<1>2. \/ approval' = approval
      \/ /\ loc[t].pc = "gate" /\ loc'[t].pc = "park" /\ D(t)' = D(t) + 1
         /\ approval' = [approval EXCEPT ![t][D(t) + 1] = "pending"]
  <2>1. CASE GateArms(t)
    <3>1. /\ loc[t].pc = "gate" /\ GoElse(t, Dispatched(loc[t], "park"), Jump(t, "dispatch"))
          /\ approval' = [approval EXCEPT ![t][D(t) + 1] = "pending"]
      BY <2>1 DEF GateArms, At
    <3>2. loc'[t] = Dispatched(loc[t], "park") /\ loc[t] \in Loc
      BY <3>1, GoCalm DEF TypeInv, TypeOK
    <3> QED
      BY <3>1, <3>2, Fields DEF D
  <2> QED
    BY <2>1, WorkflowFrame
<1>3. approval \in [Task -> [Dispatch -> Decision \union {"none", "pending"}]]
      /\ \A u \in Task : D(u) \in Nat
  BY DEF TypeInv, TypeOK, Loc, D
<1>4. ASSUME NEW u \in Task, NEW d \in Dispatch,
             u # t \/ loc[t].pc # "gate" \/ d # D(t) + 1, Granted(u, d)
      PROVE  Granted(u, d)'
  <2>1. approval'[u][d] = approval[u][d]
    BY <1>2, <1>3, <1>4
  <2> QED
    BY <1>4, <2>1 DEF Granted
<1>5. LoopGranted'
  <2> SUFFICES ASSUME NEW u \in Task, loc'[u].pc \in Early, NEW d \in Dispatch
               PROVE  Granted(u, d)'
    BY DEF LoopGranted
  <2>1. CASE u # t
    BY <1>1, <1>4, <2>1 DEF LoopGranted
  <2>2. CASE u = t /\ LoopEdge(t)
    <3>1. approval' = approval
      BY <1>2, <2>2, LoopParts DEF Asking
    <3> QED
      BY <1>1, <2>2, <3>1, LoopParts DEF LoopGranted, Granted
  <2>3. CASE u = t /\ AskEdge(t)
    <3>1. loc[t].pc \in Asking /\ Granted(t, D(t))
      BY <2>3, AskParts DEF Early
    <3>2. approval' = approval
      BY <1>2, <2>3 DEF Early
    <3> QED
      BY <1>1, <2>3, <3>1, <3>2 DEF AskedLast, Granted
  <2> QED
    BY <1>1, <2>1, <2>2, <2>3
<1>6. AskedLast'
  <2> SUFFICES ASSUME NEW u \in Task, loc'[u].pc \in Asking, NEW d \in Dispatch, d # D(u)'
               PROVE  Granted(u, d)'
    BY DEF AskedLast
  <2>1. CASE u # t
    BY <1>1, <1>4, <2>1 DEF AskedLast, D
  <2>2. CASE u = t
    <3>1. AskEdge(t)
      BY <1>1, <2>2, LoopParts
    <3>2. CASE loc[t].pc = "gate"
      <4>1. D(t)' = D(t) + 1
        BY <3>1, <3>2, AskParts DEF Asking
      <4>2. Granted(t, d)
        BY <1>1, <3>2 DEF LoopGranted, Early
      <4> QED
        BY <1>4, <2>2, <4>1, <4>2
    <3>3. CASE loc[t].pc \in Asking
      <4>1. D(t)' = D(t)
        BY <3>1, <3>3, AskParts
      <4> QED
        BY <1>1, <1>4, <2>2, <3>3, <4>1 DEF AskedLast, Asking
    <3> QED
      BY <3>1, <3>2, <3>3, AskParts
  <2> QED
    BY <2>1, <2>2
<1>7. SuccessGranted'
  <2> SUFFICES ASSUME NEW u \in Task, row'[u].outcome = "completed" \/ "completed" \in told'[u]
               PROVE  loc'[u].pc \in Closing /\ \A d \in Dispatch : Granted(u, d)'
    BY DEF SuccessGranted
  <2>1. CASE row[u].outcome = "completed" \/ "completed" \in told[u]
    <3>1. loc[u].pc \in Closing /\ \A d \in Dispatch : Granted(u, d)
      BY <1>1, <2>1 DEF SuccessGranted
    <3>2. loc'[u].pc \in Closing
      BY <1>1, <3>1, ClosingStep
    <3> QED
      BY <1>4, <3>1, <3>2 DEF Closing
  <2>2. CASE ~(row[u].outcome = "completed" \/ "completed" \in told[u])
    <3>1. u = t /\ Verified(t)
      BY <2>2, RowStep
    <3>2. loc[t].pc = "verify" /\ Go(t, [Tail(loc[t]) EXCEPT !.pc = "notify"])
      BY <3>1 DEF Verified, At
    <3>3. [Tail(loc[t]) EXCEPT !.pc = "notify"].pc = "notify"
      BY DEF TypeInv, TypeOK, Tail, Head, Loc
    <3>4. loc'[t].pc = "notify"
      BY <3>2, <3>3, GoCalm DEF Go
    <3>5. \A d \in Dispatch : Granted(t, d)
      BY <1>1, <3>2 DEF LoopGranted, Early
    <3> QED
      BY <1>4, <3>1, <3>2, <3>4, <3>5 DEF Closing
  <2> QED
    BY <2>1, <2>2
<1> QED
  BY <1>5, <1>6, <1>7

(* The other actors resolve only an approval that is open.                      *)
LEMMA OthersRefusal ==
    ASSUME TypeInv, RefusalInv, Reaper \/ Outside
    PROVE  RefusalInv'
<1> SUFFICES ASSUME crashes' = 0 PROVE LoopGranted' /\ AskedLast' /\ SuccessGranted'
  BY DEF RefusalInv
<1>1. LoopGranted /\ AskedLast /\ SuccessGranted
  BY OthersStep DEF RefusalInv
<1>2. \A u \in Task, d \in Dispatch : Granted(u, d) => Granted(u, d)'
  BY OthersStep DEF Granted
<1>3. \A u \in Task : loc'[u] = loc[u] \/ (loc[u].pc \in Early /\ loc'[u].pc = "triage")
  BY OthersStep DEF Early
<1>4. LoopGranted'
  BY <1>1, <1>2, <1>3 DEF LoopGranted
<1>5. AskedLast'
  BY <1>1, <1>2, <1>3 DEF AskedLast, Asking, D
<1>6. SuccessGranted'
  <2> SUFFICES ASSUME NEW u \in Task, row'[u].outcome = "completed" \/ "completed" \in told'[u]
               PROVE  loc'[u].pc \in Closing /\ \A d \in Dispatch : Granted(u, d)'
    BY DEF SuccessGranted
  <2>1. row[u].outcome = "completed" \/ "completed" \in told[u]
    BY OthersStep
  <2>2. loc[u].pc \in Closing /\ \A d \in Dispatch : Granted(u, d)
    BY <1>1, <2>1 DEF SuccessGranted
  <2> QED
    BY <1>2, <1>3, <2>2 DEF Closing, Early
<1> QED
  BY <1>4, <1>5, <1>6

(* The invariant of a run without crashes.                                      *)
THEOREM RefusalInvariant == Spec => []RefusalInv
<1>1. ASSUME TypeInv, TypeInv', RefusalInv, [Next]_vars
      PROVE  RefusalInv'
  <2>1. CASE Next
    BY <1>1, <2>1, WorkflowRefusal, OthersRefusal DEF Next
  <2>2. CASE UNCHANGED vars
    BY <1>1, <2>2 DEF vars, RefusalInv, LoopGranted, AskedLast, SuccessGranted, Granted, D
  <2> QED
    BY <1>1, <2>1, <2>2
<1> QED
  BY <1>1, InitRefusal, TypeInvariant, PTL DEF Spec

(* Without crashes the owner never hears "done" of a task in which one of the   *)
(* approvals was refused or ran out, for any number of dispatches, revisions    *)
(* and retries.                                                                 *)
THEOREM RefusedIsNotDone == Spec => []NoSuccessAfterRefusal
<1>1. RefusalInv => NoSuccessAfterRefusal
  BY DEF RefusalInv, SuccessGranted, Granted, NoSuccessAfterRefusal
<1> QED
  BY <1>1, RefusalInvariant, PTL

-------------------------------------------------------------------------------
(* Somebody acts on the owner's yes. The task is 'running' from the claim to    *)
(* the dispatch and 'running' or 'verifying' at the gate, so the park that      *)
(* follows stamps it with the run it waits for, and no later step clears the    *)
(* stamp while that approval is open.                                           *)

StatusAtGate ==
    \A t \in Task : /\ loc[t].pc \in {"validate", "dispatch"} => row[t].status = "running"
                    /\ loc[t].pc \in {"gate", "park"} => row[t].status \in {"running", "verifying"}

Waiting(t, d)  == loc[t].pc \in {"waitApproval", "giveUp"} /\ D(t) = d
Consumer(t, d) == \/ loc[t].pc = "park" /\ D(t) = d
                  \/ row[t].stamp = d /\ (Waiting(t, d) \/ loc[t].pc \in Closing)
AskHasConsumer == \A t \in Task, d \in Dispatch : approval[t][d] = "pending" => Consumer(t, d)

NoSweepYet == scanned = {} /\ struck = {} /\ holders = {}

ConsumerInv == crashes = 0 /\ sweeps = 0 => NoSweepYet /\ StatusAtGate /\ AskHasConsumer

(* It holds of an empty database.                                               *)
LEMMA InitConsumer == Init => ConsumerInv
BY DEF Init, ConsumerInv, NoSweepYet, StatusAtGate, AskHasConsumer

(* The park of a crash-free run.                                                *)
LEMMA ParkStamps ==
    ASSUME TypeInv, NEW t \in Task, Park(t), row[t].status \in {"running", "verifying"}
    PROVE  row'[t].stamp = D(t) /\ UNCHANGED approval
<1>1. row \in [Task -> Row] /\ row' = [row EXCEPT ![t] = Parked(t)] /\ UNCHANGED approval
  BY DEF Park, TypeInv, TypeOK
<1>2. Parked(t).stamp = D(t)
  BY <1>1 DEF Parked, Status, Row
<1> QED
  BY <1>1, <1>2

(* What the workflow leaves of the task's status on its way to the park.        *)
LEMMA GateStatus ==
    ASSUME TypeInv, NEW t \in Task, Workflow(t), crashes' = 0, StatusAtGate
    PROVE  /\ loc'[t].pc \in {"validate", "dispatch"} => row'[t].status = "running"
           /\ loc'[t].pc \in {"gate", "park"} => row'[t].status \in {"running", "verifying"}
<1> USE DEF taskVars, At
<1>a. row \in [Task -> Row] /\ loc \in [Task -> Loc] /\ loc[t] \in Loc
  BY DEF TypeInv, TypeOK
<1>1. CASE loc'[t].pc = "validate"
  <2>1. loc[t].pc = "claim"
    BY <1>1, CalmStep DEF LoopEdge, AskEdge, Closing
  <2>2. CASE ClaimStep(t)
    <3>1. Cas(t, {"planned", "running"}, Status(t, "running"))
          /\ row[t].status \in {"planned", "running"}
      BY <2>2 DEF ClaimStep, TakeStep
    <3>2. Status(t, "running").status = "running"
      BY <1>a DEF Status, Row
    <3>3. row'[t].status = "running"
      BY <1>a, <3>1, <3>2 DEF Cas
    <3> QED
      BY <1>1, <3>3
  <2>3. CASE CyclesSpent(t) \/ ClaimNone(t)
    <3>1. Go(t, Tail(loc[t]))
      BY <2>3 DEF CyclesSpent, ClaimNone
    <3>2. loc'[t].pc = "tail"
      BY <1>a, <3>1, GoCalm, Fields DEF Go
    <3> QED
      BY <1>1, <3>2
  <2>4. CASE ClaimRejected(t)
    <3>1. loc' = [loc EXCEPT ![t] = [Tail(loc[t]) EXCEPT !.pc = "error"]]
      BY <2>4 DEF ClaimRejected, Fail
    <3>2. loc'[t].pc = "error"
      BY <1>a, <3>1, Fields
    <3> QED
      BY <1>1, <3>2
  <2> QED
    BY <2>1, <2>2, <2>3, <2>4
       DEF Workflow, TriageStart, Validated, ValidationFails, ReviewAccepts, ReviewRevises,
           ReviewAsks, ReviewEscalates, ReviewSkipped, DispatchRaises, GateArms, GateRefused,
           Revise, RevisionsSpent, AnswerSeen, PollsSpent, GiveUp, ArmEscalation, Park,
           ApprovalSeen, Execute, Report, AfterExecute, Decline, ChangesAsked,
           ResumeAfterChanges, OwnerUnreachable, Verified, AppendRetryStep, VerifySpent,
           NotifyOwner, TailRead, SettleBlock, Promote
<1>2. CASE loc'[t].pc = "dispatch"
  <2>1. loc[t].pc = "validate"
    BY <1>2, CalmStep DEF LoopEdge, AskEdge, Closing
  <2>2. CASE Validated(t)
    BY <1>2, <2>1, <2>2 DEF Validated, StatusAtGate
  <2>3. CASE ValidationFails(t)
    <3>1. Go(t, Tail(loc[t]))
      BY <2>3 DEF ValidationFails
    <3>2. loc'[t].pc = "tail"
      BY <1>a, <3>1, GoCalm, Fields DEF Go
    <3> QED
      BY <1>2, <3>2
  <2> QED
    BY <2>1, <2>2, <2>3
       DEF Workflow, TriageStart, CyclesSpent, ClaimNone, ClaimStep, TakeStep, ClaimRejected,
           ReviewAccepts, ReviewRevises, ReviewAsks, ReviewEscalates, ReviewSkipped,
           DispatchRaises, GateArms, GateRefused,
           Revise, RevisionsSpent, AnswerSeen, PollsSpent, GiveUp, ArmEscalation, Park,
           ApprovalSeen, Execute, Report, AfterExecute, Decline, ChangesAsked,
           ResumeAfterChanges, OwnerUnreachable, Verified, AppendRetryStep, VerifySpent,
           NotifyOwner, TailRead, SettleBlock, Promote
<1>3. CASE loc'[t].pc = "gate"
  <2>1. loc[t].pc = "dispatch" /\ row[t].status = "running"
    BY <1>3, CalmStep DEF LoopEdge, AskEdge, Closing, StatusAtGate
  <2>2. ASSUME NEW campaign \in BOOLEAN, ReviewAccepts(t, campaign)
        PROVE  row'[t].status \in {"running", "verifying"}
    <3>1. UNCHANGED row \/ Cas(t, {"running"}, Status(t, "verifying"))
      BY <2>2 DEF ReviewAccepts, StepThenTask
    <3>2. Status(t, "verifying").status = "verifying"
      BY <1>a DEF Status, Row
    <3> QED
      BY <1>a, <2>1, <3>1, <3>2 DEF Cas
  <2>3. CASE ReviewRevises(t) \/ ReviewAsks(t) \/ ReviewEscalates(t) \/ ReviewSkipped(t)
    <3>1. \E p \in {"revise", "waitAnswer", "arm"} : Go(t, Dispatched(loc[t], p))
      BY <2>3, ReviewCalm DEF ReviewRevises, ReviewAsks, ReviewEscalates, ReviewSkipped
    <3>2. loc'[t].pc \in {"revise", "waitAnswer", "arm"}
      BY <1>a, <3>1, GoCalm, Fields DEF Go
    <3> QED
      BY <1>3, <3>2
  <2>4. CASE DispatchRaises(t)
    BY <1>a, <1>3, <2>4 DEF DispatchRaises, Fail, Tail, Head, Loc
  <2> QED
    BY <1>3, <2>1, <2>2, <2>3, <2>4
       DEF Workflow, TriageStart, CyclesSpent, ClaimNone, ClaimStep, TakeStep, ClaimRejected,
           Validated, ValidationFails, GateArms, GateRefused,
           Revise, RevisionsSpent, AnswerSeen, PollsSpent, GiveUp, ArmEscalation, Park,
           ApprovalSeen, Execute, Report, AfterExecute, Decline, ChangesAsked,
           ResumeAfterChanges, OwnerUnreachable, Verified, AppendRetryStep, VerifySpent,
           NotifyOwner, TailRead, SettleBlock, Promote
<1>4. CASE loc'[t].pc = "park"
  <2>1. loc[t].pc = "gate"
    BY <1>4, CalmStep DEF LoopEdge, AskEdge, Closing
  <2>2. UNCHANGED row
    BY <2>1 DEF Workflow, TriageStart, CyclesSpent, ClaimNone, ClaimStep, TakeStep, ClaimRejected,
           Validated, ValidationFails, GateArms, GateRefused,
           ReviewAccepts, ReviewRevises, ReviewAsks, ReviewEscalates, ReviewSkipped,
           DispatchRaises, Revise, RevisionsSpent, AnswerSeen, PollsSpent, GiveUp, ArmEscalation, Park,
           ApprovalSeen, Execute, Report, AfterExecute, Decline, ChangesAsked,
           ResumeAfterChanges, OwnerUnreachable, Verified, AppendRetryStep, VerifySpent,
           NotifyOwner, TailRead, SettleBlock, Promote
  <2> QED
    BY <1>4, <2>1, <2>2 DEF StatusAtGate
<1> QED
  BY <1>1, <1>2, <1>3, <1>4

(* One step of a workflow.                                                      *)
LEMMA WorkflowConsumer ==
    ASSUME TypeInv, TypeInv', ConsumerInv, NEW t \in Task, Workflow(t)
    PROVE  ConsumerInv'
<1> SUFFICES ASSUME crashes' = 0, sweeps' = 0
             PROVE  NoSweepYet' /\ StatusAtGate' /\ AskHasConsumer'
  BY DEF ConsumerInv
<1>1. UNCHANGED <<scanned, struck, holders, sweeps>>
  BY DEF Workflow, reapVars, TriageStart, CyclesSpent, ClaimNone, ClaimStep, TakeStep,
       ClaimRejected, Validated, ValidationFails, ReviewAccepts, ReviewRevises, ReviewAsks,
       ReviewEscalates, ReviewSkipped, DispatchRaises, GateArms, GateRefused, Revise,
       RevisionsSpent, AnswerSeen, PollsSpent, StopPolling, GiveUp, ArmEscalation, Park,
       ApprovalSeen, Execute, FanOut, Report, AfterExecute, Decline, ChangesAsked,
       ResumeAfterChanges, OwnerUnreachable, Verified, AppendRetryStep, VerifySpent,
       NotifyOwner, TailRead, SettleBlock, Promote
<1>2. /\ NoSweepYet /\ StatusAtGate /\ AskHasConsumer
      /\ \A u \in Task \ {t} : loc'[u] = loc[u]
      /\ LoopEdge(t) \/ AskEdge(t)
  BY <1>1, CalmStep DEF ConsumerInv
<1>3. /\ row \in [Task -> Row] /\ \A u \in Task : D(u) \in Nat
      /\ approval \in [Task -> [Dispatch -> Decision \union {"none", "pending"}]]
  BY DEF TypeInv, TypeOK, Loc, D
<1>4. NoSweepYet'
  BY <1>1, <1>2 DEF NoSweepYet
<1>5. StatusAtGate'
  <2>1. \A u \in Task \ {t} : row'[u].status = row[u].status \/ row[u].status = "queued"
    <3>1. CASE TriageStart(t)
      BY <3>1 DEF TriageStart, taskVars
    <3>2. CASE Writes(t)
      BY <3>2 DEF Writes
    <3>3. CASE HandsOver(t)
      BY <1>3, <3>3 DEF HandsOver, Queued, Row
    <3> QED
      BY <3>1, <3>2, <3>3, WorkflowEffect
  <2> QED
    BY <1>2, <2>1, GateStatus DEF StatusAtGate
<1>6. AskHasConsumer'
  <2> SUFFICES ASSUME NEW u \in Task, NEW d \in Dispatch, approval'[u][d] = "pending"
               PROVE  Consumer(u, d)'
    BY DEF AskHasConsumer
  <2>1. CASE GateArms(t) /\ u = t /\ d = D(t) + 1
    <3>1. loc[t].pc = "gate" /\ GoElse(t, Dispatched(loc[t], "park"), Jump(t, "dispatch"))
      BY <2>1 DEF GateArms, At
    <3>2. loc'[t] = Dispatched(loc[t], "park") /\ loc[t] \in Loc
      BY <3>1, GoCalm DEF TypeInv, TypeOK
    <3>3. loc'[t].pc = "park" /\ D(t)' = d
      BY <2>1, <3>2, Fields DEF D
    <3> QED
      BY <2>1, <3>3 DEF Consumer
  <2>2. CASE ~(GateArms(t) /\ u = t /\ d = D(t) + 1)
    <3>1. approval[u][d] = "pending"
      <4>1. CASE GateArms(t)
        <5>1. approval' = [approval EXCEPT ![t][D(t) + 1] = "pending"]
          BY <4>1 DEF GateArms
        <5> QED
          BY <1>3, <2>2, <4>1, <5>1
      <4> QED
        BY <4>1, WorkflowFrame
    <3>2. Consumer(u, d)
      BY <1>2, <3>1 DEF AskHasConsumer
    <3>3. CASE u # t
      BY <1>2, <3>2, <3>3, RowStep DEF Consumer, Waiting, D
    <3>4. CASE u = t /\ loc[t].pc \in Closing
      <4>1. ~Park(t)
        BY <3>4 DEF Park, At, Closing
      <4> QED
        BY <3>2, <3>4, <4>1, ClosingStep, RowStep DEF Consumer, Closing, Waiting
    <3>5. CASE u = t /\ loc[t].pc = "park"
      <4>1. Park(t)
        BY <3>5 DEF Workflow, At, TriageStart, CyclesSpent, ClaimNone, ClaimStep, TakeStep, ClaimRejected,
           Validated, ValidationFails, GateArms, GateRefused,
           ReviewAccepts, ReviewRevises, ReviewAsks, ReviewEscalates, ReviewSkipped,
           DispatchRaises, Revise, RevisionsSpent, AnswerSeen, PollsSpent, GiveUp, ArmEscalation,
           ApprovalSeen, Execute, Report, AfterExecute, Decline, ChangesAsked,
           ResumeAfterChanges, OwnerUnreachable, Verified, AppendRetryStep, VerifySpent,
           NotifyOwner, TailRead, SettleBlock, Promote
      <4>2. row'[t].stamp = D(t)
        BY <1>2, <3>5, <4>1, ParkStamps DEF StatusAtGate
      <4>3. loc'[t].pc = "waitApproval" /\ D(t)' = D(t) /\ D(t) = d
        BY <1>2, <3>2, <3>5 DEF LoopEdge, AskEdge, Closing, Consumer, Waiting
      <4> QED
        BY <3>5, <4>2, <4>3 DEF Consumer, Waiting
    <3>6. CASE u = t /\ Waiting(t, d)
      <4>1. ~Park(t) /\ row[t].stamp = d
        BY <3>2, <3>6 DEF Park, At, Closing, Consumer, Waiting
      <4>2. row'[t].stamp = d
        BY <4>1, RowStep
      <4>3. Waiting(t, d)' \/ loc'[t].pc \in Closing
        BY <1>2, <3>1, <3>6 DEF LoopEdge, AskEdge, Closing, Waiting
      <4> QED
        BY <3>6, <4>2, <4>3 DEF Consumer
    <3> QED
      BY <3>2, <3>3, <3>4, <3>5, <3>6 DEF Consumer
  <2> QED
    BY <2>1, <2>2
<1> QED
  BY <1>4, <1>5, <1>6

(* The other actors, before the first sweep with a candidate.                   *)
LEMMA OthersConsumer ==
    ASSUME TypeInv, SlotInv, ConsumerInv, Reaper \/ Outside
    PROVE  ConsumerInv'
<1> SUFFICES ASSUME crashes' = 0, sweeps' = 0
             PROVE  NoSweepYet' /\ StatusAtGate' /\ AskHasConsumer'
  BY DEF ConsumerInv
<1> USE DEF reapVars, taskVars
<1>a. row \in [Task -> Row] /\ sweeps \in Nat /\ crashes \in Nat
  BY DEF TypeInv, TypeOK
<1>1. sweeps = 0 /\ ~ReaperScan /\ \A t \in Task : ~OrphanSweep(t)
  <2>1. sweeps' \in {sweeps, sweeps + 1}
    BY DEF Reaper, Outside, ReaperScan, ReaperDies, ReaperStrike, ReaperWakes, ReaperCloses,
           OrphanSweep, ReaperNotifies, AnHourPasses, Admit, AdmitAs, OwnerAnswers,
           RetryFallsDue, Redrive, RedriveFrom, Resolve
  <2>2. sweeps = 0 /\ sweeps' # sweeps + 1
    BY <1>a, <2>1
  <2> QED
    BY <2>2 DEF ReaperScan, OrphanSweep
<1>2. NoSweepYet /\ StatusAtGate /\ AskHasConsumer
  BY <1>1, OthersStep DEF ConsumerInv
<1>3. Outside \/ \E t \in Task : ReaperWakes(t)
  BY <1>1, <1>2 DEF Reaper, NoSweepYet, ReaperDies, ReaperCloses, ReaperNotifies
<1>4. UNCHANGED <<scanned, struck, holders>>
  BY <1>3 DEF Outside, ReaperWakes, AnHourPasses, Admit, AdmitAs, OwnerAnswers,
              RetryFallsDue, Redrive, RedriveFrom, Resolve
<1>5. NoSweepYet'
  BY <1>2, <1>4 DEF NoSweepYet
<1>6. \A u \in Task : \/ row'[u].status = row[u].status
                      \/ row[u].status \in {"absent", "blocked", "dead_letter"}
  <2>1. ASSUME NEW t \in Task, NEW from, from \subseteq {"absent", "blocked", "dead_letter"},
               NEW new, Cas(t, from, new) \/ UNCHANGED taskVars, NEW u \in Task
        PROVE  \/ row'[u].status = row[u].status
               \/ row[u].status \in {"absent", "blocked", "dead_letter"}
    BY <1>a, <2>1 DEF Cas
  <2>2. ASSUME NEW t \in Task, ReaperWakes(t) \/ Redrive(t)
        PROVE  \A u \in Task : \/ row'[u].status = row[u].status
                               \/ row[u].status \in {"absent", "blocked", "dead_letter"}
    <3>1. \E from, new : from \subseteq {"absent", "blocked", "dead_letter"} /\ Cas(t, from, new)
      BY <2>2 DEF ReaperWakes, Redrive, RedriveFrom
    <3> QED
      BY <2>1, <3>1
  <2>3. ASSUME NEW t \in Task, NEW d \in Dispatch, NEW decision \in Decision,
               Resolve(t, d, decision)
        PROVE  \A u \in Task : \/ row'[u].status = row[u].status
                               \/ row[u].status \in {"absent", "blocked", "dead_letter"}
    <3>1. Cas(t, {"dead_letter", "blocked"}, Redriven(t)) \/ UNCHANGED taskVars
      BY <2>3 DEF Resolve
    <3> QED
      BY <2>1, <3>1
  <2>4. ASSUME NEW t \in Task, NEW n \in 1..MaxPlan, Admit(t, n)
        PROVE  \A u \in Task : \/ row'[u].status = row[u].status
                               \/ row[u].status \in {"absent", "blocked", "dead_letter"}
    <3>1. PICK s : AdmitAs(t, n, s)
      BY <2>4 DEF Admit
    <3>2. row[t].status = "absent" /\ \A u \in Task \ {t} : row'[u] = row[u]
      BY <1>a, <3>1 DEF AdmitAs, At, SlotInv, AbsentHasNoRow
    <3> QED
      BY <3>2
  <2>5. ASSUME NEW t \in Task, RetryFallsDue(t)
        PROVE  \A u \in Task : row'[u].status = row[u].status
    BY <1>a, <2>5 DEF RetryFallsDue, Row
  <2>6. AnHourPasses \/ (\E t \in Task : OwnerAnswers(t)) => UNCHANGED row
    BY DEF AnHourPasses, OwnerAnswers
  <2> QED
    BY <1>3, <2>2, <2>3, <2>4, <2>5, <2>6 DEF Outside
<1>7. StatusAtGate'
  <2>1. \A u \in Task : loc'[u] = loc[u] \/ loc'[u].pc = "triage"
    BY OthersStep
  <2> QED
    BY <1>2, <1>6, <2>1 DEF StatusAtGate
<1>8. AskHasConsumer'
  <2> SUFFICES ASSUME NEW u \in Task, NEW d \in Dispatch, approval'[u][d] = "pending"
               PROVE  Consumer(u, d)'
    BY DEF AskHasConsumer
  <2>1. approval[u][d] = "pending" /\ row'[u].stamp = row[u].stamp
        /\ (loc'[u] = loc[u] \/ loc[u].pc = "absent")
    BY OthersStep
  <2>2. Consumer(u, d)
    BY <1>2, <2>1 DEF AskHasConsumer
  <2> QED
    BY <2>1, <2>2 DEF Consumer, Waiting, D, Closing
<1> QED
  BY <1>5, <1>7, <1>8

(* The invariant of a run without crashes and sweeps.                           *)
THEOREM ConsumerInvariant == Spec => []ConsumerInv
<1>1. ASSUME TypeInv, TypeInv', SlotInv, ConsumerInv, [Next]_vars
      PROVE  ConsumerInv'
  <2>1. CASE Next
    BY <1>1, <2>1, WorkflowConsumer, OthersConsumer DEF Next
  <2>2. CASE UNCHANGED vars
    BY <1>1, <2>2 DEF vars, ConsumerInv, NoSweepYet, StatusAtGate, AskHasConsumer, Consumer,
                      Waiting, D
  <2> QED
    BY <1>1, <2>1, <2>2
<1> QED
  BY <1>1, InitConsumer, TypeInvariant, SlotInvariant, PTL DEF Spec

(* Without crashes and strikes an open approval is never a dead end: the        *)
(* workflow that armed it still waits, or the task is stamped with its run, so  *)
(* a late yes redrives it.                                                      *)
THEOREM AskIsConsumed == Spec => []OpenApprovalHasConsumer
<1>1. ConsumerInv => OpenApprovalHasConsumer
  BY DEF ConsumerInv, AskHasConsumer, Consumer, Waiting, OpenApprovalHasConsumer
<1> QED
  BY <1>1, ConsumerInvariant, PTL

-------------------------------------------------------------------------------
(* Steps run in plan order. A plan's steps are numbered without a gap; the loop *)
(* claims the lowest pending one only when every other is done or pending, and  *)
(* until it comes back to the claim it writes no other step.                    *)

Contiguous(f) == \E n \in 0..MaxSteps : \A s \in StepSeq : f[s] # "none" <=> s <= n
Ordered(f)    == \A s, u \in StepSeq : u < s /\ f[s] \notin {"none", "pending"} => f[u] = "done"
Resting(f)    == \A s \in StepSeq : f[s] \in {"none", "pending", "done"}
LastBegun(f, q) == \A s \in StepSeq : s > q => f[s] \in {"none", "pending"}
OthersRest(f, q) == \A s \in StepSeq \ {q} : f[s] \in {"none", "pending", "done"}

\* No step is in flight at these points; of those, the second hold a step.
AtRest  == {"absent", "triage", "claim", "changed", "verify", "report", "afterExec"}
Reviewed == {"revise", "gate", "park", "waitApproval", "route"}
InFlight == {"validate", "dispatch", "waitAnswer"}

Holds(t, s) == /\ loc[t].seq \in StepSeq /\ Mine(t) /\ step[t][loc[t].seq] = s
               /\ LastBegun(step[t], loc[t].seq)

PlanOrder(t) ==
    LET p == loc[t].pc
    IN /\ Contiguous(step[t]) /\ Ordered(step[t])
       /\ p \in AtRest \union Reviewed => Resting(step[t])
       /\ p \in InFlight => OthersRest(step[t], loc[t].seq)
       /\ p \in {"validate", "dispatch"} => Holds(t, "running")
       /\ p = "waitAnswer" => Holds(t, "waiting")
       /\ p = "revise" => Holds(t, "pending")
       /\ p \in {"gate", "park", "waitApproval", "route"} => Holds(t, "done")

OrderInv == crashes = 0 => \A t \in Task : PlanOrder(t)

(* It holds of an empty database.                                               *)
LEMMA InitOrder == Init => OrderInv
<1> SUFFICES ASSUME Init, NEW t \in Task PROVE PlanOrder(t)
  BY DEF OrderInv
<1>1. loc[t].pc = "absent" /\ step[t] = [s \in StepSeq |-> "none"]
  BY DEF Init
<1>2. Contiguous(step[t])
  <2>1. 0 \in 0..MaxSteps /\ \A s \in StepSeq : ~(s <= 0) /\ step[t][s] = "none"
    BY <1>1, BoundsAssumption DEF StepSeq
  <2> QED
    BY <2>1 DEF Contiguous
<1> QED
  BY <1>1, <1>2 DEF PlanOrder, Ordered, Resting, InFlight

(* The lowest pending step of a plan at rest is put to work.                    *)
LEMMA ClaimOrder ==
    ASSUME NEW f \in [StepSeq -> StepStatus], NEW q \in StepSeq, f[q] = "pending",
           \A s \in StepSeq : f[s] = "pending" => q <= s,
           Contiguous(f), Ordered(f), Resting(f), NEW g, g = [f EXCEPT ![q] = "running"]
    PROVE  /\ Contiguous(g) /\ Ordered(g) /\ g[q] = "running"
           /\ LastBegun(g, q) /\ OthersRest(g, q)
<1>1. \A s \in StepSeq \ {q} : g[s] = f[s] /\ g[q] = "running" /\ s \in Nat /\ q \in Nat
  BY DEF StepSeq
<1>2. PICK n \in 0..MaxSteps : \A s \in StepSeq : f[s] # "none" <=> s <= n
  BY DEF Contiguous
<1>3. g[q] = "running" /\ q <= n
  BY <1>2
<1>4. Contiguous(g)
  BY <1>1, <1>2, <1>3 DEF Contiguous
<1>5. ASSUME NEW u \in StepSeq, u < q
      PROVE  f[u] = "done"
  <2>1. u <= n
    BY <1>3, <1>5 DEF StepSeq
  <2>2. f[u] # "none" /\ f[u] # "pending"
    BY <1>2, <1>5, <2>1 DEF StepSeq
  <2> QED
    BY <2>2 DEF Resting
<1>6. Ordered(g)
  <2> SUFFICES ASSUME NEW s \in StepSeq, NEW u \in StepSeq, u < s, g[s] \notin {"none", "pending"}
               PROVE  g[u] = "done"
    BY DEF Ordered
  <2>1. CASE s = q
    BY <1>1, <1>5, <2>1 DEF StepSeq
  <2>2. CASE s # q
    <3>1. f[u] = "done"
      BY <1>1, <2>2 DEF Ordered
    <3> QED
      BY <1>1, <3>1
  <2> QED
    BY <2>1, <2>2
<1>7. LastBegun(g, q)
  <2> SUFFICES ASSUME NEW s \in StepSeq, s > q PROVE g[s] \in {"none", "pending"}
    BY DEF LastBegun
  <2>1. s # q /\ q < s
    BY DEF StepSeq
  <2> QED
    BY <1>1, <2>1 DEF Ordered
<1>8. OthersRest(g, q)
  BY <1>1 DEF OthersRest, Resting
<1> QED
  BY <1>3, <1>4, <1>6, <1>7, <1>8

(* The step the loop holds is written: it has begun, or stays pending.          *)
LEMMA HeldOrder ==
    ASSUME NEW f \in [StepSeq -> StepStatus], NEW q \in StepSeq, NEW to \in StepStatus,
           to # "none", f[q] # "none", f[q] = "pending" => to = "pending",
           Contiguous(f), Ordered(f), LastBegun(f, q), OthersRest(f, q),
           NEW g, g = [f EXCEPT ![q] = to]
    PROVE  /\ Contiguous(g) /\ Ordered(g) /\ g[q] = to
           /\ LastBegun(g, q) /\ OthersRest(g, q)
           /\ to \in {"pending", "done"} => Resting(g)
<1>1. g[q] = to /\ \A s \in StepSeq \ {q} : g[s] = f[s]
  OBVIOUS
<1>2. Contiguous(g)
  BY <1>1 DEF Contiguous
<1>3. Ordered(g)
  <2> SUFFICES ASSUME NEW s \in StepSeq, NEW u \in StepSeq, u < s, g[s] \notin {"none", "pending"}
               PROVE  g[u] = "done"
    BY DEF Ordered
  <2>1. CASE s = q
    <3>1. f[u] = "done" /\ u # q
      BY <1>1, <2>1 DEF Ordered, StepSeq
    <3> QED
      BY <1>1, <3>1
  <2>2. CASE s # q
    <3>1. f[s] \notin {"none", "pending"}
      BY <1>1, <2>2
    <3>2. ~(s > q) /\ f[u] = "done"
      BY <3>1 DEF Ordered, LastBegun
    <3>3. u # q
      BY <2>2, <3>2 DEF StepSeq
    <3> QED
      BY <1>1, <3>2, <3>3
  <2> QED
    BY <2>1, <2>2
<1>4. LastBegun(g, q) /\ OthersRest(g, q)
  BY <1>1 DEF LastBegun, OthersRest, StepSeq
<1>5. to \in {"pending", "done"} => Resting(g)
  BY <1>1, <1>4 DEF Resting, OthersRest
<1> QED
  BY <1>1, <1>2, <1>3, <1>4, <1>5

(* A retry step is appended right behind a plan at rest.                        *)
LEMMA AppendOrder ==
    ASSUME NEW f \in [StepSeq -> StepStatus], Contiguous(f), Ordered(f), Resting(f),
           NEW c, c = Cardinality({s \in StepSeq : f[s] # "none"}), c < MaxSteps,
           NEW g, g = [f EXCEPT ![c + 1] = "pending"]
    PROVE  Contiguous(g) /\ Ordered(g) /\ Resting(g)
<1>1. PICK n \in 0..MaxSteps : \A s \in StepSeq : f[s] # "none" <=> s <= n
  BY DEF Contiguous
<1>2. {s \in StepSeq : f[s] # "none"} = 1..n
  <2>1. n \in Nat /\ n <= MaxSteps
    BY BoundsAssumption
  <2>2. \A s : s \in 1..n <=> s \in StepSeq /\ s <= n
    BY <2>1, BoundsAssumption DEF StepSeq
  <2> QED
    BY <1>1, <2>2
<1>3. c = n
  <2>1. Cardinality(1..n) = IF 1 > n THEN 0 ELSE n - 1 + 1
    BY FS_Interval
  <2>2. c = Cardinality(1..n)
    BY <1>2, Zenon
  <2>3. n \in Nat
    BY BoundsAssumption
  <2> QED
    BY <2>1, <2>2, <2>3
<1>4. n + 1 \in StepSeq /\ n + 1 \in 0..MaxSteps
  BY <1>3, BoundsAssumption DEF StepSeq
<1>5. g[n + 1] = "pending" /\ \A s \in StepSeq \ {n + 1} : g[s] = f[s]
  BY <1>3, <1>4
<1>6. \A s \in StepSeq : g[s] # "none" <=> s <= n + 1
  <2> TAKE s \in StepSeq
  <2>1. CASE s = n + 1
    BY <1>5, <2>1
  <2>2. CASE s # n + 1
    BY <1>1, <1>5, <2>2 DEF StepSeq
  <2> QED
    BY <2>1, <2>2
<1>7. Contiguous(g)
  BY <1>4, <1>6 DEF Contiguous
<1>8. Ordered(g)
  <2> SUFFICES ASSUME NEW s \in StepSeq, NEW u \in StepSeq, u < s, g[s] \notin {"none", "pending"}
               PROVE  g[u] = "done"
    BY DEF Ordered
  <2>1. s # n + 1 /\ g[s] = f[s] /\ s <= n
    BY <1>1, <1>5
  <2>2. u # n + 1
    BY <2>1 DEF StepSeq
  <2> QED
    BY <1>5, <2>1, <2>2 DEF Ordered
<1>9. Resting(g)
  BY <1>5 DEF Resting
<1> QED
  BY <1>7, <1>8, <1>9

\* The writes of the loop to its plan.
Claims(t) ==
    /\ loc[t].pc = "claim" /\ loc'[t].pc = "validate" /\ Pending(t) # {}
    /\ loc'[t].seq = Least(Pending(t)) /\ loc'[t].gen = gen[t][Least(Pending(t))]
    /\ step' = [step EXCEPT ![t][Least(Pending(t))] = "running"] /\ gen' = gen

Reviews(t) ==
    /\ loc[t].pc = "dispatch" /\ gen' = gen
    /\ \/ CasStep(t, "running", "done") /\ loc'[t].pc \in {"claim", "verify"}
       \/ CasStep(t, "running", "done") /\ loc'[t].pc = "gate" /\ KeepsStep(t)
       \/ CasStep(t, "running", "pending") /\ loc'[t].pc = "revise" /\ KeepsStep(t)
       \/ CasStep(t, "running", "waiting") /\ loc'[t].pc = "waitAnswer" /\ KeepsStep(t)
       \/ CasStep(t, "running", "failed") /\ loc'[t].pc = "arm"

Replaces(t) ==
    /\ \/ loc[t].pc = "revise" /\ loc'[t].pc = "claim"
       \/ loc[t].pc = "route" /\ loc'[t].pc = "changed"
    /\ step' = [step EXCEPT ![t][loc[t].seq] = "pending"]
    /\ gen' = [gen EXCEPT ![t][loc[t].seq] = @ + 1]

Resumes(t) == /\ loc[t].pc = "waitAnswer" /\ loc'[t].pc = "claim" /\ gen' = gen
              /\ CasStep(t, "waiting", "pending")

Appends(t) ==
    /\ loc[t].pc = "verify" /\ loc'[t].pc = "claim" /\ gen' = gen
    /\ Cardinality(Planned(t)) < MaxSteps
    /\ step' = [step EXCEPT ![t][Cardinality(Planned(t)) + 1] = "pending"]

\* A step that writes no plan leaves the loop, keeps the step it holds, or goes
\* on with none.
LeavesPlan(t) ==
    LET p == loc[t].pc
        q == loc'[t].pc
    IN /\ UNCHANGED planVars
       /\ \/ q \notin AtRest \union Reviewed \union InFlight
          \/ p \in AtRest \union {"gate", "route"} /\ q \in AtRest
          \/ p = "validate" /\ q = "dispatch" /\ KeepsStep(t)
          \/ /\ p \in {"gate", "park", "waitApproval"} /\ KeepsStep(t)
             /\ q \in {"park", "waitApproval", "route"}

(* What a crash-free step of a workflow does to the plan: nothing, or one of    *)
(* the writes above.                                                            *)
LEMMA PlanStep ==
    ASSUME TypeInv, NEW t \in Task, Workflow(t), crashes' = 0
    PROVE  Claims(t) \/ Reviews(t) \/ Replaces(t) \/ Resumes(t) \/ Appends(t) \/ LeavesPlan(t)
<1> USE DEF At, planVars
<1>a. loc \in [Task -> Loc] /\ loc[t] \in Loc
  BY DEF TypeInv, TypeOK
<1>b. ASSUME NEW l, Go(t, l)
      PROVE  loc'[t] = l
  BY <1>b, GoCalm DEF Go
<1>1. CASE ClaimStep(t)
  <2> DEFINE s == Least(Pending(t))
             l == [loc[t] EXCEPT !.pc = "validate", !.seq = s, !.gen = gen[t][s]]
  <2>1. /\ loc[t].pc = "claim" /\ Go(t, l) /\ Pending(t) # {}
        /\ step' = [step EXCEPT ![t][s] = "running"] /\ gen' = gen
    BY <1>1 DEF ClaimStep, TakeStep
  <2>2. l.pc = "validate" /\ l.seq = s /\ l.gen = gen[t][s]
    BY <1>a DEF Loc
  <2> HIDE DEF l
  <2>3. loc'[t].pc = "validate" /\ loc'[t].seq = s /\ loc'[t].gen = gen[t][s]
    BY <1>b, <2>1, <2>2
  <2> QED
    BY <2>1, <2>3 DEF Claims
<1>2. ASSUME NEW campaign \in BOOLEAN, ReviewAccepts(t, campaign)
      PROVE  Reviews(t)
  <2>1. PICK n \in {"verify", "claim"} :
            /\ CasStep(t, "running", "done")
            /\ \/ Go(t, [Jump(t, "gate") EXCEPT !.next = n])
               \/ Go(t, Dispatched(Head(loc[t]), n))
    <3>1. PICK n \in {"verify", "claim"} :
              LET then == IF campaign THEN [Jump(t, "gate") EXCEPT !.next = n]
                                      ELSE Dispatched(Head(loc[t]), n)
              IN \/ StepThenTask(t, "running", "done", {"running"}, Status(t, "verifying"), then)
                 \/ CasStep(t, "running", "done") /\ Go(t, then)
      BY <1>2 DEF ReviewAccepts
    <3> QED
      BY <3>1, ReviewCalm
  <2>2. /\ [Jump(t, "gate") EXCEPT !.next = n].pc = "gate"
        /\ [Jump(t, "gate") EXCEPT !.next = n].seq = loc[t].seq
        /\ [Jump(t, "gate") EXCEPT !.next = n].gen = loc[t].gen
    BY <1>a DEF Jump, Loc
  <2>3. Dispatched(Head(loc[t]), n).pc = n
    BY <1>a, Fields
  <2>4. loc'[t].pc \in {"verify", "claim"} \/ (loc'[t].pc = "gate" /\ KeepsStep(t))
    BY <1>b, <2>1, <2>2, <2>3 DEF KeepsStep
  <2> QED
    BY <1>2, <2>1, <2>4 DEF ReviewAccepts, Reviews
<1>3. CASE ReviewRevises(t)
  <2>1. /\ loc[t].pc = "dispatch" /\ CasStep(t, "running", "pending") /\ gen' = gen
        /\ Go(t, Dispatched(loc[t], "revise"))
    BY <1>3 DEF ReviewRevises
  <2>2. loc'[t].pc = "revise" /\ KeepsStep(t)
    BY <1>a, <1>b, <2>1, Fields DEF KeepsStep
  <2> QED
    BY <2>1, <2>2 DEF Reviews
<1>4. CASE ReviewAsks(t)
  <2>1. /\ loc[t].pc = "dispatch" /\ CasStep(t, "running", "waiting") /\ gen' = gen
        /\ Go(t, Dispatched(loc[t], "waitAnswer"))
    BY <1>4, ReviewCalm DEF ReviewAsks
  <2>2. loc'[t].pc = "waitAnswer" /\ KeepsStep(t)
    BY <1>a, <1>b, <2>1, Fields DEF KeepsStep
  <2> QED
    BY <2>1, <2>2 DEF Reviews
<1>5. CASE ReviewEscalates(t)
  <2>1. /\ loc[t].pc = "dispatch" /\ CasStep(t, "running", "failed") /\ gen' = gen
        /\ Go(t, Dispatched(loc[t], "arm"))
    BY <1>5, ReviewCalm DEF ReviewEscalates
  <2>2. loc'[t].pc = "arm"
    BY <1>a, <1>b, <2>1, Fields
  <2> QED
    BY <2>1, <2>2 DEF Reviews
<1>6. CASE Revise(t)
  <2>1. loc[t].pc = "revise" /\ Replace(t, Head(loc[t])) /\ Head(loc[t]) \in Loc
        /\ Head(loc[t]).pc = "claim"
    BY <1>6, <1>a, HeadType, Fields DEF Revise
  <2> QED
    BY <2>1, ReplaceCalm DEF Replaces, LeavesPlan, AtRest, Reviewed, InFlight
<1>7. CASE ChangesAsked(t)
  <2>1. loc[t].pc = "route" /\ Replace(t, Jump(t, "changed")) /\ Jump(t, "changed").pc = "changed"
    BY <1>7, JumpFields DEF ChangesAsked
  <2>2. Jump(t, "changed") \in Loc
    BY <1>a, JumpType DEF PC
  <2> QED
    BY <2>1, <2>2, ReplaceCalm DEF Replaces, LeavesPlan, AtRest, Reviewed, InFlight
<1>8. CASE AnswerSeen(t)
  <2>1. /\ loc[t].pc = "waitAnswer" /\ CasStep(t, "waiting", "pending") /\ gen' = gen
        /\ Go(t, Head(loc[t]))
    BY <1>8, ReviewCalm DEF AnswerSeen
  <2>2. loc'[t].pc = "claim"
    BY <1>a, <1>b, <2>1, Fields
  <2> QED
    BY <2>1, <2>2 DEF Resumes
<1>9. CASE AppendRetryStep(t)
  <2>1. /\ crashes \in Nat /\ loc[t].pc = "verify" /\ gen' = gen
        /\ Cardinality(Planned(t)) < MaxSteps
        /\ step' = [step EXCEPT ![t][Cardinality(Planned(t)) + 1] = "pending"]
    BY <1>9 DEF TypeInv, TypeOK, AppendRetryStep, RetryAllowed
  <2>2. Go(t, [Head(loc[t]) EXCEPT !.tries = @ + 1])
    BY <1>9, <2>1 DEF AppendRetryStep, Crash
  <2>3. [Head(loc[t]) EXCEPT !.tries = @ + 1].pc = "claim"
    BY <1>a DEF Head, Loc
  <2>4. loc'[t].pc = "claim"
    BY <1>b, <2>2, <2>3
  <2> QED
    BY <2>1, <2>4 DEF Appends
<1>10. CASE Validated(t)
  <2>1. loc[t].pc = "validate" /\ Go(t, Jump(t, "dispatch")) /\ UNCHANGED planVars
    BY <1>10 DEF Validated
  <2>2. loc'[t].pc = "dispatch" /\ KeepsStep(t)
    BY <1>b, <2>1, JumpFields DEF KeepsStep
  <2> QED
    BY <2>1, <2>2 DEF LeavesPlan
<1>11. CASE GateArms(t)
  <2>1. /\ loc[t].pc = "gate" /\ UNCHANGED planVars
        /\ GoElse(t, Dispatched(loc[t], "park"), Jump(t, "dispatch"))
    BY <1>11 DEF GateArms
  <2>2. loc'[t] = Dispatched(loc[t], "park")
    BY <2>1, GoCalm
  <2>3. loc'[t].pc = "park" /\ KeepsStep(t)
    BY <1>a, <2>2, Fields DEF KeepsStep
  <2> QED
    BY <2>1, <2>3 DEF LeavesPlan
<1>12. CASE Park(t)
  <2> DEFINE l == [Jump(t, "waitApproval") EXCEPT !.pre = row[t].status]
  <2>1. /\ loc[t].pc = "park" /\ UNCHANGED planVars
        /\ Go(t, l) \/ Go(t, Jump(t, "waitApproval"))
    BY <1>12 DEF Park
  <2>2. l.pc = "waitApproval" /\ l.seq = loc[t].seq /\ l.gen = loc[t].gen
    BY <1>a DEF Jump, Loc
  <2> HIDE DEF l
  <2>3. loc'[t].pc = "waitApproval" /\ KeepsStep(t)
    BY <1>b, <2>1, <2>2, JumpFields DEF KeepsStep
  <2> QED
    BY <2>1, <2>3 DEF LeavesPlan
<1>13. CASE ApprovalSeen(t)
  <2>1. loc[t].pc = "waitApproval" /\ Go(t, Jump(t, "route")) /\ UNCHANGED planVars
    BY <1>13 DEF ApprovalSeen
  <2>2. loc'[t].pc = "route" /\ KeepsStep(t)
    BY <1>b, <2>1, JumpFields DEF KeepsStep
  <2> QED
    BY <2>1, <2>2 DEF LeavesPlan
<1>14. CASE \/ TriageStart(t) \/ \E ran, advanced \in BOOLEAN : Execute(t, ran, advanced)
            \/ \E heard \in BOOLEAN : Report(t, heard)
            \/ AfterExecute(t) \/ Decline(t) \/ ResumeAfterChanges(t) \/ Verified(t)
            \/ NotifyOwner(t) \/ TailRead(t) \/ SettleBlock(t) \/ Promote(t)
  <2>1. /\ loc[t].pc \in {"triage", "route", "report", "afterExec", "changed", "verify"} \union Closing
        /\ UNCHANGED planVars
    BY <1>14 DEF TriageStart, Execute, FanOut, Report, AfterExecute, Decline, ResumeAfterChanges,
                 Verified, NotifyOwner, TailRead, SettleBlock, Promote, Closing
  <2>2. \/ loc'[t].pc \notin AtRest \union Reviewed \union InFlight
        \/ loc[t].pc \in AtRest \union {"gate", "route"} /\ loc'[t].pc \in AtRest
    BY <2>1, CalmStep DEF LoopEdge, AskEdge, Closing, AtRest, Reviewed, InFlight
  <2> QED
    BY <2>1, <2>2 DEF LeavesPlan
<1>15. CASE \/ CyclesSpent(t) \/ ClaimNone(t) \/ ValidationFails(t) \/ RevisionsSpent(t)
            \/ GiveUp(t) \/ ArmEscalation(t) \/ OwnerUnreachable(t) \/ VerifySpent(t)
  <2>1. Go(t, Tail(loc[t])) /\ UNCHANGED planVars
    BY <1>15 DEF CyclesSpent, ClaimNone, ValidationFails, RevisionsSpent, GiveUp, ArmEscalation,
                 OwnerUnreachable, VerifySpent
  <2>2. loc'[t].pc = "tail"
    BY <1>a, <1>b, <2>1, Fields
  <2> QED
    BY <2>1, <2>2 DEF LeavesPlan, AtRest, Reviewed, InFlight
<1>16. CASE ClaimRejected(t) \/ DispatchRaises(t)
  <2>1. /\ UNCHANGED planVars
        /\ loc' = [loc EXCEPT ![t] = [Tail(loc[t]) EXCEPT !.pc = "error"]]
    BY <1>16 DEF ClaimRejected, DispatchRaises, Fail
  <2>2. loc'[t].pc = "error"
    BY <1>a, <2>1, Fields
  <2> QED
    BY <2>1, <2>2 DEF LeavesPlan, AtRest, Reviewed, InFlight
<1>17. CASE ReviewSkipped(t)
  <2>1. Go(t, Dispatched(loc[t], "arm")) /\ UNCHANGED planVars
    BY <1>17 DEF ReviewSkipped
  <2>2. loc'[t].pc = "arm"
    BY <1>a, <1>b, <2>1, Fields
  <2> QED
    BY <2>1, <2>2 DEF LeavesPlan, AtRest, Reviewed, InFlight
<1>18. CASE PollsSpent(t)
  <2>1. loc' = [loc EXCEPT ![t] = Jump(t, "giveUp")] /\ UNCHANGED planVars
    BY <1>18 DEF PollsSpent, StopPolling
  <2>2. loc'[t].pc = "giveUp"
    BY <1>a, <2>1, JumpFields
  <2> QED
    BY <2>1, <2>2 DEF LeavesPlan, AtRest, Reviewed, InFlight
<1>19. CASE GateRefused(t)
  <2>1. /\ loc[t].pc = "gate" /\ UNCHANGED planVars
        /\ GoElse(t, Dispatched(Head(loc[t]), loc[t].next), Jump(t, "dispatch"))
    BY <1>19 DEF GateRefused
  <2>2. loc'[t] = Dispatched(Head(loc[t]), loc[t].next)
    BY <2>1, GoCalm
  <2>3. loc'[t].pc \in {"claim", "verify"}
    BY <1>a, <2>2, Fields DEF Loc
  <2> QED
    BY <2>1, <2>3 DEF LeavesPlan, AtRest
<1> QED
  BY <1>1, <1>2, <1>3, <1>4, <1>5, <1>6, <1>7, <1>8, <1>9, <1>10, <1>11, <1>12, <1>13,
     <1>14, <1>15, <1>16, <1>17, <1>18, <1>19 DEF Workflow

(* A loop writes no plan but its own.                                           *)
LEMMA OthersPlan ==
    ASSUME TypeInv, NEW t \in Task,
           Claims(t) \/ Reviews(t) \/ Replaces(t) \/ Resumes(t) \/ Appends(t) \/ LeavesPlan(t)
    PROVE  \A u \in Task \ {t} : step'[u] = step[u] /\ gen'[u] = gen[u]
BY DEF TypeInv, TypeOK, Claims, Reviews, Replaces, Resumes, Appends, LeavesPlan, CasStep, planVars

(* One step of a workflow.                                                      *)
LEMMA WorkflowOrder ==
    ASSUME TypeInv, TypeInv', OrderInv, NEW t \in Task, Workflow(t)
    PROVE  OrderInv'
<1> SUFFICES ASSUME crashes' = 0, NEW u \in Task PROVE PlanOrder(u)'
  BY DEF OrderInv
<1>1. /\ \A v \in Task : PlanOrder(v)
      /\ \A v \in Task \ {t} : loc'[v] = loc[v]
  BY CalmStep DEF OrderInv
<1>2. Claims(t) \/ Reviews(t) \/ Replaces(t) \/ Resumes(t) \/ Appends(t) \/ LeavesPlan(t)
  BY PlanStep
<1>3. CASE u # t
  <2>1. step'[u] = step[u] /\ gen'[u] = gen[u] /\ loc'[u] = loc[u]
    BY <1>1, <1>2, <1>3, OthersPlan
  <2> QED
    BY <1>1, <2>1 DEF PlanOrder, Holds, Mine
<1> DEFINE f == step[t]
           q == loc[t].seq
<1>a. /\ step \in [Task -> [StepSeq -> StepStatus]] /\ f \in [StepSeq -> StepStatus]
      /\ gen \in [Task -> [StepSeq -> Nat]] /\ PlanOrder(t)
  BY <1>1 DEF TypeInv, TypeOK
<1>b. ASSUME Contiguous(step'[t]), Ordered(step'[t]), Resting(step'[t]),
             loc'[t].pc \notin Reviewed \union InFlight
      PROVE  PlanOrder(t)'
  BY <1>b DEF PlanOrder, Reviewed, InFlight
<1>c. ASSUME Contiguous(step'[t]), Ordered(step'[t]),
             loc'[t].pc \notin AtRest \union Reviewed \union InFlight
      PROVE  PlanOrder(t)'
  BY <1>c DEF PlanOrder, AtRest, Reviewed, InFlight
<1>d. ASSUME NEW to \in StepStatus, to # "none", f[q] # "none", f[q] = "pending" => to = "pending",
             q \in StepSeq, LastBegun(f, q), OthersRest(f, q),
             step' = [step EXCEPT ![t][q] = to]
      PROVE  /\ Contiguous(step'[t]) /\ Ordered(step'[t]) /\ step'[t][q] = to
             /\ LastBegun(step'[t], q) /\ OthersRest(step'[t], q)
             /\ to \in {"pending", "done"} => Resting(step'[t])
  <2>1. step'[t] = [f EXCEPT ![q] = to] /\ Contiguous(f) /\ Ordered(f)
    BY <1>a, <1>d DEF PlanOrder
  <2> HIDE DEF f, q
  <2> QED
    BY <1>a, <1>d, <2>1, HeldOrder
<1>4. CASE u = t /\ Claims(t)
  <2> DEFINE s == Least(Pending(t))
  <2>1. /\ loc[t].pc = "claim" /\ loc'[t].pc = "validate" /\ Pending(t) # {} /\ gen' = gen
        /\ loc'[t].seq = s /\ loc'[t].gen = gen[t][s] /\ step' = [step EXCEPT ![t][s] = "running"]
    BY <1>4 DEF Claims
  <2>2. s \in Pending(t) /\ \A v \in Pending(t) : s <= v
    <3>1. Pending(t) \in SUBSET Nat
      BY DEF Pending, StepSeq
    <3> QED
      BY <2>1, <3>1, LeastIn
  <2> HIDE DEF s
  <2>3. s \in StepSeq /\ f[s] = "pending" /\ \A v \in StepSeq : f[v] = "pending" => s <= v
    BY <2>2 DEF Pending
  <2>4. step'[t] = [f EXCEPT ![s] = "running"]
    BY <1>a, <2>1
  <2>5. Contiguous(f) /\ Ordered(f) /\ Resting(f)
    BY <1>a, <2>1 DEF PlanOrder, AtRest
  <2>6. /\ Contiguous(step'[t]) /\ Ordered(step'[t]) /\ step'[t][s] = "running"
        /\ LastBegun(step'[t], s) /\ OthersRest(step'[t], s)
    <3> HIDE DEF f
    <3> QED
      BY <1>a, <2>3, <2>4, <2>5, ClaimOrder
  <2>7. Holds(t, "running")'
    BY <2>1, <2>3, <2>6 DEF Holds, Mine
  <2> QED
    BY <1>4, <2>1, <2>6, <2>7 DEF PlanOrder, AtRest, Reviewed
<1>5. CASE u = t /\ Reviews(t)
  <2>1. loc[t].pc = "dispatch" /\ Holds(t, "running") /\ OthersRest(f, q) /\ gen' = gen
    BY <1>a, <1>5 DEF Reviews, PlanOrder, InFlight
  <2>2. q \in StepSeq /\ q # 0 /\ f[q] = "running" /\ Mine(t) /\ LastBegun(f, q)
    BY <2>1 DEF Holds, StepSeq
  <2>3. ASSUME NEW to \in StepStatus, to # "none", CasStep(t, "running", to)
        PROVE  /\ Contiguous(step'[t]) /\ Ordered(step'[t]) /\ step'[t][q] = to
               /\ LastBegun(step'[t], q) /\ OthersRest(step'[t], q)
               /\ to \in {"pending", "done"} => Resting(step'[t])
    <3>1. step' = [step EXCEPT ![t][q] = to]
      BY <2>2, <2>3 DEF CasStep
    <3> QED
      BY <1>d, <2>1, <2>2, <2>3, <3>1
  <2>4. ASSUME NEW to, KeepsStep(t), step'[t][q] = to, LastBegun(step'[t], q)
        PROVE  Holds(t, to)'
    BY <2>1, <2>2, <2>4 DEF KeepsStep, Holds, Mine
  <2>5. {"done", "pending", "waiting", "failed"} \subseteq StepStatus
    BY DEF StepStatus
  <2>6. CASE CasStep(t, "running", "done") /\ loc'[t].pc \in {"claim", "verify"}
    BY <1>5, <1>b, <2>3, <2>5, <2>6 DEF Reviewed, InFlight
  <2>7. CASE CasStep(t, "running", "done") /\ loc'[t].pc = "gate" /\ KeepsStep(t)
    <3>1. /\ Contiguous(step'[t]) /\ Ordered(step'[t]) /\ Resting(step'[t])
          /\ step'[t][q] = "done" /\ LastBegun(step'[t], q)
      BY <2>3, <2>5, <2>7
    <3>2. Holds(t, "done")'
      BY <2>4, <2>7, <3>1
    <3> QED
      BY <1>5, <2>7, <3>1, <3>2 DEF PlanOrder, InFlight
  <2>8. CASE CasStep(t, "running", "pending") /\ loc'[t].pc = "revise" /\ KeepsStep(t)
    <3>1. /\ Contiguous(step'[t]) /\ Ordered(step'[t]) /\ Resting(step'[t])
          /\ step'[t][q] = "pending" /\ LastBegun(step'[t], q)
      BY <2>3, <2>5, <2>8
    <3>2. Holds(t, "pending")'
      BY <2>4, <2>8, <3>1
    <3> QED
      BY <1>5, <2>8, <3>1, <3>2 DEF PlanOrder, InFlight
  <2>9. CASE CasStep(t, "running", "waiting") /\ loc'[t].pc = "waitAnswer" /\ KeepsStep(t)
    <3>1. /\ Contiguous(step'[t]) /\ Ordered(step'[t]) /\ OthersRest(step'[t], q)
          /\ step'[t][q] = "waiting" /\ LastBegun(step'[t], q)
      BY <2>3, <2>5, <2>9
    <3>2. Holds(t, "waiting")' /\ loc'[t].seq = q
      BY <2>4, <2>9, <3>1 DEF KeepsStep
    <3> QED
      BY <1>5, <2>9, <3>1, <3>2 DEF PlanOrder, AtRest, Reviewed
  <2>10. CASE CasStep(t, "running", "failed") /\ loc'[t].pc = "arm"
    BY <1>5, <1>c, <2>3, <2>5, <2>10 DEF AtRest, Reviewed, InFlight
  <2> QED
    BY <1>5, <2>6, <2>7, <2>8, <2>9, <2>10 DEF Reviews
<1>6. CASE u = t /\ Replaces(t)
  <2>1. /\ loc[t].pc \in {"revise", "route"} /\ loc'[t].pc \in {"claim", "changed"}
        /\ step' = [step EXCEPT ![t][q] = "pending"]
    BY <1>6 DEF Replaces
  <2>2. (Holds(t, "pending") \/ Holds(t, "done")) /\ Resting(f)
    BY <1>a, <2>1 DEF PlanOrder, Reviewed
  <2>3. q \in StepSeq /\ f[q] \in {"pending", "done"} /\ LastBegun(f, q) /\ OthersRest(f, q)
    BY <2>2 DEF Holds, Resting, OthersRest
  <2>4. Contiguous(step'[t]) /\ Ordered(step'[t]) /\ Resting(step'[t])
    BY <1>d, <2>1, <2>3 DEF StepStatus
  <2> QED
    BY <1>6, <1>b, <2>1, <2>4 DEF Reviewed, InFlight
<1>7. CASE u = t /\ Resumes(t)
  <2>1. loc[t].pc = "waitAnswer" /\ loc'[t].pc = "claim" /\ CasStep(t, "waiting", "pending")
    BY <1>7 DEF Resumes
  <2>2. Holds(t, "waiting") /\ OthersRest(f, q)
    BY <1>a, <2>1 DEF PlanOrder, InFlight
  <2>3. q \in StepSeq /\ q # 0 /\ f[q] = "waiting" /\ Mine(t) /\ LastBegun(f, q)
    BY <2>2 DEF Holds, StepSeq
  <2>4. step' = [step EXCEPT ![t][q] = "pending"]
    BY <2>1, <2>3 DEF CasStep
  <2>5. Contiguous(step'[t]) /\ Ordered(step'[t]) /\ Resting(step'[t])
    BY <1>d, <2>2, <2>3, <2>4 DEF StepStatus
  <2> QED
    BY <1>7, <1>b, <2>1, <2>5 DEF Reviewed, InFlight
<1>8. CASE u = t /\ Appends(t)
  <2> DEFINE c == Cardinality(Planned(t))
  <2>1. /\ loc[t].pc = "verify" /\ loc'[t].pc = "claim" /\ c < MaxSteps
        /\ step' = [step EXCEPT ![t][c + 1] = "pending"]
    BY <1>8 DEF Appends
  <2>2. c = Cardinality({s \in StepSeq : f[s] # "none"})
    BY DEF Planned
  <2>3. Contiguous(f) /\ Ordered(f) /\ Resting(f)
    BY <1>a, <2>1 DEF PlanOrder, AtRest
  <2> HIDE DEF c
  <2>4. step'[t] = [f EXCEPT ![c + 1] = "pending"]
    BY <1>a, <2>1
  <2>5. Contiguous(step'[t]) /\ Ordered(step'[t]) /\ Resting(step'[t])
    <3> HIDE DEF f
    <3> QED
      BY <1>a, <2>1, <2>2, <2>3, <2>4, AppendOrder
  <2> QED
    BY <1>8, <1>b, <2>1, <2>5 DEF Reviewed, InFlight
<1>9. CASE u = t /\ LeavesPlan(t)
  <2>1. step' = step /\ gen' = gen /\ Contiguous(f) /\ Ordered(f)
    BY <1>9, <1>a DEF LeavesPlan, planVars, PlanOrder
  <2>2. CASE loc'[t].pc \notin AtRest \union Reviewed \union InFlight
    BY <1>9, <1>c, <2>1, <2>2
  <2>3. CASE loc[t].pc \in AtRest \union {"gate", "route"} /\ loc'[t].pc \in AtRest
    <3>1. Resting(f)
      BY <1>a, <2>3 DEF PlanOrder, Reviewed
    <3> QED
      BY <1>9, <1>b, <2>1, <2>3, <3>1 DEF AtRest, Reviewed, InFlight
  <2>4. ASSUME NEW s, Holds(t, s), KeepsStep(t)
        PROVE  Holds(t, s)'
    BY <2>1, <2>4 DEF Holds, KeepsStep, Mine
  <2>5. CASE loc[t].pc = "validate" /\ loc'[t].pc = "dispatch" /\ KeepsStep(t)
    <3>1. Holds(t, "running") /\ OthersRest(f, q)
      BY <1>a, <2>5 DEF PlanOrder, InFlight
    <3>2. Holds(t, "running")' /\ OthersRest(step'[t], loc'[t].seq)
      BY <2>1, <2>4, <2>5, <3>1 DEF KeepsStep
    <3> QED
      BY <1>9, <2>1, <2>5, <3>2 DEF PlanOrder, AtRest, Reviewed
  <2>6. CASE /\ loc[t].pc \in {"gate", "park", "waitApproval"} /\ KeepsStep(t)
             /\ loc'[t].pc \in {"park", "waitApproval", "route"}
    <3>1. Holds(t, "done") /\ Resting(f)
      BY <1>a, <2>6 DEF PlanOrder, Reviewed
    <3>2. Holds(t, "done")'
      BY <2>4, <2>6, <3>1
    <3> QED
      BY <1>9, <2>1, <2>6, <3>1, <3>2 DEF PlanOrder, InFlight
  <2> QED
    BY <1>9, <2>2, <2>3, <2>5, <2>6 DEF LeavesPlan
<1> QED
  BY <1>2, <1>3, <1>4, <1>5, <1>6, <1>7, <1>8, <1>9

(* Nobody else writes the steps; create_plan admits them pending.               *)
LEMMA OthersOrder ==
    ASSUME TypeInv, OrderInv, Reaper \/ Outside
    PROVE  OrderInv'
<1> SUFFICES ASSUME crashes' = 0, NEW u \in Task PROVE PlanOrder(u)'
  BY DEF OrderInv
<1>1. PlanOrder(u)
  BY OthersStep DEF OrderInv
<1>2. CASE UNCHANGED <<planVars, loc>>
  BY <1>1, <1>2 DEF planVars, PlanOrder, Holds, Mine
<1>3. ASSUME NEW t \in Task, NEW n \in 1..MaxPlan, Admit(t, n)
      PROVE  PlanOrder(u)'
  <2>1. /\ gen' = gen /\ loc' = [loc EXCEPT ![t].pc = "triage"]
        /\ step' = [step EXCEPT ![t] = [s \in StepSeq |-> IF s <= n THEN "pending" ELSE "none"]]
    BY <1>3 DEF Admit, AdmitAs
  <2>2. loc \in [Task -> Loc] /\ step \in [Task -> [StepSeq -> StepStatus]]
    BY DEF TypeInv, TypeOK
  <2>3. CASE u # t
    <3>1. loc'[u] = loc[u] /\ step'[u] = step[u]
      BY <2>1, <2>2, <2>3
    <3> QED
      BY <1>1, <2>1, <3>1 DEF PlanOrder, Holds, Mine
  <2>4. CASE u = t
    <3>1. loc'[t].pc = "triage"
      BY <2>1, <2>2 DEF Loc
    <3>2. step'[t] = [s \in StepSeq |-> IF s <= n THEN "pending" ELSE "none"]
      BY <2>1, <2>2
    <3>3. n \in 0..MaxSteps /\ \A s \in StepSeq : step'[t][s] # "none" <=> s <= n
      BY <3>2, BoundsAssumption
    <3>4. Contiguous(step'[t])
      BY <3>3 DEF Contiguous
    <3>5. Ordered(step'[t]) /\ Resting(step'[t])
      BY <3>2 DEF Ordered, Resting
    <3> QED
      BY <2>4, <3>1, <3>4, <3>5 DEF PlanOrder, InFlight
  <2> QED
    BY <2>3, <2>4
<1> QED
  BY <1>2, <1>3
     DEF Reaper, Outside, ReaperScan, ReaperDies, ReaperStrike, ReaperWakes, ReaperCloses,
         OrphanSweep, ReaperNotifies, AnHourPasses, OwnerAnswers,
         RetryFallsDue, Redrive, RedriveFrom, Resolve

(* The invariant of a run without crashes.                                      *)
THEOREM OrderInvariant == Spec => []OrderInv
<1>1. ASSUME TypeInv, TypeInv', OrderInv, [Next]_vars
      PROVE  OrderInv'
  <2>1. CASE Next
    BY <1>1, <2>1, WorkflowOrder, OthersOrder DEF Next
  <2>2. CASE UNCHANGED vars
    BY <1>1, <2>2 DEF vars, OrderInv, PlanOrder, Holds, Mine
  <2> QED
    BY <1>1, <2>1, <2>2
<1> QED
  BY <1>1, InitOrder, TypeInvariant, PTL DEF Spec

(* Without crashes the steps of every plan run in order: a step that has begun  *)
(* has only done steps before it, whatever is revised, sent back for changes or *)
(* appended. The hypothesis is needed: a claim whose commit survives a crash    *)
(* and whose checkpoint does not is repeated, and the replay claims the next    *)
(* pending step beside the first.                                               *)
THEOREM StepsInOrder == Spec => [](crashes = 0 => InOrder)
<1>1. OrderInv => (crashes = 0 => InOrder)
  BY DEF OrderInv, PlanOrder, Ordered, InOrder
<1> QED
  BY <1>1, OrderInvariant, PTL

===============================================================================
