----------------------- MODULE ManagerTaskSafetyProofs -------------------------
(* Safety of ManagerTask, for every value of its constants: what is sent, who   *)
(* holds the tenant's slot, and which rows are closed for good.                 *)
EXTENDS ManagerTaskProofs

-------------------------------------------------------------------------------
(* What one step of a started workflow may do, said once for all its actions.   *)

Unstarted == {"absent", "triage", "idle"}
Ended     == {"promote", "done"}

(* Only the task's own local state moves: to another point of the run, with no  *)
(* dispatch forgotten.                                                          *)
Moves(t) ==
    /\ \A u \in Task \ {t} : loc'[u] = loc[u]
    /\ loc[t].pc \notin Unstarted /\ loc'[t].pc \notin Unstarted
    /\ loc'[t].cycles >= loc[t].cycles

(* Only the task's own row is written, and never that of a closed task.         *)
Writes(t) ==
    /\ \A u \in Task \ {t} : row'[u] = row[u]
    /\ row'[t].retry = row[t].retry
    /\ row'[t].status # row[t].status =>
           row[t].status \in NonTerminal /\ row'[t].status \in ActiveState \union Terminal

(* The slot is handed to a queued task.                                         *)
HandsOver(t) ==
    /\ loc[t].pc = "promote" /\ Active = {}
    /\ \E q \in Queued : row' = [row EXCEPT ![q].status = "planned"]

(* A compare-and-set from a non-terminal status, as every settle function does. *)
LEMMA CasWrites ==
    ASSUME TypeInv, NEW t \in Task, NEW from, NEW new, Cas(t, from, new),
           row[t].status \in from =>
               /\ new \in Row /\ new.retry = row[t].retry
               /\ row[t].status \in NonTerminal
               /\ new.status \in ActiveState \union Terminal
    PROVE  Writes(t)
BY DEF Cas, Writes, taskVars, TypeInv, TypeOK

(* A step that writes no row.                                                   *)
LEMMA SameWrites ==
    ASSUME NEW t \in Task, UNCHANGED row
    PROVE  Writes(t)
BY DEF Writes

(* A block writes only a task that is not closed.                               *)
LEMMA BlockWrites ==
    ASSUME TypeInv, NEW t \in Task, Block(t)
    PROVE  Writes(t)
<1>1. row[t] \in Row
  BY DEF TypeInv, TypeOK
<1> DEFINE new == [row[t] EXCEPT !.status = "blocked", !.outcome = "escalated",
                                 !.notify = "pending"]
<1>2. new \in Row /\ new.retry = row[t].retry /\ new.status = "blocked"
  BY <1>1 DEF Row, NonTerminal, ActiveState, Outcome, Notify
<1>3. Cas(t, NonTerminal, new)
  BY DEF Block
<1> HIDE DEF new
<1> QED
  BY <1>2, <1>3, CasWrites DEF ActiveState

(* So does a change of status from non-terminal ones.                           *)
LEMMA StatusWrites ==
    ASSUME TypeInv, NEW t \in Task, NEW from \in SUBSET NonTerminal,
           NEW s \in ActiveState \union Terminal, Cas(t, from, Status(t, s))
    PROVE  Writes(t)
<1>1. row \in [Task -> Row] /\ row[t] \in Row
  BY DEF TypeInv, TypeOK
<1>2. Status(t, s) \in Row
  BY <1>1, StatusType DEF NonTerminal
<1>3. Status(t, s).retry = row[t].retry /\ Status(t, s).status = s
  BY <1>1 DEF Status, Row
<1> QED
  BY <1>2, <1>3, CasWrites

(* A step that goes to l, or crashes back to again, moves the workflow.         *)
LEMMA GoElseMoves ==
    ASSUME TypeInv, NEW t \in Task, NEW l \in Loc, NEW again \in Loc,
           GoElse(t, l, again), loc[t].pc \notin Unstarted,
           l.pc \notin Unstarted, l.cycles >= loc[t].cycles,
           again.pc \notin Unstarted, again.cycles >= loc[t].cycles
    PROVE  Moves(t) /\ (loc'[t].pc \in Ended => Ended \cap {l.pc, again.pc} # {})
BY DEF GoElse, Crash, Moves, TypeInv, TypeOK

(* The same for a step that crashes back to where it was.                       *)
LEMMA GoMoves ==
    ASSUME TypeInv, NEW t \in Task, NEW l \in Loc, Go(t, l),
           loc[t].pc \notin Unstarted, l.pc \notin Unstarted, l.cycles >= loc[t].cycles
    PROVE  Moves(t) /\ (loc'[t].pc \in Ended => Ended \cap {l.pc, loc[t].pc} # {})
<1>1. loc[t] \in Loc /\ loc[t].cycles >= loc[t].cycles /\ GoElse(t, l, loc[t])
  BY DEF TypeInv, TypeOK, Loc, Go
<1> QED
  BY <1>1, GoElseMoves

(* The two commits of a review.                                                 *)
LEMMA StepThenTaskMoves ==
    ASSUME TypeInv, NEW t \in Task, NEW from, NEW to, NEW taskFrom \in SUBSET NonTerminal,
           NEW s \in ActiveState \union Terminal, NEW l \in Loc,
           StepThenTask(t, from, to, taskFrom, Status(t, s), l),
           loc[t].pc \notin Unstarted \union Ended, l.pc \notin Unstarted \union Ended,
           l.cycles >= loc[t].cycles
    PROVE  Moves(t) /\ Writes(t) /\ loc'[t].pc \notin Ended
<1>1. CASE Cas(t, taskFrom, Status(t, s)) /\ Go(t, l)
  BY <1>1, StatusWrites, GoMoves
<1>2. CASE UNCHANGED taskVars /\ Crash(t, loc[t])
  <2>1. Go(t, l)
    BY <1>2 DEF Go, GoElse
  <2> QED
    BY <1>2, <2>1, SameWrites, GoMoves DEF taskVars
<1> QED
  BY <1>1, <1>2 DEF StepThenTask

(* There is an oldest queued task whenever there is a queued one.               *)
LEMMA OldestQueued ==
    ASSUME TypeInv, Queued # {}
    PROVE  (CHOOSE u \in Queued : \A v \in Queued : row[u].created <= row[v].created)
               \in Queued
<1> DEFINE C == {row[u].created : u \in Queued}
<1>1. \A u \in Queued : u \in Task /\ row[u].created \in Nat
  BY DEF TypeInv, TypeOK, Row, Queued
<1>2. C \in SUBSET Nat /\ C # {}
  BY <1>1
<1>3. PICK c \in C : \A k \in C : c <= k
  <2> HIDE DEF C
  <2> QED
    BY <1>2, LeastIn
<1>4. PICK u \in Queued : c = row[u].created
  OBVIOUS
<1>5. \A v \in Queued : row[u].created <= row[v].created
  BY <1>3, <1>4
<1> QED
  BY <1>5

(* promote_next_queued_task changes nothing or hands the slot over.             *)
LEMMA PromoteHandsOver ==
    ASSUME TypeInv, NEW t \in Task, Promote(t)
    PROVE  UNCHANGED row \/ HandsOver(t)
<1>1. CASE Active = {} /\ Queued # {}
  <2> DEFINE q == CHOOSE u \in Queued : \A v \in Queued : row[u].created <= row[v].created
  <2>1. loc[t].pc = "promote" /\ row' = [row EXCEPT ![q].status = "planned"]
    BY <1>1 DEF Promote, At
  <2>2. q \in Queued
    BY <1>1, OldestQueued
  <2> HIDE DEF q
  <2> QED
    BY <1>1, <2>1, <2>2 DEF HandsOver
<1>2. CASE ~(Active = {} /\ Queued # {})
  BY <1>2 DEF Promote, taskVars
<1> QED
  BY <1>1, <1>2

(* A workflow that reaches the end of its tail leaves its own block armed.      *)
Settled(t) ==
    loc'[t].pc \in Ended =>
        \/ loc[t].pc \in Ended
        \/ row'[t].status = "blocked" => row'[t].retry # "none"

(* Every action of a started workflow, one by one.                              *)
LEMMA WorkflowEffect ==
    ASSUME TypeInv, NEW t \in Task, Workflow(t), ~TriageStart(t)
    PROVE  Moves(t) /\ (Writes(t) \/ HandsOver(t)) /\ Settled(t)
<1> DEFINE Goal == Moves(t) /\ (Writes(t) \/ HandsOver(t)) /\ Settled(t)
<1>a. TypeOK /\ loc[t] \in Loc /\ loc \in [Task -> Loc] /\ row[t] \in Row
      /\ row \in [Task -> Row] /\ (loc[t].cycles >= loc[t].cycles)
  BY DEF TypeInv, TypeOK, Loc
<1>b. \A p \in PC : Jump(t, p) \in Loc /\ Jump(t, p).pc = p
                    /\ Jump(t, p).cycles = loc[t].cycles
  BY <1>a, JumpType DEF Jump, Loc
<1>c. /\ Head(loc[t]) \in Loc /\ Head(loc[t]).pc = "claim"
      /\ Head(loc[t]).cycles = loc[t].cycles
      /\ Tail(loc[t]) \in Loc /\ Tail(loc[t]).pc = "tail"
      /\ Tail(loc[t]).cycles = loc[t].cycles
  BY <1>a, HeadType DEF Head, Tail, Loc
<1>d. loc[t].pc \in {"dispatch", "gate"} =>
          \A p \in PC :
              /\ Dispatched(loc[t], p) \in Loc /\ Dispatched(loc[t], p).pc = p
              /\ Dispatched(loc[t], p).cycles >= loc[t].cycles
              /\ Dispatched(Head(loc[t]), p) \in Loc
              /\ Dispatched(Head(loc[t]), p).pc = p
              /\ Dispatched(Head(loc[t]), p).cycles >= loc[t].cycles
  <2>1. loc[t].pc \in {"dispatch", "gate"} => loc[t].cycles < MaxCycles
    BY DEF TypeInv, CyclesLeft, D
  <2>2. ASSUME NEW l \in Loc, l.cycles < MaxCycles, NEW p \in PC
        PROVE  /\ Dispatched(l, p) \in Loc /\ Dispatched(l, p).pc = p
               /\ Dispatched(l, p).cycles >= l.cycles
    <3>1. Dispatched(l, p).pc = p /\ Dispatched(l, p).cycles = l.cycles + 1
      BY <2>2 DEF Dispatched, Loc
    <3>2. l.cycles \in Nat
      BY DEF Loc
    <3> QED
      BY <2>2, <3>1, <3>2, DispatchedType
  <2> QED
    BY <1>a, <1>c, <2>1, <2>2
<1>e. ASSUME loc[t].pc \notin Unstarted \union Ended, NEW l \in Loc, Go(t, l),
             l.pc \notin Unstarted \union Ended, l.cycles >= loc[t].cycles
      PROVE  Moves(t) /\ loc'[t].pc \notin Ended
  BY <1>e, GoMoves
<1>f. ASSUME loc[t].pc \notin Unstarted \union Ended, Fail(t)
      PROVE  Moves(t) /\ loc'[t].pc \notin Ended
  <2>1. [Tail(loc[t]) EXCEPT !.pc = "error"].pc = "error"
        /\ [Tail(loc[t]) EXCEPT !.pc = "error"].cycles = loc[t].cycles
    BY <1>c DEF Loc
  <2> QED
    BY <1>a, <1>f, <2>1 DEF Fail, Moves, Unstarted, Ended
<1>g. ASSUME loc[t].pc \notin Unstarted \union Ended, NEW l \in Loc, Replace(t, l),
             l.pc \notin Unstarted \union Ended, l.cycles >= loc[t].cycles
      PROVE  Moves(t) /\ loc'[t].pc \notin Ended
  <2> DEFINE r == [l EXCEPT !.revs[loc[t].seq] = @ + 1]
  <2>1. r.pc = l.pc /\ r.cycles = l.cycles
    BY <1>g DEF Loc
  <2>2. Go(t, r) \/ Fail(t)
    BY <1>g DEF Replace
  <2>3. Go(t, r) => Moves(t) /\ loc'[t].pc \notin Ended
    <3> HIDE DEF r
    <3> QED
      BY <1>a, <1>g, <2>1 DEF Go, GoElse, Crash, Moves, Unstarted, Ended
  <2> QED
    BY <1>f, <1>g, <2>2, <2>3
<1>h. Moves(t) /\ loc'[t].pc \notin Ended /\ (UNCHANGED row \/ Writes(t)) => Goal
  BY SameWrites DEF Settled
<1> USE DEF At, Unstarted, Ended, taskVars
<1>1. CASE \/ CyclesSpent(t) \/ ValidationFails(t) \/ RevisionsSpent(t) \/ GiveUp(t)
           \/ ArmEscalation(t) \/ OwnerUnreachable(t) \/ VerifySpent(t)
  <2>1. Block(t) /\ Go(t, Tail(loc[t])) /\ loc[t].pc \notin Unstarted \union Ended
    BY <1>1 DEF CyclesSpent, ValidationFails, RevisionsSpent, GiveUp, ArmEscalation,
                OwnerUnreachable, VerifySpent
  <2> QED
    BY <1>a, <1>c, <1>e, <1>h, <2>1, BlockWrites
<1>2. CASE ClaimNone(t)
  BY <1>2, <1>a, <1>c, <1>e, <1>h DEF ClaimNone
<1>3. CASE ClaimStep(t)
  <2> DEFINE q == Least(Pending(t))
             l == [loc[t] EXCEPT !.pc = "validate", !.seq = q, !.gen = gen[t][q]]
  <2>1. Moves(t) /\ loc'[t].pc \notin Ended
    <3>1. Go(t, l) /\ loc[t].pc = "claim"
      BY <1>3 DEF ClaimStep, TakeStep
    <3>2. l.pc = "validate" /\ l.cycles = loc[t].cycles
      BY <1>a DEF Loc
    <3> HIDE DEF l
    <3> QED
      BY <1>a, <3>1, <3>2 DEF Go, GoElse, Crash, Moves
  <2>2. Writes(t)
    BY <1>3, StatusWrites DEF ClaimStep, TakeStep, NonTerminal, ActiveState
  <2> QED
    BY <2>1, <2>2, <1>h
<1>4. CASE ClaimRejected(t) \/ DispatchRaises(t)
  BY <1>4, <1>f, <1>h DEF ClaimRejected, DispatchRaises
<1>5. CASE Validated(t)
  BY <1>5, <1>a, <1>b, <1>e, <1>h DEF Validated, PC
<1>6. ASSUME NEW campaign \in BOOLEAN, ReviewAccepts(t, campaign)
      PROVE  Goal
  <2> DEFINE next == IF Pending(t) \subseteq {loc[t].seq} THEN "verify" ELSE "claim"
             gate == [Jump(t, "gate") EXCEPT !.next = next]
             l    == IF campaign THEN gate ELSE Dispatched(Head(loc[t]), next)
  <2>1. loc[t].pc = "dispatch"
    BY <1>6 DEF ReviewAccepts
  <2>2. next \in {"claim", "verify"}
    OBVIOUS
  <2>3. gate \in Loc /\ gate.pc = "gate" /\ gate.cycles = loc[t].cycles
    <3>1. Jump(t, "gate") \in Loc /\ Jump(t, "gate").cycles = loc[t].cycles
          /\ Jump(t, "gate").pc = "gate"
      BY <1>b DEF PC
    <3> HIDE DEF next
    <3> QED
      BY <3>1, <2>2 DEF Loc
  <2>4. {"claim", "verify"} \subseteq PC
    BY DEF PC
  <2>5. l \in Loc /\ l.pc \in {"gate", "claim", "verify"} /\ l.cycles >= loc[t].cycles
    <3> HIDE DEF next, gate
    <3> QED
      BY <1>a, <1>d, <2>1, <2>2, <2>3, <2>4
  <2>6. \/ StepThenTask(t, "running", "done", {"running"}, Status(t, "verifying"), l)
        \/ UNCHANGED taskVars /\ Go(t, l)
    BY <1>6 DEF ReviewAccepts
  <2> HIDE DEF l
  <2>7. {"running"} \in SUBSET NonTerminal /\ "verifying" \in ActiveState \union Terminal
    BY DEF NonTerminal, ActiveState
  <2>8. CASE StepThenTask(t, "running", "done", {"running"}, Status(t, "verifying"), l)
    BY <2>1, <2>5, <2>7, <2>8, <1>h, StepThenTaskMoves
  <2>9. CASE UNCHANGED taskVars /\ Go(t, l)
    BY <2>1, <2>5, <2>9, <1>e, <1>h
  <2> QED
    BY <2>6, <2>8, <2>9
<1>7. CASE ReviewRevises(t) \/ ReviewSkipped(t)
  <2>1. PICK p \in {"revise", "arm"} : Go(t, Dispatched(loc[t], p))
    BY <1>7 DEF ReviewRevises, ReviewSkipped
  <2>2. loc[t].pc = "dispatch" /\ UNCHANGED row
    BY <1>7 DEF ReviewRevises, ReviewSkipped
  <2>3. p \in PC
    BY DEF PC
  <2> QED
    BY <2>1, <2>2, <2>3, <1>d, <1>e, <1>h
<1>8. CASE ReviewAsks(t) \/ ReviewEscalates(t) \/ AnswerSeen(t)
  <2>1. PICK from \in StepStatus, to \in StepStatus, taskFrom \in SUBSET NonTerminal,
             st \in ActiveState \union Terminal,
             l \in {Dispatched(loc[t], "waitAnswer"), Dispatched(loc[t], "arm"),
                    Head(loc[t])} :
        /\ StepThenTask(t, from, to, taskFrom, Status(t, st), l)
        /\ l = Head(loc[t]) \/ loc[t].pc = "dispatch"
    <3>1. CASE ReviewAsks(t)
      BY <3>1 DEF ReviewAsks, StepStatus, NonTerminal, ActiveState
    <3>2. CASE ReviewEscalates(t)
      <4>1. NonTerminal \in SUBSET NonTerminal /\ {"running", "failed"} \subseteq StepStatus
            /\ "blocked" \in ActiveState \union Terminal
        BY DEF StepStatus, ActiveState
      <4> QED
        BY <3>2, <4>1 DEF ReviewEscalates
    <3>3. CASE AnswerSeen(t)
      BY <3>3 DEF AnswerSeen, StepStatus, NonTerminal, ActiveState
    <3> QED
      BY <1>8, <3>1, <3>2, <3>3
  <2>2. loc[t].pc \in {"dispatch", "waitAnswer"}
    BY <1>8 DEF ReviewAsks, ReviewEscalates, AnswerSeen
  <2>3. l \in Loc /\ l.pc \in {"waitAnswer", "arm", "claim"} /\ l.cycles >= loc[t].cycles
    BY <1>a, <1>c, <1>d, <2>1 DEF PC
  <2> QED
    BY <2>1, <2>2, <2>3, <1>h, StepThenTaskMoves
<1>9. CASE GateArms(t) \/ GateRefused(t)
  <2>1. PICK l \in {Dispatched(loc[t], "park"), Dispatched(Head(loc[t]), loc[t].next)} :
            GoElse(t, l, Jump(t, "dispatch"))
    BY <1>9 DEF GateArms, GateRefused
  <2>2. loc[t].pc = "gate" /\ UNCHANGED row
    BY <1>9 DEF GateArms, GateRefused
  <2>3. {loc[t].next, "park", "dispatch"} \subseteq PC /\ loc[t].next \in {"claim", "verify"}
    BY <1>a DEF PC, Loc
  <2>4. l \in Loc /\ l.pc \in {"park", "claim", "verify"} /\ l.cycles >= loc[t].cycles
    BY <1>d, <2>2, <2>3
  <2>5. Jump(t, "dispatch") \in Loc /\ Jump(t, "dispatch").pc = "dispatch"
        /\ Jump(t, "dispatch").cycles >= loc[t].cycles
    BY <1>a, <1>b, <2>3
  <2> QED
    BY <2>1, <2>2, <2>4, <2>5, <1>h, GoElseMoves
<1>10. CASE Revise(t) \/ ChangesAsked(t)
  <2>1. PICK l \in {Head(loc[t]), Jump(t, "changed")} : Replace(t, l)
    BY <1>10 DEF Revise, ChangesAsked
  <2>2. loc[t].pc \in {"revise", "route"} /\ UNCHANGED row
    BY <1>10 DEF Revise, ChangesAsked
  <2>3. l \in Loc /\ l.pc \in {"claim", "changed"} /\ l.cycles >= loc[t].cycles
    BY <1>a, <1>b, <1>c DEF PC
  <2> QED
    BY <2>1, <2>2, <2>3, <1>g, <1>h
<1>11. CASE PollsSpent(t)
  <2>1. loc' = [loc EXCEPT ![t] = Jump(t, "giveUp")] /\ UNCHANGED row
        /\ loc[t].pc \in {"waitAnswer", "waitApproval"}
    BY <1>11 DEF PollsSpent, StopPolling
  <2>2. Jump(t, "giveUp").pc = "giveUp" /\ Jump(t, "giveUp").cycles = loc[t].cycles
    BY <1>b DEF PC
  <2> QED
    BY <1>a, <1>h, <2>1, <2>2 DEF Moves
<1>12. CASE Park(t)
  <2> DEFINE l == [Jump(t, "waitApproval") EXCEPT !.pre = row[t].status]
  <2>1. Jump(t, "waitApproval") \in Loc /\ Jump(t, "waitApproval").pc = "waitApproval"
        /\ Jump(t, "waitApproval").cycles = loc[t].cycles
    BY <1>b DEF PC
  <2>2. l.pc = "waitApproval" /\ l.cycles = loc[t].cycles
    BY <2>1 DEF Loc
  <2>3. loc[t].pc = "park" /\ (Go(t, l) \/ Go(t, Jump(t, "waitApproval")))
    BY <1>12 DEF Park
  <2>4. Moves(t) /\ loc'[t].pc \notin Ended
    <3> HIDE DEF l
    <3> QED
      BY <1>a, <2>1, <2>2, <2>3 DEF Go, GoElse, Crash, Moves
  <2>5. Writes(t)
    <3>1. Parked(t) \in Row /\ Parked(t).retry = row[t].retry
          /\ Parked(t).status = "waiting_owner"
      <4>1. Status(t, "waiting_owner") \in Row
            /\ Status(t, "waiting_owner").retry = row[t].retry
            /\ Status(t, "waiting_owner").status = "waiting_owner"
        BY <1>a, StatusType DEF Status, Row, NonTerminal, ActiveState
      <4>2. D(t) \in 0..MaxCycles
        BY <1>a DEF Loc, D
      <4> QED
        BY <4>1, <4>2 DEF Parked, Row
    <3>2. \/ row[t].status \in {"running", "verifying"} /\ row' = [row EXCEPT ![t] = Parked(t)]
          \/ row' = row
      BY <1>12 DEF Park
    <3> QED
      BY <1>a, <3>1, <3>2 DEF Writes, NonTerminal, ActiveState
  <2> QED
    BY <1>h, <2>4, <2>5
<1>13. CASE ApprovalSeen(t)
  <2>1. Go(t, Jump(t, "route")) /\ loc[t].pc = "waitApproval"
    BY <1>13 DEF ApprovalSeen
  <2>2. Moves(t) /\ loc'[t].pc \notin Ended
    BY <1>a, <1>b, <1>e, <2>1 DEF PC
  <2>3. CASE loc[t].pre = "none"
    BY <1>13, <1>h, <2>2, <2>3 DEF ApprovalSeen
  <2>4. CASE loc[t].pre # "none"
    <3>1. Cas(t, {"waiting_owner"}, Status(t, loc[t].pre))
      BY <1>13, <2>4 DEF ApprovalSeen, Restore
    <3>2. {"waiting_owner"} \in SUBSET NonTerminal
          /\ loc[t].pre \in ActiveState \union Terminal
      BY <1>a, <2>4 DEF Loc, NonTerminal, ActiveState
    <3> QED
      BY <1>h, <2>2, <3>1, <3>2, StatusWrites
  <2> QED
    BY <2>3, <2>4
<1>14. ASSUME NEW ran \in BOOLEAN, NEW advanced \in BOOLEAN, Execute(t, ran, advanced)
       PROVE  Goal
  <2>1. PICK p \in {"report", "afterExec"} : Go(t, Jump(t, p))
    BY <1>14 DEF Execute, FanOut
  <2>2. loc[t].pc = "route" /\ UNCHANGED row
    BY <1>14 DEF Execute, FanOut
  <2> QED
    BY <1>a, <1>b, <1>e, <1>h, <2>1, <2>2 DEF PC
<1>15. ASSUME NEW heard \in BOOLEAN, Report(t, heard)
       PROVE  Goal
  <2> DEFINE l == [Jump(t, "afterExec") EXCEPT !.reported = @ \/ heard]
  <2>1. Jump(t, "afterExec") \in Loc /\ Jump(t, "afterExec").pc = "afterExec"
        /\ Jump(t, "afterExec").cycles = loc[t].cycles
    BY <1>b DEF PC
  <2>2. l \in Loc /\ l.pc = "afterExec" /\ l.cycles = loc[t].cycles
    BY <2>1 DEF Loc
  <2>3. Go(t, l) /\ loc[t].pc = "report" /\ UNCHANGED row
    BY <1>15 DEF Report
  <2> HIDE DEF l
  <2> QED
    BY <1>a, <1>e, <1>h, <2>2, <2>3
<1>16. CASE AfterExecute(t)
  <2> DEFINE p == IF row[t].status = "verifying" THEN "verify" ELSE "claim"
             l == [Head(loc[t]) EXCEPT !.pc = p]
  <2>1. p \in {"verify", "claim"} /\ p \in PC
    BY DEF PC
  <2>2. l \in Loc /\ l.pc = p /\ l.cycles = loc[t].cycles
    <3> HIDE DEF p
    <3> QED
      BY <1>c, <2>1 DEF Loc
  <2>3. Go(t, l) /\ loc[t].pc = "afterExec" /\ UNCHANGED row
    BY <1>16 DEF AfterExecute
  <2> HIDE DEF l, p
  <2> QED
    BY <1>a, <1>e, <1>h, <2>1, <2>2, <2>3
<1>17. CASE Decline(t) \/ Verified(t)
  <2> DEFINE l == [Tail(loc[t]) EXCEPT !.pc = "notify"]
  <2>1. l \in Loc /\ l.pc = "notify" /\ l.cycles = loc[t].cycles
    <3>1. "notify" \in PC
      BY DEF PC
    <3> QED
      BY <1>c, <3>1 DEF Loc
  <2>2. Go(t, l) /\ loc[t].pc \in {"route", "verify"}
    BY <1>17 DEF Decline, Verified
  <2>3. Moves(t) /\ loc'[t].pc \notin Ended
    <3> HIDE DEF l
    <3> QED
      BY <1>a, <1>e, <2>1, <2>2
  <2>4. PICK s \in {"cancelled", "completed"}, n \in Notify :
            Cas(t, {"verifying"}, [row[t] EXCEPT !.status = s, !.outcome = s, !.notify = n])
    <3>1. CASE Decline(t)
      BY <3>1 DEF Decline, Notify
    <3>2. CASE Verified(t)
      <4>1. (IF loc[t].reported THEN "not_required" ELSE "pending") \in Notify
        BY DEF Notify
      <4> QED
        BY <3>2, <4>1 DEF Verified
    <3> QED
      BY <1>17, <3>1, <3>2
  <2> DEFINE new == [row[t] EXCEPT !.status = s, !.outcome = s, !.notify = n]
  <2>5. new \in Row /\ new.retry = row[t].retry /\ new.status = s
    <3>1. s \in Terminal /\ s \in Outcome
      BY DEF Terminal, Outcome
    <3> QED
      BY <1>a, <3>1 DEF Row
  <2>6. Cas(t, {"verifying"}, new)
    BY <2>4
  <2>7. Writes(t)
    <3> HIDE DEF new
    <3> QED
      BY <2>5, <2>6, CasWrites DEF NonTerminal, ActiveState, Terminal
  <2> QED
    BY <1>h, <2>3, <2>7
<1>18. CASE ResumeAfterChanges(t)
  <2>1. Writes(t)
    BY <1>18, StatusWrites DEF ResumeAfterChanges, NonTerminal, ActiveState
  <2> QED
    BY <1>18, <1>a, <1>c, <1>e, <1>h, <2>1 DEF ResumeAfterChanges
<1>19. CASE AppendRetryStep(t)
  <2> DEFINE l == [Head(loc[t]) EXCEPT !.tries = @ + 1]
  <2>1. l \in Loc /\ l.pc = "claim" /\ l.cycles = loc[t].cycles
    BY <1>c DEF Loc
  <2>2. Go(t, l) /\ loc[t].pc = "verify"
    BY <1>19 DEF AppendRetryStep, Go, GoElse
  <2>3. Moves(t) /\ loc'[t].pc \notin Ended
    <3> HIDE DEF l
    <3> QED
      BY <1>a, <1>e, <2>1, <2>2
  <2>4. \/ row' = row
        \/ row[t].status = "verifying" /\ row' = [row EXCEPT ![t].status = "running"]
    BY <1>19 DEF AppendRetryStep
  <2>5. Writes(t)
    BY <1>a, <2>4 DEF Writes, Row, NonTerminal, ActiveState
  <2> QED
    BY <1>h, <2>3, <2>5
<1>20. CASE NotifyOwner(t)
  <2>1. PICK p \in {"tail", "settle"} : Go(t, Jump(t, p))
    BY <1>20 DEF NotifyOwner
  <2>2. loc[t].pc \in {"notify", "tailNotify"} /\ Closure(t)
    BY <1>20 DEF NotifyOwner
  <2>3. row' = row \/ \E n \in Notify : row' = [row EXCEPT ![t].notify = n]
    BY <2>2 DEF Closure, Notify
  <2>4. Writes(t)
    BY <1>a, <2>3 DEF Writes, Row
  <2> QED
    BY <1>a, <1>b, <1>e, <1>h, <2>1, <2>2, <2>4 DEF PC
<1>21. CASE TailRead(t)
  <2>1. PICK p \in {"tailNotify", "promote", "done"} :
            Go(t, Jump(t, p)) /\ (p # "tailNotify" => row[t].status # "blocked")
    BY <1>21 DEF TailRead
  <2>2. loc[t].pc = "tail" /\ UNCHANGED row
    BY <1>21 DEF TailRead
  <2>3. Moves(t) /\ (loc'[t].pc \in Ended => p # "tailNotify")
    BY <1>a, <1>b, <2>1, <2>2, GoMoves DEF PC
  <2> QED
    BY <2>1, <2>2, <2>3, SameWrites DEF Settled
<1>22. CASE SettleBlock(t)
  <2>1. PICK p \in {"promote", "done"} : Go(t, Jump(t, p))
    BY <1>22 DEF SettleBlock
  <2>2. loc[t].pc = "settle"
    BY <1>22 DEF SettleBlock
  <2>3. Moves(t)
    BY <1>a, <1>b, <2>1, <2>2, GoMoves DEF PC
  <2>4. CASE Settles(t)
    <3>1. Cas(t, {"blocked"}, Status(t, "dead_letter")) /\ row[t].status = "blocked"
      BY <1>22, <2>4 DEF SettleBlock, Settles
    <3>2. Writes(t)
      BY <3>1, StatusWrites DEF NonTerminal, ActiveState, Terminal
    <3>3. row'[t].status = "dead_letter"
      BY <1>a, <3>1 DEF Cas, Status, Row
    <3> QED
      BY <2>3, <3>2, <3>3 DEF Settled
  <2>5. CASE ~Settles(t)
    <3>1. row' = row /\ (row[t].status # "blocked" \/ row[t].retry # "none")
      BY <1>22, <2>5 DEF SettleBlock, Settles
    <3> QED
      BY <2>3, <3>1, SameWrites DEF Settled
  <2> QED
    BY <2>4, <2>5
<1>23. CASE Promote(t)
  <2>1. Go(t, Jump(t, "done")) /\ loc[t].pc = "promote"
    BY <1>23 DEF Promote
  <2>2. Moves(t)
    BY <1>a, <1>b, <2>1, GoMoves DEF PC
  <2>3. UNCHANGED row \/ HandsOver(t)
    BY <1>23, PromoteHandsOver
  <2> QED
    BY <2>1, <2>2, <2>3, SameWrites DEF Settled
<1> QED
  BY <1>1, <1>2, <1>3, <1>4, <1>5, <1>6, <1>7, <1>8, <1>9, <1>10, <1>11, <1>12, <1>13,
     <1>14, <1>15, <1>16, <1>17, <1>18, <1>19, <1>20, <1>21, <1>22, <1>23
     DEF Workflow

(* An ended workflow only promotes.                                             *)
LEMMA EndedKeeps ==
    ASSUME TypeInv, NEW t \in Task, Workflow(t), loc[t].pc \in Ended
    PROVE  UNCHANGED row \/ HandsOver(t)
<1>1. Promote(t)
  BY DEF Workflow, Ended, At, TriageStart, CyclesSpent, ClaimNone, ClaimStep, TakeStep,
         ClaimRejected, Validated, ValidationFails, ReviewAccepts, ReviewRevises, ReviewAsks,
         ReviewEscalates, ReviewSkipped, DispatchRaises, GateArms, GateRefused, Revise,
         RevisionsSpent, AnswerSeen, PollsSpent, GiveUp, ArmEscalation, Park,
         ApprovalSeen, Execute, Report, AfterExecute, Decline, ChangesAsked,
         ResumeAfterChanges, OwnerUnreachable, Verified, AppendRetryStep, VerifySpent,
         NotifyOwner, TailRead, SettleBlock
<1> QED
  BY <1>1, PromoteHandsOver

(* What no workflow writes: the sweep, the redrives; what only one action does. *)
LEMMA WorkflowFrame ==
    ASSUME NEW t \in Task, Workflow(t)
    PROVE  /\ UNCHANGED <<scanned, sweeps, redrives>>
           /\ UNCHANGED sent \/ \E ran, advanced \in BOOLEAN : Execute(t, ran, advanced)
           /\ UNCHANGED approval \/ GateArms(t)
BY DEF Workflow, ownerVars, effectVars, reapVars, TriageStart, CyclesSpent, ClaimNone, ClaimStep, TakeStep,
       ClaimRejected, Validated, ValidationFails, ReviewAccepts, ReviewRevises, ReviewAsks,
       ReviewEscalates, ReviewSkipped, DispatchRaises, GateArms, GateRefused, Revise,
       RevisionsSpent, AnswerSeen, PollsSpent, StopPolling, GiveUp, ArmEscalation, Park,
       ApprovalSeen, Execute, FanOut, Report, AfterExecute, Decline, ChangesAsked,
       ResumeAfterChanges, OwnerUnreachable, Verified, AppendRetryStep, VerifySpent,
       NotifyOwner, TailRead, SettleBlock, Promote

-------------------------------------------------------------------------------
(* The tenant's slot. What the workflow of one task writes must not revive      *)
(* another, so: a queued task has no workflow under way, a task that does not   *)
(* exist yet has no row, a sweep that read a candidate is counted, and an ended *)
(* workflow leaves no block without a retry.                                    *)

QueuedWaits     == \A t \in Task : row[t].status = "queued" => loc[t].pc \in {"triage", "idle"}
AbsentHasNoRow  == \A t \in Task : loc[t].pc = "absent" => row[t].status = "absent"
ScannedExists   == \A c \in scanned : loc[c[1]].pc # "absent"
ScanCounted     == scanned # {} => sweeps > 0
EndedBlockArmed == \A t \in Task : loc[t].pc \in Ended /\ row[t].status = "blocked"
                                       => row[t].retry # "none"

SlotInv == QueuedWaits /\ AbsentHasNoRow /\ ScannedExists /\ ScanCounted
           /\ EndedBlockArmed /\ OneActiveUnlessForced

(* It holds of an empty database.                                               *)
LEMMA InitSlot == Init => SlotInv
BY DEF Init, SlotInv, QueuedWaits, AbsentHasNoRow, ScannedExists, ScanCounted,
       EndedBlockArmed, OneActiveUnlessForced, OneActive, Active, ActiveState, Ended

(* A step that adds no active task keeps at most one.                           *)
LEMMA FewerActive ==
    ASSUME OneActiveUnlessForced, redrives' = 0 /\ sweeps' = 0 => redrives = 0 /\ sweeps = 0,
           Active' \subseteq Active \/ \E t \in Task : Active' \subseteq {t}
    PROVE  OneActiveUnlessForced'
BY DEF OneActiveUnlessForced, OneActive

(* A workflow keeps it, by what WorkflowEffect says of its steps.               *)
LEMMA WorkflowSlot ==
    ASSUME TypeInv, SlotInv, NEW t \in Task, Workflow(t)
    PROVE  SlotInv'
<1> USE DEF SlotInv
<1>a. UNCHANGED <<scanned, sweeps, redrives>> /\ scanned \subseteq Task \X Nat
  BY WorkflowFrame DEF TypeInv, TypeOK
<1>b. row \in [Task -> Row] /\ loc \in [Task -> Loc]
  BY DEF TypeInv, TypeOK
<1>1. CASE TriageStart(t)
  <2>1. /\ row' = row /\ loc[t].pc = "triage"
        /\ loc' = [loc EXCEPT ![t].pc =
                       IF row[t].status = "planned" THEN "claim" ELSE "idle"]
    BY <1>1 DEF TriageStart, taskVars, At
  <2>2. /\ loc'[t].pc = IF row[t].status = "planned" THEN "claim" ELSE "idle"
        /\ \A u \in Task \ {t} : loc'[u] = loc[u]
    BY <1>b, <2>1 DEF Loc
  <2>3. QueuedWaits' /\ AbsentHasNoRow'
    BY <2>1, <2>2 DEF QueuedWaits, AbsentHasNoRow
  <2>4. ScannedExists' /\ ScanCounted'
    BY <1>a, <2>1, <2>2 DEF ScannedExists, ScanCounted
  <2>5. EndedBlockArmed'
    BY <2>1, <2>2 DEF EndedBlockArmed, Ended
  <2>6. OneActiveUnlessForced'
    BY <1>a, <2>1 DEF OneActiveUnlessForced, OneActive, Active
  <2> QED
    BY <2>3, <2>4, <2>5, <2>6
<1>2. CASE ~TriageStart(t)
  <2>1. Moves(t) /\ (Writes(t) \/ HandsOver(t)) /\ Settled(t)
    BY <1>2, WorkflowEffect
  <2>2. row[t].status # "queued"
    BY <2>1 DEF Moves, QueuedWaits, Unstarted
  <2>3. ScannedExists' /\ ScanCounted'
    BY <1>a, <2>1 DEF ScannedExists, ScanCounted, Moves, Unstarted
  <2>4. CASE Writes(t)
    <3>1. QueuedWaits' /\ AbsentHasNoRow'
      BY <2>1, <2>2, <2>4 DEF QueuedWaits, AbsentHasNoRow, Moves, Unstarted, Writes,
                              ActiveState, Terminal
    <3>2. EndedBlockArmed'
      <4>1. loc'[t].pc \in Ended /\ row'[t].status = "blocked" => row'[t].retry # "none"
        <5>1. CASE loc[t].pc \in Ended /\ loc'[t].pc \in Ended /\ row'[t].status = "blocked"
          <6>1. row' = row \/ HandsOver(t)
            BY <5>1, EndedKeeps
          <6>2. row'[t] = row[t]
            BY <1>b, <2>2, <6>1 DEF HandsOver, Queued
          <6> QED
            BY <5>1, <6>2 DEF EndedBlockArmed
        <5> QED
          BY <2>1, <5>1 DEF Settled
      <4> QED
        BY <2>1, <2>4, <4>1 DEF EndedBlockArmed, Moves, Writes
    <3>3. Active' \subseteq Active
      BY <2>2, <2>4 DEF Active, Writes, NonTerminal
    <3> QED
      BY <1>a, <2>3, <3>1, <3>2, <3>3, FewerActive
  <2>5. CASE HandsOver(t)
    <3>1. PICK q \in Queued : row' = [row EXCEPT ![q].status = "planned"]
      BY <2>5 DEF HandsOver
    <3>2. /\ q \in Task /\ row[q].status = "queued"
          /\ row'[q].status = "planned" /\ \A u \in Task \ {q} : row'[u] = row[u]
      BY <1>b, <3>1 DEF Queued, Row
    <3>3. QueuedWaits' /\ AbsentHasNoRow'
      BY <2>1, <3>2 DEF QueuedWaits, AbsentHasNoRow, Moves, Unstarted
    <3>4. EndedBlockArmed'
      BY <2>1, <2>5, <3>2 DEF EndedBlockArmed, Moves, HandsOver, Ended
    <3>5. Active' \subseteq {q}
      BY <2>5, <3>2 DEF Active, HandsOver
    <3> QED
      BY <1>a, <2>3, <3>2, <3>3, <3>4, <3>5, FewerActive
  <2> QED
    BY <2>1, <2>4, <2>5
<1> QED
  BY <1>1, <1>2

(* The rows the other actors may write: those of tasks that exist, to a status  *)
(* that takes the slot only from a task that held it, unless the step is        *)
(* counted as a redrive or a strike.                                            *)
Touches(t) ==
    /\ \A u \in Task \ {t} : row'[u] = row[u]
    /\ \/ row'[t].status = row[t].status
       \/ /\ row[t].status \notin {"absent", "queued"}
          /\ row'[t].status \notin {"absent", "queued"}
    /\ row'[t].status = "blocked" =>
           \/ row'[t].retry # "none"
           \/ row'[t].status = row[t].status /\ row'[t].retry = row[t].retry

(* Any such write keeps the invariant.                                          *)
LEMMA TouchSlot ==
    ASSUME TypeInv, SlotInv, NEW t \in Task, Touches(t), UNCHANGED loc,
           scanned' \subseteq scanned, sweeps' \in Nat, sweeps' >= sweeps,
           redrives' \in Nat, redrives' >= redrives,
           \/ row[t].status \in ActiveState \/ row'[t].status \notin ActiveState
           \/ redrives' # 0 \/ sweeps' # 0
    PROVE  SlotInv'
<1> USE DEF SlotInv
<1>a. redrives \in Nat /\ sweeps \in Nat /\ row \in [Task -> Row]
  BY DEF TypeInv, TypeOK
<1>1. QueuedWaits' /\ AbsentHasNoRow'
  BY DEF QueuedWaits, AbsentHasNoRow, Touches
<1>2. ScannedExists'
  BY DEF ScannedExists
<1>3. ScanCounted'
  <2>1. scanned' # {} => sweeps > 0
    BY DEF ScanCounted
  <2>2. (sweeps > 0 => sweeps' > 0) \/ scanned' = {}
    BY <1>a
  <2> QED
    BY <2>1, <2>2 DEF ScanCounted
<1>4. EndedBlockArmed'
  BY DEF EndedBlockArmed, Touches
<1>5. OneActiveUnlessForced'
  <2>1. CASE redrives' # 0 \/ sweeps' # 0
    BY <2>1 DEF OneActiveUnlessForced
  <2>2. CASE redrives' = 0 /\ sweeps' = 0
    <3>1. Active' \subseteq Active
      BY <2>2 DEF Active, Touches
    <3>2. redrives = 0 /\ sweeps = 0
      BY <1>a, <2>2
    <3> QED
      BY <2>2, <3>1, <3>2, FewerActive
  <2> QED
    BY <2>1, <2>2
<1> QED
  BY <1>1, <1>2, <1>3, <1>4, <1>5

(* A closure sent by the sweep is such a write.                                 *)
LEMMA ClosureTouches ==
    ASSUME TypeInv, NEW t \in Task, Closure(t)
    PROVE  Touches(t) /\ row'[t].status = row[t].status
<1>1. row' = row \/ \E n \in Notify : row' = [row EXCEPT ![t].notify = n]
  BY DEF Closure, Notify, taskVars
<1>2. row \in [Task -> Row]
  BY DEF TypeInv, TypeOK
<1> QED
  BY <1>1, <1>2 DEF Touches, Row

(* So is a redrive.                                                             *)
LEMMA RedriveTouches ==
    ASSUME TypeInv, NEW t \in Task, Cas(t, {"dead_letter", "blocked"}, Redriven(t))
    PROVE  Touches(t)
<1>1. row \in [Task -> Row] /\ row[t] \in Row
  BY DEF TypeInv, TypeOK
<1>2. Redriven(t).status = "planned"
  BY <1>1 DEF Redriven, Row
<1> QED
  BY <1>1, <1>2 DEF Cas, Touches, taskVars

(* One step per statement of the stall sweep.                                   *)
LEMMA ReaperSlot ==
    ASSUME TypeInv, SlotInv, Reaper
    PROVE  SlotInv'
<1> USE DEF taskVars, planVars, ownerVars, effectVars, reapVars
<1>a. /\ row \in [Task -> Row] /\ scanned \subseteq Task \X Nat
      /\ sweeps \in Nat /\ redrives \in Nat /\ aged \subseteq Task
  BY DEF TypeInv, TypeOK
<1>1. CASE ReaperScan
  <2>1. \A c \in scanned' : c[1] \in Task /\ row[c[1]].status \in StallState
    BY <1>1, <1>a DEF ReaperScan, Stalled
  <2>2. row' = row /\ loc' = loc /\ sweeps' > 0
    BY <1>1, <1>a DEF ReaperScan
  <2>3. QueuedWaits' /\ AbsentHasNoRow' /\ EndedBlockArmed'
    BY <2>2 DEF SlotInv, QueuedWaits, AbsentHasNoRow, EndedBlockArmed
  <2>4. ScannedExists'
    BY <2>1, <2>2 DEF SlotInv, ScannedExists, AbsentHasNoRow, StallState
  <2>5. ScanCounted' /\ OneActiveUnlessForced'
    BY <2>2, <1>a DEF ScanCounted, OneActiveUnlessForced
  <2> QED
    BY <2>3, <2>4, <2>5 DEF SlotInv
<1>2. CASE ReaperDies
  <2>1. UNCHANGED <<row, loc, sweeps, redrives>> /\ scanned' = {}
    BY <1>2 DEF ReaperDies
  <2> QED
    BY <2>1 DEF SlotInv, QueuedWaits, AbsentHasNoRow, ScannedExists, ScanCounted,
                EndedBlockArmed, OneActiveUnlessForced, OneActive, Active
<1>3. ASSUME NEW c \in scanned, ReaperStrike(c[1], c[2])
      PROVE  SlotInv'
  <2>1. PICK t \in Task, attempt \in Nat : ReaperStrike(t, attempt)
    BY <1>3, <1>a
  <2> DEFINE spent == attempt + 1 >= MaxAttempts
             status == IF spent THEN "dead_letter" ELSE "blocked"
             retry  == IF spent THEN "none" ELSE "armed"
  <2>2. row' = [row EXCEPT ![t].status = status, ![t].retry = retry,
                           ![t].attempt = attempt + 1]
    BY <2>1 DEF ReaperStrike
  <2>3. \/ status = "dead_letter"
        \/ status = "blocked" /\ retry = "armed"
    OBVIOUS
  <2>4. /\ UNCHANGED <<loc, sweeps, redrives>> /\ scanned' \subseteq scanned
        /\ <<t, attempt>> \in scanned
    BY <2>1 DEF ReaperStrike
  <2>5. sweeps > 0
    BY <2>4 DEF SlotInv, ScanCounted
  <2>6. loc[t].pc # "absent"
    BY <2>4 DEF SlotInv, ScannedExists
  <2> HIDE DEF status, retry
  <2>7. /\ \A u \in Task \ {t} : row'[u] = row[u]
        /\ row'[t].status = status /\ row'[t].retry = retry
    BY <1>a, <2>2 DEF Row
  <2>8. QueuedWaits' /\ AbsentHasNoRow'
    BY <2>3, <2>4, <2>6, <2>7 DEF SlotInv, QueuedWaits, AbsentHasNoRow
  <2>9. ScannedExists' /\ ScanCounted'
    BY <2>4, <2>5 DEF SlotInv, ScannedExists, ScanCounted
  <2>10. EndedBlockArmed'
    BY <2>3, <2>4, <2>7 DEF SlotInv, EndedBlockArmed
  <2>11. OneActiveUnlessForced'
    BY <1>a, <2>4, <2>5 DEF OneActiveUnlessForced
  <2> QED
    BY <2>8, <2>9, <2>10, <2>11 DEF SlotInv
<1>4. ASSUME NEW t \in Task, ReaperWakes(t)
      PROVE  SlotInv'
  <2> DEFINE new == [Status(t, "planned") EXCEPT !.retry = "none"]
  <2>1. new.status = "planned"
    BY <1>a DEF Status, Row
  <2>2. row[t].status = "blocked" /\ row' = [row EXCEPT ![t] = new]
    BY <1>4 DEF ReaperWakes, Cas
  <2> HIDE DEF new
  <2>3. Touches(t) /\ row[t].status \in ActiveState
    BY <1>a, <2>1, <2>2 DEF Touches, ActiveState
  <2>4. UNCHANGED <<loc, scanned, sweeps, redrives>>
    BY <1>4 DEF ReaperWakes
  <2> QED
    BY <1>a, <2>3, <2>4, TouchSlot
<1>5. ASSUME NEW t \in Task, ReaperCloses(t)
      PROVE  SlotInv'
  <2>1. \/ row' = row
        \/ row' = [row EXCEPT ![t].outcome = "escalated", ![t].notify = "pending"]
    BY <1>5 DEF ReaperCloses
  <2>2. Touches(t) /\ row'[t].status = row[t].status
    BY <1>a, <2>1 DEF Touches, Row
  <2>3. UNCHANGED <<loc, scanned, sweeps, redrives>>
    BY <1>5 DEF ReaperCloses
  <2> QED
    BY <1>a, <2>2, <2>3, TouchSlot
<1>6. ASSUME NEW t \in Task, OrphanSweep(t)
      PROVE  SlotInv'
  <2> DEFINE notify == IF row[t].notify = "not_required" THEN "pending" ELSE row[t].notify
             new == [row[t] EXCEPT !.status = "dead_letter", !.outcome = "escalated",
                                   !.notify = notify]
  <2>1. row[t].status = "waiting_owner" /\ Cas(t, {"waiting_owner"}, new)
    BY <1>6, <1>a DEF OrphanSweep, Row
  <2>2. new.status = "dead_letter"
    BY <1>a DEF Row
  <2>3. row' = [row EXCEPT ![t] = new]
    BY <2>1 DEF Cas
  <2> HIDE DEF new
  <2>4. Touches(t) /\ row'[t].status \notin ActiveState
    BY <1>a, <2>1, <2>2, <2>3 DEF Touches, ActiveState
  <2>5. UNCHANGED <<loc, scanned, redrives>> /\ sweeps' = sweeps + 1
    BY <1>6 DEF OrphanSweep
  <2> QED
    BY <1>a, <2>4, <2>5, TouchSlot
<1>7. ASSUME NEW t \in Task, ReaperNotifies(t)
      PROVE  SlotInv'
  <2>1. Touches(t) /\ row'[t].status = row[t].status
    BY <1>7, ClosureTouches DEF ReaperNotifies
  <2>2. UNCHANGED <<loc, scanned, sweeps, redrives>>
    BY <1>7 DEF ReaperNotifies
  <2> QED
    BY <1>a, <2>1, <2>2, TouchSlot
<1> QED
  BY <1>1, <1>2, <1>3, <1>4, <1>5, <1>6, <1>7 DEF Reaper

(* The clock, the owner, the admission and the operator.                        *)
LEMMA OutsideSlot ==
    ASSUME TypeInv, SlotInv, Outside
    PROVE  SlotInv'
<1> USE DEF taskVars, planVars, ownerVars, effectVars, reapVars
<1>a. /\ row \in [Task -> Row] /\ loc \in [Task -> Loc]
      /\ sweeps \in Nat /\ redrives \in Nat
  BY DEF TypeInv, TypeOK
<1>b. ASSUME UNCHANGED <<row, loc, scanned, sweeps, redrives>>
      PROVE  SlotInv'
  BY <1>b DEF SlotInv, QueuedWaits, AbsentHasNoRow, ScannedExists, ScanCounted,
              EndedBlockArmed, OneActiveUnlessForced, OneActive, Active
<1>1. CASE AnHourPasses
  BY <1>1, <1>b DEF AnHourPasses
<1>2. ASSUME NEW t \in Task, NEW n \in 1..MaxPlan, Admit(t, n)
      PROVE  SlotInv'
  <2> DEFINE k == Cardinality({u \in Task : row[u].created # 0}) + 1
             status == IF Active = {} THEN "planned" ELSE "queued"
  <2>1. /\ row' = [row EXCEPT ![t].status = status, ![t].created = k]
        /\ loc' = [loc EXCEPT ![t].pc = "triage"]
        /\ UNCHANGED <<scanned, sweeps, redrives>>
    BY <1>2 DEF Admit, AdmitAs
  <2>2. \/ Active = {} /\ status = "planned"
        \/ status = "queued"
    OBVIOUS
  <2> HIDE DEF k, status
  <2>3. /\ \A u \in Task \ {t} : row'[u] = row[u] /\ loc'[u] = loc[u]
        /\ row'[t].status = status /\ loc'[t].pc = "triage"
    BY <1>a, <2>1 DEF Row, Loc
  <2>4. QueuedWaits' /\ AbsentHasNoRow' /\ EndedBlockArmed'
    BY <2>3 DEF SlotInv, QueuedWaits, AbsentHasNoRow, EndedBlockArmed, Ended
  <2>5. ScannedExists' /\ ScanCounted'
    <3>1. \A c \in scanned : loc'[c[1]].pc # "absent"
      <4>1. \A c \in scanned : c[1] \in Task
        BY DEF TypeInv, TypeOK
      <4> QED
        BY <2>3, <4>1 DEF SlotInv, ScannedExists
    <3> QED
      BY <2>1, <3>1 DEF SlotInv, ScannedExists, ScanCounted
  <2>6. Active' \subseteq Active \/ Active' \subseteq {t}
    BY <2>2, <2>3 DEF Active, ActiveState
  <2>7. OneActiveUnlessForced'
    BY <2>1, <2>6, FewerActive DEF SlotInv
  <2> QED
    BY <2>4, <2>5, <2>7 DEF SlotInv
<1>3. ASSUME NEW t \in Task, OwnerAnswers(t)
      PROVE  SlotInv'
  BY <1>3, <1>b DEF OwnerAnswers
<1>4. ASSUME NEW t \in Task, RetryFallsDue(t)
      PROVE  SlotInv'
  <2>1. row' = [row EXCEPT ![t].retry = "due"] /\ UNCHANGED <<loc, scanned, sweeps, redrives>>
    BY <1>4 DEF RetryFallsDue
  <2>2. /\ \A u \in Task \ {t} : row'[u] = row[u]
        /\ row'[t].status = row[t].status /\ row'[t].retry = "due"
    BY <1>a, <2>1 DEF Row
  <2>3. Touches(t)
    BY <2>2 DEF Touches
  <2> QED
    BY <1>a, <2>1, <2>2, <2>3, TouchSlot
<1>5. ASSUME NEW t \in Task, Redrive(t)
      PROVE  SlotInv'
  <2>1. Touches(t)
    BY <1>5, RedriveTouches DEF Redrive, RedriveFrom
  <2>2. UNCHANGED <<loc, scanned, sweeps>> /\ redrives' = redrives + 1
    BY <1>5 DEF Redrive, RedriveFrom
  <2> QED
    BY <1>a, <2>1, <2>2, TouchSlot
<1>6. ASSUME NEW t \in Task, NEW d \in Dispatch, NEW decision \in Decision,
             Resolve(t, d, decision)
      PROVE  SlotInv'
  <2>1. \/ Cas(t, {"dead_letter", "blocked"}, Redriven(t)) /\ redrives' = redrives + 1
        \/ UNCHANGED <<row, redrives>>
    BY <1>6 DEF Resolve
  <2>2. UNCHANGED <<loc, scanned, sweeps>>
    BY <1>6 DEF Resolve
  <2>3. CASE Cas(t, {"dead_letter", "blocked"}, Redriven(t)) /\ redrives' = redrives + 1
    BY <1>a, <2>2, <2>3, RedriveTouches, TouchSlot
  <2> QED
    BY <1>b, <2>1, <2>2, <2>3
<1> QED
  BY <1>1, <1>2, <1>3, <1>4, <1>5, <1>6 DEF Outside

(* The slot invariant holds in every reachable state of the tasks, the sweep    *)
(* and the operator together.                                                   *)
THEOREM SlotInvariant == Spec => []SlotInv
<1>1. ASSUME TypeInv, SlotInv, [Next]_vars
      PROVE  SlotInv'
  <2>1. CASE Next
    BY <1>1, <2>1, WorkflowSlot, ReaperSlot, OutsideSlot DEF Next
  <2>2. CASE UNCHANGED vars
    BY <1>1, <2>2 DEF vars, SlotInv, QueuedWaits, AbsentHasNoRow, ScannedExists, ScanCounted,
                     EndedBlockArmed, OneActiveUnlessForced, OneActive, Active
  <2> QED
    BY <1>1, <2>1, <2>2
<1> QED
  BY <1>1, InitSlot, TypeInvariant, PTL DEF Spec

(* create_plan and promote_next_queued_task keep the tenant to one active task, *)
(* whatever any number of workflows write in between, as long as no redrive and *)
(* no strike of the stall sweep puts a task back beside them.                   *)
THEOREM OneActiveTask == Spec => []OneActiveUnlessForced
<1>1. SlotInv => OneActiveUnlessForced
  BY DEF SlotInv
<1> QED
  BY <1>1, SlotInvariant, PTL

(* No workflow that has run to its end leaves its task 'blocked' without a      *)
(* retry (settle_unretryable_block), whatever raced with its tail.              *)
THEOREM EndedBlock == Spec => []EndedBlockHasRetry
<1>1. SlotInv => EndedBlockHasRetry
  BY DEF SlotInv, EndedBlockArmed, EndedBlockHasRetry, At, Ended
<1> QED
  BY <1>1, SlotInvariant, PTL

(* A completed or cancelled task keeps its status whatever the workflows, the   *)
(* owner and the operator do; only a strike of the stall sweep on a candidate   *)
(* it read earlier can undo it.                                                 *)
THEOREM ClosedForGood == Spec => ClosedStays
<1> DEFINE Kept == \A t \in Task :
            row[t].status \in {"completed", "cancelled"} /\ row'[t].status # row[t].status
            => \E c \in scanned \ scanned' : c[1] = t
<1>1. ASSUME TypeInv, SlotInv, [Next]_vars
      PROVE  [Kept]_vars
  <2> SUFFICES ASSUME Next, NEW t \in Task,
                      row[t].status \in {"completed", "cancelled"},
                      row'[t].status # row[t].status
               PROVE  \E c \in scanned \ scanned' : c[1] = t
    BY <1>1 DEF vars
  <2>a. row \in [Task -> Row] /\ scanned \subseteq Task \X Nat
    BY <1>1 DEF TypeInv, TypeOK
  <2>b. row[t].status \notin NonTerminal \union {"absent", "dead_letter"}
    BY DEF NonTerminal, ActiveState
  <2>1. ASSUME NEW u \in Task, Workflow(u)
        PROVE  FALSE
    <3>1. CASE TriageStart(u)
      BY <3>1 DEF TriageStart, taskVars
    <3>2. CASE ~TriageStart(u)
      <4>1. Writes(u) \/ HandsOver(u)
        BY <1>1, <2>1, <3>2, WorkflowEffect
      <4>2. CASE Writes(u)
        BY <2>b, <4>2 DEF Writes
      <4>3. CASE HandsOver(u)
        <5>1. PICK q \in Queued : row' = [row EXCEPT ![q].status = "planned"]
          BY <4>3 DEF HandsOver
        <5>2. q # t
          BY DEF Queued
        <5> QED
          BY <2>a, <5>1, <5>2
      <4> QED
        BY <4>1, <4>2, <4>3
    <3> QED
      BY <3>1, <3>2
  <2>2. ASSUME NEW c \in scanned, ReaperStrike(c[1], c[2])
        PROVE  \E e \in scanned \ scanned' : e[1] = t
    <3>1. PICK u \in Task, attempt \in Nat : c = <<u, attempt>> /\ ReaperStrike(u, attempt)
      BY <2>2, <2>a
    <3>2. c \in scanned \ scanned'
      BY <3>1 DEF ReaperStrike
    <3>3. \A v \in Task \ {u} : row'[v] = row[v]
      BY <2>a, <3>1 DEF ReaperStrike
    <3> QED
      BY <3>1, <3>2, <3>3
  <2>3. ASSUME NEW u \in Task,
               ReaperWakes(u) \/ OrphanSweep(u) \/ Redrive(u)
               \/ \E d \in Dispatch, decision \in Decision : Resolve(u, d, decision)
        PROVE  FALSE
    <3>1. PICK from \in SUBSET (NonTerminal \union {"dead_letter"}) :
              UNCHANGED row \/ \E new : Cas(u, from, new)
      BY <2>3, {"dead_letter", "blocked"} \subseteq NonTerminal \union {"dead_letter"},
         {"waiting_owner"} \subseteq NonTerminal
         DEF ReaperWakes, OrphanSweep, Redrive, RedriveFrom, Resolve, taskVars,
             NonTerminal, ActiveState
    <3> QED
      BY <2>a, <2>b, <3>1 DEF Cas, taskVars
  <2>4. ASSUME NEW u \in Task, ReaperCloses(u)
        PROVE  FALSE
    <3>1. \/ row' = row
          \/ row' = [row EXCEPT ![u].outcome = "escalated", ![u].notify = "pending"]
      BY <2>4 DEF ReaperCloses, taskVars
    <3> QED
      BY <2>a, <3>1 DEF Row
  <2>5. ASSUME NEW u \in Task, ReaperNotifies(u)
        PROVE  FALSE
    BY <1>1, <2>5, ClosureTouches DEF ReaperNotifies, Touches
  <2>6. ASSUME NEW u \in Task, NEW n \in 1..MaxPlan, Admit(u, n)
        PROVE  FALSE
    <3>1. u # t
      BY <1>1, <2>6, <2>b DEF Admit, AdmitAs, At, SlotInv, AbsentHasNoRow
    <3> QED
      BY <2>a, <2>6, <3>1 DEF Admit, AdmitAs
  <2>7. ASSUME NEW u \in Task, RetryFallsDue(u)
        PROVE  FALSE
    BY <2>a, <2>7 DEF RetryFallsDue, Row
  <2>8. ReaperScan \/ ReaperDies \/ AnHourPasses \/ (\E u \in Task : OwnerAnswers(u))
        => UNCHANGED row
    BY DEF ReaperScan, ReaperDies, AnHourPasses, OwnerAnswers, taskVars
  <2> QED
    BY <2>1, <2>2, <2>3, <2>4, <2>5, <2>6, <2>7, <2>8 DEF Next, Reaper, Outside
<1> QED
  BY <1>1, TypeInvariant, SlotInvariant, PTL DEF Spec, ClosedStays

-------------------------------------------------------------------------------
(* What is sent. A sent campaign belongs to a dispatch already made, so arming  *)
(* the next dispatch's approval cannot turn it back into an undecided one.      *)

SentIsPast ==
    \A t \in Task, d \in Dispatch :
        sent[t][d] > 0 => approval[t][d] = "approved" /\ d <= loc[t].cycles

SendInv == SentIsPast /\ AtMostOneCampaignSent

(* It holds of an empty database.                                               *)
LEMMA InitSend == Init => SendInv
BY DEF Init, SendInv, SentIsPast, AtMostOneCampaignSent

(* Outside the fan-out, nothing is sent; an approved approval stays approved;   *)
(* no dispatch is forgotten.                                                    *)
LEMMA QuietSend ==
    ASSUME TypeInv, TypeInv', SendInv, UNCHANGED sent,
           \A t \in Task : loc'[t].cycles >= loc[t].cycles,
           \A t \in Task, d \in Dispatch :
               approval[t][d] = "approved" /\ d <= loc[t].cycles
               => approval'[t][d] = "approved"
    PROVE  SendInv'
<1>1. \A t \in Task : loc[t].cycles \in Nat /\ loc'[t].cycles \in Nat
  BY DEF TypeInv, TypeOK, Loc
<1>2. ASSUME NEW t \in Task, NEW d \in Dispatch, sent'[t][d] > 0
      PROVE  approval'[t][d] = "approved" /\ d <= loc'[t].cycles
  <2>1. approval[t][d] = "approved" /\ d <= loc[t].cycles
    BY <1>2 DEF SendInv, SentIsPast
  <2>2. d \in Nat
    BY DEF Dispatch
  <2> QED
    BY <1>1, <2>1, <2>2
<1> QED
  BY <1>2 DEF SendInv, SentIsPast, AtMostOneCampaignSent

(* A workflow sends only in its execution step, and arms only a new dispatch.   *)
LEMMA WorkflowSend ==
    ASSUME TypeInv, TypeInv', SendInv, NEW t \in Task, Workflow(t)
    PROVE  SendInv'
<1>a. loc \in [Task -> Loc] /\ \A u \in Task : loc[u].cycles \in Nat
  BY DEF TypeInv, TypeOK, Loc
<1>b. approval \in [Task -> [Dispatch -> Decision \union {"none", "pending"}]]
  BY DEF TypeInv, TypeOK
<1>c. \A u \in Task : loc'[u].cycles >= loc[u].cycles
  <2>1. CASE TriageStart(t)
    <3>1. \A u \in Task : loc'[u].cycles = loc[u].cycles
      BY <1>a, <2>1 DEF TriageStart, Loc
    <3> QED
      BY <1>a, <3>1
  <2>2. CASE ~TriageStart(t)
    BY <1>a, <2>2, WorkflowEffect DEF Moves
  <2> QED
    BY <2>1, <2>2
<1>1. CASE GateArms(t)
  <2>1. UNCHANGED sent /\ approval' = [approval EXCEPT ![t][loc[t].cycles + 1] = "pending"]
    BY <1>1 DEF GateArms, effectVars, D
  <2>2. \A u \in Task, d \in Dispatch :
            approval[u][d] = "approved" /\ d <= loc[u].cycles => approval'[u][d] = "approved"
    <3> TAKE u \in Task, d \in Dispatch
    <3> HAVE approval[u][d] = "approved" /\ d <= loc[u].cycles
    <3>1. u # t \/ d # loc[t].cycles + 1
      BY <1>a DEF Dispatch
    <3>2. approval'[u][d] = approval[u][d]
      BY <1>b, <2>1, <3>1
    <3> QED
      BY <3>2
  <2> QED
    BY <1>c, <2>1, <2>2, QuietSend
<1>2. ASSUME NEW ran \in BOOLEAN, NEW advanced \in BOOLEAN, Execute(t, ran, advanced)
      PROVE  SendInv'
  <2> DEFINE k == loc[t].cycles
  <2>1. /\ approval' = approval /\ approval[t][k] = "approved"
        /\ \/ sent' = sent
           \/ sent[t][k] = 0 /\ sent' = [sent EXCEPT ![t][k] = @ + 1]
    BY <1>2 DEF Execute, FanOut, Unsent, ownerVars, D
  <2>2. CASE sent' = sent
    BY <1>c, <2>1, <2>2, QuietSend
  <2>3. CASE sent[t][k] = 0 /\ sent' = [sent EXCEPT ![t][k] = @ + 1]
    <3>1. sent \in [Task -> [Dispatch -> Nat]]
      BY DEF TypeInv, TypeOK
    <3>2. k \in Nat /\ loc'[t].cycles \in Nat /\ loc'[t].cycles >= k
      BY <1>a, <1>c DEF TypeInv, TypeOK, Loc
    <3> HIDE DEF k
    <3>3. ASSUME NEW u \in Task, NEW d \in Dispatch, u # t \/ d # k
          PROVE  sent'[u][d] = sent[u][d]
      BY <2>3, <3>1, <3>3
    <3>4. k \in Dispatch => sent'[t][k] = 1
      BY <2>3, <3>1
    <3>5. ASSUME NEW u \in Task, NEW d \in Dispatch
          PROVE  /\ sent'[u][d] <= 1
                 /\ sent'[u][d] > 0 => approval'[u][d] = "approved" /\ d <= loc'[u].cycles
      <4>1. CASE u = t /\ d = k
        BY <2>1, <3>2, <3>4, <4>1
      <4>2. CASE u # t \/ d # k
        <5>1. sent'[u][d] = sent[u][d]
          BY <3>3, <4>2
        <5>2. loc'[u].cycles \in Nat /\ loc[u].cycles \in Nat
              /\ loc'[u].cycles >= loc[u].cycles /\ d \in Nat
          BY <1>a, <1>c DEF TypeInv, TypeOK, Loc, Dispatch
        <5>3. /\ sent[u][d] <= 1
              /\ sent[u][d] > 0 => approval[u][d] = "approved" /\ d <= loc[u].cycles
          BY DEF SendInv, SentIsPast, AtMostOneCampaignSent
        <5> QED
          BY <2>1, <5>1, <5>2, <5>3
      <4> QED
        BY <4>1, <4>2
    <3> QED
      BY <3>5 DEF SendInv, SentIsPast, AtMostOneCampaignSent
  <2> QED
    BY <2>1, <2>2, <2>3
<1>3. CASE UNCHANGED <<sent, approval>>
  BY <1>c, <1>3, QuietSend
<1> QED
  BY <1>1, <1>2, <1>3, WorkflowFrame

(* The other actors send nothing and settle only pending approvals.             *)
LEMMA OthersSend ==
    ASSUME TypeInv, TypeInv', SendInv, Reaper \/ Outside
    PROVE  SendInv'
<1> USE DEF effectVars, ownerVars
<1>a. loc \in [Task -> Loc] /\ \A u \in Task : loc[u].cycles \in Nat
  BY DEF TypeInv, TypeOK, Loc
<1>b. approval \in [Task -> [Dispatch -> Decision \union {"none", "pending"}]]
  BY DEF TypeInv, TypeOK
<1>1. UNCHANGED sent
  BY DEF Reaper, Outside, ReaperScan, ReaperDies, ReaperStrike, ReaperWakes, ReaperCloses,
         OrphanSweep, ReaperNotifies, AnHourPasses, Admit, AdmitAs, OwnerAnswers,
         RetryFallsDue, Redrive, RedriveFrom, Resolve
<1>2. \A u \in Task : loc'[u].cycles >= loc[u].cycles
  <2>1. loc' = loc \/ \E t \in Task : loc' = [loc EXCEPT ![t].pc = "triage"]
    BY DEF Reaper, Outside, ReaperScan, ReaperDies, ReaperStrike, ReaperWakes, ReaperCloses,
           OrphanSweep, ReaperNotifies, AnHourPasses, Admit, AdmitAs, OwnerAnswers,
           RetryFallsDue, Redrive, RedriveFrom, Resolve
  <2>2. \A u \in Task : loc'[u].cycles = loc[u].cycles
    BY <1>a, <2>1 DEF Loc
  <2> QED
    BY <1>a, <2>2
<1>3. \/ approval' = approval
      \/ \E t \in Task, d \in 0..MaxCycles, decision \in Decision :
             approval[t][d] = "pending" /\ approval' = [approval EXCEPT ![t][d] = decision]
  <2>1. ASSUME NEW t \in Task, ReaperCloses(t)
        PROVE  <1>3!:
    <3>1. row[t].stamp \in 0..MaxCycles /\ "timeout" \in Decision
      BY DEF TypeInv, TypeOK, Row, Decision
    <3> QED
      BY <2>1, <3>1 DEF ReaperCloses
  <2>2. ASSUME NEW t \in Task, NEW d \in Dispatch, NEW decision \in Decision,
               Resolve(t, d, decision)
        PROVE  <1>3!:
    <3>1. d \in 0..MaxCycles /\ approval[t][d] = "pending"
          /\ approval' = [approval EXCEPT ![t][d] = decision]
      BY <2>2 DEF Resolve, Dispatch
    <3> QED
      BY <3>1
  <2>3. CASE UNCHANGED approval
    BY <2>3
  <2> QED
    BY <2>1, <2>2, <2>3
       DEF Reaper, Outside, ReaperScan, ReaperDies, ReaperStrike, ReaperWakes,
           OrphanSweep, ReaperNotifies, AnHourPasses, Admit, AdmitAs, OwnerAnswers,
           RetryFallsDue, Redrive, RedriveFrom
<1>4. \A t \in Task, d \in Dispatch :
          approval[t][d] = "approved" => approval'[t][d] = "approved"
  BY <1>b, <1>3
<1> QED
  BY <1>1, <1>2, <1>4, QuietSend

(* The send invariant holds in every reachable state, crashes included.         *)
THEOREM SendInvariant == Spec => []SendInv
<1>1. ASSUME TypeInv, TypeInv', SendInv, [Next]_vars
      PROVE  SendInv'
  <2>1. CASE Next
    BY <1>1, <2>1, WorkflowSend, OthersSend DEF Next
  <2>2. CASE UNCHANGED vars
    BY <1>1, <2>2 DEF vars, SendInv, SentIsPast, AtMostOneCampaignSent
  <2> QED
    BY <1>1, <2>1, <2>2
<1> QED
  BY <1>1, InitSend, TypeInvariant, PTL DEF Spec

(* Nothing is ever fanned out to customers for a dispatch whose own approval    *)
(* does not say 'approved', however the workflow crashes, whoever resolves the  *)
(* approval and however often it is re-armed.                                   *)
THEOREM OnlyApprovedIsSent == Spec => []SendOnlyIfApproved
<1>1. SendInv => SendOnlyIfApproved
  BY DEF SendInv, SentIsPast, SendOnlyIfApproved
<1> QED
  BY <1>1, SendInvariant, PTL

(* A campaign advances to 'sent' at most once, for any number of crashes and    *)
(* re-runs of the execution step.                                               *)
THEOREM SentAtMostOnce == Spec => []AtMostOneCampaignSent
<1>1. SendInv => AtMostOneCampaignSent
  BY DEF SendInv
<1> QED
  BY <1>1, SendInvariant, PTL

===============================================================================
