--------------------------- MODULE ManagerTaskProofs ---------------------------
(* Type correctness of ManagerTask, for every value of its constants, and the   *)
(* facts about its building blocks the other proofs use.                        *)
EXTENDS ManagerTask, TLAPS, FiniteSetTheorems, WellFoundedInduction

USE BoundsAssumption, TaskAssumption

-------------------------------------------------------------------------------
(* Lemmas about the building blocks of the actions.                            *)

(* claim_next_step's "lowest pending step_seq" exists and is one of them.       *)
LEMMA LeastIn ==
    ASSUME NEW S \in SUBSET Nat, S # {}
    PROVE  Least(S) \in S /\ \A u \in S : Least(S) <= u
<1>1. PICK s \in S : \A u \in S : <<u, s>> \notin OpToRel(<, Nat)
  BY WFMin, NatLessThanWellFounded, Zenon
<1>2. \A u \in S : ~(u < s)
  BY <1>1, Zenon DEF OpToRel
<1>3. \A u \in S : s <= u
  BY <1>2
<1> QED
  BY <1>3 DEF Least

(* Counting one more at q keeps a function to Nat, in its domain or not.        *)
LEMMA IncType ==
    ASSUME NEW S, NEW f \in [S -> Nat], NEW q
    PROVE  [f EXCEPT ![q] = @ + 1] \in [S -> Nat]
<1> DEFINE g == [f EXCEPT ![q] = @ + 1]
<1>1. g = [u \in S |-> IF u = q THEN f[q] + 1 ELSE f[u]]
  OBVIOUS
<1>2. \A u \in S : (IF u = q THEN f[q] + 1 ELSE f[u]) \in Nat
  OBVIOUS
<1> QED
  BY <1>1, <1>2

(* A compare-and-set writes a row if the new value is one.                      *)
LEMMA CasType ==
    ASSUME row \in [Task -> Row], aged \subseteq Task,
           NEW t \in Task, NEW from, NEW new,
           row[t].status \in from => new \in Row,
           Cas(t, from, new)
    PROVE  row' \in [Task -> Row] /\ aged' \subseteq Task
BY DEF Cas, taskVars

(* Changing a row's status, or blocking it, gives a row.                        *)
LEMMA StatusType ==
    ASSUME row \in [Task -> Row], NEW t \in Task,
           NEW s \in Terminal \union NonTerminal
    PROVE  Status(t, s) \in Row
BY DEF Status, Row

(* A block, from whatever point of the loop, writes a row.                      *)
LEMMA BlockType ==
    ASSUME row \in [Task -> Row], aged \subseteq Task, NEW t \in Task, Block(t)
    PROVE  row' \in [Task -> Row] /\ aged' \subseteq Task
<1>1. [row[t] EXCEPT !.status = "blocked", !.outcome = "escalated",
                     !.notify = "pending"] \in Row
  BY DEF Row, NonTerminal, ActiveState, Outcome, Notify
<1> QED
  BY <1>1, CasType DEF Block

(* A step of the workflow, crashed or not, leaves a local state.                *)
LEMMA GoElseType ==
    ASSUME loc \in [Task -> Loc], crashes \in Nat,
           NEW t \in Task, NEW l \in Loc, NEW again \in Loc, GoElse(t, l, again)
    PROVE  loc' \in [Task -> Loc] /\ crashes' \in Nat
BY DEF GoElse, Crash

(* The same for a step that crashes back to where it was.                       *)
LEMMA GoType ==
    ASSUME loc \in [Task -> Loc], crashes \in Nat,
           NEW t \in Task, NEW l \in Loc, Go(t, l)
    PROVE  loc' \in [Task -> Loc] /\ crashes' \in Nat
BY GoElseType DEF Go

(* The jumps, resets and dispatch counts of the loop give local states.         *)
LEMMA JumpType ==
    ASSUME loc \in [Task -> Loc], NEW t \in Task, NEW p \in PC
    PROVE  Jump(t, p) \in Loc
BY DEF Jump, Loc

(* ... back to the head of the loop, or on to its tail,                         *)
LEMMA HeadType ==
    ASSUME NEW l \in Loc
    PROVE  Head(l) \in Loc /\ Tail(l) \in Loc
<1>0. "claim" \in PC /\ "tail" \in PC /\ 0 \in 0..MaxSteps
  BY DEF PC
<1>1. Head(l) \in Loc
  BY <1>0 DEF Head, Loc
<1>2. [Head(l) EXCEPT !.pc = "tail"] \in Loc
  BY <1>0, <1>1 DEF Loc
<1> QED
  BY <1>1, <1>2 DEF Tail

(* ... one dispatch further, while a cycle is left,                             *)
LEMMA DispatchedType ==
    ASSUME NEW l \in Loc, NEW p \in PC, l.cycles < MaxCycles
    PROVE  Dispatched(l, p) \in Loc
<1>1. l.cycles + 1 \in 0..MaxCycles
  BY DEF Loc
<1> QED
  BY <1>1 DEF Dispatched, Loc

(* ... or to the ERROR end.                                                     *)
LEMMA FailType ==
    ASSUME loc \in [Task -> Loc], crashes \in Nat, NEW t \in Task, Fail(t)
    PROVE  loc' \in [Task -> Loc] /\ crashes' \in Nat
<1>1. Tail(loc[t]) \in Loc /\ "error" \in PC
  BY HeadType DEF PC
<1>2. [Tail(loc[t]) EXCEPT !.pc = "error"] \in Loc
  BY <1>1 DEF Loc
<1> QED
  BY <1>2 DEF Fail

(* A step row that is written keeps a known status.                             *)
LEMMA CasStepType ==
    ASSUME step \in [Task -> [StepSeq -> StepStatus]], NEW t \in Task,
           NEW from, NEW to \in StepStatus, CasStep(t, from, to)
    PROVE  step' \in [Task -> [StepSeq -> StepStatus]]
BY DEF CasStep

(* The two commits of a review, the second lost to a crash or not.              *)
LEMMA StepThenTaskType ==
    ASSUME TypeOK, NEW t \in Task, NEW from, NEW to \in StepStatus,
           NEW taskFrom, NEW new, NEW l \in Loc,
           row[t].status \in taskFrom => new \in Row,
           StepThenTask(t, from, to, taskFrom, new, l)
    PROVE  /\ step' \in [Task -> [StepSeq -> StepStatus]]
           /\ row' \in [Task -> Row] /\ aged' \subseteq Task
           /\ loc' \in [Task -> Loc] /\ crashes' \in Nat
<1>1. step' \in [Task -> [StepSeq -> StepStatus]]
  BY CasStepType DEF StepThenTask, TypeOK
<1>2. CASE Cas(t, taskFrom, new) /\ Go(t, l)
  BY <1>1, <1>2, CasType, GoType DEF TypeOK
<1>3. CASE UNCHANGED taskVars /\ Crash(t, loc[t])
  BY <1>1, <1>3 DEF TypeOK, taskVars, Crash
<1> QED
  BY <1>2, <1>3 DEF StepThenTask

(* A closure sent, failed, suppressed or deferred.                              *)
LEMMA ClosureType ==
    ASSUME TypeOK, NEW t \in Task, Closure(t)
    PROVE  /\ row' \in [Task -> Row] /\ aged' \subseteq Task
           /\ told' \in [Task -> SUBSET Outcome]
<1>1. \A n \in Notify : [row EXCEPT ![t].notify = n] \in [Task -> Row]
  <2> TAKE n \in Notify
  <2>1. row[t] \in Row /\ row \in [Task -> Row]
    BY DEF TypeOK
  <2>2. [row[t] EXCEPT !.notify = n] \in Row
    BY <2>1 DEF Row
  <2> QED
    BY <2>1, <2>2
<1>2. row[t].outcome \in Outcome
  BY DEF TypeOK, Row
<1>3. CASE UNCHANGED <<taskVars, told>>
  BY <1>3 DEF TypeOK, taskVars
<1>4. CASE /\ row' = [row EXCEPT ![t].notify = "delivered"] /\ aged' = aged \ {t}
           /\ told' = [told EXCEPT ![t] = @ \union {row[t].outcome}]
  BY <1>1, <1>2, <1>4 DEF TypeOK, Notify
<1>5. CASE \E n \in {"failed", "not_required"} :
               row' = [row EXCEPT ![t].notify = n] /\ aged' = aged \ {t}
               /\ UNCHANGED told
  <2>1. {"failed", "not_required"} \subseteq Notify /\ aged \subseteq Task
        /\ told \in [Task -> SUBSET Outcome]
    BY DEF Notify, TypeOK
  <2> QED
    BY <1>1, <1>5, <2>1
<1> QED
  BY <1>3, <1>4, <1>5 DEF Closure

(* replace_step, or its refusal of a superseded row.                            *)
LEMMA ReplaceType ==
    ASSUME TypeOK, NEW t \in Task, NEW l \in Loc, Replace(t, l)
    PROVE  /\ step' \in [Task -> [StepSeq -> StepStatus]]
           /\ gen' \in [Task -> [StepSeq -> Nat]]
           /\ aged' \subseteq Task
           /\ loc' \in [Task -> Loc] /\ crashes' \in Nat
<1>1. CASE Mine(t)
  <2> DEFINE q == loc[t].seq
             r == [l.revs EXCEPT ![q] = @ + 1]
  <2>0. l.revs \in [StepSeq -> Nat]
    BY DEF Loc
  <2>1. r \in [StepSeq -> Nat]
    BY <2>0, IncType
  <2>2. [l EXCEPT !.revs[loc[t].seq] = @ + 1] \in Loc
    <3>1. [l EXCEPT !.revs = r] \in Loc
      <4> HIDE DEF r
      <4> QED
        BY <2>1 DEF Loc
    <3> QED
      BY <3>1
  <2>3. /\ step' \in [Task -> [StepSeq -> StepStatus]]
        /\ gen' \in [Task -> [StepSeq -> Nat]]
        /\ aged' \subseteq Task
    <3>1. /\ step' = [step EXCEPT ![t][q] = "pending"]
          /\ gen' = [gen EXCEPT ![t][q] = @ + 1]
          /\ aged' = aged \ {t}
      BY <1>1 DEF Replace
    <3>2. [gen[t] EXCEPT ![q] = @ + 1] \in [StepSeq -> Nat]
      <4>1. gen[t] \in [StepSeq -> Nat]
        BY DEF TypeOK
      <4> QED
        BY <4>1, IncType
    <3> HIDE DEF q
    <3> QED
      BY <3>1, <3>2 DEF TypeOK, StepStatus
  <2>4. Go(t, [l EXCEPT !.revs[loc[t].seq] = @ + 1])
    BY <1>1 DEF Replace
  <2> QED
    BY <2>2, <2>3, <2>4, GoType DEF TypeOK
<1>2. CASE ~Mine(t)
  BY <1>2, FailType DEF Replace, TypeOK, planVars
<1> QED
  BY <1>1, <1>2

-------------------------------------------------------------------------------
(* The inductive invariant: a dispatch is under way only with a cycle left, so  *)
(* the counter of cycles stays in its range.                                    *)

CyclesLeft ==
    \A t \in Task : loc[t].pc \in {"validate", "dispatch", "gate"} => D(t) < MaxCycles

TypeInv == TypeOK /\ CyclesLeft

(* It holds of an empty database.                                               *)
LEMMA InitType == Init => TypeInv
<1> SUFFICES ASSUME Init PROVE TypeInv
  OBVIOUS
<1>1. row \in [Task -> Row]
  BY DEF Init, Row, Outcome, Notify
<1>2. loc \in [Task -> Loc]
  BY DEF Init, Loc, PC
<1> QED
  BY <1>1, <1>2 DEF Init, TypeInv, TypeOK, CyclesLeft, StepStatus

(* What a workflow step leaves of CyclesLeft: only the task's own local state   *)
(* changes, to l or back to again.                                              *)
LEMMA CyclesStay ==
    ASSUME TypeInv, NEW t \in Task, NEW l \in Loc, NEW again \in Loc,
           GoElse(t, l, again),
           again.pc \in {"validate", "dispatch", "gate"} => again.cycles < MaxCycles,
           l.pc \in {"validate", "dispatch", "gate"} => l.cycles < MaxCycles
    PROVE  CyclesLeft'
BY DEF TypeInv, TypeOK, CyclesLeft, GoElse, Crash, D

(* The same for a step that crashes back to where it was.                       *)
LEMMA GoInv ==
    ASSUME TypeInv, NEW t \in Task, NEW l \in Loc, Go(t, l),
           l.pc \in {"validate", "dispatch", "gate"} => l.cycles < MaxCycles
    PROVE  loc' \in [Task -> Loc] /\ crashes' \in Nat /\ CyclesLeft'
<1>1. /\ loc[t] \in Loc /\ GoElse(t, l, loc[t])
      /\ loc[t].pc \in {"validate", "dispatch", "gate"} => loc[t].cycles < MaxCycles
  BY DEF TypeInv, TypeOK, CyclesLeft, Go, D
<1> QED
  BY <1>1, CyclesStay, GoElseType DEF TypeInv, TypeOK

-------------------------------------------------------------------------------
(* One step per action of a task's workflow.                                    *)

(* Every action of a workflow keeps the inductive invariant. *)
LEMMA WorkflowType ==
    ASSUME TypeInv, NEW t \in Task, Workflow(t)
    PROVE  TypeInv'
<1> USE DEF taskVars, planVars, ownerVars, effectVars, reapVars
<1>a. TypeOK /\ loc[t] \in Loc /\ row[t] \in Row /\ loc \in [Task -> Loc]
      /\ row \in [Task -> Row] /\ aged \subseteq Task /\ crashes \in Nat
      /\ step \in [Task -> [StepSeq -> StepStatus]]
  BY DEF TypeInv, TypeOK
<1>b. \A p \in PC : Jump(t, p) \in Loc /\ Jump(t, p).pc = p /\ Jump(t, p).cycles = D(t)
  BY <1>a, JumpType DEF Jump, Loc, D
<1>c. /\ Head(loc[t]) \in Loc /\ Head(loc[t]).pc = "claim" /\ Head(loc[t]).cycles = D(t)
      /\ Tail(loc[t]) \in Loc /\ Tail(loc[t]).pc = "tail" /\ Tail(loc[t]).cycles = D(t)
  BY <1>a, HeadType DEF Head, Tail, Loc, D
<1>d. \A s \in Terminal \union NonTerminal : Status(t, s) \in Row
  BY <1>a, StatusType
<1>e. loc[t].pc \in {"validate", "dispatch", "gate"} => loc[t].cycles < MaxCycles
  BY DEF TypeInv, CyclesLeft, D
<1>f. Block(t) => row' \in [Task -> Row] /\ aged' \subseteq Task
  BY <1>a, BlockType
<1>g. Go(t, Tail(loc[t])) => loc' \in [Task -> Loc] /\ crashes' \in Nat /\ CyclesLeft'
  BY <1>c, GoInv
<1>h. \A p \in PC \ {"validate", "dispatch", "gate"} :
          Go(t, Jump(t, p)) => loc' \in [Task -> Loc] /\ crashes' \in Nat /\ CyclesLeft'
  <2> TAKE p \in PC \ {"validate", "dispatch", "gate"}
  <2> QED BY <1>b, GoInv
<1>i. \A p \in PC \ {"validate", "dispatch", "gate"} :
          loc[t].cycles < MaxCycles =>
              /\ Dispatched(loc[t], p) \in Loc /\ Dispatched(loc[t], p).pc = p
              /\ Dispatched(Head(loc[t]), p) \in Loc
              /\ Dispatched(Head(loc[t]), p).pc = p
  BY <1>a, <1>c, DispatchedType DEF Dispatched, Loc, D
<1>j. Fail(t) => loc' \in [Task -> Loc] /\ crashes' \in Nat /\ CyclesLeft'
  <2> SUFFICES ASSUME Fail(t)
      PROVE  loc' \in [Task -> Loc] /\ crashes' \in Nat /\ CyclesLeft'
    OBVIOUS
  <2>1. loc' \in [Task -> Loc] /\ crashes' \in Nat
    BY <1>a, FailType
  <2>2. [Tail(loc[t]) EXCEPT !.pc = "error"].pc = "error"
    BY <1>c DEF Loc
  <2> QED
    BY <2>1, <2>2, <1>a DEF Fail, TypeInv, CyclesLeft, D
<1>k. ASSUME NEW from, NEW to \in StepStatus, NEW taskFrom,
             NEW st \in Terminal \union NonTerminal, NEW l \in Loc,
             l.pc \in {"validate", "dispatch", "gate"} => l.cycles < MaxCycles,
             StepThenTask(t, from, to, taskFrom, Status(t, st), l)
      PROVE  /\ step' \in [Task -> [StepSeq -> StepStatus]]
             /\ row' \in [Task -> Row] /\ aged' \subseteq Task
             /\ loc' \in [Task -> Loc] /\ crashes' \in Nat /\ CyclesLeft'
  <2>1. GoElse(t, l, loc[t])
    BY <1>k DEF StepThenTask, GoElse, Go
  <2>2. CyclesLeft'
    BY <1>a, <1>e, <1>k, <2>1, CyclesStay
  <2> QED
    BY <1>a, <1>d, <1>k, <2>2, StepThenTaskType
<1>l. \A p \in PC \ {"validate", "dispatch", "gate"} :
          loc[t].cycles < MaxCycles /\ Go(t, Dispatched(loc[t], p)) =>
              loc' \in [Task -> Loc] /\ crashes' \in Nat /\ CyclesLeft'
  BY <1>i, GoInv
<1>m. ASSUME NEW l \in Loc, l.pc \notin {"validate", "dispatch", "gate"}, Replace(t, l)
      PROVE  /\ step' \in [Task -> [StepSeq -> StepStatus]]
             /\ gen' \in [Task -> [StepSeq -> Nat]] /\ aged' \subseteq Task
             /\ loc' \in [Task -> Loc] /\ crashes' \in Nat /\ CyclesLeft'
  <2> DEFINE r == [l EXCEPT !.revs[loc[t].seq] = @ + 1]
  <2>1. r.pc = l.pc
    BY <1>m DEF Loc
  <2>2. Go(t, r) \/ Fail(t)
    BY <1>m DEF Replace
  <2>3. Go(t, r) => CyclesLeft'
    <3> HIDE DEF r
    <3> QED
      BY <1>m, <1>a, <1>e, <2>1 DEF Go, GoElse, Crash, TypeInv, CyclesLeft, D
  <2> QED
    BY <1>a, <1>j, <1>m, <2>2, <2>3, ReplaceType
<1>1. CASE TriageStart(t)
  <2>1. PICK p \in {"claim", "idle"} : loc' = [loc EXCEPT ![t].pc = p]
    BY <1>1 DEF TriageStart
  <2>2. loc' \in [Task -> Loc] /\ CyclesLeft'
    BY <1>a, <2>1 DEF TypeInv, CyclesLeft, Loc, PC, D
  <2> QED
    BY <1>1, <2>2 DEF TriageStart, TypeInv, TypeOK
<1>2. CASE CyclesSpent(t)
  BY <1>2, <1>f, <1>g DEF CyclesSpent, TypeInv, TypeOK
<1>3. CASE ClaimNone(t)
  BY <1>3, <1>g DEF ClaimNone, TypeInv, TypeOK
<1>4. CASE ClaimStep(t)
  <2> DEFINE s == Least(Pending(t))
             l == [loc[t] EXCEPT !.pc = "validate", !.seq = s, !.gen = gen[t][s]]
  <2>1. s \in StepSeq
    <3>1. Pending(t) \in SUBSET Nat /\ Pending(t) # {}
      BY <1>4 DEF ClaimStep, TakeStep, Pending, StepSeq
    <3> QED
      BY <3>1, LeastIn DEF Pending
  <2>2. l \in Loc /\ l.cycles = loc[t].cycles /\ l.pc = "validate"
    <3>1. gen[t][s] \in Nat
      BY <2>1 DEF TypeInv, TypeOK
    <3>2. s \in 0..MaxSteps /\ "validate" \in PC
      BY <2>1 DEF PC, StepSeq
    <3> HIDE DEF s
    <3> QED
      BY <1>a, <3>1, <3>2 DEF Loc
  <2>3. Go(t, l) /\ step' = [step EXCEPT ![t][s] = "running"]
    BY <1>4 DEF ClaimStep, TakeStep
  <2>4. loc' \in [Task -> Loc] /\ crashes' \in Nat /\ CyclesLeft'
    <3> HIDE DEF l
    <3> QED
      BY <1>4, <2>2, <2>3, GoInv DEF ClaimStep
  <2>5. row' \in [Task -> Row] /\ aged' \subseteq Task
    BY <1>4, <1>a, <1>d, CasType DEF ClaimStep, TakeStep, NonTerminal, ActiveState
  <2>6. step' \in [Task -> [StepSeq -> StepStatus]]
    BY <1>a, <2>3 DEF StepStatus
  <2> QED
    BY <1>4, <2>4, <2>5, <2>6 DEF ClaimStep, TakeStep, TypeInv, TypeOK
<1>5. CASE ClaimRejected(t)
  BY <1>5, <1>j DEF ClaimRejected, TypeInv, TypeOK
<1>6. CASE Validated(t)
  <2>1. loc' \in [Task -> Loc] /\ crashes' \in Nat /\ CyclesLeft'
    BY <1>6, <1>b, <1>e, GoInv DEF Validated, PC, At, D
  <2> QED
    BY <1>6, <2>1 DEF Validated, TypeInv, TypeOK
<1>7. CASE ValidationFails(t)
  BY <1>7, <1>f, <1>g DEF ValidationFails, TypeInv, TypeOK
<1>8. CASE \E campaign \in BOOLEAN : ReviewAccepts(t, campaign)
  <2>1. PICK campaign \in BOOLEAN : ReviewAccepts(t, campaign)
    BY <1>8
  <2> DEFINE next == IF Pending(t) \subseteq {loc[t].seq} THEN "verify" ELSE "claim"
             gate == [Jump(t, "gate") EXCEPT !.next = next]
             l    == IF campaign THEN gate ELSE Dispatched(Head(loc[t]), next)
  <2>2. loc[t].cycles < MaxCycles
    BY <2>1, <1>e DEF ReviewAccepts, At
  <2>3. gate \in Loc /\ gate.cycles = loc[t].cycles
    <3>1. Jump(t, "gate") \in Loc /\ Jump(t, "gate").cycles = loc[t].cycles
      BY <1>b DEF PC, D
    <3>2. next \in {"claim", "verify"}
      OBVIOUS
    <3> HIDE DEF next
    <3> QED
      BY <3>1, <3>2 DEF Loc
  <2>4. l \in Loc /\ (l.pc \in {"validate", "dispatch", "gate"} => l.cycles < MaxCycles)
    BY <1>i, <2>2, <2>3 DEF PC
  <2>5. \/ StepThenTask(t, "running", "done", {"running"}, Status(t, "verifying"), l)
        \/ CasStep(t, "running", "done") /\ UNCHANGED taskVars /\ Go(t, l)
    BY <2>1 DEF ReviewAccepts
  <2>6. UNCHANGED <<gen, ownerVars, effectVars, reapVars, redrives>>
    BY <2>1 DEF ReviewAccepts
  <2> HIDE DEF l
  <2>7. /\ step' \in [Task -> [StepSeq -> StepStatus]]
        /\ row' \in [Task -> Row] /\ aged' \subseteq Task
        /\ loc' \in [Task -> Loc] /\ crashes' \in Nat /\ CyclesLeft'
    <3>1. CASE StepThenTask(t, "running", "done", {"running"}, Status(t, "verifying"), l)
      BY <3>1, <2>4, <1>k DEF StepStatus, NonTerminal, ActiveState
    <3>2. CASE CasStep(t, "running", "done") /\ UNCHANGED taskVars /\ Go(t, l)
      BY <3>2, <2>4, <1>a, CasStepType, GoInv DEF StepStatus
    <3> QED
      BY <2>5, <3>1, <3>2
  <2> QED
    BY <2>6, <2>7 DEF TypeInv, TypeOK
<1>9. CASE ReviewRevises(t)
  <2>1. loc' \in [Task -> Loc] /\ crashes' \in Nat /\ CyclesLeft'
    BY <1>9, <1>e, <1>l DEF ReviewRevises, At, PC
  <2>2. step' \in [Task -> [StepSeq -> StepStatus]]
    BY <1>9, <1>a, CasStepType DEF ReviewRevises, StepStatus
  <2> QED
    BY <1>9, <2>1, <2>2 DEF ReviewRevises, TypeInv, TypeOK
<1>10. CASE ReviewAsks(t)
  <2> DEFINE l == Dispatched(loc[t], "waitAnswer")
  <2>1. l \in Loc /\ l.pc = "waitAnswer"
    BY <1>10, <1>e, <1>i DEF ReviewAsks, At, PC
  <2>2. StepThenTask(t, "running", "waiting", {"running"}, Status(t, "waiting_owner"), l)
    BY <1>10 DEF ReviewAsks
  <2>3. /\ step' \in [Task -> [StepSeq -> StepStatus]]
        /\ row' \in [Task -> Row] /\ aged' \subseteq Task
        /\ loc' \in [Task -> Loc] /\ crashes' \in Nat /\ CyclesLeft'
    <3> HIDE DEF l
    <3> QED
      BY <2>1, <2>2, <1>k DEF StepStatus, NonTerminal, ActiveState
  <2> QED
    BY <1>10, <2>3 DEF ReviewAsks, TypeInv, TypeOK
<1>11. CASE ReviewEscalates(t)
  <2> DEFINE l == Dispatched(loc[t], "arm")
  <2>1. l \in Loc /\ l.pc = "arm"
    BY <1>11, <1>e, <1>i DEF ReviewEscalates, At, PC
  <2>2. StepThenTask(t, "running", "failed", NonTerminal, Status(t, "blocked"), l)
    BY <1>11 DEF ReviewEscalates
  <2>3. /\ step' \in [Task -> [StepSeq -> StepStatus]]
        /\ row' \in [Task -> Row] /\ aged' \subseteq Task
        /\ loc' \in [Task -> Loc] /\ crashes' \in Nat /\ CyclesLeft'
    <3> HIDE DEF l
    <3> QED
      BY <2>1, <2>2, <1>k DEF StepStatus, NonTerminal, ActiveState
  <2> QED
    BY <1>11, <2>3 DEF ReviewEscalates, TypeInv, TypeOK
<1>12. CASE ReviewSkipped(t)
  <2>1. loc' \in [Task -> Loc] /\ crashes' \in Nat /\ CyclesLeft'
    BY <1>12, <1>e, <1>l DEF ReviewSkipped, At, PC
  <2> QED
    BY <1>12, <2>1 DEF ReviewSkipped, TypeInv, TypeOK
<1>13. CASE DispatchRaises(t)
  BY <1>13, <1>j DEF DispatchRaises, TypeInv, TypeOK
<1>14. CASE GateArms(t)
  <2>1. loc[t].cycles < MaxCycles
    BY <1>14, <1>e DEF GateArms, At
  <2>2. /\ Dispatched(loc[t], "park") \in Loc /\ Dispatched(loc[t], "park").pc = "park"
        /\ Jump(t, "dispatch") \in Loc /\ Jump(t, "dispatch").cycles < MaxCycles
    BY <2>1, <1>b, <1>i DEF PC, D
  <2>3. GoElse(t, Dispatched(loc[t], "park"), Jump(t, "dispatch"))
    BY <1>14 DEF GateArms
  <2>4. loc' \in [Task -> Loc] /\ crashes' \in Nat /\ CyclesLeft'
    BY <1>a, <2>2, <2>3, GoElseType, CyclesStay
  <2>5. approval' \in [Task -> [Dispatch -> Decision \union {"none", "pending"}]]
    BY <1>14 DEF GateArms, TypeInv, TypeOK
  <2> QED
    BY <1>14, <2>4, <2>5 DEF GateArms, TypeInv, TypeOK
<1>15. CASE GateRefused(t)
  <2> DEFINE l == Dispatched(Head(loc[t]), loc[t].next)
  <2>1. loc[t].cycles < MaxCycles /\ loc[t].next \in {"claim", "verify"}
    BY <1>15, <1>a, <1>e DEF GateRefused, At, Loc
  <2>2. /\ l \in Loc /\ l.pc \in {"claim", "verify"}
        /\ Jump(t, "dispatch") \in Loc /\ Jump(t, "dispatch").cycles < MaxCycles
    BY <2>1, <1>b, <1>i DEF PC, D
  <2>3. GoElse(t, l, Jump(t, "dispatch"))
    BY <1>15 DEF GateRefused
  <2>4. loc' \in [Task -> Loc] /\ crashes' \in Nat /\ CyclesLeft'
    <3> HIDE DEF l
    <3> QED
      BY <1>a, <2>2, <2>3, GoElseType, CyclesStay
  <2> QED
    BY <1>15, <2>4 DEF GateRefused, TypeInv, TypeOK
<1>16. CASE Revise(t)
  BY <1>16, <1>c, <1>m DEF Revise, TypeInv, TypeOK
<1>17. CASE RevisionsSpent(t)
  BY <1>17, <1>f, <1>g DEF RevisionsSpent, TypeInv, TypeOK
<1>18. CASE AnswerSeen(t)
  <2>1. /\ step' \in [Task -> [StepSeq -> StepStatus]]
        /\ row' \in [Task -> Row] /\ aged' \subseteq Task
        /\ loc' \in [Task -> Loc] /\ crashes' \in Nat /\ CyclesLeft'
    BY <1>18, <1>c, <1>k DEF AnswerSeen, StepStatus, NonTerminal, ActiveState
  <2> QED
    BY <1>18, <2>1 DEF AnswerSeen, TypeInv, TypeOK
<1>19. CASE PollsSpent(t)
  <2>1. loc' = [loc EXCEPT ![t] = Jump(t, "giveUp")]
    BY <1>19 DEF PollsSpent, StopPolling
  <2>2. loc' \in [Task -> Loc] /\ CyclesLeft'
    BY <1>a, <1>b, <2>1 DEF PC, TypeInv, CyclesLeft, D
  <2> QED
    BY <1>19, <2>2 DEF PollsSpent, StopPolling, TypeInv, TypeOK
<1>20. CASE GiveUp(t)
  BY <1>20, <1>f, <1>g DEF GiveUp, TypeInv, TypeOK
<1>21. CASE ArmEscalation(t)
  BY <1>21, <1>f, <1>g DEF ArmEscalation, TypeInv, TypeOK
<1>22. CASE Park(t)
  <2> DEFINE l == [Jump(t, "waitApproval") EXCEPT !.pre = row[t].status]
  <2>1. row[t].status \in {"running", "verifying"} => l \in Loc /\ l.pc = "waitApproval"
    <3>1. Jump(t, "waitApproval") \in Loc /\ Jump(t, "waitApproval").pc = "waitApproval"
      BY <1>b DEF PC
    <3> QED
      BY <3>1 DEF Loc
  <2>2. loc' \in [Task -> Loc] /\ crashes' \in Nat /\ CyclesLeft'
    <3>1. CASE row[t].status \in {"running", "verifying"}
      <4>1. Go(t, l)
        BY <1>22, <3>1 DEF Park
      <4> HIDE DEF l
      <4> QED
        BY <2>1, <3>1, <4>1, GoInv
    <3>2. CASE row[t].status \notin {"running", "verifying"}
      BY <1>22, <3>2, <1>h DEF Park, PC
    <3> QED
      BY <3>1, <3>2
  <2>3. Parked(t) \in Row
    <3>1. Status(t, "waiting_owner") \in Row
      BY <1>d DEF NonTerminal, ActiveState
    <3>2. D(t) \in 0..MaxCycles
      BY <1>a DEF Loc, D
    <3> QED
      BY <3>1, <3>2 DEF Parked, Row
  <2>4. row' \in [Task -> Row] /\ aged' \subseteq Task /\ late' \subseteq Task
    BY <1>22, <1>a, <2>3 DEF Park, TypeOK
  <2> QED
    BY <1>22, <2>2, <2>4 DEF Park, TypeInv, TypeOK
<1>23. CASE ApprovalSeen(t)
  <2>1. loc[t].pre # "none" => Status(t, loc[t].pre) \in Row
    BY <1>a, <1>d DEF Loc, NonTerminal, ActiveState
  <2>2. row' \in [Task -> Row] /\ aged' \subseteq Task
    <3>1. CASE loc[t].pre = "none"
      BY <1>23, <1>a, <3>1 DEF ApprovalSeen
    <3>2. CASE loc[t].pre # "none"
      BY <1>23, <1>a, <2>1, <3>2, CasType DEF ApprovalSeen, Restore
    <3> QED
      BY <3>1, <3>2
  <2>3. loc' \in [Task -> Loc] /\ crashes' \in Nat /\ CyclesLeft'
    BY <1>23, <1>h DEF ApprovalSeen, PC
  <2> QED
    BY <1>23, <2>2, <2>3 DEF ApprovalSeen, TypeInv, TypeOK
<1>24. CASE \E ran, advanced \in BOOLEAN : Execute(t, ran, advanced)
  <2>1. PICK ran \in BOOLEAN, advanced \in BOOLEAN : FanOut(t, ran, advanced)
    BY <1>24 DEF Execute
  <2>2. loc' \in [Task -> Loc] /\ crashes' \in Nat /\ CyclesLeft'
    BY <2>1, <1>h DEF FanOut, PC
  <2>3. sent' \in [Task -> [Dispatch -> Nat]]
    <3>1. [sent[t] EXCEPT ![D(t)] = @ + 1] \in [Dispatch -> Nat]
      <4>1. sent[t] \in [Dispatch -> Nat]
        BY <1>a DEF TypeOK
      <4> QED
        BY <4>1, IncType
    <3>2. sent' \in {sent, [sent EXCEPT ![t][D(t)] = @ + 1]}
      BY <2>1 DEF FanOut
    <3> QED
      BY <1>a, <3>1, <3>2 DEF TypeOK
  <2> QED
    BY <2>1, <2>2, <2>3 DEF FanOut, TypeInv, TypeOK
<1>25. CASE \E heard \in BOOLEAN : Report(t, heard)
  <2>1. PICK heard \in BOOLEAN : Report(t, heard)
    BY <1>25
  <2> DEFINE l == [Jump(t, "afterExec") EXCEPT !.reported = @ \/ heard]
  <2>2. l \in Loc /\ l.pc = "afterExec"
    <3>1. Jump(t, "afterExec") \in Loc /\ Jump(t, "afterExec").pc = "afterExec"
      BY <1>b DEF PC
    <3> QED
      BY <3>1 DEF Loc
  <2>3. Go(t, l)
    BY <2>1 DEF Report
  <2>4. loc' \in [Task -> Loc] /\ crashes' \in Nat /\ CyclesLeft'
    <3> HIDE DEF l
    <3> QED
      BY <2>2, <2>3, GoInv
  <2> QED
    BY <2>1, <2>4 DEF Report, TypeInv, TypeOK
<1>26. CASE AfterExecute(t)
  <2> DEFINE p == IF row[t].status = "verifying" THEN "verify" ELSE "claim"
             l == [Head(loc[t]) EXCEPT !.pc = p]
  <2>1. l \in Loc /\ l.pc \in {"verify", "claim"}
    <3>1. p \in {"verify", "claim"} /\ {"verify", "claim"} \subseteq PC
      BY DEF PC
    <3> HIDE DEF p
    <3> QED
      BY <1>c, <3>1 DEF Loc
  <2>2. Go(t, l)
    BY <1>26 DEF AfterExecute
  <2>3. loc' \in [Task -> Loc] /\ crashes' \in Nat /\ CyclesLeft'
    <3> HIDE DEF l
    <3> QED
      BY <2>1, <2>2, GoInv
  <2> QED
    BY <1>26, <2>3 DEF AfterExecute, TypeInv, TypeOK
<1>n. Go(t, [Tail(loc[t]) EXCEPT !.pc = "notify"]) =>
          loc' \in [Task -> Loc] /\ crashes' \in Nat /\ CyclesLeft'
  <2> DEFINE l == [Tail(loc[t]) EXCEPT !.pc = "notify"]
  <2>1. "notify" \in PC
    BY DEF PC
  <2>2. l \in Loc /\ l.pc = "notify"
    BY <1>c, <2>1 DEF Loc
  <2> HIDE DEF l
  <2>3. Go(t, l) => loc' \in [Task -> Loc] /\ crashes' \in Nat /\ CyclesLeft'
    BY <2>2, GoInv
  <2> QED
    BY <2>3 DEF l
<1>27. CASE Decline(t)
  <2> DEFINE new == [row[t] EXCEPT !.status = "cancelled", !.outcome = "cancelled",
                                   !.notify = "pending"]
  <2>1. new \in Row
    BY <1>a DEF Row, Terminal, Outcome, Notify
  <2>2. Cas(t, {"verifying"}, new)
    BY <1>27 DEF Decline
  <2>3. row' \in [Task -> Row] /\ aged' \subseteq Task
    <3> HIDE DEF new
    <3> QED
      BY <1>a, <2>1, <2>2, CasType
  <2> QED
    BY <1>27, <1>n, <2>3 DEF Decline, TypeInv, TypeOK
<1>28. CASE ChangesAsked(t)
  <2>1. Jump(t, "changed") \in Loc /\ Jump(t, "changed").pc = "changed"
    BY <1>b DEF PC
  <2> QED
    BY <1>28, <1>m, <2>1 DEF ChangesAsked, TypeInv, TypeOK
<1>29. CASE ResumeAfterChanges(t)
  <2>1. row' \in [Task -> Row] /\ aged' \subseteq Task
    BY <1>29, <1>a, <1>d, CasType DEF ResumeAfterChanges, NonTerminal, ActiveState
  <2>2. loc' \in [Task -> Loc] /\ crashes' \in Nat /\ CyclesLeft'
    BY <1>29, <1>c, GoInv DEF ResumeAfterChanges
  <2> QED
    BY <1>29, <2>1, <2>2 DEF ResumeAfterChanges, TypeInv, TypeOK
<1>30. CASE OwnerUnreachable(t)
  BY <1>30, <1>f, <1>g DEF OwnerUnreachable, TypeInv, TypeOK
<1>31. CASE Verified(t)
  <2> DEFINE n   == IF loc[t].reported THEN "not_required" ELSE "pending"
             new == [row[t] EXCEPT !.status = "completed", !.outcome = "completed",
                                   !.notify = n]
  <2>1. new \in Row
    <3>1. n \in Notify
      BY DEF Notify
    <3> HIDE DEF n
    <3> QED
      BY <1>a, <3>1 DEF Row, Terminal, Outcome
  <2>2. Cas(t, {"verifying"}, new)
    BY <1>31 DEF Verified
  <2>3. row' \in [Task -> Row] /\ aged' \subseteq Task
    <3> HIDE DEF new
    <3> QED
      BY <1>a, <2>1, <2>2, CasType
  <2> QED
    BY <1>31, <1>n, <2>3 DEF Verified, TypeInv, TypeOK
<1>32. CASE AppendRetryStep(t)
  <2> DEFINE l == [Head(loc[t]) EXCEPT !.tries = @ + 1]
  <2>1. l \in Loc /\ l.pc = "claim"
    BY <1>c DEF Loc
  <2>2. step' \in [Task -> [StepSeq -> StepStatus]] /\ aged' \subseteq Task
    BY <1>32, <1>a DEF AppendRetryStep, StepStatus
  <2>3. row' \in [Task -> Row]
    <3>1. [row[t] EXCEPT !.status = "running"] \in Row
      BY <1>a DEF Row, NonTerminal, ActiveState
    <3>2. row' \in {row, [row EXCEPT ![t].status = "running"]}
      BY <1>32 DEF AppendRetryStep
    <3> QED
      BY <1>a, <3>1, <3>2
  <2>4. Go(t, l) \/ Crash(t, loc[t])
    BY <1>32 DEF AppendRetryStep
  <2>5. GoElse(t, l, loc[t])
    BY <2>4 DEF Go, GoElse
  <2>6. loc' \in [Task -> Loc] /\ crashes' \in Nat /\ CyclesLeft'
    <3> HIDE DEF l
    <3> QED
      BY <2>1, <2>5, GoInv DEF Go
  <2> QED
    BY <1>32, <2>2, <2>3, <2>6 DEF AppendRetryStep, TypeInv, TypeOK
<1>33. CASE VerifySpent(t)
  BY <1>33, <1>f, <1>g DEF VerifySpent, TypeInv, TypeOK
<1>34. CASE NotifyOwner(t)
  <2>1. loc' \in [Task -> Loc] /\ crashes' \in Nat /\ CyclesLeft'
    <3>1. PICK p \in {"tail", "settle"} : Go(t, Jump(t, p))
      BY <1>34 DEF NotifyOwner
    <3> QED
      BY <3>1, <1>h DEF PC
  <2> QED
    BY <1>34, <1>a, <2>1, ClosureType DEF NotifyOwner, TypeInv, TypeOK
<1>35. CASE TailRead(t)
  <2>1. loc' \in [Task -> Loc] /\ crashes' \in Nat /\ CyclesLeft'
    <3>1. PICK p \in {"tailNotify", "promote", "done"} : Go(t, Jump(t, p))
      BY <1>35 DEF TailRead
    <3> QED
      BY <3>1, <1>h DEF PC
  <2> QED
    BY <1>35, <2>1 DEF TailRead, TypeInv, TypeOK
<1>36. CASE SettleBlock(t)
  <2>1. loc' \in [Task -> Loc] /\ crashes' \in Nat /\ CyclesLeft'
    <3>1. PICK p \in {"promote", "done"} : Go(t, Jump(t, p))
      BY <1>36 DEF SettleBlock
    <3> QED
      BY <3>1, <1>h DEF PC
  <2>2. row' \in [Task -> Row] /\ aged' \subseteq Task
    <3>1. Status(t, "dead_letter") \in Row
      BY <1>d DEF Terminal
    <3> QED
      BY <1>36, <1>a, <3>1, CasType DEF SettleBlock
  <2> QED
    BY <1>36, <2>1, <2>2 DEF SettleBlock, TypeInv, TypeOK
<1>37. CASE Promote(t)
  <2>1. loc' \in [Task -> Loc] /\ crashes' \in Nat /\ CyclesLeft'
    BY <1>37, <1>h DEF Promote, PC
  <2>2. row' \in [Task -> Row] /\ aged' \subseteq Task
    <3>1. \/ UNCHANGED taskVars
          \/ \E q : row' = [row EXCEPT ![q].status = "planned"] /\ aged' = aged \ {q}
      BY <1>37 DEF Promote
    <3>2. ASSUME NEW q, row' = [row EXCEPT ![q].status = "planned"] /\ aged' = aged \ {q}
          PROVE  row' \in [Task -> Row] /\ aged' \subseteq Task
      <4>1. q \in Task => [row[q] EXCEPT !.status = "planned"] \in Row
        BY <1>a DEF Row, NonTerminal, ActiveState
      <4> QED
        BY <1>a, <3>2, <4>1
    <3> QED
      BY <1>a, <3>1, <3>2
  <2> QED
    BY <1>37, <2>1, <2>2 DEF Promote, TypeInv, TypeOK
<1> QED
  BY <1>1, <1>2, <1>3, <1>4, <1>5, <1>6, <1>7, <1>8, <1>9, <1>10, <1>11, <1>12, <1>13,
     <1>14, <1>15, <1>16, <1>17, <1>18, <1>19, <1>20, <1>21, <1>22, <1>23, <1>24, <1>25,
     <1>26, <1>27, <1>28, <1>29, <1>30, <1>31, <1>32, <1>33, <1>34, <1>35, <1>36, <1>37
     DEF Workflow

-------------------------------------------------------------------------------
(* The other actors: none of them touches a workflow's local state, but for the *)
(* admission of a task.                                                         *)

(* A step that leaves every workflow alone keeps CyclesLeft.                    *)
LEMMA CyclesStayIf == ASSUME TypeInv, UNCHANGED loc PROVE CyclesLeft'
BY DEF TypeInv, CyclesLeft, D

(* One step per statement of the stall sweep.                                   *)
LEMMA ReaperType ==
    ASSUME TypeInv, Reaper
    PROVE  TypeInv'
<1> USE DEF taskVars, planVars, ownerVars, effectVars, reapVars
<1>a. TypeOK /\ row \in [Task -> Row] /\ aged \subseteq Task
      /\ scanned \subseteq Task \X Nat /\ sweeps \in Nat /\ crashes \in Nat
  BY DEF TypeInv, TypeOK
<1>b. UNCHANGED loc => CyclesLeft'
  BY CyclesStayIf
<1>1. CASE ReaperScan
  <2>1. scanned' \subseteq Task \X Nat
    <3>1. \A t \in Task : row[t].attempt \in Nat
      BY <1>a DEF Row
    <3> QED
      BY <1>1, <1>a, <3>1 DEF ReaperScan, Stalled
  <2> QED
    BY <1>1, <1>b, <2>1 DEF ReaperScan, TypeInv, TypeOK
<1>2. CASE ReaperDies
  BY <1>2, <1>b DEF ReaperDies, TypeInv, TypeOK
<1>3. ASSUME NEW c \in scanned, ReaperStrike(c[1], c[2])
      PROVE  TypeInv'
  <2>1. PICK t \in Task, attempt \in Nat : ReaperStrike(t, attempt)
    BY <1>3, <1>a
  <2> DEFINE spent == attempt + 1 >= MaxAttempts
             status == IF spent THEN "dead_letter" ELSE "blocked"
             retry  == IF spent THEN "none" ELSE "armed"
             new == [row[t] EXCEPT !.status = status, !.retry = retry,
                                   !.attempt = attempt + 1]
  <2>2. new \in Row
    <3>1. status \in Terminal \union NonTerminal /\ retry \in {"none", "armed"}
      BY DEF Terminal, NonTerminal, ActiveState
    <3>2. row[t] \in Row /\ attempt + 1 \in Nat
      BY <1>a
    <3> HIDE DEF status, retry
    <3> QED
      BY <3>1, <3>2 DEF Row
  <2>3. row' = [row EXCEPT ![t] = new]
    <3>1. row' = [row EXCEPT ![t].status = status, ![t].retry = retry,
                             ![t].attempt = attempt + 1]
      BY <2>1 DEF ReaperStrike
    <3> HIDE DEF status, retry
    <3> QED
      BY <3>1, <1>a DEF Row
  <2>4. row' \in [Task -> Row] /\ aged' \subseteq Task /\ struck' \subseteq Task
        /\ scanned' \subseteq Task \X Nat
    <3>1. /\ struck' = struck \/ struck' = struck \union {t}
          /\ aged' = aged \ {t} /\ scanned' = scanned \ {<<t, attempt>>}
      BY <2>1 DEF ReaperStrike
    <3>2. row' \in [Task -> Row]
      <4> HIDE DEF new
      <4> QED
        BY <1>a, <2>2, <2>3
    <3> QED
      BY <1>a, <3>1, <3>2 DEF TypeOK
  <2> QED
    BY <1>b, <2>1, <2>4 DEF ReaperStrike, TypeInv, TypeOK
<1>4. ASSUME NEW t \in Task, ReaperWakes(t)
      PROVE  TypeInv'
  <2>1. [Status(t, "planned") EXCEPT !.retry = "none"] \in Row
    <3>1. Status(t, "planned") \in Row
      BY <1>a, StatusType DEF NonTerminal, ActiveState
    <3> QED
      BY <3>1 DEF Row
  <2>2. row' \in [Task -> Row] /\ aged' \subseteq Task
    BY <1>4, <1>a, <2>1, CasType DEF ReaperWakes
  <2> QED
    BY <1>4, <1>b, <2>2 DEF ReaperWakes, TypeInv, TypeOK
<1>5. ASSUME NEW t \in Task, ReaperCloses(t)
      PROVE  TypeInv'
  <2>1. row' \in [Task -> Row]
    <3>1. [row[t] EXCEPT !.outcome = "escalated", !.notify = "pending"] \in Row
      BY <1>a DEF Row, Outcome, Notify
    <3>2. \/ row' = row
          \/ row' = [row EXCEPT ![t].outcome = "escalated", ![t].notify = "pending"]
      BY <1>5 DEF ReaperCloses
    <3>3. [row EXCEPT ![t].outcome = "escalated", ![t].notify = "pending"]
          = [row EXCEPT ![t] = [row[t] EXCEPT !.outcome = "escalated", !.notify = "pending"]]
      BY <1>a DEF Row
    <3> QED
      BY <1>a, <3>1, <3>2, <3>3
  <2>2. approval' \in [Task -> [Dispatch -> Decision \union {"none", "pending"}]]
        /\ aged' \subseteq Task /\ struck' \subseteq Task /\ holders' \subseteq Task
    <3>1. /\ \/ UNCHANGED approval
             \/ approval' = [approval EXCEPT ![t][row[t].stamp] = "timeout"]
          /\ aged' = aged \/ aged' = aged \ {t}
          /\ holders' = holders \/ holders' = holders \union {t}
          /\ struck' = struck \ {t}
      BY <1>5 DEF ReaperCloses
    <3> DEFINE V == Decision \union {"none", "pending"}
    <3>2. "timeout" \in V /\ approval \in [Task -> [Dispatch -> V]]
          /\ struck \subseteq Task /\ holders \subseteq Task
      BY <1>a DEF TypeOK, Decision
    <3> HIDE DEF V
    <3>3. approval' \in [Task -> [Dispatch -> V]]
      BY <3>1, <3>2
    <3> QED
      BY <1>a, <3>1, <3>2, <3>3 DEF V
  <2> QED
    BY <1>5, <1>b, <2>1, <2>2 DEF ReaperCloses, TypeInv, TypeOK
<1>6. ASSUME NEW t \in Task, OrphanSweep(t)
      PROVE  TypeInv'
  <2> DEFINE notify == IF row[t].notify = "not_required" THEN "pending" ELSE row[t].notify
             new == [row[t] EXCEPT !.status = "dead_letter", !.outcome = "escalated",
                                   !.notify = notify]
  <2>1. new \in Row
    <3>1. row[t] \in Row
      BY <1>a
    <3>2. notify \in Notify
      BY <3>1 DEF Row, Notify
    <3> HIDE DEF notify
    <3> QED
      BY <3>1, <3>2 DEF Row, Terminal, Outcome
  <2>2. Cas(t, {"waiting_owner"}, new)
    BY <1>6, <1>a DEF OrphanSweep, Row
  <2>3. row' \in [Task -> Row] /\ aged' \subseteq Task
    <3> HIDE DEF new
    <3> QED
      BY <1>a, <2>1, <2>2, CasType
  <2> QED
    BY <1>6, <1>b, <2>3 DEF OrphanSweep, TypeInv, TypeOK
<1>7. ASSUME NEW t \in Task, ReaperNotifies(t)
      PROVE  TypeInv'
  BY <1>7, <1>a, <1>b, ClosureType DEF ReaperNotifies, TypeInv, TypeOK
<1> QED
  BY <1>1, <1>2, <1>3, <1>4, <1>5, <1>6, <1>7 DEF Reaper

(* A redrive, by the operator or by a late approval, writes a row.              *)
LEMMA RedrivenType ==
    ASSUME row \in [Task -> Row], aged \subseteq Task, NEW t \in Task, NEW from,
           Cas(t, from, Redriven(t))
    PROVE  row' \in [Task -> Row] /\ aged' \subseteq Task
<1>1. Redriven(t) \in Row
  BY DEF Redriven, Row, NonTerminal, ActiveState
<1> QED
  BY <1>1, CasType

(* The clock, the owner, the admission and the operator.                        *)
LEMMA OutsideType ==
    ASSUME TypeInv, Outside
    PROVE  TypeInv'
<1> USE DEF taskVars, planVars, ownerVars, effectVars, reapVars
<1>a. TypeOK /\ row \in [Task -> Row] /\ aged \subseteq Task /\ redrives \in Nat
      /\ loc \in [Task -> Loc]
  BY DEF TypeInv, TypeOK
<1>b. UNCHANGED loc => CyclesLeft'
  BY CyclesStayIf
<1>1. CASE AnHourPasses
  BY <1>1, <1>b DEF AnHourPasses, TypeInv, TypeOK
<1>2. ASSUME NEW t \in Task, NEW n \in 1..MaxPlan, Admit(t, n)
      PROVE  TypeInv'
  <2> DEFINE k == Cardinality({u \in Task : row[u].created # 0}) + 1
  <2>1. PICK status \in {"planned", "queued"} : AdmitAs(t, n, status)
    BY <1>2 DEF Admit
  <2>2. k \in Nat
    <3>1. IsFiniteSet({u \in Task : row[u].created # 0})
      BY FS_Subset, {u \in Task : row[u].created # 0} \subseteq Task
    <3> QED
      BY <3>1, FS_CardinalityType
  <2>3. row' \in [Task -> Row]
    <3>1. row' = [row EXCEPT ![t].status = status, ![t].created = k]
      BY <2>1 DEF AdmitAs
    <3> HIDE DEF k
    <3>2. [row[t] EXCEPT !.status = status, !.created = k] \in Row
      BY <1>a, <2>2 DEF Row, NonTerminal, ActiveState
    <3>3. row' = [row EXCEPT ![t] = [row[t] EXCEPT !.status = status, !.created = k]]
      BY <1>a, <3>1 DEF Row
    <3> QED
      BY <1>a, <3>2, <3>3
  <2>4. loc' \in [Task -> Loc] /\ CyclesLeft'
    <3>1. loc' = [loc EXCEPT ![t].pc = "triage"] /\ "triage" \in PC
      BY <2>1 DEF AdmitAs, PC
    <3>2. loc' \in [Task -> Loc]
      <4>1. [loc[t] EXCEPT !.pc = "triage"] \in Loc
        BY <1>a, <3>1 DEF Loc
      <4> QED
        BY <1>a, <3>1, <4>1
    <3> QED
      BY <1>a, <3>1, <3>2 DEF TypeInv, CyclesLeft, D, Loc
  <2>5. step' \in [Task -> [StepSeq -> StepStatus]]
    BY <2>1, <1>a DEF AdmitAs, TypeOK, StepStatus
  <2> QED
    BY <2>1, <2>3, <2>4, <2>5 DEF AdmitAs, TypeInv, TypeOK
<1>3. ASSUME NEW t \in Task, OwnerAnswers(t)
      PROVE  TypeInv'
  BY <1>3, <1>b DEF OwnerAnswers, TypeInv, TypeOK
<1>4. ASSUME NEW t \in Task, RetryFallsDue(t)
      PROVE  TypeInv'
  <2>1. row' \in [Task -> Row]
    <3>1. [row[t] EXCEPT !.retry = "due"] \in Row
      BY <1>a DEF Row
    <3> QED
      BY <1>4, <1>a, <3>1 DEF RetryFallsDue
  <2> QED
    BY <1>4, <1>b, <2>1 DEF RetryFallsDue, TypeInv, TypeOK
<1>5. ASSUME NEW t \in Task, Redrive(t)
      PROVE  TypeInv'
  BY <1>5, <1>a, <1>b, RedrivenType DEF Redrive, RedriveFrom, TypeInv, TypeOK
<1>6. ASSUME NEW t \in Task, NEW d \in Dispatch, NEW decision \in Decision,
             Resolve(t, d, decision)
      PROVE  TypeInv'
  <2>1. row' \in [Task -> Row] /\ aged' \subseteq Task
    <3>1. \/ Cas(t, {"dead_letter", "blocked"}, Redriven(t))
          \/ UNCHANGED taskVars
      BY <1>6 DEF Resolve
    <3> QED
      BY <1>a, <3>1, RedrivenType
  <2>2. redrives' \in Nat
    BY <1>6, <1>a DEF Resolve
  <2>3. approval' \in [Task -> [Dispatch -> Decision \union {"none", "pending"}]]
    BY <1>6, <1>a DEF Resolve, TypeOK
  <2> QED
    BY <1>6, <1>b, <2>1, <2>2, <2>3 DEF Resolve, TypeInv, TypeOK
<1> QED
  BY <1>1, <1>2, <1>3, <1>4, <1>5, <1>6 DEF Outside

-------------------------------------------------------------------------------
(* Hence every step.                                                            *)
LEMMA NextType ==
    ASSUME TypeInv, [Next]_vars
    PROVE  TypeInv'
<1>1. CASE Next
  BY <1>1, WorkflowType, ReaperType, OutsideType DEF Next
<1>2. CASE UNCHANGED vars
  BY <1>2 DEF vars, TypeInv, TypeOK, CyclesLeft, D
<1> QED
  BY <1>1, <1>2

(* The inductive invariant holds in every reachable state: no dispatch of       *)
(* manager_task_workflow is under way without a cycle left to count it.         *)
THEOREM TypeInvariant == Spec => []TypeInv
BY InitType, NextType, PTL DEF Spec

(* Every variable keeps its type, whatever the interleaving, the crashes and    *)
(* the values of the limits: no counter of the workflow leaves its range.       *)
THEOREM TypeCorrect == Spec => []TypeOK
<1>1. TypeInv => TypeOK
  BY DEF TypeInv
<1> QED
  BY <1>1, TypeInvariant, PTL

===============================================================================
