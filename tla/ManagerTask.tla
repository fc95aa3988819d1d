------------------------------ MODULE ManagerTask ------------------------------
(* One tenant's durable Team-Manager tasks, in enforce mode: the manager_tasks *)
(* and manager_task_steps rows, the DBOS workflow that drives each task, the    *)
(* owner's answers and approval decisions, the stall-sweep reaper, the operator *)
(* redrive, and the promotion of queued tasks.                                  *)
(*                                                                              *)
(* An action is one DBOS step of the workflow (its reads, its writes and the    *)
(* control flow up to the next step), or one transaction of another actor. DBOS *)
(* runs a step at least once: after a crash between a step's last write and its *)
(* checkpoint, or between two writes of a step (the pool commits every          *)
(* statement on its own), the step runs again on the rows it left. So a step    *)
(* may leave the program counter where it was, at most MaxCrashes times in all. *)
EXTENDS Naturals, FiniteSets

CONSTANTS
    Task,           \* the tasks the tenant may ever create
    MaxPlan,        \* steps of a plan when it is created
    MaxSteps,       \* PlanStep's ceiling of steps per plan (8)
    MaxCycles,      \* LIMIT_MAX_CYCLES (6)
    MaxRevisions,   \* LIMIT_MAX_REVISIONS_PER_STEP (2)
    MaxVerify,      \* LIMIT_MAX_VERIFICATION_ATTEMPTS (1)
    MaxAttempts,    \* manager_tasks.max_attempts (5)
    MaxCrashes,     \* bound: crashes between a step's commit and its checkpoint
    MaxRedrives,    \* bound: redrives, by an operator or by a late approval
    MaxSweeps       \* bound: stall scans with a candidate, plus orphans swept

ASSUME BoundsAssumption ==
    /\ MaxPlan \in Nat \ {0} /\ MaxSteps \in Nat /\ MaxPlan <= MaxSteps
    /\ MaxCycles \in Nat \ {0} /\ MaxAttempts \in Nat \ {0}
    /\ MaxRevisions \in Nat /\ MaxVerify \in Nat
    /\ MaxCrashes \in Nat /\ MaxRedrives \in Nat /\ MaxSweeps \in Nat

ASSUME TaskAssumption == IsFiniteSet(Task)

VARIABLES
    row,        \* the manager_tasks row of each task
    aged,       \* planned, running, verifying tasks untouched for over an hour
    step,       \* status of the current row of each step_seq of each task
    gen,        \* how often that step was replaced: with step_seq, its step_id
    question,   \* the task's clarification question, once delivered
    approval,   \* the approval row of each dispatch, keyed by loop_run_id
    late,       \* tasks whose stamped approval was resolved over an hour ago
    sent,       \* CAMPAIGN_SENT events of the campaign each dispatch proposed
    told,       \* terminal closures the owner has received about each task
    loc,        \* local state of the task's workflow
    scanned,    \* the candidates the running stall sweep has read: <<task, attempt>>
    struck,     \* tasks the running sweep dead-lettered
    holders,    \* tasks the sweep must tell the owner about after its commit
    crashes, redrives, sweeps

taskVars   == <<row, aged>>
planVars   == <<step, gen>>
ownerVars  == <<question, approval, late>>
effectVars == <<sent, told>>
reapVars   == <<scanned, struck, holders, sweeps>>
vars == <<row, aged, step, gen, question, approval, late, sent, told, loc,
          scanned, struck, holders, crashes, redrives, sweeps>>

-------------------------------------------------------------------------------
(* Vocabularies. "absent" stands for a row not created yet.                    *)

Terminal    == {"completed", "failed", "cancelled", "dead_letter"}
ActiveState == {"clarifying", "planned", "running", "waiting_owner", "blocked",
                "verifying"}
NonTerminal == ActiveState \union {"queued"}
StallState  == {"planned", "running", "verifying"}
StepStatus  == {"none", "pending", "running", "waiting", "done", "failed"}
Runnable    == {"pending", "running", "waiting"}
Decision    == {"approved", "rejected", "needs_changes", "timeout"}
Outcome     == {"none", "completed", "cancelled", "escalated"}
Notify      == {"not_required", "pending", "delivered", "failed"}
PC == {"absent", "triage", "idle", "claim", "validate", "dispatch", "gate",
       "revise", "waitAnswer", "giveUp", "arm", "park", "waitApproval", "route",
       "report", "afterExec", "changed", "verify", "notify", "tail", "tailNotify",
       "settle", "promote", "done", "error"}

StepSeq  == 1..MaxSteps
Dispatch == 1..MaxCycles

Row == [status : Terminal \union NonTerminal \union {"absent"},
        attempt : Nat,                          \* stalls counted by the ladder
        retry : {"none", "armed", "due"},       \* next_retry_at
        outcome : Outcome, notify : Notify,     \* terminal_outcome, owner_notification_status
        stamp : 0..MaxCycles,                   \* stall_metadata.awaiting_approval_run_id
        created : Nat]                          \* created_at, as an arrival number

Loc == [pc : PC,
        seq : 0..MaxSteps, gen : Nat,           \* the claimed step
        cycles : 0..MaxCycles,
        revs : [StepSeq -> Nat],                \* revision_counts
        tries : Nat,                            \* verification_attempts
        pre : {"none", "running", "verifying"}, \* pre_pause_status
        next : {"claim", "verify"},             \* where an accepted step leads
        reported : BOOLEAN]                     \* campaign_outcome_reported

-------------------------------------------------------------------------------
(* Reading the rows.                                                           *)

Active      == {t \in Task : row[t].status \in ActiveState}
Queued      == {t \in Task : row[t].status = "queued"}
Pending(t)  == {s \in StepSeq : step[t][s] = "pending"}
Planned(t)  == {s \in StepSeq : step[t][s] # "none"}
Least_Last(S) == CHOOSE s \in S : \A u \in S : u <= s        \* a mutant
Least(S)    == CHOOSE s \in S : \A u \in S : s <= u
OpenApproval == \E t \in Task, d \in Dispatch : approval[t][d] = "pending"

At(t, p)    == loc[t].pc = p
D(t)        == loc[t].cycles        \* the dispatch just made
Mine(t)     == gen[t][loc[t].seq] = loc[t].gen  \* the claimed step_id is current

(* Writing them. set_task_status: a compare-and-set on the status that stamps  *)
(* updated_at only when it applies.                                            *)
Cas(t, from, new) ==
    IF row[t].status \in from
    THEN row' = [row EXCEPT ![t] = new] /\ aged' = aged \ {t}
    ELSE UNCHANGED taskVars

Status(t, s) == [row[t] EXCEPT !.status = s]

(* Every _block_* step and _arm_escalation_for_notify.                          *)
Block(t) == Cas(t, NonTerminal, [row[t] EXCEPT !.status = "blocked",
                                     !.outcome = "escalated", !.notify = "pending"])

CasStep(t, from, to) ==
    step' = IF loc[t].seq # 0 /\ step[t][loc[t].seq] = from /\ Mine(t)
            THEN [step EXCEPT ![t][loc[t].seq] = to] ELSE step

(* The workflow moves on, or crashes before the checkpoint and runs again from  *)
(* the local state "again".                                                     *)
Crash(t, again) ==
    crashes < MaxCrashes /\ crashes' = crashes + 1 /\ loc' = [loc EXCEPT ![t] = again]
GoElse(t, l, again) ==
    (loc' = [loc EXCEPT ![t] = l] /\ UNCHANGED crashes) \/ Crash(t, again)
Go(t, l) == GoElse(t, l, loc[t])

(* The two writes of a review: the step first, then the task.                   *)
StepThenTask(t, from, to, taskFrom, new, l) ==
    /\ CasStep(t, from, to)
    /\ \/ Cas(t, taskFrom, new) /\ Go(t, l)
       \/ UNCHANGED taskVars /\ Crash(t, loc[t])

Jump(t, p) == [loc[t] EXCEPT !.pc = p]
Head(l)    == [l EXCEPT !.pc = "claim", !.seq = 0, !.gen = 0, !.pre = "none",
                        !.next = "claim"]
Tail(l)    == [Head(l) EXCEPT !.pc = "tail"]
Fail(t)    == loc' = [loc EXCEPT ![t] = [Tail(loc[t]) EXCEPT !.pc = "error"]]
              /\ UNCHANGED crashes
Dispatched(l, p) == [l EXCEPT !.pc = p, !.cycles = @ + 1]

-------------------------------------------------------------------------------
Init ==
    /\ row = [t \in Task |-> [status |-> "absent", attempt |-> 0, retry |-> "none",
                              outcome |-> "none", notify |-> "not_required",
                              stamp |-> 0, created |-> 0]]
    /\ step = [t \in Task |-> [s \in StepSeq |-> "none"]]
    /\ gen = [t \in Task |-> [s \in StepSeq |-> 0]]
    /\ question = [t \in Task |-> "none"]
    /\ approval = [t \in Task |-> [d \in Dispatch |-> "none"]]
    /\ sent = [t \in Task |-> [d \in Dispatch |-> 0]]
    /\ told = [t \in Task |-> {}]
    /\ loc = [t \in Task |-> [pc |-> "absent", seq |-> 0, gen |-> 0, cycles |-> 0,
                              revs |-> [s \in StepSeq |-> 0], tries |-> 0,
                              pre |-> "none", next |-> "claim", reported |-> FALSE]]
    /\ aged = {} /\ late = {} /\ scanned = {} /\ struck = {} /\ holders = {}
    /\ crashes = 0 /\ redrives = 0 /\ sweeps = 0

(* create_plan under the tenant row lock: the task and its n pending steps,     *)
(* queued while another task is active.                                         *)
AdmitAs(t, n, status) ==
    /\ At(t, "absent")
    /\ row' = [row EXCEPT ![t].status = status,
                          ![t].created = Cardinality({u \in Task : row[u].created # 0}) + 1]
    /\ step' = [step EXCEPT ![t] = [s \in StepSeq |-> IF s <= n THEN "pending" ELSE "none"]]
    /\ loc' = [loc EXCEPT ![t].pc = "triage"]
    /\ UNCHANGED <<aged, gen, ownerVars, effectVars, reapVars, crashes, redrives>>

Admit_AlwaysPlanned(t, n) == AdmitAs(t, n, "planned")         \* a mutant
Admit(t, n) == AdmitAs(t, n, IF Active = {} THEN "planned" ELSE "queued")

(* The triage seam reads the new task's status back and starts its workflow     *)
(* only when it reads 'planned'. So do the other callers of create_plan; the    *)
(* code starts a task's workflow nowhere else.                                  *)
TriageStart(t) ==
    /\ At(t, "triage")
    /\ loc' = [loc EXCEPT ![t].pc = IF row[t].status = "planned" THEN "claim" ELSE "idle"]
    /\ UNCHANGED <<taskVars, planVars, ownerVars, effectVars, reapVars, crashes, redrives>>

-------------------------------------------------------------------------------
(* The workflow: claim, validate, dispatch.                                    *)

CyclesSpent(t) ==
    /\ At(t, "claim") /\ loc[t].cycles = MaxCycles
    /\ Block(t)
    /\ Go(t, Tail(loc[t]))
    /\ UNCHANGED <<planVars, ownerVars, effectVars, reapVars, redrives>>

(* No pending step: the loop breaks to the tail.                                *)
ClaimNone(t) ==
    /\ At(t, "claim") /\ loc[t].cycles < MaxCycles /\ Pending(t) = {}
    /\ Go(t, Tail(loc[t]))
    /\ UNCHANGED <<taskVars, planVars, ownerVars, effectVars, reapVars, redrives>>

TakeStep(t) ==
    /\ At(t, "claim") /\ Pending(t) # {}
    /\ row[t].status \in {"planned", "running"}
    /\ LET s == Least(Pending(t)) IN
         /\ step' = [step EXCEPT ![t][s] = "running"]
         /\ Go(t, [loc[t] EXCEPT !.pc = "validate", !.seq = s, !.gen = gen[t][s]])
    /\ Cas(t, {"planned", "running"}, Status(t, "running"))
    /\ UNCHANGED <<gen, ownerVars, effectVars, reapVars, redrives>>

ClaimStep_NoLimit(t) == TakeStep(t)                           \* a mutant
ClaimStep(t) == loc[t].cycles < MaxCycles /\ TakeStep(t)

(* A pending step of a task in no claimable state: claim_next_step raises, both *)
(* writes roll back and the workflow ends in ERROR.                             *)
ClaimRejected(t) ==
    /\ At(t, "claim") /\ loc[t].cycles < MaxCycles /\ Pending(t) # {}
    /\ row[t].status \notin {"planned", "running"}
    /\ Fail(t)
    /\ UNCHANGED <<taskVars, planVars, ownerVars, effectVars, reapVars, redrives>>

Validated(t) ==
    /\ At(t, "validate")
    /\ Go(t, Jump(t, "dispatch"))
    /\ UNCHANGED <<taskVars, planVars, ownerVars, effectVars, reapVars, redrives>>

(* Activation, policy or freeze refuses the step before any dispatch.           *)
ValidationFails(t) ==
    /\ At(t, "validate")
    /\ Block(t)
    /\ Go(t, Tail(loc[t]))
    /\ UNCHANGED <<planVars, ownerVars, effectVars, reapVars, redrives>>

(* manager_review accepts the specialist's result: 'complete' when no other     *)
(* step is pending, else 'continue'. A proposed campaign goes on to the gate,   *)
(* inside the same dispatch.                                                    *)
ReviewAccepts(t, campaign) ==
    LET next == IF Pending(t) \subseteq {loc[t].seq} THEN "verify" ELSE "claim" IN
    /\ At(t, "dispatch")
    /\ LET then == IF campaign THEN [Jump(t, "gate") EXCEPT !.next = next]
                               ELSE Dispatched(Head(loc[t]), next)
       IN IF next = "verify"
          THEN StepThenTask(t, "running", "done", {"running"}, Status(t, "verifying"), then)
          ELSE CasStep(t, "running", "done") /\ UNCHANGED taskVars /\ Go(t, then)
    /\ UNCHANGED <<gen, ownerVars, effectVars, reapVars, redrives>>

ReviewRevises(t) ==
    /\ At(t, "dispatch")
    /\ CasStep(t, "running", "pending")
    /\ Go(t, Dispatched(loc[t], "revise"))
    /\ UNCHANGED <<taskVars, gen, ownerVars, effectVars, reapVars, redrives>>

(* The question reached the owner: step and task park on the answer.            *)
ReviewAsks(t) ==
    /\ At(t, "dispatch")
    /\ question' = [question EXCEPT ![t] = "open"]
    /\ StepThenTask(t, "running", "waiting", {"running"}, Status(t, "waiting_owner"),
                    Dispatched(loc[t], "waitAnswer"))
    /\ UNCHANGED <<gen, approval, late, effectVars, reapVars, redrives>>

(* An escalation, or a question that could not be delivered.                    *)
ReviewEscalates(t) ==
    /\ At(t, "dispatch")
    /\ StepThenTask(t, "running", "failed", NonTerminal, Status(t, "blocked"),
                    Dispatched(loc[t], "arm"))
    /\ UNCHANGED <<gen, ownerVars, effectVars, reapVars, redrives>>

(* The Manager spawned no specialist: manager_review never ran and the outcome  *)
(* defaults to "escalate" with nothing settled.                                 *)
ReviewSkipped(t) ==
    /\ At(t, "dispatch")
    /\ Go(t, Dispatched(loc[t], "arm"))
    /\ UNCHANGED <<taskVars, planVars, ownerVars, effectVars, reapVars, redrives>>

(* graph.invoke raises: the step has no retry, the workflow ends in ERROR.      *)
DispatchRaises(t) ==
    /\ At(t, "dispatch")
    /\ Fail(t)
    /\ UNCHANGED <<taskVars, planVars, ownerVars, effectVars, reapVars, redrives>>

(* arm_pause_request: this run's open row is kept; otherwise a row is inserted  *)
(* when the tenant has none open. A crash replays the whole dispatch.           *)
GateArms(t) ==
    /\ At(t, "gate")
    /\ approval[t][D(t) + 1] = "pending" \/ ~OpenApproval
    /\ approval' = [approval EXCEPT ![t][D(t) + 1] = "pending"]
    /\ GoElse(t, Dispatched(loc[t], "park"), Jump(t, "dispatch"))
    /\ UNCHANGED <<taskVars, planVars, question, late, effectVars, reapVars, redrives>>

(* Another approval is open for the tenant, or the ask could not be sent and    *)
(* its row was deleted: no pause, the review's outcome stands.                  *)
GateRefused(t) ==
    /\ At(t, "gate")
    /\ approval[t][D(t) + 1] # "pending"
    /\ GoElse(t, Dispatched(Head(loc[t]), loc[t].next), Jump(t, "dispatch"))
    /\ UNCHANGED <<taskVars, planVars, ownerVars, effectVars, reapVars, redrives>>

-------------------------------------------------------------------------------
(* The workflow: revisions, the wait for an answer, escalation.                *)

OverRevised(t) == loc[t].revs[loc[t].seq] + 1 > MaxRevisions

(* replace_step: the old row is superseded and a pending one takes its          *)
(* step_seq; an old row already superseded raises.                              *)
Replace(t, l) ==
    IF Mine(t)
    THEN /\ step' = [step EXCEPT ![t][loc[t].seq] = "pending"]
         /\ gen' = [gen EXCEPT ![t][loc[t].seq] = @ + 1]
         /\ aged' = aged \ {t}
         /\ Go(t, [l EXCEPT !.revs[loc[t].seq] = @ + 1])
    ELSE Fail(t) /\ UNCHANGED <<aged, planVars>>

Revise(t) ==
    /\ At(t, "revise") /\ ~OverRevised(t)
    /\ Replace(t, Head(loc[t]))
    /\ UNCHANGED <<row, ownerVars, effectVars, reapVars, redrives>>

RevisionsSpent(t) ==
    /\ \/ At(t, "revise")
       \/ At(t, "route") /\ approval[t][D(t)] = "needs_changes"
    /\ OverRevised(t)
    /\ Block(t)
    /\ Go(t, Tail(loc[t]))
    /\ UNCHANGED <<planVars, ownerVars, effectVars, reapVars, redrives>>

(* The poll reads the question answered; _resume_step_after_answer.             *)
AnswerSeen(t) ==
    /\ At(t, "waitAnswer") /\ question[t] # "open"
    /\ StepThenTask(t, "waiting", "pending", {"waiting_owner"}, Status(t, "running"),
                    Head(loc[t]))
    /\ UNCHANGED <<gen, ownerVars, effectVars, reapVars, redrives>>

(* The last poll of the seven-day budget still reads no reply ...               *)
StopPolling(t) ==
    /\ loc' = [loc EXCEPT ![t] = Jump(t, "giveUp")]
    /\ UNCHANGED <<taskVars, planVars, ownerVars, effectVars, reapVars, crashes, redrives>>
PollsSpent_AnswersOnly(t) ==                                  \* a mutant
    At(t, "waitAnswer") /\ question[t] = "open" /\ StopPolling(t)
PollsSpent(t) ==
    /\ \/ At(t, "waitAnswer") /\ question[t] = "open"
       \/ At(t, "waitApproval") /\ approval[t][D(t)] = "pending"
    /\ StopPolling(t)

(* ... and the next step blocks the task, whatever was answered in between.     *)
GiveUp(t) ==
    /\ At(t, "giveUp")
    /\ Block(t)
    /\ Go(t, Tail(loc[t]))
    /\ UNCHANGED <<planVars, ownerVars, effectVars, reapVars, redrives>>

ArmEscalation(t) ==
    /\ At(t, "arm")
    /\ Block(t)
    /\ Go(t, Tail(loc[t]))
    /\ UNCHANGED <<planVars, ownerVars, effectVars, reapVars, redrives>>

-------------------------------------------------------------------------------
(* The workflow: the wait for an approval and the route on its decision.       *)

(* The park returns the status it found, or none when it found neither; it      *)
(* stamps the approval's run, and the stamp is never cleared.                   *)
Parked_NoStamp(t) == Status(t, "waiting_owner")               \* a mutant
Parked(t) == [Status(t, "waiting_owner") EXCEPT !.stamp = D(t)]
Park(t) ==
    /\ At(t, "park")
    /\ IF row[t].status \in {"running", "verifying"}
       THEN /\ row' = [row EXCEPT ![t] = Parked(t)]
            /\ aged' = aged \ {t} /\ late' = late \ {t}
            /\ Go(t, [Jump(t, "waitApproval") EXCEPT !.pre = row[t].status])
       ELSE /\ Go(t, Jump(t, "waitApproval"))
            /\ UNCHANGED <<taskVars, late>>
    /\ UNCHANGED <<planVars, question, approval, effectVars, reapVars, redrives>>

(* The poll reads the approval resolved; the pre-pause status is restored.      *)
Restore_NoCas(t) == Cas(t, {row[t].status}, Status(t, loc[t].pre))  \* a mutant
Restore(t) == Cas(t, {"waiting_owner"}, Status(t, loc[t].pre))
ApprovalSeen(t) ==
    /\ At(t, "waitApproval") /\ approval[t][D(t)] # "pending"
    /\ IF loc[t].pre = "none" THEN UNCHANGED taskVars ELSE Restore(t)
    /\ Go(t, Jump(t, "route"))
    /\ UNCHANGED <<planVars, ownerVars, effectVars, reapVars, redrives>>

(* _execute_approved_campaign: the fan-out runs only while the campaign is not  *)
(* yet 'sent'. It may be held or raise ("ran" FALSE), and a fan-out that was    *)
(* killed does not advance the campaign. A step that runs again after the       *)
(* campaign advanced executes nothing.                                          *)
Unsent_Unread(t) == TRUE                                      \* a mutant
Unsent(t) == sent[t][D(t)] = 0
FanOut(t, ran, advanced) ==
    /\ (ran => Unsent(t)) /\ (advanced => ran)
    /\ sent' = IF advanced THEN [sent EXCEPT ![t][D(t)] = @ + 1] ELSE sent
    /\ Go(t, Jump(t, IF ran THEN "report" ELSE "afterExec"))
    /\ UNCHANGED <<taskVars, planVars, ownerVars, told, reapVars, redrives>>
Execute_NotPending(t, ran, advanced) ==                       \* a mutant
    At(t, "route") /\ approval[t][D(t)] # "pending" /\ FanOut(t, ran, advanced)
Execute(t, ran, advanced) ==
    At(t, "route") /\ approval[t][D(t)] = "approved" /\ FanOut(t, ran, advanced)

(* The report of what was sent may not reach the owner.                         *)
Report(t, heard) ==
    /\ At(t, "report")
    /\ Go(t, [Jump(t, "afterExec") EXCEPT !.reported = @ \/ heard])
    /\ UNCHANGED <<taskVars, planVars, ownerVars, effectVars, reapVars, redrives>>

AfterExecute(t) ==
    /\ At(t, "afterExec")
    /\ Go(t, [Head(loc[t]) EXCEPT
                  !.pc = IF row[t].status = "verifying" THEN "verify" ELSE "claim"])
    /\ UNCHANGED <<taskVars, planVars, ownerVars, effectVars, reapVars, redrives>>

(* Rejected, or deferred once too often.                                        *)
Decline_AsApproved(t) ==                                      \* a mutant
    /\ At(t, "route") /\ approval[t][D(t)] = "rejected"
    /\ Go(t, Jump(t, "afterExec"))
    /\ UNCHANGED <<taskVars, planVars, ownerVars, effectVars, reapVars, redrives>>
Decline(t) ==
    /\ At(t, "route") /\ approval[t][D(t)] = "rejected"
    /\ Cas(t, {"verifying"}, [row[t] EXCEPT !.status = "cancelled",
                                  !.outcome = "cancelled", !.notify = "pending"])
    /\ Go(t, [Tail(loc[t]) EXCEPT !.pc = "notify"])
    /\ UNCHANGED <<planVars, ownerVars, effectVars, reapVars, redrives>>

ChangesAsked(t) ==
    /\ At(t, "route") /\ approval[t][D(t)] = "needs_changes" /\ ~OverRevised(t)
    /\ Replace(t, Jump(t, "changed"))
    /\ UNCHANGED <<row, ownerVars, effectVars, reapVars, redrives>>

ResumeAfterChanges(t) ==
    /\ At(t, "changed")
    /\ Cas(t, {"verifying"}, Status(t, "running"))
    /\ Go(t, Head(loc[t]))
    /\ UNCHANGED <<planVars, ownerVars, effectVars, reapVars, redrives>>

OwnerUnreachable(t) ==
    /\ At(t, "route") /\ approval[t][D(t)] = "timeout"
    /\ Block(t)
    /\ Go(t, Tail(loc[t]))
    /\ UNCHANGED <<planVars, ownerVars, effectVars, reapVars, redrives>>

-------------------------------------------------------------------------------
(* The workflow: verification, the closures, the tail.                         *)

Verified(t) ==
    /\ At(t, "verify")
    /\ Cas(t, {"verifying"},
           [row[t] EXCEPT !.status = "completed", !.outcome = "completed",
               !.notify = IF loc[t].reported THEN "not_required" ELSE "pending"])
    /\ Go(t, [Tail(loc[t]) EXCEPT !.pc = "notify"])
    /\ UNCHANGED <<planVars, ownerVars, effectVars, reapVars, redrives>>

RetryAllowed(t) ==
    loc[t].tries < MaxVerify /\ Cardinality(Planned(t)) < MaxSteps

(* Not verified: one more step is appended and the task runs on (two commits).  *)
AppendRetryStep(t) ==
    /\ At(t, "verify") /\ RetryAllowed(t)
    /\ step' = [step EXCEPT ![t][Cardinality(Planned(t)) + 1] = "pending"]
    /\ aged' = aged \ {t}
    /\ \/ /\ row' = IF row[t].status = "verifying"
                    THEN [row EXCEPT ![t].status = "running"] ELSE row
          /\ Go(t, [Head(loc[t]) EXCEPT !.tries = @ + 1])
       \/ UNCHANGED row /\ Crash(t, loc[t])
    /\ UNCHANGED <<gen, ownerVars, effectVars, reapVars, redrives>>

VerifySpent(t) ==
    /\ At(t, "verify") /\ ~RetryAllowed(t)
    /\ Block(t)
    /\ Go(t, Tail(loc[t]))
    /\ UNCHANGED <<planVars, ownerVars, effectVars, reapVars, redrives>>

(* maybe_notify_owner_of_task_outcome: sent at most once per task and outcome;  *)
(* the send may fail, be suppressed for an escalation whose turn was already    *)
(* answered, or be deferred (left pending) outside the owner's session.         *)
Closure(t) ==
    IF row[t].notify # "pending"
    THEN UNCHANGED <<taskVars, told>>
    ELSE \/ /\ row' = [row EXCEPT ![t].notify = "delivered"] /\ aged' = aged \ {t}
            /\ told' = [told EXCEPT ![t] = @ \union {row[t].outcome}]
         \/ /\ row[t].outcome \notin told[t]
            /\ \E n \in {"failed"} \union
                        (IF row[t].outcome = "escalated" THEN {"not_required"} ELSE {}) :
                  row' = [row EXCEPT ![t].notify = n] /\ aged' = aged \ {t}
            /\ UNCHANGED told
         \/ row[t].outcome \notin told[t] /\ UNCHANGED <<taskVars, told>>

NotifyOwner(t) ==
    /\ loc[t].pc \in {"notify", "tailNotify"}
    /\ Closure(t)
    /\ Go(t, Jump(t, IF At(t, "notify") THEN "tail" ELSE "settle"))
    /\ UNCHANGED <<planVars, ownerVars, sent, reapVars, redrives>>

Releases_Completed(t) == row[t].status = "completed"          \* a mutant
Releases(t) == row[t].status \in Terminal
TailRead(t) ==
    /\ At(t, "tail")
    /\ Go(t, Jump(t, IF row[t].status = "blocked" THEN "tailNotify"
                     ELSE IF Releases(t) THEN "promote" ELSE "done"))
    /\ UNCHANGED <<taskVars, planVars, ownerVars, effectVars, reapVars, redrives>>

(* settle_unretryable_block: a block with no retry armed becomes dead_letter;   *)
(* only then does the tail promote.                                             *)
Settles_Never(t) == FALSE                                     \* a mutant
Settles(t) == row[t].status = "blocked" /\ row[t].retry = "none"
SettleBlock(t) ==
    /\ At(t, "settle")
    /\ IF Settles(t) THEN Cas(t, {"blocked"}, Status(t, "dead_letter")) ELSE UNCHANGED taskVars
    /\ Go(t, Jump(t, IF Settles(t) THEN "promote" ELSE "done"))
    /\ UNCHANGED <<planVars, ownerVars, effectVars, reapVars, redrives>>

Promote(t) ==
    /\ At(t, "promote")
    /\ IF Active = {} /\ Queued # {}
       THEN LET q == CHOOSE u \in Queued : \A v \in Queued : row[u].created <= row[v].created
            IN  row' = [row EXCEPT ![q].status = "planned"] /\ aged' = aged \ {q}
       ELSE UNCHANGED taskVars
    /\ Go(t, Jump(t, "done"))
    /\ UNCHANGED <<planVars, ownerVars, effectVars, reapVars, redrives>>

-------------------------------------------------------------------------------
(* The owner, the clock, the reaper and the operator.                          *)

Redriven(t) == [row[t] EXCEPT !.status = "planned", !.attempt = 0, !.retry = "none"]

OwnerAnswers(t) ==
    /\ question[t] = "open"
    /\ question' = [question EXCEPT ![t] = "answered"]
    /\ UNCHANGED <<taskVars, planVars, approval, late, effectVars, loc, reapVars,
                   crashes, redrives>>

(* mark_approval_resolved, from the owner's reply or the timeout sweep. When    *)
(* the owner approves and the task stamped with this run is dead_letter or      *)
(* blocked, the same transaction redrives it (_guarantee_campaign_consumer,     *)
(* fail-soft).                                                                  *)
Resolve(t, d, decision) ==
    LET redrive == /\ decision = "approved" /\ row[t].stamp = d
                   /\ row[t].status \in {"dead_letter", "blocked"}
                   /\ redrives < MaxRedrives
    IN
    /\ approval[t][d] = "pending"
    /\ approval' = [approval EXCEPT ![t][d] = decision]
    /\ IF redrive THEN Cas(t, {"dead_letter", "blocked"}, Redriven(t)) ELSE UNCHANGED taskVars
    /\ redrives' = IF redrive THEN redrives + 1 ELSE redrives
    /\ UNCHANGED <<planVars, question, late, effectVars, loc, reapVars, crashes>>

(* An hour passes, while the owner thinks or the service is down; a sweep does  *)
(* not last that long.                                                          *)
AnHourPasses ==
    /\ scanned = {} /\ struck = {}
    /\ aged' = {t \in Task : row[t].status \in StallState}
    /\ late' = {t \in Task : row[t].stamp # 0
                             /\ approval[t][row[t].stamp] \notin {"none", "pending"}}
    /\ UNCHANGED <<row, planVars, question, approval, effectVars, loc, reapVars,
                   crashes, redrives>>

(* The stall sweep, statement by statement (each commits on its own). Its       *)
(* SELECT: planned, running or verifying tasks, untouched for an hour, not      *)
(* waiting for a retry, with no runnable or waiting step.                       *)
Stalled == {t \in aged : /\ row[t].status \in StallState
                         /\ row[t].retry # "armed"
                         /\ \A s \in StepSeq : step[t][s] \notin Runnable}

ReaperScan ==
    /\ scanned = {} /\ struck = {} /\ Stalled # {} /\ sweeps < MaxSweeps
    /\ scanned' = {<<t, row[t].attempt>> : t \in Stalled}
    /\ sweeps' = sweeps + 1
    /\ UNCHANGED <<taskVars, planVars, ownerVars, effectVars, loc, struck, holders,
                   crashes, redrives>>

(* Its UPDATE of one candidate, by id alone: the ladder's next rung, or         *)
(* dead_letter when the attempts are spent.                                     *)
ReaperStrike(t, attempt) ==
    LET spent == attempt + 1 >= MaxAttempts IN
    /\ <<t, attempt>> \in scanned
    /\ scanned' = scanned \ {<<t, attempt>>}
    /\ row' = [row EXCEPT ![t].status = IF spent THEN "dead_letter" ELSE "blocked",
                          ![t].retry = IF spent THEN "none" ELSE "armed",
                          ![t].attempt = attempt + 1]
    /\ aged' = aged \ {t}
    /\ struck' = IF spent THEN struck \union {t} ELSE struck
    /\ UNCHANGED <<planVars, ownerVars, effectVars, loc, holders, crashes, redrives, sweeps>>

RetryFallsDue(t) ==
    /\ row[t].retry = "armed"
    /\ row' = [row EXCEPT ![t].retry = "due"]
    /\ UNCHANGED <<aged, planVars, ownerVars, effectVars, loc, reapVars, crashes, redrives>>

(* Its wake-up, after every strike.                                             *)
ReaperWakes(t) ==
    /\ scanned = {}
    /\ row[t].status = "blocked" /\ row[t].retry = "due"
    /\ Cas(t, {"blocked"}, [Status(t, "planned") EXCEPT !.retry = "none"])
    /\ UNCHANGED <<planVars, ownerVars, effectVars, loc, reapVars, crashes, redrives>>

(* For each task it dead-lettered: an open approval bound to the task is closed *)
(* as timed out and an escalation is armed.                                     *)
ReaperCloses(t) ==
    LET d     == row[t].stamp
        holds == d # 0 /\ approval[t][d] = "pending"
    IN
    /\ scanned = {} /\ t \in struck
    /\ struck' = struck \ {t}
    /\ IF holds
       THEN /\ row' = IF row[t].notify = "not_required"
                      THEN [row EXCEPT ![t].outcome = "escalated", ![t].notify = "pending"]
                      ELSE row
            /\ aged' = aged \ {t}
            /\ approval' = [approval EXCEPT ![t][d] = "timeout"]
            /\ holders' = holders \union {t}
       ELSE UNCHANGED <<taskVars, approval, holders>>
    /\ UNCHANGED <<planVars, question, late, effectVars, loc, scanned, sweeps, crashes, redrives>>

(* The orphaned-approval sweep: waiting_owner although the stamped approval was *)
(* resolved over an hour ago.                                                   *)
OrphanSweep(t) ==
    /\ scanned = {} /\ struck = {} /\ sweeps < MaxSweeps
    /\ row[t].status = "waiting_owner" /\ t \in late
    /\ Cas(t, {"waiting_owner"},
           [row[t] EXCEPT !.status = "dead_letter", !.outcome = "escalated",
               !.notify = IF @ = "not_required" THEN "pending" ELSE @])
    /\ holders' = holders \union {t}
    /\ sweeps' = sweeps + 1
    /\ UNCHANGED <<planVars, ownerVars, effectVars, loc, scanned, struck, crashes, redrives>>

(* The notices it sends at its end.                                             *)
ReaperNotifies(t) ==
    /\ scanned = {} /\ struck = {} /\ t \in holders
    /\ holders' = holders \ {t}
    /\ Closure(t)
    /\ UNCHANGED <<planVars, ownerVars, sent, loc, scanned, struck, sweeps, crashes, redrives>>

(* A sweep that crashes, or whose connection fails, stops where it is; the next *)
(* one knows nothing of it.                                                     *)
ReaperDies ==
    /\ scanned # {} \/ struck # {} \/ holders # {}
    /\ crashes < MaxCrashes /\ crashes' = crashes + 1
    /\ scanned' = {} /\ struck' = {} /\ holders' = {}
    /\ UNCHANGED <<taskVars, planVars, ownerVars, effectVars, loc, sweeps, redrives>>

(* The operator's redrive endpoint. It starts no workflow.                      *)
RedriveFrom(t, from) ==
    /\ row[t].status \in from /\ redrives < MaxRedrives
    /\ Cas(t, from, Redriven(t))
    /\ redrives' = redrives + 1
    /\ UNCHANGED <<planVars, ownerVars, effectVars, loc, reapVars, crashes>>
Redrive_Terminal(t) == RedriveFrom(t, Terminal)               \* a mutant
Redrive(t) == RedriveFrom(t, {"dead_letter", "blocked"})

-------------------------------------------------------------------------------
Workflow(t) ==
    \/ TriageStart(t) \/ CyclesSpent(t) \/ ClaimNone(t) \/ ClaimStep(t) \/ ClaimRejected(t)
    \/ Validated(t) \/ ValidationFails(t)
    \/ \E campaign \in BOOLEAN : ReviewAccepts(t, campaign)
    \/ ReviewRevises(t) \/ ReviewAsks(t) \/ ReviewEscalates(t) \/ ReviewSkipped(t)
    \/ DispatchRaises(t) \/ GateArms(t) \/ GateRefused(t)
    \/ Revise(t) \/ RevisionsSpent(t) \/ AnswerSeen(t) \/ PollsSpent(t) \/ GiveUp(t)
    \/ ArmEscalation(t) \/ Park(t) \/ ApprovalSeen(t)
    \/ \E ran, advanced \in BOOLEAN : Execute(t, ran, advanced)
    \/ \E heard \in BOOLEAN : Report(t, heard)
    \/ AfterExecute(t) \/ Decline(t) \/ ChangesAsked(t) \/ ResumeAfterChanges(t)
    \/ OwnerUnreachable(t) \/ Verified(t) \/ AppendRetryStep(t) \/ VerifySpent(t)
    \/ NotifyOwner(t) \/ TailRead(t) \/ SettleBlock(t) \/ Promote(t)

Reaper ==
    \/ ReaperScan \/ ReaperDies
    \/ \E c \in scanned : ReaperStrike(c[1], c[2])
    \/ \E t \in Task : \/ ReaperWakes(t) \/ ReaperCloses(t) \/ OrphanSweep(t)
                       \/ ReaperNotifies(t)

Outside ==
    \/ AnHourPasses
    \/ \E t \in Task : \/ \E n \in 1..MaxPlan : Admit(t, n)
                       \/ OwnerAnswers(t) \/ RetryFallsDue(t) \/ Redrive(t)
                       \/ \E d \in Dispatch, decision \in Decision : Resolve(t, d, decision)

Next == (\E t \in Task : Workflow(t)) \/ Reaper \/ Outside

Spec == Init /\ [][Next]_vars

(* DBOS recovers and re-runs a started workflow until it ends.                  *)
FairSpec == Spec /\ \A t \in Task : WF_vars(Workflow(t))

-------------------------------------------------------------------------------
(* The types of the rows and of the workflows' local state: no status outside   *)
(* the CHECKed vocabularies, no counter of the loop beyond its limit.           *)
TypeOK ==
    /\ row \in [Task -> Row]
    /\ aged \subseteq Task /\ late \subseteq Task
    /\ scanned \subseteq Task \X Nat /\ struck \subseteq Task /\ holders \subseteq Task
    /\ step \in [Task -> [StepSeq -> StepStatus]]
    /\ gen \in [Task -> [StepSeq -> Nat]]
    /\ question \in [Task -> {"none", "open", "answered"}]
    /\ approval \in [Task -> [Dispatch -> Decision \union {"none", "pending"}]]
    /\ sent \in [Task -> [Dispatch -> Nat]]
    /\ told \in [Task -> SUBSET Outcome]
    /\ loc \in [Task -> Loc]
    /\ crashes \in Nat /\ redrives \in Nat /\ sweeps \in Nat

-------------------------------------------------------------------------------
(* What must never happen.                                                     *)

(* A campaign is fanned out only for a dispatch whose own approval row says     *)
(* 'approved': no other resolution, and no missing one, ever reaches a customer *)
(* (manager_task_workflow routes on the decision, not on "no longer pending").  *)
SendOnlyIfApproved ==
    \A t \in Task, d \in Dispatch : sent[t][d] > 0 => approval[t][d] = "approved"

(* However often a crash makes DBOS run the execution step again, a campaign    *)
(* advances to 'sent' at most once (_execute_approved_campaign's status guard). *)
AtMostOneCampaignSent == \A t \in Task, d \in Dispatch : sent[t][d] <= 1

(* Without crashes, the owner never hears "done" about a task in which an       *)
(* approval was refused or ran out (the false success the decision routing of   *)
(* manager_task_workflow closes).                                               *)
NoSuccessAfterRefusal ==
    crashes = 0 =>
        \A t \in Task : "completed" \in told[t] =>
            \A d \in Dispatch : approval[t][d] \notin {"rejected", "timeout"}

(* As long as nobody redrove a task, the owner never hears both "done" and "I   *)
(* could not complete it" of it, whoever sends the closures: the settle, the    *)
(* tail or the reaper.                                                          *)
OneStory ==
    redrives = 0 => \A t \in Task : ~({"completed", "escalated"} \subseteq told[t])

(* Steps run in plan order: a step that has started has only done steps before  *)
(* it, so at most one step of a task is in flight (claim_next_step takes the    *)
(* lowest pending step_seq; revisions and retries put steps back).              *)
InOrder ==
    \A t \in Task : \A s \in StepSeq, u \in StepSeq :
        u < s /\ step[t][s] \notin {"none", "pending"} => step[t][u] = "done"

(* The tenant has at most one active task: create_plan and                      *)
(* promote_next_queued_task admit one at a time.                                *)
OneActive == \A t, u \in Active : t = u

(* ... as long as nobody redrove a task and no stall sweep struck one, whatever *)
(* the workflows write in between.                                              *)
OneActiveUnlessForced == redrives = 0 /\ sweeps = 0 => OneActive

(* Without crashes and strikes, an open approval always has somebody to act on  *)
(* the owner's yes: the workflow that armed it, or a task stamped with its run, *)
(* which a late yes redrives (_guarantee_campaign_consumer's reverse join).     *)
OpenApprovalHasConsumer ==
    crashes = 0 /\ sweeps = 0 =>
        \A t \in Task, d \in Dispatch : approval[t][d] = "pending" =>
            \/ row[t].stamp = d
            \/ loc[t].pc \in {"park", "waitApproval", "giveUp"} /\ D(t) = d

(* A task whose workflow has run to its end never keeps the tenant's slot       *)
(* 'blocked' with no retry to wake it (settle_unretryable_block).               *)
EndedBlockHasRetry ==
    \A t \in Task : At(t, "done") /\ row[t].status = "blocked" => row[t].retry # "none"

(* A completed or cancelled task keeps its status, except when a stall sweep    *)
(* strikes a candidate it read before the task was closed (every other write is *)
(* a compare-and-set on the status).                                            *)
ClosedStays ==
    [][\A t \in Task :
        row[t].status \in {"completed", "cancelled"} /\ row'[t].status # row[t].status
        => \E c \in scanned \ scanned' : c[1] = t]_vars

-------------------------------------------------------------------------------
(* What must eventually happen.                                                *)

(* A started workflow ends, whatever the owner does: every wait has a budget,   *)
(* every loop a limit (cycles, revisions, verification attempts).               *)
WorkflowEnds ==
    \A t \in Task : At(t, "claim") ~> loc[t].pc \in {"done", "error"}

(* Queued tasks do not starve behind a free slot: when the last active task has *)
(* terminated, one of them is promoted (the tail of manager_task_workflow).     *)
QueueMoves == (Queued # {} /\ Active = {}) ~> (Queued = {} \/ Active # {})

-------------------------------------------------------------------------------
(* What the repository says and the code does not do.                             *)

(* manager/workflow.py: "rejected/defer -> task 'cancelled' (a TRUE terminal    *)
(* status)". Read when the declined workflow goes on to tell the owner.         *)
RefusedIsCancelled ==
    \A t \in Task :
        At(t, "notify") /\ approval[t][D(t)] = "rejected" => row[t].status = "cancelled"

(* manager/queue_promotion.py: the oldest queued task is promoted "to 'planned' *)
(* so the loop picks it up next".                                               *)
PromotedIsRun ==
    \A t \in Task : row[t].status = "planned" ~> row[t].status # "planned"

(* orphan_reaper.py: a task 'waiting_owner' over an hour after its approval was *)
(* resolved "is, with certainty, a dead consumer". A task whose workflow waits  *)
(* for the answer to an open question has a live one.                           *)
LiveQuestionSurvives ==
    [][\A t \in Task :
        At(t, "waitAnswer") /\ question[t] = "open" /\ row[t].status = "waiting_owner"
        /\ loc'[t] = loc[t] => row'[t].status = "waiting_owner"]_vars

===============================================================================
