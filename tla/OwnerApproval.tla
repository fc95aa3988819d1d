----------------------------- MODULE OwnerApproval -----------------------------
(* The owner's approvals of one tenant: a campaign graph or an agent dispatch    *)
(* drafts work and arms an ask (arm-then-send), the decision clock runs out, the *)
(* owner's messages are resolved against the one open ask, a campaign reaction   *)
(* supersedes it, sweeps time it out, ask again and start what was approved.     *)
(*                                                                               *)
(* The pool is autocommit and one tenant's webhook runs are not serialized: an   *)
(* action is one statement, one transaction, or reads no write can make disagree.*)
EXTENDS Naturals

CONSTANTS
    Item,         \* agent dispatches: they draft batches of customer messages
    Campaign,     \* specialist runs: they draft campaigns
    Msg,          \* owner messages, each sent once
    Sweeper,      \* the coordinator's re-arm leg
    Nobody,
    MaxDrafts,    \* bound: drafts of one run, recoveries included
    MaxAsks,      \* bound: rows of pending_approvals
    MaxCrashes    \* bound: process deaths

Run == Item \cup Campaign
Armer == Run \cup {Sweeper}
Ask == 1 .. MaxAsks               \* in the order of requested_at
Batch == Item \X (1 .. MaxDrafts)
Work == Run \X (1 .. MaxDrafts)

ASSUME ApprovalConstants ==
    /\ Item \cap Campaign = {}
    /\ Sweeper \notin Run
    /\ Nobody \notin Work
    /\ MaxDrafts \in Nat /\ MaxAsks \in Nat /\ MaxCrashes \in Nat

VARIABLES
    \* pending_approvals
    asks,       \* rows inserted so far
    st,         \* none, open, approved, rejected, timeout, deleted
    of,         \* the work of a row
    clock,      \* timeout_at: none (NULL), running, due
    presented,  \* rows with presented_at set
    deferred,   \* rows with defer_count = 1
    \* drafts and their runs
    work,       \* none, awaiting, approved, edit, rejected, cancelled
    edited,     \* batches with edit_cycles = 1
    loop,       \* a campaign's approval poll: none, waiting, stopped, done
    acted,      \* batches whose send driver started, campaigns fanned out
    \* armers
    pc, tgt, row,
    \* owner messages
    mpc, at,
    armed, shown,   \* at receipt: rows inserted, rows presented
    \* the timeout sweep
    hand, leg,      \* the row it scanned, what it resolves next
    \* history
    timely,     \* work a message sent after its ask was armed said yes to
    crashes

rows == <<asks, st, of, clock, presented, deferred>>
drafts == <<work, edited, loop, acted>>
armers == <<pc, tgt, row>>
messages == <<mpc, at, armed, shown>>
sweep == <<hand, leg>>
vars == <<rows, drafts, armers, messages, sweep, timely, crashes>>

Init ==
    /\ asks = 0
    /\ st = [a \in Ask |-> "none"]
    /\ of = [a \in Ask |-> Nobody]
    /\ clock = [a \in Ask |-> "none"]
    /\ presented = {} /\ deferred = {}
    /\ work = [w \in Work |-> "none"]
    /\ edited = {}
    /\ loop = [c \in Campaign |-> "none"]
    /\ acted = {}
    /\ pc = [p \in Armer |-> "idle"]
    /\ tgt = [p \in Armer |-> Nobody]
    /\ row = [p \in Armer |-> 0]
    /\ mpc = [m \in Msg |-> "unsent"]
    /\ at = [m \in Msg |-> 0]
    /\ armed = [m \in Msg |-> 0]
    /\ shown = [m \in Msg |-> {}]
    /\ hand = 0 /\ leg = "idle"
    /\ timely = {}
    /\ crashes = 0

Open == {a \in Ask : st[a] = "open"}
AsksOf(r) == {a \in Ask : st[a] \notin {"none", "deleted"} /\ of[a][1] = r}

-------------------------------------------------------------------------------
(* Arming: arm_pause_request and its callers.                                   *)

Goto(p, l) == pc' = [pc EXCEPT ![p] = l]

Leave(p) ==
    /\ Goto(p, IF p = Sweeper THEN "idle" ELSE "done")
    /\ tgt' = [tgt EXCEPT ![p] = Nobody]
    /\ row' = [row EXCEPT ![p] = 0]

\* The body of a run persists a draft. It is not a step of its workflow: a recovery
\* runs it again under the same run id and persists another one.
Persist(r, n) ==
    /\ pc[r] = "idle"
    /\ work[<<r, n>>] = "none"
    /\ \A k \in 1 .. n - 1 : work[<<r, k>>] # "none"
    /\ work' = [work EXCEPT ![<<r, n>>] = "awaiting"]
    /\ tgt' = [tgt EXCEPT ![r] = <<r, n>>]
    /\ Goto(r, "arming")
    /\ UNCHANGED <<rows, edited, loop, acted, row, messages, sweep, timely, crashes>>

\* The probes of rearm_stranded_batch: nothing open, an awaiting batch not asked for.
Stranded_NeverAsked(w) ==                                         \* a mutant
    work[w] = "awaiting" /\ ~\E a \in Ask : of[a] = w
Stranded(w) ==
    work[w] = "awaiting" /\ ~\E a \in Open : of[a] = w

Rearm(w) ==
    /\ pc[Sweeper] = "idle"
    /\ Open = {}
    /\ Stranded(w)
    /\ tgt' = [tgt EXCEPT ![Sweeper] = w]
    /\ Goto(Sweeper, "arming")
    /\ UNCHANGED <<rows, drafts, row, messages, sweep, timely, crashes>>

\* Step 0: the run's open row means this is a re-execution. Step 0b: another run's
\* open row refuses the arm.
Probe(p) ==
    /\ pc[p] = "arming"
    /\ LET mine == {a \in Open : of[a][1] = tgt[p][1]}
       IN Goto(p, IF mine # {} THEN "armed" ELSE IF Open # {} THEN "refused" ELSE "checked")
    /\ UNCHANGED <<rows, drafts, tgt, row, messages, sweep, timely, crashes>>

\* The durable row comes before anything is sent; the unique index refuses a second
\* open row of the tenant.
Insert(p) ==
    /\ pc[p] = "checked" /\ Open = {} /\ asks < MaxAsks
    /\ asks' = asks + 1
    /\ st' = [st EXCEPT ![asks'] = "open"]
    /\ of' = [of EXCEPT ![asks'] = tgt[p]]
    /\ row' = [row EXCEPT ![p] = asks']
    /\ Goto(p, "asking")
    /\ UNCHANGED <<clock, presented, deferred, drafts, tgt, messages, sweep, timely, crashes>>

LoseRace(p) ==
    /\ pc[p] = "checked" /\ Open # {}
    /\ Goto(p, "refused")
    /\ UNCHANGED <<rows, drafts, tgt, row, messages, sweep, timely, crashes>>

\* The interactive ask, else the template. A call that raised may have reached him.
Send(p) ==
    /\ pc[p] = "asking"
    /\ \E l \in {"sent", "failing"} : Goto(p, l)
    /\ UNCHANGED <<rows, drafts, tgt, row, messages, sweep, timely, crashes>>

\* start_decision_clock, whose failure is swallowed.
StartClock(p) ==
    /\ pc[p] = "sent"
    /\ \/ /\ st[row[p]] = "open" /\ clock[row[p]] = "none"
          /\ clock' = [clock EXCEPT ![row[p]] = "running"]
          /\ presented' = presented \cup {row[p]}
       \/ UNCHANGED <<clock, presented>>
    /\ Goto(p, "armed")
    /\ UNCHANGED <<asks, st, of, deferred, drafts, tgt, row, messages, sweep, timely, crashes>>

\* _rollback_arm deletes the row by its id, whatever became of it meanwhile; the
\* delete itself may fail.
Rollback(p) ==
    /\ pc[p] = "failing"
    /\ st' \in {st, [st EXCEPT ![row[p]] = "deleted"]}
    /\ Goto(p, "refused")
    /\ UNCHANGED <<asks, of, clock, presented, deferred, drafts, tgt, row,
                   messages, sweep, timely, crashes>>

\* After a successful arm: the batch is put back to awaiting, or the loop polls.
Armed(p) ==
    /\ pc[p] = "armed"
    /\ work' = IF work[tgt[p]] = "edit" THEN [work EXCEPT ![tgt[p]] = "awaiting"] ELSE work
    /\ loop' = IF p \in Campaign /\ loop[p] = "none"
               THEN [loop EXCEPT ![p] = "waiting"] ELSE loop
    /\ Leave(p)
    /\ UNCHANGED <<rows, edited, acted, messages, sweep, timely, crashes>>

\* A refused dispatch cancels its batch, the sweep leaves it queued, a campaign's
\* graph just ends.
Refused(p) ==
    /\ pc[p] = "refused"
    /\ work' = IF p \in Item THEN [work EXCEPT ![tgt[p]] = "cancelled"] ELSE work
    /\ Leave(p)
    /\ UNCHANGED <<rows, edited, loop, acted, messages, sweep, timely, crashes>>

ArmerDies(p) ==
    /\ pc[p] \notin {"idle", "done"} /\ crashes < MaxCrashes
    /\ crashes' = crashes + 1
    /\ Goto(p, "idle")
    /\ tgt' = [tgt EXCEPT ![p] = Nobody]
    /\ row' = [row EXCEPT ![p] = 0]
    /\ UNCHANGED <<rows, drafts, messages, sweep, timely>>

ArmerStep(p) ==
    \/ Probe(p) \/ Insert(p) \/ LoseRace(p) \/ Send(p) \/ StartClock(p)
    \/ Rollback(p) \/ Armed(p) \/ Refused(p)

-------------------------------------------------------------------------------
(* Resolution: mark_approval_resolved and apply_agent_decision.                 *)

\* mark_resolved touches an unresolved row only.
Resolved(a, s) == IF st[a] = "open" THEN [st EXCEPT ![a] = s] ELSE st

\* What the verb makes of a batch; a second request for changes is a rejection.
Verdict(w, verb) ==
    CASE verb = "approved" -> "approved"
      [] verb = "rejected" \/ (verb = "changes" /\ w \in edited) -> "rejected"
      [] verb = "changes" /\ w \notin edited -> "edit"
      [] verb \in {"timeout", "defer"} -> "cancelled"

\* _RESOLVABLE_FROM; nothing persists a batch as 'drafting'.
IsResolvable_UnlessApproved(w) == w \in Batch /\ work[w] # "approved"   \* a mutant
IsResolvable(w) == w \in Batch /\ work[w] = "awaiting"

\* The batch follows the verb whether or not the row did.
Glue(w, verb) ==
    IF IsResolvable(w)
    THEN /\ work' = [work EXCEPT ![w] = Verdict(w, verb)]
         /\ edited' = IF Verdict(w, verb) = "edit" THEN edited \cup {w} ELSE edited
    ELSE UNCHANGED <<work, edited>>

-------------------------------------------------------------------------------
(* Owner messages: try_resume_pending_approval, then revise_pending_campaign.   *)

MGoto(m, l) == mpc' = [mpc EXCEPT ![m] = l]

\* The turn ends: nothing of its locals survives.
MDone(m) ==
    /\ MGoto(m, "done")
    /\ at' = [at EXCEPT ![m] = 0]
    /\ armed' = [armed EXCEPT ![m] = 0]
    /\ shown' = [shown EXCEPT ![m] = {}]

\* Not a decision: the message goes on, and its age no longer matters.
ToTriage(m) ==
    /\ MGoto(m, "triage")
    /\ at' = [at EXCEPT ![m] = 0]
    /\ armed' = [armed EXCEPT ![m] = 0]
    /\ shown' = [shown EXCEPT ![m] = {}]

Receive(m) ==
    /\ mpc[m] = "unsent"
    /\ MGoto(m, "looking")
    /\ armed' = [armed EXCEPT ![m] = asks]
    /\ shown' = [shown EXCEPT ![m] = presented]
    /\ UNCHANGED <<rows, drafts, armers, at, sweep, timely, crashes>>

\* A clear decision found an open row; without one it may wait for an arm.
Look(m) ==
    /\ mpc[m] = "looking"
    /\ \E a \in Open : at' = [at EXCEPT ![m] = a]
    /\ MGoto(m, "deciding")
    /\ UNCHANGED <<rows, drafts, armers, armed, shown, sweep, timely, crashes>>

PassThrough(m) ==
    /\ mpc[m] = "looking"
    /\ ToTriage(m)
    /\ UNCHANGED <<rows, drafts, armers, sweep, timely, crashes>>

\* _assert_decision_is_newer_than_the_ask: presented_at, else requested_at; a row that
\* is gone cannot be compared with.
NewerThan_Trusting(m, a) == st[a] # "deleted"                     \* a mutant
NewerThan(m, a) ==
    /\ st[a] # "deleted"
    /\ IF a \in presented THEN a \in shown[m] ELSE a <= armed[m]

RefuseStale(m) ==
    /\ mpc[m] = "deciding" /\ ~NewerThan(m, at[m])
    /\ ToTriage(m)
    /\ UNCHANGED <<rows, drafts, armers, sweep, timely, crashes>>

\* extend_on_defer on a row that is not open returns 0: nothing happens.
Defer(m) ==
    LET a == at[m] IN
    /\ mpc[m] = "deciding" /\ NewerThan(m, a)
    /\ IF st[a] = "open" /\ a \in deferred
       THEN /\ st' = Resolved(a, "rejected")
            /\ Glue(of[a], "defer")
            /\ UNCHANGED <<clock, deferred>>
       ELSE /\ clock' = IF st[a] = "open" THEN [clock EXCEPT ![a] = "running"] ELSE clock
            /\ deferred' = IF st[a] = "open" THEN deferred \cup {a} ELSE deferred
            /\ UNCHANGED <<st, work, edited>>
    /\ MDone(m)
    /\ UNCHANGED <<asks, of, presented, loop, acted, armers, sweep, timely, crashes>>

\* The yes took effect: on the batch, or on the row the campaign's loop polls.
Counts(w, a) == IF w \in Batch THEN IsResolvable(w) ELSE st[a] = "open"

Decide(m, verb) ==
    LET a == at[m]
        w == of[a] IN
    /\ mpc[m] = "deciding" /\ NewerThan(m, a)
    /\ st' = Resolved(a, IF verb = "changes" THEN "rejected" ELSE verb)
    /\ Glue(w, verb)
    /\ timely' = IF verb = "approved" /\ Counts(w, a) /\ a <= armed[m]
                 THEN timely \cup {w} ELSE timely
    /\ IF verb = "approved" /\ w \in Batch
       THEN MGoto(m, "starting") /\ UNCHANGED <<at, armed, shown>>
       ELSE MDone(m)
    /\ UNCHANGED <<asks, of, clock, presented, deferred, loop, acted, armers, sweep, crashes>>

\* start_l2_send_for_resolved_approval, after the commit.
StartDriver(m) ==
    /\ mpc[m] = "starting"
    /\ acted' = IF st[at[m]] # "deleted" /\ work[of[at[m]]] = "approved"
                THEN acted \cup {of[at[m]]} ELSE acted
    /\ MDone(m)
    /\ UNCHANGED <<rows, work, edited, loop, armers, sweep, timely, crashes>>

\* A campaign reaction revises the draft of the open campaign ask: its loop is
\* cancelled best-effort, then the ask is superseded. Anything else is left alone.
Revise(m) ==
    /\ mpc[m] = "triage"
    /\ \E a \in Open :
          LET r == of[a][1] IN
          /\ r \in Campaign
          /\ at' = [at EXCEPT ![m] = a]
          /\ loop' \in {loop, [loop EXCEPT ![r] = IF @ = "done" THEN @ ELSE "stopped"]}
    /\ MGoto(m, "superseding")
    /\ UNCHANGED <<rows, work, edited, acted, armers, armed, shown, sweep, timely, crashes>>

Supersede(m) ==
    /\ mpc[m] = "superseding"
    /\ st' = Resolved(at[m], "rejected")
    /\ MGoto(m, "superseded")
    /\ UNCHANGED <<asks, of, clock, presented, deferred, drafts, armers, at,
                   armed, shown, sweep, timely, crashes>>

OtherTurn(m) ==
    /\ mpc[m] = "triage"
    /\ MDone(m)
    /\ UNCHANGED <<rows, drafts, armers, sweep, timely, crashes>>

\* A recovered webhook run repeats the step it was in, from its start.
MessageDies(m) ==
    /\ mpc[m] \in {"deciding", "starting", "superseding"} /\ crashes < MaxCrashes
    /\ crashes' = crashes + 1
    /\ MGoto(m, IF mpc[m] = "superseding" THEN "triage" ELSE "looking")
    /\ at' = [at EXCEPT ![m] = 0]
    /\ UNCHANGED <<rows, drafts, armers, armed, shown, sweep, timely>>

MessageStep(m) ==
    \/ PassThrough(m) \/ RefuseStale(m) \/ Defer(m) \/ StartDriver(m)
    \/ \E verb \in {"approved", "rejected", "changes"} : Decide(m, verb)
    \/ Revise(m) \/ Supersede(m) \/ OtherTurn(m)

-------------------------------------------------------------------------------
(* Time and the sweeps.                                                         *)

\* Two days, and a day below: no arm of the row is still under way.
Rested(a) == \A p \in Armer : row[p] # a

Expire(a) ==
    /\ st[a] = "open" /\ clock[a] = "running" /\ Rested(a)
    /\ clock' = [clock EXCEPT ![a] = "due"]
    /\ UNCHANGED <<asks, st, of, presented, deferred, drafts, armers, messages, sweep,
                   timely, crashes>>

\* The NULL-clock belt.
Orphaned_Never(a) == FALSE                                        \* a mutant
Orphaned(a) == clock[a] = "none" /\ Rested(a)

Belt(a) ==
    /\ st[a] = "open" /\ Orphaned(a)
    /\ clock' = [clock EXCEPT ![a] = "due"]
    /\ UNCHANGED <<asks, st, of, presented, deferred, drafts, armers, messages, sweep,
                   timely, crashes>>

\* The timeout sweep scans, resolves the row and flips the batch in three commits.
Scan(a) ==
    /\ leg = "idle"
    /\ st[a] = "open" /\ clock[a] = "due"
    /\ hand' = a /\ leg' = "row"
    /\ UNCHANGED <<rows, drafts, armers, messages, timely, crashes>>

TimeOut ==
    /\ leg = "row"
    /\ st' = Resolved(hand, "timeout")
    /\ leg' = "batch"
    /\ UNCHANGED <<asks, of, clock, presented, deferred, drafts, armers, messages, hand,
                   timely, crashes>>

TimeOutBatch ==
    /\ leg = "batch"
    /\ IF st[hand] = "deleted" THEN UNCHANGED <<work, edited>> ELSE Glue(of[hand], "timeout")
    /\ hand' = 0 /\ leg' = "idle"
    /\ UNCHANGED <<rows, loop, acted, armers, messages, timely, crashes>>

SweepDies ==
    /\ leg # "idle" /\ crashes < MaxCrashes
    /\ crashes' = crashes + 1
    /\ hand' = 0 /\ leg' = "idle"
    /\ UNCHANGED <<rows, drafts, armers, messages, timely>>

\* The reconciler starts the driver of a batch that stayed approved.
Unstarted_InHand(w) ==                                            \* a mutant
    work[w] = "approved" /\ \E m \in Msg : mpc[m] = "starting" /\ of[at[m]] = w
Unstarted(w) == work[w] = "approved"

Reconcile(w) ==
    /\ Unstarted(w) /\ w \notin acted
    /\ acted' = acted \cup {w}
    /\ UNCHANGED <<rows, work, edited, loop, armers, messages, sweep, timely, crashes>>

\* A campaign's loop reads status, decision and campaign of "the" row of its run; a
\* recovered run has two. The execution step reads the decision again.
MayExecute_AnyRow(a) == TRUE                                      \* a mutant
MayExecute(a) == st[a] = "approved"

Poll(c) ==
    /\ loop[c] = "waiting"
    /\ AsksOf(c) = {} \/ \E a \in AsksOf(c) : st[a] # "open"
    /\ \/ \E a, b \in AsksOf(c) :
             /\ st[a] = "approved"
             /\ acted' = IF MayExecute(b) THEN acted \cup {of[b]} ELSE acted
       \/ /\ AsksOf(c) = {} \/ \E a \in AsksOf(c) : st[a] # "approved"
          /\ UNCHANGED acted
    /\ loop' = [loop EXCEPT ![c] = "done"]
    /\ UNCHANGED <<rows, work, edited, armers, messages, sweep, timely, crashes>>

-------------------------------------------------------------------------------
Next ==
    \/ \E r \in Run, n \in 1 .. MaxDrafts : Persist(r, n)
    \/ \E w \in Batch : Rearm(w) \/ Reconcile(w)
    \/ \E p \in Armer : ArmerStep(p) \/ ArmerDies(p)
    \/ \E m \in Msg : Receive(m) \/ Look(m) \/ MessageStep(m) \/ MessageDies(m)
    \/ \E a \in Ask : Expire(a) \/ Belt(a) \/ Scan(a)
    \/ TimeOut \/ TimeOutBatch \/ SweepDies
    \/ \E c \in Campaign : Poll(c)

Spec == Init /\ [][Next]_vars

\* Processes go on, DBOS recovers them, time passes and the sweeps run on their cron.
\* Nothing is assumed of the owner, and no run is obliged to draft anything.
Fairness ==
    /\ \A p \in Armer : WF_vars(ArmerStep(p))
    /\ \A m \in Msg : WF_vars(MessageStep(m))
    /\ \A a \in Ask : WF_vars(Expire(a)) /\ WF_vars(Belt(a)) /\ WF_vars(Scan(a))
    /\ WF_vars(TimeOut \/ TimeOutBatch)
    /\ WF_vars(\E w \in Batch : Rearm(w))
    /\ \A w \in Batch : WF_vars(Reconcile(w))

FairSpec == Spec /\ Fairness

-------------------------------------------------------------------------------
(* Properties.                                                                  *)

Pc == {"idle", "arming", "checked", "asking", "sent", "failing", "armed", "refused", "done"}
MPc == {"unsent", "looking", "deciding", "starting", "triage", "superseding",
        "superseded", "done"}

Status == {"none", "open", "approved", "rejected", "timeout", "deleted"}
BatchStatus == {"none", "awaiting", "approved", "edit", "rejected", "cancelled"}

RowTypes ==
    /\ asks \in 0 .. MaxAsks
    /\ st \in [Ask -> Status]
    /\ of \in [Ask -> Work \cup {Nobody}]
    /\ clock \in [Ask -> {"none", "running", "due"}]
    /\ presented \subseteq Ask /\ deferred \subseteq Ask

DraftTypes ==
    /\ work \in [Work -> BatchStatus]
    /\ edited \subseteq Batch
    /\ loop \in [Campaign -> {"none", "waiting", "stopped", "done"}]
    /\ acted \subseteq Work
    /\ timely \subseteq Work

ArmerTypes ==
    /\ pc \in [Armer -> Pc]
    /\ tgt \in [Armer -> Work \cup {Nobody}]
    /\ row \in [Armer -> 0 .. MaxAsks]

OtherTypes ==
    /\ mpc \in [Msg -> MPc]
    /\ at \in [Msg -> 0 .. MaxAsks]
    /\ armed \in [Msg -> 0 .. MaxAsks]
    /\ shown \in [Msg -> SUBSET Ask]
    /\ hand \in 0 .. MaxAsks /\ leg \in {"idle", "row", "batch"}
    /\ crashes \in 0 .. MaxCrashes

\* The types of every variable.
TypeOK == RowTypes /\ DraftTypes /\ ArmerTypes /\ OtherTypes

\* No message customers receive rests on a yes the owner gave before he was asked for
\* that very work: a repeated step, or a message that waited for an arm, may meet an
\* ask that did not exist when it was sent (approval_resume.py:448).
ConsentIsTimely ==
    acted \subseteq timely

\* Whatever was set going got a yes and no earlier no: abstractly, word and deed.
BatchWord(w) ==
    CASE work[w] \in {"none", "awaiting", "edit"} -> "open"
      [] work[w] = "approved" -> "yes"
      [] work[w] \in {"rejected", "cancelled"} -> "no"

CampaignWord(w) ==
    IF \E a \in Ask : of[a] = w /\ st[a] = "approved" THEN "yes"
    ELSE IF \E a \in Ask : of[a] = w /\ st[a] \notin {"none", "open"} THEN "no"
    ELSE "open"

Word == [w \in Work |-> IF w \in Batch THEN BatchWord(w) ELSE CampaignWord(w)]

Consent == INSTANCE CustomerConsent WITH word <- Word

\* The detailed machinery implements the promise made to the owner.
ConsentKept == Consent!Spec

\* A decided row keeps its decision, or is rolled back with its arm: of two messages
\* and a sweep that all read it open, the first commit decides.
DecisionStands ==
    [][\A a \in Ask : st[a] \in {"approved", "rejected", "timeout"}
                         => st'[a] \in {st[a], "deleted"}]_vars

\* An ask never holds the tenant's only slot for ever, whatever crashed under it.
EveryAskEnds == \A a \in Ask : st[a] = "open" ~> st[a] # "open"

\* A batch whose arm was lost, refused to a sweep or timed out half-way is asked for
\* again, as long as rows are left.
NoBatchForgotten ==
    \A w \in Batch : work[w] = "awaiting" ~> (work[w] # "awaiting" \/ asks = MaxAsks)

\* An approved batch gets its send driver, also when the process that committed the
\* approval died before it started one.
YesIsActedOn ==
    \A w \in Batch : work[w] = "approved" ~> (w \in acted \/ work[w] = "cancelled")

\* A timed-out ask sends nothing: "Timeout sweep / exhausted defer: no send, batch
\* cancelled" (agents/approval_glue.py:457).
TimedOutSendsNothing ==
    [][\A a \in Ask : st[a] = "timeout" /\ of[a] \notin acted => of[a] \notin acted']_vars

\* A superseded draft is never sent: "the OLD draft can NEVER send"
\* (manager/triage_seam.py:351).
SupersededIsNeverSent ==
    [][\A m \in Msg : mpc[m] = "superseded" /\ of[at[m]] \notin acted
                         => of[at[m]] \notin acted']_vars

\* A defer pushes the window out: "EXTENDED on a defer (the run STAYS paused, the
\* window pushed out 48h)" (agent/approval_resume.py:424).
DeferExtends ==
    [][\A a \in deferred : st[a] = "open" /\ clock[a] = "running" => st'[a] # "timeout"]_vars

===============================================================================
