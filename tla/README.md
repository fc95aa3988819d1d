# A TLA+ model of the viabe Team Manager

viabe-team runs a "team" of LLM specialists for small businesses over WhatsApp.
Its core is `apps/team-orchestrator/src/orchestrator/`: Python, DBOS durable
workflows, a LangGraph supervisor and Postgres. What the LLMs say is not the
subject here. The subject is the coordination around them: durable tasks, owner
approvals, retries, sweeps and operators, all writing the same rows from several
processes. An error there sends a campaign the owner refused, sends one twice,
or leaves a tenant without service while every test passes.

Paths below are relative to the orchestrator package unless they start at the
repository's root.

## 1. Inventory

| Component | State | Operations | Interacts with |
|---|---|---|---|
| Task loop (`manager/workflow.py`, `review.py`, `decision.py`) | the workflow's locals (cycles, revision counts, attempts, pre-pause status), DBOS checkpoints | claim, validate, dispatch and review, revise, wait for an answer or an approval, execute, verify, settle, notify, promote | every row below |
| Task and plan store (`manager/task_store.py`, `plan_store.py`) | `manager_tasks`, `manager_task_steps` | create_plan, claim/complete/append/replace a step, compare-and-set of a status, park, settle, redrive | called by the loop, the reaper, the seam, the operators |
| Queue promotion (`manager/queue_promotion.py`) | queued tasks of a tenant | promote the oldest when no task is active | the tail of the loop |
| Stall reaper (`orphan_reaper.py`, `manager/task_retry.py`) | attempt, next_retry_at | retry ladder, wake, close approvals of dead tasks, orphaned-approval sweep | cron, at boot; races the loop |
| Owner approvals (`agent/approval_resume.py`, `agent/tools/request_owner_approval.py`) | `pending_approvals` (one open per tenant, migration 128) | arm then send, resolve, defer, time out, redrive a dead consumer | the loop's poll; the owner's replies |
| Owner questions (`manager/pending_questions.py`, `owner_ask.py`) | `pending_questions` | ask, deliver, correlate a reply, re-engage | the loop's poll |
| Terminal closure (`owner_surface/task_outcome.py`) | owner_notification_status, send idempotency keys | notify once per task and outcome | loop, reaper, owner queue |
| Triage seam (`manager/triage_seam.py`) | - | admit a task, start its workflow, revise a pending campaign | webhook |
| Campaign fan-out (`campaign/execute.py`) | `campaigns.status`, `send_idempotency_keys`, campaign messages | send to each recipient behind consent, complaint and frequency gates; advance; operator kill | loop, legacy graph |
| Customer-send rails (`agents/customer_send.py`, `l3_hold.py`, `l2_send.py`, `autonomy.py`, `approval_glue.py`) | `agent_draft_batches`, `agent_drafts`, `tenant_agent_autonomy` | persist, hold, anchor, send, demote, finalise, grant, kill by keyword, revoke | approvals, callbacks, sweeps |
| Owner queue (`owner_surface/owner_comms_queue.py`, `owner_comms_drainer.py`) | `owner_comms_queue` | enqueue, drain one at a time, mark, drop, expire | arms, closures, the onboarding push |
| Billing (`api/razorpay_ingress.py`, `api/razorpay_subscribe.py`, `billing/trial_sweep.py`, `transitions.py`, `invariants.py`) | `tenants.phase`, `phase_transitions`, the Razorpay inbox and dead letters, `subscriptions`, spent tokens | book an event, flip the phase, subscribe, replay, expire a trial | Razorpay, the daily sweep |
| Run control (`run_control/`, `api/ops_run_control.py`) | pauses, rerun lineage | pause, rerun, kill a campaign, redrive a task | everything an operator may touch |
| Scheduled triggers (`scheduled_triggers.py`) | - | timeout sweep, re-arm belt, L2 reconciler, queue sweep | the rows of the components above |
| Onboarding (`onboarding/journey.py`, `whatsapp_journey.py`) | `onboarding_journey` | turns of an LLM dialogue, pushes of what discovery found | owner queue |
| Runner, supervisor, collapse (`runner.py`, `supervisor.py`, `collapse.py`) | LangGraph checkpoints | webhook ingress, graph nodes | LLMs |
| Knowledge, integrations, observability, LLM budget, privacy | indexes, ledgers | - | - |
| `apps/team-web`, `apps/team-ingestion-worker`, `migrations/` | - | dashboard, stub, schema | - |

What makes it hard:

* **No big transaction.** The pool is autocommit (`graph.py:129`): each statement
  commits on its own unless the code opens `conn.transaction()`. A review writes
  the step and then the task; the reaper reads candidates and then updates them.
* **Replay.** DBOS runs a step at least once. A crash between a step's commit and
  its checkpoint runs it again on the rows it has already changed.
* **Many writers of one row.** The workflow, the reaper, the approval's
  resolution, an operator and a promotion all set `manager_tasks.status`; most by
  compare-and-set, the reaper's ladder by id alone.
* **Waits of days.** A workflow polls for up to seven days; what it read before
  the wait (the status to restore, the run it stamped) is used after it.
* **One slot.** A tenant has one active task; a block nobody settles wedges it.

What makes each component correct is listed with the properties in section 3 and,
as hazards with their lines, in `PROJECT.json`.

## 2. Modules

| Module | Subject | Theorems in |
|---|---|---|
| `ManagerTask` | the durable task loop of one tenant and everybody who writes its rows | `ManagerTaskProofs`, `ManagerTaskSafetyProofs`, `ManagerTaskStoryProofs` |
| `CampaignFanout` | the campaigns of one tenant and the processes that execute them | `CampaignFanoutProofs` |
| `OwnerApproval` | the tenant's approval rows: arm, ask, decide, defer, revise, time out, ask again | `OwnerApprovalProofs` |
| `CustomerBatch` | an agent's draft batches: hold, two send drivers, stops | `CustomerBatchProofs` |
| `BillingPhase` | one tenant's Razorpay events, subscription and phase | `BillingPhaseProofs` |
| `OwnerComms` | what the owner is told outside an answer, and the queue it waits in | `OwnerCommsProofs` |
| `EffectOnce` | abstract: the effect of a key happens once, unless an answer was lost | - |
| `CustomerConsent` | abstract: work goes out only while the owner's last word on it is yes | - |

`MCManagerTask`, `MCCampaignFanout`, `MCOwnerApproval`, `MCCustomerBatch`,
`MCBillingPhase` and `MCOwnerComms` are the instances TLC checks.

`EffectOnce` is implemented three times: by the fan-out and its ledger, by the
batch drivers and theirs, and by the Razorpay inbox (`blurred` empty there: fees
have no excuse). `CustomerConsent` is implemented by `OwnerApproval`.

The components meet where their rows do:

* `Execute` of `ManagerTask` is a run of the fan-out, whose outcome there is
  "advanced" or not. `Start` of `CampaignFanout` is that step, replayed or not, or
  the legacy graph's node, which has no status guard.
* `GateArms`, `Resolve` and the poll of `ManagerTask` are `OwnerApproval`'s arm,
  decision and `Poll`. What `ManagerTask` takes as one action (ask and answer),
  `OwnerApproval` splits into statements; it knows the work only by its status.
* A batch whose word is yes is `Approve` of `CustomerBatch`, and `acted` of
  `OwnerApproval` is its `StartL2`. How the owner is asked is the one's, what is
  sent the other's.
* The arm of `OwnerComms` is `OwnerApproval`'s with the queue row it keeps, and its
  settle is `ManagerTask`'s closure with the deferral it leaves.

### State

* **`ManagerTask`**: `row` is `manager_tasks`, `step` and `gen` are
  `manager_task_steps` (a replaced step gets a new generation: its step_id),
  `approval[t][d]` the approval row of dispatch `d`, `question` the clarification
  question, `sent` the CAMPAIGN_SENT events, `told` the closures the owner received,
  `loc` the locals and program counter of the task's workflow, `scanned`, `struck`,
  `holders` the locals of a running sweep.
* **`CampaignFanout`**: `status` is `campaigns.status`, `ledger` the
  `send_idempotency_keys` row of a (campaign, customer) pair, `old` the pairs whose
  `created_at` is past the day and the interval, `refused` the customers opted out or
  complaining, `withdrawn` `tenants.opt_out`; `pc`, `camp`, `todo`, `snap`, `cur` the
  locals of a process in `execute_approved_campaign` (`snap`: the flags it loaded).
  `delivered`, `heard`, `late`, `blurred`, `killed`, `warned` record what happened to
  customers.
* **`OwnerApproval`**: a row of `pending_approvals` is a number in the order of
  `requested_at`; `st`, `of`, `clock`, `presented`, `deferred` are its columns. `work`
  is the status of a batch (or that a campaign was drafted), `loop` the poll of a
  campaign's workflow, `acted` what was set going. `pc`, `tgt`, `row` are the locals of
  those who arm, `mpc`, `at` those of an owner's message, `armed` and `shown` what was
  asked when it was received, `hand` and `leg` the timeout sweep's.
* **`CustomerBatch`**: `bst`, `dst`, `ledger` are the statuses of batch, draft and
  marker, `anchor` the hold's notice and window, `trusted` the agent's autonomy (L3 and
  not frozen), `lock` the row lock of a batch; `arm` the executor's place, `pc`, `todo`,
  `cur` a driver's, `stop` a stop's open transaction. `delivered`, `blurred`, `after`
  record messages.
* **`BillingPhase`**: `phase`, `log`, `row`, `dead`, `counted`, `failures`, `bound`,
  `spent` are rows, `made` what the vendor has, `hand` an open subscribe transaction,
  `pc`, `read`, `stamp` a transition between its read and its commit, `clock` the order
  of stamps, `linked` whether the owner was told that the trial is over.
* **`OwnerComms`**: `status` and `about` are the queue, `approval` and `clock` the ask's
  row, `notice` and `key` the task's status and its send key, `journey` and `word` the
  onboarding's; `arm`, `item`, `settle`, `pc`, `hold` the places of an arm, a settle (one
  per task and settler: the end of the workflow, the reaper) and a drain; `word[p]` is also
  the place of a push until its row is queued. `told` counts how often the owner got the
  words, `blurred` is the news two processes had in hand at once, or one told and died
  before it could say so, `met` the tasks that both settlers had in hand at once.

### How actions correspond to code

The pool is autocommit: an action is one statement, one transaction, or several reads
no write can make disagree. In `ManagerTask` it is one DBOS step of
`manager_task_workflow`, together with the control flow up to the next step, or one
transaction (or autocommitted statement) of another actor.

**ManagerTask**

* *Replay.* `Go(t, l)` either moves the workflow to local state `l` or crashes and
  leaves it where it was, to run the same step again. A step of two commits
  (`StepThenTask`, `AppendRetryStep`) may also crash between them. The graph's
  dispatch is one DBOS step with two observable parts, the review and the approval
  gate, so a crash at the gate goes back to the dispatch (`GoElse`).
* *The LLMs.* What the specialist returns, what validation and verification
  decide, whether a send succeeds: choices among the outcomes the code tells apart.
  A dispatch may also raise (`DispatchRaises`), which ends the workflow in ERROR
  with no tail.
* *Claims.* `claim_next_step` raises for a pending step of a task that is neither
  planned nor running (`ClaimRejected`).
* *Approvals.* `GateArms` keeps this run's own open row and otherwise inserts one
  only when the tenant has none; a failed send deletes the row again, which is
  `GateRefused`. `Resolve` is `mark_approval_resolved` with every decision the loop
  routes on. An exhausted 'defer' is routed as 'rejected' and is that choice here.
* *Time.* `AnHourPasses` sets who has been untouched for an hour (`aged`) and
  whose approval was resolved over an hour ago (`late`); a write takes a task out
  of `aged` as `updated_at` does. `RetryFallsDue` is the backoff. The last poll of
  the budget (`PollsSpent`) may come at any time, and the block after it is a step
  of its own (`GiveUp`).
* *The sweep* is split into its statements: scan, one strike per candidate, wake,
  close, orphans, notices. It may die between any two (`ReaperDies`). `ReaperCloses`
  merges the arm of a closure and the close of the approval, two autocommitted
  statements with no reader between them whose answer differs.

**CampaignFanout**

* *Entry and loop.* `GatePasses` reads the tenant and loads the recipients with
  their flags; `Entry`, `Skip`, `TakeUp` and `KillStops` read the status first, each
  time afresh, and an unreadable status counts as not cancelled. `Advance` is
  `set_status`, unconditional, and `AdvanceFails` the exception the code swallows.
* *Tool.* `Clears` is the checks together (ledger, consent, complaint, interval),
  `Claims` the conditional upsert of the marker, `Delivers`, `DeliversAndRaises` and
  `Rejected` the call, `WritesLedger` the flip with the optional message row after it.
  `Declines` merges every reason to answer without sending and may always be taken,
  as the opt-in, the rate limit and a database error always may.
* *Ageing.* The code's own argument for the sweep is that a fan-out has no pacing,
  so `TwoHoursPass` and `DaysPass` happen between executions. The ledger's day and
  the contact interval elapse together, as in the tier whose interval is 24 hours.
* *The sweep* never changes a row: it asks for 'approved' and only 'proposed',
  'sent' and 'cancelled' are ever written.

**OwnerApproval**

* *Arming.* `Persist` is the body of a run: it is no step of its workflow, so a recovery
  runs it again and persists another draft. `Probe`, `Insert`, `LoseRace`, `Send`,
  `StartClock`, `Rollback` are `arm_pause_request` (`request_owner_approval.py`), `Armed`
  and `Refused` its callers. The re-arm belt of the coordinator is the armer `Sweeper`.
  A call that raised may have reached the owner, and a rollback deletes its row by id,
  whatever became of it meanwhile.
* *Deciding.* A message remembers what was asked when it was received (`Receive`),
  finds the open row (`Look`), is refused when it is older than the ask
  (`NewerThan`: `presented_at`, else `requested_at`) and decides in one transaction
  (`Decide`, `Defer`). `Glue` moves the batch whether or not the row moved, as the code
  does. `StartDriver` comes after the commit.
* *Revision.* `Revise` reads the open campaign ask and cancels its workflow best-effort;
  `Supersede` resolves the row if it is still open, and nobody looks whether it was.
* *Sweeps.* `Scan`, `TimeOut`, `TimeOutBatch` are three commits; `Belt` is the rule for a
  row whose clock never started; `Reconcile` starts the driver of a batch that stayed
  approved. An arm takes seconds, so windows of days pass only when it is over (`Rested`).

**CustomerBatch**

* *Executor.* `Persist`, `Eligible` (the level is read in a transaction of its own),
  `Notify`, `Flip` (a compare-and-set), `StartHold`, else `AskArmed` or `AskRefused`, which
  cancels the batch whatever became of it.
* *Hold.* `Anchor` is the delivery callback, `WindowPasses` and `GracePasses` the two clocks,
  `Poll` the three answers of `_hold_state_body`, `DemoteStep` and `Inbound` the demotion.
* *Drivers.* `Enumerate`, `Ineligible` (Gate 0 refuses a draft for good, before the
  state of the batch is looked at), `PassOver` and `Begin` (the gates after it), `Lock`
  (at L3 the batch is read again under its row lock and stays locked during the call),
  `Skip`, and the tool's `Decline`, `Echo`, `Claim`, `Deliver`, `Fail`, `Record`,
  `RecordFails`, then `Mark` and `Finalize`: one transaction at L3, two at L2. `Record`
  has two outcomes: if the message row raises after the ledger says 'sent', the tool
  answers with an error and the draft is not marked. A driver that dies (`DriverDies`)
  runs from its start; one whose step raises (`DriverRaises`) ends in ERROR for good, as
  no step has retries and a start of a known id does nothing. Either way an open
  transaction is rolled back, though not the marker, which is committed on a connection
  of its own.
* *Stops.* `StopBegins` and `StopCommits` are one transaction that locks what its statement
  sees; `CancelBatch`, `Reject`, `Edit` are the single ones. A regression at L3 revokes.

**BillingPhase**

* *Events* are booked in one transaction each, deduplicated by event id. `Drop` is a
  charge whose amount does not parse (kept in the dead-letter queue and acknowledged),
  `ChargeArrives` also its correction or an operator's replay, `Ignored` an event for a
  subscription the database does not know.
* *Transitions* (`apply_transition`) are three steps anybody may come between:
  `ReadPhase`, `Resolve` (the table, the gate of an unverified business, the stamp),
  `Commit` (`check_invariants` in the transaction, the log row and the phase). For an event
  they run after its commit and nobody tries again; for the sweep they run every day.
* *Subscribing* is `SubscriptionExists`, or `CreateAtVendor` and `Bind` under the advisory
  lock; `BindFails` rolls back all of it except what the vendor made. The vendor may
  or may not honour the idempotency key.
* *The sweep*: `Evaluate`, the three steps, `Tell`.

**OwnerComms**

* *The arm*: row, queue row, ask, clock, mark.
* *The settle*: key, freeform send, and then either key and status, or a deferral when the
  session is closed: `NotifyDefers` looks whether a row is queued, `NotifyQueues` inserts
  one. Two callers may be in it at once; a death of the workflow's is followed by a replay
  of its step, the reaper does not find the task again.
* *The push*: `PushChecks` reads that the journey is active and no push is queued, then
  either `PushQuestion` queues the question, or `PushCompletes` commits the end of the
  journey and `PushRecap` queues the recap; `PushEnds` is a run that queues nothing.
* *A drain* is `Pick` (the highest rank, then the oldest), `Inspect`, `Send`, `Mark`, `Flip`;
  the hook of a turn runs it once, the ten-minute sweep again and again. Nothing locks the
  row between `Pick` and `Mark`.
* *The sweep's other legs*: `DropStale` (`MAX_QUEUE_AGE`), `Belt` (an approval a day old with
  no clock is due at once).
* *Idleness.* The sweep drains only a session that has been idle; a session that stays
  open falls idle between two ticks, so the gate is left out.

**Bounds**, all of them CONSTANTS: `MaxPlan`, `MaxSteps` (8 in the code), `MaxCycles`
(6), `MaxRevisions` (2), `MaxVerify` (1) and `MaxAttempts` (5) are the code's own
limits, made small; `MaxCrashes`, `MaxRedrives`, `MaxSweeps` bound the environment. In
`CampaignFanout`, `MaxRuns` bounds the executions of a campaign and `MaxDays` how
often the interval elapses; `StatusReadsFail` and `CallsBlur` switch two faults. In
`CustomerBatch`, `IdleStops` switches the stops that find nothing open: they take no lock
and close nothing, so that but for `KillSilences` (section 3) no property sees them. In
`OwnerApproval`, `MaxDrafts` bounds the drafts of a run and `MaxAsks` the rows; in
`OwnerComms`, `MaxNews` who has news and `MaxRows` the queue; `MaxCrashes` and `MaxFaults` the
deaths and failed statements, a workflow that ends in ERROR among them. `Threshold` (3
in the code) is a constant of `BillingPhase`. The messages of the owner, the turns,
the events and the tokens are finite sets, each used once, as each is one delivery or
one request in the code.

## 3. Runs

| Run | Instance | Properties | States |
|---|---|---|---|
| `loop` | 1 task, plan up to 2, 3 steps, 3 dispatches, 1 revision, 1 retry, 2 attempts, 1 redrive, 2 sweeps | TypeOK, NoSuccessAfterRefusal, OneStory, InOrder, EndedBlockHasRetry, ClosedStays | 2.5M |
| `crash` | 1 task, 2 steps, 2 dispatches, no revision, 1 retry, 2 crashes, 1 sweep, fair | SendOnlyIfApproved, AtMostOneCampaignSent, WorkflowEnds | 694k |
| `queue` | 2 tasks, 2 steps, 1 dispatch, fair | OneActiveUnlessForced, OpenApprovalHasConsumer, QueueMoves | 298k |
| `fanout` | 1 campaign armed on a graph run, 2 customers, 2 processes, 2 executions, 1 day, both faults | OncePerPair, RefusalHonoured, PromiseKept | 1.1M |
| `kill` | 1 campaign, 2 customers, 1 process, 3 executions, lost answers | KillLeavesOne, SentIsFinal | 431k |
| `interval` | 2 campaigns, 1 customer, 1 process, 2 executions, 1 day, lost answers | OncePerInterval | 2.1M |
| `consent` | 1 dispatch, 1 message, the re-arm belt, 2 rows, 1 crash, fair | ConsentIsTimely, ConsentKept, EveryAskEnds, NoBatchForgotten, YesIsActedOn | 96k |
| `revised` | 1 campaign run, 2 drafts, 2 messages, 2 rows, 1 crash | ConsentKept | 135k |
| `batch` | 1 batch of 2 drafts, both drivers, 1 crash or error, fair | StopLeavesOne, SentIsTrue, SentIsWhole, PromiseKept, NothingOverObjection, SilenceIsInformed, EveryHoldEnds | 619k |
| `billing` | 1 event of each type, 2 tokens, 2 subscriptions, the sweep, 1 fault, fair | OneSubscription, MirrorIsLatest, LinkIsTrue, FeesOnce, CancelledStands, TrialsEnd | 817k |
| `at_risk` | 3 failures, threshold 3; a violation is expected | ThirdFailureBites | 3k |
| `comms` | 2 of an ask, the two settlers of a task and a push, 1 turn, the sweep, 3 rows, 1 fault, fair | ToldOnce, OneDeferral, EveryItemEnds | 1.3M |

Properties of the task loop:

* `SendOnlyIfApproved`: a campaign goes out only for an approval row that says
  'approved'. It relates the effect to a row other actors resolve.
* `AtMostOneCampaignSent`: replays advance a campaign to 'sent' once.
* `NoSuccessAfterRefusal`: without crashes, the owner never hears "done" about a
  task in which an approval was refused or ran out.
* `OneStory`: unless somebody redrove the task, the owner never hears both "done"
  and "I could not complete it".
* `InOrder`: without crashes, a step that has started has only done steps before
  it, through revisions, answers and verification retries.
* `OneActiveUnlessForced`: one active task per tenant until a redrive or a strike.
* `OpenApprovalHasConsumer`: an open approval has a waiting workflow or a stamped
  task a late yes can redrive.
* `EndedBlockHasRetry`: no finished workflow leaves the slot blocked for good.
* `ClosedStays` (action property): a completed or cancelled task changes only by
  the strike of a sweep that read it before it was closed.
* `WorkflowEnds`, `QueueMoves` (liveness); `TypeOK` with the budgets' bounds.

Of the fan-out:

* `OncePerPair`, `PromiseKept`: whatever crashes, replays and parallel executions
  do, a recipient of a campaign hears twice only after a message whose answer was
  lost. The second is the refinement of `EffectOnce`.
* `RefusalHonoured`: the loop's flags may be stale; nobody who had refused when the
  loop reached them gets a call, because the tool reads the row again.
* `KillLeavesOne`: after a kill at most one more message leaves, over replays too.
  It needs one process and readable statuses, hence its own run: two processes may
  each have a recipient in hand, and a failed read counts as not cancelled.
* `SentIsFinal` (action property): a replay after the advance contacts nobody,
  although 'error' rows invite a retry. Also for one process and no graph run: a
  second execution already inside the loop, or the graph's node, is not held.
* `OncePerInterval`: two campaigns contact a customer twice in an interval only
  around a row in flight, a lost answer, or a row created before the interval. For
  one process: two processes may both read the ledger before either writes.

Of the approvals:

* `ConsentIsTimely`: nothing customers receive rests on a yes the owner gave before he
  was asked for that work, over repeated steps and messages that waited for an arm.
* `ConsentKept`: the refinement of `CustomerConsent`. Rows, batches and the loop are
  written by six actors; abstractly there is one word per piece of work, no is never
  taken back, and only a yes acts. `revised` checks it for campaigns and revisions.
* `EveryAskEnds`: an ask never holds the tenant's only slot for ever, whoever died
  after its insert. `NoBatchForgotten`: a batch whose arm was lost is asked for again.
  `YesIsActedOn`: an approved batch gets its driver although its starter died.

Of the batches:

* `PromiseKept`: a draft is delivered once, by whichever driver, across rolled back
  transactions and the demotion from one driver to the other.
* `NothingOverObjection`: a message of a hold leaves only while the batch is on hold.
  `SilenceIsInformed`: and only after the notice was delivered and the window passed.
* `StopLeavesOne`: after a batch is closed at most the message in hand leaves, and only
  if the owner had approved the batch.
* `SentIsTrue`, `SentIsWhole`: a draft says 'sent' only if its message was delivered
  or an attempt died unseen, a batch only if no draft of it can still be sent.
* `EveryHoldEnds`: a hold that was started sends, is handed to the owner, or its workflow
  ended in ERROR.

Of billing:

* `FeesOnce`: the inbox implements `EffectOnce`, over drops, corrections, replays and
  duplicates. (`QueueIsTrue`, that the dead-letter queue is exactly the dropped charges,
  is a theorem and has no run.)
* `OneSubscription`: two attempts never leave two bound subscriptions.
* `MirrorIsLatest`: the phase is the one of the transition with the latest stamp,
  although transactions commit in another order than they were stamped.
* `LinkIsTrue`: no tenant in trial was told that the trial is over.
* `CancelledStands`: a cancelled tenant comes back only by a transition that had read
  the phase before and was stamped after every committed one.
* `TrialsEnd`: every trial ends, whatever fails on the way.

Of the owner's news:

* `ToldOnce`: the owner hears the same news twice only around an overlap of two
  processes, or a death between the words and the record of them.
* `OneDeferral`: one queued row at most promises a task's outcome, over replays between
  the check and the insert, drains and drops, unless both settlers were at it together.
* `EveryItemEnds`: again and again every row is settled, or young in a closed session: a
  row that fails or whose owner never returns does not wedge the queue.

Why the bounds are enough. Task loop: three dispatches and three steps reach every
ordered pair of (revision, answer wait, approval wait, verification retry) on a plan with
a second step; two attempts reach both rungs of the ladder, two sweeps a strike
followed by a wake or by a second strike; two tasks are what the queue needs, as
admission and promotion only compare "some active" with "none"; two crashes let a
replayed step crash again. Fan-out: two customers are the one in hand and one
after it, two processes are a race for one marker, two executions a replay, three a
replay of a replay after a kill, one elapsed day makes a row leave both windows, and
two campaigns are what the frequency choke relates. Approvals: two rows are an ask and
the re-arm or the second draft after it; a message, the sweep and the belt are three who
resolve it; in `revised` two messages are the revision and the yes it races. Batches: two
drafts are the message in hand and one after it, two drivers are what a batch has, and
the proofs cover any number. Billing: one event of each type is the race of two
transitions, duplicates come of the same event; two tokens and two
subscriptions are a race for the lock; a failed payment counts, and what the third one asks
for is `at_risk`'s. News: two who have it at once, three rows with a repeated deferral, a hook
and the sweep are the two drains that can meet, and two settlers are what a task has. Two
parallel pushes need no run: what they break is `OneQueuedPush` (section 3, deviations),
and each is told, or settled, by itself.

**Fairness.** `ManagerTask` is weakly fair to each task's workflow: DBOS recovers a
started workflow after a restart and runs it until it returns or raises. Nothing
is assumed of the owner, the clock, the reaper or the operators. `PollsSpent` is
part of the workflow, so a silent owner ends a wait by the poll budget. In
`CampaignFanout`, a process that is not killed goes on and the sweep runs on its
cron; a crash is never obliged, nor is a second execution. In `OwnerApproval`,
armers, messages and sweeps go on and windows pass; nobody has to write or to draft.
In `CustomerBatch`, the workflow of a hold is weakly fair, and so is the passing of
time (its two clocks and the commit of an open stop); a batch is stopped once, so a
driver that waits for its row lock needs no more. The L2 driver, owner, operators and
callbacks are free. `BillingPhase` is fair only to the daily sweep, which runs again
and again, `OwnerComms` only to the ten-minute sweep.

### Findings

One run refutes a statement of the repository; `PROJECT.json` quotes the lines.

* `at_risk`: `check_invariants` (`invariants.py:38`) asks for a conversion date in every
  paid phase, and the payment transitions pass a fresh state without one
  (`razorpay_ingress.py:435`), so the move to paid_at_risk always raises: the third
  failed payment changes nothing. A comment at 422-423 says the fresh state is correct.

### Stated deviations

Each of these is a definition that states what a comment, a message or a docstring says
and that TLC refutes under a small instance of its module. They have no run of their
own here; the definition quotes the line.

* `ManagerTask`: `RefusedIsCancelled` (a campaign proposed by a step that is not the
  plan's last leaves the task 'running'; the decline's compare-and-set from 'verifying'
  misses and nobody is told), `PromotedIsRun` (nothing starts the workflow of a promoted
  task), `LiveQuestionSurvives` (the approval stamp is never cleared, so an hour after an
  approval was consumed the orphan sweep kills the same task in a live wait).
* `CampaignFanout`: `CancelledStays` (a kill while the last recipient is served is
  answered ok and overwritten by the advance), `StopStops` (a fan-out in flight goes on
  after the owner was told that everything stopped), `PartlySentEnds` (the sweep for
  crashed campaigns looks for a status nothing writes).
* `OwnerApproval`: `TimedOutSendsNothing` (a yes that loses to the sweep still approves its
  batch: the glue runs after an UPDATE that matched nothing), `SupersededIsNeverSent` (a
  yes that commits before the supersede keeps the old draft going), `DeferExtends` (the
  sweep times out a row deferred after its scan).
* `CustomerBatch`: `KillSilences` (a hold armed from a level read before the kill, and
  inserted after the kill's snapshot, still sends: with `IdleStops`), `TerminalIsReported` (a driver that dies
  between a draft's mark and the finalisation, or whose workflow ends in ERROR, leaves the
  batch 'sending').
* `BillingPhase`: `NeverWrong` (a transition overwrites the phase a concurrent one has
  just set: the sweep a paid one, a capture a cancelled one).
* `OwnerComms`: `RecapReaches` (a recap is queued after the journey is complete and the
  drainer drops pushes of a journey that is not active), `DueAfterWindow` (an ask that was
  drained gets no clock, and the belt makes it due at once; `overdue_delivered_approvals`
  has no caller), `DeliveredIsTold` (a send that failed, or went out as the bare template,
  is marked delivered all the same), `AskedOnce` (an arm and a drain may both ask),
  `OneQueuedPush` (two runs of discovery both find no queued push, and queue two).

### Exceptions

Some properties hold only with the exception their statement or their run's bound
makes. Each exception is a behaviour of the code; widening the bound, or dropping
the excepted case, makes TLC show it.

* `OneActiveUnlessForced` excepts a redrive (`task_store.py:254`): it takes the slot
  while another task is active, and the unique index the store's comments rely on
  does not exist (migration 165 says so).
* `ClosedStays` excepts the ladder's strike (`orphan_reaper.py:174`): it updates by id
  what it read earlier, so it also moves a task that parked on an approval since.
* `QueueMoves` is checked with no sweeps: a task dead-lettered by the ladder frees
  the slot and promotes nobody.
* `InOrder` is checked with no crashes: a claim whose commit survives a crash and
  whose checkpoint does not is repeated, and the replay claims the next step.
* `NoSuccessAfterRefusal` and `OpenApprovalHasConsumer` are checked with no crashes: an
  arm whose commit survives and whose checkpoint does not leaves its approval open, the
  replay dispatches the step again and may finish without asking; nobody waits for the
  first approval, and the owner may refuse it after "done".
* `OncePerPair` excepts a lost answer (`send_whatsapp_template.py:820`): Twilio took
  the message, the row says 'error', and the next execution sends again.
* `OncePerInterval` excepts a row in flight (`send_frequency.py:113`): the choke counts
  'sent' rows only, so after a crash between call and flip the campaign of a re-drive
  messages the customer again.
* `ConsentIsTimely` is about `requested_at`: an ask the owner never saw, because its
  send or its clock failed, is still decided by a message younger than its insert.
* `ConsentKept` lets a yes be withdrawn: `delete_by_id` in a rollback may erase an
  approved row, and a refused arm cancels its batch unconditionally.
* `YesIsActedOn` is about batches: a cancelled batch needs no driver.
* `NoBatchForgotten` is about batches that wait: one put to edit waits for an executor
  that no code starts (`edit_requested` has no consumer).
* `SentIsTrue` excepts a marker in flight (`customer_send.py:709`): the tool answers 'sent'
  for a key somebody else has used, whatever became of that attempt.
* `EveryHoldEnds` is about a hold that was started: one flipped by an executor that then
  died has no poll, and nothing but the owner's next message ends it. The same goes for
  one whose workflow ended in ERROR, which the property counts as an end.
* `CancelledStands` and `MirrorIsLatest` hold because a stamp is taken before the
  transaction and compared in it; they take two stamps to be different, which a clock
  of microseconds only makes likely.
* `LinkIsTrue` says the trial is over, not that the tenant owes: a sweep that found
  the phase already moved ('noop') still sends the link, also to one who has just paid.
* `TrialsEnd` is the sweep's: the flip of an event is lost when its process dies after the
  commit that booked it, because the redelivery is a duplicate.
* `OneSubscription` is about bound ones: what the vendor made in a rolled back attempt
  is only detected, and its events are acknowledged as 'ignored'.
* `ToldOnce` excepts overlaps and deaths: the drainer marks after it has sent. The
  comment at `runner.py:336` promises "AT MOST ONCE" of the hook. It counts tellings of
  one run's push: two runs of discovery may ask for the same field one after the other,
  which the code allows ("a delivered one may be followed", `whatsapp_journey.py:502`).
* `OneDeferral` excepts a task the end of its workflow and the reaper have in hand at once:
  both find no queued row (`task_outcome.py:592`), and two promise the outcome.

## 4. Proofs

TLAPS checks the following for every value of the sets and bounds the assumptions
allow. The assumptions are `BoundsAssumption` and `TaskAssumption` of `ManagerTask`
(tasks are finitely many), `FanoutConstants`, `ApprovalConstants`, `BatchConstants`,
`BillingConstants` and `CommsConstants`: disjointness of the names and bounds in `Nat`.
TLC evaluates them on each run. Each preservation proof has one step per action; the
actions of one actor are a lemma of their own.

Types are proved in every module (`TypeCorrect`, `FanoutTypes`) and therefore not spent a
run on, except in `loop`, where they bound the budgets the code counts without looking.

**Task loop.**

* `TypeCorrect`: from the inductive `TypeInv == TypeOK /\ CyclesLeft`. `CyclesLeft` (a
  workflow past the claim of a step has a dispatch left) is what keeps the `cycles`
  counter in `0..MaxCycles`: a dispatch adds one without looking at the limit, the
  loop's head looked earlier.
* `OnlyApprovedIsSent`, `SentAtMostOnce`: from `SendInv`. `SentIsPast` (a campaign
  was sent only for the dispatch the workflow is at or an earlier one, and that
  approval is 'approved') carries them: an approval resolved once never changes
  again, and the gate arms only a dispatch later than any sent one.
* `OneActiveTask`, `EndedBlock`: from `SlotInv`: a queued task has no running
  workflow (`QueuedWaits`), an absent task has no row, a scanned candidate exists
  and was counted in `sweeps`, so with none counted no strike re-activates a task.
  The tail's decision is made in several steps, hence `EndedBlockArmed`.
* `ClosedForGood`: `Spec => ClosedStays`, every action against the two statuses.
* `OneStoryTold`: from `StoryInv`, with crashes and sweeps. `OneClosure` says that a task
  whose owner was told has its row at 'delivered' and is past everything that sets it to
  'pending' again: its workflow is past the last settle, or the row is dead_letter and no
  sweep has it among its candidates (`DeadForGood`). `SweepBooks` says the same of what a
  sweep remembers, and that it holds a candidate once: the strike is by id alone, so a
  second copy of a candidate would re-open what the first one closed.
* Three theorems are about runs without crashes and share one lemma, `CalmStep`: a step
  then reaches its checkpoint, so the program counter follows the edges written down in
  `LoopEdge` and `AskEdge`.
  * `RefusedIsNotDone`, from `RefusalInv`: in the main loop no approval of the task was
    refused (`LoopGranted`), in the wait for an approval at most the one asked for is
    undecided or refused (`AskedLast`), and the route leaves the loop for good on a refusal.
  * `AskIsConsumed`, from `ConsumerInv`: the task is 'running' from the claim to the
    dispatch and 'running' or 'verifying' at the gate (`StatusAtGate`), so the park's
    compare-and-set applies and stamps it; the property alone does not say why. It needs
    that no sweep ran: a strike between claim and park makes the park stamp nothing.
  * `StepsInOrder`, `Spec => [](crashes = 0 => InOrder)`, from `OrderInv`: per program
    counter, either no step is in flight or exactly the one the loop holds is, in the status
    that point implies, and nothing behind it has begun. `ClaimOrder`, `HeldOrder` and
    `AppendOrder` are its lemmas about plans as functions; the last counts a plan without
    gaps, which is why `Contiguous` is part of it: the retry step's number is a count.

**Fan-out.**

* `FanoutOncePerPair`, `FanoutPromise`: from `IInv == TypeOK /\ Marker`. `Marker` says
  that a process at or after the call holds the 'sending' row of its pair and holds
  it alone, and that a pair that may be claimed (no row, or 'error'), or is about to
  be called, is fresh: nothing delivered, or an answer lost. `OncePerPair` alone says
  nothing of a process between the claim and the call.
* `FanoutRefusal`: from `Warning`: a process warned of its customer's refusal is
  still before the claim, and the refusal stands.
* `FanoutSentIsFinal`, `FanoutKillLeavesOne`: for `GraphArmed = {}` (no campaign is executed
  by a graph run, which skips the status guard) and behaviours with `[]OnePerCampaign` (two
  processes never execute one campaign at once), the kill also for readable statuses. The
  code enforces none of the three; each is a hypothesis because without it TLC refutes
  the property. From `SentLeft` (nobody is executing a 'sent' campaign) and `KillKept` (a
  killed campaign that contacted one more has nobody before its call).
* `FanoutOncePerInterval`: for behaviours with `[]OnePerCustomer` (two processes never
  have one customer in hand at once), for any number of campaigns and processes and with
  graph runs. From `Traced`: a contact leaves a 'sent' row the choke reads or a row that
  hides it, a second one only the latter.

**Approvals.**

* `TypeCorrect`: from `Inv1 == TypeOK /\ RowsFilled /\ ArmersHold /\ OthersHold`: rows are
  filled in order, and whoever holds a row or a draft holds one that exists.
* `TimelyConsent`: from `TimelyInv`, which adds that a presented row was inserted before
  (`ShownIsArmed`) and that every standing yes is timely (`YesIsTimely`): the comparison in
  the code is with `presented_at`, the promise is about the insert.
* `ConsentRefinement`: from `ConsentInv`, which adds `AskedOnce`: a campaign draft is asked
  for by one row, because a recovered run persists another draft. So what the rows say
  is one word.
* `DecisionsStand`: a decided row keeps its decision or is deleted with its arm.

**Batches.** The invariant has three layers. `BaseInv` is the types, with a batch locked by
its hold exactly during the transaction of a call, and that a locked batch is on hold.
`Inv2` relates the two drivers: the L2 driver runs only for an approved batch, the L3 one is
past its poll only with the window over (`DueInside`), after a stop one message at most was
taken, by an L2 driver that is now past its call (`AfterStop`), and a sent batch has no
open draft. `Inv3` is the ledger: a draft without a finished marker is undelivered or
blurred, and a driver in its call holds the marker. From them `ObjectionWins`,
`InformedSilence`, `StopBound`, `WholeReports`, `TrueReports`, `PromiseRefinement`, and
`ClosedForGood` (a closed batch is never opened).

**Billing.** `Inbox` (a charge is counted exactly when it is processed, and then once) gives
`TrueQueue` and the refinement `FeesRefinement`. `Locked` (one open transaction, and none
while a subscription is bound) gives `OneBound`. `Ledger == Stamps /\ Reads /\
MirrorIsLatest` gives `MirrorTrue`, `LinkTrue` and `CancelledForGood`: stamps are distinct
and never ahead of the clock, and who has read a phase other than trial knows that the
trial is over for good.

**News.** Every step but an enqueue only settles or ages rows that are queued
(`RowsShrink`), which gives `FinalLedger` (a settled row stays settled).
`OneDeferralHolds` needs more, as a settler queues on what it read a statement before: its
inductive `Deferred` adds that two settlers hold a task at once only if it is in `met`, and
that a settler about to queue, alone, would still find no row queued. `NobodyToldTwice` is
the hard one: its inductive `Told` contains `Deferred` and says that news has one queued row, that news
nobody blurred is in the hands of one process, and that the first to tell leaves a trace
every other teller reads: the clock or the closed approval for an ask, the key or the
missing row for a task.

Only model-checked: the liveness properties (`WorkflowEnds`, `QueueMoves`, `EveryAskEnds`,
`NoBatchForgotten`, `YesIsActedOn`, `EveryHoldEnds`, `TrialsEnd`, `EveryItemEnds`), which
need fairness and `ENABLED` and are out of the prover's reach. Every invariant and action
property of a passing run is a theorem. A crash really breaks `InOrder`,
`NoSuccessAfterRefusal` and `OpenApprovalHasConsumer`, so their theorems keep "without
crashes"; section 3 says how.

## 5. Not modelled, and the plan

Left out of the modelled components:

* *Task loop*: the 'shadow' status (recorded, never driven), audit rows and incidents
  (nothing reads them back), the text of messages, the re-engagement message of a long
  wait, the correlation of a reply with one of several open questions. The legacy
  `task_producer` path mints tasks outside the queue and is not part of the enforce mode
  modelled here.
* *Fan-out*: the order of recipients, skip markers (a namespace of their own in the
  ledger), dry runs, the knowledge-graph event of the advance, run-control holds (a hold
  is no start), and campaigns with different recipients.
* *Approvals*: the re-arm of a legacy graph run; the summary message of an ask; which of
  several buttons was pressed.
* *Batches*: offers, the streak that earns a level, the frequency choke of a batch; why
  a gate declines (Gate 0 apart). Lock waits inside a transaction are below the grain: a lost
  race is a later turn. The transaction Postgres aborts instead is `DriverRaises` if it is a
  driver's, and otherwise one that did not happen.
* *Billing*: the warning message and the alerts, the release of a founding slot, the
  detect-only reconciliation of orphans (registered with an argument that makes it
  vacuous), the engagement events nothing sends, the graceful exit. An expiry whose
  message a gate skipped, or whose process died between flip and notice, is told nobody.
* *News*: the daily wake-up template, the interactive presentation, suppressed closures
  ('not_required'), a sweep that overlaps itself.

Not modelled at all: the webhook runner and the supervisor graph (LLM wiring; their
effect on a task is the outcome of a dispatch, on an approval a message), the dialogue
of the onboarding journey, knowledge and integrations, observability, privacy, the LLM
budget, the dashboard and the scripts. They are the larger part of the repository by
lines, and hold prompts, retrieval, parsing and I/O over rows one process writes.

Order of further work:

1. `PendingQuestions`: correlation of replies, the re-engagement, two open questions.
2. `RunControl`: pauses, overrides and reruns against a running workflow.
3. `LlmBudget`: the cached threshold over the ledger, with several processes.
4. The journey's turns against two parallel webhooks of one tenant.
5. Composition: `ManagerTask` with the statements of `OwnerApproval` in place of its own
   approval rows, and the proof that it implements both.
