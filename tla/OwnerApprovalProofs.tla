-------------------------- MODULE OwnerApprovalProofs --------------------------
(* Proofs about OwnerApproval, for every set of runs and messages and every     *)
(* bound: the types, the timeliness of consent, and the refinement of           *)
(* CustomerConsent.                                                             *)
EXTENDS OwnerApproval, TLAPS

\* The rows are inserted in order, and a row names the work it was armed for.
RowsFilled ==
    \A a \in Ask : /\ st[a] = "none" <=> a > asks
                   /\ st[a] # "none" => of[a] \in Work

\* What the armers hold.
ArmersHold ==
    /\ \A p \in Armer : pc[p] \notin {"idle", "done"} => tgt[p] \in Work
    /\ \A r \in Run : pc[r] \notin {"idle", "done"} => tgt[r][1] = r
    /\ pc[Sweeper] \notin {"idle", "done"} => tgt[Sweeper] \in Batch
    /\ \A p \in Armer : pc[p] \in {"asking", "sent", "failing"}
                           => row[p] \in Ask /\ st[row[p]] # "none"

\* What the messages and the timeout sweep hold.
OthersHold ==
    /\ \A m \in Msg : mpc[m] \in {"deciding", "starting", "superseding"}
                         => at[m] \in Ask /\ st[at[m]] # "none"
    /\ \A m \in Msg : mpc[m] = "starting" => of[at[m]] \in Batch
    /\ leg # "idle" => hand \in Ask /\ st[hand] # "none"

Inv1 == TypeOK /\ RowsFilled /\ ArmersHold /\ OthersHold

\* A presented row was inserted, so a message that saw it presented came after the
\* insert.
ShownIsArmed ==
    /\ \A a \in presented : a <= asks
    /\ \A m \in Msg : \A a \in shown[m] : a <= armed[m]

\* Every standing yes came from a message younger than its ask.
YesIsTimely ==
    /\ \A w \in Batch : work[w] = "approved" => w \in timely
    /\ \A a \in Ask : st[a] = "approved" /\ of[a] \notin Batch => of[a] \in timely
    /\ acted \subseteq timely

TimelyInv == Inv1 /\ ShownIsArmed /\ YesIsTimely

-------------------------------------------------------------------------------
(* Facts about the constants.                                                   *)

\* Batches are the work of dispatches; a draft's run is its first component.
LEMMA Works ==
    /\ Batch \subseteq Work
    /\ \A r \in Run, n \in 1 .. MaxDrafts :
          <<r, n>> \in Work /\ <<r, n>>[1] = r /\ (r \in Item => <<r, n>> \in Batch)
    /\ \A w \in Work : w[1] \in Run /\ (w \in Batch <=> w[1] \in Item)
    /\ Nobody \notin Work
    /\ Item \cap Campaign = {} /\ Sweeper \notin Run /\ Run = Item \cup Campaign
    /\ Armer = Run \cup {Sweeper}
    /\ MaxAsks \in Nat /\ MaxDrafts \in Nat /\ MaxCrashes \in Nat
    /\ Ask = 1 .. MaxAsks
BY ApprovalConstants, SMT DEF Batch, Work, Run, Armer, Ask

\* The next verdict of a batch is one of its states.
LEMMA Verdicts ==
    ASSUME NEW w, NEW verb \in {"approved", "rejected", "changes", "timeout", "defer"}
    PROVE  /\ Verdict(w, verb) \in {"approved", "rejected", "edit", "cancelled"}
           /\ Verdict(w, verb) = "approved" <=> verb = "approved"
<1>1. CASE verb = "approved" BY <1>1 DEF Verdict
<1>2. CASE verb = "rejected" BY <1>2 DEF Verdict
<1>3. CASE verb = "changes" BY <1>3 DEF Verdict
<1>4. CASE verb \in {"timeout", "defer"} BY <1>4 DEF Verdict
<1> QED BY <1>1, <1>2, <1>3, <1>4

\* The glue keeps the types and says yes to no batch unless the verb does.
LEMMA GlueTypes ==
    ASSUME TypeOK, NEW w,
           NEW verb \in {"approved", "rejected", "changes", "timeout", "defer"},
           Glue(w, verb)
    PROVE  /\ work' \in [Work -> BatchStatus]
           /\ edited' \subseteq Batch
           /\ \A v \in Work : work'[v] # work[v]
                 => v = w /\ v \in Batch /\ work[v] = "awaiting" /\ work'[v] = Verdict(w, verb)
<1>1. CASE ~IsResolvable(w) BY <1>1 DEF Glue, TypeOK, DraftTypes
<1>2. CASE IsResolvable(w)
  <2>1. w \in Batch /\ w \in Work /\ work[w] = "awaiting" BY <1>2, Works DEF IsResolvable
  <2>2. work' = [work EXCEPT ![w] = Verdict(w, verb)] BY <1>2 DEF Glue
  <2>3. edited' \subseteq edited \cup {w} BY <1>2 DEF Glue
  <2> QED BY <2>1, <2>2, <2>3, Verdicts DEF TypeOK, DraftTypes, BatchStatus
<1> QED BY <1>1, <1>2

-------------------------------------------------------------------------------
(* Inv1.                                                                        *)

LEMMA InitInv1 == Init => Inv1
<1> SUFFICES ASSUME Init PROVE Inv1 OBVIOUS
<1> USE Works DEF Init
<1>1. TypeOK
  <2>1. RowTypes BY DEF RowTypes, Status
  <2>2. DraftTypes BY DEF DraftTypes, BatchStatus
  <2>3. ArmerTypes BY DEF ArmerTypes, Pc
  <2>4. OtherTypes BY DEF OtherTypes, MPc
  <2> QED BY <2>1, <2>2, <2>3, <2>4 DEF TypeOK
<1>2. RowsFilled BY DEF RowsFilled
<1>3. ArmersHold BY DEF ArmersHold
<1>4. OthersHold BY DEF OthersHold
<1> QED BY <1>1, <1>2, <1>3, <1>4 DEF Inv1

LEMMA PersistInv1 ==
    ASSUME NEW r \in Run, NEW n \in 1 .. MaxDrafts, Inv1, Persist(r, n)
    PROVE  Inv1'
<1> USE Works DEF Inv1, Persist, Goto, rows, messages, sweep
<1>1. TypeOK'
  <2>1. RowTypes' BY DEF TypeOK, RowTypes, ArmerTypes, ArmersHold, OthersHold, Status
  <2>2. DraftTypes'
    BY DEF TypeOK, RowTypes, DraftTypes, ArmerTypes, OthersHold, RowsFilled, BatchStatus
  <2>3. ArmerTypes' BY DEF TypeOK, ArmerTypes, RowTypes, Pc
  <2>4. OtherTypes' BY DEF TypeOK, OtherTypes, RowTypes, MPc
  <2> QED BY <2>1, <2>2, <2>3, <2>4 DEF TypeOK
<1>2. RowsFilled' BY DEF TypeOK, RowTypes, ArmerTypes, OtherTypes, RowsFilled, ArmersHold
<1>3. ArmersHold' BY DEF TypeOK, RowTypes, ArmerTypes, OtherTypes, ArmersHold, RowsFilled
<1>4. OthersHold' BY DEF TypeOK, RowTypes, ArmerTypes, OtherTypes, OthersHold, RowsFilled
<1> QED BY <1>1, <1>2, <1>3, <1>4

LEMMA RearmInv1 ==
    ASSUME NEW w \in Batch, Inv1, Rearm(w)
    PROVE  Inv1'
<1> USE Works DEF Inv1, Rearm, Goto, rows, drafts, messages, sweep
<1>1. TypeOK'
  <2>1. RowTypes' BY DEF TypeOK, RowTypes, ArmerTypes, ArmersHold, OthersHold, Status
  <2>2. DraftTypes'
    BY DEF TypeOK, RowTypes, DraftTypes, ArmerTypes, OthersHold, RowsFilled, BatchStatus
  <2>3. ArmerTypes' BY DEF TypeOK, ArmerTypes, RowTypes, Pc
  <2>4. OtherTypes' BY DEF TypeOK, OtherTypes, RowTypes, MPc
  <2> QED BY <2>1, <2>2, <2>3, <2>4 DEF TypeOK
<1>2. RowsFilled' BY DEF TypeOK, RowTypes, ArmerTypes, OtherTypes, RowsFilled, ArmersHold
<1>3. ArmersHold' BY DEF TypeOK, RowTypes, ArmerTypes, OtherTypes, ArmersHold, RowsFilled
<1>4. OthersHold' BY DEF TypeOK, RowTypes, ArmerTypes, OtherTypes, OthersHold, RowsFilled
<1> QED BY <1>1, <1>2, <1>3, <1>4

LEMMA ProbeInv1 ==
    ASSUME NEW p \in Armer, Inv1, Probe(p)
    PROVE  Inv1'
<1> USE Works DEF Inv1, Probe, Goto, rows, drafts, messages, sweep
<1>1. TypeOK'
  <2>1. RowTypes' BY DEF TypeOK, RowTypes, ArmerTypes, ArmersHold, OthersHold, Status
  <2>2. DraftTypes'
    BY DEF TypeOK, RowTypes, DraftTypes, ArmerTypes, OthersHold, RowsFilled, BatchStatus
  <2>3. ArmerTypes' BY DEF TypeOK, ArmerTypes, RowTypes, Pc
  <2>4. OtherTypes' BY DEF TypeOK, OtherTypes, RowTypes, MPc
  <2> QED BY <2>1, <2>2, <2>3, <2>4 DEF TypeOK
<1>2. RowsFilled' BY DEF TypeOK, RowTypes, ArmerTypes, OtherTypes, RowsFilled, ArmersHold
<1>3. ArmersHold' BY DEF TypeOK, RowTypes, ArmerTypes, OtherTypes, ArmersHold, RowsFilled
<1>4. OthersHold' BY DEF TypeOK, RowTypes, ArmerTypes, OtherTypes, OthersHold, RowsFilled
<1> QED BY <1>1, <1>2, <1>3, <1>4

LEMMA InsertInv1 ==
    ASSUME NEW p \in Armer, Inv1, Insert(p)
    PROVE  Inv1'
<1> USE Works DEF Inv1, Insert, Goto, rows, drafts, messages, sweep
<1>1. TypeOK'
  <2>1. RowTypes' BY DEF TypeOK, RowTypes, ArmerTypes, ArmersHold, OthersHold, Status
  <2>2. DraftTypes'
    BY DEF TypeOK, RowTypes, DraftTypes, ArmerTypes, OthersHold, RowsFilled, BatchStatus
  <2>3. ArmerTypes' BY DEF TypeOK, ArmerTypes, RowTypes, Pc
  <2>4. OtherTypes' BY DEF TypeOK, OtherTypes, RowTypes, MPc
  <2> QED BY <2>1, <2>2, <2>3, <2>4 DEF TypeOK
<1>2. RowsFilled'
  <2>1. asks \in Nat /\ asks + 1 \in Ask /\ tgt[p] \in Work
    BY DEF TypeOK, RowTypes, ArmersHold
  <2>2. /\ asks' = asks + 1
        /\ st' = [st EXCEPT ![asks + 1] = "open"] /\ of' = [of EXCEPT ![asks + 1] = tgt[p]]
    OBVIOUS
  <2>3. ASSUME NEW a \in Ask
        PROVE  (st'[a] = "none" <=> a > asks') /\ (st'[a] # "none" => of'[a] \in Work)
    <3>1. CASE a = asks + 1 BY <3>1, <2>1, <2>2 DEF TypeOK, RowTypes
    <3>2. CASE a # asks + 1
      <4>1. st'[a] = st[a] /\ of'[a] = of[a] BY <3>2, <2>2 DEF TypeOK, RowTypes
      <4>2. a > asks + 1 <=> a > asks BY <3>2, <2>1
      <4> QED BY <4>1, <4>2, <2>2 DEF RowsFilled
    <3> QED BY <3>1, <3>2
  <2> QED BY <2>3 DEF RowsFilled
<1>3. ArmersHold' BY DEF TypeOK, RowTypes, ArmerTypes, OtherTypes, ArmersHold, RowsFilled
<1>4. OthersHold' BY DEF TypeOK, RowTypes, ArmerTypes, OtherTypes, OthersHold, RowsFilled
<1> QED BY <1>1, <1>2, <1>3, <1>4

LEMMA LoseRaceInv1 ==
    ASSUME NEW p \in Armer, Inv1, LoseRace(p)
    PROVE  Inv1'
<1> USE Works DEF Inv1, LoseRace, Goto, rows, drafts, messages, sweep
<1>1. TypeOK'
  <2>1. RowTypes' BY DEF TypeOK, RowTypes, ArmerTypes, ArmersHold, OthersHold, Status
  <2>2. DraftTypes'
    BY DEF TypeOK, RowTypes, DraftTypes, ArmerTypes, OthersHold, RowsFilled, BatchStatus
  <2>3. ArmerTypes' BY DEF TypeOK, ArmerTypes, RowTypes, Pc
  <2>4. OtherTypes' BY DEF TypeOK, OtherTypes, RowTypes, MPc
  <2> QED BY <2>1, <2>2, <2>3, <2>4 DEF TypeOK
<1>2. RowsFilled' BY DEF TypeOK, RowTypes, ArmerTypes, OtherTypes, RowsFilled, ArmersHold
<1>3. ArmersHold' BY DEF TypeOK, RowTypes, ArmerTypes, OtherTypes, ArmersHold, RowsFilled
<1>4. OthersHold' BY DEF TypeOK, RowTypes, ArmerTypes, OtherTypes, OthersHold, RowsFilled
<1> QED BY <1>1, <1>2, <1>3, <1>4

LEMMA SendInv1 ==
    ASSUME NEW p \in Armer, Inv1, Send(p)
    PROVE  Inv1'
<1> USE Works DEF Inv1, Send, Goto, rows, drafts, messages, sweep
<1>1. TypeOK'
  <2>1. RowTypes' BY DEF TypeOK, RowTypes, ArmerTypes, ArmersHold, OthersHold, Status
  <2>2. DraftTypes'
    BY DEF TypeOK, RowTypes, DraftTypes, ArmerTypes, OthersHold, RowsFilled, BatchStatus
  <2>3. ArmerTypes' BY DEF TypeOK, ArmerTypes, RowTypes, Pc
  <2>4. OtherTypes' BY DEF TypeOK, OtherTypes, RowTypes, MPc
  <2> QED BY <2>1, <2>2, <2>3, <2>4 DEF TypeOK
<1>2. RowsFilled' BY DEF TypeOK, RowTypes, ArmerTypes, OtherTypes, RowsFilled, ArmersHold
<1>3. ArmersHold' BY DEF TypeOK, RowTypes, ArmerTypes, OtherTypes, ArmersHold, RowsFilled
<1>4. OthersHold' BY DEF TypeOK, RowTypes, ArmerTypes, OtherTypes, OthersHold, RowsFilled
<1> QED BY <1>1, <1>2, <1>3, <1>4

LEMMA StartClockInv1 ==
    ASSUME NEW p \in Armer, Inv1, StartClock(p)
    PROVE  Inv1'
<1> USE Works DEF Inv1, StartClock, Goto, rows, drafts, messages, sweep
<1>1. TypeOK'
  <2>1. RowTypes'
    <3>1. row[p] \in Ask BY DEF ArmersHold
    <3>2. clock' \in {clock, [clock EXCEPT ![row[p]] = "running"]}
          /\ presented' \subseteq presented \cup {row[p]}
      OBVIOUS
    <3>3. clock' \in [Ask -> {"none", "running", "due"}]
      BY <3>2 DEF TypeOK, RowTypes
    <3> QED BY <3>1, <3>2, <3>3 DEF TypeOK, RowTypes
  <2>2. DraftTypes'
    BY DEF TypeOK, RowTypes, DraftTypes, ArmerTypes, OthersHold, RowsFilled, BatchStatus
  <2>3. ArmerTypes' BY DEF TypeOK, ArmerTypes, RowTypes, Pc
  <2>4. OtherTypes' BY DEF TypeOK, OtherTypes, RowTypes, MPc
  <2> QED BY <2>1, <2>2, <2>3, <2>4 DEF TypeOK
<1>2. RowsFilled' BY DEF TypeOK, RowTypes, ArmerTypes, OtherTypes, RowsFilled, ArmersHold
<1>3. ArmersHold' BY DEF TypeOK, RowTypes, ArmerTypes, OtherTypes, ArmersHold, RowsFilled
<1>4. OthersHold' BY DEF TypeOK, RowTypes, ArmerTypes, OtherTypes, OthersHold, RowsFilled
<1> QED BY <1>1, <1>2, <1>3, <1>4

LEMMA RollbackInv1 ==
    ASSUME NEW p \in Armer, Inv1, Rollback(p)
    PROVE  Inv1'
<1> USE Works DEF Inv1, Rollback, Goto, rows, drafts, messages, sweep
<1>1. TypeOK'
  <2>1. RowTypes'
    <3>1. CASE st' = st BY <3>1 DEF TypeOK, RowTypes
    <3>2. CASE st' = [st EXCEPT ![row[p]] = "deleted"]
      BY <3>2 DEF TypeOK, RowTypes, Status
    <3> QED BY <3>1, <3>2
  <2>2. DraftTypes'
    BY DEF TypeOK, RowTypes, DraftTypes, ArmerTypes, OthersHold, RowsFilled, BatchStatus
  <2>3. ArmerTypes' BY DEF TypeOK, ArmerTypes, RowTypes, Pc
  <2>4. OtherTypes' BY DEF TypeOK, OtherTypes, RowTypes, MPc
  <2> QED BY <2>1, <2>2, <2>3, <2>4 DEF TypeOK
<1>2. RowsFilled' BY DEF TypeOK, RowTypes, ArmerTypes, OtherTypes, RowsFilled, ArmersHold
<1>3. ArmersHold' BY DEF TypeOK, RowTypes, ArmerTypes, OtherTypes, ArmersHold, RowsFilled
<1>4. OthersHold' BY DEF TypeOK, RowTypes, ArmerTypes, OtherTypes, OthersHold, RowsFilled
<1> QED BY <1>1, <1>2, <1>3, <1>4

LEMMA ArmedInv1 ==
    ASSUME NEW p \in Armer, Inv1, Armed(p)
    PROVE  Inv1'
<1> USE Works DEF Inv1, Armed, Leave, Goto, rows, drafts, messages, sweep
<1>1. TypeOK'
  <2>1. RowTypes' BY DEF TypeOK, RowTypes, ArmerTypes, ArmersHold, OthersHold, Status
  <2>2. DraftTypes'
    BY DEF TypeOK, RowTypes, DraftTypes, ArmerTypes, OthersHold, RowsFilled, BatchStatus
  <2>3. ArmerTypes' BY DEF TypeOK, ArmerTypes, RowTypes, Pc
  <2>4. OtherTypes' BY DEF TypeOK, OtherTypes, RowTypes, MPc
  <2> QED BY <2>1, <2>2, <2>3, <2>4 DEF TypeOK
<1>2. RowsFilled' BY DEF TypeOK, RowTypes, ArmerTypes, OtherTypes, RowsFilled, ArmersHold
<1>3. ArmersHold' BY DEF TypeOK, RowTypes, ArmerTypes, OtherTypes, ArmersHold, RowsFilled
<1>4. OthersHold' BY DEF TypeOK, RowTypes, ArmerTypes, OtherTypes, OthersHold, RowsFilled
<1> QED BY <1>1, <1>2, <1>3, <1>4

LEMMA RefusedInv1 ==
    ASSUME NEW p \in Armer, Inv1, Refused(p)
    PROVE  Inv1'
<1> USE Works DEF Inv1, Refused, Leave, Goto, rows, drafts, messages, sweep
<1>1. TypeOK'
  <2>1. RowTypes' BY DEF TypeOK, RowTypes, ArmerTypes, ArmersHold, OthersHold, Status
  <2>2. DraftTypes'
    BY DEF TypeOK, RowTypes, DraftTypes, ArmerTypes, OthersHold, RowsFilled, BatchStatus
  <2>3. ArmerTypes' BY DEF TypeOK, ArmerTypes, RowTypes, Pc
  <2>4. OtherTypes' BY DEF TypeOK, OtherTypes, RowTypes, MPc
  <2> QED BY <2>1, <2>2, <2>3, <2>4 DEF TypeOK
<1>2. RowsFilled' BY DEF TypeOK, RowTypes, ArmerTypes, OtherTypes, RowsFilled, ArmersHold
<1>3. ArmersHold' BY DEF TypeOK, RowTypes, ArmerTypes, OtherTypes, ArmersHold, RowsFilled
<1>4. OthersHold' BY DEF TypeOK, RowTypes, ArmerTypes, OtherTypes, OthersHold, RowsFilled
<1> QED BY <1>1, <1>2, <1>3, <1>4

LEMMA ArmerDiesInv1 ==
    ASSUME NEW p \in Armer, Inv1, ArmerDies(p)
    PROVE  Inv1'
<1> USE Works DEF Inv1, ArmerDies, Goto, rows, drafts, messages, sweep
<1>1. TypeOK'
  <2>1. RowTypes' BY DEF TypeOK, RowTypes, ArmerTypes, ArmersHold, OthersHold, Status
  <2>2. DraftTypes'
    BY DEF TypeOK, RowTypes, DraftTypes, ArmerTypes, OthersHold, RowsFilled, BatchStatus
  <2>3. ArmerTypes' BY DEF TypeOK, ArmerTypes, RowTypes, Pc
  <2>4. OtherTypes' BY DEF TypeOK, OtherTypes, RowTypes, MPc
  <2> QED BY <2>1, <2>2, <2>3, <2>4 DEF TypeOK
<1>2. RowsFilled' BY DEF TypeOK, RowTypes, ArmerTypes, OtherTypes, RowsFilled, ArmersHold
<1>3. ArmersHold' BY DEF TypeOK, RowTypes, ArmerTypes, OtherTypes, ArmersHold, RowsFilled
<1>4. OthersHold' BY DEF TypeOK, RowTypes, ArmerTypes, OtherTypes, OthersHold, RowsFilled
<1> QED BY <1>1, <1>2, <1>3, <1>4

LEMMA ReceiveInv1 ==
    ASSUME NEW m \in Msg, Inv1, Receive(m)
    PROVE  Inv1'
<1> USE Works DEF Inv1, Receive, MGoto, rows, drafts, armers, sweep
<1>1. TypeOK'
  <2>1. RowTypes' BY DEF TypeOK, RowTypes, ArmerTypes, ArmersHold, OthersHold, Status
  <2>2. DraftTypes'
    BY DEF TypeOK, RowTypes, DraftTypes, ArmerTypes, OthersHold, RowsFilled, BatchStatus
  <2>3. ArmerTypes' BY DEF TypeOK, ArmerTypes, RowTypes, Pc
  <2>4. OtherTypes' BY DEF TypeOK, OtherTypes, RowTypes, MPc
  <2> QED BY <2>1, <2>2, <2>3, <2>4 DEF TypeOK
<1>2. RowsFilled' BY DEF TypeOK, RowTypes, ArmerTypes, OtherTypes, RowsFilled, ArmersHold
<1>3. ArmersHold' BY DEF TypeOK, RowTypes, ArmerTypes, OtherTypes, ArmersHold, RowsFilled
<1>4. OthersHold' BY DEF TypeOK, RowTypes, ArmerTypes, OtherTypes, OthersHold, RowsFilled
<1> QED BY <1>1, <1>2, <1>3, <1>4

LEMMA LookInv1 ==
    ASSUME NEW m \in Msg, Inv1, Look(m)
    PROVE  Inv1'
<1> USE Works DEF Inv1, Look, MGoto, Open, rows, drafts, armers, sweep
<1>1. TypeOK'
  <2>1. RowTypes' BY DEF TypeOK, RowTypes, ArmerTypes, ArmersHold, OthersHold, Status
  <2>2. DraftTypes'
    BY DEF TypeOK, RowTypes, DraftTypes, ArmerTypes, OthersHold, RowsFilled, BatchStatus
  <2>3. ArmerTypes' BY DEF TypeOK, ArmerTypes, RowTypes, Pc
  <2>4. OtherTypes' BY DEF TypeOK, OtherTypes, RowTypes, MPc
  <2> QED BY <2>1, <2>2, <2>3, <2>4 DEF TypeOK
<1>2. RowsFilled' BY DEF TypeOK, RowTypes, ArmerTypes, OtherTypes, RowsFilled, ArmersHold
<1>3. ArmersHold' BY DEF TypeOK, RowTypes, ArmerTypes, OtherTypes, ArmersHold, RowsFilled
<1>4. OthersHold' BY DEF TypeOK, RowTypes, ArmerTypes, OtherTypes, OthersHold, RowsFilled
<1> QED BY <1>1, <1>2, <1>3, <1>4

LEMMA PassThroughInv1 ==
    ASSUME NEW m \in Msg, Inv1, PassThrough(m)
    PROVE  Inv1'
<1> USE Works DEF Inv1, PassThrough, ToTriage, MGoto, rows, drafts, armers, sweep
<1>1. TypeOK'
  <2>1. RowTypes' BY DEF TypeOK, RowTypes, ArmerTypes, ArmersHold, OthersHold, Status
  <2>2. DraftTypes'
    BY DEF TypeOK, RowTypes, DraftTypes, ArmerTypes, OthersHold, RowsFilled, BatchStatus
  <2>3. ArmerTypes' BY DEF TypeOK, ArmerTypes, RowTypes, Pc
  <2>4. OtherTypes' BY DEF TypeOK, OtherTypes, RowTypes, MPc
  <2> QED BY <2>1, <2>2, <2>3, <2>4 DEF TypeOK
<1>2. RowsFilled' BY DEF TypeOK, RowTypes, ArmerTypes, OtherTypes, RowsFilled, ArmersHold
<1>3. ArmersHold' BY DEF TypeOK, RowTypes, ArmerTypes, OtherTypes, ArmersHold, RowsFilled
<1>4. OthersHold' BY DEF TypeOK, RowTypes, ArmerTypes, OtherTypes, OthersHold, RowsFilled
<1> QED BY <1>1, <1>2, <1>3, <1>4

LEMMA RefuseStaleInv1 ==
    ASSUME NEW m \in Msg, Inv1, RefuseStale(m)
    PROVE  Inv1'
<1> USE Works DEF Inv1, RefuseStale, ToTriage, MGoto, rows, drafts, armers, sweep
<1>1. TypeOK'
  <2>1. RowTypes' BY DEF TypeOK, RowTypes, ArmerTypes, ArmersHold, OthersHold, Status
  <2>2. DraftTypes'
    BY DEF TypeOK, RowTypes, DraftTypes, ArmerTypes, OthersHold, RowsFilled, BatchStatus
  <2>3. ArmerTypes' BY DEF TypeOK, ArmerTypes, RowTypes, Pc
  <2>4. OtherTypes' BY DEF TypeOK, OtherTypes, RowTypes, MPc
  <2> QED BY <2>1, <2>2, <2>3, <2>4 DEF TypeOK
<1>2. RowsFilled' BY DEF TypeOK, RowTypes, ArmerTypes, OtherTypes, RowsFilled, ArmersHold
<1>3. ArmersHold' BY DEF TypeOK, RowTypes, ArmerTypes, OtherTypes, ArmersHold, RowsFilled
<1>4. OthersHold' BY DEF TypeOK, RowTypes, ArmerTypes, OtherTypes, OthersHold, RowsFilled
<1> QED BY <1>1, <1>2, <1>3, <1>4

LEMMA StartDriverInv1 ==
    ASSUME NEW m \in Msg, Inv1, StartDriver(m)
    PROVE  Inv1'
<1> USE Works DEF Inv1, StartDriver, MDone, MGoto, rows, drafts, armers, sweep
<1>1. TypeOK'
  <2>1. RowTypes' BY DEF TypeOK, RowTypes, ArmerTypes, ArmersHold, OthersHold, Status
  <2>2. DraftTypes'
    BY DEF TypeOK, RowTypes, DraftTypes, ArmerTypes, OthersHold, RowsFilled, BatchStatus
  <2>3. ArmerTypes' BY DEF TypeOK, ArmerTypes, RowTypes, Pc
  <2>4. OtherTypes' BY DEF TypeOK, OtherTypes, RowTypes, MPc
  <2> QED BY <2>1, <2>2, <2>3, <2>4 DEF TypeOK
<1>2. RowsFilled' BY DEF TypeOK, RowTypes, ArmerTypes, OtherTypes, RowsFilled, ArmersHold
<1>3. ArmersHold' BY DEF TypeOK, RowTypes, ArmerTypes, OtherTypes, ArmersHold, RowsFilled
<1>4. OthersHold' BY DEF TypeOK, RowTypes, ArmerTypes, OtherTypes, OthersHold, RowsFilled
<1> QED BY <1>1, <1>2, <1>3, <1>4

LEMMA ReviseInv1 ==
    ASSUME NEW m \in Msg, Inv1, Revise(m)
    PROVE  Inv1'
<1> USE Works DEF Inv1, Revise, MGoto, Open, rows, drafts, armers, sweep
<1>1. TypeOK'
  <2>1. RowTypes' BY DEF TypeOK, RowTypes, ArmerTypes, ArmersHold, OthersHold, Status
  <2>2. DraftTypes'
    <3>1. PICK c \in Campaign :
             loop' \in {loop, [loop EXCEPT ![c] = IF @ = "done" THEN @ ELSE "stopped"]}
      OBVIOUS
    <3>2. loop' \in [Campaign -> {"none", "waiting", "stopped", "done"}]
      BY <3>1 DEF TypeOK, DraftTypes
    <3> QED BY <3>2 DEF TypeOK, DraftTypes
  <2>3. ArmerTypes' BY DEF TypeOK, ArmerTypes, RowTypes, Pc
  <2>4. OtherTypes' BY DEF TypeOK, OtherTypes, RowTypes, MPc
  <2> QED BY <2>1, <2>2, <2>3, <2>4 DEF TypeOK
<1>2. RowsFilled' BY DEF TypeOK, RowTypes, ArmerTypes, OtherTypes, RowsFilled, ArmersHold
<1>3. ArmersHold' BY DEF TypeOK, RowTypes, ArmerTypes, OtherTypes, ArmersHold, RowsFilled
<1>4. OthersHold' BY DEF TypeOK, RowTypes, ArmerTypes, OtherTypes, OthersHold, RowsFilled
<1> QED BY <1>1, <1>2, <1>3, <1>4

LEMMA SupersedeInv1 ==
    ASSUME NEW m \in Msg, Inv1, Supersede(m)
    PROVE  Inv1'
<1> USE Works DEF Inv1, Supersede, MGoto, Resolved, rows, drafts, armers, sweep
<1>1. TypeOK'
  <2>1. RowTypes' BY DEF TypeOK, RowTypes, ArmerTypes, ArmersHold, OthersHold, Status
  <2>2. DraftTypes'
    BY DEF TypeOK, RowTypes, DraftTypes, ArmerTypes, OthersHold, RowsFilled, BatchStatus
  <2>3. ArmerTypes' BY DEF TypeOK, ArmerTypes, RowTypes, Pc
  <2>4. OtherTypes' BY DEF TypeOK, OtherTypes, RowTypes, MPc
  <2> QED BY <2>1, <2>2, <2>3, <2>4 DEF TypeOK
<1>2. RowsFilled' BY DEF TypeOK, RowTypes, ArmerTypes, OtherTypes, RowsFilled, ArmersHold
<1>3. ArmersHold' BY DEF TypeOK, RowTypes, ArmerTypes, OtherTypes, ArmersHold, RowsFilled
<1>4. OthersHold' BY DEF TypeOK, RowTypes, ArmerTypes, OtherTypes, OthersHold, RowsFilled
<1> QED BY <1>1, <1>2, <1>3, <1>4

LEMMA OtherTurnInv1 ==
    ASSUME NEW m \in Msg, Inv1, OtherTurn(m)
    PROVE  Inv1'
<1> USE Works DEF Inv1, OtherTurn, MDone, MGoto, rows, drafts, armers, sweep
<1>1. TypeOK'
  <2>1. RowTypes' BY DEF TypeOK, RowTypes, ArmerTypes, ArmersHold, OthersHold, Status
  <2>2. DraftTypes'
    BY DEF TypeOK, RowTypes, DraftTypes, ArmerTypes, OthersHold, RowsFilled, BatchStatus
  <2>3. ArmerTypes' BY DEF TypeOK, ArmerTypes, RowTypes, Pc
  <2>4. OtherTypes' BY DEF TypeOK, OtherTypes, RowTypes, MPc
  <2> QED BY <2>1, <2>2, <2>3, <2>4 DEF TypeOK
<1>2. RowsFilled' BY DEF TypeOK, RowTypes, ArmerTypes, OtherTypes, RowsFilled, ArmersHold
<1>3. ArmersHold' BY DEF TypeOK, RowTypes, ArmerTypes, OtherTypes, ArmersHold, RowsFilled
<1>4. OthersHold' BY DEF TypeOK, RowTypes, ArmerTypes, OtherTypes, OthersHold, RowsFilled
<1> QED BY <1>1, <1>2, <1>3, <1>4

LEMMA MessageDiesInv1 ==
    ASSUME NEW m \in Msg, Inv1, MessageDies(m)
    PROVE  Inv1'
<1> USE Works DEF Inv1, MessageDies, MGoto, rows, drafts, armers, sweep
<1>1. TypeOK'
  <2>1. RowTypes' BY DEF TypeOK, RowTypes, ArmerTypes, ArmersHold, OthersHold, Status
  <2>2. DraftTypes'
    BY DEF TypeOK, RowTypes, DraftTypes, ArmerTypes, OthersHold, RowsFilled, BatchStatus
  <2>3. ArmerTypes' BY DEF TypeOK, ArmerTypes, RowTypes, Pc
  <2>4. OtherTypes' BY DEF TypeOK, OtherTypes, RowTypes, MPc
  <2> QED BY <2>1, <2>2, <2>3, <2>4 DEF TypeOK
<1>2. RowsFilled' BY DEF TypeOK, RowTypes, ArmerTypes, OtherTypes, RowsFilled, ArmersHold
<1>3. ArmersHold' BY DEF TypeOK, RowTypes, ArmerTypes, OtherTypes, ArmersHold, RowsFilled
<1>4. OthersHold' BY DEF TypeOK, RowTypes, ArmerTypes, OtherTypes, OthersHold, RowsFilled
<1> QED BY <1>1, <1>2, <1>3, <1>4

LEMMA ExpireInv1 ==
    ASSUME NEW a \in Ask, Inv1, Expire(a)
    PROVE  Inv1'
<1> USE Works DEF Inv1, Expire, rows, drafts, armers, messages, sweep
<1>1. TypeOK'
  <2>1. RowTypes' BY DEF TypeOK, RowTypes, ArmerTypes, ArmersHold, OthersHold, Status
  <2>2. DraftTypes'
    BY DEF TypeOK, RowTypes, DraftTypes, ArmerTypes, OthersHold, RowsFilled, BatchStatus
  <2>3. ArmerTypes' BY DEF TypeOK, ArmerTypes, RowTypes, Pc
  <2>4. OtherTypes' BY DEF TypeOK, OtherTypes, RowTypes, MPc
  <2> QED BY <2>1, <2>2, <2>3, <2>4 DEF TypeOK
<1>2. RowsFilled' BY DEF TypeOK, RowTypes, ArmerTypes, OtherTypes, RowsFilled, ArmersHold
<1>3. ArmersHold' BY DEF TypeOK, RowTypes, ArmerTypes, OtherTypes, ArmersHold, RowsFilled
<1>4. OthersHold' BY DEF TypeOK, RowTypes, ArmerTypes, OtherTypes, OthersHold, RowsFilled
<1> QED BY <1>1, <1>2, <1>3, <1>4

LEMMA BeltInv1 ==
    ASSUME NEW a \in Ask, Inv1, Belt(a)
    PROVE  Inv1'
<1> USE Works DEF Inv1, Belt, rows, drafts, armers, messages, sweep
<1>1. TypeOK'
  <2>1. RowTypes' BY DEF TypeOK, RowTypes, ArmerTypes, ArmersHold, OthersHold, Status
  <2>2. DraftTypes'
    BY DEF TypeOK, RowTypes, DraftTypes, ArmerTypes, OthersHold, RowsFilled, BatchStatus
  <2>3. ArmerTypes' BY DEF TypeOK, ArmerTypes, RowTypes, Pc
  <2>4. OtherTypes' BY DEF TypeOK, OtherTypes, RowTypes, MPc
  <2> QED BY <2>1, <2>2, <2>3, <2>4 DEF TypeOK
<1>2. RowsFilled' BY DEF TypeOK, RowTypes, ArmerTypes, OtherTypes, RowsFilled, ArmersHold
<1>3. ArmersHold' BY DEF TypeOK, RowTypes, ArmerTypes, OtherTypes, ArmersHold, RowsFilled
<1>4. OthersHold' BY DEF TypeOK, RowTypes, ArmerTypes, OtherTypes, OthersHold, RowsFilled
<1> QED BY <1>1, <1>2, <1>3, <1>4

LEMMA ScanInv1 ==
    ASSUME NEW a \in Ask, Inv1, Scan(a)
    PROVE  Inv1'
<1> USE Works DEF Inv1, Scan, rows, drafts, armers, messages, sweep
<1>1. TypeOK'
  <2>1. RowTypes' BY DEF TypeOK, RowTypes, ArmerTypes, ArmersHold, OthersHold, Status
  <2>2. DraftTypes'
    BY DEF TypeOK, RowTypes, DraftTypes, ArmerTypes, OthersHold, RowsFilled, BatchStatus
  <2>3. ArmerTypes' BY DEF TypeOK, ArmerTypes, RowTypes, Pc
  <2>4. OtherTypes' BY DEF TypeOK, OtherTypes, RowTypes, MPc
  <2> QED BY <2>1, <2>2, <2>3, <2>4 DEF TypeOK
<1>2. RowsFilled' BY DEF TypeOK, RowTypes, ArmerTypes, OtherTypes, RowsFilled, ArmersHold
<1>3. ArmersHold' BY DEF TypeOK, RowTypes, ArmerTypes, OtherTypes, ArmersHold, RowsFilled
<1>4. OthersHold' BY DEF TypeOK, RowTypes, ArmerTypes, OtherTypes, OthersHold, RowsFilled
<1> QED BY <1>1, <1>2, <1>3, <1>4

LEMMA TimeOutInv1 ==
    ASSUME Inv1, TimeOut
    PROVE  Inv1'
<1> USE Works DEF Inv1, TimeOut, Resolved, rows, drafts, armers, messages
<1>1. TypeOK'
  <2>1. RowTypes' BY DEF TypeOK, RowTypes, ArmerTypes, ArmersHold, OthersHold, Status
  <2>2. DraftTypes'
    BY DEF TypeOK, RowTypes, DraftTypes, ArmerTypes, OthersHold, RowsFilled, BatchStatus
  <2>3. ArmerTypes' BY DEF TypeOK, ArmerTypes, RowTypes, Pc
  <2>4. OtherTypes' BY DEF TypeOK, OtherTypes, RowTypes, MPc
  <2> QED BY <2>1, <2>2, <2>3, <2>4 DEF TypeOK
<1>2. RowsFilled' BY DEF TypeOK, RowTypes, ArmerTypes, OtherTypes, RowsFilled, ArmersHold
<1>3. ArmersHold' BY DEF TypeOK, RowTypes, ArmerTypes, OtherTypes, ArmersHold, RowsFilled
<1>4. OthersHold' BY DEF TypeOK, RowTypes, ArmerTypes, OtherTypes, OthersHold, RowsFilled
<1> QED BY <1>1, <1>2, <1>3, <1>4

LEMMA SweepDiesInv1 ==
    ASSUME Inv1, SweepDies
    PROVE  Inv1'
<1> USE Works DEF Inv1, SweepDies, rows, drafts, armers, messages
<1>1. TypeOK'
  <2>1. RowTypes' BY DEF TypeOK, RowTypes, ArmerTypes, ArmersHold, OthersHold, Status
  <2>2. DraftTypes'
    BY DEF TypeOK, RowTypes, DraftTypes, ArmerTypes, OthersHold, RowsFilled, BatchStatus
  <2>3. ArmerTypes' BY DEF TypeOK, ArmerTypes, RowTypes, Pc
  <2>4. OtherTypes' BY DEF TypeOK, OtherTypes, RowTypes, MPc
  <2> QED BY <2>1, <2>2, <2>3, <2>4 DEF TypeOK
<1>2. RowsFilled' BY DEF TypeOK, RowTypes, ArmerTypes, OtherTypes, RowsFilled, ArmersHold
<1>3. ArmersHold' BY DEF TypeOK, RowTypes, ArmerTypes, OtherTypes, ArmersHold, RowsFilled
<1>4. OthersHold' BY DEF TypeOK, RowTypes, ArmerTypes, OtherTypes, OthersHold, RowsFilled
<1> QED BY <1>1, <1>2, <1>3, <1>4

LEMMA ReconcileInv1 ==
    ASSUME NEW w \in Batch, Inv1, Reconcile(w)
    PROVE  Inv1'
<1> USE Works DEF Inv1, Reconcile, rows, armers, messages, sweep
<1>1. TypeOK'
  <2>1. RowTypes' BY DEF TypeOK, RowTypes, ArmerTypes, ArmersHold, OthersHold, Status
  <2>2. DraftTypes'
    BY DEF TypeOK, RowTypes, DraftTypes, ArmerTypes, OthersHold, RowsFilled, BatchStatus
  <2>3. ArmerTypes' BY DEF TypeOK, ArmerTypes, RowTypes, Pc
  <2>4. OtherTypes' BY DEF TypeOK, OtherTypes, RowTypes, MPc
  <2> QED BY <2>1, <2>2, <2>3, <2>4 DEF TypeOK
<1>2. RowsFilled' BY DEF TypeOK, RowTypes, ArmerTypes, OtherTypes, RowsFilled, ArmersHold
<1>3. ArmersHold' BY DEF TypeOK, RowTypes, ArmerTypes, OtherTypes, ArmersHold, RowsFilled
<1>4. OthersHold' BY DEF TypeOK, RowTypes, ArmerTypes, OtherTypes, OthersHold, RowsFilled
<1> QED BY <1>1, <1>2, <1>3, <1>4

LEMMA PollInv1 ==
    ASSUME NEW c \in Campaign, Inv1, Poll(c)
    PROVE  Inv1'
<1> USE Works DEF Inv1, Poll, AsksOf, rows, armers, messages, sweep
<1>1. TypeOK'
  <2>1. RowTypes' BY DEF TypeOK, RowTypes, ArmerTypes, ArmersHold, OthersHold, Status
  <2>2. DraftTypes'
    BY DEF TypeOK, RowTypes, DraftTypes, ArmerTypes, OthersHold, RowsFilled, BatchStatus
  <2>3. ArmerTypes' BY DEF TypeOK, ArmerTypes, RowTypes, Pc
  <2>4. OtherTypes' BY DEF TypeOK, OtherTypes, RowTypes, MPc
  <2> QED BY <2>1, <2>2, <2>3, <2>4 DEF TypeOK
<1>2. RowsFilled' BY DEF TypeOK, RowTypes, ArmerTypes, OtherTypes, RowsFilled, ArmersHold
<1>3. ArmersHold' BY DEF TypeOK, RowTypes, ArmerTypes, OtherTypes, ArmersHold, RowsFilled
<1>4. OthersHold' BY DEF TypeOK, RowTypes, ArmerTypes, OtherTypes, OthersHold, RowsFilled
<1> QED BY <1>1, <1>2, <1>3, <1>4

LEMMA DeferInv1 ==
    ASSUME NEW m \in Msg, Inv1, Defer(m)
    PROVE  Inv1'
<1>1. /\ mpc[m] = "deciding" /\ MDone(m)
      /\ st' \in {st, Resolved(at[m], "rejected")}
      /\ clock' \in {clock, [clock EXCEPT ![at[m]] = "running"]}
      /\ deferred' \in {deferred, deferred \cup {at[m]}}
      /\ UNCHANGED <<work, edited>> \/ Glue(of[at[m]], "defer")
      /\ UNCHANGED <<asks, of, presented, loop, acted, armers, sweep, timely, crashes>>
  BY DEF Defer
<1>2. work' \in [Work -> BatchStatus] /\ edited' \subseteq Batch
  BY <1>1, GlueTypes DEF Inv1, TypeOK, DraftTypes
<1>3. at[m] \in Ask BY <1>1 DEF Inv1, OthersHold
<1>4. /\ st' \in [Ask -> Status]
      /\ \A a \in Ask : st'[a] = "none" <=> st[a] = "none"
  <2>1. CASE st' = st BY <2>1 DEF Inv1, TypeOK, RowTypes
  <2>2. CASE st' = [st EXCEPT ![at[m]] = "rejected"] /\ st[at[m]] = "open"
    BY <2>2, <1>3 DEF Inv1, TypeOK, RowTypes, Status
  <2> QED BY <1>1, <2>1, <2>2 DEF Resolved
<1>5. clock' \in [Ask -> {"none", "running", "due"}] /\ deferred' \subseteq Ask
  BY <1>1, <1>3 DEF Inv1, TypeOK, RowTypes
<1>6. RowTypes' BY <1>1, <1>4, <1>5 DEF Inv1, TypeOK, RowTypes
<1>7. TypeOK'
  <2>1. DraftTypes' BY <1>1, <1>2 DEF Inv1, TypeOK, DraftTypes
  <2>2. ArmerTypes' BY <1>1 DEF Inv1, TypeOK, ArmerTypes, armers
  <2>3. OtherTypes' BY <1>1, Works DEF Inv1, TypeOK, OtherTypes, MPc, MDone, MGoto, sweep
  <2> QED BY <1>6, <2>1, <2>2, <2>3 DEF TypeOK
<1>8. RowsFilled' BY <1>1, <1>4 DEF Inv1, RowsFilled
<1>9. ArmersHold' BY <1>1, <1>4, Works DEF Inv1, ArmersHold, armers
<1>10. OthersHold'
  BY <1>1, <1>4, Works DEF Inv1, OthersHold, TypeOK, OtherTypes, MDone, MGoto, sweep
<1> QED BY <1>7, <1>8, <1>9, <1>10 DEF Inv1

LEMMA DecideInv1 ==
    ASSUME NEW m \in Msg, NEW verb \in {"approved", "rejected", "changes"}, Inv1,
           Decide(m, verb)
    PROVE  Inv1'
<1>1. /\ mpc[m] = "deciding"
      /\ \/ MDone(m)
         \/ /\ MGoto(m, "starting") /\ of[at[m]] \in Batch
            /\ UNCHANGED <<at, armed, shown>>
      /\ st' \in {Resolved(at[m], "rejected"), Resolved(at[m], "approved")}
      /\ Glue(of[at[m]], verb)
      /\ timely' \in {timely, timely \cup {of[at[m]]}}
      /\ UNCHANGED <<asks, of, clock, presented, deferred, loop, acted, armers, sweep, crashes>>
  BY DEF Decide
<1>2. work' \in [Work -> BatchStatus] /\ edited' \subseteq Batch
  BY <1>1, GlueTypes DEF Inv1
<1>3. at[m] \in Ask /\ st[at[m]] # "none" /\ of[at[m]] \in Work
  BY <1>1 DEF Inv1, OthersHold, RowsFilled
<1>4. /\ st' \in [Ask -> Status]
      /\ \A a \in Ask : st'[a] = "none" <=> st[a] = "none"
  <2>1. CASE st' = st BY <2>1 DEF Inv1, TypeOK, RowTypes
  <2>2. CASE \E s \in {"rejected", "approved"} : st' = [st EXCEPT ![at[m]] = s]
    BY <2>2, <1>3 DEF Inv1, TypeOK, RowTypes, Status
  <2> QED BY <1>1, <2>1, <2>2 DEF Resolved
<1>5. TypeOK'
  <2>1. RowTypes' BY <1>1, <1>4 DEF Inv1, TypeOK, RowTypes
  <2>2. DraftTypes' BY <1>1, <1>2, <1>3 DEF Inv1, TypeOK, DraftTypes
  <2>3. ArmerTypes' BY <1>1 DEF Inv1, TypeOK, ArmerTypes, armers
  <2>4. OtherTypes'
    <3>1. CASE MDone(m)
      BY <1>1, <3>1, Works DEF Inv1, TypeOK, OtherTypes, MPc, MDone, MGoto, sweep
    <3>2. CASE MGoto(m, "starting") /\ UNCHANGED <<at, armed, shown>>
      BY <1>1, <3>2, Works DEF Inv1, TypeOK, OtherTypes, MPc, MGoto, sweep
    <3> QED BY <1>1, <3>1, <3>2
  <2> QED BY <2>1, <2>2, <2>3, <2>4 DEF TypeOK
<1>6. RowsFilled' BY <1>1, <1>4 DEF Inv1, RowsFilled
<1>7. ArmersHold' BY <1>1, <1>4, Works DEF Inv1, ArmersHold, armers
<1>8. OthersHold'
  <2>1. CASE MDone(m)
    BY <1>1, <1>4, <2>1, Works DEF Inv1, OthersHold, TypeOK, OtherTypes, MDone, MGoto, sweep
  <2>2. CASE MGoto(m, "starting") /\ of[at[m]] \in Batch /\ UNCHANGED <<at, armed, shown>>
    BY <1>1, <1>3, <1>4, <2>2, Works DEF Inv1, OthersHold, TypeOK, OtherTypes, MGoto, sweep
  <2> QED BY <1>1, <2>1, <2>2
<1> QED BY <1>5, <1>6, <1>7, <1>8 DEF Inv1

LEMMA TimeOutBatchInv1 ==
    ASSUME Inv1, TimeOutBatch
    PROVE  Inv1'
<1>1. /\ UNCHANGED <<work, edited>> \/ Glue(of[hand], "timeout")
      /\ hand' = 0 /\ leg' = "idle"
      /\ UNCHANGED <<rows, loop, acted, armers, messages, timely, crashes>>
  BY DEF TimeOutBatch
<1>2. /\ work' \in [Work -> BatchStatus]
      /\ edited' \subseteq Batch
  BY <1>1, GlueTypes DEF Inv1, TypeOK, DraftTypes
<1> USE Works, <1>1, <1>2 DEF Inv1, rows, armers, messages
<1>3. TypeOK'
  <2>1. RowTypes' BY DEF TypeOK, RowTypes, ArmerTypes, ArmersHold, OthersHold, Status
  <2>2. DraftTypes'
    BY DEF TypeOK, RowTypes, DraftTypes, ArmerTypes, OthersHold, RowsFilled, BatchStatus
  <2>3. ArmerTypes' BY DEF TypeOK, ArmerTypes, RowTypes, Pc
  <2>4. OtherTypes' BY DEF TypeOK, OtherTypes, RowTypes, MPc
  <2> QED BY <2>1, <2>2, <2>3, <2>4 DEF TypeOK
<1>4. RowsFilled' BY DEF TypeOK, RowTypes, ArmerTypes, OtherTypes, RowsFilled
<1>5. ArmersHold' BY DEF TypeOK, RowTypes, ArmerTypes, OtherTypes, ArmersHold, RowsFilled
<1>6. OthersHold' BY DEF TypeOK, RowTypes, ArmerTypes, OtherTypes, OthersHold, RowsFilled
<1> QED BY <1>3, <1>4, <1>5, <1>6

\* Every step preserves the types and what the actors hold.
LEMMA NextInv1 ==
    ASSUME Inv1, [Next]_vars
    PROVE  Inv1'
<1>1. ASSUME NEW p \in Armer, ArmerStep(p) \/ ArmerDies(p) PROVE Inv1'
  BY <1>1, ProbeInv1, InsertInv1, LoseRaceInv1, SendInv1, StartClockInv1, RollbackInv1,
     ArmedInv1, RefusedInv1, ArmerDiesInv1 DEF ArmerStep
<1>2. ASSUME NEW m \in Msg, Receive(m) \/ Look(m) \/ MessageStep(m) \/ MessageDies(m)
      PROVE Inv1'
  BY <1>2, ReceiveInv1, LookInv1, PassThroughInv1, RefuseStaleInv1, DeferInv1, DecideInv1,
     StartDriverInv1, ReviseInv1, SupersedeInv1, OtherTurnInv1, MessageDiesInv1
  DEF MessageStep
<1>3. ASSUME NEW a \in Ask, Expire(a) \/ Belt(a) \/ Scan(a) PROVE Inv1'
  BY <1>3, ExpireInv1, BeltInv1, ScanInv1
<1>4. ASSUME NEW w \in Batch, Rearm(w) \/ Reconcile(w) PROVE Inv1'
  BY <1>4, RearmInv1, ReconcileInv1
<1>5. CASE TimeOut \/ TimeOutBatch \/ SweepDies
  BY <1>5, TimeOutInv1, TimeOutBatchInv1, SweepDiesInv1
<1>6. CASE UNCHANGED vars
  BY <1>6 DEF vars, rows, drafts, armers, messages, sweep, Inv1, TypeOK, RowTypes,
     DraftTypes, ArmerTypes, OtherTypes, RowsFilled,
     ArmersHold, OthersHold
<1> QED
  BY <1>1, <1>2, <1>3, <1>4, <1>5, <1>6, PersistInv1, PollInv1 DEF Next

\* Types: every variable keeps its type in every behaviour of the approvals.
THEOREM TypeCorrect == Spec => []TypeOK
<1>1. Inv1 => TypeOK BY DEF Inv1
<1> QED BY InitInv1, NextInv1, <1>1, PTL DEF Spec

-------------------------------------------------------------------------------
(* Consent is timely.                                                           *)

\* Receiving, presenting and inserting keep the order of asks and sight.
LEMMA NextShown ==
    ASSUME Inv1, ShownIsArmed, [Next]_vars
    PROVE  ShownIsArmed'
<1>1. CASE asks' = asks /\ UNCHANGED <<presented, armed, shown>>
  BY <1>1 DEF ShownIsArmed
<1>2. ASSUME NEW p \in Armer, Insert(p) PROVE ShownIsArmed'
  <2>1. asks \in Nat /\ asks' = asks + 1 BY <1>2, Works DEF Insert, Inv1, TypeOK, RowTypes
  <2>2. presented \subseteq Ask /\ Ask \subseteq Nat BY Works DEF Inv1, TypeOK, RowTypes
  <2>3. UNCHANGED <<presented, armed, shown>> BY <1>2 DEF Insert, messages
  <2>4. \A a \in presented : a <= asks + 1 BY <2>1, <2>2 DEF ShownIsArmed
  <2> QED BY <2>1, <2>3, <2>4 DEF ShownIsArmed
<1>3. ASSUME NEW p \in Armer, StartClock(p) PROVE ShownIsArmed'
  <2>1. row[p] \in Ask /\ st[row[p]] # "none" BY <1>3 DEF StartClock, Inv1, ArmersHold
  <2>2. row[p] <= asks BY <2>1, Works DEF Inv1, RowsFilled, TypeOK, RowTypes
  <2>3. presented' \in {presented, presented \cup {row[p]}} BY <1>3 DEF StartClock
  <2> QED BY <1>3, <2>2, <2>3 DEF StartClock, messages, ShownIsArmed
<1>4. ASSUME NEW m \in Msg, UNCHANGED <<asks, presented>>,
             \/ /\ armed' = [armed EXCEPT ![m] = asks] /\ shown' = [shown EXCEPT ![m] = presented]
             \/ /\ armed' = [armed EXCEPT ![m] = 0] /\ shown' = [shown EXCEPT ![m] = {}]
      PROVE ShownIsArmed'
  BY <1>4 DEF ShownIsArmed, Inv1, TypeOK, OtherTypes
<1>5. ASSUME NEW p \in Armer, ArmerStep(p) \/ ArmerDies(p) PROVE ShownIsArmed'
  BY <1>1, <1>2, <1>3, <1>5
  DEF ArmerStep, Probe, LoseRace, Send, Rollback, Armed, Refused, ArmerDies, rows, messages
<1>6. ASSUME NEW m \in Msg, Receive(m) \/ Look(m) \/ MessageStep(m) \/ MessageDies(m)
      PROVE ShownIsArmed'
  BY <1>1, <1>4, <1>6
  DEF Receive, Look, MessageStep, MessageDies, PassThrough, RefuseStale, Defer, Decide,
      StartDriver, Revise, Supersede, OtherTurn, MDone, ToTriage, rows
<1>7. CASE UNCHANGED vars BY <1>1, <1>7 DEF vars, rows, messages
<1> QED
  BY <1>1, <1>5, <1>6, <1>7
  DEF Next, Persist, Rearm, Reconcile, Expire, Belt, Scan, TimeOut, TimeOutBatch, SweepDies,
      Poll, rows, messages

\* A decision that counts comes from a message younger than the ask it decides.
LEMMA DecideTimely ==
    ASSUME NEW m \in Msg, NEW verb \in {"approved", "rejected", "changes"},
           TimelyInv, Decide(m, verb)
    PROVE  YesIsTimely'
<1> DEFINE a == at[m]
           w == of[a]
<1>1. a \in Ask /\ w \in Work /\ st[a] # "none" /\ a <= asks
  BY Works DEF Decide, TimelyInv, Inv1, OthersHold, RowsFilled, TypeOK, RowTypes
<1>2. a <= armed[m]
  BY DEF Decide, NewerThan, TimelyInv, ShownIsArmed
<1>3. timely' = IF verb = "approved" /\ Counts(w, a) THEN timely \cup {w} ELSE timely
  BY <1>2 DEF Decide
<1>4. /\ \A v \in Work : work'[v] # work[v]
            => v = w /\ IsResolvable(w) /\ (work'[v] = "approved" => verb = "approved")
      /\ UNCHANGED <<of, acted>>
  <2>1. Glue(w, verb) BY DEF Decide
  <2>2. TypeOK BY DEF TimelyInv, Inv1
  <2>3. \A v \in Work : work'[v] # work[v]
          => v = w /\ v \in Batch /\ work[v] = "awaiting" /\ work'[v] = Verdict(w, verb)
    BY <2>1, <2>2, GlueTypes
  <2>4. Verdict(w, verb) = "approved" <=> verb = "approved" BY Verdicts
  <2>5. UNCHANGED <<of, acted>> BY DEF Decide
  <2> QED BY <2>3, <2>4, <2>5 DEF IsResolvable
<1>5. \A v \in Batch : work'[v] = "approved" => v \in timely'
  BY <1>3, <1>4, Works DEF TimelyInv, YesIsTimely, Counts
<1>6. ASSUME NEW b \in Ask, st'[b] = "approved", of'[b] \notin Batch PROVE of'[b] \in timely'
  <2>1. CASE st[b] = "approved" BY <1>3, <1>4, <1>6, <2>1 DEF TimelyInv, YesIsTimely
  <2>2. CASE st[b] # "approved"
    <3>1. b = a /\ verb = "approved" /\ st[a] = "open"
      BY <1>1, <1>6, <2>2 DEF Decide, Resolved, TimelyInv, Inv1, TypeOK, RowTypes
    <3> QED BY <1>3, <1>4, <1>6, <3>1 DEF Counts
  <2> QED BY <2>1, <2>2
<1>7. acted' \subseteq timely' BY <1>3, <1>4 DEF TimelyInv, YesIsTimely
<1> QED BY <1>5, <1>6, <1>7 DEF YesIsTimely

\* A resolution other than a yes: the rest of the glue's callers.
LEMMA NoYes ==
    ASSUME TimelyInv, UNCHANGED <<of, acted, timely>>,
           \A a \in Ask : st'[a] = "approved" => st[a] = "approved",
           \A v \in Batch : work'[v] = "approved" => work[v] = "approved"
    PROVE  YesIsTimely'
BY DEF TimelyInv, YesIsTimely

LEMMA GlueNoYes ==
    ASSUME TypeOK, NEW w, NEW verb \in {"timeout", "defer"}, Glue(w, verb)
    PROVE  \A v \in Batch : work'[v] = "approved" => work[v] = "approved"
<1>1. \A v \in Work : work'[v] # work[v] => work'[v] = Verdict(w, verb) BY GlueTypes
<1>2. Verdict(w, verb) # "approved" BY Verdicts
<1> QED BY <1>1, <1>2, Works

LEMMA NextYes ==
    ASSUME TimelyInv, [Next]_vars
    PROVE  YesIsTimely'
<1> USE DEF TimelyInv
<1>1. CASE UNCHANGED <<st, of, work, acted, timely>> BY <1>1 DEF YesIsTimely
<1>2. ASSUME NEW r \in Run, NEW n \in 1 .. MaxDrafts, Persist(r, n) PROVE YesIsTimely'
  BY <1>2, NoYes, Works DEF Persist, rows, Inv1, TypeOK, DraftTypes
<1>3. ASSUME NEW p \in Armer, ArmerStep(p) \/ ArmerDies(p) PROVE YesIsTimely'
  <2>1. CASE Insert(p)
    <3>1. st' = [st EXCEPT ![asks'] = "open"] /\ of' = [of EXCEPT ![asks'] = tgt[p]]
          /\ UNCHANGED <<work, acted, timely>>
      BY <2>1 DEF Insert, drafts
    <3> QED BY <3>1 DEF YesIsTimely, Inv1, TypeOK, RowTypes
  <2>2. CASE Rollback(p)
    BY <2>2, NoYes DEF Rollback, drafts, Inv1, TypeOK, RowTypes
  <2>3. CASE Armed(p) \/ Refused(p)
    BY <2>3, NoYes, Works DEF Armed, Refused, rows, Inv1, TypeOK, DraftTypes
  <2> QED
    BY <1>1, <1>3, <2>1, <2>2, <2>3
    DEF ArmerStep, Probe, LoseRace, Send, StartClock, ArmerDies, rows, drafts
<1>4. ASSUME NEW m \in Msg, Receive(m) \/ Look(m) \/ MessageStep(m) \/ MessageDies(m)
      PROVE YesIsTimely'
  <2>1. CASE Defer(m)
    <3>1. /\ st' \in {st, Resolved(at[m], "rejected")}
          /\ UNCHANGED <<work, edited>> \/ Glue(of[at[m]], "defer")
          /\ UNCHANGED <<of, acted, timely>>
      BY <2>1 DEF Defer
    <3>2. \A a \in Ask : st'[a] = "approved" => st[a] = "approved"
      BY <3>1 DEF Resolved, Inv1, TypeOK, RowTypes
    <3>3. \A v \in Batch : work'[v] = "approved" => work[v] = "approved"
      BY <3>1, GlueNoYes DEF Inv1
    <3> QED BY <3>1, <3>2, <3>3, NoYes
  <2>2. CASE \E verb \in {"approved", "rejected", "changes"} : Decide(m, verb)
    BY <2>2, DecideTimely
  <2>3. CASE StartDriver(m)
    <3>1. of[at[m]] \in Batch BY <2>3 DEF StartDriver, Inv1, OthersHold
    <3> QED BY <2>3, <3>1 DEF StartDriver, rows, YesIsTimely
  <2>4. CASE Supersede(m)
    BY <2>4, NoYes DEF Supersede, Resolved, drafts, Inv1, TypeOK, RowTypes
  <2> QED
    BY <1>1, <1>4, <2>1, <2>2, <2>3, <2>4
    DEF MessageStep, Receive, Look, PassThrough, RefuseStale, Revise, OtherTurn,
        MessageDies, rows, drafts
<1>5. ASSUME NEW a \in Ask, Expire(a) \/ Belt(a) \/ Scan(a) PROVE YesIsTimely'
  BY <1>1, <1>5 DEF Expire, Belt, Scan, rows, drafts
<1>6. ASSUME NEW w \in Batch, Rearm(w) \/ Reconcile(w) PROVE YesIsTimely'
  BY <1>1, <1>6 DEF Rearm, Reconcile, Unstarted, rows, drafts, YesIsTimely
<1>7. CASE TimeOut \/ TimeOutBatch \/ SweepDies
  <2>1. CASE TimeOut
    BY <2>1, NoYes DEF TimeOut, Resolved, drafts, Inv1, TypeOK, RowTypes
  <2>2. CASE TimeOutBatch
    <3>1. UNCHANGED <<work, edited>> \/ Glue(of[hand], "timeout") BY <2>2 DEF TimeOutBatch
    <3>2. \A v \in Batch : work'[v] = "approved" => work[v] = "approved"
      BY <3>1, GlueNoYes DEF Inv1
    <3> QED BY <2>2, <3>2, NoYes DEF TimeOutBatch, rows
  <2> QED BY <1>1, <1>7, <2>1, <2>2 DEF SweepDies, rows, drafts
<1>8. ASSUME NEW c \in Campaign, Poll(c) PROVE YesIsTimely'
  <2>1. \A b \in AsksOf(c) : b \in Ask /\ of[b] \in Work /\ of[b] \notin Batch
    BY Works DEF AsksOf, Inv1, RowsFilled
  <2>2. \/ UNCHANGED acted
        \/ \E b \in AsksOf(c) : st[b] = "approved" /\ acted' = acted \cup {of[b]}
    BY <1>8 DEF Poll, MayExecute
  <2> QED BY <1>8, <2>1, <2>2 DEF Poll, rows, YesIsTimely
<1>9. CASE UNCHANGED vars BY <1>1, <1>9 DEF vars, rows, drafts
<1> QED BY <1>2, <1>3, <1>4, <1>5, <1>6, <1>7, <1>8, <1>9 DEF Next

\* No message rests on a yes given before the ask it answers (approval_resume.py's
\* ordering check, with presented_at and its requested_at fallback).
THEOREM TimelyConsent == Spec => []ConsentIsTimely
<1>1. Init => TimelyInv
  BY InitInv1, Works DEF Init, TimelyInv, ShownIsArmed, YesIsTimely
<1>2. TimelyInv /\ [Next]_vars => TimelyInv'
  BY NextInv1, NextShown, NextYes DEF TimelyInv
<1>3. TimelyInv => ConsentIsTimely BY DEF TimelyInv, YesIsTimely, ConsentIsTimely
<1> QED BY <1>1, <1>2, <1>3, PTL DEF Spec

-------------------------------------------------------------------------------
(* The refinement. What a campaign's rows say is one word because a campaign     *)
(* draft is asked for once: a recovered run persists another draft.             *)

AskedOnce ==
    /\ \A a, b \in Ask :
          (st[a] # "none" /\ st[b] # "none" /\ of[a] = of[b] /\ of[a] \notin Batch) => a = b
    /\ \A a \in Ask : st[a] # "none" => work[of[a]] # "none"
    /\ \A p \in Armer : pc[p] \notin {"idle", "done"} => work[tgt[p]] # "none"
    /\ \A p \in Armer : pc[p] \in {"arming", "checked"} /\ tgt[p] \notin Batch
          => \A a \in Ask : st[a] # "none" => of[a] # tgt[p]

ConsentInv == Inv1 /\ AskedOnce

\* No statement forgets a draft.
LEMMA DraftsStay ==
    ASSUME Inv1, [Next]_vars, NEW w \in Work, work[w] # "none"
    PROVE  work'[w] # "none"
<1> USE DEF Inv1
<1>1. CASE UNCHANGED work BY <1>1
<1>2. ASSUME NEW v, NEW verb \in {"approved", "rejected", "changes", "timeout", "defer"},
             Glue(v, verb)
      PROVE work'[w] # "none"
  BY <1>2, GlueTypes, Verdicts
<1>3. ASSUME NEW r \in Run, NEW n \in 1 .. MaxDrafts, Persist(r, n) PROVE work'[w] # "none"
  BY <1>3 DEF Persist, TypeOK, DraftTypes
<1>4. ASSUME NEW p \in Armer, ArmerStep(p) \/ ArmerDies(p) PROVE work'[w] # "none"
  BY <1>1, <1>4
  DEF ArmerStep, Probe, Insert, LoseRace, Send, StartClock, Rollback, Armed, Refused,
      ArmerDies, drafts, TypeOK, DraftTypes
<1>5. ASSUME NEW m \in Msg, Receive(m) \/ Look(m) \/ MessageStep(m) \/ MessageDies(m)
      PROVE work'[w] # "none"
  BY <1>1, <1>2, <1>5
  DEF Receive, Look, MessageStep, MessageDies, PassThrough, RefuseStale, Defer, Decide,
      StartDriver, Revise, Supersede, OtherTurn, drafts
<1>6. CASE UNCHANGED vars BY <1>1, <1>6 DEF vars, drafts
<1> QED
  BY <1>1, <1>2, <1>3, <1>4, <1>5, <1>6
  DEF Next, Rearm, Reconcile, Expire, Belt, Scan, TimeOut, TimeOutBatch, SweepDies, Poll,
      drafts

\* A step that keeps rows and armers, but for decisions, keeps them asked once.
LEMMA AskedFrame ==
    ASSUME ConsentInv, [Next]_vars, UNCHANGED <<of, armers>>,
           \A a \in Ask : st'[a] = "none" <=> st[a] = "none"
    PROVE  AskedOnce'
<1>1. \A a \in Ask : st[a] # "none" => of[a] \in Work BY DEF ConsentInv, Inv1, RowsFilled
<1>2. \A p \in Armer : pc[p] \notin {"idle", "done"} => tgt[p] \in Work
  BY DEF ConsentInv, Inv1, ArmersHold
<1> QED BY <1>1, <1>2, DraftsStay DEF ConsentInv, AskedOnce, armers

LEMMA PersistAsked ==
    ASSUME ConsentInv, NEW r \in Run, NEW n \in 1 .. MaxDrafts, Persist(r, n)
    PROVE  AskedOnce'
<1> DEFINE w == <<r, n>>
<1>1. w \in Work /\ work[w] = "none" /\ work' = [work EXCEPT ![w] = "awaiting"]
  BY Works DEF Persist
<1>2. /\ pc[r] = "idle" /\ pc' = [pc EXCEPT ![r] = "arming"] /\ tgt' = [tgt EXCEPT ![r] = w]
      /\ UNCHANGED <<st, of>>
  BY DEF Persist, Goto, rows
<1>3. \A a \in Ask : st[a] # "none" => of[a] # w /\ of[a] \in Work
  BY <1>1 DEF ConsentInv, AskedOnce, Inv1, RowsFilled
<1>4. \A v \in Work : work[v] # "none" => work'[v] # "none"
  BY <1>1 DEF ConsentInv, Inv1, TypeOK, DraftTypes
<1>5. \A p \in Armer : /\ p = r => pc'[p] = "arming" /\ tgt'[p] = w
                       /\ p # r => pc'[p] = pc[p] /\ tgt'[p] = tgt[p]
  BY <1>2, Works DEF ConsentInv, Inv1, TypeOK, ArmerTypes
<1>6. work'[w] # "none" BY <1>1 DEF ConsentInv, Inv1, TypeOK, DraftTypes
<1>7. \A p \in Armer : pc[p] \notin {"idle", "done"} => tgt[p] \in Work
  BY DEF ConsentInv, Inv1, ArmersHold
<1> QED
  BY <1>2, <1>3, <1>4, <1>5, <1>6, <1>7 DEF ConsentInv, AskedOnce

\* The insert asks for a draft no row names.
LEMMA InsertAsked ==
    ASSUME ConsentInv, NEW p \in Armer, Insert(p)
    PROVE  AskedOnce'
<1>1. /\ asks' \in Ask /\ st[asks'] = "none"
      /\ st' = [st EXCEPT ![asks'] = "open"] /\ of' = [of EXCEPT ![asks'] = tgt[p]]
      /\ pc[p] = "checked" /\ pc' = [pc EXCEPT ![p] = "asking"]
      /\ UNCHANGED <<work, tgt>>
  BY Works DEF Insert, Goto, drafts, ConsentInv, Inv1, RowsFilled, TypeOK, RowTypes
<1>2. tgt[p] \in Work /\ work[tgt[p]] # "none"
  BY <1>1 DEF ConsentInv, Inv1, ArmersHold, AskedOnce
<1>3. \A a \in Ask : /\ a = asks' => st'[a] = "open" /\ of'[a] = tgt[p]
                     /\ a # asks' => st'[a] = st[a] /\ of'[a] = of[a]
  BY <1>1 DEF ConsentInv, Inv1, TypeOK, RowTypes
<1>4. \A q \in Armer : /\ q = p => pc'[q] = "asking"
                       /\ q # p => pc'[q] = pc[q]
  BY <1>1 DEF ConsentInv, Inv1, TypeOK, ArmerTypes
<1>5. \A a, b \in Ask :
         (st'[a] # "none" /\ st'[b] # "none" /\ of'[a] = of'[b] /\ of'[a] \notin Batch) => a = b
  BY <1>1, <1>3 DEF ConsentInv, AskedOnce
<1>6. \A q \in Armer : pc[q] \in {"arming", "checked"} /\ tgt[q] \notin Batch /\ q # p
         => tgt[q] # tgt[p]
  <2> TAKE q \in Armer
  <2> HAVE pc[q] \in {"arming", "checked"} /\ tgt[q] \notin Batch /\ q # p
  <2>1. q \in Run BY Works DEF ConsentInv, Inv1, ArmersHold
  <2>2. tgt[q][1] = q BY <2>1 DEF ConsentInv, Inv1, ArmersHold
  <2>3. CASE p \in Run BY <1>1, <2>2, <2>3 DEF ConsentInv, Inv1, ArmersHold
  <2>4. CASE p = Sweeper BY <1>1, <2>4 DEF ConsentInv, Inv1, ArmersHold
  <2> QED BY <2>3, <2>4, Works
<1>7. \A q \in Armer : pc'[q] \in {"arming", "checked"} /\ tgt[q] \notin Batch
         => \A a \in Ask : st'[a] # "none" => of'[a] # tgt[q]
  BY <1>3, <1>4, <1>6 DEF ConsentInv, AskedOnce
<1> QED BY <1>1, <1>2, <1>3, <1>4, <1>5, <1>7 DEF ConsentInv, AskedOnce

\* An armer that goes on, or is through, asks for nothing new.
LEMMA ArmerAsked ==
    ASSUME ConsentInv, [Next]_vars, NEW p \in Armer, UNCHANGED of,
           \A a \in Ask : st'[a] = "none" <=> st[a] = "none",
           \/ /\ pc[p] \notin {"idle", "done"} /\ UNCHANGED tgt
              /\ \E l \in Pc : pc' = [pc EXCEPT ![p] = l]
                               /\ (l \in {"arming", "checked"} => pc[p] = "arming")
           \/ /\ tgt' = [tgt EXCEPT ![p] = Nobody]
              /\ \E l \in {"idle", "done"} : pc' = [pc EXCEPT ![p] = l]
    PROVE  AskedOnce'
<1>1. \A a \in Ask : st[a] # "none" => of[a] \in Work BY DEF ConsentInv, Inv1, RowsFilled
<1>2. \A q \in Armer : pc[q] \notin {"idle", "done"} => tgt[q] \in Work
  BY DEF ConsentInv, Inv1, ArmersHold
<1>3. \A q \in Armer :
         \/ pc'[q] \in {"idle", "done"}
         \/ /\ pc[q] \notin {"idle", "done"} /\ tgt'[q] = tgt[q]
            /\ pc'[q] \in {"arming", "checked"} => pc[q] \in {"arming", "checked"}
  BY DEF ConsentInv, Inv1, TypeOK, ArmerTypes
<1> QED BY <1>1, <1>2, <1>3, DraftsStay DEF ConsentInv, AskedOnce

LEMMA NextAsked ==
    ASSUME ConsentInv, [Next]_vars
    PROVE  AskedOnce'
<1> USE DEF ConsentInv
<1>1. CASE UNCHANGED <<st, of, armers>> BY <1>1, AskedFrame
<1>2. ASSUME NEW p \in Armer, ArmerStep(p) \/ ArmerDies(p) PROVE AskedOnce'
  <2>1. CASE Insert(p) BY <2>1, InsertAsked
  <2>2. CASE Probe(p)
    BY <2>2, ArmerAsked DEF Probe, Goto, rows, Pc
  <2>3. CASE LoseRace(p) BY <2>3, ArmerAsked DEF LoseRace, Goto, rows, Pc
  <2>4. CASE Send(p) BY <2>4, ArmerAsked DEF Send, Goto, rows, Pc
  <2>5. CASE StartClock(p) BY <2>5, ArmerAsked DEF StartClock, Goto, Pc
  <2>6. CASE Rollback(p)
    <3>1. row[p] \in Ask /\ st[row[p]] # "none"
      BY <2>6 DEF Rollback, Inv1, ArmersHold
    <3>2. \A a \in Ask : st'[a] = "none" <=> st[a] = "none"
      BY <2>6, <3>1 DEF Rollback, Inv1, TypeOK, RowTypes
    <3> QED BY <2>6, <3>2, ArmerAsked DEF Rollback, Goto, Pc
  <2>7. CASE Armed(p) \/ Refused(p)
    BY <2>7, ArmerAsked DEF Armed, Refused, Leave, Goto, rows
  <2>8. CASE ArmerDies(p) BY <2>8, ArmerAsked DEF ArmerDies, Goto, rows
  <2> QED BY <1>2, <2>1, <2>2, <2>3, <2>4, <2>5, <2>6, <2>7, <2>8 DEF ArmerStep
<1>3. ASSUME NEW a \in Ask, st[a] # "none", UNCHANGED <<of, armers>>,
             NEW s \in {"approved", "rejected", "timeout"}, st' \in {st, Resolved(a, s)}
      PROVE AskedOnce'
  <2>1. \A b \in Ask : st'[b] = "none" <=> st[b] = "none"
    BY <1>3 DEF Resolved, Inv1, TypeOK, RowTypes
  <2> QED BY <1>3, <2>1, AskedFrame
<1>4. ASSUME NEW m \in Msg, Receive(m) \/ Look(m) \/ MessageStep(m) \/ MessageDies(m)
      PROVE AskedOnce'
  <2>1. CASE mpc[m] \in {"deciding", "superseding"}
    <3>1. at[m] \in Ask /\ st[at[m]] # "none" BY <2>1 DEF Inv1, OthersHold
    <3>2. CASE UNCHANGED <<st, of, armers>> BY <1>1, <3>2
    <3>3. CASE Defer(m) BY <1>3, <3>1, <3>3 DEF Defer
    <3>4. CASE \E verb \in {"approved", "rejected", "changes"} : Decide(m, verb)
      BY <1>3, <3>1, <3>4 DEF Decide
    <3>5. CASE Supersede(m) BY <1>3, <3>1, <3>5 DEF Supersede
    <3> QED
      BY <1>4, <3>2, <3>3, <3>4, <3>5
      DEF MessageStep, Receive, Look, PassThrough, RefuseStale, StartDriver, Revise,
          OtherTurn, MessageDies, rows
  <2>2. CASE mpc[m] \notin {"deciding", "superseding"}
    BY <1>1, <1>4, <2>2
    DEF MessageStep, Receive, Look, PassThrough, RefuseStale, Defer, Decide, StartDriver,
        Revise, Supersede, OtherTurn, MessageDies, rows
  <2> QED BY <2>1, <2>2
<1>5. CASE TimeOut
  <2>1. hand \in Ask /\ st[hand] # "none" BY <1>5 DEF TimeOut, Inv1, OthersHold
  <2> QED BY <1>3, <1>5, <2>1 DEF TimeOut
<1>6. CASE UNCHANGED vars BY <1>1, <1>6 DEF vars, rows
<1>7. ASSUME NEW w \in Batch, Rearm(w) PROVE AskedOnce'
  <2>1. w \in Work /\ Sweeper \in Armer BY Works
  <2>2. work[w] # "none" BY <1>7 DEF Rearm, Stranded
  <2>3. \A v \in Work : work[v] # "none" => work'[v] # "none" BY <1>7 DEF Rearm, drafts
  <2>4. \A q \in Armer : /\ q = Sweeper => tgt'[q] = w
                         /\ q # Sweeper => pc'[q] = pc[q] /\ tgt'[q] = tgt[q]
    BY <1>7 DEF Rearm, Goto, Inv1, TypeOK, ArmerTypes
  <2> QED
    BY <1>7, <2>2, <2>4 DEF Rearm, AskedOnce, rows, drafts
<1> QED
  BY <1>1, <1>2, <1>4, <1>5, <1>6, <1>7, PersistAsked
  DEF Next, Reconcile, Expire, Belt, Scan, TimeOutBatch, SweepDies, Poll, rows

\* Word is a function, its batches follow work and its campaigns the rows.
LEMMA WordsOf ==
    /\ \A v \in Batch : v \in Work /\ Word[v] = BatchWord(v) /\ Word'[v] = BatchWord(v)'
    /\ \A v \in Work \ Batch : Word[v] = CampaignWord(v) /\ Word'[v] = CampaignWord(v)'
    /\ DOMAIN Word = Work /\ DOMAIN Word' = Work
    /\ Word = [v \in Work |-> Word[v]] /\ Word' = [v \in Work |-> Word'[v]]
<1> USE Works
<1>1. \A v \in Work : Word[v] = IF v \in Batch THEN BatchWord(v) ELSE CampaignWord(v)
  BY DEF Word
<1>2. \A v \in Work : Word'[v] = IF v \in Batch THEN BatchWord(v)' ELSE CampaignWord(v)'
  BY DEF Word
<1>3. DOMAIN Word = Work /\ DOMAIN Word' = Work BY DEF Word
<1>4. Word = [v \in Work |-> Word[v]] BY DEF Word
<1>5. Word' = [v \in Work |-> Word'[v]] BY DEF Word
<1> QED BY <1>1, <1>2, <1>3, <1>4, <1>5

LEMMA OneWordMoves ==
    ASSUME NEW w \in Work, \A v \in Work : v # w => Word'[v] = Word[v]
    PROVE  /\ Word' = [Word EXCEPT ![w] = Word'[w]]
           /\ Word'[w] = Word[w] => Word' = Word
<1> DEFINE W == Word
           V == Word'
<1>1. W = [v \in Work |-> W[v]] /\ V = [v \in Work |-> V[v]] BY WordsOf
<1>2. \A v \in Work : v # w => V[v] = W[v] OBVIOUS
<1> HIDE DEF W, V
<1>3. V = [W EXCEPT ![w] = V[w]] BY <1>1, <1>2
<1>4. V[w] = W[w] => V = W BY <1>1, <1>2
<1> QED BY <1>3, <1>4 DEF W, V

\* The four ways a word may move, as the abstract specification allows them.
LEMMA WordMay ==
    ASSUME NEW w \in Work, \A v \in Work : v # w => Word'[v] = Word[v], UNCHANGED acted,
           \/ Word'[w] = Word[w]
           \/ Word[w] = "open" /\ Word'[w] \in {"yes", "no"}
           \/ Word[w] = "yes" /\ Word'[w] = "no"
    PROVE  Consent!Next \/ UNCHANGED <<Word, acted>>
<1>1. /\ Word' = [Word EXCEPT ![w] = Word'[w]]
      /\ Word'[w] = Word[w] => Word' = Word
  BY OneWordMoves
<1>2. CASE Word'[w] = Word[w] BY <1>1, <1>2
<1>3. CASE Word[w] = "open" /\ Word'[w] \in {"yes", "no"}
  <2>1. Consent!Say(w) BY <1>1, <1>3 DEF Consent!Say
  <2> QED BY <2>1 DEF Consent!Next
<1>4. CASE Word[w] = "yes" /\ Word'[w] = "no"
  <2>1. Consent!Withdraw(w) BY <1>1, <1>4 DEF Consent!Withdraw
  <2> QED BY <2>1 DEF Consent!Next
<1> QED BY <1>2, <1>3, <1>4

\* A row that is decided, or rolled back, says so of its campaign once.
LEMMA RowSpeaks ==
    ASSUME ConsentInv, NEW a \in Ask, st[a] # "none",
           NEW s \in {"approved", "rejected", "timeout", "deleted"},
           st' = [st EXCEPT ![a] = s], st[a] = "open" \/ s = "deleted",
           UNCHANGED <<of, work, acted>>
    PROVE  Consent!Next \/ UNCHANGED <<Word, acted>>
<1> DEFINE w == of[a]
<1>1. w \in Work BY DEF ConsentInv, Inv1, RowsFilled
<1>2. \A b \in Ask : /\ b = a => st'[b] = s
                     /\ b # a => st'[b] = st[b]
  BY DEF ConsentInv, Inv1, TypeOK, RowTypes
<1>3. \A v \in Batch : BatchWord(v)' = BatchWord(v) BY DEF BatchWord
<1>4. \A v \in Work : v # w => CampaignWord(v)' = CampaignWord(v)
  BY <1>2 DEF CampaignWord
<1>5. \A v \in Work : v # w => Word'[v] = Word[v]
  BY <1>3, <1>4, WordsOf
<1>6. CASE w \in Batch
  <2>1. Word'[w] = Word[w] BY <1>3, <1>6, WordsOf
  <2> QED BY <1>1, <1>5, <2>1, WordMay
<1>7. CASE w \notin Batch
  <2>1. \A b \in Ask : of[b] = w /\ st[b] # "none" => b = a
    BY <1>7 DEF ConsentInv, AskedOnce
  <2>2. CampaignWord(w) = IF st[a] = "approved" THEN "yes"
                          ELSE IF st[a] = "open" THEN "open" ELSE "no"
    BY <2>1 DEF CampaignWord
  <2>3. \A b \in Ask : of[b] = w /\ st'[b] # "none" => b = a
    BY <1>2, <2>1
  <2>4. CampaignWord(w)' = IF s = "approved" THEN "yes" ELSE "no"
    BY <1>2, <2>3 DEF CampaignWord
  <2>5. Word[w] = CampaignWord(w) /\ Word'[w] = CampaignWord(w)' BY <1>1, <1>7, WordsOf
  <2> QED BY <1>1, <1>5, <2>2, <2>4, <2>5, WordMay
<1> QED BY <1>6, <1>7

\* A batch that is decided, or dropped, says so of itself.
LEMMA BatchSpeaks ==
    ASSUME ConsentInv, NEW w \in Batch,
           NEW s \in {"approved", "rejected", "edit", "cancelled"},
           work' = [work EXCEPT ![w] = s], work[w] = "awaiting" \/ s = "cancelled",
           UNCHANGED <<of, acted>>,
           \A a \in Ask : of[a] \notin Batch => st'[a] = st[a]
    PROVE  Consent!Next \/ UNCHANGED <<Word, acted>>
<1>1. w \in Work BY Works
<1>2. \A v \in Work : /\ v = w => work'[v] = s
                      /\ v # w => work'[v] = work[v]
  BY <1>1 DEF ConsentInv, Inv1, TypeOK, DraftTypes
<1>3. \A v \in Work \ Batch : CampaignWord(v)' = CampaignWord(v) BY DEF CampaignWord
<1>4. \A v \in Batch : v # w => BatchWord(v)' = BatchWord(v)
  BY <1>2, Works DEF BatchWord
<1>5. \A v \in Work : v # w => Word'[v] = Word[v]
  BY <1>3, <1>4, WordsOf
<1>6. BatchWord(w)' = IF s = "approved" THEN "yes" ELSE IF s = "edit" THEN "open" ELSE "no"
  BY <1>1, <1>2 DEF BatchWord
<1>7. work[w] \in BatchStatus BY <1>1 DEF ConsentInv, Inv1, TypeOK, DraftTypes
<1>8. /\ work[w] = "awaiting" => BatchWord(w) = "open"
      /\ BatchWord(w) \in {"open", "yes", "no"}
  BY <1>7 DEF BatchWord, BatchStatus
<1>9. Word[w] = BatchWord(w) /\ Word'[w] = BatchWord(w)' BY WordsOf
<1> QED BY <1>1, <1>5, <1>6, <1>8, <1>9, WordMay

LEMMA WordsKept ==
    ASSUME \A v \in Batch : BatchWord(v)' = BatchWord(v),
           \A v \in Work \ Batch : CampaignWord(v)' = CampaignWord(v)
    PROVE  Word' = Word
<1> DEFINE W == Word
           V == Word'
<1>1. W = [v \in Work |-> W[v]] /\ V = [v \in Work |-> V[v]] BY WordsOf
<1>2. \A v \in Work : V[v] = W[v] BY WordsOf
<1> HIDE DEF W, V
<1>3. V = W BY <1>1, <1>2
<1> QED BY <1>3 DEF W, V

LEMMA SameRows ==
    ASSUME UNCHANGED <<st, of, work>>
    PROVE  Word' = Word
<1>1. \A v \in Batch : BatchWord(v)' = BatchWord(v) BY DEF BatchWord
<1>2. \A v \in Work \ Batch : CampaignWord(v)' = CampaignWord(v) BY DEF CampaignWord
<1> QED BY <1>1, <1>2, WordsKept

\* A resolution, with its glue or without.
LEMMA ResolutionSpeaks ==
    ASSUME ConsentInv, NEW a \in Ask, st[a] # "none",
           NEW s \in {"approved", "rejected", "timeout"},
           NEW verb \in {"approved", "rejected", "changes", "timeout", "defer"},
           st' \in {st, Resolved(a, s)},
           UNCHANGED work \/ Glue(of[a], verb),
           UNCHANGED <<of, acted>>
    PROVE  Consent!Next \/ UNCHANGED <<Word, acted>>
<1>1. CASE UNCHANGED work
  <2>1. CASE UNCHANGED st BY <1>1, <2>1, SameRows
  <2>2. CASE st[a] = "open" /\ st' = [st EXCEPT ![a] = s] BY <1>1, <2>2, RowSpeaks
  <2> QED BY <2>1, <2>2 DEF Resolved
<1>2. CASE ~UNCHANGED work
  <2>1. of[a] \in Batch /\ work[of[a]] = "awaiting"
        /\ work' = [work EXCEPT ![of[a]] = Verdict(of[a], verb)]
    BY <1>2 DEF Glue, IsResolvable
  <2>2. \A b \in Ask : of[b] \notin Batch => st'[b] = st[b]
    BY <2>1 DEF Resolved, ConsentInv, Inv1, TypeOK, RowTypes
  <2> QED BY <2>1, <2>2, Verdicts, BatchSpeaks
<1> QED BY <1>1, <1>2

\* Work is set going on a yes.
LEMMA ActSpeaks ==
    ASSUME UNCHANGED <<st, of, work>>, NEW w \in Work, Word[w] = "yes",
           acted' \in {acted, acted \cup {w}}
    PROVE  Consent!Next \/ UNCHANGED <<Word, acted>>
<1>1. Word' = Word BY SameRows
<1>2. CASE acted' = acted BY <1>1, <1>2
<1>3. CASE acted' = acted \cup {w}
  <2>1. Consent!Act(w) BY <1>1, <1>3 DEF Consent!Act
  <2> QED BY <2>1 DEF Consent!Next
<1> QED BY <1>2, <1>3

LEMMA ArmerSpeaks ==
    ASSUME ConsentInv, NEW p \in Armer, ArmerStep(p) \/ ArmerDies(p)
    PROVE  Consent!Next \/ UNCHANGED <<Word, acted>>
<1> USE DEF ConsentInv
<1>1. CASE UNCHANGED <<st, of, work, acted>> BY <1>1, SameRows
<1>2. CASE Insert(p)
  <2>1. /\ asks' \in Ask /\ st[asks'] = "none"
        /\ st' = [st EXCEPT ![asks'] = "open"] /\ of' = [of EXCEPT ![asks'] = tgt[p]]
        /\ UNCHANGED <<work, acted>>
    BY <1>2, Works DEF Insert, drafts, Inv1, RowsFilled, TypeOK, RowTypes
  <2>2. \A b \in Ask : /\ b = asks' => st'[b] = "open"
                       /\ b # asks' => st'[b] = st[b] /\ of'[b] = of[b]
    BY <2>1 DEF Inv1, TypeOK, RowTypes
  <2>3. \A v \in Batch : BatchWord(v)' = BatchWord(v) BY <2>1 DEF BatchWord
  <2>4. \A v \in Work \ Batch : CampaignWord(v)' = CampaignWord(v)
    BY <2>1, <2>2 DEF CampaignWord
  <2> QED BY <2>1, <2>3, <2>4, WordsKept
<1>3. CASE Rollback(p)
  <2>1. row[p] \in Ask /\ st[row[p]] # "none" BY <1>3 DEF Rollback, Inv1, ArmersHold
  <2>2. CASE UNCHANGED st BY <1>1, <1>3, <2>2 DEF Rollback, drafts
  <2>3. CASE st' = [st EXCEPT ![row[p]] = "deleted"]
    BY <1>3, <2>1, <2>3, RowSpeaks DEF Rollback, drafts
  <2> QED BY <1>3, <2>2, <2>3 DEF Rollback
<1>4. CASE Armed(p)
  <2>1. \A v \in Batch : BatchWord(v)' = BatchWord(v)
    <3> TAKE v \in Batch
    <3>1. \/ work'[v] = work[v]
          \/ work[v] = "edit" /\ work'[v] = "awaiting"
      BY <1>4, Works DEF Armed, Inv1, TypeOK, DraftTypes
    <3> QED BY <3>1 DEF BatchWord
  <2>2. \A v \in Work \ Batch : CampaignWord(v)' = CampaignWord(v)
    BY <1>4 DEF CampaignWord, Armed, rows
  <2> QED BY <1>4, <2>1, <2>2, WordsKept DEF Armed
<1>5. CASE Refused(p)
  <2>1. CASE UNCHANGED work BY <1>1, <1>5, <2>1 DEF Refused, rows
  <2>2. CASE p \in Item /\ work' = [work EXCEPT ![tgt[p]] = "cancelled"]
    <3>1. tgt[p] \in Batch
      BY <1>5, <2>2, Works DEF Refused, Inv1, ArmersHold
    <3> QED BY <1>5, <2>2, <3>1, BatchSpeaks DEF Refused, rows
  <2> QED BY <1>5, <2>1, <2>2 DEF Refused
<1> QED
  BY <1>1, <1>2, <1>3, <1>4, <1>5
  DEF ArmerStep, Probe, LoseRace, Send, StartClock, ArmerDies, rows, drafts

LEMMA MessageSpeaks ==
    ASSUME ConsentInv, NEW m \in Msg,
           Receive(m) \/ Look(m) \/ MessageStep(m) \/ MessageDies(m)
    PROVE  Consent!Next \/ UNCHANGED <<Word, acted>>
<1> USE DEF ConsentInv
<1>1. CASE UNCHANGED <<st, of, work, acted>> BY <1>1, SameRows
<1>2. ASSUME Defer(m) \/ Supersede(m) \/ \E v \in {"approved", "rejected", "changes"} : Decide(m, v)
      PROVE at[m] \in Ask /\ st[at[m]] # "none"
  BY <1>2 DEF Defer, Supersede, Decide, Inv1, OthersHold
<1>3. CASE Defer(m)
  <2>1. /\ st' \in {st, Resolved(at[m], "rejected")}
        /\ UNCHANGED work \/ Glue(of[at[m]], "defer")
        /\ UNCHANGED <<of, acted>>
    BY <1>3 DEF Defer
  <2> QED BY <1>2, <1>3, <2>1, ResolutionSpeaks
<1>4. ASSUME NEW verb \in {"approved", "rejected", "changes"}, Decide(m, verb)
      PROVE  Consent!Next \/ UNCHANGED <<Word, acted>>
  <2>1. /\ st' \in {Resolved(at[m], "rejected"), Resolved(at[m], "approved")}
        /\ Glue(of[at[m]], verb)
        /\ UNCHANGED <<of, acted>>
    BY <1>4 DEF Decide
  <2> QED BY <1>2, <1>4, <2>1, ResolutionSpeaks
<1>5. CASE StartDriver(m)
  <2>1. of[at[m]] \in Batch BY <1>5 DEF StartDriver, Inv1, OthersHold
  <2>2. CASE work[of[at[m]]] = "approved"
    <3>1. Word[of[at[m]]] = "yes" BY <2>1, <2>2, WordsOf DEF BatchWord
    <3> QED BY <1>5, <2>1, <3>1, ActSpeaks, Works DEF StartDriver, rows
  <2>3. CASE work[of[at[m]]] # "approved"
    BY <1>1, <1>5, <2>3 DEF StartDriver, rows
  <2> QED BY <2>2, <2>3
<1>6. CASE Supersede(m)
  <2>1. /\ st' \in {st, Resolved(at[m], "rejected")}
        /\ UNCHANGED <<work, of, acted>>
    BY <1>6 DEF Supersede, drafts
  <2> QED BY <1>2, <1>6, <2>1, ResolutionSpeaks
<1> QED
  BY <1>1, <1>3, <1>4, <1>5, <1>6
  DEF MessageStep, Receive, Look, PassThrough, RefuseStale, Revise, OtherTurn,
      MessageDies, rows, drafts

LEMMA NextSpeaks ==
    ASSUME ConsentInv, [Next]_vars
    PROVE  [Consent!Next]_<<Word, acted>>
<1> USE DEF ConsentInv
<1>1. CASE UNCHANGED <<st, of, work, acted>> BY <1>1, SameRows
<1>2. ASSUME NEW r \in Run, NEW n \in 1 .. MaxDrafts, Persist(r, n)
      PROVE  UNCHANGED <<Word, acted>>
  <2>1. \A v \in Batch : BatchWord(v)' = BatchWord(v)
    <3> TAKE v \in Batch
    <3> DEFINE w == <<r, n>>
    <3>1. w \in Work /\ v \in Work /\ work[w] = "none" BY <1>2, Works DEF Persist
    <3>2. work' = [work EXCEPT ![w] = "awaiting"] BY <1>2 DEF Persist
    <3> HIDE DEF w
    <3>3. work'[v] = work[v] \/ (work[v] = "none" /\ work'[v] = "awaiting")
      BY <3>1, <3>2 DEF Inv1, TypeOK, DraftTypes
    <3> QED BY <3>3 DEF BatchWord
  <2>2. \A v \in Work \ Batch : CampaignWord(v)' = CampaignWord(v)
    BY <1>2 DEF CampaignWord, Persist, rows
  <2> QED BY <1>2, <2>1, <2>2, WordsKept DEF Persist
<1>3. ASSUME NEW w \in Batch, Reconcile(w)
      PROVE  Consent!Next \/ UNCHANGED <<Word, acted>>
  <2>1. Word[w] = "yes" BY <1>3, WordsOf DEF Reconcile, Unstarted, BatchWord
  <2> QED BY <1>3, <2>1, ActSpeaks, Works DEF Reconcile, rows
<1>4. CASE TimeOut
  <2>1. hand \in Ask /\ st[hand] # "none" BY <1>4 DEF TimeOut, Inv1, OthersHold
  <2>2. st' = Resolved(hand, "timeout") /\ UNCHANGED <<of, work, acted>>
    BY <1>4 DEF TimeOut, drafts
  <2> QED BY <2>1, <2>2, ResolutionSpeaks
<1>5. CASE TimeOutBatch
  <2>1. hand \in Ask /\ st[hand] # "none" BY <1>5 DEF TimeOutBatch, Inv1, OthersHold
  <2>2. /\ UNCHANGED work \/ Glue(of[hand], "timeout")
        /\ UNCHANGED <<st, of, acted>>
    BY <1>5 DEF TimeOutBatch, rows
  <2> QED BY <2>1, <2>2, ResolutionSpeaks
<1>6. ASSUME NEW c \in Campaign, Poll(c)
      PROVE  Consent!Next \/ UNCHANGED <<Word, acted>>
  <2>1. \/ UNCHANGED acted
        \/ \E b \in AsksOf(c) : st[b] = "approved" /\ acted' = acted \cup {of[b]}
    BY <1>6 DEF Poll, MayExecute
  <2>2. CASE UNCHANGED acted BY <1>1, <1>6, <2>2 DEF Poll, rows
  <2>3. ASSUME NEW b \in AsksOf(c), st[b] = "approved", acted' = acted \cup {of[b]}
        PROVE  Consent!Next \/ UNCHANGED <<Word, acted>>
    <3>1. b \in Ask /\ of[b] \in Work /\ of[b] \notin Batch
      BY Works DEF AsksOf, Inv1, RowsFilled
    <3>2. Word[of[b]] = "yes" BY <2>3, <3>1, WordsOf DEF CampaignWord
    <3> QED BY <1>6, <2>3, <3>1, <3>2, ActSpeaks DEF Poll, rows
  <2> QED BY <2>1, <2>2, <2>3
<1>7. CASE UNCHANGED vars BY <1>1, <1>7 DEF vars, rows, drafts
<1> QED
  BY <1>1, <1>2, <1>3, <1>4, <1>5, <1>6, <1>7, ArmerSpeaks, MessageSpeaks
  DEF Next, Rearm, Expire, Belt, Scan, SweepDies, rows, drafts

\* The approval machinery implements the promise made to the owner: rows, batches,
\* loops, sweeps and retries only ever move word and deed as CustomerConsent allows.
THEOREM ConsentRefinement == Spec => ConsentKept
<1>1. Init => ConsentInv
  <2>1. ASSUME Init PROVE AskedOnce
    <3>1. \A a \in Ask : st[a] = "none" BY <2>1 DEF Init
    <3>2. \A p \in Armer : pc[p] = "idle" BY <2>1 DEF Init
    <3> QED BY <3>1, <3>2 DEF AskedOnce
  <2> QED BY <2>1, InitInv1 DEF ConsentInv
<1>2. ConsentInv /\ [Next]_vars => ConsentInv'
  BY NextInv1, NextAsked DEF ConsentInv
<1>3. Init => Consent!Init
  BY Works DEF Init, Consent!Init, Word, BatchWord, CampaignWord
<1>4. ConsentInv /\ [Next]_vars => [Consent!Next]_<<Word, acted>>
  BY NextSpeaks
<1> QED BY <1>1, <1>2, <1>3, <1>4, PTL DEF Spec, ConsentKept, Consent!Spec

-------------------------------------------------------------------------------
(* The first commit decides.                                                    *)

\* A decided row keeps its decision, or is rolled back (mark_resolved's WHERE clause,
\* delete_by_id without one).
THEOREM DecisionsStand == Spec => DecisionStands
<1> DEFINE D == \A a \in Ask : st[a] \in {"approved", "rejected", "timeout"}
                                  => st'[a] \in {st[a], "deleted"}
<1>1. ASSUME Inv1, [Next]_vars PROVE D
  <2> USE <1>1 DEF Inv1
  <2>1. CASE UNCHANGED st BY <2>1
  <2>2. ASSUME NEW p \in Armer, Insert(p) PROVE D
    <3>1. st[asks'] = "none" /\ st' = [st EXCEPT ![asks'] = "open"]
      BY <2>2, Works DEF Insert, RowsFilled, TypeOK, RowTypes
    <3> QED BY <3>1 DEF TypeOK, RowTypes
  <2>3. ASSUME NEW p \in Armer, Rollback(p) PROVE D
    BY <2>3 DEF Rollback, TypeOK, RowTypes
  <2>4. ASSUME NEW a, NEW s \in Status, st' \in {st, Resolved(a, s)} PROVE D
    BY <2>4 DEF Resolved, TypeOK, RowTypes
  <2>5. ASSUME NEW p \in Armer, ArmerStep(p) \/ ArmerDies(p) PROVE D
    BY <2>1, <2>2, <2>3, <2>5
    DEF ArmerStep, Probe, LoseRace, Send, StartClock, Armed, Refused, ArmerDies, rows
  <2>6. ASSUME NEW m \in Msg, Receive(m) \/ Look(m) \/ MessageStep(m) \/ MessageDies(m)
        PROVE  D
    BY <2>1, <2>4, <2>6
    DEF MessageStep, Receive, Look, PassThrough, RefuseStale, Defer, Decide, StartDriver,
        Revise, Supersede, OtherTurn, MessageDies, rows, Status
  <2>7. CASE TimeOut BY <2>4, <2>7 DEF TimeOut, Status
  <2> QED
    BY <2>1, <2>5, <2>6, <2>7, <1>1
    DEF Next, Persist, Rearm, Reconcile, Expire, Belt, Scan, TimeOutBatch, SweepDies, Poll,
        rows, vars
<1>2. Inv1 /\ [Next]_vars => [D]_vars BY <1>1
<1> QED BY InitInv1, NextInv1, <1>2, PTL DEF Spec, DecisionStands

===============================================================================
