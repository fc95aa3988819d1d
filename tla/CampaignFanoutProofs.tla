------------------------- MODULE CampaignFanoutProofs -------------------------
(* Type correctness of CampaignFanout and its promises to a customer, for every *)
(* set of campaigns, customers and processes and every bound. The last two      *)
(* sections are about one process per campaign, or per customer, as they say.   *)
EXTENDS CampaignFanout, TLAPS

USE FanoutConstants

Held == {"call", "flip", "fail"}
InHand == {"check", "claim"} \cup Held

\* Nothing was delivered for the pair, or nobody can know.
Fresh(k) == delivered[k] = 0 \/ k \in blurred

\* An execution at or after the call holds the 'sending' marker of its pair, alone;
\* a pair that may be claimed again, or is about to be called, is fresh.
Marker ==
    /\ \A k \in Key : ledger[k] \in {"none", "error"} => Fresh(k)
    /\ \A k \in Key : delivered[k] <= 1 \/ k \in blurred
    /\ \A e \in Exec : pc[e] \in Held => ledger[KeyOf(e)] = "sending"
    /\ \A e \in Exec : pc[e] \in {"call", "fail"} => Fresh(KeyOf(e))
    /\ \A e, f \in Exec : e # f /\ pc[e] \in Held /\ pc[f] \in Held => KeyOf(e) # KeyOf(f)

IInv == TypeOK /\ Marker

-------------------------------------------------------------------------------
(* Lemmas about the building blocks.                                            *)

(* The pair in hand is a pair.                                                  *)
LEMMA PairInHand ==
    ASSUME TypeOK, NEW e \in Exec, pc[e] \in InHand
    PROVE  camp[e] \in Campaign /\ cur[e] \in Customer /\ KeyOf(e) \in Key
BY DEF TypeOK, KeyOf, Key, InHand, Held

(* The tool works on a recipient in hand.                                       *)
LEMMA ToolHolds ==
    ASSUME NEW e \in Exec, ToolStep(e)
    PROVE  pc[e] \in InHand
BY DEF ToolStep, Declines, Clears, Claims, LosesClaim, Delivers, DeliversAndRaises,
       Rejected, RecordsSent, RecordsError, LedgerFails, InHand, Held

LocalsOK ==
    /\ pc \in [Exec -> {"idle", "gate", "entry", "boundary", "check", "claim", "call",
                        "flip", "fail"}]
    /\ camp \in [Exec -> Campaign \cup {Nobody}]
    /\ todo \in [Exec -> SUBSET Customer]
    /\ snap \in [Exec -> SUBSET Customer]
    /\ cur \in [Exec -> Customer \cup {Nobody}]
    /\ \A e \in Exec : pc[e] # "idle" => camp[e] \in Campaign
    /\ \A e \in Exec : pc[e] \in {"check", "claim", "call", "flip", "fail"} => cur[e] \in Customer
    /\ warned \subseteq Exec

(* Leaving keeps the locals' types, and so does turning to the next recipient.  *)
LEMMA LeaveType ==
    ASSUME LocalsOK, NEW e \in Exec, Leave(e)
    PROVE  LocalsOK'
BY DEF LocalsOK, Leave, Goto

LEMMA NextRecipientType ==
    ASSUME LocalsOK, NEW e \in Exec, pc[e] # "idle", NextRecipient(e)
    PROVE  LocalsOK'
BY DEF LocalsOK, NextRecipient, Goto

(* Moving to a place of the same kind does too.                                 *)
LEMMA GotoType ==
    ASSUME LocalsOK, NEW e \in Exec, NEW l \in {"entry", "boundary", "claim", "call", "flip", "fail"},
           pc[e] # "idle", l \in {"entry", "boundary"} \/ pc[e] \in InHand,
           Goto(e, l), UNCHANGED <<camp, cur, warned>>,
           todo' \in [Exec -> SUBSET Customer], snap' \in [Exec -> SUBSET Customer]
    PROVE  LocalsOK'
BY DEF LocalsOK, Goto, InHand, Held

(* Counting a message keeps a counter a counter.                                *)
LEMMA CountType ==
    ASSUME NEW S, NEW f \in [S -> Nat], NEW q
    PROVE  [f EXCEPT ![q] = @ + 1] \in [S -> Nat]
<1>1. \A u \in S : [f EXCEPT ![q] = @ + 1][u] = IF u = q THEN f[q] + 1 ELSE f[u]
  OBVIOUS
<1>2. \A u \in S : (IF u = q THEN f[q] + 1 ELSE f[u]) \in Nat
  OBVIOUS
<1> QED
  BY <1>1, <1>2

RestOK ==
    /\ status \in [Campaign -> Pending \cup {"sent", "failed", "cancelled"}]
    /\ ledger \in [Key -> {"none", "sending", "sent", "error"}]
    /\ old \subseteq Key
    /\ lastMsg \in [Campaign -> {"none", "recent", "quiet"}]
    /\ refused \subseteq Customer
    /\ withdrawn \in BOOLEAN
    /\ starts \in [Campaign -> Nat] /\ days \in Nat
    /\ delivered \in [Key -> Nat]
    /\ blurred \subseteq Key
    /\ heard \in [Customer -> Nat]
    /\ killed \subseteq Campaign
    /\ late \in [Campaign -> Nat]

LEMMA Parts == TypeOK <=> LocalsOK /\ RestOK
BY DEF TypeOK, LocalsOK, RestOK

LEMMA PartsPrime == TypeOK' <=> LocalsOK' /\ RestOK'
BY DEF TypeOK, LocalsOK, RestOK

(* A message taken is counted for its pair, its customer and its campaign.      *)
LEMMA TakenType ==
    ASSUME RestOK, NEW e \in Exec, Taken(e)
    PROVE  /\ delivered' \in [Key -> Nat]
           /\ heard' \in [Customer -> Nat]
           /\ late' \in [Campaign -> Nat]
BY CountType, Zenon DEF RestOK, Taken

(* A step that leaves the rest alone keeps its types.                           *)
LEMMA RestSame ==
    ASSUME RestOK, UNCHANGED <<rows, past, starts, days, killed>>
    PROVE  RestOK'
BY DEF RestOK, rows, past

LEMMA LocalsSame ==
    ASSUME LocalsOK, UNCHANGED locals
    PROVE  LocalsOK'
BY DEF LocalsOK, locals

-------------------------------------------------------------------------------
(* Type correctness.                                                            *)

LEMMA TypeInit == Init => TypeOK
<1> SUFFICES ASSUME Init PROVE TypeOK
  OBVIOUS
<1>1. LocalsOK
  BY DEF Init, LocalsOK
<1>2. /\ status \in [Campaign -> Pending \cup {"sent", "failed", "cancelled"}]
      /\ ledger \in [Key -> {"none", "sending", "sent", "error"}]
      /\ lastMsg \in [Campaign -> {"none", "recent", "quiet"}]
  BY DEF Init, Pending
<1>3. withdrawn \in BOOLEAN
  BY Zenon DEF Init
<1>4. /\ starts \in [Campaign -> Nat] /\ days \in Nat
      /\ delivered \in [Key -> Nat]
      /\ heard \in [Customer -> Nat]
      /\ late \in [Campaign -> Nat]
  BY DEF Init
<1>5. old = {} /\ refused = {} /\ blurred = {} /\ killed = {}
  BY DEF Init
<1> QED
  BY <1>1, <1>2, <1>3, <1>4, <1>5, Parts DEF RestOK

LEMMA ToolType ==
    ASSUME TypeOK, NEW e \in Exec, ToolStep(e)
    PROVE  TypeOK'
<1>1. LocalsOK /\ RestOK
  BY Parts
<1>2. pc[e] \in InHand
  BY ToolHolds
<1>3. KeyOf(e) \in Key /\ camp[e] \in Campaign /\ pc[e] # "idle"
  BY <1>2, PairInHand DEF InHand, Held
<1>4. todo \in [Exec -> SUBSET Customer] /\ snap \in [Exec -> SUBSET Customer]
  BY <1>1 DEF LocalsOK
<1>5. CASE Declines(e) \/ LosesClaim(e) \/ LedgerFails(e)
  <2>1. LocalsOK'
    BY <1>1, <1>3, <1>5, NextRecipientType DEF Declines, LosesClaim, LedgerFails
  <2> QED
    BY <1>1, <1>5, <2>1, RestSame, PartsPrime DEF Declines, LosesClaim, LedgerFails
<1>6. CASE Clears(e) \/ Rejected(e)
  <2>1. LocalsOK'
    BY <1>1, <1>2, <1>3, <1>4, <1>6, GotoType DEF Clears, Rejected
  <2> QED
    BY <1>1, <1>6, <2>1, RestSame, PartsPrime DEF Clears, Rejected
<1>7. CASE Claims(e)
  <2>1. LocalsOK'
    BY <1>1, <1>2, <1>3, <1>4, <1>7, GotoType DEF Claims
  <2>2. RestOK'
    BY <1>1, <1>7 DEF RestOK, Claims, past
  <2> QED
    BY <2>1, <2>2, PartsPrime
<1>8. CASE Delivers(e) \/ DeliversAndRaises(e)
  <2>1. LocalsOK'
    BY <1>1, <1>2, <1>3, <1>4, <1>8, GotoType DEF Delivers, DeliversAndRaises
  <2>2. /\ delivered' \in [Key -> Nat]
        /\ heard' \in [Customer -> Nat]
        /\ late' \in [Campaign -> Nat]
    BY <1>1, <1>8, TakenType DEF Delivers, DeliversAndRaises
  <2>3. blurred' \subseteq Key
    BY <1>1, <1>3, <1>8 DEF RestOK, Delivers, DeliversAndRaises
  <2>4. UNCHANGED <<status, ledger, old, lastMsg, refused, withdrawn, starts, days, killed>>
    BY <1>8 DEF Delivers, DeliversAndRaises, rows
  <2>5. RestOK'
    BY <1>1, <2>2, <2>3, <2>4 DEF RestOK
  <2> QED
    BY <2>1, <2>5, PartsPrime
<1>9. CASE RecordsSent(e) \/ RecordsError(e)
  <2>1. PICK l \in {"sent", "error"} : WritesLedger(e, l)
    BY <1>9 DEF RecordsSent, RecordsError
  <2>2. LocalsOK'
    BY <1>1, <1>3, <2>1, NextRecipientType DEF WritesLedger
  <2>3. ledger' \in [Key -> {"none", "sending", "sent", "error"}]
    BY <1>1, <2>1 DEF RestOK, WritesLedger
  <2>4. lastMsg' \in [Campaign -> {"none", "recent", "quiet"}]
    BY <1>1, <2>1 DEF RestOK, WritesLedger
  <2>5. RestOK'
    BY <1>1, <2>1, <2>3, <2>4 DEF RestOK, WritesLedger, past
  <2> QED
    BY <2>2, <2>5, PartsPrime
<1> QED
  BY <1>5, <1>6, <1>7, <1>8, <1>9 DEF ToolStep

LEMMA RunType ==
    ASSUME TypeOK, NEW e \in Exec, RunStep(e) \/ Crash(e) \/ \E c \in Campaign : Start(e, c)
    PROVE  TypeOK'
<1>1. LocalsOK /\ RestOK
  BY Parts
<1>2. todo \in [Exec -> SUBSET Customer] /\ snap \in [Exec -> SUBSET Customer]
  BY <1>1 DEF LocalsOK
<1>3. CASE GateRefuses(e) \/ KillStops(e) \/ AdvanceFails(e) \/ Crash(e)
  <2>1. LocalsOK'
    BY <1>1, <1>3, LeaveType DEF GateRefuses, KillStops, AdvanceFails, Crash
  <2> QED
    BY <1>1, <1>3, <2>1, RestSame, PartsPrime DEF GateRefuses, KillStops, AdvanceFails, Crash
<1>4. CASE GatePasses(e)
  <2>1. pc[e] # "idle" /\ Goto(e, "entry") /\ UNCHANGED <<camp, cur, warned>>
    BY <1>4 DEF GatePasses
  <2>2. todo' \in [Exec -> SUBSET Customer] /\ snap' \in [Exec -> SUBSET Customer]
    BY <1>1, <1>2, <1>4 DEF GatePasses, RestOK
  <2>3. LocalsOK'
    BY <1>1, <2>1, <2>2, GotoType
  <2> QED
    BY <1>1, <1>4, <2>3, RestSame, PartsPrime DEF GatePasses
<1>5. CASE Entry(e)
  <2>1. LocalsOK'
    BY <1>1, <1>2, <1>5, GotoType DEF Entry
  <2> QED
    BY <1>1, <1>5, <2>1, RestSame, PartsPrime DEF Entry
<1>6. ASSUME NEW u \in Customer, Skip(e, u) PROVE TypeOK'
  <2>1. LocalsOK'
    BY <1>1, <1>6 DEF LocalsOK, Skip
  <2> QED
    BY <1>1, <1>6, <2>1, RestSame, PartsPrime DEF Skip
<1>7. ASSUME NEW u \in Customer, TakeUp(e, u) PROVE TypeOK'
  <2>1. LocalsOK'
    BY <1>1, <1>7 DEF LocalsOK, TakeUp, Goto
  <2> QED
    BY <1>1, <1>7, <2>1, RestSame, PartsPrime DEF TakeUp
<1>8. CASE Advance(e)
  <2>1. LocalsOK'
    BY <1>1, <1>8, LeaveType DEF Advance
  <2>2. RestOK'
    BY <1>1, <1>8 DEF RestOK, Advance, past
  <2> QED
    BY <2>1, <2>2, PartsPrime
<1>9. CASE ToolStep(e)
  BY <1>9, ToolType
<1>10. ASSUME NEW c \in Campaign, Start(e, c) PROVE TypeOK'
  <2>1. LocalsOK'
    BY <1>1, <1>10 DEF LocalsOK, Start, Goto
  <2>2. starts' \in [Campaign -> Nat]
    BY <1>1, <1>10, CountType, Zenon DEF RestOK, Start
  <2>3. RestOK'
    BY <1>1, <1>10, <2>2 DEF RestOK, Start, rows, past
  <2> QED
    BY <2>1, <2>3, PartsPrime
<1> QED
  BY <1>3, <1>4, <1>5, <1>6, <1>7, <1>8, <1>9, <1>10 DEF RunStep

LEMMA OthersType ==
    ASSUME TypeOK,
           \/ \E c \in Campaign : Kill(c)
           \/ \E u \in Customer : Refuses(u) \/ Returns(u)
           \/ OwnerStops \/ OwnerReturns \/ TwoHoursPass \/ DaysPass \/ Sweep
    PROVE  TypeOK'
<1>1. LocalsOK /\ RestOK
  BY Parts
<1>2. Quiet \in [Campaign -> {"none", "recent", "quiet"}]
  BY <1>1 DEF RestOK, Quiet
<1>3. ASSUME NEW u \in Customer, Returns(u) PROVE TypeOK'
  <2>1. LocalsOK'
    BY <1>1, <1>3 DEF LocalsOK, Returns
  <2>2. RestOK'
    BY <1>1, <1>3 DEF RestOK, Returns, past
  <2> QED
    BY <2>1, <2>2, PartsPrime
<1>4. ASSUME NEW c \in Campaign, Kill(c) PROVE RestOK' /\ UNCHANGED locals
  BY <1>1, <1>4 DEF RestOK, Kill, past
<1>5. ASSUME NEW u \in Customer, Refuses(u) PROVE RestOK' /\ UNCHANGED locals
  BY <1>1, <1>5 DEF RestOK, Refuses, past
<1>6. CASE OwnerStops \/ OwnerReturns
  BY <1>1, <1>6, LocalsSame, PartsPrime DEF RestOK, OwnerStops, OwnerReturns, past
<1>7. CASE TwoHoursPass
  BY <1>1, <1>2, <1>7, LocalsSame, PartsPrime DEF RestOK, TwoHoursPass, past
<1>8. CASE DaysPass
  BY <1>1, <1>2, <1>8, LocalsSame, PartsPrime DEF RestOK, DaysPass
<1>9. CASE Sweep
  BY <1>1, <1>9, LocalsSame, PartsPrime DEF RestOK, Sweep, past
<1> QED
  BY <1>1, <1>3, <1>4, <1>5, <1>6, <1>7, <1>8, <1>9, LocalsSame, PartsPrime

LEMMA TypeNext == TypeOK /\ [Next]_vars => TypeOK'
<1>1. TypeOK /\ UNCHANGED vars => TypeOK'
  BY DEF TypeOK, vars, rows, locals, past
<1> QED
  BY <1>1, RunType, OthersType DEF Next

(* Every reachable state has its types.                                         *)
THEOREM FanoutTypes == Spec => []TypeOK
BY TypeInit, TypeNext, PTL DEF Spec

-------------------------------------------------------------------------------
(* The marker.                                                                  *)

LEMMA MarkerInit == Init => Marker
BY DEF Init, Marker, Fresh, Held

(* A step that writes no ledger row and reports no message keeps the marker, if *)
(* nobody comes to hold one by it.                                              *)
LEMMA MarkerKept ==
    ASSUME Marker, UNCHANGED <<ledger, delivered, blurred>>,
           \A f \in Exec : pc'[f] \in Held =>
               /\ pc[f] \in Held /\ camp'[f] = camp[f] /\ cur'[f] = cur[f]
               /\ pc'[f] \in {"call", "fail"} => pc[f] \in {"call", "fail"}
    PROVE  Marker'
<1>1. \A k \in Key : Fresh(k)' <=> Fresh(k)
  BY DEF Fresh
<1>2. \A f \in Exec : pc'[f] \in Held => KeyOf(f)' = KeyOf(f)
  BY DEF KeyOf
<1>3. \A k \in Key : ledger'[k] \in {"none", "error"} => Fresh(k)'
  BY <1>1 DEF Marker
<1>4. \A k \in Key : (delivered[k] <= 1 \/ k \in blurred)'
  BY DEF Marker
<1>5. \A f \in Exec : pc'[f] \in Held => ledger'[KeyOf(f)'] = "sending"
  BY <1>2 DEF Marker
<1>6. \A f \in Exec : pc'[f] \in {"call", "fail"} => Fresh(KeyOf(f))'
  <2>1. \A f \in Exec : pc'[f] \in {"call", "fail"} => KeyOf(f)' = KeyOf(f)
    BY <1>2 DEF Held
  <2>2. \A f \in Exec : pc'[f] \in {"call", "fail"} => Fresh(KeyOf(f))
    BY DEF Marker, Held
  <2> QED
    BY <2>1, <2>2 DEF Fresh
<1>7. \A f, g \in Exec : f # g /\ pc'[f] \in Held /\ pc'[g] \in Held
                            => KeyOf(f)' # KeyOf(g)'
  BY <1>2 DEF Marker
<1> QED
  BY <1>3, <1>4, <1>5, <1>6, <1>7 DEF Marker

(* Leaving, turning to the next recipient and moving elsewhere hold nothing new.*)
LEMMA LetsGo ==
    ASSUME LocalsOK, NEW e \in Exec,
           Leave(e) \/ NextRecipient(e)
    PROVE  \A f \in Exec : pc'[f] \in Held =>
               f # e /\ pc'[f] = pc[f] /\ camp'[f] = camp[f] /\ cur'[f] = cur[f]
BY DEF LocalsOK, Leave, NextRecipient, Goto, Held

LEMMA MovesOn ==
    ASSUME LocalsOK, NEW e \in Exec, NEW l, Goto(e, l)
    PROVE  /\ pc'[e] = l
           /\ \A f \in Exec : f # e => pc'[f] = pc[f]
BY DEF LocalsOK, Goto

LEMMA MarkerTool ==
    ASSUME IInv, NEW e \in Exec, ToolStep(e)
    PROVE  Marker'
<1> USE DEF Held
<1>1. TypeOK /\ LocalsOK /\ RestOK /\ Marker
  BY Parts DEF IInv
<1>2. pc[e] \in InHand
  BY ToolHolds
<1>3. KeyOf(e) \in Key
  BY <1>1, <1>2, PairInHand
<1>4. CASE Declines(e) \/ LosesClaim(e) \/ LedgerFails(e)
  <2>1. NextRecipient(e) /\ UNCHANGED <<ledger, delivered, blurred>>
    BY <1>4 DEF Declines, LosesClaim, LedgerFails, rows, past
  <2> QED
    BY <1>1, <2>1, LetsGo, MarkerKept
<1>5. CASE Clears(e) \/ Rejected(e)
  <2>1. PICK l \in {"claim", "fail"} : Goto(e, l) /\ (l = "fail" => pc[e] = "call")
    BY <1>5 DEF Clears, Rejected
  <2>2. UNCHANGED <<ledger, delivered, blurred, camp, cur>>
    BY <1>5 DEF Clears, Rejected, rows, past
  <2> QED
    BY <1>1, <2>1, <2>2, MovesOn, MarkerKept
<1>6. CASE Claims(e)
  <2>1. /\ ledger[KeyOf(e)] \in {"none", "error"}
        /\ ledger' = [ledger EXCEPT ![KeyOf(e)] = "sending"]
        /\ UNCHANGED <<delivered, blurred, camp, cur>>
    BY <1>1, <1>3, <1>6 DEF Claims, Claimable, past, RestOK
  <2>2. pc'[e] = "call" /\ \A f \in Exec : f # e => pc'[f] = pc[f]
    BY <1>1, <1>6, MovesOn DEF Claims
  <2>3. \A f \in Exec : KeyOf(f)' = KeyOf(f)
    BY <2>1 DEF KeyOf
  <2>4. \A f \in Exec : f # e /\ pc[f] \in Held => KeyOf(f) # KeyOf(e)
    BY <1>1, <2>1 DEF Marker
  <2>5. Fresh(KeyOf(e)) /\ \A k \in Key : Fresh(k)' = Fresh(k)
    BY <1>1, <1>3, <2>1 DEF Marker, Fresh
  <2>6. \A f \in Exec : pc[f] \in Held => KeyOf(f) \in Key
    BY <1>1, PairInHand DEF InHand
  <2>7. ledger \in [Key -> {"none", "sending", "sent", "error"}]
    BY <1>1 DEF RestOK
  <2>8. \A k \in Key : ledger'[k] \in {"none", "error"} => Fresh(k)'
    BY <1>1, <2>1, <2>5, <2>7 DEF Marker
  <2>9. \A k \in Key : (delivered[k] <= 1 \/ k \in blurred)'
    BY <1>1, <2>1 DEF Marker
  <2>10. \A f \in Exec : pc'[f] \in Held => ledger'[KeyOf(f)'] = "sending"
    BY <1>1, <1>3, <2>1, <2>2, <2>3, <2>4, <2>6, <2>7 DEF Marker
  <2>11. \A f \in Exec : pc'[f] \in {"call", "fail"} => Fresh(KeyOf(f))'
    BY <1>1, <1>3, <2>1, <2>2, <2>3, <2>5, <2>6 DEF Marker, Fresh
  <2>12. \A f, g \in Exec : f # g /\ pc'[f] \in Held /\ pc'[g] \in Held
                              => KeyOf(f)' # KeyOf(g)'
    BY <1>1, <2>2, <2>3, <2>4 DEF Marker
  <2> QED
    BY <2>8, <2>9, <2>10, <2>11, <2>12 DEF Marker
<1>7. CASE Delivers(e) \/ DeliversAndRaises(e)
  <2>1. /\ pc[e] = "call"
        /\ delivered' = [delivered EXCEPT ![KeyOf(e)] = @ + 1]
        /\ UNCHANGED <<ledger, camp, cur>>
    BY <1>7 DEF Delivers, DeliversAndRaises, Taken, rows
  <2>2. PICK l \in {"flip", "fail"} :
            /\ Goto(e, l)
            /\ l = "flip" => blurred' = blurred
            /\ l = "fail" => blurred' = blurred \cup {KeyOf(e)}
    BY <1>7 DEF Delivers, DeliversAndRaises
  <2>3. pc'[e] = l /\ \A f \in Exec : f # e => pc'[f] = pc[f]
    BY <1>1, <2>2, MovesOn
  <2>4. \A f \in Exec : KeyOf(f)' = KeyOf(f)
    BY <2>1 DEF KeyOf
  <2>5. delivered \in [Key -> Nat]
    BY <1>1 DEF RestOK
  <2>6. ledger[KeyOf(e)] = "sending" /\ Fresh(KeyOf(e))
    BY <1>1, <2>1 DEF Marker
  <2>7. \A k \in Key : k # KeyOf(e) =>
            delivered'[k] = delivered[k] /\ (k \in blurred <=> k \in blurred')
    BY <1>3, <2>1, <2>2, <2>5
  <2>8. delivered'[KeyOf(e)] <= 1 \/ KeyOf(e) \in blurred'
    BY <1>3, <2>1, <2>2, <2>5, <2>6 DEF Fresh
  <2>9. \A f \in Exec : f # e /\ pc[f] \in Held => KeyOf(f) \in Key /\ KeyOf(f) # KeyOf(e)
    BY <1>1, <2>1, PairInHand DEF Marker, InHand
  <2>10. \A k \in Key : ledger'[k] \in {"none", "error"} => Fresh(k)'
    BY <1>1, <2>1, <2>6, <2>7 DEF Marker, Fresh
  <2>11. \A k \in Key : (delivered[k] <= 1 \/ k \in blurred)'
    BY <1>1, <2>7, <2>8 DEF Marker
  <2>12. \A f \in Exec : pc'[f] \in Held => ledger'[KeyOf(f)'] = "sending"
    BY <1>1, <2>1, <2>3, <2>4, <2>6 DEF Marker
  <2>13. \A f \in Exec : pc'[f] \in {"call", "fail"} => Fresh(KeyOf(f))'
    <3>1. SUFFICES ASSUME NEW f \in Exec, pc'[f] \in {"call", "fail"}
                   PROVE  Fresh(KeyOf(f))'
      OBVIOUS
    <3>2. CASE f = e
      BY <2>2, <2>3, <2>4, <3>1, <3>2 DEF Fresh
    <3>3. CASE f # e
      BY <1>1, <2>3, <2>4, <2>7, <2>9, <3>1, <3>3 DEF Marker, Fresh
    <3> QED
      BY <3>2, <3>3
  <2>14. \A f, g \in Exec : f # g /\ pc'[f] \in Held /\ pc'[g] \in Held
                              => KeyOf(f)' # KeyOf(g)'
    BY <1>1, <2>1, <2>3, <2>4 DEF Marker
  <2> QED
    BY <2>10, <2>11, <2>12, <2>13, <2>14 DEF Marker
<1>8. CASE RecordsSent(e) \/ RecordsError(e)
  <2>1. PICK l \in {"sent", "error"} :
            WritesLedger(e, l) /\ pc[e] \in {"flip", "fail"} /\ (l = "error" => pc[e] = "fail")
    BY <1>8 DEF RecordsSent, RecordsError
  <2>2. /\ NextRecipient(e)
        /\ ledger' = [ledger EXCEPT ![KeyOf(e)] = IF @ = "sent" THEN @ ELSE l]
        /\ UNCHANGED <<delivered, blurred>>
    BY <2>1 DEF WritesLedger, past
  <2>3. \A f \in Exec : pc'[f] \in Held =>
            f # e /\ pc'[f] = pc[f] /\ KeyOf(f)' = KeyOf(f)
    BY <1>1, <2>2, LetsGo DEF KeyOf
  <2>4. \A f \in Exec : f # e /\ pc[f] \in Held => KeyOf(f) \in Key /\ KeyOf(f) # KeyOf(e)
    BY <1>1, <2>1, PairInHand DEF Marker, InHand
  <2>5. ledger \in [Key -> {"none", "sending", "sent", "error"}]
    BY <1>1 DEF RestOK
  <2>6. ledger[KeyOf(e)] = "sending" /\ (l = "error" => Fresh(KeyOf(e)))
    BY <1>1, <2>1 DEF Marker
  <2>7. ledger'[KeyOf(e)] = l /\ \A k \in Key : k # KeyOf(e) => ledger'[k] = ledger[k]
    BY <1>3, <2>2, <2>5, <2>6
  <2>8. \A k \in Key : ledger'[k] \in {"none", "error"} => Fresh(k)'
    BY <1>1, <2>1, <2>2, <2>6, <2>7 DEF Marker, Fresh
  <2>9. \A k \in Key : (delivered[k] <= 1 \/ k \in blurred)'
    BY <1>1, <2>2 DEF Marker
  <2>10. \A f \in Exec : pc'[f] \in Held => ledger'[KeyOf(f)'] = "sending"
    BY <1>1, <2>3, <2>4, <2>7 DEF Marker
  <2>11. \A f \in Exec : pc'[f] \in {"call", "fail"} => Fresh(KeyOf(f))'
    BY <1>1, <2>2, <2>3 DEF Marker, Fresh
  <2>12. \A f, g \in Exec : f # g /\ pc'[f] \in Held /\ pc'[g] \in Held
                              => KeyOf(f)' # KeyOf(g)'
    BY <1>1, <2>3 DEF Marker
  <2> QED
    BY <2>8, <2>9, <2>10, <2>11, <2>12 DEF Marker
<1> QED
  BY <1>4, <1>5, <1>6, <1>7, <1>8 DEF ToolStep

LEMMA MarkerRun ==
    ASSUME IInv, NEW e \in Exec, RunStep(e) \/ Crash(e) \/ \E c \in Campaign : Start(e, c)
    PROVE  Marker'
<1>1. LocalsOK /\ Marker
  BY Parts DEF IInv
<1>2. CASE GateRefuses(e) \/ KillStops(e) \/ AdvanceFails(e) \/ Crash(e) \/ Advance(e)
  <2>1. Leave(e) /\ UNCHANGED <<ledger, delivered, blurred>>
    BY <1>2 DEF GateRefuses, KillStops, AdvanceFails, Crash, Advance, rows, past
  <2> QED
    BY <1>1, <2>1, LetsGo, MarkerKept
<1>3. CASE GatePasses(e) \/ Entry(e)
  <2>1. PICK l \in {"entry", "boundary"} : Goto(e, l)
    BY <1>3 DEF GatePasses, Entry
  <2>2. UNCHANGED <<ledger, delivered, blurred, camp, cur>>
    BY <1>3 DEF GatePasses, Entry, rows, past
  <2> QED
    BY <1>1, <2>1, <2>2, MovesOn, MarkerKept DEF Held
<1>4. ASSUME NEW u \in Customer, Skip(e, u) PROVE Marker'
  BY <1>1, <1>4, MarkerKept DEF Skip, rows, past
<1>5. ASSUME NEW u \in Customer, TakeUp(e, u) PROVE Marker'
  <2>1. /\ pc'[e] = "check"
        /\ \A f \in Exec : f # e => pc'[f] = pc[f] /\ cur'[f] = cur[f]
        /\ UNCHANGED <<ledger, delivered, blurred, camp>>
    BY <1>1, <1>5, MovesOn DEF TakeUp, rows, past, LocalsOK
  <2> QED
    BY <1>1, <2>1, MarkerKept DEF Held
<1>6. CASE ToolStep(e)
  BY <1>6, MarkerTool
<1>7. ASSUME NEW c \in Campaign, Start(e, c) PROVE Marker'
  <2>1. /\ pc'[e] = "gate"
        /\ \A f \in Exec : f # e => pc'[f] = pc[f] /\ camp'[f] = camp[f]
        /\ UNCHANGED <<ledger, delivered, blurred, cur>>
    BY <1>1, <1>7, MovesOn DEF Start, rows, past, LocalsOK
  <2> QED
    BY <1>1, <2>1, MarkerKept DEF Held
<1> QED
  BY <1>2, <1>3, <1>4, <1>5, <1>6, <1>7 DEF RunStep

LEMMA MarkerOthers ==
    ASSUME IInv,
           \/ \E c \in Campaign : Kill(c)
           \/ \E u \in Customer : Refuses(u) \/ Returns(u)
           \/ OwnerStops \/ OwnerReturns \/ TwoHoursPass \/ DaysPass \/ Sweep
    PROVE  Marker'
<1>1. UNCHANGED <<ledger, delivered, blurred, pc, camp, cur>>
  BY DEF Kill, Refuses, Returns, OwnerStops, OwnerReturns, TwoHoursPass, DaysPass, Sweep, past, locals
<1> QED
  BY <1>1, MarkerKept DEF IInv

LEMMA MarkerStutter == IInv /\ UNCHANGED vars => Marker'
BY MarkerKept DEF IInv, vars, rows, locals, past

(* IInv is inductive.                                                           *)
LEMMA FanoutIInv == Spec => []IInv
<1>1. Init => IInv
  BY TypeInit, MarkerInit DEF IInv
<1>2. IInv /\ [Next]_vars => IInv'
  <2>1. IInv /\ [Next]_vars => TypeOK'
    BY TypeNext DEF IInv
  <2>2. IInv /\ [Next]_vars => Marker'
    BY MarkerRun, MarkerOthers, MarkerStutter DEF Next
  <2> QED
    BY <2>1, <2>2 DEF IInv
<1> QED
  BY <1>1, <1>2, PTL DEF Spec

(* A second message to a recipient of a campaign needs a first whose answer was *)
(* lost: whatever crashes, replays and parallel executions do.                  *)
THEOREM FanoutOncePerPair == Spec => []OncePerPair
<1>1. IInv => OncePerPair
  BY DEF IInv, TypeOK, Marker, OncePerPair
<1> QED
  BY <1>1, FanoutIInv, PTL

-------------------------------------------------------------------------------
(* The ledger implements EffectOnce.                                            *)

LEMMA PromiseInit == Init => Promise!Init
BY DEF Init, Promise!Init

(* Only a step at the call reports a message.                                   *)
LEMMA NothingDelivered ==
    ASSUME Next, \A e \in Exec : ~Delivers(e) /\ ~DeliversAndRaises(e)
    PROVE  UNCHANGED <<delivered, blurred>>
<1>1. ASSUME NEW e \in Exec, RunStep(e)
      PROVE  UNCHANGED <<delivered, blurred>>
  <2>1. CASE ToolStep(e)
    BY <2>1 DEF ToolStep, Declines, Clears, Claims, LosesClaim, Rejected, RecordsSent,
                RecordsError, WritesLedger, LedgerFails, past
  <2>2. CASE \E u \in Customer : Skip(e, u) \/ TakeUp(e, u)
    BY <2>2 DEF Skip, TakeUp, past
  <2>3. CASE GateRefuses(e) \/ GatePasses(e) \/ Entry(e) \/ KillStops(e)
    BY <2>3 DEF GateRefuses, GatePasses, Entry, KillStops, past
  <2>4. CASE Advance(e) \/ AdvanceFails(e)
    BY <2>4 DEF Advance, AdvanceFails, past
  <2> QED
    BY <1>1, <2>1, <2>2, <2>3, <2>4 DEF RunStep
<1>2. ASSUME NEW e \in Exec, Crash(e) \/ \E c \in Campaign : Start(e, c)
      PROVE  UNCHANGED <<delivered, blurred>>
  BY <1>2 DEF Crash, Start, past
<1>3. ASSUME \/ \E c \in Campaign : Kill(c)
             \/ \E u \in Customer : Refuses(u) \/ Returns(u)
             \/ OwnerStops \/ OwnerReturns \/ TwoHoursPass \/ DaysPass \/ Sweep
      PROVE  UNCHANGED <<delivered, blurred>>
  BY <1>3 DEF Kill, Refuses, Returns, OwnerStops, OwnerReturns, TwoHoursPass, DaysPass, Sweep, past
<1> QED
  BY <1>1, <1>2, <1>3 DEF Next

(* ... and the pair it holds is fresh.                                          *)
LEMMA OnlyACallDelivers ==
    ASSUME IInv, [Next]_vars
    PROVE  [Promise!Next]_<<delivered, blurred>>
<1>1. CASE UNCHANGED vars
  BY <1>1 DEF vars, past
<1>2. ASSUME NEW e \in Exec, Delivers(e) \/ DeliversAndRaises(e) PROVE Promise!Next
  <2>1. pc[e] = "call" /\ Taken(e) /\ blurred' \in {blurred, blurred \cup {KeyOf(e)}}
    BY <1>2 DEF Delivers, DeliversAndRaises
  <2>2. KeyOf(e) \in Key
    BY <2>1, PairInHand DEF IInv, InHand, Held
  <2>3. Fresh(KeyOf(e))
    BY <2>1 DEF IInv, Marker
  <2>4. Promise!Deliver(KeyOf(e))
    BY <2>1, <2>3 DEF Promise!Deliver, Fresh, Taken
  <2> QED
    BY <2>2, <2>4 DEF Promise!Next
<1> QED
  BY <1>1, <1>2, NothingDelivered

(* The fan-out and its tool, with crashes, replays and other processes, are an  *)
(* implementation of EffectOnce: what a customer sees is what it promises.      *)
THEOREM FanoutPromise == Spec => PromiseKept
<1>1. IInv /\ [Next]_vars => [Promise!Next]_<<delivered, blurred>>
  BY OnlyACallDelivers
<1> QED
  BY <1>1, PromiseInit, FanoutIInv, PTL DEF Spec, PromiseKept, Promise!Spec

-------------------------------------------------------------------------------
(* A refusal.                                                                   *)

\* An execution in hand of a customer who refuses knows it before the claim.
Warning ==
    \A e \in warned : /\ pc[e] = "check"
                      /\ cur[e] \in refused

RInv == TypeOK /\ Warning

LEMMA WarningNext == RInv /\ [Next]_vars => Warning'
<1> SUFFICES ASSUME RInv, [Next]_vars PROVE Warning'
  OBVIOUS
<1>1. LocalsOK /\ Warning
  BY Parts DEF RInv
<1>2. CASE UNCHANGED vars
  BY <1>1, <1>2 DEF vars, rows, locals, Warning
<1>3. ASSUME NEW e \in Exec, Leave(e) \/ NextRecipient(e), refused' = refused
      PROVE  Warning'
  BY <1>1, <1>3 DEF Leave, NextRecipient, Goto, Warning, LocalsOK
<1>4. ASSUME NEW e \in Exec, NEW l, Goto(e, l), e \notin warned,
             UNCHANGED <<refused, cur, warned>>
      PROVE  Warning'
  BY <1>1, <1>4 DEF Goto, Warning, LocalsOK
<1>5. ASSUME NEW e \in Exec, ToolStep(e) PROVE Warning'
  <2>1. CASE Declines(e) \/ LosesClaim(e) \/ LedgerFails(e) \/ RecordsSent(e) \/ RecordsError(e)
    BY <1>3, <2>1 DEF Declines, LosesClaim, LedgerFails, RecordsSent, RecordsError,
                      WritesLedger, rows
  <2>2. CASE Clears(e)
    BY <1>1, <1>4, <2>2 DEF Clears, Consents, Warning, rows
  <2>3. CASE Claims(e) \/ Delivers(e) \/ DeliversAndRaises(e) \/ Rejected(e)
    <3>1. pc[e] # "check" /\ UNCHANGED <<refused, cur, warned>>
      BY <2>3 DEF Claims, Delivers, DeliversAndRaises, Rejected, rows
    <3>2. PICK l \in {"call", "flip", "fail"} : Goto(e, l)
      BY <2>3 DEF Claims, Delivers, DeliversAndRaises, Rejected
    <3> QED
      BY <1>1, <1>4, <3>1, <3>2 DEF Warning
  <2> QED
    BY <1>5, <2>1, <2>2, <2>3 DEF ToolStep
<1>6. ASSUME NEW e \in Exec, RunStep(e), ~ToolStep(e) PROVE Warning'
  <2>1. CASE GateRefuses(e) \/ KillStops(e) \/ Advance(e) \/ AdvanceFails(e)
    BY <1>3, <2>1 DEF GateRefuses, KillStops, Advance, AdvanceFails, rows
  <2>2. CASE GatePasses(e) \/ Entry(e)
    <3>1. pc[e] # "check" /\ UNCHANGED <<refused, cur, warned>>
      BY <2>2 DEF GatePasses, Entry, rows
    <3>2. PICK l \in {"entry", "boundary"} : Goto(e, l)
      BY <2>2 DEF GatePasses, Entry
    <3> QED
      BY <1>1, <1>4, <3>1, <3>2 DEF Warning
  <2>3. ASSUME NEW u \in Customer, Skip(e, u) PROVE Warning'
    BY <1>1, <2>3 DEF Skip, Warning, rows
  <2>4. ASSUME NEW u \in Customer, TakeUp(e, u) PROVE Warning'
    BY <1>1, <2>4 DEF TakeUp, Goto, Warning, rows, LocalsOK
  <2> QED
    BY <1>6, <2>1, <2>2, <2>3, <2>4 DEF RunStep
<1>7. ASSUME NEW e \in Exec, Crash(e) PROVE Warning'
  BY <1>3, <1>7 DEF Crash, rows
<1>8. ASSUME NEW e \in Exec, NEW c \in Campaign, Start(e, c) PROVE Warning'
  BY <1>1, <1>4, <1>8 DEF Start, Warning, rows
<1>9. ASSUME NEW u \in Customer, Returns(u) PROVE Warning'
  BY <1>1, <1>9 DEF Returns, Warning
<1>10. ASSUME NEW u \in Customer, Refuses(u) PROVE Warning'
  BY <1>1, <1>10 DEF Refuses, Warning, locals
<1>11. CASE (\E c \in Campaign : Kill(c)) \/ OwnerStops \/ OwnerReturns \/ TwoHoursPass \/ DaysPass \/ Sweep
  BY <1>1, <1>11 DEF Kill, OwnerStops, OwnerReturns, TwoHoursPass, DaysPass, Sweep, Warning, locals
<1> QED
  BY <1>2, <1>5, <1>6, <1>7, <1>8, <1>9, <1>10, <1>11 DEF Next

(* Whoever had refused when the loop reached them, and has not come back, is    *)
(* not called, however old the flags the fan-out loaded are.                    *)
THEOREM FanoutRefusal == Spec => []RefusalHonoured
<1>1. Init => RInv
  BY TypeInit DEF RInv, Warning, Init
<1>2. RInv /\ [Next]_vars => RInv'
  BY TypeNext, WarningNext DEF RInv
<1>3. RInv => RefusalHonoured
  BY DEF RInv, Warning, RefusalHonoured
<1> QED
  BY <1>1, <1>2, <1>3, PTL DEF Spec

-------------------------------------------------------------------------------
(* The kill and the end of a campaign, for the campaigns the status guard       *)
(* covers and as long as two processes never execute the same one at once. The  *)
(* guard is a read before a long fan-out: nothing in the code enforces more.    *)

OnePerCampaign ==
    \A e, f \in Exec : camp[e] = camp[f] /\ camp[e] \in Campaign => e = f

\* Nobody is executing a campaign that is 'sent'.
SentLeft ==
    \A c \in Campaign : status[c] = "sent" => \A e \in Exec : camp[e] # c

ToCall == {"check", "claim", "call"}

\* A killed campaign is never pending again; the message that was in hand has gone
\* out only when nobody is on the way to another call.
KillKept ==
    /\ \A c \in killed : status[c] \in {"cancelled", "sent"}
    /\ \A c \in Campaign : late[c] > 0 => c \in killed
    /\ \A c \in Campaign : late[c] <= 1
    /\ \A e \in Exec : pc[e] \in ToCall => late[camp[e]] = 0

StopInv == TypeOK /\ SentLeft /\ KillKept

(* What a step does to the campaign it executes, if it is no advance.           *)
LEMMA RunFrame ==
    ASSUME TypeOK, NEW e \in Exec, RunStep(e) \/ Crash(e), ~Advance(e)
    PROVE  /\ UNCHANGED <<status, killed>>
           /\ \A f \in Exec : camp'[f] \in {camp[f], Nobody}
<1> USE DEF rows, past
<1>1. LocalsOK
  BY Parts
<1>2. CASE Leave(e) /\ UNCHANGED <<status, killed>>
  BY <1>1, <1>2 DEF Leave, LocalsOK
<1>3. CASE UNCHANGED <<status, killed, camp>>
  BY <1>3
<1>4. CASE ToolStep(e)
  BY <1>3, <1>4 DEF ToolStep, Declines, Clears, Claims, LosesClaim, Delivers, DeliversAndRaises,
                    Rejected, RecordsSent, RecordsError, WritesLedger, LedgerFails, NextRecipient
<1>5. CASE GateRefuses(e) \/ KillStops(e) \/ AdvanceFails(e) \/ Crash(e)
  BY <1>2, <1>5 DEF GateRefuses, KillStops, AdvanceFails, Crash
<1>6. CASE GatePasses(e) \/ Entry(e) \/ \E u \in Customer : Skip(e, u) \/ TakeUp(e, u)
  BY <1>3, <1>6 DEF GatePasses, Entry, Skip, TakeUp
<1> QED
  BY <1>4, <1>5, <1>6 DEF RunStep

(* A customer, the owner, the clock or the sweep ends no campaign as 'sent'.    *)
LEMMA OthersFrame ==
    ASSUME TypeOK,
           \/ \E u \in Customer : Refuses(u) \/ Returns(u)
           \/ OwnerStops \/ OwnerReturns \/ TwoHoursPass \/ DaysPass \/ Sweep
    PROVE  /\ UNCHANGED <<pc, camp, killed, late>>
           /\ \A c \in Campaign : status'[c] = status[c] \/ (status[c] = "approved" /\ status'[c] = "failed")
BY DEF TypeOK, Refuses, Returns, OwnerStops, OwnerReturns, TwoHoursPass, DaysPass, Sweep, past, locals

(* The advance is an execution's last step and no guard lets another one begin. *)
LEMMA SentLeftNext ==
    ASSUME GraphArmed = {}, TypeOK, SentLeft, OnePerCampaign, [Next]_vars
    PROVE  SentLeft'
<1>1. LocalsOK /\ RestOK
  BY Parts
<1>2. CASE UNCHANGED vars
  BY <1>2 DEF vars, rows, locals, SentLeft
<1>3. ASSUME NEW e \in Exec, RunStep(e) \/ Crash(e), ~Advance(e)
      PROVE  SentLeft'
  BY <1>3, RunFrame, FanoutConstants DEF SentLeft
<1>4. ASSUME NEW e \in Exec, Advance(e)
      PROVE  SentLeft'
  <2>1. camp[e] \in Campaign
    BY <1>1, <1>4 DEF Advance, LocalsOK
  <2>2. camp'[e] = Nobody /\ \A f \in Exec : f # e => camp'[f] = camp[f]
    BY <1>1, <1>4 DEF Advance, Leave, LocalsOK
  <2>3. \A c \in Campaign : c # camp[e] => status'[c] = status[c]
    BY <1>1, <1>4 DEF Advance, RestOK
  <2>4. \A f \in Exec : camp'[f] # camp[e]
    BY <2>1, <2>2, FanoutConstants DEF OnePerCampaign
  <2> QED
    BY <2>2, <2>3, <2>4, FanoutConstants DEF SentLeft
<1>5. ASSUME NEW e \in Exec, NEW c \in Campaign, Start(e, c)
      PROVE  SentLeft'
  <2>1. status' = status /\ status[c] # "sent"
    BY <1>5 DEF Start, MayExecute, Pending, rows
  <2>2. camp'[e] = c /\ \A f \in Exec : f # e => camp'[f] = camp[f]
    BY <1>1, <1>5 DEF Start, LocalsOK
  <2> QED
    BY <2>1, <2>2 DEF SentLeft
<1>6. ASSUME NEW c \in Campaign, Kill(c)
      PROVE  SentLeft'
  BY <1>1, <1>6 DEF Kill, locals, RestOK, SentLeft
<1>7. CASE \/ \E u \in Customer : Refuses(u) \/ Returns(u)
           \/ OwnerStops \/ OwnerReturns \/ TwoHoursPass \/ DaysPass \/ Sweep
  BY <1>7, OthersFrame DEF SentLeft
<1> QED
  BY <1>2, <1>3, <1>4, <1>5, <1>6, <1>7 DEF Next

(* A step that reports no message and brings nobody nearer to a call.           *)
LEMMA KillKeptQuiet ==
    ASSUME KillKept, UNCHANGED <<late, killed>>,
           \A c \in killed : status'[c] \in {status[c], "sent"},
           \A f \in Exec : pc'[f] \in ToCall => pc[f] \in ToCall /\ camp'[f] = camp[f]
    PROVE  KillKept'
BY DEF KillKept

(* The tool reports at most the message in hand.                                *)
LEMMA KillKeptTool ==
    ASSUME StopInv, OnePerCampaign, NEW e \in Exec, ToolStep(e)
    PROVE  KillKept'
<1> USE DEF rows, past, ToCall
<1>1. LocalsOK /\ RestOK /\ KillKept
  BY Parts DEF StopInv
<1>2. pc[e] \in InHand
  BY ToolHolds
<1>3. camp[e] \in Campaign
  BY <1>2, PairInHand DEF StopInv
<1>4. CASE NextRecipient(e) /\ UNCHANGED <<status, late, killed>>
  BY <1>1, <1>4, KillKeptQuiet DEF NextRecipient, Goto, LocalsOK
<1>5. ASSUME NEW l, Goto(e, l), UNCHANGED <<status, late, killed, camp>>,
             l \in ToCall => pc[e] \in ToCall
      PROVE  KillKept'
  BY <1>1, <1>5, MovesOn, KillKeptQuiet
<1>6. CASE Delivers(e) \/ DeliversAndRaises(e)
  <2>1. /\ pc[e] = "call" /\ UNCHANGED <<status, killed, camp>>
        /\ late' = IF camp[e] \in killed THEN [late EXCEPT ![camp[e]] = @ + 1] ELSE late
    BY <1>6 DEF Delivers, DeliversAndRaises, Taken
  <2>2. pc'[e] \notin ToCall /\ \A f \in Exec : f # e => pc'[f] = pc[f]
    BY <1>1, <1>6, MovesOn DEF Delivers, DeliversAndRaises
  <2>3. late[camp[e]] = 0
    BY <1>1, <2>1 DEF KillKept
  <2>4. \A c \in Campaign : c # camp[e] => late'[c] = late[c]
    BY <1>1, <2>1 DEF RestOK
  <2>5. late'[camp[e]] = IF camp[e] \in killed THEN 1 ELSE 0
    BY <1>1, <1>3, <2>1, <2>3 DEF RestOK
  <2>6. \A f \in Exec : pc'[f] \in ToCall => f # e /\ camp[f] \in Campaign /\ camp[f] # camp[e]
    BY <1>1, <1>3, <2>2 DEF LocalsOK, OnePerCampaign
  <2> QED
    BY <1>1, <2>1, <2>2, <2>4, <2>5, <2>6 DEF KillKept
<1>7. CASE Declines(e) \/ LosesClaim(e) \/ LedgerFails(e) \/ RecordsSent(e) \/ RecordsError(e)
  BY <1>4, <1>7 DEF Declines, LosesClaim, LedgerFails, RecordsSent, RecordsError, WritesLedger
<1>8. CASE Clears(e) \/ Claims(e) \/ Rejected(e)
  <2>1. PICK l \in {"claim", "call", "fail"} : Goto(e, l)
    BY <1>8 DEF Clears, Claims, Rejected
  <2>2. pc[e] \in ToCall /\ UNCHANGED <<status, late, killed, camp>>
    BY <1>8 DEF Clears, Claims, Rejected
  <2> QED
    BY <1>5, <2>1, <2>2
<1> QED
  BY <1>6, <1>7, <1>8 DEF ToolStep

(* Every step keeps it: a killed campaign is not turned to another recipient.   *)
LEMMA KillKeptNext ==
    ASSUME GraphArmed = {}, StatusReadsFail = FALSE, StopInv, OnePerCampaign, [Next]_vars
    PROVE  KillKept'
<1> USE DEF rows, past, ToCall
<1>1. LocalsOK /\ RestOK /\ KillKept
  BY Parts DEF StopInv
<1>2. CASE UNCHANGED vars
  BY <1>1, <1>2, KillKeptQuiet DEF vars, locals
<1>3. ASSUME NEW e \in Exec, Leave(e), UNCHANGED <<status, late, killed>>
      PROVE  KillKept'
  BY <1>1, <1>3, KillKeptQuiet DEF Leave, Goto, LocalsOK
<1>4. ASSUME NEW e \in Exec, NEW l, Goto(e, l), l \notin ToCall, UNCHANGED <<status, late, killed>>,
             \A f \in Exec : f # e => camp'[f] = camp[f]
      PROVE  KillKept'
  BY <1>1, <1>4, MovesOn, KillKeptQuiet
<1>5. ASSUME NEW e \in Exec, RunStep(e) PROVE KillKept'
  <2>1. CASE GateRefuses(e) \/ KillStops(e) \/ AdvanceFails(e)
    BY <1>3, <2>1 DEF GateRefuses, KillStops, AdvanceFails
  <2>2. CASE GatePasses(e) \/ Entry(e)
    <3>1. PICK l \in {"entry", "boundary"} : Goto(e, l)
      BY <2>2 DEF GatePasses, Entry
    <3> QED
      BY <1>4, <2>2, <3>1 DEF GatePasses, Entry
  <2>3. ASSUME NEW u \in Customer, Skip(e, u) PROVE KillKept'
    BY <1>1, <2>3, KillKeptQuiet DEF Skip
  <2>4. ASSUME NEW u \in Customer, TakeUp(e, u) PROVE KillKept'
    <3>1. /\ UNCHANGED <<status, late, killed, camp>>
          /\ status[camp[e]] # "cancelled" /\ camp[e] \in Campaign
      BY <1>1, <2>4 DEF TakeUp, SeesNoKill, SeesKill, LocalsOK
    <3>2. \A f \in Exec : f # e => pc'[f] = pc[f]
      BY <1>1, <2>4, MovesOn DEF TakeUp
    <3>3. status[camp[e]] # "sent"
      BY <3>1 DEF StopInv, SentLeft
    <3>4. late[camp[e]] = 0
      BY <1>1, <3>1, <3>3 DEF KillKept, RestOK
    <3> QED
      BY <1>1, <3>1, <3>2, <3>4 DEF KillKept
  <2>5. CASE Advance(e)
    <3>1. UNCHANGED <<late, killed>> /\ \A c \in killed : status'[c] \in {status[c], "sent"}
      BY <1>1, <2>5 DEF Advance, RestOK
    <3>2. \A f \in Exec : pc'[f] \in ToCall => pc[f] \in ToCall /\ camp'[f] = camp[f]
      BY <1>1, <2>5 DEF Advance, Leave, Goto, LocalsOK
    <3> QED
      BY <1>1, <3>1, <3>2, KillKeptQuiet
  <2>6. CASE ToolStep(e)
    BY <2>6, KillKeptTool
  <2> QED
    BY <1>5, <2>1, <2>2, <2>3, <2>4, <2>5, <2>6 DEF RunStep
<1>6. ASSUME NEW e \in Exec, Crash(e) PROVE KillKept'
  BY <1>3, <1>6 DEF Crash
<1>7. ASSUME NEW e \in Exec, NEW c \in Campaign, Start(e, c) PROVE KillKept'
  BY <1>1, <1>4, <1>7 DEF Start, LocalsOK
<1>8. ASSUME NEW c \in Campaign, Kill(c) PROVE KillKept'
  BY <1>1, <1>8 DEF Kill, locals, KillKept, RestOK
<1>9. CASE \/ \E u \in Customer : Refuses(u) \/ Returns(u)
           \/ OwnerStops \/ OwnerReturns \/ TwoHoursPass \/ DaysPass \/ Sweep
  <2>1. \A c \in killed : status'[c] = status[c]
    BY <1>1, <1>9, OthersFrame DEF StopInv, KillKept, RestOK
  <2> QED
    BY <1>1, <1>9, <2>1, OthersFrame, KillKeptQuiet DEF StopInv
<1> QED
  BY <1>2, <1>5, <1>6, <1>7, <1>8, <1>9 DEF Next

(* So it holds as long as the hypothesis does.                                  *)
LEMMA SentLeftAlways ==
    ASSUME GraphArmed = {}
    PROVE  Spec /\ []OnePerCampaign => [](TypeOK /\ SentLeft)
<1>1. Init => TypeOK /\ SentLeft
  BY TypeInit DEF Init, SentLeft
<1>2. TypeOK /\ SentLeft /\ OnePerCampaign /\ [Next]_vars => (TypeOK /\ SentLeft)'
  BY TypeNext, SentLeftNext
<1> QED
  BY <1>1, <1>2, PTL DEF Spec

(* Once a campaign is 'sent', no execution of it contacts anybody, whatever     *)
(* replays and crashes do, as long as two processes never execute it at once.   *)
THEOREM FanoutSentIsFinal ==
    ASSUME GraphArmed = {}
    PROVE  Spec /\ []OnePerCampaign => SentIsFinal
<1> DEFINE Untouched == \A c \in Campaign : status[c] = "sent" =>
               \A u \in Customer : delivered'[<<c, u>>] = delivered[<<c, u>>]
<1>1. ASSUME TypeOK, SentLeft, [Next]_vars
      PROVE  [Untouched]_vars
  <2> SUFFICES ASSUME Next, NEW c \in Campaign, status[c] = "sent", NEW u \in Customer
               PROVE  delivered'[<<c, u>>] = delivered[<<c, u>>]
    BY <1>1
  <2>1. ASSUME NEW e \in Exec, Delivers(e) \/ DeliversAndRaises(e)
        PROVE  delivered'[<<c, u>>] = delivered[<<c, u>>]
    <3>1. delivered' = [delivered EXCEPT ![KeyOf(e)] = @ + 1]
      BY <2>1 DEF Delivers, DeliversAndRaises, Taken
    <3>2. camp[e] # c
      BY <1>1 DEF SentLeft
    <3>3. <<c, u>> # KeyOf(e) /\ <<c, u>> \in Key /\ delivered \in [Key -> Nat]
      BY <1>1, <3>2 DEF KeyOf, Key, TypeOK
    <3> QED
      BY <3>1, <3>3
  <2>2. CASE \A e \in Exec : ~Delivers(e) /\ ~DeliversAndRaises(e)
    BY <2>2, NothingDelivered
  <2> QED
    BY <2>1, <2>2
<1> QED
  BY <1>1, SentLeftAlways, PTL DEF Spec, SentIsFinal

(* After a kill at most the recipient in hand is contacted, over replays and    *)
(* crashes too, if the status can be read and two processes never execute the   *)
(* campaign at once.                                                            *)
THEOREM FanoutKillLeavesOne ==
    ASSUME GraphArmed = {}, StatusReadsFail = FALSE
    PROVE  Spec /\ []OnePerCampaign => []KillLeavesOne
<1>1. Init => StopInv
  <2>1. Init => SentLeft
    BY DEF Init, SentLeft
  <2>2. Init => KillKept
    BY DEF Init, KillKept, ToCall
  <2> QED
    BY <2>1, <2>2, TypeInit DEF StopInv
<1>2. StopInv /\ OnePerCampaign /\ [Next]_vars => StopInv'
  BY TypeNext, SentLeftNext, KillKeptNext DEF StopInv
<1>3. StopInv => KillLeavesOne
  BY DEF StopInv, KillKept, KillLeavesOne
<1> QED
  BY <1>1, <1>2, <1>3, PTL DEF Spec

-------------------------------------------------------------------------------
(* The contact interval, as long as no two processes have the same customer in  *)
(* hand at once.                                                                *)

OnePerCustomer ==
    \A e, f \in Exec :
        pc[e] \in InHand /\ pc[f] \in InHand /\ cur[e] = cur[f] => e = f

\* Some row other than k hides a delivery to u.
HiddenBut(u, k) ==
    \E c \in Campaign : \/ ledger[<<c, u>>] = "sending" /\ <<c, u>> # k
                        \/ <<c, u>> \in blurred \cup old
Hidden(u) ==
    \E c \in Campaign : \/ ledger[<<c, u>>] = "sending"
                        \/ <<c, u>> \in blurred \cup old

\* Whoever was contacted has a row that says so, or one that hides it; whoever was
\* contacted twice, or is about to be, has one that hides the first time.
Traced ==
    /\ \A u \in Customer : heard[u] > 0 =>
           Hidden(u) \/ \E c \in Campaign : ledger[<<c, u>>] = "sent"
    /\ \A u \in Customer : heard[u] > 1 => Hidden(u)
    /\ \A e \in Exec : pc[e] \in {"claim", "call", "fail"} /\ heard[cur[e]] > 0
                           => HiddenBut(cur[e], KeyOf(e))
    /\ \A e \in Exec : pc[e] = "flip" /\ heard[cur[e]] > 1 => HiddenBut(cur[e], KeyOf(e))

HInv == IInv /\ Traced

(* A step that writes no row and reports no message, and after which whoever is *)
(* past the checks was there before.                                            *)
LEMMA TracedQuiet ==
    ASSUME Traced, UNCHANGED <<ledger, old, blurred, heard>>,
           \A f \in Exec :
               /\ pc'[f] \in {"claim", "call", "fail"} => pc[f] \in {"claim", "call", "fail"}
               /\ pc'[f] = "flip" => pc[f] = "flip"
               /\ pc'[f] \in {"claim", "call", "fail", "flip"}
                      => camp'[f] = camp[f] /\ cur'[f] = cur[f]
    PROVE  Traced'
<1>1. \A u \in Customer : Hidden(u)' <=> Hidden(u)
  BY DEF Hidden
<1>2. ASSUME NEW f \in Exec, pc'[f] \in {"claim", "call", "fail", "flip"}
      PROVE  /\ cur'[f] = cur[f] /\ KeyOf(f)' = KeyOf(f)
             /\ HiddenBut(cur[f], KeyOf(f)) => HiddenBut(cur[f], KeyOf(f))'
  <2>1. cur'[f] = cur[f] /\ KeyOf(f)' = KeyOf(f)
    BY <1>2 DEF KeyOf
  <2> QED
    BY <2>1 DEF HiddenBut
<1>3. \A u \in Customer : heard'[u] > 0 =>
           Hidden(u)' \/ \E c \in Campaign : ledger'[<<c, u>>] = "sent"
  BY <1>1 DEF Traced
<1>4. \A u \in Customer : heard'[u] > 1 => Hidden(u)'
  BY <1>1 DEF Traced
<1>5. \A f \in Exec : pc'[f] \in {"claim", "call", "fail"} /\ heard'[cur'[f]] > 0
                           => HiddenBut(cur[f], KeyOf(f))'
  BY <1>2 DEF Traced
<1>6. \A f \in Exec : pc'[f] = "flip" /\ heard'[cur'[f]] > 1 => HiddenBut(cur[f], KeyOf(f))'
  BY <1>2 DEF Traced
<1> QED
  BY <1>3, <1>4, <1>5, <1>6 DEF Traced

(* A step of one execution about the customer in its hand leaves everybody else *)
(* traced as they were.                                                         *)
LEMMA TracedHere ==
    ASSUME HInv, OnePerCustomer, NEW e \in Exec, pc[e] \in InHand,
           NEW v \in Customer, v = cur[e], NEW p \in Key, p = KeyOf(e),
           UNCHANGED old, blurred \subseteq blurred',
           \A k \in Key : k # p => ledger'[k] = ledger[k],
           \A u \in Customer : u # v => heard'[u] = heard[u],
           \A f \in Exec : f # e => pc'[f] = pc[f] /\ camp'[f] = camp[f] /\ cur'[f] = cur[f],
           heard'[v] > 0 => Hidden(v)' \/ \E c \in Campaign : ledger'[<<c, v>>] = "sent",
           heard'[v] > 1 => Hidden(v)',
           pc'[e] \in {"claim", "call", "fail", "flip"} =>
               cur'[e] = cur[e] /\ camp'[e] = camp[e],
           pc'[e] \in {"claim", "call", "fail"} /\ heard'[v] > 0 => HiddenBut(v, p)',
           pc'[e] = "flip" /\ heard'[v] > 1 => HiddenBut(v, p)'
    PROVE  Traced'
<1>1. TypeOK /\ Traced
  BY DEF HInv, IInv
<1>2. \A c \in Campaign, u \in Customer : <<c, u>> \in Key
  BY DEF Key
<1>3. ASSUME NEW u \in Customer, u # cur[e]
      PROVE  /\ \A c \in Campaign : ledger'[<<c, u>>] = ledger[<<c, u>>]
             /\ Hidden(u) => Hidden(u)'
             /\ \A k : HiddenBut(u, k) => \E c \in Campaign :
                    \/ ledger'[<<c, u>>] = "sending" /\ <<c, u>> # k
                    \/ <<c, u>> \in blurred' \cup old'
  <2>1. \A c \in Campaign : ledger'[<<c, u>>] = ledger[<<c, u>>]
    BY <1>2, <1>3 DEF KeyOf
  <2> QED
    BY <2>1 DEF Hidden, HiddenBut
<1>4. ASSUME NEW f \in Exec, f # e, pc'[f] \in {"claim", "call", "fail", "flip"}
      PROVE  /\ cur'[f] = cur[f] /\ cur[f] \in Customer /\ cur[f] # cur[e]
             /\ heard'[cur[f]] = heard[cur[f]]
             /\ HiddenBut(cur[f], KeyOf(f)) => HiddenBut(cur[f], KeyOf(f))'
  <2>1. pc[f] \in InHand /\ cur'[f] = cur[f]
    BY <1>4 DEF InHand, Held
  <2>2. cur[f] \in Customer /\ cur[f] # cur[e]
    BY <1>1, <1>4, <2>1, PairInHand DEF OnePerCustomer
  <2>3. KeyOf(f)' = KeyOf(f)
    BY <1>4 DEF KeyOf
  <2>4. HiddenBut(cur[f], KeyOf(f)) => HiddenBut(cur[f], KeyOf(f))'
    BY <1>3, <2>1, <2>2, <2>3 DEF HiddenBut
  <2> QED
    BY <2>1, <2>2, <2>4
<1>5. ASSUME NEW u \in Customer, heard'[u] > 0
      PROVE  Hidden(u)' \/ \E c \in Campaign : ledger'[<<c, u>>] = "sent"
  <2>1. CASE u = v
    BY <1>5, <2>1
  <2>2. CASE u # v
    BY <1>1, <1>3, <1>5, <2>2 DEF Traced
  <2> QED
    BY <2>1, <2>2
<1>6. ASSUME NEW u \in Customer, heard'[u] > 1
      PROVE  Hidden(u)'
  <2>1. CASE u = v
    BY <1>6, <2>1
  <2>2. CASE u # v
    BY <1>1, <1>3, <1>6, <2>2 DEF Traced
  <2> QED
    BY <2>1, <2>2
<1>e. pc'[e] \in {"claim", "call", "fail", "flip"} =>
          cur'[e] = v /\ (HiddenBut(cur[e], KeyOf(e))' <=> HiddenBut(v, p)')
  BY DEF KeyOf, HiddenBut
<1>7. \A f \in Exec : pc'[f] \in {"claim", "call", "fail"} /\ heard'[cur'[f]] > 0
                           => HiddenBut(cur[f], KeyOf(f))'
  BY <1>1, <1>4, <1>e DEF Traced
<1>8. \A f \in Exec : pc'[f] = "flip" /\ heard'[cur'[f]] > 1 => HiddenBut(cur[f], KeyOf(f))'
  BY <1>1, <1>4, <1>e DEF Traced
<1> QED
  BY <1>5, <1>6, <1>7, <1>8 DEF Traced

(* One step per statement of the tool.                                          *)
LEMMA TracedTool ==
    ASSUME HInv, OnePerCustomer, NEW e \in Exec, ToolStep(e),
           NEW v \in Customer, v = cur[e], NEW p \in Key, p = KeyOf(e)
    PROVE  Traced'
<1> USE DEF rows, past
<1>1. TypeOK /\ LocalsOK /\ RestOK /\ Marker /\ Traced
  BY Parts DEF HInv, IInv
<1>2. pc[e] \in InHand
  BY ToolHolds
<1>3. KeyOf(e) \in Key /\ camp[e] \in Campaign /\ cur[e] \in Customer /\ KeyOf(e) = <<camp[e], cur[e]>>
  BY <1>1, <1>2, PairInHand DEF KeyOf
<1>4. heard \in [Customer -> Nat] /\ ledger \in [Key -> {"none", "sending", "sent", "error"}]
  BY <1>1 DEF RestOK
<1>5. CASE Declines(e) \/ LosesClaim(e) \/ LedgerFails(e)
  <2>1. NextRecipient(e) /\ UNCHANGED <<ledger, old, blurred, heard>>
    BY <1>5 DEF Declines, LosesClaim, LedgerFails
  <2>2. \A f \in Exec : pc'[f] \in {"claim", "call", "fail", "flip"} =>
            pc'[f] = pc[f] /\ camp'[f] = camp[f] /\ cur'[f] = cur[f]
    BY <1>1, <2>1 DEF NextRecipient, Goto, LocalsOK
  <2> QED
    BY <1>1, <2>1, <2>2, TracedQuiet
<1>6. CASE Rejected(e)
  <2>1. pc[e] = "call" /\ pc'[e] = "fail" /\ UNCHANGED <<ledger, old, blurred, heard, camp, cur>>
        /\ \A f \in Exec : f # e => pc'[f] = pc[f]
    BY <1>1, <1>6, MovesOn DEF Rejected
  <2> QED
    BY <1>1, <2>1, TracedQuiet
<1>7. CASE Clears(e)
  <2>1. /\ pc'[e] = "claim" /\ UNCHANGED <<ledger, old, blurred, heard, camp, cur>>
        /\ \A f \in Exec : f # e => pc'[f] = pc[f]
        /\ ~Hit(p) /\ ~Suppressed(v)
    BY <1>1, <1>7, MovesOn DEF Clears
  <2>2. heard[v] > 0 => HiddenBut(v, p)
    <3>1. SUFFICES ASSUME heard[v] > 0 PROVE HiddenBut(v, p)
      OBVIOUS
    <3>2. ledger[p] # "sending"
      BY <2>1 DEF Hit
    <3>3. \A c \in Campaign : ledger[<<c, v>>] = "sent" => <<c, v>> \in old
      BY <2>1 DEF Suppressed
    <3>4. Hidden(v)
      BY <1>1, <1>3, <3>1, <3>3 DEF Traced, Hidden
    <3> QED
      BY <3>2, <3>4 DEF Hidden, HiddenBut
  <2>3. /\ Hidden(v)' <=> Hidden(v)
        /\ HiddenBut(v, p)' <=> HiddenBut(v, p)
    BY <2>1 DEF Hidden, HiddenBut, KeyOf
  <2>4. heard'[v] > 0 =>
            Hidden(v)' \/ \E c \in Campaign : ledger'[<<c, v>>] = "sent"
    BY <1>1, <1>3, <2>1, <2>3 DEF Traced
  <2>5. heard'[v] > 1 => Hidden(v)'
    BY <1>1, <1>3, <2>1, <2>3 DEF Traced
  <2> QED
    BY <1>2, <2>1, <2>2, <2>3, <2>4, <2>5, TracedHere
<1>8. CASE Claims(e)
  <2>1. /\ pc[e] = "claim" /\ pc'[e] = "call" /\ UNCHANGED <<old, blurred, heard, camp, cur>>
        /\ \A f \in Exec : f # e => pc'[f] = pc[f]
        /\ ledger' = [ledger EXCEPT ![p] = "sending"]
    BY <1>1, <1>8, MovesOn DEF Claims
  <2>2. ledger'[p] = "sending" /\ \A k \in Key : k # p => ledger'[k] = ledger[k]
    BY <1>3, <1>4, <2>1
  <2>3. Hidden(v)'
    BY <1>3, <2>1, <2>2 DEF Hidden
  <2>4. HiddenBut(v, p) => HiddenBut(v, p)'
    <3>1. \A c \in Campaign : <<c, v>> \in Key
      BY <1>3 DEF Key
    <3> QED
      BY <2>1, <2>2, <3>1 DEF HiddenBut, KeyOf
  <2>5. heard'[v] > 0 => HiddenBut(v, p)'
    BY <1>1, <2>1, <2>4 DEF Traced
  <2> QED
    BY <1>2, <2>1, <2>2, <2>3, <2>5, TracedHere
<1>9. CASE Delivers(e) \/ DeliversAndRaises(e)
  <2>1. /\ pc[e] = "call" /\ UNCHANGED <<ledger, old, camp, cur>>
        /\ heard' = [heard EXCEPT ![v] = @ + 1]
        /\ blurred \subseteq blurred'
    BY <1>9 DEF Delivers, DeliversAndRaises, Taken
  <2>2. PICK l \in {"flip", "fail"} :
            Goto(e, l) /\ (l = "fail" => p \in blurred')
    BY <1>9 DEF Delivers, DeliversAndRaises
  <2>3. pc'[e] = l /\ \A f \in Exec : f # e => pc'[f] = pc[f]
    BY <1>1, <2>2, MovesOn
  <2>4. heard'[v] = heard[v] + 1 /\ heard[v] \in Nat
        /\ \A u \in Customer : u # v => heard'[u] = heard[u]
    BY <1>3, <1>4, <2>1
  <2>5. ledger[p] = "sending"
    BY <1>1, <2>1 DEF Marker, Held
  <2>6. Hidden(v)'
    BY <1>3, <2>1, <2>5 DEF Hidden
  <2>7. l = "fail" => HiddenBut(v, p)'
    BY <1>3, <2>1, <2>2 DEF HiddenBut
  <2>8. heard'[v] > 1 => HiddenBut(v, p)'
    <3>1. heard'[v] > 1 => heard[v] > 0
      BY <2>4
    <3>2. HiddenBut(v, p) => HiddenBut(v, p)'
      BY <2>1 DEF HiddenBut, KeyOf
    <3> QED
      BY <1>1, <2>1, <3>1, <3>2 DEF Traced
  <2> QED
    BY <1>2, <2>1, <2>3, <2>4, <2>6, <2>7, <2>8, TracedHere
<1>10. CASE RecordsSent(e) \/ RecordsError(e)
  <2>1. PICK l \in {"sent", "error"} :
            WritesLedger(e, l) /\ pc[e] = (IF l = "sent" THEN "flip" ELSE "fail")
    BY <1>10 DEF RecordsSent, RecordsError
  <2>2. /\ NextRecipient(e) /\ UNCHANGED <<old, blurred, heard>>
        /\ ledger' = [ledger EXCEPT ![p] = IF @ = "sent" THEN @ ELSE l]
    BY <2>1 DEF WritesLedger
  <2>3. /\ pc'[e] = "boundary"
        /\ \A f \in Exec : f # e => pc'[f] = pc[f] /\ camp'[f] = camp[f] /\ cur'[f] = cur[f]
    BY <1>1, <2>2 DEF NextRecipient, Goto, LocalsOK
  <2>4. ledger[p] = "sending"
    BY <1>1, <2>1 DEF Marker, Held
  <2>5. ledger'[p] = l /\ \A k \in Key : k # p => ledger'[k] = ledger[k]
    BY <1>3, <1>4, <2>2, <2>4
  <2>6. HiddenBut(v, p) => Hidden(v)'
    <3>1. \A c \in Campaign : <<c, v>> \in Key
      BY <1>3 DEF Key
    <3> QED
      BY <2>2, <2>5, <3>1 DEF HiddenBut, Hidden
  <2>7. heard'[v] > 0 =>
            Hidden(v)' \/ \E c \in Campaign : ledger'[<<c, v>>] = "sent"
    <3>1. CASE l = "sent"
      BY <1>3, <2>5, <3>1
    <3>2. CASE l = "error"
      BY <1>1, <2>1, <2>2, <2>6, <3>2 DEF Traced
    <3> QED
      BY <3>1, <3>2
  <2>8. heard'[v] > 1 => Hidden(v)'
    <3>1. heard[v] > 1 => heard[v] > 0
      BY <1>3, <1>4
    <3> QED
      BY <1>1, <2>1, <2>2, <2>6, <3>1 DEF Traced
  <2> QED
    BY <1>2, <2>2, <2>3, <2>5, <2>7, <2>8, TracedHere
<1> QED
  BY <1>5, <1>6, <1>7, <1>8, <1>9, <1>10 DEF ToolStep

(* The rest of a fan-out and the others write no ledger row; a new interval     *)
(* begins with nobody contacted.                                                *)
LEMMA TracedNext ==
    ASSUME HInv, OnePerCustomer, [Next]_vars
    PROVE  Traced'
<1> USE DEF rows, past
<1>1. TypeOK /\ LocalsOK /\ RestOK /\ Traced
  BY Parts DEF HInv, IInv
<1>2. CASE UNCHANGED vars
  BY <1>1, <1>2, TracedQuiet DEF vars, locals
<1>3. ASSUME NEW e \in Exec, Leave(e), UNCHANGED <<ledger, old, blurred, heard>>
      PROVE  Traced'
  BY <1>1, <1>3, TracedQuiet DEF Leave, Goto, LocalsOK
<1>4. ASSUME NEW e \in Exec, NEW l \in {"gate", "entry", "boundary", "check"}, Goto(e, l),
             UNCHANGED <<ledger, old, blurred, heard>>,
             \A f \in Exec : f # e => camp'[f] = camp[f] /\ cur'[f] = cur[f]
      PROVE  Traced'
  BY <1>1, <1>4, MovesOn, TracedQuiet
<1>5. ASSUME NEW e \in Exec, RunStep(e) PROVE Traced'
  <2>1. CASE GateRefuses(e) \/ KillStops(e) \/ AdvanceFails(e) \/ Advance(e)
    BY <1>3, <2>1 DEF GateRefuses, KillStops, AdvanceFails, Advance
  <2>2. CASE GatePasses(e) \/ Entry(e)
    <3>1. PICK l \in {"entry", "boundary"} : Goto(e, l)
      BY <2>2 DEF GatePasses, Entry
    <3> QED
      BY <1>4, <2>2, <3>1 DEF GatePasses, Entry
  <2>3. ASSUME NEW u \in Customer, Skip(e, u) PROVE Traced'
    BY <1>1, <2>3, TracedQuiet DEF Skip
  <2>4. ASSUME NEW u \in Customer, TakeUp(e, u) PROVE Traced'
    BY <1>1, <1>4, <2>4 DEF TakeUp, LocalsOK
  <2>5. CASE ToolStep(e)
    <3>1. cur[e] \in Customer /\ KeyOf(e) \in Key
      BY <1>1, <2>5, ToolHolds, PairInHand
    <3> QED
      BY <2>5, <3>1, TracedTool
  <2> QED
    BY <1>5, <2>1, <2>2, <2>3, <2>4, <2>5 DEF RunStep
<1>6. ASSUME NEW e \in Exec, Crash(e) PROVE Traced'
  BY <1>3, <1>6 DEF Crash
<1>7. ASSUME NEW e \in Exec, NEW c \in Campaign, Start(e, c) PROVE Traced'
  BY <1>1, <1>4, <1>7 DEF Start, LocalsOK
<1>8. CASE \/ \E c \in Campaign : Kill(c)
           \/ \E u \in Customer : Refuses(u) \/ Returns(u)
           \/ OwnerStops \/ OwnerReturns \/ TwoHoursPass \/ Sweep
  <2>1. UNCHANGED <<ledger, old, blurred, heard, pc, camp, cur>>
    BY <1>8 DEF Kill, Refuses, Returns, OwnerStops, OwnerReturns, TwoHoursPass, Sweep, locals
  <2> QED
    BY <1>1, <2>1, TracedQuiet
<1>9. CASE DaysPass
  BY <1>1, <1>9 DEF DaysPass, Traced, locals
<1> QED
  BY <1>2, <1>5, <1>6, <1>7, <1>8, <1>9 DEF Next

(* A customer is contacted twice in an interval, by whatever campaigns, only    *)
(* around a row that hides a delivery, as long as no two processes have the     *)
(* customer in hand at once.                                                    *)
THEOREM FanoutOncePerInterval == Spec /\ []OnePerCustomer => []OncePerInterval
<1>1. Init => Traced
  BY DEF Init, Traced
<1>2. HInv /\ OnePerCustomer /\ [Next]_vars => Traced'
  BY TracedNext
<1>3. IInv /\ Traced => OncePerInterval
  BY DEF Traced, Hidden, OncePerInterval
<1> QED
  BY <1>1, <1>2, <1>3, FanoutIInv, PTL DEF Spec, HInv

===============================================================================
