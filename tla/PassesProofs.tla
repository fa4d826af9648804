---------------------------- MODULE PassesProofs ----------------------------
(***************************************************************************)
(* Proofs about the pass store, for any number of workers, fans, tiers and *)
(* passes: type correctness and the accounting of earnings.  BookProofs    *)
(* builds on them.                                                         *)
(*                                                                         *)
(* EarningsAccounted and TypeOK are not inductive alone: an update assumes *)
(* the pass it found is still stored, and the commit of a bundle copies    *)
(* rows prepared earlier.  GoodTask records what a request in flight knows.*)
(***************************************************************************)
EXTENDS Passes, TLAPS

\* What a request in flight may rely on, when the table Pass is P.
GoodTask(r, P) ==
    /\ r \in TaskRecord
    /\ r.pc \in ChainLabels => r.req \in MintEvents
    /\ r.pc \in BundleLabels => r.req \in Bundles
    /\ r.pc \in GiftLabels => r.req \in Gifts
    /\ r.pc = "deletion" => r.req \in Fans
    /\ r.pc = "chainUpdate" \/ (r.pc = "chainFan" /\ r.seen) => P[r.req.id] # None
    /\ \A p \in PassIds : r.rows[p] # None => r.rows[p].giftedBy = None /\ r.rows[p].active

TasksGood ==
    /\ task \in [Workers -> TaskRecord]
    /\ \A w \in Workers : GoodTask(task[w], passes)
    /\ unblocked \in [Workers -> SUBSET (Creators \X Fans)]

SalesOK ==
    /\ passes \in [PassIds -> PassRow \cup {None}]
    /\ earnings \in [PassIds -> Seq(Fans)]
    /\ owed \subseteq PassIds
    /\ EarningsAccounted

OthersOK ==
    /\ now \in Nat
    /\ tierState \in [Tiers -> {"absent", "active", "inactive"}]
    /\ blocks \subseteq Creators \X Fans
    /\ fans \subseteq Fans
    /\ deletionAt \in [Fans -> Nat \cup {None}]

IInv == OthersOK /\ SalesOK /\ TasksGood

\* The history of the requests passes were sold in; no action reads it.
SoldTyped == soldWith \in [PassIds -> SUBSET Tiers]

LEMMA IInvImpliesTypeOK == IInv /\ SoldTyped => TypeOK
  BY DEF IInv, OthersOK, SalesOK, TasksGood, SoldTyped, TypeOK, GoodTask, RequestOK

-----------------------------------------------------------------------------
(* Requests in flight.                                                     *)

Labels == {"idle", "deletion"} \cup ChainLabels \cup BundleLabels \cup GiftLabels

\* No stored pass disappears from the table.
NoPassLost == \A p \in PassIds : passes[p] # None => passes'[p] # None

\* An idle slot is a good task, whatever the table holds.
LEMMA IdleIsGood == \A P : GoodTask(Idle, P)
  <1>1. NoRows \in [PassIds -> PassRow \cup {None}]
    BY DEF NoRows
  <1>2. Idle \in TaskRecord
    BY <1>1 DEF Idle, TaskRecord
  <1>3. QED
    BY <1>2 DEF GoodTask, Idle, NoRows, ChainLabels, BundleLabels, GiftLabels

\* An event is a Mint: its fields have their types.
LEMMA MintFields ==
    ASSUME NEW e \in MintEvents
    PROVE  e.id \in PassIds /\ e.tier \in Tiers /\ e.fan \in Fans /\ e.expiresAt \in Nat
  BY ConstantsAssumption DEF Mint

\* A task stays good when the table loses no pass.
LEMMA GoodTaskKept ==
    ASSUME NoPassLost, NEW r, GoodTask(r, passes)
    PROVE  GoodTask(r, passes')
  <1>1. CASE r.pc = "chainUpdate" \/ (r.pc = "chainFan" /\ r.seen)
    <2>1. r.req \in MintEvents
      BY <1>1 DEF GoodTask, ChainLabels
    <2>2. r.req.id \in PassIds
      BY <2>1, MintFields
    <2>3. QED
      BY <1>1, <2>2 DEF GoodTask, NoPassLost
  <1>2. CASE ~(r.pc = "chainUpdate" \/ (r.pc = "chainFan" /\ r.seen))
    BY <1>2 DEF GoodTask
  <1>3. QED BY <1>1, <1>2

\* Tasks stay good when one slot gets a good record and no pass disappears.
LEMMA TaskMove ==
    ASSUME TasksGood, NoPassLost,
           NEW w \in Workers, NEW r, GoodTask(r, passes'),
           task' = [task EXCEPT ![w] = r],
           unblocked' \in [Workers -> SUBSET (Creators \X Fans)]
    PROVE  TasksGood'
  <1>1. r \in TaskRecord
    BY DEF GoodTask
  <1>2. task' \in [Workers -> TaskRecord]
    BY <1>1 DEF TasksGood
  <1>3. ASSUME NEW v \in Workers PROVE GoodTask(task'[v], passes')
    <2>1. CASE v = w
      BY <2>1 DEF TasksGood
    <2>2. CASE v # w
      <3>1. task'[v] = task[v]
        BY <2>2 DEF TasksGood
      <3>2. GoodTask(task[v], passes)
        BY DEF TasksGood
      <3>3. QED BY <3>1, <3>2, GoodTaskKept
    <2>3. QED BY <2>1, <2>2
  <1>4. QED BY <1>2, <1>3 DEF TasksGood

\* Tasks stay good when no slot changes and no pass disappears.
LEMMA TaskStay ==
    ASSUME TasksGood, NoPassLost, UNCHANGED task,
           unblocked' \in [Workers -> SUBSET (Creators \X Fans)]
    PROVE  TasksGood'
  <1>1. ASSUME NEW v \in Workers PROVE GoodTask(task[v], passes')
    BY GoodTaskKept DEF TasksGood
  <1>2. QED BY <1>1 DEF TasksGood

LEMMA BeginStep ==
    ASSUME TasksGood, NoPassLost, NEW w \in Workers, NEW r, GoodTask(r, passes'),
           Begin(w, r)
    PROVE  TasksGood'
  <1>1. unblocked' \in [Workers -> SUBSET (Creators \X Fans)]
    BY DEF Begin, TasksGood
  <1>2. QED BY <1>1, TaskMove DEF Begin

LEMMA GotoStep ==
    ASSUME TasksGood, NoPassLost, NEW w \in Workers, NEW r, GoodTask(r, passes'),
           Goto(w, r)
    PROVE  TasksGood'
  <1>1. unblocked' \in [Workers -> SUBSET (Creators \X Fans)]
    BY DEF Goto, TasksGood
  <1>2. QED BY <1>1, TaskMove DEF Goto

LEMMA FinishStep ==
    ASSUME TasksGood, NoPassLost, NEW w \in Workers, Finish(w)
    PROVE  TasksGood'
  <1>1. unblocked' \in [Workers -> SUBSET (Creators \X Fans)]
    BY DEF Finish, TasksGood
  <1>2. QED BY <1>1, TaskMove, IdleIsGood DEF Finish

-----------------------------------------------------------------------------
(* Steps that leave the sales tables alone.                                *)

\* An untouched table stays in order and loses no pass.
LEMMA SalesUntouched ==
    ASSUME SalesOK, UNCHANGED <<passes, earnings, owed>>
    PROVE  SalesOK' /\ NoPassLost
  BY DEF SalesOK, NoPassLost, EarningsAccounted, Paid, Stored

LEMMA OthersUntouched ==
    ASSUME OthersOK, UNCHANGED <<now, tierState, blocks, fans, deletionAt>>
    PROVE  OthersOK'
  BY DEF OthersOK

LEMMA QuietGoto ==
    ASSUME IInv, NEW w \in Workers, NEW r, GoodTask(r, passes),
           Goto(w, r), UNCHANGED <<now, Tables>>
    PROVE  IInv'
  <1>1. SalesOK' /\ NoPassLost /\ passes' = passes
    BY SalesUntouched DEF IInv, Tables
  <1>2. TasksGood'
    BY <1>1, GotoStep DEF IInv
  <1>3. QED BY <1>1, <1>2, OthersUntouched DEF IInv, Tables

LEMMA QuietBegin ==
    ASSUME IInv, NEW w \in Workers, NEW r, GoodTask(r, passes),
           Begin(w, r), UNCHANGED <<now, Tables>>
    PROVE  IInv'
  <1>1. SalesOK' /\ NoPassLost /\ passes' = passes
    BY SalesUntouched DEF IInv, Tables
  <1>2. TasksGood'
    BY <1>1, BeginStep DEF IInv
  <1>3. QED BY <1>1, <1>2, OthersUntouched DEF IInv, Tables

LEMMA QuietFinish ==
    ASSUME IInv, NEW w \in Workers, Finish(w), UNCHANGED <<now, Tables>>
    PROVE  IInv'
  <1>1. SalesOK' /\ NoPassLost
    BY SalesUntouched DEF IInv, Tables
  <1>2. TasksGood'
    BY <1>1, FinishStep DEF IInv
  <1>3. QED BY <1>1, <1>2, OthersUntouched DEF IInv, Tables

\* A slot's record is a good task.
LEMMA SlotIsGood ==
    ASSUME IInv, NEW w \in Workers
    PROVE  GoodTask(task[w], passes)
  BY DEF IInv, TasksGood
-----------------------------------------------------------------------------
(* One lemma for each action that writes no sales table.                   *)

LEMMA ChainTierStep ==
    ASSUME IInv, NEW w \in Workers, ChainTier(w)
    PROVE  IInv'
  <1>1. PICK e \in MintEvents :
            /\ Begin(w, [Idle EXCEPT !.pc = "chainBlock", !.req = e, !.at = now])
            /\ UNCHANGED <<now, Tables>>
    BY DEF ChainTier
  <1>2. now \in Nat
    BY DEF IInv, OthersOK
  <1>3. GoodTask([Idle EXCEPT !.pc = "chainBlock", !.req = e, !.at = now], passes)
    BY <1>2, IdleIsGood DEF GoodTask, Idle, TaskRecord, ChainLabels, BundleLabels, GiftLabels
  <1>4. QED BY <1>1, <1>3, QuietBegin

LEMMA ChainBlockStep ==
    ASSUME IInv, NEW w \in Workers, ChainBlock(w)
    PROVE  IInv'
  <1>1. CASE Finish(w)
    BY <1>1, QuietFinish DEF ChainBlock
  <1>2. CASE Goto(w, [task[w] EXCEPT !.pc = "chainFind"])
    <2>1. GoodTask([task[w] EXCEPT !.pc = "chainFind"], passes)
      BY SlotIsGood DEF ChainBlock, At, GoodTask, TaskRecord, ChainLabels, BundleLabels, GiftLabels
    <2>2. QED BY <1>2, <2>1, QuietGoto DEF ChainBlock
  <1>3. QED BY <1>1, <1>2 DEF ChainBlock

LEMMA ChainFindStep ==
    ASSUME IInv, NEW w \in Workers, ChainFind(w)
    PROVE  IInv'
  <1> DEFINE r == [task[w] EXCEPT !.pc = "chainFan", !.seen = Stored(task[w].req.id)]
  <1>1. GoodTask(r, passes)
    BY SMTT(30), ZenonT(30), SlotIsGood DEF ChainFind, At, GoodTask, TaskRecord, ChainLabels, BundleLabels,
                      GiftLabels, Stored
  <1>2. QED BY <1>1, QuietGoto DEF ChainFind

LEMMA ChainFanStep ==
    ASSUME IInv, NEW w \in Workers, ChainFan(w)
    PROVE  IInv'
  <1> DEFINE r == [task[w] EXCEPT !.pc = IF task[w].seen THEN "chainUpdate" ELSE "chainPrior"]
  <1>1. GoodTask(r, passes) /\ task[w].req \in MintEvents
    BY SlotIsGood DEF ChainFan, At, GoodTask, TaskRecord, ChainLabels, BundleLabels, GiftLabels
  <1>2. SalesOK' /\ NoPassLost /\ passes' = passes
    BY SalesUntouched DEF IInv, ChainFan
  <1>3. TasksGood'
    BY <1>1, <1>2, GotoStep DEF IInv, ChainFan
  <1>4. fans' \subseteq Fans
    BY <1>1, MintFields DEF IInv, OthersOK, ChainFan
  <1>5. QED BY <1>2, <1>3, <1>4 DEF IInv, OthersOK, ChainFan

LEMMA ChainPriorStep ==
    ASSUME IInv, NEW w \in Workers, ChainPrior(w)
    PROVE  IInv'
  <1> DEFINE e == task[w].req
             r == [task[w] EXCEPT !.pc = "chainCreate", !.trial = GrantsTrial(e.fan, e.tier)]
  <1>1. CASE Finish(w)
    BY <1>1, QuietFinish DEF ChainPrior
  <1>2. CASE Goto(w, r)
    <2>1. GrantsTrial(e.fan, e.tier) \in BOOLEAN
      BY DEF GrantsTrial
    <2>2. GoodTask(r, passes)
      BY SMTT(30), ZenonT(30), <2>1, SlotIsGood DEF ChainPrior, At, GoodTask, TaskRecord, ChainLabels,
                              BundleLabels, GiftLabels
    <2>3. QED BY <1>2, <2>2, QuietGoto DEF ChainPrior
  <1>3. QED BY <1>1, <1>2 DEF ChainPrior

LEMMA BundleTiersStep ==
    ASSUME IInv, NEW w \in Workers, BundleTiers(w)
    PROVE  IInv'
  <1>1. PICK b \in Bundles :
            /\ Begin(w, [Idle EXCEPT !.pc = "bundleBlock", !.req = b,
                                     !.tiers = Found(b.ids), !.todo = Found(b.ids)])
            /\ UNCHANGED <<now, Tables>>
    BY DEF BundleTiers
  <1>2. Found(b.ids) \subseteq Tiers
    BY DEF Found
  <1>3. GoodTask([Idle EXCEPT !.pc = "bundleBlock", !.req = b,
                              !.tiers = Found(b.ids), !.todo = Found(b.ids)], passes)
    BY <1>2, IdleIsGood DEF GoodTask, Idle, TaskRecord, ChainLabels, BundleLabels, GiftLabels
  <1>4. QED BY <1>1, <1>3, QuietBegin

LEMMA BundleBlockStep ==
    ASSUME IInv, NEW w \in Workers, BundleBlock(w)
    PROVE  IInv'
  <1>1. CASE Finish(w)
    BY <1>1, QuietFinish DEF BundleBlock
  <1>2. CASE Goto(w, [task[w] EXCEPT !.pc = "bundleFan"])
    <2>1. GoodTask([task[w] EXCEPT !.pc = "bundleFan"], passes)
      BY SlotIsGood DEF BundleBlock, At, GoodTask, TaskRecord, ChainLabels, BundleLabels, GiftLabels
    <2>2. QED BY <1>2, <2>1, QuietGoto DEF BundleBlock
  <1>3. QED BY <1>1, <1>2 DEF BundleBlock

LEMMA BundleFanStep ==
    ASSUME IInv, NEW w \in Workers, BundleFan(w)
    PROVE  IInv'
  <1> DEFINE r == [task[w] EXCEPT !.pc = "bundleItem", !.at = now]
  <1>0. now \in Nat
    BY DEF IInv, OthersOK
  <1>1. GoodTask(r, passes) /\ task[w].req \in Bundles
    BY SMTT(30), ZenonT(30), <1>0, SlotIsGood
       DEF BundleFan, At, GoodTask, TaskRecord, ChainLabels, BundleLabels, GiftLabels
  <1>2. SalesOK' /\ NoPassLost /\ passes' = passes
    BY SalesUntouched DEF IInv, BundleFan
  <1>3. TasksGood'
    BY <1>1, <1>2, GotoStep DEF IInv, BundleFan
  <1>4. fans' \subseteq Fans
    BY <1>1, ConstantsAssumption DEF IInv, OthersOK, BundleFan, Order
  <1>5. QED BY <1>2, <1>3, <1>4 DEF IInv, OthersOK, BundleFan

LEMMA BundleItemStep ==
    ASSUME IInv, NEW w \in Workers, BundleItem(w)
    PROVE  IInv'
  <1> DEFINE f == task[w].req.fan
             days(t) == IF GrantsTrial(f, t) THEN TrialDays[t] ELSE DurationDays[t]
             row(t) == NewRow(t, f, None, task[w].at + days(t), GrantsTrial(f, t))
             r(t, id) == [task[w] EXCEPT !.todo = @ \ {t}, !.rows[id] = row(t)]
  <1>1. PICK t \in task[w].todo, id \in GeneratedIds :
            /\ At(w, "bundleItem")
            /\ Finish(w) \/ Goto(w, r(t, id))
            /\ UNCHANGED <<now, Tables>>
    BY DEF BundleItem
  <1>2. CASE Finish(w)
    BY <1>1, <1>2, QuietFinish
  <1>3. CASE Goto(w, r(t, id))
    <2>1. task[w] \in TaskRecord /\ task[w].req \in Bundles /\ f \in Fans
      BY <1>1, SlotIsGood, ConstantsAssumption DEF At, GoodTask, BundleLabels, Order
    <2>2. t \in Tiers /\ id \in PassIds
      BY <2>1, <1>1, ConstantsAssumption DEF TaskRecord
    <2>3. GrantsTrial(f, t) \in BOOLEAN /\ days(t) \in Nat
      BY <2>2, ConstantsAssumption DEF GrantsTrial
    <2>4. row(t) \in PassRow /\ row(t).giftedBy = None /\ row(t).active
      BY <2>1, <2>2, <2>3 DEF NewRow, PassRow, TaskRecord
    <2> HIDE DEF row, f, days
    <2>5. r(t, id) \in TaskRecord
      BY <2>1, <2>2, <2>4 DEF TaskRecord
    <2>6. GoodTask(r(t, id), passes)
      BY <1>1, <2>1, <2>2, <2>4, <2>5, SlotIsGood
         DEF GoodTask, At, ChainLabels, BundleLabels, GiftLabels, TaskRecord
    <2>7. QED BY <1>1, <1>3, <2>6, QuietGoto
  <1>4. QED BY <1>1, <1>2, <1>3

LEMMA GiftTierStep ==
    ASSUME IInv, NEW w \in Workers, GiftTier(w)
    PROVE  IInv'
  <1>1. PICK g \in Gifts :
            /\ Begin(w, [Idle EXCEPT !.pc = "giftBlock", !.req = g])
            /\ UNCHANGED <<now, Tables>>
    BY DEF GiftTier
  <1>2. GoodTask([Idle EXCEPT !.pc = "giftBlock", !.req = g], passes)
    BY IdleIsGood DEF GoodTask, Idle, TaskRecord, ChainLabels, BundleLabels, GiftLabels
  <1>3. QED BY <1>1, <1>2, QuietBegin

LEMMA GiftBlockStep ==
    ASSUME IInv, NEW w \in Workers, GiftBlock(w)
    PROVE  IInv'
  <1> DEFINE r == [task[w] EXCEPT !.pc = "giftCommit", !.at = now]
  <1>1. CASE Finish(w)
    BY <1>1, QuietFinish DEF GiftBlock
  <1>2. CASE Goto(w, r)
    <2>1. now \in Nat
      BY DEF IInv, OthersOK
    <2>2. GoodTask(r, passes)
      BY SMTT(30), ZenonT(30), <2>1, SlotIsGood DEF GiftBlock, At, GoodTask, TaskRecord, ChainLabels, BundleLabels, GiftLabels
    <2>3. QED BY <1>2, <2>2, QuietGoto DEF GiftBlock
  <1>3. QED BY <1>1, <1>2 DEF GiftBlock

LEMMA DeletionReadStep ==
    ASSUME IInv, NEW w \in Workers, DeletionRead(w)
    PROVE  IInv'
  <1>1. PICK f \in Leavers :
            /\ Begin(w, [Idle EXCEPT !.pc = "deletion", !.req = f])
            /\ UNCHANGED <<now, Tables>>
    BY DEF DeletionRead
  <1>2. f \in Fans
    BY ConstantsAssumption
  <1>3. GoodTask([Idle EXCEPT !.pc = "deletion", !.req = f], passes)
    BY <1>2, IdleIsGood DEF GoodTask, Idle, TaskRecord, ChainLabels, BundleLabels, GiftLabels
  <1>4. QED BY <1>1, <1>3, QuietBegin

LEMMA SurroundingsStep ==
    ASSUME IInv,
           \/ \E w \in Workers : QueryFails(w)
           \/ \E t \in TierEvents : TierUpsert(t) \/ TierDeactivate(t)
           \/ \E b \in BlockPairs : BlockFan(b) \/ UnblockFan(b)
           \/ Tick
    PROVE  IInv'
  <1>1. ASSUME NEW w \in Workers, QueryFails(w) PROVE IInv'
    BY <1>1, QuietFinish DEF QueryFails
  <1>2. ASSUME \/ \E t \in TierEvents : TierUpsert(t) \/ TierDeactivate(t)
               \/ \E b \in BlockPairs : BlockFan(b) \/ UnblockFan(b)
               \/ Tick
        PROVE IInv'
    <2>1. UNCHANGED <<passes, earnings, owed, task>>
      BY <1>2 DEF TierUpsert, TierDeactivate, BlockFan, UnblockFan, Tick, Tables
    <2>2. SalesOK' /\ NoPassLost
      BY <2>1, SalesUntouched DEF IInv
    <2>3. unblocked' \in [Workers -> SUBSET (Creators \X Fans)]
      BY <1>2, ConstantsAssumption
         DEF IInv, TasksGood, TierUpsert, TierDeactivate, BlockFan, UnblockFan, Tick
    <2>4. TasksGood'
      BY <2>1, <2>2, <2>3, TaskStay DEF IInv
    <2>5. OthersOK'
      BY <1>2, ConstantsAssumption
         DEF IInv, OthersOK, TierUpsert, TierDeactivate, BlockFan, UnblockFan, Tick, Tables
    <2>6. QED BY <2>2, <2>4, <2>5 DEF IInv
  <1>3. QED BY <1>1, <1>2
-----------------------------------------------------------------------------
(* The sales tables.                                                       *)

\* A pass that is not stored has no record and none on its way.
LEMMA UnsoldIsBlank ==
    ASSUME SalesOK, NEW p \in PassIds, passes[p] = None
    PROVE  earnings[p] = <<>> /\ p \notin owed
  BY DEF SalesOK, EarningsAccounted, Paid, Stored

\* One record on an empty account.
LEMMA AppendToBlank ==
    ASSUME NEW f \in Fans
    PROVE  Append(<<>>, f) = <<f>> /\ <<f>> \in Seq(Fans) /\ <<>> \in Seq(Fans)
  OBVIOUS

\* Selling one pass, with its record due, written at once, or, for a trial, absent.
LEMMA SellOne ==
    ASSUME SalesOK, NEW p \in PassIds, NEW row \in PassRow, passes[p] = None,
           passes' = [passes EXCEPT ![p] = row],
           \/ /\ row.trialUsed
              /\ UNCHANGED <<owed, earnings>>
           \/ /\ ~row.trialUsed
              /\ owed' = owed \cup {p}
              /\ UNCHANGED earnings
           \/ /\ ~row.trialUsed
              /\ Payer(row) \in Fans
              /\ earnings' = [earnings EXCEPT ![p] = Append(@, Payer(row))]
              /\ UNCHANGED owed
    PROVE  SalesOK' /\ NoPassLost
  <1>1. earnings[p] = <<>> /\ p \notin owed
    BY UnsoldIsBlank
  <1>2. row # None
    BY NoneAssumption
  <1>3. NoPassLost
    BY <1>2 DEF NoPassLost, SalesOK
  <1>4. /\ passes' \in [PassIds -> PassRow \cup {None}]
        /\ owed' \subseteq PassIds
        /\ passes'[p] = row
        /\ \A q \in PassIds : q # p => passes'[q] = passes[q]
    BY DEF SalesOK
  <1>5. earnings' \in [PassIds -> Seq(Fans)]
    <2>1. CASE UNCHANGED earnings
      BY <2>1 DEF SalesOK
    <2>2. CASE /\ Payer(row) \in Fans
               /\ earnings' = [earnings EXCEPT ![p] = Append(@, Payer(row))]
      <3>1. Append(earnings[p], Payer(row)) \in Seq(Fans)
        BY <1>1, <2>2, AppendToBlank
      <3>2. QED BY <2>2, <3>1 DEF SalesOK
    <2>3. QED BY <2>1, <2>2
  <1>6. ASSUME NEW q \in PassIds, q # p
        PROVE  /\ earnings'[q] # <<>> => Paid(q)' /\ earnings'[q] = <<Payer(passes'[q])>>
               /\ q \in owed' => Paid(q)' /\ earnings'[q] = <<>>
    <2>1. earnings'[q] = earnings[q] /\ (q \in owed' <=> q \in owed)
      BY <1>6 DEF SalesOK
    <2>2. QED BY <1>4, <1>6, <2>1 DEF SalesOK, EarningsAccounted, Paid, Stored
  <1>7. /\ earnings'[p] # <<>> => Paid(p)' /\ earnings'[p] = <<Payer(passes'[p])>>
        /\ p \in owed' => Paid(p)' /\ earnings'[p] = <<>>
    <2>1. CASE row.trialUsed /\ UNCHANGED <<owed, earnings>>
      BY <1>1, <2>1
    <2>2. CASE ~row.trialUsed /\ owed' = owed \cup {p} /\ UNCHANGED earnings
      BY <1>1, <1>2, <1>4, <2>2 DEF Paid, Stored
    <2>3. CASE /\ ~row.trialUsed
               /\ Payer(row) \in Fans
               /\ earnings' = [earnings EXCEPT ![p] = Append(@, Payer(row))]
               /\ UNCHANGED owed
      <3>1. earnings'[p] = <<Payer(row)>>
        BY <1>1, <2>3, AppendToBlank DEF SalesOK
      <3>2. QED BY <1>1, <1>2, <1>4, <2>3, <3>1 DEF Paid, Stored
    <2>4. QED BY <2>1, <2>2, <2>3
  <1>8. EarningsAccounted'
    BY <1>6, <1>7 DEF EarningsAccounted
  <1>9. QED BY <1>3, <1>4, <1>5, <1>8 DEF SalesOK

\* Rewriting stored rows without touching who pays or whether it is a trial.
LEMMA AmendRows ==
    ASSUME SalesOK, UNCHANGED <<earnings, owed>>,
           passes' \in [PassIds -> PassRow \cup {None}],
           \A p \in PassIds :
              /\ passes'[p] = None <=> passes[p] = None
              /\ passes[p] # None => /\ passes'[p].fan = passes[p].fan
                                     /\ passes'[p].giftedBy = passes[p].giftedBy
                                     /\ passes'[p].trialUsed = passes[p].trialUsed
    PROVE  SalesOK' /\ NoPassLost
  <1>1. EarningsAccounted'
    BY DEF SalesOK, EarningsAccounted, Paid, Stored, Payer
  <1>2. QED BY <1>1 DEF SalesOK, NoPassLost

\* Deactivating stored passes is such an amendment.
LEMMA DeactivateStep ==
    ASSUME SalesOK, UNCHANGED <<earnings, owed>>,
           NEW P \in SUBSET PassIds, \A p \in P : passes[p] # None,
           Deactivate(P)
    PROVE  SalesOK' /\ NoPassLost
  <1>1. \A p \in PassIds : passes[p] # None => passes[p] \in PassRow
    BY DEF SalesOK
  <1>2. \A p \in P : [passes[p] EXCEPT !.active = FALSE] \in PassRow
    BY <1>1 DEF PassRow
  <1>3. passes' \in [PassIds -> PassRow \cup {None}]
    BY <1>2 DEF Deactivate, SalesOK
  <1>4. ASSUME NEW p \in PassIds
        PROVE  /\ passes'[p] = None <=> passes[p] = None
               /\ passes[p] # None => /\ passes'[p].fan = passes[p].fan
                                      /\ passes'[p].giftedBy = passes[p].giftedBy
                                      /\ passes'[p].trialUsed = passes[p].trialUsed
    <2>1. CASE p \notin P
      BY <2>1 DEF Deactivate
    <2>2. CASE p \in P
      <3>1. passes'[p] = [passes[p] EXCEPT !.active = FALSE]
        BY <2>2 DEF Deactivate
      <3>2. passes'[p] # None
        BY <2>2, <3>1, <1>2, NoneAssumption
      <3>3. QED BY <1>1, <2>2, <3>1, <3>2 DEF PassRow
    <2>3. QED BY <2>1, <2>2
  <1>5. QED BY <1>3, <1>4, AmendRows

-----------------------------------------------------------------------------
(* One lemma for each action that writes a sales table.                    *)

LEMMA ChainCreateStep ==
    ASSUME IInv, NEW w \in Workers, ChainCreate(w)
    PROVE  IInv'
  <1> DEFINE e == task[w].req
  <1>1. e \in MintEvents /\ task[w].at \in Nat /\ task[w].trial \in BOOLEAN
    BY SlotIsGood DEF ChainCreate, At, GoodTask, TaskRecord, ChainLabels
  <1>2. e.id \in PassIds /\ e.tier \in Tiers /\ e.fan \in Fans /\ e.expiresAt \in Nat
    BY <1>1, MintFields
  <1>3. ChainRow(w) \in PassRow /\ ChainRow(w).trialUsed = task[w].trial
    BY <1>1, <1>2, ConstantsAssumption DEF ChainRow, NewRow, PassRow
  <1>4. SalesOK' /\ NoPassLost
    <2>1. CASE Stored(e.id)
      BY <2>1, SalesUntouched DEF ChainCreate, IInv
    <2>2. CASE ~Stored(e.id)
      <3> HIDE DEF e
      <3>1. /\ passes' = [passes EXCEPT ![e.id] = ChainRow(w)]
            /\ UNCHANGED earnings
            /\ IF task[w].trial THEN UNCHANGED owed ELSE owed' = owed \cup {e.id}
        BY <2>2 DEF ChainCreate, e
      <3>2. QED BY <1>2, <1>3, <2>2, <3>1, SellOne DEF IInv, Stored
    <2>3. QED BY <2>1, <2>2
  <1>5. TasksGood'
    BY <1>4, FinishStep DEF IInv, ChainCreate
  <1>6. OthersOK'
    BY OthersUntouched DEF IInv, ChainCreate
  <1>7. QED BY <1>4, <1>5, <1>6 DEF IInv

LEMMA ChainUpdateStep ==
    ASSUME IInv, NEW w \in Workers, ChainUpdate(w)
    PROVE  IInv'
  <1> DEFINE e == task[w].req
  <1>1. e \in MintEvents /\ passes[e.id] # None
    BY SlotIsGood DEF ChainUpdate, At, GoodTask, ChainLabels
  <1>2. e.id \in PassIds /\ e.expiresAt \in Nat
    BY <1>1, MintFields
  <1>3. passes[e.id] \in PassRow
    BY <1>1, <1>2 DEF IInv, SalesOK
  <1> DEFINE row == [passes[e.id] EXCEPT !.expiresAt = e.expiresAt]
  <1>4. /\ row \in PassRow
        /\ row.fan = passes[e.id].fan
        /\ row.giftedBy = passes[e.id].giftedBy
        /\ row.trialUsed = passes[e.id].trialUsed
    BY <1>2, <1>3 DEF PassRow
  <1>5. passes' = [passes EXCEPT ![e.id] = row]
    BY DEF ChainUpdate
  <1> HIDE DEF row, e
  <1>6. SalesOK' /\ NoPassLost
    <2>1. row # None
      BY <1>4, NoneAssumption
    <2>2. passes' \in [PassIds -> PassRow \cup {None}]
      BY <1>4, <1>5 DEF IInv, SalesOK
    <2>3. UNCHANGED <<earnings, owed>> /\ SalesOK
      BY DEF ChainUpdate, IInv
    <2>4. ASSUME NEW p \in PassIds
          PROVE  /\ passes'[p] = None <=> passes[p] = None
                 /\ passes[p] # None => /\ passes'[p].fan = passes[p].fan
                                        /\ passes'[p].giftedBy = passes[p].giftedBy
                                        /\ passes'[p].trialUsed = passes[p].trialUsed
      BY <1>1, <1>2, <1>4, <1>5, <2>1 DEF IInv, SalesOK
    <2>5. QED BY <2>2, <2>3, <2>4, AmendRows
  <1>7. TasksGood'
    BY <1>6, FinishStep DEF IInv, ChainUpdate
  <1>8. QED BY <1>6, <1>7, OthersUntouched DEF IInv, ChainUpdate

LEMMA EarningsWrittenStep ==
    ASSUME IInv, NEW p \in PassIds, EarningsWritten(p)
    PROVE  IInv'
  <1>1. /\ Paid(p) /\ earnings[p] = <<>> /\ passes[p] \in PassRow
        /\ owed' = owed \ {p}
        /\ earnings' = [earnings EXCEPT ![p] = Append(@, Payer(passes[p]))]
        /\ passes' = passes
    BY DEF EarningsWritten, IInv, SalesOK, EarningsAccounted, Paid, Stored
  <1>2. Payer(passes[p]) \in Fans
    BY <1>1 DEF Payer, PassRow
  <1>3. earnings'[p] = <<Payer(passes[p])>> /\ earnings' \in [PassIds -> Seq(Fans)]
    BY <1>1, <1>2, AppendToBlank DEF IInv, SalesOK
  <1>4. \A q \in PassIds : q # p => earnings'[q] = earnings[q]
    BY <1>1 DEF IInv, SalesOK
  <1>5. EarningsAccounted'
    BY <1>1, <1>3, <1>4 DEF IInv, SalesOK, EarningsAccounted, Paid, Stored
  <1>6. SalesOK' /\ NoPassLost
    BY <1>1, <1>3, <1>5 DEF IInv, SalesOK, NoPassLost
  <1>7. TasksGood'
    BY <1>6, TaskStay DEF IInv, TasksGood, EarningsWritten
  <1>8. QED BY <1>6, <1>7, OthersUntouched DEF IInv, EarningsWritten

LEMMA EarningsFailedStep ==
    ASSUME IInv, NEW p \in PassIds, EarningsFailed(p)
    PROVE  IInv'
  <1>1. SalesOK' /\ NoPassLost
    BY DEF IInv, SalesOK, EarningsAccounted, Paid, Stored, NoPassLost, EarningsFailed
  <1>2. TasksGood'
    BY <1>1, TaskStay DEF IInv, TasksGood, EarningsFailed
  <1>3. QED BY <1>1, <1>2, OthersUntouched DEF IInv, EarningsFailed

LEMMA BundleCommitStep ==
    ASSUME IInv, NEW w \in Workers, BundleCommit(w)
    PROVE  IInv'
  <1> DEFINE rows == task[w].rows
  <1>1. /\ rows \in [PassIds -> PassRow \cup {None}]
        /\ \A p \in PassIds : rows[p] # None => rows[p].giftedBy = None
    BY SlotIsGood DEF GoodTask, TaskRecord
  <1> HIDE DEF rows
  <1>2. SalesOK' /\ NoPassLost
    <2>1. CASE UNCHANGED <<passes, earnings>>
      BY <2>1, SalesUntouched DEF IInv, BundleCommit
    <2>2. CASE /\ ~\E p \in PassIds : rows[p] # None /\ Stored(p)
               /\ passes' = Overlay(rows)
               /\ earnings' = [p \in PassIds |->
                                 IF rows[p] # None /\ ~rows[p].trialUsed
                                 THEN Append(earnings[p], rows[p].fan)
                                 ELSE earnings[p]]
      <3>1. passes' \in [PassIds -> PassRow \cup {None}]
        BY <1>1, <2>2 DEF Overlay, IInv, SalesOK
      <3>2. ASSUME NEW p \in PassIds, rows[p] # None
            PROVE  /\ passes'[p] = rows[p] /\ rows[p] \in PassRow
                   /\ Payer(rows[p]) = rows[p].fan /\ rows[p].fan \in Fans
                   /\ earnings[p] = <<>> /\ p \notin owed
        BY <1>1, <2>2, <3>2, UnsoldIsBlank DEF Overlay, Stored, Payer, PassRow, IInv
      <3>3. ASSUME NEW p \in PassIds, rows[p] = None
            PROVE  passes'[p] = passes[p] /\ earnings'[p] = earnings[p]
        BY <2>2, <3>3 DEF Overlay
      <3>4. ASSUME NEW p \in PassIds, rows[p] # None
            PROVE  /\ rows[p].trialUsed => earnings'[p] = <<>>
                   /\ ~rows[p].trialUsed => earnings'[p] = <<rows[p].fan>>
        BY <2>2, <3>2, <3>4, AppendToBlank
      <3>5. earnings' \in [PassIds -> Seq(Fans)]
        <4>1. ASSUME NEW p \in PassIds PROVE earnings'[p] \in Seq(Fans)
          <5>1. CASE rows[p] = None
            BY <3>3, <5>1 DEF IInv, SalesOK
          <5>2. CASE rows[p] # None
            <6>1. earnings'[p] = <<>> \/ earnings'[p] = <<rows[p].fan>>
              BY <3>4, <5>2
            <6>2. rows[p].fan \in Fans
              BY <3>2, <5>2
            <6>3. QED BY <6>1, <6>2, AppendToBlank
          <5>3. QED BY <5>1, <5>2
        <4>2. earnings' = [p \in PassIds |-> earnings'[p]]
          BY <2>2
        <4>3. QED BY <4>1, <4>2
      <3>6. ASSUME NEW p \in PassIds
            PROVE  /\ earnings'[p] # <<>> => Paid(p)' /\ earnings'[p] = <<Payer(passes'[p])>>
                   /\ p \in owed' => Paid(p)' /\ earnings'[p] = <<>>
        <4>0. owed' = owed
          BY DEF BundleCommit
        <4>1. CASE rows[p] = None
          BY <4>0, <4>1, <3>3 DEF IInv, SalesOK, EarningsAccounted, Paid, Stored
        <4>2. CASE rows[p] # None
          BY <4>0, <4>2, <3>2, <3>4 DEF Paid, Stored
        <4>3. QED BY <4>1, <4>2
      <3>7. EarningsAccounted'
        BY <3>6 DEF EarningsAccounted
      <3>8. NoPassLost
        BY <3>2, <3>3 DEF NoPassLost
      <3>9. QED BY <3>1, <3>5, <3>7, <3>8 DEF IInv, SalesOK, BundleCommit
    <2>3. QED BY <2>1, <2>2 DEF BundleCommit, rows
  <1>3. TasksGood'
    BY <1>2, FinishStep DEF IInv, BundleCommit
  <1>4. QED BY <1>2, <1>3, OthersUntouched DEF IInv, BundleCommit

LEMMA GiftCommitStep ==
    ASSUME IInv, NEW w \in Workers, GiftCommit(w)
    PROVE  IInv'
  <1> DEFINE g == task[w].req
             row == NewRow(g.tier, g.recipient, g.sender, task[w].at + DurationDays[g.tier], FALSE)
  <1>1. g \in Gifts /\ task[w].at \in Nat
    BY SlotIsGood DEF GiftCommit, At, GoodTask, TaskRecord, GiftLabels
  <1>2. g.tier \in Tiers /\ g.sender \in Fans /\ g.recipient \in Fans
    BY <1>1, ConstantsAssumption DEF Gift
  <1>3. row \in PassRow /\ ~row.trialUsed /\ Payer(row) = g.sender
    BY <1>1, <1>2, ConstantsAssumption, NoneAssumption DEF NewRow, PassRow, Payer
  <1>4. PICK id \in GeneratedIds :
            \/ UNCHANGED <<fans, passes, earnings>>
            \/ /\ ~Stored(id)
               /\ fans' = fans \cup {g.sender, g.recipient}
               /\ passes' = [passes EXCEPT ![id] = row]
               /\ earnings' = [earnings EXCEPT ![id] = Append(@, g.sender)]
    BY DEF GiftCommit
  <1>5. id \in PassIds
    BY ConstantsAssumption
  <1>6. owed' = owed
    BY DEF GiftCommit
  <1>7. SalesOK' /\ NoPassLost
    <2>1. CASE UNCHANGED <<passes, earnings>>
      BY <1>6, <2>1, SalesUntouched DEF IInv
    <2>2. CASE /\ ~Stored(id)
               /\ passes' = [passes EXCEPT ![id] = row]
               /\ earnings' = [earnings EXCEPT ![id] = Append(@, g.sender)]
      <3> HIDE DEF row, g
      <3>1. QED BY <1>2, <1>3, <1>5, <1>6, <2>2, SellOne DEF IInv, Stored
    <2>3. QED BY <1>4, <2>1, <2>2
  <1>8. TasksGood'
    BY <1>7, FinishStep DEF IInv, GiftCommit
  <1>9. OthersOK'
    <2>1. fans' \subseteq Fans
      BY <1>2, <1>4 DEF IInv, OthersOK
    <2>2. QED BY <2>1 DEF IInv, OthersOK, GiftCommit
  <1>10. QED BY <1>7, <1>8, <1>9 DEF IInv

LEMMA DeletionCommitStep ==
    ASSUME IInv, NEW w \in Workers, DeletionCommit(w)
    PROVE  IInv'
  <1> DEFINE f == task[w].req
             P == {p \in PassIds : Stored(p) /\ passes[p].fan = f /\ passes[p].active}
  <1>1. f \in Fans
    BY SlotIsGood DEF DeletionCommit, At, GoodTask
  <1>2. SalesOK' /\ NoPassLost
    <2>1. P \in SUBSET PassIds /\ \A p \in P : passes[p] # None
      BY DEF Stored
    <2>2. Deactivate(P) /\ UNCHANGED <<earnings, owed>>
      BY DEF DeletionCommit
    <2>3. QED BY <2>1, <2>2, DeactivateStep DEF IInv
  <1>3. TasksGood'
    BY <1>2, FinishStep DEF IInv, DeletionCommit
  <1>4. deletionAt' \in [Fans -> Nat \cup {None}]
    BY <1>1 DEF IInv, OthersOK, DeletionCommit
  <1>5. QED BY <1>2, <1>3, <1>4 DEF IInv, OthersOK, DeletionCommit

LEMMA DeactivateExpiredStep ==
    ASSUME IInv, DeactivateExpired
    PROVE  IInv'
  <1>1. SalesOK' /\ NoPassLost
    <2>1. \A p \in {q \in PassIds : Expired(q)} : passes[p] # None
      BY DEF Expired, Stored
    <2>2. QED BY <2>1, DeactivateStep DEF IInv, DeactivateExpired
  <1>2. TasksGood'
    BY <1>1, TaskStay DEF IInv, TasksGood, DeactivateExpired
  <1>3. QED BY <1>1, <1>2, OthersUntouched DEF IInv, DeactivateExpired

LEMMA CrashStep ==
    ASSUME IInv, Crash
    PROVE  IInv'
  <1>1. SalesOK'
    BY DEF IInv, SalesOK, EarningsAccounted, Paid, Stored, Crash
  <1>2. TasksGood'
    <2>1. Idle \in TaskRecord
      BY IdleIsGood DEF GoodTask
    <2>2. QED BY <2>1, IdleIsGood DEF TasksGood, Crash
  <1>3. OthersOK'
    BY OthersUntouched DEF IInv, Crash
  <1>4. QED BY <1>1, <1>2, <1>3 DEF IInv

-----------------------------------------------------------------------------
(* The invariant.                                                          *)

LEMMA InitIInv == Init => IInv
  <1> SUFFICES ASSUME Init PROVE IInv
    OBVIOUS
  <1>1. OthersOK
    BY ConstantsAssumption DEF Init, OthersOK
  <1>2. SalesOK
    BY DEF Init, SalesOK, NoRows, EarningsAccounted
  <1>3. TasksGood
    BY IdleIsGood DEF Init, TasksGood, GoodTask
  <1>4. QED BY <1>1, <1>2, <1>3 DEF IInv

LEMMA NextIInv == IInv /\ [Next]_vars => IInv'
  <1> SUFFICES ASSUME IInv, [Next]_vars PROVE IInv'
    OBVIOUS
  <1>1. ASSUME NEW w \in Workers, Accept(w) PROVE IInv'
    BY <1>1, ChainTierStep, BundleTiersStep, GiftTierStep, DeletionReadStep DEF Accept
  <1>2. ASSUME NEW w \in Workers, Serve(w) PROVE IInv'
    BY <1>2, ChainBlockStep, ChainFindStep, ChainFanStep, ChainPriorStep, ChainCreateStep,
       ChainUpdateStep, BundleBlockStep, BundleFanStep, BundleItemStep, BundleCommitStep,
       GiftBlockStep, GiftCommitStep, DeletionCommitStep DEF Serve
  <1>3. ASSUME NEW p \in PassIds, EarningsWritten(p) \/ EarningsFailed(p) PROVE IInv'
    BY <1>3, EarningsWrittenStep, EarningsFailedStep
  <1>4. CASE UNCHANGED vars
    <2>1. SalesOK' /\ NoPassLost
      BY <1>4, SalesUntouched DEF IInv, vars
    <2>2. TasksGood'
      BY <1>4, <2>1, TaskStay DEF IInv, TasksGood, vars
    <2>3. QED BY <1>4, <2>1, <2>2, OthersUntouched DEF IInv, vars
  <1>5. QED BY <1>1, <1>2, <1>3, <1>4, SurroundingsStep, DeactivateExpiredStep, CrashStep
            DEF Next, CalmNext, Faults

LEMMA Invariance == Spec => []IInv
  BY InitIInv, NextIInv, PTL DEF Spec

LEMMA NextSoldTyped == IInv /\ SoldTyped /\ [Next]_vars => SoldTyped'
  <1> SUFFICES ASSUME IInv, SoldTyped, [Next]_vars PROVE SoldTyped'
    OBVIOUS
  <1>1. ASSUME NEW w \in Workers, ChainCreate(w) PROVE SoldTyped'
    <2>1. task[w].req.tier \in Tiers
      BY <1>1, SlotIsGood, MintFields DEF ChainCreate, At, GoodTask, ChainLabels
    <2>2. QED BY <1>1, <2>1 DEF ChainCreate, SoldTyped
  <1>2. ASSUME NEW w \in Workers, BundleCommit(w) PROVE SoldTyped'
    <2>1. task[w].tiers \subseteq Tiers
      BY SlotIsGood DEF GoodTask, TaskRecord
    <2>2. QED BY <1>2, <2>1 DEF BundleCommit, SoldTyped
  <1>3. ASSUME NEW w \in Workers, GiftCommit(w) PROVE SoldTyped'
    <2>1. task[w].req.tier \in Tiers
      BY <1>3, SlotIsGood, ConstantsAssumption DEF GiftCommit, At, GoodTask, GiftLabels, Gift
    <2>2. \/ UNCHANGED soldWith
          \/ \E id \in GeneratedIds : soldWith' = [soldWith EXCEPT ![id] = {task[w].req.tier}]
      BY <1>3 DEF GiftCommit
    <2>3. QED BY <2>1, <2>2 DEF SoldTyped
  <1>4. CASE UNCHANGED soldWith
    BY <1>4 DEF SoldTyped
  <1>5. ASSUME NEW w \in Workers, Accept(w) \/ QueryFails(w) PROVE UNCHANGED soldWith
    BY <1>5 DEF Accept, ChainTier, BundleTiers, GiftTier, DeletionRead, QueryFails, Tables
  <1>6. ASSUME NEW w \in Workers, Serve(w),
               ~ChainCreate(w), ~BundleCommit(w), ~GiftCommit(w)
        PROVE  UNCHANGED soldWith
    BY <1>6 DEF Serve, ChainBlock, ChainFind, ChainFan, ChainPrior, ChainUpdate, BundleBlock,
                BundleFan, BundleItem, GiftBlock, DeletionCommit, Tables
  <1>7. ASSUME \/ \E p \in PassIds : EarningsWritten(p) \/ EarningsFailed(p)
               \/ \E t \in TierEvents : TierUpsert(t) \/ TierDeactivate(t)
               \/ \E b \in BlockPairs : BlockFan(b) \/ UnblockFan(b)
               \/ DeactivateExpired \/ Crash \/ Tick \/ UNCHANGED vars
        PROVE  UNCHANGED soldWith
    BY <1>7 DEF EarningsWritten, EarningsFailed, TierUpsert, TierDeactivate, BlockFan,
                UnblockFan, DeactivateExpired, Crash, Tick, Tables, vars
  <1>8. QED BY <1>1, <1>2, <1>3, <1>4, <1>5, <1>6, <1>7 DEF Next, CalmNext, Faults

LEMMA SoldTypedAlways == Spec => []SoldTyped
  <1>1. Init => SoldTyped
    BY DEF Init, SoldTyped
  <1>2. QED BY <1>1, NextSoldTyped, Invariance, PTL DEF Spec

\* For any number of workers, events, purchases and crashes the tables and the requests
\* in flight keep the shapes of the schema.
THEOREM SpecTypeOK == Spec => []TypeOK
  BY Invariance, SoldTypedAlways, IInvImpliesTypeOK, PTL

\* Every EarningsRecord pays, once, for one stored non-trial pass and is charged to its
\* payer: duplicated deliveries, races on the unique id and crashes included.
THEOREM SpecEarningsAccounted == Spec => []EarningsAccounted
  <1>1. IInv => EarningsAccounted
    BY DEF IInv, SalesOK
  <1>2. QED BY <1>1, Invariance, PTL
=============================================================================
