----------------------------- MODULE BookProofs -----------------------------
(***************************************************************************)
(* The pass store implements the sales book, and what follows from the     *)
(* shape of its steps.  Every step of the store does one of six things to  *)
(* the sales tables (StepKinds); each is a step of the book, or leaves it  *)
(* as it was, and none of them loses a pass or revives one.                *)
(***************************************************************************)
EXTENDS PassesProofs, FiniteSetTheorems

-----------------------------------------------------------------------------
(* What a step may do to the sales tables.                                 *)

Keeps == UNCHANGED <<passes, earnings, owed, soldWith>>

Sells(P) ==
    /\ \A p \in PassIds :
          IF p \in P
          THEN /\ passes[p] = None
               /\ passes'[p] \in PassRow
               /\ passes'[p].active
               /\ passes'[p].trialUsed \/ earnings'[p] # <<>> \/ p \in owed'
          ELSE /\ passes'[p] = passes[p]
               /\ earnings'[p] = earnings[p]
               /\ soldWith'[p] = soldWith[p]
               /\ p \in owed' <=> p \in owed
    /\ \A p \in P : soldWith'[p] = {passes'[q].tier : q \in P}
    /\ \A p, q \in P : passes'[p].tier = passes'[q].tier => p = q

Retires(P) ==
    /\ \A p \in P : passes[p] # None
    /\ Deactivate(P)
    /\ UNCHANGED <<earnings, owed, soldWith>>

Redates(p, x) ==
    /\ passes[p] # None
    /\ passes' = [passes EXCEPT ![p].expiresAt = x]
    /\ UNCHANGED <<earnings, owed, soldWith>>

Settles(p) ==
    /\ p \in owed
    /\ owed' = owed \ {p}
    /\ earnings' = [earnings EXCEPT ![p] = Append(@, Payer(passes[p]))]
    /\ UNCHANGED <<passes, soldWith>>

Forgets(P) ==
    /\ P \subseteq owed
    /\ owed' = owed \ P
    /\ UNCHANGED <<passes, earnings, soldWith>>

Kinds ==
    \/ Keeps
    \/ \E P \in SUBSET PassIds : Sells(P) \/ Retires(P) \/ Forgets(P)
    \/ \E p \in PassIds : Settles(p) \/ \E x \in Nat : Redates(p, x)

-----------------------------------------------------------------------------
(* A bundle's rows are one for each tier asked for that is done.           *)

Prepared(rows) == {p \in PassIds : rows[p] # None}

WholeOrder(r) ==
    /\ r.pc \in {"bundleBlock", "bundleFan"} => r.todo = r.tiers /\ r.rows = NoRows
    /\ r.pc = "bundleItem" =>
          /\ r.todo \subseteq r.tiers
          /\ {r.rows[p].tier : p \in Prepared(r.rows)} = r.tiers \ r.todo
          /\ \A p, q \in Prepared(r.rows) : r.rows[p].tier = r.rows[q].tier => p = q

WholeOrders == \A w \in Workers : WholeOrder(task[w])

LEMMA WholeOrderItem ==
    ASSUME NEW r \in TaskRecord, WholeOrder(r), r.pc = "bundleItem",
           NEW t \in r.todo, NEW id \in PassIds, r.rows[id] = None,
           NEW row \in PassRow, row.tier = t
    PROVE  WholeOrder([r EXCEPT !.todo = @ \ {t}, !.rows[id] = row])
  <1> DEFINE n == [r EXCEPT !.todo = @ \ {t}, !.rows[id] = row]
             tierOf(p) == r.rows[p].tier
  <1>1. /\ n.pc = "bundleItem" /\ n.tiers = r.tiers /\ n.todo = r.todo \ {t}
        /\ n.rows[id] = row
        /\ \A p \in PassIds : p # id => n.rows[p] = r.rows[p]
    BY DEF TaskRecord
  <1> HIDE DEF n
  <1>2. Prepared(n.rows) = Prepared(r.rows) \cup {id} /\ id \notin Prepared(r.rows)
    BY <1>1, NoneAssumption DEF Prepared
  <1>3. \A p \in Prepared(r.rows) : n.rows[p].tier = r.rows[p].tier
    BY <1>1, <1>2 DEF Prepared
  <1>4. /\ r.todo \subseteq r.tiers
        /\ {r.rows[p].tier : p \in Prepared(r.rows)} = r.tiers \ r.todo
        /\ \A p, q \in Prepared(r.rows) : r.rows[p].tier = r.rows[q].tier => p = q
    BY DEF WholeOrder
  <1>5. \A p \in Prepared(r.rows) : r.rows[p].tier \in r.tiers \ r.todo
    BY <1>4
  <1>6. \A p \in Prepared(n.rows) : n.rows[p].tier \in n.tiers \ n.todo
    BY <1>1, <1>2, <1>3, <1>4, <1>5
  <1>7. \A u \in n.tiers \ n.todo : \E p \in Prepared(n.rows) : n.rows[p].tier = u
    <2> TAKE u \in n.tiers \ n.todo
    <2>1. CASE u = t
      BY <1>1, <1>2, <2>1
    <2>2. CASE u # t
      <3>1. u \in r.tiers \ r.todo
        BY <1>1, <2>2
      <3>2. PICK p \in Prepared(r.rows) : r.rows[p].tier = u
        BY <1>4, <3>1
      <3>3. QED BY <1>2, <1>3, <3>2
    <2>3. QED BY <2>1, <2>2
  <1>8. \A p, q \in Prepared(n.rows) : n.rows[p].tier = n.rows[q].tier => p = q
    BY <1>1, <1>2, <1>3, <1>4, <1>5
  <1>9. QED BY <1>1, <1>4, <1>6, <1>7, <1>8 DEF WholeOrder, n

LEMMA NextWholeOrders ==
    ASSUME IInv, WholeOrders, [Next]_vars
    PROVE  WholeOrders'
  <1>1. task \in [Workers -> TaskRecord]
    BY DEF IInv, TasksGood
  <1>2. ASSUME NEW w \in Workers, NEW r, WholeOrder(r), task' = [task EXCEPT ![w] = r]
        PROVE  WholeOrders'
    BY <1>1, <1>2 DEF WholeOrders
  <1>3. WholeOrder(Idle)
    BY DEF WholeOrder, Idle
  <1>4. ASSUME NEW w \in Workers, Finish(w) PROVE WholeOrders'
    BY <1>2, <1>3, <1>4 DEF Finish
  <1>5. ASSUME NEW w \in Workers, NEW r, Begin(w, r) \/ Goto(w, r), r.pc \notin BundleLabels
        PROVE  WholeOrders'
    BY <1>2, <1>5 DEF Begin, Goto, WholeOrder, BundleLabels
  <1>6. ASSUME NEW w \in Workers, BundleTiers(w) PROVE WholeOrders'
    <2>1. PICK b \in Bundles :
              Begin(w, [Idle EXCEPT !.pc = "bundleBlock", !.req = b,
                                    !.tiers = Found(b.ids), !.todo = Found(b.ids)])
      BY <1>6 DEF BundleTiers
    <2> DEFINE r == [Idle EXCEPT !.pc = "bundleBlock", !.req = b,
                                 !.tiers = Found(b.ids), !.todo = Found(b.ids)]
    <2>2. r.pc = "bundleBlock" /\ r.todo = r.tiers /\ r.rows = NoRows
      BY DEF Idle
    <2>3. WholeOrder(r)
      BY <2>2 DEF WholeOrder
    <2>4. QED BY <1>2, <2>1, <2>3 DEF Begin
  <1>7. ASSUME NEW w \in Workers, ChainTier(w) \/ GiftTier(w) \/ DeletionRead(w)
        PROVE  WholeOrders'
    <2>1. /\ \A e : [Idle EXCEPT !.pc = "chainBlock", !.req = e, !.at = now].pc = "chainBlock"
          /\ \A g : [Idle EXCEPT !.pc = "giftBlock", !.req = g].pc = "giftBlock"
          /\ \A f : [Idle EXCEPT !.pc = "deletion", !.req = f].pc = "deletion"
      BY DEF Idle
    <2>2. CASE ChainTier(w)
      BY <1>5, <2>1, <2>2 DEF ChainTier, BundleLabels
    <2>3. CASE GiftTier(w)
      BY <1>5, <2>1, <2>3 DEF GiftTier, BundleLabels
    <2>4. CASE DeletionRead(w)
      BY <1>5, <2>1, <2>4 DEF DeletionRead, BundleLabels
    <2>5. QED BY <1>7, <2>2, <2>3, <2>4
  <1>8. ASSUME NEW w \in Workers, BundleBlock(w) \/ BundleFan(w) PROVE WholeOrders'
    <2>1. task[w] \in TaskRecord /\ WholeOrder(task[w])
      BY <1>1 DEF WholeOrders
    <2>2. CASE BundleBlock(w)
      <3> DEFINE r == [task[w] EXCEPT !.pc = "bundleFan"]
      <3>1. WholeOrder(r)
        BY <2>1, <2>2 DEF BundleBlock, At, WholeOrder, TaskRecord
      <3>2. QED BY <1>2, <1>4, <2>2, <3>1 DEF BundleBlock, Goto
    <2>3. CASE BundleFan(w)
      <3> DEFINE r == [task[w] EXCEPT !.pc = "bundleItem", !.at = now]
      <3>1. /\ r.pc = "bundleItem" /\ r.todo = r.tiers /\ r.rows = NoRows
        BY <2>1, <2>3 DEF BundleFan, At, WholeOrder, TaskRecord
      <3>2. Prepared(NoRows) = {}
        BY DEF Prepared, NoRows
      <3> HIDE DEF r
      <3>3. WholeOrder(r)
        BY <3>1, <3>2 DEF WholeOrder
      <3>4. QED BY <1>2, <2>3, <3>3 DEF BundleFan, Goto, r
    <2>4. QED BY <1>8, <2>2, <2>3
  <1>9. ASSUME NEW w \in Workers, BundleItem(w) PROVE WholeOrders'
    <2>1. task[w] \in TaskRecord /\ WholeOrder(task[w]) /\ task[w].pc = "bundleItem"
      BY <1>1, <1>9 DEF WholeOrders, BundleItem, At
    <2>2. PICK t \in task[w].todo, id \in GeneratedIds :
              \/ Finish(w)
              \/ /\ task[w].rows[id] = None
                 /\ \E trial \in BOOLEAN :
                       Goto(w, [task[w] EXCEPT !.todo = @ \ {t},
                                 !.rows[id] = NewRow(t, task[w].req.fan, None,
                                     task[w].at + (IF trial THEN TrialDays[t]
                                                   ELSE DurationDays[t]), trial)])
      BY <1>9 DEF BundleItem, GrantsTrial
    <2>3. /\ t \in Tiers /\ id \in PassIds /\ task[w].at \in Nat
          /\ task[w].req \in Bundles
      BY <2>1, SlotIsGood, ConstantsAssumption DEF TaskRecord, GoodTask, BundleLabels
    <2>4. task[w].req.fan \in Fans
      BY <2>3, ConstantsAssumption DEF Order
    <2>5. ASSUME NEW trial \in BOOLEAN, task[w].rows[id] = None,
                 Goto(w, [task[w] EXCEPT !.todo = @ \ {t},
                            !.rows[id] = NewRow(t, task[w].req.fan, None,
                                task[w].at + (IF trial THEN TrialDays[t]
                                              ELSE DurationDays[t]), trial)])
          PROVE  WholeOrders'
      <3> DEFINE days == IF trial THEN TrialDays[t] ELSE DurationDays[t]
                 row == NewRow(t, task[w].req.fan, None, task[w].at + days, trial)
      <3>1. task[w].at + days \in Nat
        BY <2>3, ConstantsAssumption
      <3>2. row \in PassRow /\ row.tier = t
        BY <2>3, <2>4, <3>1 DEF NewRow, PassRow
      <3>3. Goto(w, [task[w] EXCEPT !.todo = @ \ {t}, !.rows[id] = row])
        BY <2>5
      <3> HIDE DEF row
      <3>4. WholeOrder([task[w] EXCEPT !.todo = @ \ {t}, !.rows[id] = row])
        BY <2>1, <2>3, <2>5, <3>2, WholeOrderItem
      <3>5. QED BY <1>2, <3>3, <3>4 DEF Goto
    <2>6. QED BY <1>4, <2>2, <2>5
  <1>10. ASSUME NEW w \in Workers, Serve(w), ~BundleBlock(w), ~BundleFan(w), ~BundleItem(w)
         PROVE  WholeOrders'
    <2>1. task[w] \in TaskRecord
      BY <1>1
    <2>2. /\ \A l : [task[w] EXCEPT !.pc = l].pc = l
          /\ \A s : [task[w] EXCEPT !.pc = "chainFan", !.seen = s].pc = "chainFan"
          /\ \A g : [task[w] EXCEPT !.pc = "chainCreate", !.trial = g].pc = "chainCreate"
          /\ [task[w] EXCEPT !.pc = "giftCommit", !.at = now].pc = "giftCommit"
      BY <2>1 DEF TaskRecord
    <2>3. CASE ChainBlock(w)
      <3>1. Finish(w) \/ Goto(w, [task[w] EXCEPT !.pc = "chainFind"])
        BY <2>3 DEF ChainBlock
      <3>2. [task[w] EXCEPT !.pc = "chainFind"].pc \notin BundleLabels
        BY <2>2 DEF BundleLabels
      <3>3. QED BY <1>4, <1>5, <3>1, <3>2
    <2>4. CASE ChainFind(w)
      BY <1>5, <2>2, <2>4 DEF ChainFind, BundleLabels
    <2>5. CASE ChainFan(w)
      <3> DEFINE l == IF task[w].seen THEN "chainUpdate" ELSE "chainPrior"
                 r == [task[w] EXCEPT !.pc = l]
      <3>1. Goto(w, r)
        BY <2>5 DEF ChainFan
      <3>2. r.pc = l /\ l \notin BundleLabels
        BY <2>2 DEF BundleLabels
      <3>3. r.pc \notin BundleLabels
        BY <3>2
      <3> HIDE DEF r
      <3>4. QED BY <1>5, <3>1, <3>3
    <2>6. CASE ChainPrior(w)
      BY <1>4, <1>5, <2>2, <2>6 DEF ChainPrior, BundleLabels
    <2>7. CASE GiftBlock(w)
      BY <1>4, <1>5, <2>2, <2>7 DEF GiftBlock, BundleLabels
    <2>8. CASE ChainCreate(w) \/ ChainUpdate(w) \/ BundleCommit(w) \/ GiftCommit(w)
               \/ DeletionCommit(w)
      BY <1>4, <2>8 DEF ChainCreate, ChainUpdate, BundleCommit, GiftCommit, DeletionCommit
    <2>9. QED BY <1>10, <2>3, <2>4, <2>5, <2>6, <2>7, <2>8 DEF Serve
  <1>11. CASE Crash
    BY <1>3, <1>11 DEF Crash, WholeOrders
  <1>12. ASSUME \/ \E p \in PassIds : EarningsWritten(p) \/ EarningsFailed(p)
                \/ \E t \in TierEvents : TierUpsert(t) \/ TierDeactivate(t)
                \/ \E b \in BlockPairs : BlockFan(b) \/ UnblockFan(b)
                \/ DeactivateExpired \/ Tick \/ UNCHANGED vars
         PROVE  WholeOrders'
    BY <1>12 DEF EarningsWritten, EarningsFailed, TierUpsert, TierDeactivate, BlockFan,
                 UnblockFan, DeactivateExpired, Tick, vars, WholeOrders
  <1>13. QED BY <1>4, <1>6, <1>7, <1>8, <1>9, <1>10, <1>11, <1>12
             DEF Next, CalmNext, Faults, Accept, QueryFails

LEMMA OrdersStayWhole == Spec => []WholeOrders
  <1>1. Init => WholeOrders
    BY DEF Init, WholeOrders, WholeOrder, Idle
  <1>2. QED BY <1>1, NextWholeOrders, Invariance, PTL DEF Spec

-----------------------------------------------------------------------------
(* Each step does one of the six things.                                   *)

LEMMA ChainCreateKind ==
    ASSUME IInv, SoldTyped, NEW w \in Workers, ChainCreate(w)
    PROVE  Kinds
  <1> DEFINE e == task[w].req
  <1>1. e \in MintEvents /\ task[w].at \in Nat /\ task[w].trial \in BOOLEAN
    BY SlotIsGood DEF ChainCreate, At, GoodTask, TaskRecord, ChainLabels
  <1>2. e.id \in PassIds /\ e.tier \in Tiers /\ e.fan \in Fans /\ e.expiresAt \in Nat
    BY <1>1, MintFields
  <1>3. /\ ChainRow(w) \in PassRow
        /\ ChainRow(w).trialUsed = task[w].trial
        /\ ChainRow(w).tier = e.tier
        /\ ChainRow(w).active
    BY <1>1, <1>2, ConstantsAssumption DEF ChainRow, NewRow, PassRow
  <1>4. CASE Stored(e.id)
    BY <1>4 DEF ChainCreate, Kinds, Keeps
  <1>5. CASE ~Stored(e.id)
    <2> HIDE DEF e
    <2>1. /\ passes' = [passes EXCEPT ![e.id] = ChainRow(w)]
          /\ soldWith' = [soldWith EXCEPT ![e.id] = {e.tier}]
          /\ UNCHANGED earnings
          /\ IF task[w].trial THEN UNCHANGED owed ELSE owed' = owed \cup {e.id}
      BY <1>5 DEF ChainCreate, e
    <2>2. Sells({e.id})
      BY <1>1, <1>2, <1>3, <1>5, <2>1 DEF Sells, Stored, IInv, SalesOK, SoldTyped
    <2>3. QED BY <1>2, <2>2 DEF Kinds
  <1>6. QED BY <1>4, <1>5

LEMMA BundleCommitKind ==
    ASSUME IInv, SoldTyped, WholeOrders, NEW w \in Workers, BundleCommit(w)
    PROVE  Kinds
  <1> DEFINE rows == task[w].rows
             P == {p \in PassIds : rows[p] # None}
  <1>1. /\ rows \in [PassIds -> PassRow \cup {None}]
        /\ \A p \in PassIds : rows[p] # None => rows[p].giftedBy = None /\ rows[p].active
    BY SlotIsGood DEF GoodTask, TaskRecord
  <1> HIDE DEF rows
  <1>2. CASE UNCHANGED <<passes, earnings, soldWith>>
    BY <1>2 DEF BundleCommit, Kinds, Keeps
  <1>3. CASE /\ ~\E p \in PassIds : rows[p] # None /\ Stored(p)
             /\ passes' = Overlay(rows)
             /\ earnings' = [p \in PassIds |->
                               IF rows[p] # None /\ ~rows[p].trialUsed
                               THEN Append(earnings[p], rows[p].fan)
                               ELSE earnings[p]]
             /\ soldWith' = [p \in PassIds |-> IF rows[p] # None THEN task[w].tiers
                                               ELSE soldWith[p]]
    <2>1. owed' = owed
      BY DEF BundleCommit
    <2>2. ASSUME NEW p \in PassIds, rows[p] # None
          PROVE  /\ passes[p] = None /\ passes'[p] = rows[p]
                 /\ rows[p] \in PassRow /\ rows[p].active
                 /\ rows[p].trialUsed \/ earnings'[p] # <<>>
      <3>1. passes[p] = None /\ passes'[p] = rows[p] /\ rows[p] \in PassRow /\ rows[p].active
        BY <1>1, <1>3, <2>2 DEF Stored, Overlay
      <3>2. earnings[p] = <<>> /\ rows[p].fan \in Fans
        BY <3>1, UnsoldIsBlank DEF IInv, PassRow
      <3>3. ~rows[p].trialUsed => earnings'[p] = <<rows[p].fan>>
        BY <1>3, <2>2, <3>2, AppendToBlank
      <3>4. <<rows[p].fan>> # <<>>
        OBVIOUS
      <3>5. QED BY <3>1, <3>3, <3>4
    <2>3. ASSUME NEW p \in PassIds, rows[p] = None
          PROVE  /\ passes'[p] = passes[p] /\ earnings'[p] = earnings[p]
                 /\ soldWith'[p] = soldWith[p]
      BY <1>3, <2>3 DEF Overlay
    <2>4. /\ {rows[p].tier : p \in P} = task[w].tiers
          /\ \A p, q \in P : rows[p].tier = rows[q].tier => p = q
      BY DEF BundleCommit, At, WholeOrders, WholeOrder, Prepared, rows
    <2>5. \A p \in P : soldWith'[p] = task[w].tiers /\ passes'[p] = rows[p]
      BY <1>3, <2>2
    <2>6. {passes'[p].tier : p \in P} = task[w].tiers
      BY <2>4, <2>5
    <2>7. Sells(P)
      BY <2>1, <2>2, <2>3, <2>4, <2>5, <2>6 DEF Sells
    <2>8. QED BY <2>7 DEF Kinds
  <1>4. QED BY <1>2, <1>3 DEF BundleCommit, rows

LEMMA GiftCommitKind ==
    ASSUME IInv, SoldTyped, NEW w \in Workers, GiftCommit(w)
    PROVE  Kinds
  <1> DEFINE g == task[w].req
             row == NewRow(g.tier, g.recipient, g.sender, task[w].at + DurationDays[g.tier], FALSE)
  <1>1. g \in Gifts /\ task[w].at \in Nat
    BY SlotIsGood DEF GiftCommit, At, GoodTask, TaskRecord, GiftLabels
  <1>2. g.tier \in Tiers /\ g.sender \in Fans /\ g.recipient \in Fans
    BY <1>1, ConstantsAssumption DEF Gift
  <1>3. row \in PassRow /\ row.active /\ row.tier = g.tier
    BY <1>1, <1>2, ConstantsAssumption, NoneAssumption DEF NewRow, PassRow
  <1>4. PICK id \in GeneratedIds :
            \/ UNCHANGED <<fans, passes, earnings, soldWith>>
            \/ /\ ~Stored(id)
               /\ passes' = [passes EXCEPT ![id] = row]
               /\ earnings' = [earnings EXCEPT ![id] = Append(@, g.sender)]
               /\ soldWith' = [soldWith EXCEPT ![id] = {g.tier}]
    BY DEF GiftCommit
  <1>5. owed' = owed /\ id \in PassIds
    BY ConstantsAssumption DEF GiftCommit
  <1>6. CASE UNCHANGED <<passes, earnings, soldWith>>
    BY <1>5, <1>6 DEF Kinds, Keeps
  <1>7. CASE /\ ~Stored(id)
             /\ passes' = [passes EXCEPT ![id] = row]
             /\ earnings' = [earnings EXCEPT ![id] = Append(@, g.sender)]
             /\ soldWith' = [soldWith EXCEPT ![id] = {g.tier}]
    <2> HIDE DEF row, g
    <2>1. earnings[id] = <<>>
      BY <1>5, <1>7, UnsoldIsBlank DEF IInv, Stored
    <2>2. earnings'[id] = <<g.sender>> /\ <<g.sender>> # <<>>
      BY <1>2, <1>5, <1>7, <2>1, AppendToBlank DEF IInv, SalesOK
    <2>3. Sells({id})
      BY <1>3, <1>5, <1>7, <2>2 DEF Sells, Stored, IInv, SalesOK, SoldTyped
    <2>4. QED BY <1>5, <2>3 DEF Kinds
  <1>8. QED BY <1>4, <1>6, <1>7

\* Every step does one of the six things.
LEMMA StepKinds ==
    ASSUME IInv, SoldTyped, WholeOrders, [Next]_vars
    PROVE  Kinds
  <1>1. ASSUME NEW w \in Workers, Accept(w) \/ QueryFails(w) PROVE Kinds
    BY <1>1 DEF Accept, ChainTier, BundleTiers, GiftTier, DeletionRead, QueryFails,
                Tables, Kinds, Keeps
  <1>2. ASSUME NEW w \in Workers, ChainUpdate(w) PROVE Kinds
    <2>1. task[w].req \in MintEvents /\ passes[task[w].req.id] # None
      BY <1>2, SlotIsGood DEF ChainUpdate, At, GoodTask, ChainLabels
    <2>2. task[w].req.id \in PassIds /\ task[w].req.expiresAt \in Nat
      BY <2>1, MintFields
    <2>3. Redates(task[w].req.id, task[w].req.expiresAt)
      BY <1>2, <2>1 DEF ChainUpdate, Redates
    <2>4. QED BY <2>2, <2>3 DEF Kinds
  <1>3. ASSUME NEW w \in Workers, DeletionCommit(w) PROVE Kinds
    <2> DEFINE P == {p \in PassIds : Stored(p) /\ passes[p].fan = task[w].req /\ passes[p].active}
    <2>1. Retires(P)
      BY <1>3 DEF DeletionCommit, Retires, Stored
    <2>2. QED BY <2>1 DEF Kinds
  <1>4. ASSUME NEW w \in Workers, Serve(w) PROVE Kinds
    <2>1. CASE ChainBlock(w) \/ ChainFind(w) \/ ChainPrior(w) \/ BundleBlock(w)
               \/ BundleItem(w) \/ GiftBlock(w)
      BY <2>1 DEF ChainBlock, ChainFind, ChainPrior, BundleBlock, BundleItem, GiftBlock,
                  Tables, Kinds, Keeps
    <2>2. CASE ChainFan(w) \/ BundleFan(w)
      BY <2>2 DEF ChainFan, BundleFan, Kinds, Keeps
    <2>3. QED BY <1>2, <1>3, <1>4, <2>1, <2>2, ChainCreateKind, BundleCommitKind,
                 GiftCommitKind DEF Serve
  <1>5. ASSUME NEW p \in PassIds, EarningsWritten(p) \/ EarningsFailed(p) PROVE Kinds
    <2>1. CASE EarningsWritten(p)
      BY <2>1 DEF EarningsWritten, Settles, Kinds
    <2>2. CASE EarningsFailed(p)
      <3>1. Forgets({p})
        BY <2>2 DEF EarningsFailed, Forgets
      <3>2. QED BY <3>1 DEF Kinds
    <2>3. QED BY <1>5, <2>1, <2>2
  <1>6. ASSUME DeactivateExpired PROVE Kinds
    <2>1. Retires({p \in PassIds : Expired(p)})
      BY <1>6 DEF DeactivateExpired, Retires, Expired, Stored
    <2>2. QED BY <2>1 DEF Kinds
  <1>7. ASSUME Crash PROVE Kinds
    <2>1. Forgets(owed) /\ owed \subseteq PassIds
      BY <1>7 DEF Crash, Forgets, IInv, SalesOK
    <2>2. QED BY <2>1 DEF Kinds
  <1>8. ASSUME \/ \E t \in TierEvents : TierUpsert(t) \/ TierDeactivate(t)
               \/ \E b \in BlockPairs : BlockFan(b) \/ UnblockFan(b)
               \/ Tick
               \/ UNCHANGED vars
        PROVE Kinds
    BY <1>8 DEF TierUpsert, TierDeactivate, BlockFan, UnblockFan, Tick, Tables, vars,
                Kinds, Keeps
  <1>9. QED BY <1>1, <1>4, <1>5, <1>6, <1>7, <1>8 DEF Next, CalmNext, Faults

-----------------------------------------------------------------------------
(* A stored pass keeps what identifies it, and does not come back to life. *)

Steady(p) ==
    Stored(p) =>
        /\ Stored(p)'
        /\ passes'[p].tier = passes[p].tier
        /\ passes'[p].fan = passes[p].fan
        /\ passes'[p].giftedBy = passes[p].giftedBy
        /\ passes'[p].trialUsed = passes[p].trialUsed
        /\ passes'[p].active => passes[p].active

\* What is retired is stored, and only its mark changes.
LEMMA RetiredRow ==
    ASSUME SalesOK, NEW P \in SUBSET PassIds, Retires(P), NEW p \in P
    PROVE  /\ passes[p] \in PassRow
           /\ passes'[p] = [passes[p] EXCEPT !.active = FALSE]
           /\ passes'[p] \in PassRow
           /\ passes'[p] # None
  <1>1. passes[p] \in PassRow
    BY DEF SalesOK, Retires
  <1>2. passes'[p] = [passes[p] EXCEPT !.active = FALSE]
    BY DEF Retires, Deactivate
  <1>3. passes'[p] \in PassRow
    BY <1>1, <1>2 DEF PassRow
  <1>4. QED BY <1>1, <1>2, <1>3, NoneAssumption

\* What gets another expiry is stored, and only its expiry changes.
LEMMA RedatedRow ==
    ASSUME SalesOK, NEW p \in PassIds, NEW x \in Nat, Redates(p, x)
    PROVE  /\ passes[p] \in PassRow
           /\ passes'[p] = [passes[p] EXCEPT !.expiresAt = x]
           /\ passes'[p] \in PassRow
           /\ passes'[p] # None
           /\ \A q \in PassIds : q # p => passes'[q] = passes[q]
  <1>1. passes[p] \in PassRow
    BY DEF SalesOK, Redates
  <1>2. /\ passes'[p] = [passes[p] EXCEPT !.expiresAt = x]
        /\ \A q \in PassIds : q # p => passes'[q] = passes[q]
    BY DEF Redates, SalesOK
  <1>3. passes'[p] \in PassRow
    BY <1>1, <1>2 DEF PassRow
  <1>4. QED BY <1>1, <1>2, <1>3, NoneAssumption

LEMMA KindsAreSteady ==
    ASSUME SalesOK, Kinds, NEW p \in PassIds
    PROVE  Steady(p)
  <1>1. CASE Keeps
    BY <1>1 DEF Keeps, Steady, Stored
  <1>2. ASSUME NEW P \in SUBSET PassIds, Sells(P) PROVE Steady(p)
    BY <1>2 DEF Sells, Steady, Stored
  <1>3. ASSUME NEW P \in SUBSET PassIds, Retires(P) PROVE Steady(p)
    <2>1. CASE p \in P
      <3>1. /\ passes[p] \in PassRow
            /\ passes'[p] = [passes[p] EXCEPT !.active = FALSE]
            /\ passes'[p] # None
        BY <1>3, <2>1, RetiredRow
      <3>2. QED BY <3>1 DEF Steady, Stored, PassRow
    <2>2. CASE p \notin P
      BY <1>3, <2>2 DEF Retires, Deactivate, Steady, Stored
    <2>3. QED BY <2>1, <2>2
  <1>4. ASSUME NEW P \in SUBSET PassIds, Forgets(P) PROVE Steady(p)
    BY <1>4 DEF Forgets, Steady, Stored
  <1>5. ASSUME NEW q \in PassIds, Settles(q) PROVE Steady(p)
    BY <1>5 DEF Settles, Steady, Stored
  <1>6. ASSUME NEW q \in PassIds, NEW x \in Nat, Redates(q, x) PROVE Steady(p)
    <2>1. CASE p = q
      BY SMTT(30), ZenonT(30), <1>6, <2>1, RedatedRow DEF Steady, Stored, PassRow
    <2>2. CASE p # q
      BY <1>6, <2>2, RedatedRow DEF Steady, Stored
    <2>3. QED BY <2>1, <2>2
  <1>7. QED BY <1>1, <1>2, <1>3, <1>4, <1>5, <1>6 DEF Kinds

\* Whatever the cron, deletion requests, redeliveries and crashes do, and in whatever
\* order, a stored pass stays stored, keeps its tier, owner, giver and trial mark, and
\* is not active again once it was retired.
THEOREM SpecPassRowStable == Spec => PassRowStable
  <1>1. IInv /\ SoldTyped /\ WholeOrders /\ [Next]_vars =>
           [\A p \in PassIds : Stored(p) =>
              /\ Stored(p)'
              /\ passes'[p].tier = passes[p].tier
              /\ passes'[p].fan = passes[p].fan
              /\ passes'[p].giftedBy = passes[p].giftedBy
              /\ passes'[p].trialUsed = passes[p].trialUsed
              /\ passes'[p].active => passes[p].active]_vars
    BY StepKinds, KindsAreSteady DEF IInv, Steady
  <1>2. QED BY <1>1, Invariance, SoldTypedAlways, OrdersStayWhole, PTL DEF Spec, PassRowStable

-----------------------------------------------------------------------------
(* The line of the book a row of the table stands for.                     *)

AccountOf(row, paid, due) ==
    IF row.trialUsed THEN "trial"
    ELSE IF paid # <<>> THEN "paid" ELSE IF due THEN "due" ELSE "lost"

EntryOf(row, paid, due, order) ==
    [order |-> order, tier |-> row.tier, fan |-> row.fan, payer |-> Payer(row), active |-> row.active,
     account |-> AccountOf(row, paid, due)]

LineOf(p) ==
    IF passes[p] = None THEN None ELSE EntryOf(passes[p], earnings[p], p \in owed, soldWith[p])

Lines == [p \in PassIds |-> IF Stored(p) THEN Entry(p) ELSE None]

LEMMA EntryIsEntry ==
    ASSUME NEW row \in PassRow, NEW paid, NEW due \in BOOLEAN, NEW order \in SUBSET Tiers
    PROVE  EntryOf(row, paid, due, order) \in Book!Entries
  <1>1. AccountOf(row, paid, due) \in {"trial", "due", "paid", "lost"}
    BY DEF AccountOf
  <1>2. Payer(row) \in Fans
    BY DEF Payer, PassRow
  <1>3. QED BY <1>1, <1>2 DEF EntryOf, Book!Entries, PassRow

\* In a table in order, no account is corrupt and each row has one line.
LEMMA LineNow ==
    ASSUME SalesOK
    PROVE  Lines = [p \in PassIds |-> LineOf(p)]
  <1>1. ASSUME NEW p \in PassIds, Stored(p) PROVE Entry(p) = LineOf(p)
    <2>1. earnings[p] # <<>> => ~passes[p].trialUsed /\ earnings[p] = <<Payer(passes[p])>>
      BY DEF SalesOK, EarningsAccounted, Paid
    <2>2. Account(p) = AccountOf(passes[p], earnings[p], p \in owed)
      BY <1>1, <2>1 DEF Account, AccountOf, Paid
    <2>3. QED BY <1>1, <2>2 DEF Entry, EntryOf, LineOf, Stored
  <1>2. QED BY <1>1 DEF Lines, LineOf, Stored

\* So it is after a step.
LEMMA LineNext ==
    ASSUME SalesOK'
    PROVE  Lines' = [p \in PassIds |-> LineOf(p)']
  <1>1. ASSUME NEW p \in PassIds, Stored(p)' PROVE Entry(p)' = LineOf(p)'
    <2>1. earnings'[p] # <<>> => ~passes'[p].trialUsed /\ earnings'[p] = <<Payer(passes'[p])>>
      BY DEF SalesOK, EarningsAccounted, Paid
    <2>2. Account(p)' = AccountOf(passes'[p], earnings'[p], p \in owed')
      BY <1>1, <2>1 DEF Account, AccountOf, Paid
    <2>3. QED BY <1>1, <2>2 DEF Entry, EntryOf, LineOf, Stored
  <1>2. QED BY <1>1 DEF Lines, LineOf, Stored

-----------------------------------------------------------------------------
(* Each thing a step may do is a step of the book.                         *)

LEMMA SaleIsSale ==
    ASSUME SalesOK, SalesOK', SoldTyped, SoldTyped', NEW P \in SUBSET PassIds, Sells(P)
    PROVE  Book!Sell(P)
  <1>1. ASSUME NEW p \in PassIds, p \in P
        PROVE  /\ LineOf(p) = None
               /\ LineOf(p)' \in Book!Entries
               /\ LineOf(p)'.active
               /\ LineOf(p)'.account # "lost"
    <2>1. /\ passes[p] = None /\ passes'[p] \in PassRow /\ passes'[p].active
          /\ passes'[p].trialUsed \/ earnings'[p] # <<>> \/ p \in owed'
      BY <1>1 DEF Sells
    <2>2. LineOf(p) = None /\ passes'[p] # None
      BY <2>1, NoneAssumption DEF LineOf
    <2>3. LineOf(p)' = EntryOf(passes'[p], earnings'[p], p \in owed', soldWith'[p])
      BY <2>2 DEF LineOf
    <2>4. (p \in owed') \in BOOLEAN /\ soldWith'[p] \in SUBSET Tiers
      BY DEF SoldTyped
    <2>5. LineOf(p)' \in Book!Entries
      BY <2>1, <2>3, <2>4, EntryIsEntry
    <2>6. LineOf(p)'.active = passes'[p].active
      BY <2>3 DEF EntryOf
    <2>7. LineOf(p)'.account # "lost"
      BY <2>1, <2>3 DEF EntryOf, AccountOf
    <2>8. QED BY <2>1, <2>2, <2>5, <2>6, <2>7
  <1>2. ASSUME NEW p \in PassIds, p \notin P
        PROVE  LineOf(p)' = LineOf(p)
    BY <1>2 DEF Sells, LineOf
  <1>3. ASSUME NEW p \in PassIds, p \in P
        PROVE  LineOf(p)'.tier = passes'[p].tier /\ LineOf(p)'.order = soldWith'[p]
    BY <1>1, <1>3, NoneAssumption DEF LineOf, EntryOf, Sells
  <1> HIDE DEF LineOf
  <1>4. /\ \A p \in P : LineOf(p)'.order = {LineOf(q)'.tier : q \in P}
        /\ \A p, q \in P : LineOf(p)'.tier = LineOf(q)'.tier => p = q
    <2>1. {LineOf(q)'.tier : q \in P} = {passes'[q].tier : q \in P}
      BY <1>3
    <2>2. QED BY <1>3, <2>1 DEF Sells
  <1>5. /\ \A p \in P : Lines[p] = LineOf(p) /\ Lines'[p] = LineOf(p)'
        /\ \A p \in PassIds \ P : Lines'[p] = Lines[p]
    BY <1>2, LineNow, LineNext
  <1>6. {Lines'[q].tier : q \in P} = {LineOf(q)'.tier : q \in P}
    BY <1>5
  <1> HIDE DEF Lines
  <1>7. /\ \A p \in P : /\ Lines[p] = None /\ Lines'[p] \in Book!Entries
                        /\ Lines'[p].active /\ Lines'[p].account # "lost"
        /\ \A p \in P : Lines'[p].order = {Lines'[q].tier : q \in P}
        /\ \A p, q \in P : Lines'[p].tier = Lines'[q].tier => p = q
        /\ \A p \in PassIds \ P : Lines'[p] = Lines[p]
    BY <1>1, <1>4, <1>5, <1>6
  <1>8. QED BY <1>7 DEF Book!Sell, Lines

LEMMA RetirementIsRetirement ==
    ASSUME SalesOK, SalesOK', SoldTyped, SoldTyped', NEW P \in SUBSET PassIds, Retires(P)
    PROVE  Book!Retire(P)
  <1>1. ASSUME NEW p \in PassIds, p \in P
        PROVE  LineOf(p) # None /\ LineOf(p)' = [LineOf(p) EXCEPT !.active = FALSE]
    <2>1. /\ passes[p] \in PassRow
          /\ passes'[p] = [passes[p] EXCEPT !.active = FALSE]
          /\ passes'[p] # None
      BY <1>1, RetiredRow
    <2>2. passes[p] # None
      BY <2>1, NoneAssumption
    <2> DEFINE due == p \in owed
    <2>3. due \in BOOLEAN /\ soldWith[p] \in SUBSET Tiers
      BY DEF SoldTyped
    <2>4. LineOf(p) = EntryOf(passes[p], earnings[p], due, soldWith[p])
      BY <2>2 DEF LineOf
    <2>5. LineOf(p)' = EntryOf(passes'[p], earnings[p], due, soldWith[p])
      BY <2>1 DEF LineOf, Retires
    <2>6. /\ passes'[p].tier = passes[p].tier /\ passes'[p].fan = passes[p].fan
          /\ passes'[p].trialUsed = passes[p].trialUsed /\ passes'[p].active = FALSE
          /\ Payer(passes'[p]) = Payer(passes[p])
      BY <2>1 DEF PassRow, Payer
    <2> HIDE DEF due
    <2>7. LineOf(p) # None
      <3>1. LineOf(p) \in Book!Entries
        BY <2>1, <2>3, <2>4, EntryIsEntry
      <3>2. QED BY <3>1, BookNoneAssumption
    <2>8. AccountOf(passes'[p], earnings[p], due) = AccountOf(passes[p], earnings[p], due)
      BY <2>6 DEF AccountOf
    <2>9. LineOf(p)' = [LineOf(p) EXCEPT !.active = FALSE]
      <3> DEFINE line(active) ==
                   [order |-> soldWith[p], tier |-> passes[p].tier, fan |-> passes[p].fan,
                    payer |-> Payer(passes[p]), active |-> active,
                    account |-> AccountOf(passes[p], earnings[p], due)]
      <3>1. PICK mark : mark = FALSE
        OBVIOUS
      <3>2. LineOf(p)' = line(mark)
        BY <2>5, <2>6, <2>8, <3>1 DEF EntryOf
      <3>3. LineOf(p) = line(passes[p].active)
        BY <2>4 DEF EntryOf
      <3>4. line(mark) = [line(passes[p].active) EXCEPT !.active = mark]
        OBVIOUS
      <3> HIDE DEF line
      <3>5. LineOf(p)' = [LineOf(p) EXCEPT !.active = mark]
        BY <3>2, <3>3, <3>4, Zenon
      <3>6. QED BY <3>1, <3>5, Zenon
    <2>10. QED BY <2>7, <2>9
  <1>2. ASSUME NEW p \in PassIds, p \notin P
        PROVE  LineOf(p)' = LineOf(p)
    BY <1>2 DEF Retires, Deactivate, LineOf
  <1> HIDE DEF LineOf
  <1>3. QED BY <1>1, <1>2, LineNow, LineNext DEF Book!Retire, Lines

LEMMA ForgettingIsWritingOff ==
    ASSUME SalesOK, SalesOK', SoldTyped, SoldTyped', NEW P \in SUBSET PassIds, Forgets(P)
    PROVE  Book!WriteOff(P)
  <1>1. ASSUME NEW p \in PassIds, p \in P
        PROVE  /\ LineOf(p) # None
               /\ LineOf(p).account = "due"
               /\ LineOf(p)' = [LineOf(p) EXCEPT !.account = "lost"]
    <2>1. /\ passes[p] \in PassRow /\ passes[p] # None /\ ~passes[p].trialUsed
          /\ earnings[p] = <<>> /\ p \in owed
      BY <1>1 DEF Forgets, SalesOK, EarningsAccounted, Paid, Stored
    <2>2. /\ passes'[p] = passes[p] /\ earnings'[p] = earnings[p] /\ p \notin owed'
          /\ soldWith'[p] = soldWith[p] /\ soldWith[p] \in SUBSET Tiers
      BY <1>1 DEF Forgets, SoldTyped
    <2>3. LineOf(p) = EntryOf(passes[p], <<>>, TRUE, soldWith[p])
      BY <2>1 DEF LineOf
    <2>4. LineOf(p)' = EntryOf(passes[p], <<>>, FALSE, soldWith[p])
      <3>1. (p \in owed') = FALSE
        BY <2>2
      <3>2. LineOf(p)' = EntryOf(passes'[p], earnings'[p], p \in owed', soldWith'[p])
        BY <2>1, <2>2 DEF LineOf
      <3>3. QED BY <2>1, <2>2, <3>1, <3>2
    <2>5. LineOf(p) # None
      BY <2>1, <2>2, <2>3, EntryIsEntry, BookNoneAssumption
    <2>6. QED BY <2>1, <2>3, <2>4, <2>5 DEF EntryOf, AccountOf
  <1>2. ASSUME NEW p \in PassIds, p \notin P
        PROVE  LineOf(p)' = LineOf(p)
    BY <1>2 DEF Forgets, LineOf
  <1> HIDE DEF LineOf
  <1>3. QED BY <1>1, <1>2, LineNow, LineNext DEF Book!WriteOff, Lines

LEMMA SettlingIsSettling ==
    ASSUME SalesOK, SalesOK', SoldTyped, SoldTyped', NEW p \in PassIds, Settles(p)
    PROVE  Book!Settle(p)
  <1>1. /\ passes[p] \in PassRow /\ passes[p] # None /\ ~passes[p].trialUsed
        /\ earnings[p] = <<>> /\ p \in owed
    BY DEF Settles, SalesOK, EarningsAccounted, Paid, Stored
  <1>2. earnings'[p] = <<Payer(passes[p])>>
    BY <1>1, AppendToBlank DEF Settles, SalesOK, Payer, PassRow
  <1>3. <<Payer(passes[p])>> # <<>>
    OBVIOUS
  <1>4. LineOf(p) = EntryOf(passes[p], <<>>, TRUE, soldWith[p])
    BY <1>1 DEF LineOf
  <1>5. LineOf(p)' = EntryOf(passes[p], <<Payer(passes[p])>>, FALSE, soldWith[p])
    <2>1. (p \in owed') = FALSE /\ passes'[p] = passes[p] /\ soldWith'[p] = soldWith[p]
      BY DEF Settles
    <2>2. LineOf(p)' = EntryOf(passes'[p], earnings'[p], p \in owed', soldWith'[p])
      BY <1>1, <2>1 DEF LineOf
    <2>3. QED BY <1>2, <2>1, <2>2
  <1>6. LineOf(p) # None
    <2>1. soldWith[p] \in SUBSET Tiers
      BY DEF SoldTyped
    <2>2. QED BY <1>1, <1>4, <2>1, EntryIsEntry, BookNoneAssumption
  <1>7. LineOf(p).account = "due" /\ LineOf(p)' = [LineOf(p) EXCEPT !.account = "paid"]
    BY <1>1, <1>3, <1>4, <1>5 DEF EntryOf, AccountOf
  <1>8. ASSUME NEW q \in PassIds, q # p
        PROVE  LineOf(q)' = LineOf(q)
    BY <1>8 DEF Settles, LineOf, SalesOK
  <1> HIDE DEF LineOf
  <1>9. /\ Lines[p] = LineOf(p) /\ Lines'[p] = LineOf(p)'
        /\ \A q \in PassIds : q # p => Lines'[q] = Lines[q]
    BY <1>8, LineNow, LineNext
  <1>10. Lines' = [Lines EXCEPT ![p].account = "paid"]
    <2>1. Lines' = [q \in PassIds |-> Lines'[q]] /\ Lines = [q \in PassIds |-> Lines[q]]
      BY DEF Lines
    <2> HIDE DEF Lines
    <2>2. QED BY <1>7, <1>9, <2>1
  <1>11. QED BY <1>6, <1>7, <1>9, <1>10 DEF Book!Settle, Lines

LEMMA RedatingIsNothing ==
    ASSUME SalesOK, SalesOK', SoldTyped, SoldTyped', NEW p \in PassIds, NEW x \in Nat, Redates(p, x)
    PROVE  Lines' = Lines
  <1>1. /\ passes[p] \in PassRow
        /\ passes'[p] = [passes[p] EXCEPT !.expiresAt = x]
        /\ passes'[p] # None
        /\ \A q \in PassIds : q # p => passes'[q] = passes[q]
    BY RedatedRow
  <1>2. /\ passes'[p].tier = passes[p].tier /\ passes'[p].fan = passes[p].fan
        /\ passes'[p].trialUsed = passes[p].trialUsed
        /\ passes'[p].active = passes[p].active
        /\ passes'[p].giftedBy = passes[p].giftedBy
    BY <1>1 DEF PassRow
  <1>3. LineOf(p)' = LineOf(p)
    BY <1>1, <1>2, NoneAssumption DEF LineOf, EntryOf, AccountOf, Payer, Redates
  <1>4. ASSUME NEW q \in PassIds, q # p
        PROVE  LineOf(q)' = LineOf(q)
    BY <1>1, <1>4 DEF LineOf, Redates
  <1> HIDE DEF LineOf
  <1>5. QED BY <1>3, <1>4, LineNow, LineNext

LEMMA KeepingIsNothing ==
    ASSUME SalesOK, SalesOK', SoldTyped, SoldTyped', Keeps
    PROVE  Lines' = Lines
  <1>1. \A p \in PassIds : LineOf(p)' = LineOf(p)
    BY DEF Keeps, LineOf
  <1> HIDE DEF LineOf
  <1>2. QED BY <1>1, LineNow, LineNext

\* The lines of a table in order are entries of the book.
LEMMA LinesTyped ==
    ASSUME SalesOK', SoldTyped'
    PROVE  Lines' \in [PassIds -> Book!Entries \cup {None}]
  <1>1. ASSUME NEW p \in PassIds PROVE LineOf(p)' \in Book!Entries \cup {None}
    <2>1. CASE passes'[p] = None
      BY <2>1 DEF LineOf
    <2>2. CASE passes'[p] # None
      <3>1. /\ passes'[p] \in PassRow /\ (p \in owed') \in BOOLEAN
            /\ soldWith'[p] \in SUBSET Tiers
        BY <2>2 DEF SalesOK, SoldTyped
      <3>2. LineOf(p)' = EntryOf(passes'[p], earnings'[p], p \in owed', soldWith'[p])
        BY <2>2 DEF LineOf
      <3>3. QED BY <3>1, <3>2, EntryIsEntry
    <2>3. QED BY <2>1, <2>2
  <1> HIDE DEF LineOf
  <1>2. QED BY <1>1, LineNext

LEMMA StepImplementsBook ==
    ASSUME IInv, IInv', SoldTyped, SoldTyped', WholeOrders, [Next]_vars
    PROVE  Book!Next \/ Lines' = Lines
  <1>1. SalesOK /\ SalesOK' /\ Kinds
    BY StepKinds DEF IInv
  <1>2. Lines' \in [PassIds -> Book!Entries \cup {None}]
    BY <1>1, LinesTyped
  <1>3. ASSUME NEW P \in SUBSET PassIds, Sells(P) \/ Retires(P) \/ Forgets(P)
        PROVE  Book!Next
    <2>1. Book!Sell(P) \/ Book!Retire(P) \/ Book!WriteOff(P)
      BY <1>1, <1>3, SaleIsSale, RetirementIsRetirement, ForgettingIsWritingOff
    <2>2. QED BY <1>2, <2>1 DEF Book!Next, Lines
  <1>4. ASSUME NEW p \in PassIds, Settles(p)
        PROVE  Book!Next
    <2>1. Book!Settle(p)
      BY <1>1, <1>4, SettlingIsSettling
    <2>2. QED BY <1>2, <2>1 DEF Book!Next, Lines
  <1>5. ASSUME Keeps \/ \E p \in PassIds, x \in Nat : Redates(p, x)
        PROVE  Lines' = Lines
    BY <1>1, <1>5, KeepingIsNothing, RedatingIsNothing
  <1>6. QED BY <1>1, <1>3, <1>4, <1>5 DEF Kinds

\* For every number of workers, fans, tiers and passes, with redelivered events, failed
\* queries and crashes, the tables are a sales book: a pass is entered once, retired for
\* good, and its account is settled or lost once.
THEOREM SpecImplementsBook == Spec => ImplementsBook
  <1>1. Init => Book!Init
    BY DEF Init, Book!Init, NoRows, Stored
  <1>2. IInv /\ IInv' /\ SoldTyped /\ SoldTyped' /\ WholeOrders /\ [Next]_vars
           => [Book!Next]_Lines
    BY StepImplementsBook
  <1>3. IInv /\ IInv' /\ SoldTyped /\ SoldTyped' /\ WholeOrders /\ [Next]_vars
           => [Book!Next]_[p \in PassIds |-> IF Stored(p) THEN Entry(p) ELSE None]
    BY <1>2 DEF Lines
  <1>4. QED BY <1>1, <1>3, Invariance, SoldTypedAlways, OrdersStayWhole, PTL
            DEF Spec, ImplementsBook, Book!Spec

-----------------------------------------------------------------------------
(* What a bundle is about to sell.                                         *)

\* As many tiers as ids, one id each, all among the ids: they are the ids.
LEMMA FoundIsAsked ==
    ASSUME NEW ids \in SUBSET Nat, IsFiniteSet(ids), OneTierEach(ids),
           Cardinality(Found(ids)) = Cardinality(ids)
    PROVE  {ChainIdOf[t] : t \in Found(ids)} = ids
  <1> DEFINE F == Found(ids)
             idOf == [t \in F |-> ChainIdOf[t]]
  <1>1. F \subseteq Tiers /\ \A t \in F : ChainIdOf[t] \in ids
    BY DEF Found
  <1>2. idOf \in [F -> ids]
    BY <1>1
  <1>3. \A t, u \in F : idOf[t] = idOf[u] => t = u
    BY <1>1 DEF OneTierEach
  <1>4. idOf \in Injection(F, ids)
    BY <1>2, <1>3 DEF Injection, IsInjective
  <1>5. idOf \in Surjection(F, ids)
    BY <1>4, FS_Injection
  <1>6. \A i \in ids : \E t \in F : idOf[t] = i
    BY <1>5 DEF Surjection
  <1>7. QED BY <1>1, <1>6

\* Only BundleTiers brings a request to the block check of a bundle.
LEMMA NextBundleMatches ==
    ASSUME IInv, BundleMatchesRequest, [Next]_vars
    PROVE  BundleMatchesRequest'
  <1> DEFINE Good(r) == r.pc = "bundleBlock" /\ OneTierEach(r.req.ids)
                            => {ChainIdOf[t] : t \in r.tiers} = r.req.ids
  <1>1. \A w \in Workers : Good(task[w])
    BY DEF BundleMatchesRequest, At
  <1>2. task \in [Workers -> TaskRecord]
    BY DEF IInv, TasksGood
  <1>3. ASSUME NEW w \in Workers, NEW r, Good(r), task' = [task EXCEPT ![w] = r]
        PROVE  BundleMatchesRequest'
    BY <1>1, <1>2, <1>3 DEF BundleMatchesRequest, At
  <1>4. Good(Idle)
    BY DEF Idle
  <1>5. ASSUME NEW w \in Workers, Finish(w) PROVE BundleMatchesRequest'
    BY <1>3, <1>4, <1>5 DEF Finish
  <1>6. ASSUME NEW w \in Workers, BundleTiers(w) PROVE BundleMatchesRequest'
    <2>1. PICK b \in Bundles :
              /\ Cardinality(Found(b.ids)) = Cardinality(b.ids)
              /\ Begin(w, [Idle EXCEPT !.pc = "bundleBlock", !.req = b,
                                       !.tiers = Found(b.ids), !.todo = Found(b.ids)])
      BY <1>6 DEF BundleTiers
    <2> DEFINE r == [Idle EXCEPT !.pc = "bundleBlock", !.req = b,
                                 !.tiers = Found(b.ids), !.todo = Found(b.ids)]
    <2>2. b.ids \in SUBSET Nat /\ IsFiniteSet(b.ids)
      BY ConstantsAssumption DEF Order
    <2>3. r.req = b /\ r.tiers = Found(b.ids)
      BY DEF Idle
    <2>4. Good(r)
      BY <2>1, <2>2, <2>3, FoundIsAsked
    <2>5. QED BY <1>3, <2>1, <2>4 DEF Begin
  <1>7. ASSUME NEW w \in Workers, ChainTier(w) \/ GiftTier(w) \/ DeletionRead(w)
        PROVE  BundleMatchesRequest'
    <2>1. ASSUME NEW r, Begin(w, r), r.pc # "bundleBlock" PROVE BundleMatchesRequest'
      BY <1>3, <2>1 DEF Begin
    <2>2. /\ \A e : [Idle EXCEPT !.pc = "chainBlock", !.req = e, !.at = now].pc = "chainBlock"
          /\ \A g : [Idle EXCEPT !.pc = "giftBlock", !.req = g].pc = "giftBlock"
          /\ \A f : [Idle EXCEPT !.pc = "deletion", !.req = f].pc = "deletion"
      BY DEF Idle
    <2>3. CASE ChainTier(w)
      BY <2>1, <2>2, <2>3 DEF ChainTier
    <2>4. CASE GiftTier(w)
      BY <2>1, <2>2, <2>4 DEF GiftTier
    <2>5. CASE DeletionRead(w)
      BY <2>1, <2>2, <2>5 DEF DeletionRead
    <2>6. QED BY <1>7, <2>3, <2>4, <2>5
  <1>8. ASSUME NEW w \in Workers, Serve(w) PROVE BundleMatchesRequest'
    <2>0. task[w] \in TaskRecord
      BY <1>2
    <2>1. CASE Finish(w)
      BY <1>5, <2>1
    <2>2. ASSUME NEW r, Goto(w, r), r.pc # "bundleBlock" PROVE BundleMatchesRequest'
      BY <1>3, <2>2 DEF Goto
    <2>3. CASE ChainBlock(w) \/ ChainFind(w) \/ ChainFan(w) \/ ChainPrior(w)
      <3>1. /\ [task[w] EXCEPT !.pc = "chainFind"].pc = "chainFind"
            /\ \A s : [task[w] EXCEPT !.pc = "chainFan", !.seen = s].pc = "chainFan"
            /\ \A l : [task[w] EXCEPT !.pc = l].pc = l
            /\ \A g : [task[w] EXCEPT !.pc = "chainCreate", !.trial = g].pc = "chainCreate"
        BY <2>0 DEF TaskRecord
      <3>2. CASE ChainBlock(w)
        BY <2>1, <2>2, <3>1, <3>2 DEF ChainBlock
      <3>3. CASE ChainFind(w)
        BY <2>2, <3>1, <3>3 DEF ChainFind
      <3>4. CASE ChainFan(w)
        <4> DEFINE l == IF task[w].seen THEN "chainUpdate" ELSE "chainPrior"
                   r == [task[w] EXCEPT !.pc = l]
        <4>1. Goto(w, r)
          BY <3>4 DEF ChainFan
        <4>2. r.pc = l /\ l # "bundleBlock"
          BY <3>1
        <4>3. r.pc # "bundleBlock"
          BY <4>2
        <4> HIDE DEF r
        <4>4. QED BY <2>2, <4>1, <4>3
      <3>5. CASE ChainPrior(w)
        BY <2>1, <2>2, <3>1, <3>5 DEF ChainPrior
      <3>6. QED BY <2>3, <3>2, <3>3, <3>4, <3>5
    <2>4. CASE BundleBlock(w) \/ BundleFan(w) \/ GiftBlock(w)
      <3>1. /\ [task[w] EXCEPT !.pc = "bundleFan"].pc = "bundleFan"
            /\ [task[w] EXCEPT !.pc = "bundleItem", !.at = now].pc = "bundleItem"
            /\ [task[w] EXCEPT !.pc = "giftCommit", !.at = now].pc = "giftCommit"
        BY <2>0 DEF TaskRecord
      <3>2. CASE BundleBlock(w)
        BY <2>1, <2>2, <3>1, <3>2 DEF BundleBlock
      <3>3. CASE BundleFan(w)
        BY <2>2, <3>1, <3>3 DEF BundleFan
      <3>4. CASE GiftBlock(w)
        BY <2>1, <2>2, <3>1, <3>4 DEF GiftBlock
      <3>5. QED BY <2>4, <3>2, <3>3, <3>4
    <2>5. CASE BundleItem(w)
      <3>1. PICK t \in task[w].todo, id \in GeneratedIds :
                \/ Finish(w)
                \/ \E row : Goto(w, [task[w] EXCEPT !.todo = @ \ {t}, !.rows[id] = row])
        BY <2>5 DEF BundleItem
      <3>2. \A row : [task[w] EXCEPT !.todo = @ \ {t}, !.rows[id] = row].pc = "bundleItem"
        BY <2>0, <2>5 DEF BundleItem, At, TaskRecord
      <3>3. QED BY <2>1, <2>2, <3>1, <3>2
    <2>6. CASE ChainCreate(w) \/ ChainUpdate(w) \/ BundleCommit(w) \/ GiftCommit(w)
               \/ DeletionCommit(w)
      BY <2>1, <2>6 DEF ChainCreate, ChainUpdate, BundleCommit, GiftCommit, DeletionCommit
    <2>7. QED BY <1>8, <2>3, <2>4, <2>5, <2>6 DEF Serve
  <1>9. CASE UNCHANGED task
    BY <1>1, <1>9 DEF BundleMatchesRequest, At
  <1>10. CASE Crash
    BY <1>4, <1>10 DEF Crash, BundleMatchesRequest, At
  <1>11. ASSUME \/ \E p \in PassIds : EarningsWritten(p) \/ EarningsFailed(p)
                \/ \E t \in TierEvents : TierUpsert(t) \/ TierDeactivate(t)
                \/ \E b \in BlockPairs : BlockFan(b) \/ UnblockFan(b)
                \/ DeactivateExpired \/ Tick \/ UNCHANGED vars
         PROVE  UNCHANGED task
    BY <1>11 DEF EarningsWritten, EarningsFailed, TierUpsert, TierDeactivate, BlockFan,
                 UnblockFan, DeactivateExpired, Tick, vars
  <1>12. QED BY <1>5, <1>6, <1>7, <1>8, <1>9, <1>10, <1>11
             DEF Next, CalmNext, Faults, Accept, QueryFails

\* Where each on-chain id asked for names one tier, comparing the two counts is enough:
\* the tiers a bundle goes on to sell are exactly the ones it asked for.
THEOREM SpecBundleMatches == Spec => []BundleMatchesRequest
  <1>1. Init => BundleMatchesRequest
    BY DEF Init, BundleMatchesRequest, At, Idle
  <1>2. IInv /\ BundleMatchesRequest /\ [Next]_vars => BundleMatchesRequest'
    BY NextBundleMatches
  <1>3. QED BY <1>1, <1>2, Invariance, PTL DEF Spec

-----------------------------------------------------------------------------
(* Sales and blocks.  The checks and the writes are apart, so what a       *)
(* request can rely on is what it saw: unblocked.                          *)

\* The contract gives a pass one id, and the ids the API makes up are never among them.
Identified ==
    /\ \A d, e \in MintEvents : d.id = e.id => d.tier = e.tier /\ d.fan = e.fan
    /\ \A e \in MintEvents : e.id \notin GeneratedIds

Pair(t, f) == <<CreatorOf[t], f>>

\* A request has seen unblocked whoever is not blocked now.
Watched ==
    \A w \in Workers : ~At(w, "idle") => (Creators \X Fans) \ blocks \subseteq unblocked[w]

\* A request past its block check has seen unblocked whoever it sells to.
Cleared(r, seen) ==
    /\ r.pc = "idle" => r = Idle
    /\ r.pc \in ChainLabels \ {"chainBlock"} => Pair(r.req.tier, r.req.fan) \in seen
    /\ r.pc \in BundleLabels \ {"bundleBlock"} => \A t \in r.todo : Pair(t, r.req.fan) \in seen
    /\ r.pc = "giftCommit" => Pair(r.req.tier, r.req.recipient) \in seen
    /\ \A p \in PassIds : r.rows[p] # None => /\ p \in GeneratedIds
                                              /\ Pair(r.rows[p].tier, r.rows[p].fan) \in seen

AllCleared == \A w \in Workers : Cleared(task[w], unblocked[w])

\* A stored pass with the id of an event has its tier and fan.
NamesKept ==
    \A e \in MintEvents : Stored(e.id) => /\ passes[e.id].tier = e.tier
                                          /\ passes[e.id].fan = e.fan

LEMMA IdleIsCleared == \A seen : Cleared(Idle, seen)
  BY DEF Cleared, Idle, NoRows, ChainLabels, BundleLabels

\* What was seen stays seen.
LEMMA ClearedKept ==
    ASSUME NEW r, NEW seen, NEW more, Cleared(r, seen), seen \subseteq more
    PROVE  Cleared(r, more)
  BY DEF Cleared

LEMMA NextWatched ==
    ASSUME IInv, Watched, [Next]_vars
    PROVE  Watched'
  <1>0. task \in [Workers -> TaskRecord] /\ unblocked \in [Workers -> SUBSET (Creators \X Fans)]
    BY DEF IInv, TasksGood
  <1>1. ASSUME NEW w \in Workers, Finish(w), UNCHANGED blocks PROVE Watched'
    BY <1>0, <1>1 DEF Watched, Finish, At, Idle
  <1>2. ASSUME NEW w \in Workers, NEW r, Begin(w, r), UNCHANGED blocks PROVE Watched'
    BY <1>0, <1>2 DEF Watched, Begin, At
  <1>3. ASSUME NEW w \in Workers, NEW r, Goto(w, r), ~At(w, "idle"), UNCHANGED blocks
        PROVE  Watched'
    BY <1>0, <1>3 DEF Watched, Goto, At
  <1>4. ASSUME NEW w \in Workers, Accept(w) PROVE Watched'
    <2>1. UNCHANGED blocks
      BY <1>4 DEF Accept, ChainTier, BundleTiers, GiftTier, DeletionRead, Tables
    <2>2. \E r : Begin(w, r)
      BY <1>4 DEF Accept, ChainTier, BundleTiers, GiftTier, DeletionRead
    <2>3. QED BY <1>2, <2>1, <2>2
  <1>5. ASSUME NEW w \in Workers, Serve(w) \/ QueryFails(w) PROVE Watched'
    <2>1. UNCHANGED blocks
      BY <1>5 DEF Serve, QueryFails, ChainBlock, ChainFind, ChainFan, ChainPrior, ChainCreate,
         ChainUpdate, BundleBlock, BundleFan, BundleItem, BundleCommit, GiftBlock, GiftCommit,
         DeletionCommit, Tables
    <2>2. ~At(w, "idle")
      BY <1>5 DEF Serve, QueryFails, ChainBlock, ChainFind, ChainFan, ChainPrior, ChainCreate,
         ChainUpdate, BundleBlock, BundleFan, BundleItem, BundleCommit, GiftBlock, GiftCommit,
         DeletionCommit, At
    <2>3. Finish(w) \/ \E r : Goto(w, r)
      BY <1>5 DEF Serve, QueryFails, ChainBlock, ChainFind, ChainFan, ChainPrior, ChainCreate,
         ChainUpdate, BundleBlock, BundleFan, BundleItem, BundleCommit, GiftBlock, GiftCommit,
         DeletionCommit
    <2>4. QED BY <1>1, <1>3, <2>1, <2>2, <2>3
  <1>6. ASSUME NEW b \in BlockPairs, BlockFan(b) \/ UnblockFan(b) PROVE Watched'
    BY <1>0, <1>6 DEF BlockFan, UnblockFan, Watched, At
  <1>7. CASE Crash
    BY <1>7 DEF Crash, Watched, At, Idle
  <1>8. ASSUME \/ \E p \in PassIds : EarningsWritten(p) \/ EarningsFailed(p)
               \/ \E t \in TierEvents : TierUpsert(t) \/ TierDeactivate(t)
               \/ DeactivateExpired \/ Tick \/ UNCHANGED vars
        PROVE  UNCHANGED <<task, blocks, unblocked>>
    BY <1>8 DEF EarningsWritten, EarningsFailed, TierUpsert, TierDeactivate,
                DeactivateExpired, Tick, Tables, vars
  <1>9. CASE UNCHANGED <<task, blocks, unblocked>>
    BY <1>9 DEF Watched, At
  <1>10. QED BY <1>4, <1>5, <1>6, <1>7, <1>8, <1>9 DEF Next, CalmNext, Faults

\* The moves of a request past its checks.
LEMMA ClearedBlockChecks ==
    ASSUME IInv, Watched, NEW w \in Workers, NEW seen, Cleared(task[w], seen),
           ~At(w, "idle") => unblocked[w] \subseteq seen
    PROVE  /\ At(w, "chainBlock") /\ ~Blocked(task[w].req.fan, task[w].req.tier)
                 => Cleared([task[w] EXCEPT !.pc = "chainFind"], seen)
           /\ At(w, "bundleBlock") /\ (\A t \in task[w].todo : ~Blocked(task[w].req.fan, t))
                 => Cleared([task[w] EXCEPT !.pc = "bundleFan"], seen)
           /\ At(w, "giftBlock") /\ ~Blocked(task[w].req.recipient, task[w].req.tier)
                 => Cleared([task[w] EXCEPT !.pc = "giftCommit", !.at = now], seen)
  <1>1. task[w] \in TaskRecord /\ GoodTask(task[w], passes)
    BY SlotIsGood DEF GoodTask
  <1>2. ASSUME NEW t \in Tiers, NEW f \in Fans, ~Blocked(f, t), ~At(w, "idle")
        PROVE  Pair(t, f) \in seen
    <2>1. Pair(t, f) \in (Creators \X Fans) \ blocks
      BY <1>2, ConstantsAssumption DEF Pair, Blocked
    <2>2. QED BY <1>2, <2>1 DEF Watched
  <1>3. ASSUME At(w, "chainBlock"), ~Blocked(task[w].req.fan, task[w].req.tier)
        PROVE  Cleared([task[w] EXCEPT !.pc = "chainFind"], seen)
    <2>1. task[w].req \in MintEvents
      BY <1>1, <1>3 DEF GoodTask, ChainLabels, At
    <2>2. Pair(task[w].req.tier, task[w].req.fan) \in seen
      BY <1>2, <1>3, <2>1, MintFields DEF At
    <2>3. QED BY <1>1, <2>2 DEF Cleared, TaskRecord, ChainLabels, BundleLabels
  <1>4. ASSUME At(w, "bundleBlock"), \A t \in task[w].todo : ~Blocked(task[w].req.fan, t)
        PROVE  Cleared([task[w] EXCEPT !.pc = "bundleFan"], seen)
    <2>1. task[w].req.fan \in Fans /\ task[w].todo \subseteq Tiers
      BY <1>1, <1>4, ConstantsAssumption DEF GoodTask, BundleLabels, At, Order, TaskRecord
    <2>2. \A t \in task[w].todo : Pair(t, task[w].req.fan) \in seen
      BY <1>2, <1>4, <2>1 DEF At
    <2>3. QED BY <1>1, <2>2 DEF Cleared, TaskRecord, ChainLabels, BundleLabels
  <1>5. ASSUME At(w, "giftBlock"), ~Blocked(task[w].req.recipient, task[w].req.tier)
        PROVE  Cleared([task[w] EXCEPT !.pc = "giftCommit", !.at = now], seen)
    <2>1. task[w].req.recipient \in Fans /\ task[w].req.tier \in Tiers
      BY <1>1, <1>5, ConstantsAssumption DEF GoodTask, GiftLabels, At, Gift
    <2>2. Pair(task[w].req.tier, task[w].req.recipient) \in seen
      BY <1>2, <1>5, <2>1 DEF At
    <2>3. QED BY <1>1, <2>2 DEF Cleared, TaskRecord, ChainLabels, BundleLabels
  <1>6. QED BY <1>3, <1>4, <1>5

LEMMA ClearedItem ==
    ASSUME IInv, NEW w \in Workers, At(w, "bundleItem"), NEW seen, Cleared(task[w], seen),
           NEW t \in task[w].todo, NEW id \in GeneratedIds, NEW row,
           row.tier = t, row.fan = task[w].req.fan
    PROVE  Cleared([task[w] EXCEPT !.todo = @ \ {t}, !.rows[id] = row], seen)
  <1> DEFINE r == [task[w] EXCEPT !.todo = @ \ {t}, !.rows[id] = row]
  <1>1. task[w] \in TaskRecord /\ id \in PassIds
    BY SlotIsGood, ConstantsAssumption DEF GoodTask
  <1>2. /\ r.pc = "bundleItem" /\ r.req = task[w].req /\ r.todo = task[w].todo \ {t}
        /\ r.rows = [task[w].rows EXCEPT ![id] = row]
    BY <1>1 DEF TaskRecord, At
  <1> HIDE DEF r
  <1>3. \A u \in task[w].todo : Pair(u, task[w].req.fan) \in seen
    BY DEF Cleared, At, BundleLabels
  <1>4. ASSUME NEW p \in PassIds, r.rows[p] # None
        PROVE  p \in GeneratedIds /\ Pair(r.rows[p].tier, r.rows[p].fan) \in seen
    <2>1. CASE p = id
      <3>1. r.rows[p] = row
        BY <1>1, <1>2, <2>1 DEF TaskRecord
      <3>2. QED BY <1>3, <2>1, <3>1
    <2>2. CASE p # id
      <3>1. r.rows[p] = task[w].rows[p]
        BY <1>1, <1>2, <2>2 DEF TaskRecord
      <3>2. QED BY <1>4, <3>1 DEF Cleared
    <2>3. QED BY <2>1, <2>2
  <1>5. Cleared(r, seen)
    BY <1>2, <1>3, <1>4 DEF Cleared, ChainLabels, BundleLabels
  <1>6. QED BY <1>5 DEF r

LEMMA NextCleared ==
    ASSUME IInv, Watched, AllCleared, [Next]_vars
    PROVE  AllCleared'
  <1>0. task \in [Workers -> TaskRecord] /\ unblocked \in [Workers -> SUBSET (Creators \X Fans)]
    BY DEF IInv, TasksGood
  <1>1. ASSUME NEW w \in Workers, Finish(w) PROVE AllCleared'
    BY <1>0, <1>1, IdleIsCleared DEF AllCleared, Finish
  <1>2. ASSUME NEW w \in Workers, NEW r, Begin(w, r), \A seen : Cleared(r, seen)
        PROVE  AllCleared'
    BY <1>0, <1>2 DEF AllCleared, Begin
  <1>3. ASSUME NEW w \in Workers, NEW r, Goto(w, r), Cleared(r, unblocked[w])
        PROVE  AllCleared'
    BY <1>0, <1>3 DEF AllCleared, Goto
  <1>4. ASSUME NEW w \in Workers, Accept(w) PROVE AllCleared'
    <2>1. /\ \A e, seen : Cleared([Idle EXCEPT !.pc = "chainBlock", !.req = e, !.at = now], seen)
          /\ \A b, T, seen : Cleared([Idle EXCEPT !.pc = "bundleBlock", !.req = b,
                                                 !.tiers = T, !.todo = T], seen)
          /\ \A g, seen : Cleared([Idle EXCEPT !.pc = "giftBlock", !.req = g], seen)
          /\ \A f, seen : Cleared([Idle EXCEPT !.pc = "deletion", !.req = f], seen)
      BY DEF Cleared, Idle, NoRows, ChainLabels, BundleLabels
    <2>2. CASE ChainTier(w)
      BY <1>2, <2>1, <2>2 DEF ChainTier
    <2>3. CASE BundleTiers(w)
      BY <1>2, <2>1, <2>3 DEF BundleTiers
    <2>4. CASE GiftTier(w)
      BY <1>2, <2>1, <2>4 DEF GiftTier
    <2>5. CASE DeletionRead(w)
      BY <1>2, <2>1, <2>5 DEF DeletionRead
    <2>6. QED BY <1>4, <2>2, <2>3, <2>4, <2>5 DEF Accept
  <1>5. ASSUME NEW w \in Workers, Serve(w) \/ QueryFails(w) PROVE AllCleared'
    <2>0. task[w] \in TaskRecord /\ Cleared(task[w], unblocked[w])
      BY <1>0 DEF AllCleared
    <2>1. CASE ChainBlock(w) \/ BundleBlock(w) \/ GiftBlock(w)
      <3>1. CASE Finish(w)
        BY <1>1, <3>1
      <3>2. CASE ~Finish(w)
        BY <1>3, <2>0, <2>1, <3>2, ClearedBlockChecks DEF ChainBlock, BundleBlock, GiftBlock
      <3>3. QED BY <3>1, <3>2
    <2>2. CASE ChainFind(w)
      <3>1. Cleared([task[w] EXCEPT !.pc = "chainFan", !.seen = Stored(task[w].req.id)],
                    unblocked[w])
        BY <2>0, <2>2 DEF ChainFind, At, Cleared, TaskRecord, ChainLabels, BundleLabels
      <3>2. QED BY <1>3, <2>2, <3>1 DEF ChainFind
    <2>3. CASE ChainFan(w)
      <3> DEFINE l == IF task[w].seen THEN "chainUpdate" ELSE "chainPrior"
      <3>1. Cleared([task[w] EXCEPT !.pc = l], unblocked[w])
        BY <2>0, <2>3 DEF ChainFan, At, Cleared, TaskRecord, ChainLabels, BundleLabels
      <3>2. QED BY <1>3, <2>3, <3>1 DEF ChainFan
    <2>4. CASE ChainPrior(w)
      <3> DEFINE r == [task[w] EXCEPT !.pc = "chainCreate",
                                      !.trial = GrantsTrial(task[w].req.fan, task[w].req.tier)]
      <3>1. Cleared(r, unblocked[w])
        BY <2>0, <2>4 DEF ChainPrior, At, Cleared, TaskRecord, ChainLabels, BundleLabels
      <3>2. Finish(w) \/ Goto(w, r)
        BY <2>4 DEF ChainPrior
      <3> HIDE DEF r
      <3>3. QED BY <1>1, <1>3, <3>1, <3>2
    <2>5. CASE BundleFan(w)
      <3>1. Cleared([task[w] EXCEPT !.pc = "bundleItem", !.at = now], unblocked[w])
        BY <2>0, <2>5 DEF BundleFan, At, Cleared, TaskRecord, ChainLabels, BundleLabels
      <3>2. QED BY <1>3, <2>5, <3>1 DEF BundleFan
    <2>6. CASE BundleItem(w)
      <3>1. PICK t \in task[w].todo, id \in GeneratedIds :
                \/ Finish(w)
                \/ \E x, giver, trial :
                      Goto(w, [task[w] EXCEPT !.todo = @ \ {t},
                                              !.rows[id] = NewRow(t, task[w].req.fan, giver, x, trial)])
        BY <2>6 DEF BundleItem
      <3>2. \A x, giver, trial :
                /\ NewRow(t, task[w].req.fan, giver, x, trial).tier = t
                /\ NewRow(t, task[w].req.fan, giver, x, trial).fan = task[w].req.fan
        BY DEF NewRow
      <3>3. At(w, "bundleItem")
        BY <2>6 DEF BundleItem
      <3>4. \A x, giver, trial :
                Cleared([task[w] EXCEPT !.todo = @ \ {t},
                                        !.rows[id] = NewRow(t, task[w].req.fan, giver, x, trial)],
                        unblocked[w])
        <4> TAKE x, giver, trial
        <4> DEFINE row == NewRow(t, task[w].req.fan, giver, x, trial)
        <4>1. row.tier = t /\ row.fan = task[w].req.fan
          BY <3>2
        <4> HIDE DEF row
        <4>2. Cleared([task[w] EXCEPT !.todo = @ \ {t}, !.rows[id] = row], unblocked[w])
          BY <2>0, <3>3, <4>1, ClearedItem
        <4>3. QED BY <4>2 DEF row
      <3>5. QED BY <1>1, <1>3, <3>1, <3>4
    <2>7. CASE ChainCreate(w) \/ ChainUpdate(w) \/ BundleCommit(w) \/ GiftCommit(w)
               \/ DeletionCommit(w) \/ QueryFails(w)
      BY <1>1, <2>7 DEF ChainCreate, ChainUpdate, BundleCommit, GiftCommit, DeletionCommit,
                        QueryFails
    <2>8. QED BY <1>5, <2>1, <2>2, <2>3, <2>4, <2>5, <2>6, <2>7 DEF Serve
  <1>6. ASSUME NEW b \in BlockPairs, UnblockFan(b) PROVE AllCleared'
    <2>1. ASSUME NEW v \in Workers PROVE Cleared(task'[v], unblocked'[v])
      <3>1. task'[v] = task[v] /\ Cleared(task[v], unblocked[v])
        BY <1>6 DEF UnblockFan, AllCleared
      <3>2. CASE At(v, "idle")
        BY <3>1, <3>2, IdleIsCleared DEF At, Cleared
      <3>3. CASE ~At(v, "idle")
        <4>1. unblocked[v] \subseteq unblocked'[v]
          BY <1>6, <3>3 DEF UnblockFan
        <4>2. QED BY <3>1, <4>1, ClearedKept
      <3>4. QED BY <3>2, <3>3
    <2>2. QED BY <2>1 DEF AllCleared
  <1>7. CASE Crash
    BY <1>7, IdleIsCleared DEF Crash, AllCleared
  <1>8. ASSUME \/ \E p \in PassIds : EarningsWritten(p) \/ EarningsFailed(p)
               \/ \E t \in TierEvents : TierUpsert(t) \/ TierDeactivate(t)
               \/ \E b \in BlockPairs : BlockFan(b)
               \/ DeactivateExpired \/ Tick \/ UNCHANGED vars
        PROVE  UNCHANGED <<task, unblocked>>
    BY <1>8 DEF EarningsWritten, EarningsFailed, TierUpsert, TierDeactivate, BlockFan,
                DeactivateExpired, Tick, Tables, vars
  <1>9. CASE UNCHANGED <<task, unblocked>>
    BY <1>9 DEF AllCleared
  <1>10. QED BY <1>4, <1>5, <1>6, <1>7, <1>8, <1>9 DEF Next, CalmNext, Faults

\* The steps that store no pass and move no expiry.
LEMMA ElseNothingIsSold ==
    ASSUME IInv, [Next]_vars,
           ~\E w \in Workers : ChainCreate(w) \/ ChainUpdate(w) \/ BundleCommit(w) \/ GiftCommit(w),
           NEW p \in PassIds
    PROVE  /\ Stored(p)' <=> Stored(p)
           /\ Stored(p) => passes'[p].expiresAt = passes[p].expiresAt
  <1>1. ASSUME NEW P \in SUBSET PassIds, Retires(P)
        PROVE  /\ Stored(p)' <=> Stored(p)
               /\ Stored(p) => passes'[p].expiresAt = passes[p].expiresAt
    <2>1. CASE p \in P
      <3>1. /\ passes[p] \in PassRow
            /\ passes'[p] = [passes[p] EXCEPT !.active = FALSE]
            /\ passes'[p] # None
        BY <1>1, <2>1, RetiredRow DEF IInv
      <3>2. QED BY <3>1, NoneAssumption DEF Stored, PassRow
    <2>2. CASE p \notin P
      BY <1>1, <2>2 DEF Retires, Deactivate, Stored
    <2>3. QED BY <2>1, <2>2
  <1>2. ASSUME NEW w \in Workers, DeletionCommit(w)
        PROVE  Retires({q \in PassIds : Stored(q) /\ passes[q].fan = task[w].req /\ passes[q].active})
    BY <1>2 DEF DeletionCommit, Retires, Stored
  <1>3. ASSUME DeactivateExpired
        PROVE  Retires({q \in PassIds : Expired(q)})
    BY <1>3 DEF DeactivateExpired, Retires, Expired, Stored
  <1>4. CASE UNCHANGED passes
    BY <1>4 DEF Stored
  <1>5. ASSUME NEW w \in Workers, Accept(w) \/ QueryFails(w) PROVE UNCHANGED passes
    BY <1>5 DEF Accept, ChainTier, BundleTiers, GiftTier, DeletionRead, QueryFails, Tables
  <1>6. ASSUME NEW w \in Workers, Serve(w), ~DeletionCommit(w) PROVE UNCHANGED passes
    BY <1>6 DEF Serve, ChainBlock, ChainFind, ChainFan, ChainPrior, BundleBlock, BundleFan,
                BundleItem, GiftBlock, Tables
  <1>7. ASSUME \/ \E q \in PassIds : EarningsWritten(q) \/ EarningsFailed(q)
               \/ \E t \in TierEvents : TierUpsert(t) \/ TierDeactivate(t)
               \/ \E b \in BlockPairs : BlockFan(b) \/ UnblockFan(b)
               \/ Crash \/ Tick \/ UNCHANGED vars
        PROVE  UNCHANGED passes
    BY <1>7 DEF EarningsWritten, EarningsFailed, TierUpsert, TierDeactivate, BlockFan,
                UnblockFan, Crash, Tick, Tables, vars
  <1>8. CASE \E w \in Workers : DeletionCommit(w)
    BY <1>1, <1>2, <1>8
  <1>9. CASE DeactivateExpired
    BY <1>1, <1>3, <1>9
  <1>10. QED BY <1>4, <1>5, <1>6, <1>7, <1>8, <1>9 DEF Next, CalmNext, Faults

\* Only a create of the event, a bundle or a gift stores a pass.
LEMMA NextNames ==
    ASSUME Identified, IInv, SoldTyped, WholeOrders, AllCleared, NamesKept, [Next]_vars
    PROVE  NamesKept'
  <1> SUFFICES ASSUME NEW e \in MintEvents, Stored(e.id)'
               PROVE  passes'[e.id].tier = e.tier /\ passes'[e.id].fan = e.fan
    BY DEF NamesKept
  <1>1. e.id \in PassIds /\ e.id \notin GeneratedIds
    BY MintFields DEF Identified
  <1>2. CASE Stored(e.id)
    <2>1. Steady(e.id)
      BY <1>1, StepKinds, KindsAreSteady DEF IInv
    <2>2. QED BY <1>2, <2>1 DEF Steady, NamesKept
  <1>3. CASE ~Stored(e.id) /\ \E w \in Workers : ChainCreate(w)
    <2>1. PICK w \in Workers : ChainCreate(w)
      BY <1>3
    <2> DEFINE d == task[w].req
    <2>2. d \in MintEvents
      BY <2>1, SlotIsGood DEF ChainCreate, At, GoodTask, ChainLabels
    <2>3. ChainRow(w).tier = d.tier /\ ChainRow(w).fan = d.fan
      BY DEF ChainRow, NewRow
    <2>4. passes' = passes \/ passes' = [passes EXCEPT ![d.id] = ChainRow(w)]
      BY <2>1 DEF ChainCreate
    <2> HIDE DEF d
    <2>5. d.id = e.id /\ passes'[e.id] = ChainRow(w)
      BY <1>1, <1>3, <2>4 DEF Stored, IInv, SalesOK
    <2>6. QED BY <2>2, <2>3, <2>5 DEF Identified
  <1>4. CASE ~Stored(e.id) /\ \E w \in Workers : BundleCommit(w)
    <2>1. PICK w \in Workers : BundleCommit(w)
      BY <1>4
    <2>2. task[w].rows[e.id] = None
      BY <1>1 DEF AllCleared, Cleared
    <2>3. passes'[e.id] = passes[e.id]
      BY <1>1, <2>1, <2>2 DEF BundleCommit, Overlay
    <2>4. QED BY <1>4, <2>3 DEF Stored
  <1>5. CASE ~Stored(e.id) /\ \E w \in Workers : GiftCommit(w)
    <2>1. passes'[e.id] = passes[e.id]
      BY <1>1, <1>5 DEF GiftCommit, IInv, SalesOK
    <2>2. QED BY <1>5, <2>1 DEF Stored
  <1>6. CASE /\ ~Stored(e.id)
             /\ ~\E w \in Workers : \/ ChainCreate(w) \/ ChainUpdate(w)
                                    \/ BundleCommit(w) \/ GiftCommit(w)
    BY <1>1, <1>6, ElseNothingIsSold
  <1>7. CASE ~Stored(e.id) /\ \E w \in Workers : ChainUpdate(w)
    <2>1. PICK w \in Workers : ChainUpdate(w)
      BY <1>7
    <2>2. task[w].req \in MintEvents /\ passes[task[w].req.id] # None
      BY <2>1, SlotIsGood DEF ChainUpdate, At, GoodTask, ChainLabels
    <2>3. passes'[e.id] = passes[e.id]
      BY <1>1, <1>7, <2>1, <2>2 DEF ChainUpdate, Stored, IInv, SalesOK
    <2>4. QED BY <1>7, <2>3 DEF Stored
  <1>8. QED BY <1>2, <1>3, <1>4, <1>5, <1>6, <1>7

-----------------------------------------------------------------------------
(* The step property.                                                      *)

SaleSeen(p) ==
    Stored(p)' /\ (~Stored(p) \/ passes'[p].expiresAt # passes[p].expiresAt) =>
        \E w \in Workers :
            /\ ~At(w, "idle") /\ At(w, "idle")'
            /\ <<CreatorOf[passes'[p].tier], passes'[p].fan>> \in unblocked[w]

LEMMA StepSaleSeen ==
    ASSUME IInv, AllCleared, NamesKept, NamesKept', [Next]_vars, NEW p \in PassIds
    PROVE  SaleSeen(p)
  <1>0. /\ task \in [Workers -> TaskRecord]
        /\ \A w \in Workers : Finish(w) => At(w, "idle")'
    BY DEF IInv, TasksGood, Finish, At, Idle
  <1> SUFFICES ASSUME Stored(p)', ~Stored(p) \/ passes'[p].expiresAt # passes[p].expiresAt
               PROVE  \E w \in Workers :
                          /\ ~At(w, "idle") /\ At(w, "idle")'
                          /\ Pair(passes'[p].tier, passes'[p].fan) \in unblocked[w]
    BY DEF SaleSeen, Pair
  <1>1. passes'[p] # passes[p]
    BY DEF Stored
  <1>2. ASSUME NEW w \in Workers, ChainCreate(w) \/ ChainUpdate(w)
        PROVE  /\ ~At(w, "idle") /\ At(w, "idle")'
               /\ Pair(passes'[p].tier, passes'[p].fan) \in unblocked[w]
    <2> DEFINE e == task[w].req
    <2>1. /\ e \in MintEvents /\ ~At(w, "idle") /\ At(w, "idle")'
          /\ Pair(e.tier, e.fan) \in unblocked[w]
      BY <1>0, <1>2, SlotIsGood
         DEF ChainCreate, ChainUpdate, At, GoodTask, AllCleared, Cleared, ChainLabels
    <2>2. \A q \in PassIds : q # e.id => passes'[q] = passes[q]
      BY <1>2 DEF ChainCreate, ChainUpdate, IInv, SalesOK
    <2>3. p = e.id
      BY <1>1, <2>2
    <2>4. passes'[p].tier = e.tier /\ passes'[p].fan = e.fan
      BY <2>1, <2>3 DEF NamesKept
    <2>5. QED BY <2>1, <2>4
  <1>3. ASSUME NEW w \in Workers, BundleCommit(w)
        PROVE  /\ ~At(w, "idle") /\ At(w, "idle")'
               /\ Pair(passes'[p].tier, passes'[p].fan) \in unblocked[w]
    <2>1. ~At(w, "idle") /\ At(w, "idle")'
      BY <1>0, <1>3 DEF BundleCommit, At
    <2>2. task[w].rows[p] # None /\ passes'[p] = task[w].rows[p]
      BY <1>1, <1>3 DEF BundleCommit, Overlay
    <2>3. QED BY <2>1, <2>2 DEF AllCleared, Cleared
  <1>4. ASSUME NEW w \in Workers, GiftCommit(w)
        PROVE  /\ ~At(w, "idle") /\ At(w, "idle")'
               /\ Pair(passes'[p].tier, passes'[p].fan) \in unblocked[w]
    <2> DEFINE g == task[w].req
               row == NewRow(g.tier, g.recipient, g.sender,
                             task[w].at + DurationDays[g.tier], FALSE)
    <2>1. /\ ~At(w, "idle") /\ At(w, "idle")'
          /\ Pair(g.tier, g.recipient) \in unblocked[w]
      BY <1>0, <1>4 DEF GiftCommit, At, AllCleared, Cleared
    <2>2. row.tier = g.tier /\ row.fan = g.recipient
      BY DEF NewRow
    <2>3. PICK id \in GeneratedIds : passes' = passes \/ passes' = [passes EXCEPT ![id] = row]
      BY <1>4 DEF GiftCommit
    <2> HIDE DEF row
    <2>4. passes'[p] = row
      BY <1>1, <2>3 DEF IInv, SalesOK
    <2>5. QED BY <2>1, <2>2, <2>4
  <1>5. QED BY <1>2, <1>3, <1>4, ElseNothingIsSold

\* For every number of requests, blocks and purchases: where events have ids of their
\* own, a pass is stored or extended only by a request that saw its owner unblocked, so a
\* block set before the request and kept stops the sale, whatever runs beside it.
THEOREM SpecNoSaleWhileBlocked ==
    ASSUME Identified
    PROVE  Spec => NoSaleWhileBlocked
  <1> DEFINE Sight == Watched /\ AllCleared /\ NamesKept
  <1>1. Init => Sight
    <2> SUFFICES ASSUME Init PROVE Sight
      OBVIOUS
    <2>1. \A w \in Workers : task[w] = Idle
      BY DEF Init
    <2>2. Watched
      BY <2>1 DEF Watched, At, Idle
    <2>3. AllCleared
      BY <2>1, IdleIsCleared DEF AllCleared
    <2>4. NamesKept
      BY MintFields DEF Init, NamesKept, NoRows, Stored
    <2>5. QED BY <2>2, <2>3, <2>4
  <1>2. IInv /\ SoldTyped /\ WholeOrders /\ Sight /\ [Next]_vars => Sight'
    BY NextWatched, NextCleared, NextNames
  <1>3. IInv /\ Sight /\ Sight' /\ [Next]_vars => [\A p \in PassIds : SaleSeen(p)]_vars
    BY StepSaleSeen
  <1>4. IInv /\ Sight /\ Sight' /\ [Next]_vars =>
           [\A p \in PassIds :
              Stored(p)' /\ (~Stored(p) \/ passes'[p].expiresAt # passes[p].expiresAt) =>
                 \E w \in Workers :
                     /\ ~At(w, "idle") /\ At(w, "idle")'
                     /\ <<CreatorOf[passes'[p].tier], passes'[p].fan>> \in unblocked[w]]_vars
    BY <1>3 DEF SaleSeen
  <1> HIDE DEF Sight
  <1>5. QED BY <1>1, <1>2, <1>4, Invariance, SoldTypedAlways, OrdersStayWhole, PTL
            DEF Spec, NoSaleWhileBlocked
=============================================================================
