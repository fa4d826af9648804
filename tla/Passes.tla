------------------------------- MODULE Passes -------------------------------
(***************************************************************************)
(* The pass store: everything that writes the tables Pass and              *)
(* EarningsRecord, as concurrent requests over one Postgres database.      *)
(*                                                                         *)
(* A request (an indexer call of upsertFromChain, an HTTP bundle purchase, *)
(* gift, or deletion request) runs in a worker slot.  Every awaited query  *)
(* is one atomic step of its worker, because Prisma sends it as one        *)
(* autocommit statement; between two awaits any other worker may run.  An  *)
(* interactive $transaction is READ COMMITTED: its reads see what others   *)
(* committed meanwhile, its writes appear together at its commit.          *)
(*                                                                         *)
(* Abstracted: prices (every paid pass earns one record), tx hashes,       *)
(* webhooks and e-mails (best effort, they write no table).                *)
(***************************************************************************)
EXTENDS Naturals, Sequences, FiniteSets

CONSTANTS
    Workers,        \* slots for requests in flight
    Fans,           \* wallet addresses
    Creators,
    Tiers,          \* rows of the table Tier
    CreatorOf,      \* Tier.creatorId
    ChainIdOf,      \* Tier.onChainId, unique only per creator
    TrialDays,      \* Tier.trialDays
    DurationDays,   \* Tier.durationDays
    SyncedTiers,    \* the tiers already stored when the model starts
    PassIds,        \* the values Pass.onChainId takes
    GeneratedIds,   \* those the API makes up: Date.now() plus a random offset
    MintEvents,     \* pass_minted events the indexer may deliver, any number of times
    Bundles,        \* purchase requests: on-chain tier ids and a buyer
    Gifts,          \* gift requests
    Leavers,        \* fans who may request deletion
    TierEvents,     \* tiers whose tier_created and tier_deactivated may arrive
    BlockPairs,     \* <<creator, address>> pairs the creators may block and unblock
    MaxTime,        \* bound of the clock
    None            \* the SQL NULL

Gift  == [tier : Tiers, sender : Fans, recipient : Fans]
Mint  == [id : PassIds, tier : Tiers, fan : Fans, expiresAt : Nat]
Order == [ids : SUBSET Nat, fan : Fans]

PassRow == [tier : Tiers, fan : Fans, giftedBy : Fans \cup {None},
            expiresAt : Nat, active : BOOLEAN, trialUsed : BOOLEAN]

ASSUME ConstantsAssumption ==
    /\ CreatorOf \in [Tiers -> Creators]
    /\ ChainIdOf \in [Tiers -> Nat]
    /\ TrialDays \in [Tiers -> Nat]
    /\ DurationDays \in [Tiers -> Nat]
    /\ SyncedTiers \subseteq Tiers
    /\ GeneratedIds \subseteq PassIds
    /\ MintEvents \subseteq Mint
    /\ Bundles \subseteq Order
    /\ \A b \in Bundles : IsFiniteSet(b.ids)
    /\ Gifts \subseteq Gift
    /\ Leavers \subseteq Fans
    /\ TierEvents \subseteq Tiers
    /\ BlockPairs \subseteq Creators \X Fans
    /\ MaxTime \in Nat

ASSUME NoneAssumption ==
    /\ None \notin Fans
    /\ None \notin Nat
    /\ None \notin PassRow

VARIABLES
    now,         \* the clock, in days
    tierState,   \* "absent", "active" or "inactive"
    blocks,      \* rows of the table Block, <<creator, address>>
    fans,        \* addresses that have a row in Fan
    deletionAt,  \* Fan.deletionRequestedAt
    passes,      \* Pass, by its unique onChainId
    earnings,    \* by pass, the payers of the EarningsRecord rows written for it
    owed,        \* passes whose EarningsRecord insert is sent and not awaited
    task,        \* the request each worker serves
    unblocked,   \* history: pairs seen unblocked since the worker's request began
    soldWith     \* history: by pass, the tiers asked for in the request that sold it

vars == <<now, tierState, blocks, fans, deletionAt, passes, earnings, owed,
          task, unblocked, soldWith>>

NoRows == [p \in PassIds |-> None]

Idle == [pc |-> "idle", req |-> None, at |-> 0, seen |-> FALSE, trial |-> FALSE,
         tiers |-> {}, todo |-> {}, rows |-> NoRows]

Init ==
    /\ now = 0
    /\ tierState = [t \in Tiers |-> IF t \in SyncedTiers THEN "active" ELSE "absent"]
    /\ blocks = {}
    /\ fans = {}
    /\ deletionAt = [f \in Fans |-> None]
    /\ passes = NoRows
    /\ earnings = [p \in PassIds |-> <<>>]
    /\ owed = {}
    /\ task = [w \in Workers |-> Idle]
    /\ unblocked = [w \in Workers |-> {}]
    /\ soldWith = [p \in PassIds |-> {}]

-----------------------------------------------------------------------------
(* Rows and the questions the code asks of them.                           *)

Stored(p)   == passes[p] # None
Paid(p)     == Stored(p) /\ ~passes[p].trialUsed
Payer(row)  == IF row.giftedBy = None THEN row.fan ELSE row.giftedBy
Blocked(f, t) == <<CreatorOf[t], f>> \in blocks

NewRow(t, f, giver, expiry, trial) ==
    [tier |-> t, fan |-> f, giftedBy |-> giver, expiresAt |-> expiry,
     active |-> TRUE, trialUsed |-> trial]

\* pass.findMany({fanId, tierId}): every pass of the fan, active or not.
PriorPasses(f, t) ==
    {p \in PassIds : Stored(p) /\ passes[p].fan = f /\ passes[p].tier = t}

TrialSpent(f, t) == \E p \in PriorPasses(f, t) : passes[p].trialUsed
GrantsTrial(f, t) == PriorPasses(f, t) = {} /\ TrialDays[t] > 0

-----------------------------------------------------------------------------
(* Worker bookkeeping: how a request begins, moves on and ends.            *)

Begin(w, record) ==
    /\ task[w].pc = "idle"
    /\ task' = [task EXCEPT ![w] = record]
    /\ unblocked' = [unblocked EXCEPT ![w] = (Creators \X Fans) \ blocks]

Goto(w, record) ==
    /\ task' = [task EXCEPT ![w] = record]
    /\ UNCHANGED unblocked

Finish(w) ==
    /\ task' = [task EXCEPT ![w] = Idle]
    /\ unblocked' = [unblocked EXCEPT ![w] = {}]

At(w, label) == task[w].pc = label

Tables == <<tierState, blocks, fans, deletionAt, passes, earnings, owed, soldWith>>

-----------------------------------------------------------------------------
(* PassesService.upsertFromChain, called by the poller and by reindex and  *)
(* replay jobs: several may deliver the same event at once.                *)

ChainTier(w) ==
    \E e \in MintEvents :
        /\ tierState[e.tier] # "absent"
        /\ Begin(w, [Idle EXCEPT !.pc = "chainBlock", !.req = e, !.at = now])
        /\ UNCHANGED <<now, Tables>>

ChainBlock(w) ==
    /\ At(w, "chainBlock")
    /\ IF Blocked(task[w].req.fan, task[w].req.tier)
       THEN Finish(w)                                   \* ForbiddenException
       ELSE Goto(w, [task[w] EXCEPT !.pc = "chainFind"])
    /\ UNCHANGED <<now, Tables>>

ChainFind(w) ==
    /\ At(w, "chainFind")
    /\ Goto(w, [task[w] EXCEPT !.pc = "chainFan", !.seen = Stored(task[w].req.id)])
    /\ UNCHANGED <<now, Tables>>

ChainFan(w) ==
    /\ At(w, "chainFan")
    /\ fans' = fans \cup {task[w].req.fan}
    /\ Goto(w, [task[w] EXCEPT !.pc = IF task[w].seen THEN "chainUpdate" ELSE "chainPrior"])
    /\ UNCHANGED <<now, tierState, blocks, deletionAt, passes, earnings, owed, soldWith>>

ChainPrior(w) ==
    LET e == task[w].req IN
    /\ At(w, "chainPrior")
    /\ IF TrialSpent(e.fan, e.tier)
       THEN Finish(w)                                   \* ForbiddenException
       ELSE Goto(w, [task[w] EXCEPT !.pc = "chainCreate",
                                    !.trial = GrantsTrial(e.fan, e.tier)])
    /\ UNCHANGED <<now, Tables>>

\* Mutant: an event without an expiry is stored with none.
ChainRowMutant(w) ==
    LET e == task[w].req IN NewRow(e.tier, e.fan, None, None, task[w].trial)

ChainRow(w) ==
    LET e == task[w].req IN
    NewRow(e.tier, e.fan, None,
           IF task[w].trial THEN task[w].at + TrialDays[e.tier] ELSE e.expiresAt,
           task[w].trial)

\* Mutant: the record is charged without asking whether the pass is a trial.
ChainCreateMutant(w) ==
    LET e == task[w].req IN
    /\ At(w, "chainCreate")
    /\ IF Stored(e.id)
       THEN UNCHANGED <<passes, owed, soldWith>>
       ELSE /\ passes' = [passes EXCEPT ![e.id] = ChainRow(w)]
            /\ soldWith' = [soldWith EXCEPT ![e.id] = {e.tier}]
            /\ owed' = owed \cup {e.id}
    /\ Finish(w)
    /\ UNCHANGED <<now, tierState, blocks, fans, deletionAt, earnings>>

\* Mutant: a duplicate id is answered with a retry of the insert.
ChainCreateRetryMutant(w) ==
    LET e == task[w].req IN
    /\ At(w, "chainCreate")
    /\ ~Stored(e.id)
    /\ passes' = [passes EXCEPT ![e.id] = ChainRow(w)]
    /\ soldWith' = [soldWith EXCEPT ![e.id] = {e.tier}]
    /\ IF task[w].trial
       THEN UNCHANGED owed
       ELSE /\ owed' = owed \cup {e.id}
    /\ Finish(w)
    /\ UNCHANGED <<now, tierState, blocks, fans, deletionAt, earnings>>

ChainCreate(w) ==
    LET e == task[w].req IN
    /\ At(w, "chainCreate")
    /\ IF Stored(e.id)                                  \* unique constraint
       THEN UNCHANGED <<passes, owed, soldWith>>
       ELSE /\ passes' = [passes EXCEPT ![e.id] = ChainRow(w)]
            /\ soldWith' = [soldWith EXCEPT ![e.id] = {e.tier}]
            /\ IF task[w].trial
               THEN UNCHANGED owed
               ELSE /\ owed' = owed \cup {e.id}
    /\ Finish(w)
    /\ UNCHANGED <<now, tierState, blocks, fans, deletionAt, earnings>>

\* Mutant: the update also sets the column active.
ChainUpdateMutant(w) ==
    LET e == task[w].req IN
    /\ At(w, "chainUpdate")
    /\ passes' = [passes EXCEPT ![e.id].expiresAt = e.expiresAt, ![e.id].active = TRUE]
    /\ Finish(w)
    /\ UNCHANGED <<now, tierState, blocks, fans, deletionAt, earnings, owed, soldWith>>

ChainUpdate(w) ==
    LET e == task[w].req IN
    /\ At(w, "chainUpdate")
    /\ passes' = [passes EXCEPT ![e.id].expiresAt = e.expiresAt]
    /\ Finish(w)
    /\ UNCHANGED <<now, tierState, blocks, fans, deletionAt, earnings, owed, soldWith>>

\* Mutant: the insert is sent again after it succeeded.
EarningsWrittenMutant(p) ==
    /\ p \in owed
    /\ Len(earnings[p]) < 2
    /\ earnings' = [earnings EXCEPT ![p] = Append(@, Payer(passes[p]))]
    /\ UNCHANGED <<now, tierState, blocks, fans, deletionAt, passes, owed,
                   soldWith, task, unblocked>>

\* The EarningsRecord insert that upsertFromChain sent and did not await.
EarningsWritten(p) ==
    /\ p \in owed
    /\ owed' = owed \ {p}
    /\ earnings' = [earnings EXCEPT ![p] = Append(@, Payer(passes[p]))]
    /\ UNCHANGED <<now, tierState, blocks, fans, deletionAt, passes,
                   soldWith, task, unblocked>>

\* It fails: the .catch logs, nobody retries.
EarningsFailed(p) ==
    /\ p \in owed
    /\ owed' = owed \ {p}
    /\ UNCHANGED <<now, tierState, blocks, fans, deletionAt, passes, earnings,
                   soldWith, task, unblocked>>

-----------------------------------------------------------------------------
(* PassesService.purchaseBundle.                                           *)

Found(ids) == {t \in Tiers : tierState[t] = "active" /\ ChainIdOf[t] \in ids}

\* Mutant: ids without an active tier are skipped instead of refused.
BundleTiersMutant(w) ==
    \E b \in Bundles :
        /\ Found(b.ids) # {}
        /\ Begin(w, [Idle EXCEPT !.pc = "bundleBlock", !.req = b,
                                 !.tiers = Found(b.ids), !.todo = Found(b.ids)])
        /\ UNCHANGED <<now, Tables>>

BundleTiers(w) ==
    \E b \in Bundles :
        /\ Cardinality(Found(b.ids)) = Cardinality(b.ids)    \* else BadRequestException
        /\ Begin(w, [Idle EXCEPT !.pc = "bundleBlock", !.req = b,
                                 !.tiers = Found(b.ids), !.todo = Found(b.ids)])
        /\ UNCHANGED <<now, Tables>>

BundleBlock(w) ==
    /\ At(w, "bundleBlock")
    /\ IF \E t \in task[w].todo : Blocked(task[w].req.fan, t)
       THEN Finish(w)                                   \* ForbiddenException
       ELSE Goto(w, [task[w] EXCEPT !.pc = "bundleFan"])
    /\ UNCHANGED <<now, Tables>>

BundleFan(w) ==
    /\ At(w, "bundleFan")
    /\ fans' = fans \cup {task[w].req.fan}
    /\ Goto(w, [task[w] EXCEPT !.pc = "bundleItem", !.at = now])
    /\ UNCHANGED <<now, tierState, blocks, deletionAt, passes, earnings, owed, soldWith>>

\* Mutant: the inserts are sent outside the transaction and take effect one by one.
BundleItemMutant(w) ==
    \E t \in task[w].todo, id \in GeneratedIds :
        LET f == task[w].req.fan
            trial == GrantsTrial(f, t)
            days == IF trial THEN TrialDays[t] ELSE DurationDays[t]
            row == NewRow(t, f, None, task[w].at + days, trial)
        IN /\ At(w, "bundleItem")
           /\ IF TrialSpent(f, t) \/ Stored(id)
              THEN /\ Finish(w)
                   /\ UNCHANGED <<passes, earnings, soldWith>>
              ELSE /\ Goto(w, [task[w] EXCEPT !.todo = @ \ {t}])
                   /\ passes' = [passes EXCEPT ![id] = row]
                   /\ soldWith' = [soldWith EXCEPT ![id] = task[w].tiers]
                   /\ earnings' = IF trial THEN earnings
                                  ELSE [earnings EXCEPT ![id] = Append(@, f)]
           /\ UNCHANGED <<now, tierState, blocks, fans, deletionAt, owed>>

\* One turn of the loop inside the transaction: read the prior passes, insert the
\* pass (and its EarningsRecord), both invisible to others until the commit.
BundleItem(w) ==
    \E t \in task[w].todo, id \in GeneratedIds :
        LET f == task[w].req.fan
            trial == GrantsTrial(f, t)
            days == IF trial THEN TrialDays[t] ELSE DurationDays[t]
            row == NewRow(t, f, None, task[w].at + days, trial)
        IN /\ At(w, "bundleItem")
           /\ IF TrialSpent(f, t) \/ Stored(id) \/ task[w].rows[id] # None
              THEN Finish(w)                            \* throws: the transaction rolls back
              ELSE Goto(w, [task[w] EXCEPT !.todo = @ \ {t}, !.rows[id] = row])
           /\ UNCHANGED <<now, Tables>>

Overlay(rows) == [p \in PassIds |-> IF rows[p] = None THEN passes[p] ELSE rows[p]]

\* Mutant: the EarningsRecord inserts are left out of the transaction.
BundleCommitMutant(w) ==
    LET rows == task[w].rows IN
    /\ At(w, "bundleItem") /\ task[w].todo = {}
    /\ IF \E p \in PassIds : rows[p] # None /\ Stored(p)
       THEN UNCHANGED <<passes, soldWith>>
       ELSE /\ passes' = Overlay(rows)
            /\ soldWith' = [p \in PassIds |-> IF rows[p] # None THEN task[w].tiers
                                              ELSE soldWith[p]]
    /\ Finish(w)
    /\ UNCHANGED <<now, tierState, blocks, fans, deletionAt, earnings, owed>>

BundleCommit(w) ==
    LET rows == task[w].rows IN
    /\ At(w, "bundleItem") /\ task[w].todo = {}
    /\ IF \E p \in PassIds : rows[p] # None /\ Stored(p)
       THEN UNCHANGED <<passes, earnings, soldWith>>    \* unique constraint: rolled back
       ELSE /\ passes' = Overlay(rows)
            /\ soldWith' = [p \in PassIds |-> IF rows[p] # None THEN task[w].tiers
                                              ELSE soldWith[p]]
            /\ earnings' = [p \in PassIds |->
                              IF rows[p] # None /\ ~rows[p].trialUsed
                              THEN Append(earnings[p], rows[p].fan)
                              ELSE earnings[p]]
    /\ Finish(w)
    /\ UNCHANGED <<now, tierState, blocks, fans, deletionAt, owed>>

-----------------------------------------------------------------------------
(* PassesService.giftPass.                                                 *)

GiftTier(w) ==
    \E g \in Gifts :
        /\ g.sender # g.recipient                       \* else BadRequestException
        /\ tierState[g.tier] = "active"                 \* else BadRequestException
        /\ Begin(w, [Idle EXCEPT !.pc = "giftBlock", !.req = g])
        /\ UNCHANGED <<now, Tables>>

\* Mutant: the block is looked up for the sender, not the recipient.
GiftBlockMutant(w) ==
    /\ At(w, "giftBlock")
    /\ IF Blocked(task[w].req.sender, task[w].req.tier)
       THEN Finish(w)
       ELSE Goto(w, [task[w] EXCEPT !.pc = "giftCommit", !.at = now])
    /\ UNCHANGED <<now, Tables>>

GiftBlock(w) ==
    /\ At(w, "giftBlock")
    /\ IF Blocked(task[w].req.recipient, task[w].req.tier)
       THEN Finish(w)                                   \* ForbiddenException
       ELSE Goto(w, [task[w] EXCEPT !.pc = "giftCommit", !.at = now])
    /\ UNCHANGED <<now, Tables>>

\* The transaction holds no read another request could make stale, so it is one
\* step: two fan upserts, the pass, the record charged to the sender.
GiftCommit(w) ==
    LET g == task[w].req IN
    \E id \in GeneratedIds :
        /\ At(w, "giftCommit")
        /\ IF Stored(id)                                \* unique constraint: rolled back
           THEN UNCHANGED <<fans, passes, earnings, soldWith>>
           ELSE /\ fans' = fans \cup {g.sender, g.recipient}
                /\ passes' = [passes EXCEPT ![id] =
                                NewRow(g.tier, g.recipient, g.sender,
                                       task[w].at + DurationDays[g.tier], FALSE)]
                /\ earnings' = [earnings EXCEPT ![id] = Append(@, g.sender)]
                /\ soldWith' = [soldWith EXCEPT ![id] = {g.tier}]
        /\ Finish(w)
        /\ UNCHANGED <<now, tierState, blocks, deletionAt, owed>>

-----------------------------------------------------------------------------
(* FansService.requestDeletion.                                            *)

DeletionRead(w) ==
    \E f \in Leavers \cap fans :                          \* else NotFoundException
        /\ deletionAt[f] = None                         \* else ConflictException
        /\ Begin(w, [Idle EXCEPT !.pc = "deletion", !.req = f])
        /\ UNCHANGED <<now, Tables>>

Deactivate(P) ==
    passes' = [p \in PassIds |-> IF p \in P THEN [passes[p] EXCEPT !.active = FALSE]
                                            ELSE passes[p]]

\* cancelAllActivePasses, then the timestamp, in one transaction.
DeletionCommit(w) ==
    LET f == task[w].req IN
    /\ At(w, "deletion")
    /\ Deactivate({p \in PassIds : Stored(p) /\ passes[p].fan = f /\ passes[p].active})
    /\ deletionAt' = [deletionAt EXCEPT ![f] = now]
    /\ Finish(w)
    /\ UNCHANGED <<now, tierState, blocks, fans, earnings, owed, soldWith>>

-----------------------------------------------------------------------------
(* The hourly cron, the tables this component reads, time and failures.    *)

\* Mutant: the comparison is turned around.
ExpiredMutant(p) == Stored(p) /\ passes[p].active /\ passes[p].expiresAt > now

Expired(p) == Stored(p) /\ passes[p].active /\ passes[p].expiresAt < now

DeactivateExpired ==
    /\ \E p \in PassIds : Expired(p)
    /\ Deactivate({p \in PassIds : Expired(p)})
    /\ UNCHANGED <<now, tierState, blocks, fans, deletionAt, earnings, owed,
                   soldWith, task, unblocked>>

\* tier_created and tier_deactivated, as the indexer's handlers apply them.
TierUpsert(t) ==
    /\ tierState[t] # "active"
    /\ tierState' = [tierState EXCEPT ![t] = "active"]
    /\ UNCHANGED <<now, blocks, fans, deletionAt, passes, earnings, owed,
                   soldWith, task, unblocked>>

TierDeactivate(t) ==
    /\ tierState[t] = "active"
    /\ tierState' = [tierState EXCEPT ![t] = "inactive"]
    /\ UNCHANGED <<now, blocks, fans, deletionAt, passes, earnings, owed,
                   soldWith, task, unblocked>>

BlockFan(b) ==
    /\ blocks' = blocks \cup {b}
    /\ UNCHANGED <<now, tierState, fans, deletionAt, passes, earnings, owed,
                   soldWith, task, unblocked>>

UnblockFan(b) ==
    /\ blocks' = blocks \ {b}
    /\ unblocked' = [w \in Workers |-> IF At(w, "idle") THEN {}
                                       ELSE unblocked[w] \cup {b}]
    /\ UNCHANGED <<now, tierState, fans, deletionAt, passes, earnings, owed,
                   soldWith, task>>

\* Any awaited query may be refused: the request ends, an open transaction with it.
QueryFails(w) ==
    /\ ~At(w, "idle")
    /\ Finish(w)
    /\ UNCHANGED <<now, Tables>>

\* The process dies: requests and unfinished inserts with it.
Crash ==
    /\ task' = [w \in Workers |-> Idle]
    /\ unblocked' = [w \in Workers |-> {}]
    /\ owed' = {}
    /\ UNCHANGED <<now, tierState, blocks, fans, deletionAt, passes, earnings, soldWith>>

Tick ==
    /\ now < MaxTime
    /\ now' = now + 1
    /\ UNCHANGED <<Tables, task, unblocked>>

-----------------------------------------------------------------------------
Serve(w) ==
    \/ ChainBlock(w) \/ ChainFind(w) \/ ChainFan(w) \/ ChainPrior(w)
    \/ ChainCreate(w) \/ ChainUpdate(w)
    \/ BundleBlock(w) \/ BundleFan(w) \/ BundleItem(w) \/ BundleCommit(w)
    \/ GiftBlock(w) \/ GiftCommit(w)
    \/ DeletionCommit(w)

Accept(w) == ChainTier(w) \/ BundleTiers(w) \/ GiftTier(w) \/ DeletionRead(w)

CalmNext ==
    \/ \E w \in Workers : Accept(w) \/ Serve(w) \/ QueryFails(w)
    \/ \E p \in PassIds : EarningsWritten(p)
    \/ \E t \in TierEvents : TierUpsert(t) \/ TierDeactivate(t)
    \/ \E b \in BlockPairs : BlockFan(b) \/ UnblockFan(b)
    \/ DeactivateExpired
    \/ Tick

\* What loses an insert nobody awaits.
Faults == Crash \/ \E p \in PassIds : EarningsFailed(p)

Next == CalmNext \/ Faults

Spec == Init /\ [][Next]_vars

-----------------------------------------------------------------------------
(* What must be true of the store.                                         *)

ChainLabels  == {"chainBlock", "chainFind", "chainFan", "chainPrior", "chainCreate", "chainUpdate"}
BundleLabels == {"bundleBlock", "bundleFan", "bundleItem"}
GiftLabels   == {"giftBlock", "giftCommit"}

TaskRecord ==
    [pc : {"idle", "deletion"} \cup ChainLabels \cup BundleLabels \cup GiftLabels,
     req : {None} \cup MintEvents \cup Bundles \cup Gifts \cup Fans,
     at : Nat, seen : BOOLEAN, trial : BOOLEAN,
     tiers : SUBSET Tiers, todo : SUBSET Tiers,
     rows : [PassIds -> PassRow \cup {None}]]

RequestOK(w) ==
    /\ task[w].pc \in ChainLabels => task[w].req \in MintEvents
    /\ task[w].pc \in BundleLabels => task[w].req \in Bundles
    /\ task[w].pc \in GiftLabels => task[w].req \in Gifts
    /\ task[w].pc = "deletion" => task[w].req \in Fans

\* The tables and the requests in flight have the shapes the schema and the code give them.
TypeOK ==
    /\ now \in Nat
    /\ tierState \in [Tiers -> {"absent", "active", "inactive"}]
    /\ blocks \subseteq Creators \X Fans
    /\ fans \subseteq Fans
    /\ deletionAt \in [Fans -> Nat \cup {None}]
    /\ passes \in [PassIds -> PassRow \cup {None}]
    /\ earnings \in [PassIds -> Seq(Fans)]
    /\ owed \subseteq PassIds
    /\ task \in [Workers -> TaskRecord]
    /\ \A w \in Workers : RequestOK(w)
    /\ unblocked \in [Workers -> SUBSET (Creators \X Fans)]
    /\ soldWith \in [PassIds -> SUBSET Tiers]

\* Every EarningsRecord pays for one stored, non-trial pass, is charged to whoever pays
\* for it (the sender of a gift), and no pass is paid for twice: not when two workers
\* deliver the same event, nor when an insert nobody awaits is still under way.
EarningsAccounted ==
    \A p \in PassIds :
        /\ earnings[p] # <<>> => Paid(p) /\ earnings[p] = <<Payer(passes[p])>>
        /\ p \in owed => Paid(p) /\ earnings[p] = <<>>

\* A pass that is stored stays stored, keeps its tier, owner, giver and trial mark, and
\* once inactive is never active again, whatever the cron, a deletion request and a
\* second delivery of its event do to it and in whatever order.
PassRowStable ==
    [][\A p \in PassIds : Stored(p) =>
          /\ Stored(p)'
          /\ passes'[p].tier = passes[p].tier
          /\ passes'[p].fan = passes[p].fan
          /\ passes'[p].giftedBy = passes[p].giftedBy
          /\ passes'[p].trialUsed = passes[p].trialUsed
          /\ passes'[p].active => passes[p].active]_vars

\* A pass is created or extended only by a request during which its owner was, at some
\* moment, not blocked by the creator: a block set before a request and kept stops it.
NoSaleWhileBlocked ==
    [][\A p \in PassIds :
          Stored(p)' /\ (~Stored(p) \/ passes'[p].expiresAt # passes[p].expiresAt) =>
             \E w \in Workers :
                 /\ ~At(w, "idle") /\ At(w, "idle")'
                 /\ <<CreatorOf[passes'[p].tier], passes'[p].fan>> \in unblocked[w]]_vars

\* "Trial already used for this tier": a fan never holds two trial passes of one tier.
TrialOnce ==
    \A p, q \in PassIds :
        /\ Stored(p) /\ passes[p].trialUsed
        /\ Stored(q) /\ passes[q].trialUsed
        /\ passes[p].fan = passes[q].fan /\ passes[p].tier = passes[q].tier
        => p = q

\* An on-chain id is unique per creator only; here each id asked for names one tier.
OneTierEach(ids) ==
    \A t, u \in Tiers : ChainIdOf[t] \in ids /\ ChainIdOf[t] = ChainIdOf[u] => t = u

\* The code compares two counts, rows found and ids asked for.  Where each id names one
\* tier, that makes the tiers a bundle is about to sell the ones it asked for.
BundleMatchesRequest ==
    \A w \in Workers :
        At(w, "bundleBlock") /\ OneTierEach(task[w].req.ids)
            => {ChainIdOf[t] : t \in task[w].tiers} = task[w].req.ids

-----------------------------------------------------------------------------
(* Liveness.  Node runs every continuation whose query has answered, and   *)
(* the cron fires every hour; the calm system loses no insert.             *)

FairSpec ==
    /\ Init /\ [][CalmNext]_vars
    /\ \A w \in Workers : WF_vars(Serve(w))
    /\ \A p \in PassIds : WF_vars(EarningsWritten(p))
    /\ WF_vars(DeactivateExpired)

\* Every request comes to an end.
RequestsEnd == \A w \in Workers : (task[w].pc # "idle") ~> (task[w].pc = "idle")

\* Without a failed insert or a crash, every paid pass gets its EarningsRecord.
PaidIsBooked == \A p \in PassIds : Paid(p) ~> (earnings[p] # <<>>)

\* A pass past its expiry is deactivated, unless a redelivery moves the expiry.
ExpiredIsRetired ==
    \A p \in PassIds :
        LET overdue == Stored(p) /\ passes[p].active /\ passes[p].expiresAt < now
        IN overdue ~> ~overdue

-----------------------------------------------------------------------------
(* The sales book this store implements.                                   *)

Account(p) ==
    CASE passes[p].trialUsed /\ earnings[p] = <<>>               -> "trial"
      [] Paid(p) /\ earnings[p] = <<Payer(passes[p])>>           -> "paid"
      [] Paid(p) /\ earnings[p] = <<>> /\ p \in owed             -> "due"
      [] Paid(p) /\ earnings[p] = <<>> /\ p \notin owed          -> "lost"
      [] OTHER                                                   -> "corrupt"

Entry(p) == [order |-> soldWith[p],
             tier |-> passes[p].tier, fan |-> passes[p].fan, payer |-> Payer(passes[p]),
             active |-> passes[p].active, account |-> Account(p)]

Book == INSTANCE PassBook WITH
            book <- [p \in PassIds |-> IF Stored(p) THEN Entry(p) ELSE None]

\* NULL is no entry of the book either.
ASSUME BookNoneAssumption == None \notin Book!Entries

\* Every step of the store is a step of the book, or leaves the book as it was.
ImplementsBook == Book!Spec

=============================================================================
