------------------------------ MODULE Indexer ------------------------------
(***************************************************************************)
(* The event indexer: it copies the contract's event log into the tables   *)
(* User, Tier and Pass, ledger by ledger, behind a persisted checkpoint.   *)
(*                                                                         *)
(* Two kinds of reader follow the log.  A poll is one run of               *)
(* processNewEvents, started by a timer unless another runs; a job is one  *)
(* reindex or replay-history request of an administrator.  A reader        *)
(* fetches a batch of events and hands them, in log order, to their        *)
(* handlers; every awaited call is a step and readers interleave.          *)
(*                                                                         *)
(* The RPC node is external: it answers with the log as it stands, or      *)
(* fails.  Passes.tla has the steps of the pass handler, here one action.  *)
(***************************************************************************)
EXTENDS Naturals, Sequences, FiniteSets

CONSTANTS
    Log,          \* the contract's events, oldest first
    LastLedger,   \* bound: the last ledger that closes
    ClosedAt,     \* by ledger, its closing time
    Limit,        \* getEvents: most events one answer holds
    MaxRange,     \* MAX_LEDGER_RANGE
    MaxSpan,      \* MAX_TIMESTAMP_RANGE_DAYS
    Polls,        \* runs of processNewEvents that may be in flight
    Jobs,         \* job ids
    Requests,     \* reindex requests, [from, to]
    Spans,        \* replay-history requests, [from, to] in time
    Creators,
    Enrolled,     \* creators with a row in Creator when the model starts
    TierIds,      \* on-chain tier ids
    TrialTiers,   \* on-chain ids of the tiers that offer a trial
    Fans,
    PassIds,
    None          \* the SQL NULL

Index == 1 .. Len(Log)

Event ==
    [kind : {"creator_registered"}, ledger : Nat, creator : Creators]
    \cup [kind : {"tier_created", "tier_deactivated"}, ledger : Nat,
          creator : Creators, tier : TierIds]
    \cup [kind : {"pass_minted"}, ledger : Nat, tier : TierIds,
          pass : PassIds, fan : Fans]

\* The tier that event i is about, and what a log never does: withdraw a tier not made.
TierOf(i) == <<Log[i].creator, Log[i].tier>>
WithdrawnAfterMade ==
    \A i \in Index : Log[i].kind = "tier_deactivated" =>
        \E k \in Index : k < i /\ Log[k].kind = "tier_created" /\ TierOf(k) = TierOf(i)

LedgerRange == [from : Nat, to : Nat]

ASSUME ConstantsAssumption ==
    /\ LastLedger \in Nat \ {0}
    /\ Log \in Seq(Event)
    /\ \A i \in Index : Log[i].ledger \in 1 .. LastLedger
    /\ \A i, k \in Index : i <= k => Log[i].ledger <= Log[k].ledger
    /\ ClosedAt \in [1 .. LastLedger -> Nat]
    /\ Limit \in Nat /\ MaxRange \in Nat /\ MaxSpan \in Nat
    /\ Requests \subseteq LedgerRange /\ Spans \subseteq LedgerRange
    /\ Enrolled \subseteq Creators
    /\ TierIds \subseteq Nat /\ TrialTiers \subseteq TierIds
    /\ Polls \cap Jobs = {}

ASSUME NoneAssumption == None \notin Fans

VARIABLES
    tip,         \* the last ledger the chain has closed
    checkpoint,  \* IndexerCheckpoint.lastLedger
    users,       \* addresses with a row in User
    creators,    \* addresses with a row in Creator
    tiers,       \* by creator and on-chain id: "absent", "active", "inactive"
    passes,      \* by pass id, the row [tier, fan, trial], or None
    isRunning,   \* the flag that keeps polls apart, in memory
    reader,      \* what each poll and job is doing
    jobs,        \* reindexJobs, in memory
    delivered,   \* history: events a handler has completed
    lost,        \* history: events a reader was to see and did not
    handled,     \* history: by job, those it has handed to their handlers
    missed,      \* history: by job, those it missed when their own ledger's turn came
    refused      \* StellarService.circuitOpen: calls to the node are refused

vars == <<tip, checkpoint, users, creators, tiers, passes, isRunning, reader,
          jobs, delivered, lost, handled, missed, refused>>

Readers == Polls \cup Jobs

Idle == [pc |-> "idle", at |-> 0, latest |-> 0, batch |-> {}]

NoJob == [status |-> "none", from |-> 0, to |-> 0, born |-> 0]

Init ==
    /\ tip = 0
    /\ checkpoint = 0
    /\ users = Enrolled
    /\ creators = Enrolled
    /\ tiers = [row \in Creators \X TierIds |-> "absent"]
    /\ passes = [p \in PassIds |-> None]
    /\ isRunning = FALSE
    /\ reader = [r \in Readers |-> Idle]
    /\ jobs = [j \in Jobs |-> NoJob]
    /\ delivered = {}
    /\ lost = {}
    /\ handled = [j \in Jobs |-> {}]
    /\ missed = [j \in Jobs |-> {}]
    /\ refused = FALSE

-----------------------------------------------------------------------------
(* The log, as the RPC node answers for it.                                *)

\* The events of ledger l and of every later ledger that has closed ...
Since(l) == {i \in Index : l <= Log[i].ledger /\ Log[i].ledger <= tip}

\* ... of which one answer holds the first Limit.
Answer(l) == {i \in Since(l) : Cardinality({k \in Since(l) : k <= i}) <= Limit}

\* Mutant: a batch is handled newest first.
OldestMutant(i, batch) == i \in batch /\ \A k \in batch : i >= k

Oldest(i, batch) == i \in batch /\ \A k \in batch : i <= k

\* What findLedgerForTimestamp finds when every lookup is answered (LedgerSearch.tla): the
\* last ledger closed by time ts, or the first of all.
Closed(ts) == {l \in 1 .. tip : ClosedAt[l] <= ts}
IsLedgerFor(l, ts) ==
    \/ Closed(ts) = {} /\ l = 1
    \/ l \in Closed(ts) /\ \A k \in Closed(ts) : k <= l

CloseLedger ==
    /\ tip < LastLedger
    /\ tip' = tip + 1
    /\ UNCHANGED <<checkpoint, users, creators, tiers, passes, isRunning, reader,
                   jobs, delivered, lost, handled, missed, refused>>

\* CreatorsService.register: the only place that makes a Creator row.
RegisterCreator(c) ==
    /\ c \notin creators
    /\ users' = users \cup {c}
    /\ creators' = creators \cup {c}
    /\ UNCHANGED <<tip, checkpoint, tiers, passes, isRunning, reader, jobs,
                   delivered, lost, handled, missed, refused>>

(***************************************************************************)
(* The Stellar client's breaker, shared by all that call the node: any     *)
(* caller's failures open it, a call then in flight that is answered       *)
(* closes it.  StellarClient.tla has the steps.                            *)
(***************************************************************************)
BreakerTurns ==
    /\ refused' = ~refused
    /\ UNCHANGED <<tip, checkpoint, users, creators, tiers, passes, isRunning, reader,
                   jobs, delivered, lost, handled, missed>>

-----------------------------------------------------------------------------
(* processEvent: each handler is one step, the handler's writes.           *)

HandleCreatorRegistered(e) ==
    /\ e.kind = "creator_registered"
    /\ users' = users \cup {e.creator}
    /\ UNCHANGED <<tiers, passes>>

\* The id 0 is falsy and an unknown creator is no error: both drop the event.
HandleTierCreated(e) ==
    /\ e.kind = "tier_created"
    /\ tiers' = IF e.tier # 0 /\ e.creator \in creators
                THEN [tiers EXCEPT ![<<e.creator, e.tier>>] = "active"]
                ELSE tiers
    /\ UNCHANGED <<users, passes>>

HandleTierDeactivated(e) ==
    /\ e.kind = "tier_deactivated"
    /\ tiers' = IF e.tier # 0 /\ tiers[<<e.creator, e.tier>>] # "absent"
                THEN [tiers EXCEPT ![<<e.creator, e.tier>>] = "inactive"]
                ELSE tiers
    /\ UNCHANGED <<users, passes>>

Sold(c, n, f) ==
    {p \in PassIds : passes[p] # None /\ passes[p].creator = c /\ passes[p].tier = n
                                      /\ passes[p].fan = f}

\* The tier is looked up by its on-chain id alone.  A fan who had the tier's trial is
\* refused (the exception is logged and the event is over), but keeps a User row.
HandlePassMinted(e) ==
    /\ e.kind = "pass_minted"
    /\ \/ /\ \A c \in Creators : tiers[<<c, e.tier>>] = "absent"
          /\ UNCHANGED <<users, passes>>
       \/ \E c \in Creators :
             LET prior == Sold(c, e.tier, e.fan)
                 row == [creator |-> c, tier |-> e.tier, fan |-> e.fan,
                         trial |-> prior = {} /\ e.tier \in TrialTiers]
             IN /\ tiers[<<c, e.tier>>] # "absent"
                /\ users' = users \cup {e.fan}
                /\ passes' = IF passes[e.pass] # None \/ \E p \in prior : passes[p].trial
                             THEN passes
                             ELSE [passes EXCEPT ![e.pass] = row]
    /\ UNCHANGED tiers

Handle(e) ==
    \/ HandleCreatorRegistered(e)
    \/ HandleTierCreated(e)
    \/ HandleTierDeactivated(e)
    \/ HandlePassMinted(e)

-----------------------------------------------------------------------------
(* What polls and jobs share: a batch is fetched, then handled in order.   *)

At(r, label) == reader[r].pc = label

Tables == <<users, creators, tiers, passes>>

Receive(r, batch) ==
    reader' = [reader EXCEPT ![r].pc = "apply", ![r].batch = batch]

\* The reader does not see the events of S (now).  A job may see them yet, when their
\* ledger's turn comes; those of the ledger whose turn it is, it will not.
Misses(r, S) ==
    /\ lost' = lost \cup S
    /\ missed' = IF r \in Jobs
                 THEN [missed EXCEPT ![r] = @ \cup {i \in S : Log[i].ledger = reader[r].at}]
                 ELSE missed

\* An answer leaves out what is past its limit.
Fetch(r) ==
    LET l == reader[r].at IN
    /\ At(r, "fetch") /\ ~refused
    /\ r \in Jobs => l <= jobs[r].to
    /\ Receive(r, Answer(l))
    /\ Misses(r, Since(l) \ Answer(l))
    /\ UNCHANGED <<tip, checkpoint, Tables, isRunning, jobs, delivered, handled, refused>>

\* The breaker refuses the call, or the node fails and retries are over: getContractEvents
\* answers with no events.
FetchFails(r) ==
    LET l == reader[r].at IN
    /\ At(r, "fetch")
    /\ r \in Jobs => l <= jobs[r].to
    /\ Receive(r, {})
    /\ Misses(r, Since(l))
    /\ UNCHANGED <<tip, checkpoint, Tables, isRunning, jobs, delivered, handled, refused>>

Take(r, i) == reader' = [reader EXCEPT ![r].batch = @ \ {i}]

Apply(r) ==
    \E i \in Index :
        /\ At(r, "apply") /\ Oldest(i, reader[r].batch)
        /\ Handle(Log[i])
        /\ Take(r, i)
        /\ delivered' = delivered \cup {i}
        /\ handled' = IF r \in Jobs THEN [handled EXCEPT ![r] = @ \cup {i}] ELSE handled
        /\ UNCHANGED <<tip, checkpoint, creators, isRunning, jobs, lost, missed, refused>>

\* A handler's query fails: logged, and the next event is taken.
ApplyFails(r) ==
    \E i \in Index :
        /\ At(r, "apply") /\ Oldest(i, reader[r].batch)
        /\ Take(r, i)
        /\ Misses(r, {i})
        /\ UNCHANGED <<tip, checkpoint, Tables, isRunning, jobs, delivered, handled, refused>>

-----------------------------------------------------------------------------
(* startPolling and processNewEvents.                                      *)

\* Mutant: the timer starts a poll while another is under way.
PollTickMutant(q) ==
    /\ At(q, "idle")
    /\ isRunning' = TRUE
    /\ reader' = [reader EXCEPT ![q].pc = "checkpoint"]
    /\ UNCHANGED <<tip, checkpoint, Tables, jobs, delivered,
                   lost, handled, missed, refused>>

PollTick(q) ==
    /\ At(q, "idle")
    /\ ~isRunning
    /\ isRunning' = TRUE
    /\ reader' = [reader EXCEPT ![q].pc = "checkpoint"]
    /\ UNCHANGED <<tip, checkpoint, Tables, jobs, delivered,
                   lost, handled, missed, refused>>

PollCheckpoint(q) ==
    /\ At(q, "checkpoint")
    /\ reader' = [reader EXCEPT ![q].pc = "latest", ![q].at = checkpoint]
    /\ UNCHANGED <<tip, checkpoint, Tables, isRunning, jobs, delivered,
                   lost, handled, missed, refused>>

\* The finally block.
PollEnds(q) ==
    /\ reader' = [reader EXCEPT ![q] = Idle]
    /\ isRunning' = FALSE

PollLatest(q) ==
    /\ At(q, "latest")
    /\ ~refused
    /\ IF reader[q].at >= tip
       THEN PollEnds(q)
       ELSE /\ reader' = [reader EXCEPT ![q].pc = "fetch", ![q].latest = tip]
            /\ UNCHANGED isRunning
    /\ UNCHANGED <<tip, checkpoint, Tables, jobs, delivered,
                   lost, handled, missed, refused>>

\* Mutant: the checkpoint moves to where the chain is now, not where it was.
PollStoreMutant(q) ==
    /\ At(q, "apply") /\ reader[q].batch = {}
    /\ checkpoint' = tip
    /\ PollEnds(q)
    /\ UNCHANGED <<tip, Tables, jobs, delivered, lost, handled, missed, refused>>

PollStore(q) ==
    /\ At(q, "apply") /\ reader[q].batch = {}
    /\ checkpoint' = reader[q].latest
    /\ PollEnds(q)
    /\ UNCHANGED <<tip, Tables, jobs, delivered, lost, handled, missed, refused>>

\* Mutant: the flag is reset on success only.
PollAbortsMutant(q) ==
    /\ reader[q].pc \in {"checkpoint", "latest"}
    /\ reader' = [reader EXCEPT ![q] = Idle]
    /\ UNCHANGED <<tip, checkpoint, Tables, isRunning, jobs, delivered,
                   lost, handled, missed, refused>>

\* A query for the checkpoint or the latest ledger fails: the poll ends early.
PollAborts(q) ==
    /\ \/ reader[q].pc \in {"checkpoint", "latest"}
       \/ At(q, "apply") /\ reader[q].batch = {}
    /\ PollEnds(q)
    /\ UNCHANGED <<tip, checkpoint, Tables, jobs, delivered,
                   lost, handled, missed, refused>>

-----------------------------------------------------------------------------
(* startReindex, startReplayHistory and the jobs they start.               *)

StartReindex(j) ==
    \E r \in Requests :
        /\ jobs[j] = NoJob                              \* a fresh UUID
        /\ r.to >= r.from /\ r.to - r.from + 1 <= MaxRange  \* else BadRequestException
        /\ jobs' = [jobs EXCEPT ![j] = [status |-> "running", from |-> r.from,
                                        to |-> r.to, born |-> tip]]
        /\ reader' = [reader EXCEPT ![j].pc = "fetch", ![j].at = r.from]
        /\ UNCHANGED <<tip, checkpoint, Tables, isRunning, delivered,
                       lost, handled, missed, refused>>

\* The span stays in from and to until the ledgers are found.
StartReplayHistory(j) ==
    \E s \in Spans :
        /\ jobs[j] = NoJob
        /\ s.to >= s.from /\ s.to - s.from <= MaxSpan   \* else BadRequestException
        /\ jobs' = [jobs EXCEPT ![j] = [status |-> "running", from |-> s.from,
                                        to |-> s.to, born |-> tip]]
        /\ reader' = [reader EXCEPT ![j].pc = "locate"]
        /\ UNCHANGED <<tip, checkpoint, Tables, isRunning, delivered,
                       lost, handled, missed, refused>>

Located(j, from, to) ==
    /\ jobs' = [jobs EXCEPT ![j].from = from, ![j].to = to]
    /\ reader' = [reader EXCEPT ![j].pc = "fetch", ![j].at = from]
    /\ UNCHANGED <<tip, checkpoint, Tables, isRunning, delivered,
                   lost, handled, missed, refused>>

JobLocate(j) ==
    \E from, to \in 1 .. LastLedger :
        /\ At(j, "locate") /\ ~refused
        /\ IsLedgerFor(from, jobs[j].from) /\ IsLedgerFor(to, jobs[j].to)
        /\ Located(j, from, to)

\* A failed lookup makes the search settle for an earlier ledger.
JobMislocates(j) ==
    \E from, to, f, t \in 1 .. LastLedger :
        /\ At(j, "locate") /\ ~refused
        /\ IsLedgerFor(f, jobs[j].from) /\ IsLedgerFor(t, jobs[j].to)
        /\ from <= f /\ to <= t
        /\ Located(j, from, to)

JobEnds(j, status) ==
    /\ jobs' = [jobs EXCEPT ![j].status = status]
    /\ reader' = [reader EXCEPT ![j] = Idle]
    /\ UNCHANGED <<tip, checkpoint, Tables, isRunning, delivered,
                   lost, handled, missed, refused>>

\* The latest ledger is not to be had: the job fails.
JobFails(j) == At(j, "locate") /\ JobEnds(j, "failed")

JobAdvance(j) ==
    /\ At(j, "apply") /\ reader[j].batch = {}
    /\ reader' = [reader EXCEPT ![j].pc = "fetch", ![j].at = @ + 1]
    /\ UNCHANGED <<tip, checkpoint, Tables, isRunning, jobs, delivered,
                   lost, handled, missed, refused>>

\* Mutant: the job returns without setting its status.
JobCompletesMutant(j) ==
    /\ At(j, "fetch") /\ reader[j].at > jobs[j].to
    /\ JobEnds(j, "running")

\* Mutant: the loop stops before the last ledger of the range.
JobCompletesEarlyMutant(j) ==
    /\ At(j, "fetch") /\ reader[j].at >= jobs[j].to
    /\ JobEnds(j, "completed")

JobCompletes(j) ==
    /\ At(j, "fetch") /\ reader[j].at > jobs[j].to
    /\ JobEnds(j, "completed")

-----------------------------------------------------------------------------
\* The process dies: readers, jobs and the flag with it.  The checkpoint is in Postgres.
Crash ==
    /\ reader' = [r \in Readers |-> Idle]
    /\ isRunning' = FALSE
    /\ jobs' = [j \in Jobs |-> NoJob]
    /\ handled' = [j \in Jobs |-> {}]
    /\ missed' = [j \in Jobs |-> {}]
    /\ refused' = FALSE
    /\ UNCHANGED <<tip, checkpoint, Tables, delivered, lost>>

Poll(q) ==
    \/ PollTick(q) \/ PollCheckpoint(q) \/ PollLatest(q)
    \/ Fetch(q) \/ Apply(q) \/ PollStore(q)

Job(j) ==
    \/ JobLocate(j) \/ JobMislocates(j) \/ JobFails(j) \/ Fetch(j) \/ FetchFails(j)
    \/ Apply(j) \/ ApplyFails(j) \/ JobAdvance(j) \/ JobCompletes(j)

\* Everything but restarts.
UpNext ==
    \/ CloseLedger
    \/ BreakerTurns
    \/ \E c \in Creators : RegisterCreator(c)
    \/ \E q \in Polls : Poll(q) \/ PollAborts(q) \/ FetchFails(q) \/ ApplyFails(q)
    \/ \E j \in Jobs : Job(j) \/ StartReindex(j) \/ StartReplayHistory(j)

Next == UpNext \/ Crash

Spec == Init /\ [][Next]_vars

-----------------------------------------------------------------------------
(* What must be true of the copy.                                          *)

PassRow == [creator : Creators, tier : TierIds, fan : Fans, trial : BOOLEAN]

ReaderRecord ==
    [pc : {"idle", "checkpoint", "latest", "locate", "fetch", "apply"},
     at : Nat, latest : Nat, batch : SUBSET Index]

JobRecord ==
    [status : {"none", "running", "completed", "failed"}, from : Nat, to : Nat, born : Nat]

\* Tables, readers and jobs have the shapes the schema and the code give them.
TypeOK ==
    /\ tip \in 0 .. LastLedger
    /\ checkpoint \in Nat
    /\ users \subseteq Creators \cup Fans
    /\ creators \subseteq Creators
    /\ tiers \in [Creators \X TierIds -> {"absent", "active", "inactive"}]
    /\ passes \in [PassIds -> PassRow \cup {None}]
    /\ isRunning \in BOOLEAN
    /\ reader \in [Readers -> ReaderRecord]
    /\ jobs \in [Jobs -> JobRecord]
    /\ delivered \subseteq Index /\ lost \subseteq Index
    /\ handled \in [Jobs -> SUBSET Index] /\ missed \in [Jobs -> SUBSET Index]
    /\ refused \in BOOLEAN

\* The checkpoint never moves back: a restart resumes where the last poll left off, and
\* two polls never write it out of order.
CheckpointMonotone == [][checkpoint' >= checkpoint]_checkpoint

\* Every event up to the checkpoint has been handed to its handler, or was lost in one of
\* three ways: the node failed, its answer was cut short, the handler's query failed.  No
\* restart, overlap of readers or ledger closing during a poll loses any.
CheckpointCovers ==
    \A i \in Index : Log[i].ledger <= checkpoint => i \in delivered \cup lost

Quiet == \A r \in Readers : At(r, "idle")

\* What the contract says of a tier after ledger l: the last word of the log on it.
Words(c, n, l) ==
    {i \in Index : /\ Log[i].ledger <= l
                   /\ Log[i].kind \in {"tier_created", "tier_deactivated"}
                   /\ Log[i].creator = c /\ Log[i].tier = n}
OnChain(c, n, l) ==
    LET words == Words(c, n, l) IN
    IF words = {} THEN "absent"
    ELSE IF Log[CHOOSE i \in words : \A k \in words : k <= i].kind = "tier_created"
         THEN "active" ELSE "inactive"

\* When nothing is under way and the checkpoint is at the tip, the tier table says what
\* the contract says, whatever was delivered twice or cut short by a restart on the way,
\* unless an event was lost.
TiersInSync ==
    Quiet /\ checkpoint = tip /\ lost = {} =>
        \A c \in Enrolled, n \in TierIds \ {0} : tiers[<<c, n>>] = OnChain(c, n, tip)

\* A completed job has handled every event of its range that the log held when the job
\* was accepted, except what it missed at the event's own ledger: there the fetch failed,
\* was cut short before it, or its handler's query failed.  What a fetch at an earlier
\* ledger left out excuses nothing: each ledger of the range has its turn, the last too.
JobsCover ==
    \A j \in Jobs :
        jobs[j].status = "completed" =>
            \A i \in Index :
                /\ jobs[j].from <= Log[i].ledger /\ Log[i].ledger <= jobs[j].to
                /\ Log[i].ledger <= jobs[j].born
                => i \in handled[j] \cup missed[j]

-----------------------------------------------------------------------------
(* Liveness.  Node's timer fires and calls are answered or fail; the       *)
(* database, asked again and again, answers in the end, and so does the    *)
(* node when the breaker lets it be asked again and again.                 *)

FairSpec ==
    /\ Init /\ [][UpNext]_vars
    /\ \A q \in Polls :
        /\ WF_vars(PollTick(q)) /\ WF_vars(Fetch(q) \/ FetchFails(q))
        /\ WF_vars(Apply(q) \/ ApplyFails(q))
        /\ SF_vars(PollCheckpoint(q)) /\ SF_vars(PollLatest(q)) /\ SF_vars(PollStore(q))
    /\ \A j \in Jobs : WF_vars(Job(j))

\* The indexer catches up while the breaker is closed: an event of a closed ledger is in the
\* end behind the checkpoint, or calls to the node are refused.  From every moment on: so
\* it catches up, or the breaker stays open or opens again and again.
CatchesUp ==
    \A i \in Index : (Log[i].ledger <= tip) ~> (Log[i].ledger <= checkpoint \/ refused)

\* Every job accepted comes to an end.
JobsEnd == \A j \in Jobs : (jobs[j].status = "running") ~> (jobs[j].status # "running")

=============================================================================
