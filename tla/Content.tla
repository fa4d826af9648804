------------------------------ MODULE Content ------------------------------
(***************************************************************************)
(* Content schedules: creators.service.ts creates them, the scheduler      *)
(* activates the due ones at start and every 15 minutes, and each          *)
(* activation notifies the holders of the tier's passes.  Nothing keeps    *)
(* two runs apart, in one process or in several; every awaited query is a  *)
(* step.  A run works with the time at which it began.                     *)
(***************************************************************************)
EXTENDS Naturals, Sequences, FiniteSets

CONSTANTS
    Runs,        \* slots for runs of activateDueContent
    Schedules,
    TierOf,      \* ContentSchedule.tierId
    AvailableAt,
    Passes,
    PassTier,
    PassUntil,   \* Pass.expiresAt
    Batch,       \* ACTIVATION_BATCH_SIZE
    MaxClock,    \* bound of the clock
    MaxFaults    \* bound on failed queries and crashes

ASSUME ContentAssumption ==
    /\ IsFiniteSet(Schedules)
    /\ Batch \in Nat \ {0}
    /\ AvailableAt \in [Schedules -> Nat]
    /\ PassUntil \in [Passes -> Nat]

VARIABLES
    clock,
    content,   \* "absent", "waiting" (active: false) or "active"
    pass,      \* "absent", "active" or "inactive"
    run,
    notices,   \* by schedule and pass, how often its fan was notified
    faults,
    missed,    \* history: schedules whose run failed or died after the claim
    entitled   \* history: valid passes at the claim that were not withdrawn since

contentVars == <<clock, content, pass, run, notices, faults, missed, entitled>>

Rest == [pc |-> "rest", at |-> 0, due |-> <<>>, holders |-> {}]

ContentInit ==
    /\ clock = 0
    /\ content = [s \in Schedules |-> "absent"]
    /\ pass = [p \in Passes |-> "absent"]
    /\ run = [r \in Runs |-> Rest]
    /\ notices = [s \in Schedules |-> [p \in Passes |-> 0]]
    /\ faults = 0
    /\ missed = {}
    /\ entitled = [s \in Schedules |-> {}]

\* The creator may name a time that has passed.
CreateContentSchedule(s) ==
    /\ content[s] = "absent"
    /\ content' = [content EXCEPT ![s] = "waiting"]
    /\ UNCHANGED <<clock, pass, run, notices, faults, missed, entitled>>

BuyPass(p) ==
    /\ pass[p] = "absent" /\ clock < PassUntil[p]
    /\ pass' = [pass EXCEPT ![p] = "active"]
    /\ UNCHANGED <<clock, content, run, notices, faults, missed, entitled>>

\* The fan asks for deletion, or the cron retires the expired pass.
RevokePass(p) ==
    /\ pass[p] = "active"
    /\ pass' = [pass EXCEPT ![p] = "inactive"]
    /\ entitled' = [s \in Schedules |-> entitled[s] \ {p}]
    /\ UNCHANGED <<clock, content, run, notices, faults, missed>>

\* Mutant: only what has come due since the last run.
DueMutant == {s \in Schedules : content[s] = "waiting" /\ AvailableAt[s] = clock}

Due == {s \in Schedules : content[s] = "waiting" /\ AvailableAt[s] <= clock}

\* The batches the query may return: the earliest first, ties in any order.
Batches ==
    LET size == IF Cardinality(Due) < Batch THEN Cardinality(Due) ELSE Batch
    IN  {b \in [1..size -> Due] :
            /\ \A i, j \in 1..size : i < j => /\ b[i] # b[j]
                                              /\ AvailableAt[b[i]] <= AvailableAt[b[j]]
            /\ \A s \in Due : (\E i \in 1..size : b[i] = s)
                  \/ \A i \in 1..size : AvailableAt[b[i]] <= AvailableAt[s]}

RunStarts(r) ==
    /\ run[r] = Rest
    /\ Due # {}
    /\ \E b \in Batches : run' = [run EXCEPT ![r] = [Rest EXCEPT !.pc = "claim", !.at = clock, !.due = b]]
    /\ UNCHANGED <<clock, content, pass, notices, faults, missed, entitled>>

\* The loop goes on to the next schedule of the batch.
Onward(r) ==
    LET left == Tail(run[r].due)
    IN  run' = [run EXCEPT ![r] = IF left = <<>> THEN Rest
                                  ELSE [@ EXCEPT !.pc = "claim", !.due = left, !.holders = {}]]

ValidAt(p, s, time) == pass[p] = "active" /\ PassTier[p] = TierOf[s] /\ PassUntil[p] > time

\* Mutant: the count of updated rows is not looked at.
ClaimMutant(r) ==
    LET s == Head(run[r].due) IN
    /\ run[r].pc = "claim"
    /\ content' = [content EXCEPT ![s] = "active"]
    /\ run' = [run EXCEPT ![r].pc = "read"]
    /\ entitled' = [entitled EXCEPT ![s] = {p \in Passes : ValidAt(p, s, clock)}]
    /\ UNCHANGED <<clock, pass, notices, faults, missed>>

\* updateMany where active is false: one of several runs finds the row.
Claim(r) ==
    LET s == Head(run[r].due) IN
    /\ run[r].pc = "claim"
    /\ IF content[s] = "active"
       THEN Onward(r) /\ UNCHANGED <<content, entitled>>
       ELSE /\ content' = [content EXCEPT ![s] = "active"]
            /\ run' = [run EXCEPT ![r].pc = "read"]
            /\ entitled' = [entitled EXCEPT ![s] = {p \in Passes : ValidAt(p, s, clock)}]
    /\ UNCHANGED <<clock, pass, notices, faults, missed>>

\* Mutant: passes that end with the hour of the run are left out.
HoldersMutant(r) == {p \in Passes : ValidAt(p, Head(run[r].due), run[r].at + 1)}

Holders(r) == {p \in Passes : ValidAt(p, Head(run[r].due), run[r].at)}

ReadHolders(r) ==
    /\ run[r].pc = "read"
    /\ IF Holders(r) = {}
       THEN Onward(r)
       ELSE run' = [run EXCEPT ![r].pc = "notify", ![r].holders = Holders(r)]
    /\ UNCHANGED <<clock, content, pass, notices, faults, missed, entitled>>

\* bulkCreateForFans: one statement stores every notification.
Notify(r) ==
    LET s == Head(run[r].due) IN
    /\ run[r].pc = "notify"
    /\ notices' = [notices EXCEPT ![s] =
                     [p \in Passes |-> IF p \in run[r].holders THEN @[p] + 1 ELSE @[p]]]
    /\ Onward(r)
    /\ UNCHANGED <<clock, content, pass, faults, missed, entitled>>

\* A schedule that is claimed and whose holders were not notified yet.
Unfinished(r) == IF run[r].pc \in {"read", "notify"} THEN {Head(run[r].due)} ELSE {}

\* A query fails: it is logged, the loop goes on, the schedule stays as it is.
QueryFailsInRun(r) ==
    /\ run[r] # Rest
    /\ faults < MaxFaults
    /\ faults' = faults + 1
    /\ missed' = missed \cup Unfinished(r)
    /\ Onward(r)
    /\ UNCHANGED <<clock, content, pass, notices, entitled>>

RunDies(r) ==
    /\ run[r] # Rest
    /\ faults < MaxFaults
    /\ faults' = faults + 1
    /\ missed' = missed \cup Unfinished(r)
    /\ run' = [run EXCEPT ![r] = Rest]
    /\ UNCHANGED <<clock, content, pass, notices, entitled>>

ClockTicks ==
    /\ clock < MaxClock
    /\ clock' = clock + 1
    /\ UNCHANGED <<content, pass, run, notices, faults, missed, entitled>>

RunStep(r) == RunStarts(r) \/ Claim(r) \/ ReadHolders(r) \/ Notify(r)

ContentNext ==
    \/ \E s \in Schedules : CreateContentSchedule(s)
    \/ \E p \in Passes : BuyPass(p) \/ RevokePass(p)
    \/ \E r \in Runs : RunStep(r) \/ QueryFailsInRun(r) \/ RunDies(r)
    \/ ClockTicks

\* Each run is driven by the event loop, and a timer starts one again and again.
ContentFairness == \A r \in Runs : WF_contentVars(RunStep(r))

----------------------------------------------------------------------------
(* Properties *)

\* Though runs overlap, fail and die, no pass brings its owner two notifications of
\* one schedule, nor one before the schedule is active and due.
NotifiedOnce ==
    \A s \in Schedules, p \in Passes :
        /\ notices[s][p] <= 1
        /\ notices[s][p] = 1 => content[s] = "active" /\ AvailableAt[s] <= clock

\* Once no run works on an active schedule, every pass that was valid when it was
\* activated, and not withdrawn meanwhile, has been notified, unless the run failed
\* or died after the claim; then nobody ever is.
HoldersTold ==
    \A s \in Schedules \ missed :
        content[s] = "active" /\ (\A r \in Runs : s \notin Unfinished(r)) =>
            \A p \in entitled[s] : notices[s][p] = 1

\* Every schedule that is due is activated in the end, by whichever run, however
\* large the batch, though runs fail and die before the claim.
DueIsActivated ==
    \A s \in Schedules : s \in Due ~> content[s] = "active"
============================================================================
