--------------------------- MODULE IndexerProofs ---------------------------
(***************************************************************************)
(* What holds of the indexer for every log, every number of jobs and every *)
(* limit: its tables and readers keep their shapes, the checkpoint never   *)
(* moves back and passes only events that were handled or were lost in one *)
(* of the ways CheckpointCovers names, completed jobs cover their range,   *)
(* no tier is missing or invented, and without jobs the tier table agrees  *)
(* with the contract.                                                      *)
(***************************************************************************)
EXTENDS Indexer, FiniteSetTheorems, TLAPS

TablesOK ==
    /\ users \subseteq Creators \cup Fans
    /\ tiers \in [Creators \X TierIds -> {"absent", "active", "inactive"}]
    /\ passes \in [PassIds -> PassRow \cup {None}]

\* A handler writes rows of the schema.
LEMMA HandleTablesOK ==
    ASSUME TablesOK, NEW e \in Event, Handle(e)
    PROVE  TablesOK'
<1> USE DEF TablesOK
<1>1. CASE HandleCreatorRegistered(e)
  <2>1. e.creator \in Creators
    BY <1>1 DEF HandleCreatorRegistered, Event
  <2> QED
    BY <1>1, <2>1 DEF HandleCreatorRegistered
<1>2. CASE HandleTierCreated(e)
  BY <1>2 DEF HandleTierCreated
<1>3. CASE HandleTierDeactivated(e)
  BY <1>3 DEF HandleTierDeactivated
<1>4. CASE HandlePassMinted(e)
  <2>1. e.tier \in TierIds /\ e.fan \in Fans /\ e.pass \in PassIds
    BY <1>4 DEF HandlePassMinted, Event
  <2>2. CASE UNCHANGED <<users, passes>>
    BY <1>4, <2>2 DEF HandlePassMinted
  <2>3. ASSUME NEW c \in Creators, NEW t \in BOOLEAN,
               users' = users \cup {e.fan},
               \/ passes' = passes
               \/ passes' = [passes EXCEPT ![e.pass] =
                              [creator |-> c, tier |-> e.tier, fan |-> e.fan, trial |-> t]]
        PROVE  TablesOK'
    <3>1. [creator |-> c, tier |-> e.tier, fan |-> e.fan, trial |-> t] \in PassRow
      BY <2>1, <2>3 DEF PassRow
    <3>2. tiers' = tiers
      BY <1>4 DEF HandlePassMinted
    <3> QED
      BY <2>1, <2>3, <3>1, <3>2
  <2>4. CASE ~UNCHANGED <<users, passes>>
    <3>1. PICK c \in Creators :
            LET prior == Sold(c, e.tier, e.fan)
                row == [creator |-> c, tier |-> e.tier, fan |-> e.fan,
                        trial |-> prior = {} /\ e.tier \in TrialTiers]
            IN /\ users' = users \cup {e.fan}
               /\ \/ passes' = passes
                  \/ passes' = [passes EXCEPT ![e.pass] = row]
      BY <1>4, <2>4 DEF HandlePassMinted
    <3>2. (Sold(c, e.tier, e.fan) = {} /\ e.tier \in TrialTiers) \in BOOLEAN
      OBVIOUS
    <3> QED
      BY <2>3, <3>1, <3>2
  <2> QED
    BY <2>2, <2>4
<1> QED
  BY <1>1, <1>2, <1>3, <1>4 DEF Handle

-----------------------------------------------------------------------------
(* Shapes.                                                                 *)

\* A job's range may become any range.
LEMMA JobRangeOK ==
  ASSUME jobs \in [Jobs -> JobRecord], NEW j \in Jobs, NEW a \in Nat, NEW b \in Nat
  PROVE  [jobs EXCEPT ![j].from = a, ![j].to = b] \in [Jobs -> JobRecord]
<1>1. jobs[j] \in JobRecord
  OBVIOUS
<1>2. [jobs[j] EXCEPT !.from = a, !.to = b] \in JobRecord
  BY <1>1 DEF JobRecord
<1> QED
  BY <1>2

LEMMA InitTypeOK == Init => TypeOK
<1> SUFFICES ASSUME Init PROVE TypeOK
  OBVIOUS
<1> USE ConstantsAssumption DEF Init
<1>1. Idle \in ReaderRecord /\ NoJob \in JobRecord
  BY DEF Idle, ReaderRecord, NoJob, JobRecord
<1>2. tip \in 0 .. LastLedger /\ checkpoint \in Nat
  OBVIOUS
<1>3. users \subseteq Creators \cup Fans /\ creators \subseteq Creators
  OBVIOUS
<1>4. /\ tiers \in [Creators \X TierIds -> {"absent", "active", "inactive"}]
      /\ passes \in [PassIds -> PassRow \cup {None}]
  OBVIOUS
<1>5. reader \in [Readers -> ReaderRecord] /\ jobs \in [Jobs -> JobRecord]
  BY <1>1
<1>6. /\ isRunning \in BOOLEAN /\ delivered \subseteq Index
      /\ handled \in [Jobs -> SUBSET Index] /\ missed \in [Jobs -> SUBSET Index]
      /\ refused \in BOOLEAN
  OBVIOUS
<1> QED
  BY <1>2, <1>3, <1>4, <1>5, <1>6 DEF TypeOK

\* A reader sent to fetch from a ledger stays a reader.
LEMMA ReaderAtOK ==
    ASSUME reader \in [Readers -> ReaderRecord], NEW r \in Readers, NEW l \in Nat
    PROVE  [reader EXCEPT ![r].pc = "fetch", ![r].at = l] \in [Readers -> ReaderRecord]
<1>1. [reader[r] EXCEPT !.pc = "fetch", !.at = l] \in ReaderRecord
  BY DEF ReaderRecord
<1> QED
  BY <1>1

\* A reader given a batch, a start or a latest ledger stays a reader.
LEMMA ReaderFieldsOK ==
    ASSUME reader \in [Readers -> ReaderRecord], NEW r \in Readers, NEW l \in Nat,
           NEW b \in SUBSET Index
    PROVE  /\ [reader EXCEPT ![r].pc = "apply", ![r].batch = b] \in [Readers -> ReaderRecord]
           /\ [reader EXCEPT ![r].pc = "latest", ![r].at = l] \in [Readers -> ReaderRecord]
           /\ [reader EXCEPT ![r].pc = "fetch", ![r].latest = l] \in [Readers -> ReaderRecord]
<1>1. /\ [reader[r] EXCEPT !.pc = "apply", !.batch = b] \in ReaderRecord
      /\ [reader[r] EXCEPT !.pc = "latest", !.at = l] \in ReaderRecord
      /\ [reader[r] EXCEPT !.pc = "fetch", !.latest = l] \in ReaderRecord
  BY DEF ReaderRecord
<1> QED
  BY <1>1

\* What a reader misses is lost; to a job it is missed when the ledger is the job's own.
LEMMA MissesOK ==
    ASSUME missed \in [Jobs -> SUBSET Index], lost \subseteq Index,
           NEW r \in Readers, NEW S \in SUBSET Index, Misses(r, S)
    PROVE  /\ lost' \subseteq Index /\ lost \subseteq lost' /\ S \subseteq lost'
           /\ missed' \in [Jobs -> SUBSET Index]
           /\ \A j \in Jobs : missed[j] \subseteq missed'[j]
           /\ r \in Jobs => \A i \in S : Log[i].ledger = reader[r].at => i \in missed'[r]
  BY DEF Misses

LEMMA NextTypeOK == TypeOK /\ [Next]_vars => TypeOK'
<1> SUFFICES ASSUME TypeOK, [Next]_vars PROVE TypeOK'
  OBVIOUS
<1> USE ConstantsAssumption DEF TypeOK
<1>a. Polls \subseteq Readers /\ Jobs \subseteq Readers
  BY DEF Readers
<1>b. Idle \in ReaderRecord /\ NoJob \in JobRecord
  BY DEF Idle, ReaderRecord, NoJob, JobRecord
<1>c. tip \in Nat
  OBVIOUS
<1>1. CASE CloseLedger
  BY <1>1 DEF CloseLedger
<1>18. CASE BreakerTurns
  BY <1>18 DEF BreakerTurns
<1>2. ASSUME NEW c \in Creators, RegisterCreator(c) PROVE TypeOK'
  BY <1>2 DEF RegisterCreator
<1>3. ASSUME NEW r \in Readers, Fetch(r) \/ FetchFails(r) PROVE TypeOK'
  <2>1. PICK b \in SUBSET Index : Receive(r, b)
    BY <1>3 DEF Fetch, FetchFails, Answer, Since
  <2>2. reader' \in [Readers -> ReaderRecord]
    BY <2>1, ReaderFieldsOK DEF Receive
  <2>a. \E S \in SUBSET Index : Misses(r, S)
    BY <1>3 DEF Fetch, FetchFails, Since
  <2>3. lost' \subseteq Index /\ missed' \in [Jobs -> SUBSET Index]
    BY <2>a, MissesOK
  <2> QED
    BY <1>3, <2>2, <2>3 DEF Fetch, FetchFails, Tables
<1>4. ASSUME NEW r \in Readers, Apply(r) PROVE TypeOK'
  <2>1. PICK i \in Index :
          /\ Handle(Log[i]) /\ Take(r, i)
          /\ delivered' = delivered \cup {i}
          /\ handled' = IF r \in Jobs THEN [handled EXCEPT ![r] = @ \cup {i}] ELSE handled
          /\ UNCHANGED <<tip, checkpoint, creators, isRunning, jobs, lost, missed, refused>>
    BY <1>4 DEF Apply
  <2>2. Log[i] \in Event
    BY <2>1 DEF Index
  <2>3. TablesOK'
    BY <2>1, <2>2, HandleTablesOK DEF TablesOK
  <2>4. reader' \in [Readers -> ReaderRecord]
    BY SMTT(30), ZenonT(30), <2>1 DEF Take, ReaderRecord
  <2>5. handled' \in [Jobs -> SUBSET Index]
    BY <2>1
  <2> QED
    BY <2>1, <2>3, <2>4, <2>5 DEF TablesOK
<1>5. ASSUME NEW r \in Readers, ApplyFails(r) PROVE TypeOK'
  <2>1. PICK i \in Index : Take(r, i) /\ Misses(r, {i})
    BY <1>5 DEF ApplyFails
  <2>3. lost' \subseteq Index /\ missed' \in [Jobs -> SUBSET Index]
    BY <2>1, MissesOK
  <2>2. reader' \in [Readers -> ReaderRecord]
    BY SMTT(30), ZenonT(30), <2>1 DEF Take, ReaderRecord
  <2> QED
    BY <1>5, <2>2, <2>3 DEF ApplyFails, Tables
<1>6. ASSUME NEW q \in Polls, PollTick(q) PROVE TypeOK'
  <2>1. reader' \in [Readers -> ReaderRecord]
    BY SMTT(30), ZenonT(30), <1>6 DEF PollTick, ReaderRecord
  <2> QED
    BY <1>6, <2>1 DEF PollTick, Tables
<1>7. ASSUME NEW q \in Polls, PollCheckpoint(q) PROVE TypeOK'
  <2>1. reader' \in [Readers -> ReaderRecord]
    BY <1>7, <1>a, ReaderFieldsOK DEF PollCheckpoint
  <2> QED
    BY <1>7, <2>1 DEF PollCheckpoint, Tables
<1>8. ASSUME NEW q \in Polls, PollLatest(q) PROVE TypeOK'
  <2>a. /\ [reader EXCEPT ![q].pc = "fetch", ![q].latest = tip] \in [Readers -> ReaderRecord]
        /\ [reader EXCEPT ![q] = Idle] \in [Readers -> ReaderRecord]
    BY <1>a, <1>b, <1>c, ReaderFieldsOK
  <2>1. reader' \in [Readers -> ReaderRecord]
    BY <1>8, <2>a DEF PollLatest, PollEnds
  <2>2. isRunning' \in BOOLEAN
    BY <1>8 DEF PollLatest, PollEnds
  <2> QED
    BY <1>8, <2>1, <2>2 DEF PollLatest, Tables
<1>9. ASSUME NEW q \in Polls, PollStore(q) PROVE TypeOK'
  <2>1. reader' \in [Readers -> ReaderRecord]
    BY <1>9, <1>b DEF PollStore, PollEnds
  <2>2. checkpoint' \in Nat
    BY <1>9, <1>a DEF PollStore, ReaderRecord
  <2> QED
    BY <1>9, <2>1, <2>2 DEF PollStore, PollEnds, Tables
<1>10. ASSUME NEW q \in Polls, PollAborts(q) PROVE TypeOK'
  <2>1. reader' \in [Readers -> ReaderRecord]
    BY <1>10, <1>b DEF PollAborts, PollEnds
  <2> QED
    BY <1>10, <2>1 DEF PollAborts, PollEnds, Tables
<1>11. ASSUME NEW j \in Jobs, StartReindex(j) PROVE TypeOK'
  <2>1. PICK r \in Requests :
          /\ jobs' = [jobs EXCEPT ![j] = [status |-> "running", from |-> r.from,
                                          to |-> r.to, born |-> tip]]
          /\ reader' = [reader EXCEPT ![j].pc = "fetch", ![j].at = r.from]
    BY <1>11 DEF StartReindex
  <2>2. r.from \in Nat /\ r.to \in Nat
    BY DEF LedgerRange
  <2>3. jobs' \in [Jobs -> JobRecord]
    BY <1>c, <2>1, <2>2 DEF JobRecord
  <2>4. reader' \in [Readers -> ReaderRecord]
    BY <1>a, <2>1, <2>2, ReaderAtOK
  <2> QED
    BY <1>11, <2>3, <2>4 DEF StartReindex, Tables
<1>12. ASSUME NEW j \in Jobs, StartReplayHistory(j) PROVE TypeOK'
  <2>1. PICK s \in Spans :
          /\ jobs' = [jobs EXCEPT ![j] = [status |-> "running", from |-> s.from,
                                          to |-> s.to, born |-> tip]]
          /\ reader' = [reader EXCEPT ![j].pc = "locate"]
    BY <1>12 DEF StartReplayHistory
  <2>2. s.from \in Nat /\ s.to \in Nat
    BY DEF LedgerRange
  <2>3. jobs' \in [Jobs -> JobRecord]
    BY <1>c, <2>1, <2>2 DEF JobRecord
  <2>4. reader' \in [Readers -> ReaderRecord]
    <3> DEFINE row == [reader[j] EXCEPT !.pc = "locate"]
    <3>1. reader \in [Readers -> ReaderRecord] /\ j \in Readers
      BY DEF TypeOK, Readers
    <3>2. row \in ReaderRecord
      BY SMTT(30), ZenonT(30), <3>1 DEF ReaderRecord
    <3>3. reader' = [reader EXCEPT ![j] = row]
      BY <2>1
    <3> HIDE DEF row
    <3> QED
      BY <3>1, <3>2, <3>3
  <2> QED
    BY <1>12, <2>3, <2>4 DEF StartReplayHistory, Tables
<1>13. ASSUME NEW j \in Jobs, JobLocate(j) \/ JobMislocates(j) PROVE TypeOK'
  <2>1. PICK from \in 1 .. LastLedger, to \in 1 .. LastLedger : Located(j, from, to)
    BY <1>13 DEF JobLocate, JobMislocates
  <2>2. from \in Nat /\ to \in Nat
    BY <2>1
  <2>5. jobs' \in [Jobs -> JobRecord]
    BY <2>1, <2>2, JobRangeOK DEF Located
  <2>4. reader' \in [Readers -> ReaderRecord]
    BY <1>a, <2>1, <2>2, ReaderAtOK DEF Located
  <2> QED
    BY <2>1, <2>4, <2>5 DEF Located, Tables
<1>14. ASSUME NEW j \in Jobs, JobFails(j) \/ JobCompletes(j) PROVE TypeOK'
  <2>1. PICK s \in {"completed", "failed"} : JobEnds(j, s)
    BY <1>14 DEF JobFails, JobCompletes
  <2>2. jobs' \in [Jobs -> JobRecord] /\ reader' \in [Readers -> ReaderRecord]
    BY <2>1, <1>b DEF JobEnds, JobRecord
  <2> QED
    BY <2>1, <2>2 DEF JobEnds, Tables
<1>15. ASSUME NEW j \in Jobs, JobAdvance(j) PROVE TypeOK'
  <2>1. reader[j].at + 1 \in Nat
    BY <1>a DEF ReaderRecord
  <2>2. reader' \in [Readers -> ReaderRecord]
    BY <1>15, <1>a, <2>1, ReaderAtOK DEF JobAdvance
  <2> QED
    BY <1>15, <2>2 DEF JobAdvance, Tables
<1>16. CASE Crash
  BY <1>16, <1>b DEF Crash, Tables
<1>17. CASE UNCHANGED vars
  BY <1>17 DEF vars
<1> QED
  BY <1>a, <1>1, <1>2, <1>3, <1>4, <1>5, <1>6, <1>7, <1>8, <1>9, <1>10, <1>11, <1>12,
     <1>13, <1>14, <1>15, <1>16, <1>17, <1>18
  DEF Next, UpNext, Poll, Job

\* In every behaviour tables, readers and jobs keep the shapes of the schema and the code.
THEOREM SpecTypeOK == Spec => []TypeOK
  BY InitTypeOK, NextTypeOK, PTL DEF Spec

-----------------------------------------------------------------------------
(* The checkpoint.  Polls are kept apart by isRunning, so the one poll in  *)
(* flight started from the checkpoint as it still stands, and goes beyond  *)
(* it.                                                                     *)

PollsApart ==
    \A q \in Polls : ~At(q, "idle") =>
        isRunning /\ \A o \in Polls : ~At(o, "idle") => o = q

PollAhead ==
    \A q \in Polls :
        /\ reader[q].pc \in {"latest", "fetch", "apply"} => reader[q].at = checkpoint
        /\ reader[q].pc \in {"fetch", "apply"} =>
              checkpoint < reader[q].latest /\ reader[q].latest <= tip

PollInv == TypeOK /\ PollsApart /\ PollAhead

\* Steps that move no poll on, but perhaps from fetch to apply.
PollsStand ==
    /\ isRunning' = isRunning /\ checkpoint' = checkpoint
    /\ tip <= tip'
    /\ \A q \in Polls :
          /\ reader'[q].at = reader[q].at /\ reader'[q].latest = reader[q].latest
          /\ \/ reader'[q].pc = reader[q].pc
             \/ At(q, "fetch") /\ reader'[q].pc = "apply"

LEMMA PollsStandOK ==
    ASSUME TypeOK, TypeOK', PollsApart, PollAhead, PollsStand
    PROVE  PollsApart' /\ PollAhead'
<1>1. \A q \in Polls : At(q, "idle")' <=> At(q, "idle")
  BY DEF PollsStand, At
<1>2. PollsApart'
  BY <1>1 DEF PollsApart, PollsStand
<1>3. tip \in Nat /\ tip' \in Nat /\ \A q \in Polls : reader[q].latest \in Nat
  BY ConstantsAssumption DEF TypeOK, Readers, ReaderRecord
<1>4. PollAhead'
  BY <1>3 DEF PollAhead, PollsStand, At
<1> QED
  BY <1>2, <1>4

\* Which steps they are.
LEMMA StandingSteps ==
    ASSUME TypeOK,
           \/ CloseLedger \/ BreakerTurns
           \/ \E c \in Creators : RegisterCreator(c)
           \/ \E r \in Readers : Fetch(r) \/ FetchFails(r) \/ Apply(r) \/ ApplyFails(r)
           \/ \E j \in Jobs : \/ StartReindex(j) \/ StartReplayHistory(j)
                              \/ JobLocate(j) \/ JobMislocates(j)
                              \/ JobFails(j) \/ JobAdvance(j) \/ JobCompletes(j)
    PROVE  PollsStand
<1> USE ConstantsAssumption DEF TypeOK
<1>a. Polls \subseteq Readers /\ Jobs \subseteq Readers /\ (\A q \in Polls : q \notin Jobs)
  BY DEF Readers
<1>b. tip \in Nat
  OBVIOUS
<1>1. CASE CloseLedger \/ BreakerTurns
  BY <1>1, <1>b DEF CloseLedger, BreakerTurns, PollsStand
<1>2. ASSUME NEW c \in Creators, RegisterCreator(c) PROVE PollsStand
  BY <1>2, <1>b DEF RegisterCreator, PollsStand
<1>3. ASSUME NEW r \in Readers, Fetch(r) \/ FetchFails(r) PROVE PollsStand
  <2>1. PICK b : Receive(r, b)
    BY <1>3 DEF Fetch, FetchFails
  <2>2. At(r, "fetch") /\ UNCHANGED <<tip, checkpoint, isRunning>>
    BY <1>3 DEF Fetch, FetchFails
  <2> QED
    BY <2>1, <2>2, <1>a, <1>b DEF Receive, PollsStand, At, ReaderRecord
<1>4. ASSUME NEW r \in Readers, Apply(r) \/ ApplyFails(r) PROVE PollsStand
  <2>1. PICK i : Take(r, i)
    BY <1>4 DEF Apply, ApplyFails
  <2>2. UNCHANGED <<tip, checkpoint, isRunning>>
    BY <1>4 DEF Apply, ApplyFails
  <2> QED
    BY <2>1, <2>2, <1>a, <1>b DEF Take, PollsStand, ReaderRecord
<1>5. ASSUME NEW j \in Jobs,
             \/ StartReindex(j) \/ StartReplayHistory(j) \/ JobLocate(j) \/ JobMislocates(j)
             \/ JobFails(j) \/ JobAdvance(j) \/ JobCompletes(j)
      PROVE  PollsStand
  <2>1. UNCHANGED <<tip, checkpoint, isRunning>>
    BY <1>5 DEF StartReindex, StartReplayHistory, JobLocate, JobMislocates, Located,
                JobFails, JobAdvance, JobCompletes, JobEnds
  <2>2. \A q \in Polls : reader'[q] = reader[q]
    BY SMTT(30), ZenonT(30), <1>5, <1>a DEF StartReindex, StartReplayHistory, JobLocate, JobMislocates, Located,
                JobFails, JobAdvance, JobCompletes, JobEnds
  <2> QED
    BY <2>1, <2>2, <1>b DEF PollsStand
<1> QED
  BY <1>1, <1>2, <1>3, <1>4, <1>5

\* A poll that ends leaves none in flight.
LEMMA PollEndsOK ==
    ASSUME TypeOK, PollsApart, NEW q \in Polls, ~At(q, "idle"), PollEnds(q)
    PROVE  \A o \in Polls : reader'[o].pc = "idle"
<1>1. \A o \in Polls : o # q => reader[o].pc = "idle"
  BY DEF PollsApart, At
<1>2. Polls \subseteq Readers
  BY DEF Readers
<1> QED
  BY <1>1, <1>2 DEF PollEnds, TypeOK, Idle

LEMMA InitPollInv == Init => PollInv
  BY InitTypeOK DEF Init, PollInv, PollsApart, PollAhead, At, Idle, Readers

LEMMA NextPollInv == PollInv /\ [Next]_vars => PollInv'
<1> SUFFICES ASSUME PollInv, [Next]_vars PROVE PollInv'
  OBVIOUS
<1>a. TypeOK' /\ TypeOK /\ PollsApart /\ PollAhead
  BY NextTypeOK DEF PollInv
<1>b. Polls \subseteq Readers /\ reader \in [Readers -> ReaderRecord]
  BY <1>a DEF Readers, TypeOK
<1>c. tip \in Nat /\ checkpoint \in Nat /\ \A r \in Readers : reader[r].at \in Nat
  BY <1>a, ConstantsAssumption DEF TypeOK, ReaderRecord
<1> USE DEF PollInv
<1>1. CASE PollsStand
  BY <1>a, <1>1, PollsStandOK
<1>2. ASSUME NEW q \in Polls, ~At(q, "idle"), PollEnds(q) PROVE PollInv'
  <2>1. \A o \in Polls : reader'[o].pc = "idle"
    BY <1>a, <1>2, PollEndsOK
  <2> QED
    BY <1>a, <2>1 DEF PollsApart, PollAhead, At
<1>3. ASSUME NEW q \in Polls, PollTick(q) PROVE PollInv'
  <2>1. \A o \in Polls : At(o, "idle")
    BY <1>a, <1>3 DEF PollTick, PollsApart
  <2>2. \A o \in Polls : reader'[o].pc = IF o = q THEN "checkpoint" ELSE "idle"
    BY <1>b, <1>3, <2>1 DEF PollTick, At, ReaderRecord
  <2> QED
    BY <1>a, <1>3, <2>2 DEF PollTick, PollsApart, PollAhead, At
<1>4. ASSUME NEW q \in Polls, PollCheckpoint(q) PROVE PollInv'
  <2>1. \A o \in Polls \ {q} : reader[o].pc = "idle"
    BY <1>a, <1>4 DEF PollCheckpoint, PollsApart, At
  <2>2. \A o \in Polls : IF o = q THEN reader'[o].pc = "latest" /\ reader'[o].at = checkpoint
                                   ELSE reader'[o].pc = "idle"
    BY <1>b, <1>4, <2>1 DEF PollCheckpoint, ReaderRecord
  <2>3. isRunning' /\ checkpoint' = checkpoint
    BY <1>a, <1>4 DEF PollCheckpoint, PollsApart, At
  <2> QED
    BY <1>a, <2>2, <2>3 DEF PollsApart, PollAhead, At
<1>5. ASSUME NEW q \in Polls, PollLatest(q) PROVE PollInv'
  <2>1. CASE reader[q].at >= tip
    BY <1>2, <1>5, <2>1 DEF PollLatest, At
  <2>2. CASE ~(reader[q].at >= tip)
    <3>1. \A o \in Polls \ {q} : reader[o].pc = "idle"
      BY <1>a, <1>5 DEF PollLatest, PollsApart, At
    <3>2. \A o \in Polls : IF o = q
                           THEN /\ reader'[o].pc = "fetch"
                                /\ reader'[o].at = reader[o].at /\ reader'[o].latest = tip
                           ELSE reader'[o].pc = "idle"
      BY <1>b, <1>5, <2>2, <3>1 DEF PollLatest, ReaderRecord
    <3>3. isRunning' /\ checkpoint' = checkpoint /\ tip' = tip /\ reader[q].at = checkpoint
      BY <1>a, <1>5, <2>2 DEF PollLatest, PollsApart, PollAhead, At
    <3>4. checkpoint < tip
      BY <1>b, <1>c, <2>2, <3>3
    <3> QED
      BY <1>a, <1>c, <3>2, <3>3, <3>4 DEF PollsApart, PollAhead, At
  <2> QED
    BY <2>1, <2>2
<1>6. ASSUME NEW q \in Polls, PollStore(q) PROVE PollInv'
  BY <1>2, <1>6 DEF PollStore, At
<1>7. ASSUME NEW q \in Polls, PollAborts(q) PROVE PollInv'
  BY <1>2, <1>7 DEF PollAborts, At
<1>8. CASE Crash
  BY <1>a, <1>b, <1>8 DEF Crash, PollsApart, PollAhead, At, Idle
<1>9. CASE UNCHANGED vars
  BY <1>a, <1>9 DEF vars, PollsApart, PollAhead, At
<1>10. Jobs \subseteq Readers
  BY DEF Readers
<1> QED
  BY <1>a, <1>b, <1>1, <1>3, <1>4, <1>5, <1>6, <1>7, <1>8, <1>9, <1>10, StandingSteps
  DEF Next, UpNext, Poll, Job

LEMMA SpecPollInv == Spec => []PollInv
  BY InitPollInv, NextPollInv, PTL DEF Spec

\* The step of a single action that writes the checkpoint raises it.
LEMMA CheckpointRises == PollInv /\ [Next]_vars => [checkpoint' >= checkpoint]_checkpoint
<1> SUFFICES ASSUME PollInv, [Next]_vars PROVE checkpoint' = checkpoint \/ checkpoint' >= checkpoint
  OBVIOUS
<1>1. ASSUME NEW q \in Polls, PollStore(q) PROVE checkpoint' >= checkpoint
  <2>1. reader[q].latest \in Nat /\ checkpoint \in Nat
    BY DEF PollInv, TypeOK, Readers, ReaderRecord
  <2> QED
    BY <1>1, <2>1 DEF PollStore, PollInv, PollAhead, At
<1>2. CASE checkpoint' = checkpoint
  BY <1>2
<1>3. CASE \E q \in Polls : PollStore(q)
  BY <1>1, <1>3
<1>4. ASSUME NEW r \in Readers, \/ Fetch(r) \/ FetchFails(r) \/ Apply(r) \/ ApplyFails(r)
                                \/ PollTick(r) \/ PollCheckpoint(r) \/ PollLatest(r)
                                \/ PollAborts(r)
      PROVE checkpoint' = checkpoint
  BY <1>4 DEF Fetch, FetchFails, Apply, ApplyFails, PollTick, PollCheckpoint, PollLatest,
              PollAborts
<1>5. ASSUME NEW j \in Jobs, \/ StartReindex(j) \/ StartReplayHistory(j) \/ JobLocate(j)
                             \/ JobMislocates(j) \/ JobFails(j) \/ JobAdvance(j)
                             \/ JobCompletes(j)
      PROVE checkpoint' = checkpoint
  BY <1>5 DEF StartReindex, StartReplayHistory, JobLocate, JobMislocates, Located,
              JobFails, JobAdvance, JobCompletes, JobEnds
<1>6. CASE \/ CloseLedger \/ BreakerTurns \/ Crash
           \/ (\E c \in Creators : RegisterCreator(c)) \/ UNCHANGED vars
  BY <1>6 DEF CloseLedger, BreakerTurns, Crash, RegisterCreator, vars
<1>7. Polls \subseteq Readers /\ Jobs \subseteq Readers
  BY DEF Readers
<1> QED
  BY <1>3, <1>4, <1>5, <1>6, <1>7 DEF Next, UpNext, Poll, Job

\* In every behaviour the checkpoint never moves back, whatever fails.
THEOREM SpecCheckpointMonotone == Spec => CheckpointMonotone
  BY SpecPollInv, CheckpointRises, PTL DEF Spec, CheckpointMonotone

-----------------------------------------------------------------------------
(* Coverage.  The poll in flight has delivered, has lost or holds in its   *)
(* batch every event up to the ledger it is going to store.                *)

Holds(q, i) == i \in delivered \/ i \in lost \/ i \in reader[q].batch

BatchCovers ==
    \A q \in Polls : At(q, "apply") =>
        \A i \in Index : Log[i].ledger <= reader[q].latest => Holds(q, i)

CoverInv == PollInv /\ CheckpointCovers /\ BatchCovers

LEMMA IndexLedger == \A i \in Index : Log[i].ledger \in Nat
  BY ConstantsAssumption

\* The log is in the order of its ledgers.
LEMMA LogInOrder ==
    ASSUME NEW i \in Index, NEW k \in Index, i < k
    PROVE  Log[i].ledger <= Log[k].ledger
<1>1. Len(Log) \in Nat
  BY ConstantsAssumption
<1>2. i <= k
  BY <1>1 DEF Index
<1>3. \A a, b \in Index : a <= b => Log[a].ledger <= Log[b].ledger
  BY ConstantsAssumption
<1> QED
  BY <1>2, <1>3

LEMMA InitCoverInv == Init => CoverInv
<1> SUFFICES ASSUME Init PROVE CoverInv
  OBVIOUS
<1>1. CheckpointCovers
  BY ConstantsAssumption DEF Init, CheckpointCovers
<1>2. BatchCovers
  BY DEF Init, BatchCovers, At, Idle, Readers
<1> QED
  BY <1>1, <1>2, InitPollInv DEF CoverInv

\* A poll that did not move keeps what it holds.
LEMMA StillCovers ==
    ASSUME TypeOK, BatchCovers, delivered \subseteq delivered', lost \subseteq lost',
           \A q \in Polls : At(q, "apply")' =>
              /\ At(q, "apply")
              /\ reader'[q].latest = reader[q].latest
              /\ reader[q].batch \ (delivered' \cup lost') \subseteq reader'[q].batch
    PROVE  BatchCovers'
  BY DEF BatchCovers, Holds

LEMMA NextCoverInv == CoverInv /\ [Next]_vars => CoverInv'
<1> SUFFICES ASSUME CoverInv, [Next]_vars PROVE CoverInv'
  OBVIOUS
<1>a. PollInv' /\ TypeOK /\ PollsApart /\ PollAhead /\ CheckpointCovers /\ BatchCovers
  BY NextPollInv DEF CoverInv, PollInv
<1>b. /\ Polls \subseteq Readers /\ Jobs \subseteq Readers
      /\ reader \in [Readers -> ReaderRecord] /\ \A q \in Polls : q \notin Jobs
  BY <1>a, ConstantsAssumption DEF Readers, TypeOK
<1>c. tip \in Nat /\ checkpoint \in Nat /\ \A r \in Readers : reader[r].latest \in Nat
  BY <1>a, ConstantsAssumption DEF TypeOK, ReaderRecord
<1> USE DEF CoverInv
<1>1. ASSUME checkpoint' = checkpoint, delivered \subseteq delivered', lost \subseteq lost'
      PROVE  CheckpointCovers'
  BY <1>a, <1>1 DEF CheckpointCovers
\* Steps after which no poll that was not applying is, and those applying are untouched.
<1>2. ASSUME UNCHANGED <<checkpoint, delivered, lost>>,
             \A q \in Polls : At(q, "apply")' => At(q, "apply") /\ reader'[q] = reader[q]
      PROVE  CoverInv'
  BY <1>a, <1>1, <1>2, StillCovers
<1>3. CASE \/ CloseLedger \/ BreakerTurns
           \/ (\E c \in Creators : RegisterCreator(c)) \/ UNCHANGED vars
  BY <1>2, <1>3 DEF CloseLedger, BreakerTurns, RegisterCreator, vars, At
<1>4. CASE Crash
  BY <1>b, <1>2, <1>4 DEF Crash, At, Idle
<1>5. ASSUME NEW j \in Jobs, \/ StartReindex(j) \/ StartReplayHistory(j) \/ JobLocate(j)
                             \/ JobMislocates(j) \/ JobFails(j) \/ JobAdvance(j)
                             \/ JobCompletes(j)
      PROVE  CoverInv'
  <2>1. UNCHANGED <<checkpoint, delivered, lost>>
    BY <1>5 DEF StartReindex, StartReplayHistory, JobLocate, JobMislocates, Located,
                JobFails, JobAdvance, JobCompletes, JobEnds
  <2>2. \A q \in Polls : reader'[q] = reader[q]
    BY <1>b, <1>5 DEF StartReindex, StartReplayHistory, JobLocate, JobMislocates, Located,
                JobFails, JobAdvance, JobCompletes, JobEnds
  <2> QED
    BY <1>2, <2>1, <2>2 DEF At
<1>6. ASSUME NEW q \in Polls, PollTick(q) \/ PollCheckpoint(q) \/ PollLatest(q) \/ PollAborts(q)
      PROVE  CoverInv'
  <2>1. UNCHANGED <<checkpoint, delivered, lost>>
    BY <1>6 DEF PollTick, PollCheckpoint, PollLatest, PollAborts
  <2>2. \A o \in Polls \ {q} : reader'[o] = reader[o]
    BY <1>b, <1>6 DEF PollTick, PollCheckpoint, PollLatest, PollAborts, PollEnds
  <2>3. reader'[q].pc \in {"checkpoint", "latest", "fetch", "idle"}
    BY <1>b, <1>6 DEF PollTick, PollCheckpoint, PollLatest, PollAborts, PollEnds, Idle,
                      ReaderRecord
  <2> QED
    BY <1>2, <2>1, <2>2, <2>3 DEF At
<1>7. ASSUME NEW r \in Readers, Fetch(r) \/ FetchFails(r) PROVE CoverInv'
  <2>1. PICK b \in SUBSET Index :
          /\ Receive(r, b) /\ At(r, "fetch")
          /\ UNCHANGED <<checkpoint, delivered, tip>>
          /\ lost \subseteq lost' /\ Since(reader[r].at) \subseteq b \cup lost'
    <3>1. CASE Fetch(r)
      BY <3>1 DEF Fetch, Misses, Answer, Since
    <3>2. CASE FetchFails(r)
      BY <3>2 DEF FetchFails, Misses
    <3> QED
      BY <1>7, <3>1, <3>2
  <2>2. /\ reader'[r].batch = b /\ reader'[r].latest = reader[r].latest
        /\ \A o \in Polls \ {r} : reader'[o] = reader[o]
    BY <1>b, <2>1 DEF Receive, ReaderRecord
  <2>3. ASSUME r \in Polls, NEW i \in Index, Log[i].ledger <= reader[r].latest
        PROVE  i \in delivered' \cup lost' \cup b
    <3>0. reader[r].at = checkpoint /\ reader[r].latest <= tip
      BY <1>a, <2>1, <2>3 DEF PollAhead, At
    <3>1. CASE Log[i].ledger <= checkpoint
      BY <1>a, <2>1, <3>1 DEF CheckpointCovers
    <3>2. CASE ~(Log[i].ledger <= checkpoint)
      <4>1. i \in Since(checkpoint)
        BY <1>b, <1>c, <2>3, <3>0, <3>2, IndexLedger DEF Since
      <4> QED
        BY <2>1, <3>0, <4>1
    <3> QED
      BY <3>1, <3>2
  <2>4. BatchCovers'
    BY <1>a, <2>1, <2>2, <2>3 DEF BatchCovers, Holds, At
  <2> QED
    BY <1>a, <1>1, <2>1, <2>4
<1>8. ASSUME NEW r \in Readers, Apply(r) \/ ApplyFails(r) PROVE CoverInv'
  <2>1. PICK i \in Index :
          /\ Take(r, i) /\ checkpoint' = checkpoint
          /\ delivered \subseteq delivered' /\ lost \subseteq lost'
          /\ i \in delivered' \cup lost'
    BY <1>8 DEF Apply, ApplyFails, Misses
  <2>2. \A q \in Polls : /\ reader'[q].pc = reader[q].pc /\ reader'[q].latest = reader[q].latest
                         /\ reader[q].batch \ {i} \subseteq reader'[q].batch
    BY <1>b, <2>1 DEF Take, ReaderRecord
  <2>3. BatchCovers'
    BY <1>a, <2>1, <2>2, StillCovers DEF At
  <2> QED
    BY <1>a, <1>1, <2>1, <2>3
<1>9. ASSUME NEW q \in Polls, PollStore(q) PROVE CoverInv'
  <2>1. /\ At(q, "apply") /\ reader[q].batch = {} /\ checkpoint' = reader[q].latest
        /\ delivered' = delivered /\ lost' = lost
    BY <1>9 DEF PollStore
  <2>2. CheckpointCovers'
    BY <1>a, <2>1 DEF CheckpointCovers, BatchCovers, Holds
  <2>3. \A o \in Polls : reader'[o].pc = "idle"
    BY <1>a, <1>9, PollEndsOK DEF PollStore, At
  <2> QED
    BY <1>a, <2>2, <2>3 DEF BatchCovers, At
<1> QED
  BY <1>b, <1>3, <1>4, <1>5, <1>6, <1>7, <1>8, <1>9
  DEF Next, UpNext, Poll, Job

\* In every behaviour the checkpoint passes no event that was neither handled nor lost to a
\* failing node, a full answer or a failing query, whatever restarts and jobs there are.
THEOREM SpecCheckpointCovers == Spec => []CheckpointCovers
<1>1. CoverInv => CheckpointCovers
  BY DEF CoverInv
<1> QED
  BY <1>1, InitCoverInv, NextCoverInv, PTL DEF Spec

-----------------------------------------------------------------------------
(* Jobs.  A job that fetches ledger at has handled every event of its      *)
(* range below it, or missed it when its ledger had its turn; one that     *)
(* applies a batch holds in it what else is due at that ledger.  born is   *)
(* never ahead of the tip, so an answer has all it must have.              *)

Due(j, i) == jobs[j].from <= Log[i].ledger /\ Log[i].ledger <= jobs[j].born

Done(j, i) == i \in handled[j] \cup missed[j]

JobGood(j) ==
    /\ jobs[j].born <= tip
    /\ ~At(j, "idle") => jobs[j].status = "running"
    /\ reader[j].pc \in {"fetch", "apply"} => \A i \in Index :
          Due(j, i) /\ Log[i].ledger < reader[j].at => Done(j, i)
    /\ At(j, "apply") => \A i \in Index :
          Due(j, i) /\ Log[i].ledger = reader[j].at => Done(j, i) \/ i \in reader[j].batch
    /\ jobs[j].status = "completed" => \A i \in Index :
          Due(j, i) /\ Log[i].ledger <= jobs[j].to => Done(j, i)

JobInv == TypeOK /\ \A j \in Jobs : JobGood(j)

LEMMA JobInvCovers == JobInv => JobsCover
  BY DEF JobInv, JobGood, JobsCover, Due, Done

\* A job nobody moves stays good while the chain grows.
LEMMA JobStands ==
    ASSUME TypeOK, TypeOK', NEW j \in Jobs, JobGood(j),
           reader'[j] = reader[j], jobs'[j] = jobs[j], handled[j] \subseteq handled'[j],
           missed[j] \subseteq missed'[j], tip <= tip'
    PROVE  JobGood(j)'
<1>1. jobs[j].born \in Nat /\ tip \in Nat /\ tip' \in Nat
  BY ConstantsAssumption DEF TypeOK, JobRecord
<1>2. (jobs[j].born <= tip)'
  BY <1>1 DEF JobGood
<1> QED
  BY <1>2 DEF JobGood, At, Due, Done

\* A fetch: what is due at the ledger asked for is in the answer, or is missed.
LEMMA JobFetchOK ==
    ASSUME TypeOK, TypeOK', NEW j \in Jobs, JobGood(j), Fetch(j) \/ FetchFails(j)
    PROVE  JobGood(j)'
<1> USE ConstantsAssumption
<1>a. reader \in [Readers -> ReaderRecord] /\ j \in Readers /\ tip \in Nat
  BY DEF TypeOK, Readers
<1>1. PICK b \in SUBSET Index, S \in SUBSET Index :
        /\ Receive(j, b) /\ At(j, "fetch")
        /\ UNCHANGED <<jobs, handled, tip>>
        /\ Misses(j, S) /\ Since(reader[j].at) \subseteq b \cup S
  <2>1. CASE Fetch(j)
    <3>1. /\ Answer(reader[j].at) \in SUBSET Index
          /\ Since(reader[j].at) \ Answer(reader[j].at) \in SUBSET Index
      BY DEF Answer, Since
    <3> QED
      BY <2>1, <3>1 DEF Fetch
  <2>2. CASE FetchFails(j)
    BY <2>2 DEF FetchFails, Since
  <2> QED
    BY <2>1, <2>2
<1>2. /\ reader'[j].pc = "apply" /\ reader'[j].batch = b /\ reader'[j].at = reader[j].at
      /\ reader[j].at \in Nat /\ jobs[j].born \in Nat
  BY <1>a, <1>1 DEF Receive, ReaderRecord, TypeOK, JobRecord
<1>4. /\ missed[j] \subseteq missed'[j]
      /\ \A i \in S : Log[i].ledger = reader[j].at => i \in missed'[j]
  BY <1>a, <1>1, MissesOK DEF TypeOK
<1>3. ASSUME NEW i \in Index, Due(j, i), Log[i].ledger = reader[j].at
      PROVE  i \in missed'[j] \/ i \in b
  <2>1. i \in Since(reader[j].at)
    BY <1>a, <1>2, <1>3 DEF Since, Due, JobGood
  <2> QED
    BY <1>1, <1>3, <1>4, <2>1
<1> QED
  BY <1>1, <1>2, <1>3, <1>4 DEF JobGood, At, Due, Done

\* Handling, or losing, one event of the batch: one of the job's own ledger is missed.
LEMMA JobApplyOK ==
    ASSUME TypeOK, TypeOK', NEW j \in Jobs, JobGood(j), Apply(j) \/ ApplyFails(j)
    PROVE  JobGood(j)'
<1>a. reader \in [Readers -> ReaderRecord] /\ j \in Readers
  BY DEF TypeOK, Readers
<1>1. PICK i \in Index :
        /\ Take(j, i) /\ At(j, "apply")
        /\ UNCHANGED <<jobs, tip>>
        /\ missed[j] \subseteq missed'[j] /\ handled[j] \subseteq handled'[j]
        /\ Log[i].ledger = reader[j].at => i \in handled'[j] \cup missed'[j]
  <2>1. CASE Apply(j)
    BY <2>1 DEF Apply, TypeOK
  <2>2. CASE ApplyFails(j)
    <3>1. PICK i \in Index :
            /\ Take(j, i) /\ At(j, "apply") /\ Misses(j, {i})
            /\ UNCHANGED <<jobs, tip, handled>>
      BY <2>2 DEF ApplyFails
    <3> QED
      BY <1>a, <3>1, MissesOK DEF TypeOK
  <2> QED
    BY <2>1, <2>2
<1>2. /\ reader'[j].pc = "apply" /\ reader'[j].batch = reader[j].batch \ {i}
      /\ reader'[j].at = reader[j].at
  BY <1>a, <1>1 DEF Take, ReaderRecord, At
<1> QED
  BY <1>1, <1>2 DEF JobGood, At, Due, Done

\* The steps a job takes by itself.
LEMMA JobOwnOK ==
    ASSUME TypeOK, TypeOK', NEW j \in Jobs, JobGood(j),
           \/ StartReindex(j) \/ StartReplayHistory(j) \/ JobLocate(j) \/ JobMislocates(j)
           \/ JobFails(j) \/ JobAdvance(j) \/ JobCompletes(j)
    PROVE  JobGood(j)'
<1> USE ConstantsAssumption
<1>a. /\ reader \in [Readers -> ReaderRecord] /\ j \in Readers
      /\ jobs \in [Jobs -> JobRecord] /\ tip \in Nat
      /\ jobs[j].born \in Nat /\ jobs[j].to \in Nat /\ reader[j].at \in Nat
  BY SMTT(30), ZenonT(30) DEF TypeOK, Readers, JobRecord, ReaderRecord
<1>b. \A i \in Index : Log[i].ledger \in Nat
  OBVIOUS
<1>1. ASSUME NEW a \in Nat, NEW b \in Nat,
             jobs' = [jobs EXCEPT ![j] = [status |-> "running", from |-> a, to |-> b, born |-> tip]],
             reader'[j].pc = "locate" \/ (reader'[j].pc = "fetch" /\ reader'[j].at = a),
             UNCHANGED <<tip, missed, handled>>
      PROVE  JobGood(j)'
  <2>1. /\ jobs'[j].status = "running" /\ jobs'[j].from = a /\ jobs'[j].born = tip
    BY <1>a, <1>1
  <2> QED
    BY SMTT(30), ZenonT(30), <1>1, <1>a, <1>b, <2>1 DEF JobGood, At, Due, Done
<1>2. CASE StartReindex(j)
  <2>1. PICK r \in Requests :
          /\ jobs' = [jobs EXCEPT ![j] = [status |-> "running", from |-> r.from,
                                          to |-> r.to, born |-> tip]]
          /\ reader' = [reader EXCEPT ![j].pc = "fetch", ![j].at = r.from]
          /\ UNCHANGED <<tip, missed, handled>>
    BY <1>2 DEF StartReindex
  <2>2. r.from \in Nat /\ r.to \in Nat
    BY DEF LedgerRange
  <2>3. reader'[j].pc = "fetch" /\ reader'[j].at = r.from
    BY <1>a, <2>1 DEF ReaderRecord
  <2> QED
    BY <1>1, <2>1, <2>2, <2>3
<1>3. CASE StartReplayHistory(j)
  <2>1. PICK s \in Spans :
          /\ jobs' = [jobs EXCEPT ![j] = [status |-> "running", from |-> s.from,
                                          to |-> s.to, born |-> tip]]
          /\ reader' = [reader EXCEPT ![j].pc = "locate"]
          /\ UNCHANGED <<tip, missed, handled>>
    BY <1>3 DEF StartReplayHistory
  <2>2. s.from \in Nat /\ s.to \in Nat
    BY DEF LedgerRange
  <2>3. reader'[j].pc = "locate"
    BY <1>a, <2>1 DEF ReaderRecord
  <2> QED
    BY <1>1, <2>1, <2>2, <2>3
<1>4. ASSUME NEW from \in Nat, NEW to \in Nat, At(j, "locate"), Located(j, from, to)
      PROVE  JobGood(j)'
  <2>1. /\ reader'[j].pc = "fetch" /\ reader'[j].at = from
        /\ jobs'[j].from = from /\ jobs'[j].born = jobs[j].born
        /\ jobs'[j].status = jobs[j].status
        /\ UNCHANGED <<tip, missed, handled>>
    BY <1>a, <1>4 DEF Located, ReaderRecord, JobRecord
  <2>2. jobs[j].status = "running" /\ jobs[j].born <= tip
    BY <1>4 DEF JobGood, At
  <2> QED
    BY <1>b, <2>1, <2>2 DEF JobGood, At, Due, Done
<1>5. CASE JobLocate(j) \/ JobMislocates(j)
  <2>1. \E from, to \in 1 .. LastLedger : At(j, "locate") /\ Located(j, from, to)
    BY <1>5 DEF JobLocate, JobMislocates
  <2> QED
    BY <1>4, <2>1
<1>6. CASE JobFails(j)
  <2>1. /\ reader'[j].pc = "idle" /\ jobs'[j].status = "failed"
        /\ jobs'[j].born = jobs[j].born /\ tip' = tip
    BY <1>a, <1>6 DEF JobFails, JobEnds, Idle, JobRecord
  <2> QED
    BY <2>1 DEF JobGood, At
<1>7. CASE JobAdvance(j)
  <2>1. /\ At(j, "apply") /\ reader[j].batch = {}
        /\ reader'[j].pc = "fetch" /\ reader'[j].at = reader[j].at + 1
        /\ UNCHANGED <<tip, jobs, missed, handled>>
    BY <1>a, <1>7 DEF JobAdvance, ReaderRecord
  <2>2. ASSUME NEW i \in Index, Due(j, i), Log[i].ledger < reader[j].at + 1
        PROVE  Done(j, i)
    <3>1. Log[i].ledger < reader[j].at \/ Log[i].ledger = reader[j].at
      BY <1>a, <1>b, <2>2
    <3> QED
      BY <2>1, <2>2, <3>1 DEF JobGood, At
  <2> QED
    BY <2>1, <2>2 DEF JobGood, At, Due, Done
<1>8. CASE JobCompletes(j)
  <2>1. /\ At(j, "fetch") /\ reader[j].at > jobs[j].to
        /\ reader'[j].pc = "idle"
        /\ jobs'[j].from = jobs[j].from /\ jobs'[j].to = jobs[j].to
        /\ jobs'[j].born = jobs[j].born
        /\ UNCHANGED <<tip, missed, handled>>
    BY <1>a, <1>8 DEF JobCompletes, JobEnds, Idle, JobRecord
  <2>2. ASSUME NEW i \in Index, Due(j, i), Log[i].ledger <= jobs[j].to
        PROVE  Done(j, i)
    <3>1. Log[i].ledger < reader[j].at
      BY <1>a, <1>b, <2>1, <2>2
    <3> QED
      BY <2>1, <2>2, <3>1 DEF JobGood, At
  <2> QED
    BY <2>1, <2>2 DEF JobGood, At, Due, Done
<1> QED
  BY <1>2, <1>3, <1>5, <1>6, <1>7, <1>8

LEMMA InitJobInv == Init => JobInv
<1>1. Init => \A j \in Jobs : JobGood(j)
  BY DEF Init, JobGood, At, Idle, NoJob, Readers
<1> QED
  BY <1>1, InitTypeOK DEF JobInv

LEMMA NextJobInv == JobInv /\ [Next]_vars => JobInv'
<1> SUFFICES ASSUME JobInv, [Next]_vars, NEW j \in Jobs PROVE JobGood(j)'
  BY NextTypeOK DEF JobInv
<1>a. TypeOK /\ TypeOK' /\ JobGood(j)
  BY NextTypeOK DEF JobInv
<1>b. /\ reader \in [Readers -> ReaderRecord] /\ jobs \in [Jobs -> JobRecord]
      /\ handled \in [Jobs -> SUBSET Index] /\ missed \in [Jobs -> SUBSET Index]
      /\ Polls \subseteq Readers /\ Jobs \subseteq Readers /\ j \notin Polls
      /\ tip \in Nat /\ tip <= tip
  BY <1>a, ConstantsAssumption DEF TypeOK, Readers
<1>1. ASSUME reader'[j] = reader[j], jobs'[j] = jobs[j], handled[j] \subseteq handled'[j],
             missed[j] \subseteq missed'[j], tip' = tip
      PROVE  JobGood(j)'
  BY <1>a, <1>b, <1>1, JobStands
<1>2. CASE CloseLedger
  BY <1>a, <1>b, <1>2, JobStands DEF CloseLedger
<1>3. CASE BreakerTurns \/ (\E c \in Creators : RegisterCreator(c)) \/ UNCHANGED vars
  BY <1>1, <1>3 DEF BreakerTurns, RegisterCreator, vars
<1>4. ASSUME NEW q \in Polls, PollTick(q) \/ PollCheckpoint(q) \/ PollLatest(q) \/ PollStore(q)
                              \/ PollAborts(q)
      PROVE  JobGood(j)'
  <2>1. reader'[j] = reader[j]
    BY <1>b, <1>4 DEF PollTick, PollCheckpoint, PollLatest, PollStore, PollAborts, PollEnds
  <2>2. UNCHANGED <<jobs, handled, missed, tip>>
    BY <1>4 DEF PollTick, PollCheckpoint, PollLatest, PollStore, PollAborts
  <2> QED
    BY <1>1, <2>1, <2>2
<1>5. ASSUME NEW r \in Readers, r # j, Fetch(r) \/ FetchFails(r) \/ Apply(r) \/ ApplyFails(r)
      PROVE  JobGood(j)'
  <2>1. reader'[j] = reader[j]
    BY <1>b, <1>5 DEF Fetch, FetchFails, Apply, ApplyFails, Receive, Take
  <2>2. UNCHANGED <<jobs, tip>>
    BY <1>5 DEF Fetch, FetchFails, Apply, ApplyFails
  <2>4. missed[j] \subseteq missed'[j]
    BY <1>b, <1>5 DEF Fetch, FetchFails, Apply, ApplyFails, Misses
  <2>3. handled'[j] = handled[j]
    BY <1>b, <1>5 DEF Fetch, FetchFails, Apply, ApplyFails
  <2> QED
    BY <1>1, <2>1, <2>2, <2>3, <2>4
<1>6. ASSUME NEW k \in Jobs, k # j,
             \/ StartReindex(k) \/ StartReplayHistory(k) \/ JobLocate(k) \/ JobMislocates(k)
             \/ JobFails(k) \/ JobAdvance(k) \/ JobCompletes(k)
      PROVE  JobGood(j)'
  <2>1. reader'[j] = reader[j] /\ jobs'[j] = jobs[j]
    BY <1>b, <1>6 DEF StartReindex, StartReplayHistory, JobLocate, JobMislocates, Located,
                      JobFails, JobAdvance, JobCompletes, JobEnds
  <2>2. UNCHANGED <<handled, missed, tip>>
    BY <1>6 DEF StartReindex, StartReplayHistory, JobLocate, JobMislocates, Located,
                JobFails, JobAdvance, JobCompletes, JobEnds
  <2> QED
    BY <1>1, <2>1, <2>2
<1>7. CASE Crash
  <2>1. reader'[j] = Idle /\ jobs'[j] = NoJob /\ tip' = tip
    BY <1>b, <1>7 DEF Crash
  <2> QED
    BY <1>b, <2>1 DEF JobGood, At, Idle, NoJob
<1>8. CASE Fetch(j) \/ FetchFails(j) \/ Apply(j) \/ ApplyFails(j)
  BY <1>a, <1>8, JobFetchOK, JobApplyOK
<1>9. CASE \/ StartReindex(j) \/ StartReplayHistory(j) \/ JobLocate(j) \/ JobMislocates(j)
           \/ JobFails(j) \/ JobAdvance(j) \/ JobCompletes(j)
  BY <1>a, <1>9, JobOwnOK
<1> QED
  BY <1>b, <1>2, <1>3, <1>4, <1>5, <1>6, <1>7, <1>8, <1>9
  DEF Next, UpNext, Poll, Job

\* For every log, range and number of jobs and polls: a job that reports completed has
\* handled each event of its range that was in the log when it was accepted, except one
\* that a failed fetch or a full answer at the event's own ledger, or its handler's
\* failing query then, made it miss.
THEOREM SpecJobsCover == Spec => []JobsCover
  BY JobInvCovers, InitJobInv, NextJobInv, PTL DEF Spec

-----------------------------------------------------------------------------
(* The tier table.  A pass over the log may start below events that were   *)
(* applied already, so the table may go back in time while it lasts, and   *)
(* stay there when a restart cuts it short: only behind the checkpoint is  *)
(* the last word on a tier sure to be in the table.                        *)

\* An event that says something of a tier, of a creator who had signed up.
Word(i) == Log[i].kind \in {"tier_created", "tier_deactivated"}
Rows == Enrolled \X (TierIds \ {0})
Copied(i) == Word(i) /\ TierOf(i) \in Rows

Told(i) == tiers[TierOf(i)] = IF Log[i].kind = "tier_created" THEN "active" ELSE "inactive"

LastWord(i) ==
    /\ Copied(i) /\ Log[i].ledger <= tip
    /\ \A k \in Index : Copied(k) /\ TierOf(k) = TierOf(i) /\ Log[k].ledger <= tip => k <= i

SyncBehind ==
    \A w \in Index : LastWord(w) /\ (Log[w].ledger < checkpoint \/ checkpoint = tip) => Told(w)

SyncRows ==
    /\ \A i \in delivered : Copied(i) => tiers[TierOf(i)] # "absent"
    /\ \A t \in Rows : tiers[t] # "absent" =>
          \E i \in Index : Copied(i) /\ TierOf(i) = t /\ Log[i].ledger <= tip

\* A batch is what is left of the log from the checkpoint on.
BatchGood(q) ==
    \A i \in reader[q].batch :
        /\ checkpoint <= Log[i].ledger /\ Log[i].ledger <= tip
        /\ \A k \in Index :
              /\ k < i => k \in reader[q].batch \/ k \in delivered
              /\ i < k /\ Log[k].ledger <= reader[q].latest => k \in reader[q].batch

BatchTells(q) ==
    \A w \in Index : LastWord(w) /\ Log[w].ledger <= reader[q].latest =>
        w \in reader[q].batch \/ Told(w)

SyncPoll == \A q \in Polls : At(q, "apply") => BatchGood(q) /\ BatchTells(q)

SyncInv ==
    /\ Enrolled \subseteq creators /\ checkpoint <= tip
    /\ lost = {} => SyncBehind /\ SyncRows /\ SyncPoll

\* What the handlers make of one event: its own row, and no other.
LEMMA HandleTells ==
    ASSUME TypeOK, Enrolled \subseteq creators, NEW i \in Index, Handle(Log[i]),
           Copied(i) /\ Log[i].kind = "tier_deactivated" => tiers[TierOf(i)] # "absent"
    PROVE  /\ Copied(i) => Told(i)'
           /\ \A t \in Rows : ~(Copied(i) /\ TierOf(i) = t) => tiers'[t] = tiers[t]
<1> USE ConstantsAssumption
<1>a. /\ tiers \in [Creators \X TierIds -> {"absent", "active", "inactive"}]
      /\ Rows \subseteq Creators \X TierIds
  BY DEF TypeOK, Rows
<1>1. CASE HandleCreatorRegistered(Log[i]) \/ HandlePassMinted(Log[i])
  <2>1. tiers' = tiers /\ ~Word(i)
    BY <1>1 DEF HandleCreatorRegistered, HandlePassMinted, Word
  <2> QED
    BY <2>1 DEF Copied
<1>2. CASE HandleTierCreated(Log[i])
  <2>1. CASE Log[i].tier # 0 /\ Log[i].creator \in creators
    <3>1. tiers' = [tiers EXCEPT ![TierOf(i)] = "active"] /\ Log[i].kind = "tier_created"
      BY <1>2, <2>1 DEF HandleTierCreated, TierOf
    <3>2. Word(i)
      BY <3>1 DEF Word
    <3> QED
      BY <1>a, <3>1, <3>2 DEF Copied, Told
  <2>2. CASE ~(Log[i].tier # 0 /\ Log[i].creator \in creators)
    <3>1. tiers' = tiers
      BY <1>2, <2>2 DEF HandleTierCreated
    <3>2. ~Copied(i)
      BY <2>2 DEF Copied, Rows, TierOf
    <3> QED
      BY <3>1, <3>2
  <2> QED
    BY <2>1, <2>2
<1>3. CASE HandleTierDeactivated(Log[i])
  <2>1. CASE Log[i].tier # 0 /\ tiers[TierOf(i)] # "absent"
    <3>1. tiers' = [tiers EXCEPT ![TierOf(i)] = "inactive"] /\ Log[i].kind = "tier_deactivated"
      BY <1>3, <2>1 DEF HandleTierDeactivated, TierOf
    <3>2. Word(i)
      BY <3>1 DEF Word
    <3> QED
      BY <1>a, <3>1, <3>2 DEF Copied, Told
  <2>2. CASE ~(Log[i].tier # 0 /\ tiers[TierOf(i)] # "absent")
    <3>1. tiers' = tiers /\ Log[i].kind = "tier_deactivated"
      BY <1>3, <2>2 DEF HandleTierDeactivated, TierOf
    <3>2. ~Copied(i)
      BY <2>2, <3>1 DEF Copied, Rows, TierOf
    <3> QED
      BY <3>1, <3>2
  <2> QED
    BY <2>1, <2>2
<1> QED
  BY <1>1, <1>2, <1>3 DEF Handle

LEMMA InitSyncInv == Init => SyncInv
<1> SUFFICES ASSUME Init PROVE SyncInv
  OBVIOUS
<1>1. SyncPoll
  BY DEF Init, SyncPoll, At, Idle, Readers
<1>2. SyncRows
  <2>1. \A t \in Rows : tiers[t] = "absent"
    BY ConstantsAssumption DEF Init, Rows
  <2> QED
    BY <2>1 DEF Init, SyncRows
<1>3. SyncBehind
  BY ConstantsAssumption DEF Init, SyncBehind, LastWord
<1> QED
  BY <1>1, <1>2, <1>3 DEF Init, SyncInv

\* Steps that write no row and leave every batch alone.
LEMMA SyncStands ==
    ASSUME SyncBehind, SyncRows, SyncPoll,
           UNCHANGED <<tip, checkpoint, tiers, delivered>>,
           \A q \in Polls : At(q, "apply")' => At(q, "apply") /\ reader'[q] = reader[q]
    PROVE  SyncBehind' /\ SyncRows' /\ SyncPoll'
  BY DEF SyncBehind, SyncRows, SyncPoll, BatchGood, BatchTells, LastWord, Told, At
\* A ledger closes: its events are ahead of the checkpoint and of every batch.
LEMMA CloseLedgerSync ==
    ASSUME PollInv, checkpoint <= tip, SyncBehind, SyncRows, SyncPoll, CloseLedger
    PROVE  SyncBehind' /\ SyncRows' /\ SyncPoll'
<1>a. /\ tip \in Nat /\ checkpoint \in Nat /\ Polls \subseteq Readers
      /\ \A q \in Polls : reader[q].latest \in Nat
  BY ConstantsAssumption DEF PollInv, TypeOK, Readers, ReaderRecord
<1>b. /\ tip' = tip + 1
      /\ UNCHANGED <<checkpoint, tiers, reader, delivered>>
  BY DEF CloseLedger
<1>1. \A w \in Index : LastWord(w)' /\ Log[w].ledger <= tip => LastWord(w)
  BY <1>a, <1>b, IndexLedger DEF LastWord
<1>2. \A w \in Index : Told(w)' <=> Told(w)
  BY <1>b DEF Told
<1>3. SyncBehind'
  <2> SUFFICES ASSUME NEW w \in Index, LastWord(w)',
                      Log[w].ledger < checkpoint \/ checkpoint = tip + 1
               PROVE  Told(w)
    BY <1>b, <1>2 DEF SyncBehind
  <2>1. Log[w].ledger < checkpoint /\ Log[w].ledger <= tip
    BY <1>a, IndexLedger
  <2> QED
    BY <1>1, <2>1 DEF SyncBehind
<1>4. SyncRows'
  BY <1>a, <1>b, IndexLedger DEF SyncRows
<1>5. ASSUME NEW q \in Polls, At(q, "apply") PROVE BatchGood(q)' /\ BatchTells(q)'
  <2>1. BatchGood(q) /\ BatchTells(q) /\ reader[q].latest <= tip
    BY <1>5 DEF SyncPoll, PollInv, PollAhead, At
  <2>2. BatchGood(q)'
    <3>1. \A i \in reader[q].batch : i \in Index
      BY <1>a DEF PollInv, TypeOK, ReaderRecord
    <3> QED
      BY <1>a, <1>b, <2>1, <3>1, IndexLedger DEF BatchGood
  <2>3. BatchTells(q)'
    BY <1>a, <1>b, <1>1, <1>2, <2>1, IndexLedger DEF BatchTells
  <2> QED
    BY <2>2, <2>3
<1> QED
  BY <1>b, <1>3, <1>4, <1>5 DEF SyncPoll, At

\* A fetch that loses nothing brings the log from the checkpoint on; what lies behind the
\* checkpoint has been delivered, and its last words are in the table.
LEMMA FetchSync ==
    ASSUME CoverInv, SyncBehind, SyncRows, SyncPoll, lost' = {},
           NEW q \in Polls, Fetch(q) \/ FetchFails(q)
    PROVE  SyncBehind' /\ SyncRows' /\ SyncPoll'
<1>a. /\ tip \in Nat /\ checkpoint \in Nat /\ q \in Readers
      /\ reader \in [Readers -> ReaderRecord] /\ Polls \subseteq Readers
      /\ reader[q].latest \in Nat
  BY ConstantsAssumption DEF CoverInv, PollInv, TypeOK, Readers, ReaderRecord
<1>1. /\ At(q, "fetch") /\ Receive(q, Since(reader[q].at)) /\ lost = {}
      /\ UNCHANGED <<tip, checkpoint, tiers, delivered>>
  <2>1. CASE Fetch(q)
    <3>1. Answer(reader[q].at) = Since(reader[q].at)
      BY <2>1 DEF Fetch, Misses, Answer
    <3> QED
      BY <2>1, <3>1 DEF Fetch, Misses, Tables
  <2>2. CASE FetchFails(q)
    <3>1. Since(reader[q].at) = {}
      BY <2>2 DEF FetchFails, Misses
    <3> QED
      BY <2>2, <3>1 DEF FetchFails, Misses, Tables
  <2> QED
    BY <2>1, <2>2
<1>2. reader[q].at = checkpoint /\ reader[q].latest <= tip /\ checkpoint < reader[q].latest
  BY <1>1 DEF CoverInv, PollInv, PollAhead, At
<1>3. /\ reader'[q].batch = Since(checkpoint) /\ reader'[q].latest = reader[q].latest
      /\ \A o \in Polls \ {q} : reader'[o] = reader[o]
  BY <1>a, <1>1, <1>2 DEF Receive, ReaderRecord
<1>4. \A o \in Polls : o # q => ~At(o, "apply")
  BY <1>1 DEF CoverInv, PollInv, PollsApart, At
<1>5. BatchGood(q)'
  <2> SUFFICES ASSUME NEW i \in Since(checkpoint)
               PROVE  /\ checkpoint <= Log[i].ledger /\ Log[i].ledger <= tip
                      /\ \A k \in Index :
                            /\ k < i => k \in Since(checkpoint) \/ k \in delivered
                            /\ i < k /\ Log[k].ledger <= reader[q].latest => k \in Since(checkpoint)
    BY <1>1, <1>3 DEF BatchGood
  <2>1. i \in Index /\ checkpoint <= Log[i].ledger /\ Log[i].ledger <= tip
    BY DEF Since
  <2>2. ASSUME NEW k \in Index, k < i PROVE k \in Since(checkpoint) \/ k \in delivered
    <3>1. Log[k].ledger <= Log[i].ledger
      BY <2>1, <2>2, LogInOrder
    <3>2. CASE Log[k].ledger <= checkpoint
      BY <1>1, <3>2 DEF CoverInv, CheckpointCovers
    <3>3. CASE ~(Log[k].ledger <= checkpoint)
      BY <1>a, <2>1, <3>1, <3>3, IndexLedger DEF Since
    <3> QED
      BY <3>2, <3>3
  <2>3. ASSUME NEW k \in Index, i < k, Log[k].ledger <= reader[q].latest
        PROVE  k \in Since(checkpoint)
    <3>1. Log[i].ledger <= Log[k].ledger
      BY <2>1, <2>3, LogInOrder
    <3> QED
      BY <1>a, <1>2, <2>1, <2>3, <3>1, IndexLedger DEF Since
  <2> QED
    BY <2>1, <2>2, <2>3
<1>6. \A w \in Index : (LastWord(w)' <=> LastWord(w)) /\ (Told(w)' <=> Told(w))
  BY <1>1 DEF LastWord, Told
<1>7. BatchTells(q)'
  <2> SUFFICES ASSUME NEW w \in Index, LastWord(w) PROVE w \in Since(checkpoint) \/ Told(w)
    BY <1>3, <1>6 DEF BatchTells
  <2>1. CASE Log[w].ledger < checkpoint
    BY <2>1 DEF SyncBehind
  <2>2. CASE ~(Log[w].ledger < checkpoint)
    BY <1>a, <2>2, IndexLedger DEF Since, LastWord
  <2> QED
    BY <2>1, <2>2
<1>8. SyncBehind' /\ SyncRows'
  BY <1>1, <1>6 DEF SyncBehind, SyncRows
<1> QED
  BY <1>3, <1>4, <1>5, <1>7, <1>8 DEF SyncPoll, At
\* The oldest event of a batch is handled.  Were it a word on a tier whose last word has
\* been handled before, that last word would be in the batch still.
LEMMA ApplySync ==
    ASSUME WithdrawnAfterMade, CoverInv, Enrolled \subseteq creators,
           SyncBehind, SyncRows, SyncPoll, NEW q \in Polls, Apply(q)
    PROVE  SyncBehind' /\ SyncRows' /\ SyncPoll'
<1>a. /\ TypeOK /\ tip \in Nat /\ checkpoint \in Nat /\ q \in Readers
      /\ reader \in [Readers -> ReaderRecord] /\ Polls \subseteq Readers
      /\ reader[q].latest \in Nat /\ reader[q].batch \subseteq Index
  BY ConstantsAssumption DEF CoverInv, PollInv, TypeOK, Readers, ReaderRecord
<1>1. PICK i \in Index :
        /\ At(q, "apply") /\ Oldest(i, reader[q].batch)
        /\ Handle(Log[i]) /\ Take(q, i)
        /\ delivered' = delivered \cup {i}
        /\ UNCHANGED <<tip, checkpoint>>
  BY DEF Apply
<1>2. /\ BatchGood(q) /\ BatchTells(q)
      /\ i \in reader[q].batch /\ \A k \in reader[q].batch : i <= k
      /\ checkpoint < reader[q].latest /\ reader[q].latest <= tip
  BY <1>1 DEF SyncPoll, CoverInv, PollInv, PollAhead, At, Oldest
<1>3. /\ reader'[q].batch = reader[q].batch \ {i} /\ reader'[q].latest = reader[q].latest
      /\ \A o \in Polls \ {q} : reader'[o] = reader[o]
  BY <1>a, <1>1 DEF Take, ReaderRecord
<1>4. \A o \in Polls : o # q => ~At(o, "apply")
  BY <1>1 DEF CoverInv, PollInv, PollsApart, At
<1>5. checkpoint <= Log[i].ledger /\ Log[i].ledger <= tip /\ i \in Int
  BY <1>2, ConstantsAssumption DEF BatchGood, Index
<1>6. ASSUME Copied(i), Log[i].kind = "tier_deactivated" PROVE tiers[TierOf(i)] # "absent"
  <2>1. PICK k \in Index : k < i /\ Log[k].kind = "tier_created" /\ TierOf(k) = TierOf(i)
    BY <1>6 DEF WithdrawnAfterMade
  <2>2. Copied(k)
    BY <1>6, <2>1 DEF Copied, Word
  <2>3. k \notin reader[q].batch
    BY <1>2, <1>5, <2>1 DEF Index
  <2>4. k \in delivered
    BY <1>2, <2>1, <2>3 DEF BatchGood
  <2> QED
    BY <2>1, <2>2, <2>4 DEF SyncRows
<1>7. /\ Copied(i) => Told(i)'
      /\ \A t \in Rows : ~(Copied(i) /\ TierOf(i) = t) => tiers'[t] = tiers[t]
  BY <1>a, <1>1, <1>6, HandleTells
<1>8. Copied(i) => tiers'[TierOf(i)] # "absent"
  BY <1>7 DEF Told
<1>9. \A w \in Index : LastWord(w)' <=> LastWord(w)
  BY <1>1 DEF LastWord
\* A tier's last word that was told is told still, unless this event is an earlier one.
<1>10. ASSUME NEW w \in Index, LastWord(w), Told(w), w = i \/ ~(i < w) PROVE Told(w)'
  <2>1. CASE Copied(i) /\ TierOf(i) = TierOf(w)
    <3>1. i <= w /\ w \in Int
      BY <1>5, <1>10, <2>1 DEF LastWord, Index
    <3>2. i = w
      BY <1>5, <1>10, <3>1
    <3> QED
      BY <1>7, <2>1, <3>2
  <2>2. CASE ~(Copied(i) /\ TierOf(i) = TierOf(w))
    <3>1. TierOf(w) \in Rows
      BY <1>10 DEF LastWord, Copied
    <3> QED
      BY <1>7, <1>10, <2>2, <3>1 DEF Told
  <2> QED
    BY <2>1, <2>2
<1>11. SyncBehind'
  <2> SUFFICES ASSUME NEW w \in Index, LastWord(w), Log[w].ledger < checkpoint
               PROVE  Told(w)'
    BY <1>a, <1>1, <1>2, <1>9 DEF SyncBehind
  <2>1. ~(i < w)
    <3>1. i < w => Log[i].ledger <= Log[w].ledger
      BY LogInOrder
    <3> QED
      BY <1>a, <1>5, <3>1, IndexLedger
  <2> QED
    BY <1>10, <2>1 DEF SyncBehind
<1>12. SyncRows'
  <2>1. ASSUME NEW k \in delivered', Copied(k) PROVE tiers'[TierOf(k)] # "absent"
    <3>1. CASE Copied(i) /\ TierOf(i) = TierOf(k)
      BY <1>8, <3>1
    <3>2. CASE ~(Copied(i) /\ TierOf(i) = TierOf(k))
      <4>1. k \in delivered /\ TierOf(k) \in Rows
        BY <1>1, <2>1, <3>2 DEF Copied
      <4> QED
        BY <1>7, <2>1, <3>2, <4>1 DEF SyncRows
    <3> QED
      BY <3>1, <3>2
  <2>2. ASSUME NEW t \in Rows, tiers'[t] # "absent"
        PROVE  \E k \in Index : Copied(k) /\ TierOf(k) = t /\ Log[k].ledger <= tip
    BY <1>5, <1>7, <2>2 DEF SyncRows
  <2> QED
    BY <1>1, <2>1, <2>2 DEF SyncRows
<1>13. BatchGood(q)'
  <2> SUFFICES ASSUME NEW j \in reader[q].batch \ {i}
               PROVE  /\ checkpoint <= Log[j].ledger /\ Log[j].ledger <= tip
                      /\ \A k \in Index :
                            /\ k < j => k \in reader[q].batch \ {i} \/ k \in delivered \cup {i}
                            /\ j < k /\ Log[k].ledger <= reader[q].latest
                                  => k \in reader[q].batch \ {i}
    BY <1>1, <1>3 DEF BatchGood
  <2>1. /\ checkpoint <= Log[j].ledger /\ Log[j].ledger <= tip
        /\ \A k \in Index :
              /\ k < j => k \in reader[q].batch \/ k \in delivered
              /\ j < k /\ Log[k].ledger <= reader[q].latest => k \in reader[q].batch
    BY <1>2 DEF BatchGood
  <2>2. i <= j /\ j \in Int
    BY <1>a, <1>2 DEF Index
  <2>3. \A k \in Index : j < k => k # i
    BY <1>5, <2>2
  <2> QED
    BY <2>1, <2>3
<1>14. BatchTells(q)'
  <2> SUFFICES ASSUME NEW w \in Index, LastWord(w), Log[w].ledger <= reader[q].latest,
                      w \notin reader[q].batch \ {i}
               PROVE  Told(w)'
    BY <1>3, <1>9 DEF BatchTells
  <2>1. CASE w = i
    BY <1>7, <2>1 DEF LastWord
  <2>2. CASE w # i
    <3>1. Told(w) /\ ~(i < w)
      BY <1>2, <2>2 DEF BatchTells, BatchGood
    <3> QED
      BY <1>10, <3>1
  <2> QED
    BY <2>1, <2>2
<1> QED
  BY <1>3, <1>4, <1>11, <1>12, <1>13, <1>14 DEF SyncPoll, At

\* A poll stores the ledger it has read to: its batch is empty, so all last words are told.
LEMMA StoreSync ==
    ASSUME TypeOK, PollsApart, SyncRows, SyncPoll, NEW q \in Polls, PollStore(q)
    PROVE  SyncBehind' /\ SyncRows' /\ SyncPoll'
<1>a. tip \in Nat /\ reader[q].latest \in Nat
  BY ConstantsAssumption DEF TypeOK, Readers, ReaderRecord
<1>1. /\ At(q, "apply") /\ reader[q].batch = {} /\ checkpoint' = reader[q].latest
      /\ PollEnds(q)
      /\ UNCHANGED <<tip, tiers, delivered>>
  BY DEF PollStore, Tables
<1>2. \A o \in Polls : reader'[o].pc = "idle"
  BY <1>1, PollEndsOK DEF At
<1>3. SyncBehind'
  <2> SUFFICES ASSUME NEW w \in Index, LastWord(w),
                      Log[w].ledger < reader[q].latest \/ reader[q].latest = tip
               PROVE  Told(w)
    BY <1>1 DEF SyncBehind, LastWord, Told
  <2>1. Log[w].ledger <= reader[q].latest
    BY <1>a, IndexLedger DEF LastWord
  <2> QED
    BY <1>1, <2>1 DEF SyncPoll, BatchTells
<1>4. SyncRows'
  BY <1>1 DEF SyncRows
<1> QED
  BY <1>2, <1>3, <1>4 DEF SyncPoll, At

LEMMA NextSyncInv ==
    ASSUME Jobs = {}, WithdrawnAfterMade, CoverInv, SyncInv, [Next]_vars
    PROVE  SyncInv'
<1>a. /\ TypeOK /\ PollsApart /\ PollAhead /\ PollInv
      /\ tip \in Nat /\ checkpoint \in Nat /\ Readers = Polls
      /\ reader \in [Readers -> ReaderRecord]
      /\ Enrolled \subseteq creators /\ checkpoint <= tip
  BY ConstantsAssumption DEF CoverInv, PollInv, TypeOK, Readers, SyncInv
<1>b. lost = {} => SyncBehind /\ SyncRows /\ SyncPoll
  BY DEF SyncInv
\* Steps that write no row and leave every batch alone.
<1>1. ASSUME UNCHANGED <<tip, checkpoint, tiers, delivered, lost>>, creators \subseteq creators',
             \A q \in Polls : At(q, "apply")' => At(q, "apply") /\ reader'[q] = reader[q]
      PROVE  SyncInv'
  BY <1>a, <1>b, <1>1, SyncStands DEF SyncInv
<1>2. CASE CloseLedger
  <2>1. /\ UNCHANGED <<creators, lost>> /\ checkpoint' <= tip'
    BY <1>a, <1>2 DEF CloseLedger
  <2> QED
    BY <1>a, <1>b, <1>2, <2>1, CloseLedgerSync DEF SyncInv
<1>3. CASE BreakerTurns \/ (\E c \in Creators : RegisterCreator(c)) \/ UNCHANGED vars
  BY <1>1, <1>3 DEF BreakerTurns, RegisterCreator, vars, At
<1>4. CASE Crash
  BY <1>a, <1>1, <1>4 DEF Crash, Tables, At, Idle
<1>5. ASSUME NEW q \in Polls, PollTick(q) \/ PollCheckpoint(q) \/ PollLatest(q) \/ PollAborts(q)
      PROVE  SyncInv'
  <2>1. UNCHANGED <<tip, checkpoint, tiers, creators, delivered, lost>>
    BY <1>5 DEF PollTick, PollCheckpoint, PollLatest, PollAborts, Tables
  <2>2. \A o \in Polls \ {q} : reader'[o] = reader[o]
    BY <1>a, <1>5 DEF PollTick, PollCheckpoint, PollLatest, PollAborts, PollEnds
  <2>3. reader'[q].pc \in {"checkpoint", "latest", "fetch", "idle"}
    BY <1>a, <1>5 DEF PollTick, PollCheckpoint, PollLatest, PollAborts, PollEnds, Idle,
                      ReaderRecord
  <2> QED
    BY <1>1, <2>1, <2>2, <2>3 DEF At
<1>6. ASSUME NEW q \in Polls, Fetch(q) \/ FetchFails(q) PROVE SyncInv'
  <2>1. UNCHANGED <<tip, checkpoint, creators>> /\ lost \subseteq lost'
    BY <1>6 DEF Fetch, FetchFails, Misses, Tables
  <2> QED
    BY <1>a, <1>b, <1>6, <2>1, FetchSync DEF SyncInv
<1>7. ASSUME NEW q \in Polls, Apply(q) PROVE SyncInv'
  <2>1. UNCHANGED <<tip, checkpoint, creators, lost>>
    BY <1>7 DEF Apply
  <2> QED
    BY <1>a, <1>b, <1>7, <2>1, ApplySync DEF SyncInv
<1>8. ASSUME NEW q \in Polls, ApplyFails(q) PROVE SyncInv'
  <2>1. UNCHANGED <<tip, checkpoint, creators>> /\ lost' # {}
    BY <1>8 DEF ApplyFails, Misses, Tables
  <2> QED
    BY <1>a, <2>1 DEF SyncInv
<1>9. ASSUME NEW q \in Polls, PollStore(q) PROVE SyncInv'
  <2>1. UNCHANGED <<tip, creators, lost>> /\ checkpoint' <= tip'
    BY <1>a, <1>9 DEF PollStore, Tables, PollAhead, At
  <2> QED
    BY <1>a, <1>b, <1>9, <2>1, StoreSync DEF SyncInv
<1> QED
  BY <1>a, <1>2, <1>3, <1>4, <1>5, <1>6, <1>7, <1>8, <1>9 DEF Next, UpNext, Poll

\* A set of places in the log has a last one: else the places up to one of its own would
\* be closed under taking the next, a finite set with a proper part of its own size.
LEMMA LastOfIndex ==
    ASSUME NEW W \in SUBSET Index, W # {}
    PROVE  \E w \in W : \A k \in W : k <= w
<1> DEFINE T == {n \in Index : \E w \in W : n <= w}
           P == {n + 1 : n \in T}
           g == [n \in T |-> n + 1]
<1> SUFFICES ASSUME \A w \in W : \E k \in W : ~(k <= w) PROVE FALSE
  OBVIOUS
<1>a. Len(Log) \in Nat /\ 1 \in Int /\ Len(Log) \in Int
  BY ConstantsAssumption
<1>b. \A n \in Index : n \in Int /\ 1 <= n /\ n <= Len(Log)
  BY <1>a DEF Index
<1>1. IsFiniteSet(T)
  <2>1. IsFiniteSet(Index)
    <3> DEFINE m == Len(Log)
    <3> HIDE DEF m
    <3>1. m \in Int => IsFiniteSet(1 .. m)
      BY <1>a, FS_Interval
    <3> QED
      BY <1>a, <3>1 DEF Index, m
  <2>2. T \in SUBSET Index
    OBVIOUS
  <2> HIDE DEF T
  <2> QED
    BY <2>1, <2>2, FS_Subset
<1>2. P \subseteq T
  <2> SUFFICES ASSUME NEW n \in T PROVE n + 1 \in T
    OBVIOUS
  <2>1. PICK w \in W : n <= w
    OBVIOUS
  <2>2. PICK k \in W : ~(k <= w)
    OBVIOUS
  <2>3. n + 1 <= k /\ n \in Int /\ 1 <= n /\ k <= Len(Log)
    BY <1>b, <2>1, <2>2
  <2>4. n + 1 \in Index
    BY <1>a, <1>b, <2>3 DEF Index
  <2> QED
    BY <2>3, <2>4
<1>3. IsFiniteSet(P) /\ Cardinality(P) = Cardinality(T)
  <2>1. g \in Bijection(T, P)
    <3>1. \A n \in T : n \in Int
      BY <1>b
    <3> QED
      BY <3>1 DEF Bijection, Injection, Surjection, IsInjective
  <2>2. ExistsBijection(T, P)
    BY <2>1 DEF ExistsBijection
  <2> HIDE DEF T, P, g
  <2> QED
    BY <1>1, <2>2, FS_Bijection
<1>4. P = T
  <2> HIDE DEF T, P
  <2> QED
    BY <1>1, <1>2, <1>3, FS_Subset
<1>5. 1 \in T
  <2>1. PICK w \in W : TRUE
    OBVIOUS
  <2>2. w \in Int /\ 1 <= w /\ w <= Len(Log)
    BY <1>b, <2>1
  <2>3. 1 \in Index
    BY <1>a, <2>2 DEF Index
  <2> QED
    BY <2>2, <2>3
<1>6. PICK n \in T : n + 1 = 1
  BY <1>4, <1>5
<1> QED
  BY <1>b, <1>6

\* At rest at the tip, the last word on a tier is behind the checkpoint.
LEMMA SyncInvTells == SyncInv => TiersInSync
<1> SUFFICES ASSUME SyncInv, SyncBehind, SyncRows, checkpoint = tip,
                    NEW c \in Enrolled, NEW n \in TierIds \ {0}
             PROVE  tiers[<<c, n>>] = OnChain(c, n, tip)
  BY DEF SyncInv, TiersInSync
<1> DEFINE W == Words(c, n, tip)
<1>1. \A i \in Index : i \in W <=> Copied(i) /\ TierOf(i) = <<c, n>> /\ Log[i].ledger <= tip
  BY DEF Words, Copied, Word, TierOf, Rows
<1>2. W \subseteq Index /\ <<c, n>> \in Rows
  BY DEF Words, Rows
<1>3. CASE W = {}
  <2>1. tiers[<<c, n>>] = "absent"
    BY <1>1, <1>2, <1>3 DEF SyncRows
  <2> QED
    BY <1>3, <2>1 DEF OnChain
<1>4. CASE W # {}
  <2>1. \E w \in W : \A k \in W : k <= w
    BY <1>2, <1>4, LastOfIndex
  <2> DEFINE w == CHOOSE i \in W : \A k \in W : k <= i
  <2>2. w \in W /\ \A k \in W : k <= w
    BY <2>1
  <2> HIDE DEF w
  <2>3. LastWord(w) /\ TierOf(w) = <<c, n>> /\ w \in Index
    BY <1>1, <1>2, <2>2 DEF LastWord
  <2>4. Told(w)
    BY <2>3 DEF SyncBehind
  <2>5. OnChain(c, n, tip) = IF Log[w].kind = "tier_created" THEN "active" ELSE "inactive"
    BY <1>4 DEF OnChain, w
  <2> QED
    BY <2>3, <2>4, <2>5 DEF Told
<1> QED
  BY <1>3, <1>4

\* For every log in which the contract withdraws only tiers it has made, every number of
\* timers and every restart: when no poll is under way and the checkpoint is at the tip, the
\* tier table says what the contract says, unless an event was lost.  Without a reindex job,
\* that is: one that applies a batch it fetched before a later event puts the table back.
THEOREM SpecTiersInSync ==
    ASSUME Jobs = {}, WithdrawnAfterMade
    PROVE  Spec => []TiersInSync
<1>1. CoverInv /\ SyncInv /\ [Next]_vars => CoverInv' /\ SyncInv'
  BY NextCoverInv, NextSyncInv
<1>2. Init => CoverInv /\ SyncInv
  BY InitCoverInv, InitSyncInv
<1> QED
  BY <1>1, <1>2, SyncInvTells, PTL DEF Spec

-----------------------------------------------------------------------------
(* With jobs beside the polls a tier may be active that the contract has   *)
(* withdrawn, but none is missing and none invented.                       *)

Made(i) == Log[i].kind = "tier_created" /\ TierOf(i) \in Rows

TiersMade ==
    \A t \in Rows : tiers[t] # "absent" =>
        \E i \in Index : Made(i) /\ TierOf(i) = t /\ Log[i].ledger <= tip

TiersListed ==
    /\ \A i \in Index : Made(i) /\ Log[i].ledger <= checkpoint =>
          i \in lost \/ tiers[TierOf(i)] # "absent"
    /\ TiersMade

BatchesClosed == \A r \in Readers : \A i \in reader[r].batch : Log[i].ledger <= tip

ListInv ==
    /\ Enrolled \subseteq creators
    /\ \A i \in delivered : Made(i) => tiers[TierOf(i)] # "absent"
    /\ TiersMade /\ BatchesClosed

\* Steps that write no row and add to no batch.
LEMMA ListStands ==
    ASSUME TypeOK, ListInv, Enrolled \subseteq creators', tip \in Nat, tip' \in Nat, tip <= tip',
           UNCHANGED <<tiers, delivered>>,
           \A r \in Readers : reader'[r].batch \subseteq reader[r].batch
    PROVE  ListInv'
<1>1. \A r \in Readers : reader[r].batch \subseteq Index
  BY DEF TypeOK, ReaderRecord
<1>2. BatchesClosed'
  BY <1>1, IndexLedger DEF ListInv, BatchesClosed
<1>3. TiersMade'
  BY IndexLedger DEF ListInv, TiersMade
<1> QED
  BY <1>2, <1>3 DEF ListInv

\* A handled event lists its own tier, or leaves what is listed.
LEMMA HandleLists ==
    ASSUME TypeOK, Enrolled \subseteq creators, NEW i \in Index, Handle(Log[i])
    PROVE  /\ Made(i) => tiers'[TierOf(i)] # "absent"
           /\ \A t \in Rows : tiers[t] # "absent" => tiers'[t] # "absent"
           /\ \A t \in Rows : tiers'[t] # "absent" =>
                 tiers[t] # "absent" \/ (Made(i) /\ TierOf(i) = t)
<1> USE ConstantsAssumption
<1>a. /\ tiers \in [Creators \X TierIds -> {"absent", "active", "inactive"}]
      /\ Rows \subseteq Creators \X TierIds
  BY DEF TypeOK, Rows
<1>1. CASE HandleCreatorRegistered(Log[i]) \/ HandlePassMinted(Log[i])
  <2>1. tiers' = tiers /\ ~Made(i)
    BY <1>1 DEF HandleCreatorRegistered, HandlePassMinted, Made
  <2> QED
    BY <2>1
<1>2. CASE HandleTierCreated(Log[i])
  <2>1. CASE Log[i].tier # 0 /\ Log[i].creator \in creators
    <3>1. tiers' = [tiers EXCEPT ![TierOf(i)] = "active"] /\ Log[i].kind = "tier_created"
      BY <1>2, <2>1 DEF HandleTierCreated, TierOf
    <3> QED
      BY <1>a, <3>1 DEF Made
  <2>2. CASE ~(Log[i].tier # 0 /\ Log[i].creator \in creators)
    <3>1. tiers' = tiers
      BY <1>2, <2>2 DEF HandleTierCreated
    <3>2. ~Made(i)
      BY <2>2 DEF Made, Rows, TierOf
    <3> QED
      BY <3>1, <3>2
  <2> QED
    BY <2>1, <2>2
<1>3. CASE HandleTierDeactivated(Log[i])
  <2>1. ~Made(i)
    BY <1>3 DEF HandleTierDeactivated, Made
  <2>2. \/ tiers' = tiers
        \/ /\ tiers' = [tiers EXCEPT ![TierOf(i)] = "inactive"]
           /\ tiers[TierOf(i)] # "absent"
    BY <1>3 DEF HandleTierDeactivated, TierOf
  <2> QED
    BY <1>a, <2>1, <2>2
<1> QED
  BY <1>1, <1>2, <1>3 DEF Handle

LEMMA InitListInv == Init => ListInv
<1> SUFFICES ASSUME Init PROVE ListInv
  OBVIOUS
<1>1. \A t \in Rows : tiers[t] = "absent"
  BY ConstantsAssumption DEF Init, Rows
<1>2. TiersMade /\ BatchesClosed
  BY <1>1 DEF Init, TiersMade, BatchesClosed, Idle
<1> QED
  BY <1>2 DEF Init, ListInv

LEMMA NextListInv == TypeOK /\ ListInv /\ [Next]_vars => ListInv'
<1> SUFFICES ASSUME TypeOK, ListInv, [Next]_vars PROVE ListInv'
  OBVIOUS
<1>a. /\ tip \in Nat /\ tip <= tip /\ Polls \subseteq Readers /\ Jobs \subseteq Readers
      /\ reader \in [Readers -> ReaderRecord] /\ Enrolled \subseteq creators
      /\ \A r \in Readers : reader[r].batch \subseteq Index
  BY ConstantsAssumption DEF TypeOK, Readers, ListInv, ReaderRecord
<1>b. Idle.batch = {}
  BY DEF Idle
<1>1. ASSUME UNCHANGED <<tip, tiers, delivered>>, creators \subseteq creators',
             \A r \in Readers : reader'[r].batch \subseteq reader[r].batch
      PROVE  ListInv'
  BY <1>a, <1>1, ListStands
<1>2. CASE CloseLedger
  <2>1. tip' = tip + 1 /\ UNCHANGED <<tiers, delivered, creators, reader>>
    BY <1>2 DEF CloseLedger
  <2> QED
    BY <1>a, <2>1, ListStands
<1>3. CASE BreakerTurns \/ (\E c \in Creators : RegisterCreator(c)) \/ UNCHANGED vars
  BY <1>1, <1>3 DEF BreakerTurns, RegisterCreator, vars
<1>4. CASE Crash
  <2>1. \A r \in Readers : reader'[r] = Idle
    BY <1>4 DEF Crash
  <2> QED
    BY <1>b, <1>1, <1>4, <2>1 DEF Crash, Tables
<1>5. ASSUME NEW q \in Polls, \/ PollTick(q) \/ PollCheckpoint(q) \/ PollLatest(q)
                              \/ PollStore(q) \/ PollAborts(q)
      PROVE  ListInv'
  <2>1. UNCHANGED <<tip, tiers, delivered, creators>>
    BY <1>5 DEF PollTick, PollCheckpoint, PollLatest, PollStore, PollAborts, Tables
  <2>2. \A r \in Readers : reader'[r].batch \subseteq reader[r].batch
    BY <1>a, <1>b, <1>5 DEF PollTick, PollCheckpoint, PollLatest, PollStore, PollAborts,
                            PollEnds, ReaderRecord
  <2> QED
    BY <1>1, <2>1, <2>2
<1>6. ASSUME NEW j \in Jobs, \/ StartReindex(j) \/ StartReplayHistory(j) \/ JobLocate(j)
                             \/ JobMislocates(j) \/ JobFails(j) \/ JobAdvance(j)
                             \/ JobCompletes(j)
      PROVE  ListInv'
  <2>1. UNCHANGED <<tip, tiers, delivered, creators>>
    BY <1>6 DEF StartReindex, StartReplayHistory, JobLocate, JobMislocates, Located,
                JobFails, JobAdvance, JobCompletes, JobEnds, Tables
  <2>2. \A r \in Readers \ {j} : reader'[r] = reader[r]
    BY <1>a, <1>6 DEF StartReindex, StartReplayHistory, JobLocate, JobMislocates, Located,
                      JobFails, JobAdvance, JobCompletes, JobEnds
  <2>3. CASE JobFails(j) \/ JobCompletes(j)
    <3>1. reader'[j].batch = {}
      BY <1>a, <1>b, <2>3 DEF JobFails, JobCompletes, JobEnds
    <3> QED
      BY <1>1, <2>1, <2>2, <3>1
  <2>4. CASE StartReindex(j) \/ JobLocate(j) \/ JobMislocates(j) \/ JobAdvance(j)
    <3>1. \E l : reader' = [reader EXCEPT ![j].pc = "fetch", ![j].at = l]
      BY <2>4 DEF StartReindex, JobLocate, JobMislocates, Located, JobAdvance
    <3>2. reader'[j].batch = reader[j].batch
      BY <1>a, <3>1 DEF ReaderRecord
    <3> QED
      BY <1>1, <2>1, <2>2, <3>2
  <2>5. CASE StartReplayHistory(j)
    <3>1. reader'[j].batch = reader[j].batch
      BY <1>a, <2>5 DEF StartReplayHistory, ReaderRecord
    <3> QED
      BY <1>1, <2>1, <2>2, <3>1
  <2> QED
    BY <1>6, <2>3, <2>4, <2>5
<1>7. ASSUME NEW r \in Readers, Fetch(r) \/ FetchFails(r) PROVE ListInv'
  <2>1. PICK b \in SUBSET Since(reader[r].at) : Receive(r, b)
    BY <1>7 DEF Fetch, FetchFails, Answer
  <2>2. UNCHANGED <<tip, tiers, delivered, creators>>
    BY <1>7 DEF Fetch, FetchFails, Tables
  <2>3. \A o \in Readers : reader'[o].batch = IF o = r THEN b ELSE reader[o].batch
    BY <1>a, <2>1 DEF Receive, ReaderRecord
  <2>4. BatchesClosed'
    BY <2>1, <2>2, <2>3 DEF ListInv, BatchesClosed, Since
  <2> QED
    BY <2>2, <2>4 DEF ListInv, TiersMade
<1>8. ASSUME NEW r \in Readers, Apply(r) PROVE ListInv'
  <2>1. PICK i \in Index : /\ Oldest(i, reader[r].batch) /\ Handle(Log[i]) /\ Take(r, i)
                           /\ delivered' = delivered \cup {i}
                           /\ UNCHANGED <<tip, creators>>
    BY <1>8 DEF Apply
  <2>2. \A o \in Readers : reader'[o].batch \subseteq reader[o].batch
    BY <1>a, <2>1 DEF Take, ReaderRecord
  <2>3. BatchesClosed'
    BY <2>1, <2>2 DEF ListInv, BatchesClosed
  <2>4. Log[i].ledger <= tip
    BY <2>1 DEF Oldest, ListInv, BatchesClosed
  <2>5. /\ Made(i) => tiers'[TierOf(i)] # "absent"
        /\ \A t \in Rows : tiers[t] # "absent" => tiers'[t] # "absent"
        /\ \A t \in Rows : tiers'[t] # "absent" =>
              tiers[t] # "absent" \/ (Made(i) /\ TierOf(i) = t)
    BY <1>a, <2>1, HandleLists
  <2>6. TiersMade'
    BY <2>1, <2>4, <2>5 DEF ListInv, TiersMade
  <2>7. \A k \in delivered' : Made(k) => tiers'[TierOf(k)] # "absent"
    BY <2>1, <2>5 DEF ListInv, Made
  <2> QED
    BY <1>a, <2>1, <2>3, <2>6, <2>7 DEF ListInv
<1>9. ASSUME NEW r \in Readers, ApplyFails(r) PROVE ListInv'
  <2>1. PICK i \in Index : Take(r, i)
    BY <1>9 DEF ApplyFails
  <2>2. \A o \in Readers : reader'[o].batch \subseteq reader[o].batch
    BY <1>a, <2>1 DEF Take, ReaderRecord
  <2> QED
    BY <1>1, <1>9, <2>2 DEF ApplyFails, Tables
<1> QED
  BY <1>a, <1>2, <1>3, <1>4, <1>5, <1>6, <1>7, <1>8, <1>9 DEF Next, UpNext, Poll, Job

\* Whatever jobs, restarts and failures there are: a tier that a signed-up creator made
\* behind the checkpoint is in the table unless that very event was lost, and every tier
\* in the table was made by its creator.  handleTierCreated and handleTierDeactivated
\* remove no row, so what a job can get wrong is whether a tier is active.
THEOREM SpecTiersListed == Spec => []TiersListed
<1>1. CoverInv /\ ListInv => TiersListed
  BY DEF CoverInv, CheckpointCovers, ListInv, TiersListed
<1>2. CoverInv /\ ListInv /\ [Next]_vars => ListInv'
  BY NextListInv DEF CoverInv, PollInv
<1> QED
  BY <1>1, <1>2, InitCoverInv, NextCoverInv, InitListInv, PTL DEF Spec
=============================================================================
