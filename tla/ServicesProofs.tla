-------------------------- MODULE ServicesProofs --------------------------
(***************************************************************************)
(* Proofs about the four services, for instances of any size: content      *)
(* schedules (nobody is notified twice, and who is entitled is notified    *)
(* unless a run failed after the claim), reports (how far the daily limit  *)
(* can be exceeded), the response cache (what explains a stale entry) and  *)
(* the deliveries of a sale (who is told of it).  Each service has an      *)
(* invariant of its own, which the steps of the others leave alone.        *)
(***************************************************************************)
EXTENDS Services, FiniteSetTheorems, SequenceTheorems, TLAPS

-----------------------------------------------------------------------------
(* Content schedules.  Neither property is inductive alone: what a run     *)
(* relies on between its queries is in GoodRuns; that no two runs have     *)
(* claimed one schedule, in Apart.                                         *)

Working == {"read", "notify"}

RunRecord == [pc : {"rest", "claim"} \cup Working, at : Nat,
              due : Seq(Schedules), holders : SUBSET Passes]

\* What a run may rely on.  Its batch is due.  The schedule that it has claimed is active
\* and nobody was notified of it; who is entitled had a valid pass when the run began,
\* and is among the holders once they were read.
GoodRuns == {x \in RunRecord :
    /\ x.pc = "rest" => x = Rest
    /\ x.pc # "rest" =>
          /\ x.due # <<>>
          /\ x.at <= clock
          /\ \A i \in 1..Len(x.due) : AvailableAt[x.due[i]] <= x.at
    /\ x.pc \in Working =>
          LET s == Head(x.due) IN
          /\ content[s] = "active"
          /\ \A p \in Passes : notices[s][p] = 0
          /\ \A p \in entitled[s] :
                pass[p] = "active" /\ PassTier[p] = TierOf[s] /\ PassUntil[p] > x.at
    /\ x.pc = "notify" => entitled[Head(x.due)] \subseteq x.holders}

ContentTyped ==
    /\ clock \in Nat
    /\ content \in [Schedules -> {"absent", "waiting", "active"}]
    /\ pass \in [Passes -> {"absent", "active", "inactive"}]
    /\ run \in [Runs -> GoodRuns]
    /\ notices \in [Schedules -> [Passes -> Nat]]
    /\ entitled \in [Schedules -> SUBSET Passes]

Works(r) == run[r].pc \in Working
Claimed(r) == Head(run[r].due)

Apart == \A q, r \in Runs : q # r /\ Works(q) /\ Works(r) => Claimed(q) # Claimed(r)

\* Nobody was notified of a schedule that is not active, and an active one is due.
ActiveGood ==
    \A s \in Schedules :
        /\ content[s] # "active" => \A p \in Passes : notices[s][p] = 0
        /\ content[s] = "active" => AvailableAt[s] <= clock

ContentInv == ContentTyped /\ Apart /\ ActiveGood /\ NotifiedOnce /\ HoldersTold

-----------------------------------------------------------------------------
(* Batches.                                                                *)

LEMMA HeadOfBatch ==
    ASSUME NEW x \in GoodRuns, x.pc # "rest"
    PROVE  /\ Head(x.due) \in Schedules /\ Head(x.due) = x.due[1]
           /\ AvailableAt[Head(x.due)] <= x.at /\ x.at <= clock
           /\ Tail(x.due) \in Seq(Schedules)
           /\ \A i \in 1..Len(Tail(x.due)) : AvailableAt[Tail(x.due)[i]] <= x.at
  <1>1. x.due \in Seq(Schedules) /\ x.due # <<>>
    BY DEF GoodRuns, RunRecord
  <1>2. Len(x.due) \in Nat /\ 1 \in 1..Len(x.due) /\ Head(x.due) = x.due[1]
    BY SMTT(30), <1>1
  <1>3. /\ Tail(x.due) \in Seq(Schedules)
        /\ \A i \in 1..Len(Tail(x.due)) : i + 1 \in 1..Len(x.due) /\ Tail(x.due)[i] = x.due[i + 1]
    BY SMTT(30), <1>1
  <1>4. QED BY SMTT(30), <1>1, <1>2, <1>3 DEF GoodRuns

\* What the query returns is a batch of schedules that are due, and not empty.
LEMMA BatchIsDue ==
    ASSUME Due # {}, NEW b \in Batches
    PROVE  b \in Seq(Due) /\ b # <<>>
  <1>1. IsFiniteSet(Due)
    BY ContentAssumption, FS_Subset DEF Due
  <1>2. Cardinality(Due) \in Nat /\ Cardinality(Due) # 0
    BY <1>1, FS_CardinalityType, FS_EmptySet
  <1>3. PICK n \in Nat \ {0} : b \in [1..n -> Due]
    BY <1>2, ContentAssumption DEF Batches
  <1>4. QED BY <1>3

\* Where the loop stands after the schedule at hand.
After(x) == IF Tail(x.due) = <<>> THEN Rest
            ELSE [x EXCEPT !.pc = "claim", !.due = Tail(x.due), !.holders = {}]

LEMMA RestIsGood == Rest \in GoodRuns /\ Rest.pc = "rest"
  BY DEF Rest, GoodRuns, RunRecord, Working

LEMMA AfterIsGood ==
    ASSUME NEW x \in GoodRuns, x.pc # "rest"
    PROVE  After(x) \in GoodRuns /\ After(x).pc \notin Working
  <1>1. CASE Tail(x.due) = <<>>
    BY <1>1, RestIsGood DEF After, Working
  <1>2. CASE Tail(x.due) # <<>>
    <2> DEFINE y == [x EXCEPT !.pc = "claim", !.due = Tail(x.due), !.holders = {}]
    <2>1. /\ y \in RunRecord /\ y.pc = "claim" /\ y.at = x.at /\ y.due = Tail(x.due)
      BY HeadOfBatch DEF GoodRuns, RunRecord
    <2>2. y \in GoodRuns
      BY <1>2, <2>1, HeadOfBatch DEF GoodRuns, Working
    <2>3. QED BY <1>2, <2>1, <2>2 DEF After, Working
  <1>3. QED BY <1>1, <1>2

\* A run that has claimed nothing relies on the clock alone.
LEMMA NotWorkingKept ==
    ASSUME clock \in Nat, clock' \in Nat, clock' >= clock,
           NEW x \in GoodRuns, x.pc \notin Working
    PROVE  x \in GoodRuns'
  <1>1. x.at \in Nat
    BY DEF GoodRuns, RunRecord
  <1>2. QED BY <1>1 DEF GoodRuns, Working

-----------------------------------------------------------------------------
(* The steps.                                                              *)

LEMMA RunMove ==
    ASSUME ContentTyped, NEW r \in Runs, NEW y \in GoodRuns',
           run' = [run EXCEPT ![r] = y],
           \A q \in Runs \ {r} : run[q] \in GoodRuns'
    PROVE  run' \in [Runs -> GoodRuns'] /\ run'[r] = y /\ \A q \in Runs \ {r} : run'[q] = run[q]
  BY DEF ContentTyped

LEMMA GoodRunsUntouched ==
    ASSUME UNCHANGED <<clock, content, pass, notices, entitled>>
    PROVE  GoodRuns' = GoodRuns
  BY DEF GoodRuns

\* A run leaves the schedule at hand: it had claimed none, or it has told all who are
\* entitled, or the schedule is counted as missed.
LEMMA LeaveStep ==
    ASSUME ContentInv, NEW r \in Runs, run[r].pc # "rest", NEW y \in GoodRuns,
           y.pc \notin Working,
           run' = [run EXCEPT ![r] = y],
           UNCHANGED <<clock, content, pass, notices, entitled>>,
           missed \subseteq missed',
           Works(r) => Claimed(r) \in missed' \/ entitled[Claimed(r)] = {}
    PROVE  ContentInv'
  <1>1. ContentTyped' /\ run'[r] = y /\ \A q \in Runs \ {r} : run'[q] = run[q]
    BY GoodRunsUntouched, RunMove DEF ContentInv, ContentTyped
  <1>2. Apart'
    BY <1>1 DEF ContentInv, Apart, Works, Claimed
  <1>3. ActiveGood' /\ NotifiedOnce'
    BY DEF ContentInv, ActiveGood, NotifiedOnce
  <1>4. HoldersTold'
    <2> SUFFICES ASSUME NEW s \in Schedules, s \notin missed', content[s] = "active",
                        \A q \in Runs : s \notin Unfinished(q)',
                        NEW p \in entitled[s], p \in Passes
                 PROVE  notices[s][p] = 1
      BY DEF HoldersTold, ContentInv, ContentTyped
    <2>1. \A q \in Runs \ {r} : s \notin Unfinished(q)
      BY <1>1 DEF Unfinished
    <2>2. s \notin Unfinished(r)
      BY DEF Unfinished, Works, Claimed, Working
    <2>3. QED BY <2>1, <2>2 DEF ContentInv, HoldersTold
  <1>5. QED BY <1>1, <1>2, <1>3, <1>4 DEF ContentInv

LEMMA OnwardIsAfter ==
    ASSUME ContentTyped, NEW r \in Runs, Onward(r)
    PROVE  run' = [run EXCEPT ![r] = After(run[r])]
  BY DEF ContentTyped, Onward, After

LEMMA FaultStep ==
    ASSUME ContentInv, NEW r \in Runs, QueryFailsInRun(r) \/ RunDies(r)
    PROVE  ContentInv'
  <1>1. run[r] \in GoodRuns /\ run[r].pc # "rest"
    BY DEF ContentInv, ContentTyped, QueryFailsInRun, RunDies, GoodRuns, RunRecord
  <1>2. /\ UNCHANGED <<clock, content, pass, notices, entitled>>
        /\ missed \subseteq missed'
        /\ Works(r) => Claimed(r) \in missed'
    BY DEF QueryFailsInRun, RunDies, Unfinished, Works, Working, Claimed
  <1>3. PICK y \in GoodRuns : y.pc \notin Working /\ run' = [run EXCEPT ![r] = y]
    BY <1>1, AfterIsGood, RestIsGood, OnwardIsAfter
       DEF QueryFailsInRun, RunDies, ContentInv, Working
  <1>4. QED BY <1>1, <1>2, <1>3, LeaveStep

LEMMA RunStartsStep ==
    ASSUME ContentInv, NEW r \in Runs, RunStarts(r)
    PROVE  ContentInv'
  <1>1. PICK b \in Batches :
           run' = [run EXCEPT ![r] = [Rest EXCEPT !.pc = "claim", !.at = clock, !.due = b]]
    BY DEF RunStarts
  <1> DEFINE y == [Rest EXCEPT !.pc = "claim", !.at = clock, !.due = b]
  <1>2. b \in Seq(Due) /\ b # <<>>
    BY BatchIsDue DEF RunStarts
  <1>3. b \in Seq(Schedules) /\ \A i \in 1..Len(b) : AvailableAt[b[i]] <= clock
    BY <1>2 DEF Due
  <1>4. /\ y.pc = "claim" /\ y.at = clock /\ y.due = b /\ y \in RunRecord
    BY <1>3 DEF Rest, RunRecord, ContentInv, ContentTyped
  <1> HIDE DEF y
  <1>5. y \in GoodRuns
    BY <1>2, <1>3, <1>4 DEF GoodRuns, Working, ContentInv, ContentTyped
  <1>6. UNCHANGED <<clock, content, pass, notices, entitled, missed>>
    BY DEF RunStarts
  <1>7. run' = [run EXCEPT ![r] = y] /\ y.pc \notin Working
    BY <1>1, <1>4 DEF y, Working
  <1>8. ContentTyped' /\ run'[r] = y /\ \A q \in Runs \ {r} : run'[q] = run[q]
    BY <1>5, <1>6, <1>7, GoodRunsUntouched, RunMove DEF ContentInv, ContentTyped
  <1>9. Apart'
    BY <1>7, <1>8 DEF ContentInv, Apart, Works, Claimed
  <1>10. ActiveGood' /\ NotifiedOnce'
    BY <1>6 DEF ContentInv, ActiveGood, NotifiedOnce
  <1>11. \A q \in Runs : Unfinished(q)' = Unfinished(q)
    <2>1. Unfinished(r)' = {} /\ Unfinished(r) = {}
      BY <1>7, <1>8 DEF Unfinished, Working, RunStarts, Rest
    <2>2. QED BY <1>8, <2>1 DEF Unfinished
  <1>12. HoldersTold'
    BY <1>6, <1>11 DEF ContentInv, HoldersTold
  <1>13. QED BY <1>8, <1>9, <1>10, <1>12 DEF ContentInv

LEMMA ClaimStep ==
    ASSUME ContentInv, NEW r \in Runs, Claim(r)
    PROVE  ContentInv'
  <1> DEFINE x == run[r]
             s == Head(x.due)
  <1>1. /\ x \in GoodRuns /\ x.pc = "claim" /\ s \in Schedules
        /\ AvailableAt[s] <= x.at /\ x.at <= clock /\ x.at \in Nat /\ AvailableAt[s] \in Nat
    BY HeadOfBatch, ContentAssumption
       DEF Claim, ContentInv, ContentTyped, GoodRuns, RunRecord
  <1>2. CASE content[s] = "active"
    <2>1. UNCHANGED <<clock, content, pass, notices, entitled, missed>>
      BY <1>2 DEF Claim
    <2>2. After(x) \in GoodRuns /\ After(x).pc \notin Working
      BY <1>1, AfterIsGood
    <2>3. run' = [run EXCEPT ![r] = After(x)]
      BY <1>2, OnwardIsAfter DEF Claim, ContentInv
    <2>4. ~Works(r)
      BY <1>1 DEF Works, Working
    <2>5. QED BY <1>1, <2>1, <2>2, <2>3, <2>4, LeaveStep
  <1>3. CASE content[s] # "active"
    <2> DEFINE y == [x EXCEPT !.pc = "read"]
    <2>1. /\ content' = [content EXCEPT ![s] = "active"]
          /\ run' = [run EXCEPT ![r] = y]
          /\ entitled' = [entitled EXCEPT ![s] = {p \in Passes : ValidAt(p, s, clock)}]
          /\ UNCHANGED <<clock, pass, notices, missed>>
      BY <1>3 DEF Claim, ContentInv, ContentTyped
    <2>2. /\ content' \in [Schedules -> {"absent", "waiting", "active"}]
          /\ entitled' \in [Schedules -> SUBSET Passes]
          /\ content'[s] = "active" /\ entitled'[s] = {p \in Passes : ValidAt(p, s, clock)}
          /\ \A t \in Schedules \ {s} : content'[t] = content[t] /\ entitled'[t] = entitled[t]
      BY <1>1, <2>1 DEF ContentInv, ContentTyped
    <2>3. /\ y \in RunRecord /\ y.pc = "read" /\ y.at = x.at /\ y.due = x.due
      BY <1>1 DEF GoodRuns, RunRecord, Working
    <2> HIDE DEF y
    <2>4. \A p \in Passes : notices[s][p] = 0
      BY <1>1, <1>3 DEF ContentInv, ActiveGood
    <2>5. \A p \in entitled'[s] :
             pass[p] = "active" /\ PassTier[p] = TierOf[s] /\ PassUntil[p] > x.at
      <3> SUFFICES ASSUME NEW p \in Passes, ValidAt(p, s, clock) PROVE PassUntil[p] > x.at
        BY <2>2 DEF ValidAt
      <3>1. PassUntil[p] \in Nat /\ PassUntil[p] > clock /\ clock \in Nat
        BY ContentAssumption DEF ValidAt, ContentInv, ContentTyped
      <3>2. QED BY <1>1, <3>1
    <2>6. y \in GoodRuns'
      BY <1>1, <2>1, <2>2, <2>3, <2>4, <2>5 DEF GoodRuns, Working
    <2>7. ASSUME NEW q \in Runs PROVE Works(q) => Claimed(q) # s /\ Claimed(q) \in Schedules
      <3>1. run[q] \in GoodRuns
        BY DEF ContentInv, ContentTyped
      <3>2. QED BY <1>3, <3>1, HeadOfBatch DEF GoodRuns, Works, Claimed, Working
    <2>8. ASSUME NEW q \in Runs \ {r} PROVE run[q] \in GoodRuns'
      <3>1. run[q] \in GoodRuns
        BY DEF ContentInv, ContentTyped
      <3>2. run[q].pc \in Working =>
               Head(run[q].due) \in Schedules \ {s}
        BY <2>7 DEF Works, Claimed
      <3>3. QED BY <2>1, <2>2, <3>1, <3>2 DEF GoodRuns, Working
    <2>9. run' \in [Runs -> GoodRuns'] /\ run'[r] = y /\ \A q \in Runs \ {r} : run'[q] = run[q]
      BY <2>1, <2>6, <2>8, RunMove DEF ContentInv
    <2>10. ContentTyped'
      BY <2>1, <2>2, <2>9 DEF ContentInv, ContentTyped
    <2>11. Apart'
      <3>1. Claimed(r)' = s
        BY <2>3, <2>9 DEF Claimed
      <3>2. \A q \in Runs \ {r} : Works(q)' = Works(q) /\ Claimed(q)' = Claimed(q)
        BY <2>9 DEF Works, Claimed
      <3>3. QED BY <2>7, <3>1, <3>2 DEF ContentInv, Apart
    <2>12. ActiveGood' /\ NotifiedOnce'
      <3>1. AvailableAt[s] <= clock
        BY <1>1 DEF ContentInv, ContentTyped
      <3>2. QED BY <2>1, <2>2, <2>4, <3>1 DEF ContentInv, ActiveGood, NotifiedOnce
    <2>13. HoldersTold'
      <3> SUFFICES ASSUME NEW t \in Schedules \ missed, content'[t] = "active",
                          \A q \in Runs : t \notin Unfinished(q)',
                          NEW p \in entitled'[t]
                   PROVE  notices[t][p] = 1
        BY <2>1 DEF HoldersTold
      <3>1. t # s
        <4>1. s \in Unfinished(r)'
          BY <2>3, <2>9 DEF Unfinished
        <4>2. QED BY <4>1
      <3>2. \A q \in Runs : t \notin Unfinished(q)
        BY <1>1, <2>9 DEF Unfinished
      <3>3. QED BY <2>2, <3>1, <3>2 DEF ContentInv, HoldersTold
    <2>14. QED BY <2>10, <2>11, <2>12, <2>13 DEF ContentInv
  <1>4. QED BY <1>2, <1>3

LEMMA ReadHoldersStep ==
    ASSUME ContentInv, NEW r \in Runs, ReadHolders(r)
    PROVE  ContentInv'
  <1> DEFINE x == run[r]
             s == Head(x.due)
  <1>1. /\ x \in GoodRuns /\ x.pc = "read" /\ s \in Schedules /\ Works(r) /\ Claimed(r) = s
        /\ UNCHANGED <<clock, content, pass, notices, entitled, missed>>
    BY HeadOfBatch DEF ReadHolders, ContentInv, ContentTyped, Works, Working, Claimed
  <1>2. entitled[s] \subseteq Holders(r)
    BY <1>1 DEF GoodRuns, Holders, ValidAt, Working, ContentInv, ContentTyped
  <1>3. CASE Holders(r) = {}
    <2>1. After(x) \in GoodRuns /\ After(x).pc \notin Working
      BY <1>1, AfterIsGood
    <2>2. run' = [run EXCEPT ![r] = After(x)]
      BY <1>3, OnwardIsAfter DEF ReadHolders, ContentInv
    <2>3. entitled[Claimed(r)] = {}
      BY <1>1, <1>2, <1>3
    <2>4. QED BY <1>1, <2>1, <2>2, <2>3, LeaveStep
  <1>4. CASE Holders(r) # {}
    <2> DEFINE y == [x EXCEPT !.pc = "notify", !.holders = Holders(r)]
    <2>1. run' = [run EXCEPT ![r] = y]
      BY <1>4 DEF ReadHolders, ContentInv, ContentTyped
    <2>2. /\ y \in RunRecord /\ y.pc = "notify" /\ y.at = x.at /\ y.due = x.due
          /\ y.holders = Holders(r)
      BY <1>1 DEF GoodRuns, RunRecord, Working, Holders
    <2> HIDE DEF y
    <2>3. y \in GoodRuns
      BY <1>1, <1>2, <2>2 DEF GoodRuns, Working
    <2>4. ContentTyped' /\ run'[r] = y /\ \A q \in Runs \ {r} : run'[q] = run[q]
      BY <1>1, <2>1, <2>3, GoodRunsUntouched, RunMove DEF ContentInv, ContentTyped
    <2>5. \A q \in Runs : /\ Works(q)' = Works(q)
                          /\ Claimed(q)' = Claimed(q)
                          /\ Unfinished(q)' = Unfinished(q)
      BY <1>1, <2>2, <2>4 DEF Works, Working, Claimed, Unfinished
    <2>6. QED BY <1>1, <2>4, <2>5
              DEF ContentInv, Apart, ActiveGood, NotifiedOnce, HoldersTold
  <1>5. QED BY <1>3, <1>4

LEMMA NotifyStep ==
    ASSUME ContentInv, NEW r \in Runs, Notify(r)
    PROVE  ContentInv'
  <1> DEFINE x == run[r]
             s == Head(x.due)
  <1>1. /\ x \in GoodRuns /\ x.pc = "notify" /\ s \in Schedules /\ Works(r) /\ Claimed(r) = s
        /\ UNCHANGED <<clock, content, pass, entitled, missed>>
    BY HeadOfBatch DEF Notify, ContentInv, ContentTyped, Works, Working, Claimed
  <1>2. /\ content[s] = "active" /\ entitled[s] \subseteq x.holders
        /\ \A p \in Passes : notices[s][p] = 0
    BY <1>1 DEF GoodRuns, Working
  <1>3. /\ notices' \in [Schedules -> [Passes -> Nat]]
        /\ \A t \in Schedules \ {s} : notices'[t] = notices[t]
        /\ \A p \in Passes : notices'[s][p] = IF p \in x.holders THEN 1 ELSE 0
    <2>1. \A p \in Passes : p \in x.holders => notices[s][p] + 1 = 1
      BY <1>2
    <2>2. QED BY <1>1, <1>2, <2>1 DEF Notify, ContentInv, ContentTyped
  <1>4. After(x) \in GoodRuns /\ After(x).pc \notin Working
    BY <1>1, AfterIsGood
  <1>5. run' = [run EXCEPT ![r] = After(x)]
    BY OnwardIsAfter DEF Notify, ContentInv
  <1>6. After(x) \in GoodRuns'
    BY <1>1, <1>4, NotWorkingKept DEF ContentInv, ContentTyped
  <1>7. ASSUME NEW q \in Runs \ {r} PROVE run[q] \in GoodRuns'
    <2>1. run[q] \in GoodRuns /\ (Works(q) => Claimed(q) # s /\ Claimed(q) \in Schedules)
      <3>1. run[q] \in GoodRuns
        BY DEF ContentInv, ContentTyped
      <3>2. QED BY SMTT(30), <1>1, <3>1, HeadOfBatch DEF ContentInv, Apart, Works, Claimed, Working
    <2>2. QED BY SMTT(30), ZenonT(30), <1>1, <1>3, <2>1 DEF GoodRuns, Works, Claimed
  <1>8. run' \in [Runs -> GoodRuns'] /\ run'[r] = After(x) /\ \A q \in Runs \ {r} : run'[q] = run[q]
    BY <1>5, <1>6, <1>7, RunMove DEF ContentInv
  <1>9. ContentTyped'
    BY <1>1, <1>3, <1>8 DEF ContentInv, ContentTyped
  <1>10. Apart'
    BY <1>4, <1>8 DEF ContentInv, Apart, Works, Claimed
  <1>11. ActiveGood' /\ NotifiedOnce'
    BY <1>1, <1>2, <1>3 DEF ContentInv, ActiveGood, NotifiedOnce
  <1>12. HoldersTold'
    <2> SUFFICES ASSUME NEW t \in Schedules \ missed, content[t] = "active",
                        \A q \in Runs : t \notin Unfinished(q)',
                        NEW p \in entitled[t]
                 PROVE  notices'[t][p] = 1
      BY <1>1 DEF HoldersTold
    <2>1. p \in Passes
      BY DEF ContentInv, ContentTyped
    <2>2. CASE t = s
      BY <1>2, <1>3, <2>1, <2>2
    <2>3. CASE t # s
      <3>1. \A q \in Runs : t \notin Unfinished(q)
        BY <1>1, <1>8, <2>3 DEF Unfinished
      <3>2. QED BY <1>3, <2>3, <3>1 DEF ContentInv, HoldersTold
    <2>4. QED BY <2>2, <2>3
  <1>13. QED BY <1>9, <1>10, <1>11, <1>12 DEF ContentInv

\* Creators, fans, the cron and the clock.
LEMMA SurroundingsStep ==
    ASSUME ContentInv,
           \/ \E s \in Schedules : CreateContentSchedule(s)
           \/ \E p \in Passes : BuyPass(p) \/ RevokePass(p)
           \/ ClockTicks
    PROVE  ContentInv'
  <1>1. UNCHANGED <<run, notices, missed>>
    BY DEF CreateContentSchedule, BuyPass, RevokePass, ClockTicks
  <1>2. /\ clock \in Nat /\ clock' \in Nat /\ clock' >= clock
        /\ content' \in [Schedules -> {"absent", "waiting", "active"}]
        /\ \A s \in Schedules : (content'[s] = "active") <=> (content[s] = "active")
        /\ pass' \in [Passes -> {"absent", "active", "inactive"}]
        /\ entitled' \in [Schedules -> SUBSET Passes]
        /\ \A s \in Schedules : entitled'[s] \subseteq entitled[s]
        /\ \A s \in Schedules : \A p \in entitled'[s] : pass[p] = "active" => pass'[p] = "active"
    <2>1. CASE \E s \in Schedules : CreateContentSchedule(s)
      BY <2>1 DEF CreateContentSchedule, ContentInv, ContentTyped
    <2>2. CASE \E p \in Passes : BuyPass(p)
      BY <2>2 DEF BuyPass, ContentInv, ContentTyped
    <2>3. CASE \E p \in Passes : RevokePass(p)
      BY <2>3 DEF RevokePass, ContentInv, ContentTyped
    <2>4. CASE ClockTicks
      BY <2>4 DEF ClockTicks, ContentInv, ContentTyped
    <2>5. QED BY <2>1, <2>2, <2>3, <2>4
  <1>3. ASSUME NEW r \in Runs PROVE run[r] \in GoodRuns'
    <2> DEFINE x == run[r]
    <2>1. x \in GoodRuns
      BY DEF ContentInv, ContentTyped
    <2>2. x.pc # "rest" => x.at <= clock'
      <3>1. x.at \in Nat
        BY <2>1 DEF GoodRuns, RunRecord
      <3>2. QED BY <1>2, <2>1, <3>1 DEF GoodRuns
    <2>3. x.pc \in Working => Head(x.due) \in Schedules
      BY <2>1, HeadOfBatch DEF Working
    <2>4. ASSUME x.pc \in Working, NEW s \in Schedules, s = Head(x.due)
          PROVE  /\ content'[s] = "active"
                 /\ \A p \in Passes : notices'[s][p] = 0
                 /\ \A p \in entitled'[s] :
                       pass'[p] = "active" /\ PassTier[p] = TierOf[s] /\ PassUntil[p] > x.at
                 /\ x.pc = "notify" => entitled'[s] \subseteq x.holders
      <3>1. /\ content[s] = "active"
            /\ \A p \in Passes : notices[s][p] = 0
            /\ \A p \in entitled[s] :
                  pass[p] = "active" /\ PassTier[p] = TierOf[s] /\ PassUntil[p] > x.at
            /\ x.pc = "notify" => entitled[s] \subseteq x.holders
        BY <2>1, <2>4 DEF GoodRuns
      <3>2. QED BY <1>1, <1>2, <3>1
    <2>5. QED BY <2>1, <2>2, <2>3, <2>4 DEF GoodRuns, Working
  <1>4. ContentTyped'
    BY <1>1, <1>2, <1>3 DEF ContentInv, ContentTyped
  <1>5. Apart' /\ HoldersTold'
    BY <1>1, <1>2 DEF ContentInv, Apart, HoldersTold, Works, Claimed, Unfinished
  <1>6. ActiveGood' /\ NotifiedOnce'
    <2>1. ASSUME NEW s \in Schedules PROVE AvailableAt[s] <= clock => AvailableAt[s] <= clock'
      BY <1>2, ContentAssumption
    <2>2. QED BY <1>1, <1>2, <2>1 DEF ContentInv, ActiveGood, NotifiedOnce
  <1>7. QED BY <1>4, <1>5, <1>6 DEF ContentInv

-----------------------------------------------------------------------------
(* The theorems.                                                           *)

LEMMA InitContentInv == Init => ContentInv
  BY RestIsGood DEF Init, ContentInit, ContentInv, ContentTyped, Apart, ActiveGood,
                    NotifiedOnce, HoldersTold, Works, Working, Rest

LEMMA NextContentInv == ContentInv /\ [Next]_vars => ContentInv'
  <1> SUFFICES ASSUME ContentInv, [Next]_vars PROVE ContentInv'
    OBVIOUS
  <1>1. CASE ContentNext
    BY <1>1, RunStartsStep, ClaimStep, ReadHoldersStep, NotifyStep, FaultStep, SurroundingsStep
       DEF ContentNext, RunStep
  <1>2. CASE UNCHANGED contentVars
    BY <1>2, GoodRunsUntouched
       DEF contentVars, ContentInv, ContentTyped, Apart, ActiveGood, NotifiedOnce, HoldersTold,
           Works, Claimed, Unfinished
  <1>3. QED BY <1>1, <1>2 DEF Next, vars

LEMMA ContentInvariance == Spec => []ContentInv
  BY InitContentInv, NextContentInv, PTL DEF Spec

\* However many runs overlap, fail and die, nobody is notified twice of one schedule, nor
\* before it is active and due: the claim is one statement, and one run's.
THEOREM SpecNotifiedOnce == Spec => []NotifiedOnce
  <1>1. ContentInv => NotifiedOnce
    BY DEF ContentInv
  <1>2. QED BY <1>1, ContentInvariance, PTL

\* A pass that was valid when its schedule was activated, and was not withdrawn since, is
\* notified by the time no run works on the schedule, unless a run failed after the claim.
THEOREM SpecHoldersTold == Spec => []HoldersTold
  <1>1. ContentInv => HoldersTold
    BY DEF ContentInv
  <1>2. QED BY <1>1, ContentInvariance, PTL

-----------------------------------------------------------------------------
(* Reports.                                                                *)

ReportsTyped ==
    /\ day \in 0..MaxDay
    /\ filed \in [Reporters -> [0..MaxDay -> Nat]]
    /\ filing \in [Filers -> Reporters \cup {Nobody}]
    /\ peak \in [Reporters -> Nat]

\* Nothing is filed ahead of time; peak has seen what is in flight; and the reports of
\* the day with those in flight, each of which was counted as one too few, do not exceed
\* what the limit and the peak allow.
CountsGood ==
    \A u \in Reporters :
        /\ InFlight(u) <= peak[u]
        /\ \A d \in 0..MaxDay : d > day => filed[u][d] = 0
        /\ InFlight(u) > 0 => filed[u][day] + InFlight(u) <= DailyLimit - 1 + peak[u]

ReportsInv == ReportsTyped /\ CountsGood /\ LimitOvershoot

-----------------------------------------------------------------------------
LEMMA InFlightIsCount ==
    ASSUME ReportsTyped, NEW u \in Reporters
    PROVE  /\ InFlight(u) \in Nat
           /\ IsFiniteSet({x \in Filers : filing[x] = u})
           /\ InFlight(u) > 0 <=> \E x \in Filers : filing[x] = u
  <1> DEFINE S == {x \in Filers : filing[x] = u}
  <1>1. IsFiniteSet(S)
    BY FS_Subset, ReportsAssumption
  <1>2. Cardinality(S) \in Nat /\ (Cardinality(S) = 0 <=> S = {})
    BY <1>1, FS_CardinalityType, FS_EmptySet
  <1>3. QED BY <1>1, <1>2 DEF InFlight

\* A slot that is taken raises the count of its reporter.
LEMMA Taken ==
    ASSUME ReportsTyped, NEW x \in Filers, NEW u \in Reporters, filing[x] = Nobody,
           filing' = [filing EXCEPT ![x] = u]
    PROVE  /\ InFlight(u)' = InFlight(u) + 1
           /\ \A v \in Reporters \ {u} : InFlight(v)' = InFlight(v)
  <1>1. {y \in Filers : filing'[y] = u} = {y \in Filers : filing[y] = u} \cup {x}
    BY DEF ReportsTyped
  <1>2. x \notin {y \in Filers : filing[y] = u}
    BY ReportsAssumption
  <1>3. \A v \in Reporters \ {u} :
           {y \in Filers : filing'[y] = v} = {y \in Filers : filing[y] = v}
    BY ReportsAssumption DEF ReportsTyped
  <1>4. QED BY <1>1, <1>2, <1>3, InFlightIsCount, FS_AddElement DEF InFlight

\* A slot that is freed lowers it.
LEMMA Freed ==
    ASSUME ReportsTyped, NEW x \in Filers, NEW u \in Reporters, filing[x] = u,
           filing' = [filing EXCEPT ![x] = Nobody]
    PROVE  /\ InFlight(u) > 0
           /\ InFlight(u)' = InFlight(u) - 1
           /\ \A v \in Reporters \ {u} : InFlight(v)' = InFlight(v)
  <1>1. {y \in Filers : filing'[y] = u} = {y \in Filers : filing[y] = u} \ {x}
    BY ReportsAssumption DEF ReportsTyped
  <1>2. x \in {y \in Filers : filing[y] = u}
    OBVIOUS
  <1>3. \A v \in Reporters \ {u} :
           {y \in Filers : filing'[y] = v} = {y \in Filers : filing[y] = v}
    BY ReportsAssumption DEF ReportsTyped
  <1>4. QED BY <1>1, <1>2, <1>3, InFlightIsCount, FS_RemoveElement DEF InFlight

LEMMA InFlightUntouched ==
    ASSUME UNCHANGED filing, NEW u
    PROVE  InFlight(u)' = InFlight(u)
  BY DEF InFlight

-----------------------------------------------------------------------------
LEMMA CountReportsStep ==
    ASSUME ReportsInv, NEW x \in Filers, NEW u \in Reporters, CountReports(x, u)
    PROVE  ReportsInv'
  <1>1. /\ InFlight(u)' = InFlight(u) + 1 /\ InFlight(u) \in Nat
        /\ \A v \in Reporters \ {u} : InFlight(v)' = InFlight(v)
    BY Taken, InFlightIsCount DEF ReportsInv, CountReports
  <1>2. ReportsTyped'
    BY <1>1 DEF ReportsInv, ReportsTyped, CountReports
  <1>3. /\ \A v \in Reporters \ {u} : peak'[v] = peak[v]
        /\ peak'[u] >= InFlight(u) + 1 /\ peak'[u] >= peak[u]
        /\ peak'[u] \in Nat /\ peak[u] \in Nat
    BY <1>1 DEF ReportsInv, ReportsTyped, CountReports
  <1>4. filed[u][day] \in Nat /\ filed[u][day] <= DailyLimit - 1
    BY ReportsAssumption DEF ReportsInv, ReportsTyped, CountReports, CountToday
  <1>5. filed[u][day] + InFlight(u)' <= DailyLimit - 1 + peak'[u]
    BY <1>1, <1>3, <1>4, ReportsAssumption
  <1>6. CountsGood'
    BY <1>1, <1>3, <1>5 DEF ReportsInv, CountsGood, CountReports
  <1>7. LimitOvershoot'
    <2> SUFFICES ASSUME NEW v \in Reporters, NEW d \in 0..MaxDay, filed[v][d] > 0
                 PROVE  filed[v][d] <= DailyLimit - 1 + peak'[v]
      BY DEF LimitOvershoot, CountReports
    <2>1. filed[v][d] <= DailyLimit - 1 + peak[v] /\ filed[v][d] \in Nat
      BY DEF ReportsInv, LimitOvershoot, ReportsTyped
    <2>2. peak'[v] >= peak[v] /\ peak'[v] \in Nat /\ peak[v] \in Nat
      BY <1>3 DEF ReportsInv, ReportsTyped
    <2>3. QED BY <2>1, <2>2, ReportsAssumption
  <1>8. QED BY <1>2, <1>6, <1>7 DEF ReportsInv

LEMMA ReportRefusedStep ==
    ASSUME ReportsInv, NEW x \in Filers, ReportRefused(x)
    PROVE  ReportsInv'
  <1>1. PICK u \in Reporters : filing[x] = u
    BY DEF ReportsInv, ReportsTyped, ReportRefused
  <1>2. /\ InFlight(u)' = InFlight(u) - 1
        /\ \A v \in Reporters \ {u} : InFlight(v)' = InFlight(v)
        /\ \A v \in Reporters : InFlight(v) \in Nat
    BY <1>1, Freed, InFlightIsCount DEF ReportsInv, ReportRefused
  <1>3. ReportsTyped' /\ LimitOvershoot'
    BY DEF ReportsInv, ReportsTyped, LimitOvershoot, ReportRefused
  <1>4. ASSUME NEW v \in Reporters
        PROVE  /\ InFlight(v)' <= peak[v]
               /\ InFlight(v)' > 0 => filed[v][day] + InFlight(v)' <= DailyLimit - 1 + peak[v]
    <2>1. /\ InFlight(v) <= peak[v] /\ peak[v] \in Nat /\ filed[v][day] \in Nat
          /\ InFlight(v) > 0 => filed[v][day] + InFlight(v) <= DailyLimit - 1 + peak[v]
      BY DEF ReportsInv, ReportsTyped, CountsGood
    <2>2. InFlight(v) \in Nat /\ (InFlight(v)' = InFlight(v) \/ InFlight(v)' = InFlight(v) - 1)
      BY <1>2
    <2>3. QED BY <2>1, <2>2, ReportsAssumption
  <1>5. CountsGood'
    BY <1>4 DEF ReportsInv, CountsGood, ReportRefused
  <1>6. QED BY <1>3, <1>5 DEF ReportsInv

LEMMA CreateReportStep ==
    ASSUME ReportsInv, NEW x \in Filers, CreateReport(x)
    PROVE  ReportsInv'
  <1>1. PICK u \in Reporters : filing[x] = u
    BY DEF ReportsInv, ReportsTyped, CreateReport
  <1>2. /\ InFlight(u) > 0 /\ InFlight(u)' = InFlight(u) - 1
        /\ \A v \in Reporters \ {u} : InFlight(v)' = InFlight(v)
        /\ \A v \in Reporters : InFlight(v) \in Nat
    BY <1>1, Freed, InFlightIsCount DEF ReportsInv, CreateReport
  <1>3. /\ filed[u][day] \in Nat /\ filed'[u][day] = filed[u][day] + 1
        /\ \A d \in 0..MaxDay : d # day => filed'[u][d] = filed[u][d]
        /\ \A v \in Reporters \ {u} : filed'[v] = filed[v]
        /\ UNCHANGED <<day, peak>>
    BY <1>1 DEF ReportsInv, ReportsTyped, CreateReport
  <1>4. ReportsTyped'
    BY <1>1, <1>3 DEF ReportsInv, ReportsTyped, CreateReport
  <1>5. /\ filed[u][day] + InFlight(u) <= DailyLimit - 1 + peak[u]
        /\ peak[u] \in Nat /\ InFlight(u) <= peak[u]
    BY <1>2 DEF ReportsInv, ReportsTyped, CountsGood
  <1>6. /\ filed'[u][day] + InFlight(u)' <= DailyLimit - 1 + peak[u]
        /\ filed'[u][day] <= DailyLimit - 1 + peak[u]
        /\ InFlight(u)' <= peak[u]
    BY <1>2, <1>3, <1>5, ReportsAssumption
  <1>7. CountsGood'
    <2>1. ASSUME NEW d \in 0..MaxDay, d > day PROVE d # day
      BY <2>1 DEF ReportsInv, ReportsTyped
    <2>2. QED BY <1>2, <1>3, <1>6, <2>1 DEF ReportsInv, CountsGood
  <1>8. LimitOvershoot'
    BY <1>3, <1>6 DEF ReportsInv, LimitOvershoot
  <1>9. QED BY <1>4, <1>7, <1>8 DEF ReportsInv

LEMMA MidnightStep ==
    ASSUME ReportsInv, Midnight
    PROVE  ReportsInv'
  <1>1. day \in Nat /\ day' = day + 1 /\ day' \in 0..MaxDay /\ day' > day
    BY ReportsAssumption DEF ReportsInv, ReportsTyped, Midnight
  <1>2. ReportsTyped' /\ LimitOvershoot'
    BY <1>1 DEF ReportsInv, ReportsTyped, LimitOvershoot, Midnight
  <1>3. ASSUME NEW u \in Reporters
        PROVE  /\ filed[u][day'] = 0
               /\ InFlight(u) <= peak[u] /\ InFlight(u) \in Nat /\ peak[u] \in Nat
    BY <1>1, InFlightIsCount DEF ReportsInv, ReportsTyped, CountsGood
  <1>4. ASSUME NEW u \in Reporters
        PROVE  filed[u][day'] + InFlight(u) <= DailyLimit - 1 + peak[u]
    BY <1>3, ReportsAssumption
  <1>5. \A u \in Reporters : InFlight(u)' = InFlight(u)
    BY InFlightUntouched DEF Midnight
  <1>6. \A d \in 0..MaxDay : d > day' => d > day
    BY <1>1
  <1>7. UNCHANGED <<filed, peak>>
    BY DEF Midnight
  <1>8. \A u \in Reporters : \A d \in 0..MaxDay : d > day => filed[u][d] = 0
    BY DEF ReportsInv, CountsGood
  <1>9. CountsGood'
    BY <1>3, <1>4, <1>5, <1>6, <1>7, <1>8 DEF CountsGood
  <1>10. QED BY <1>2, <1>9 DEF ReportsInv

LEMMA ReportsUntouched ==
    ASSUME ReportsInv, UNCHANGED <<day, filed, filing, peak>>
    PROVE  ReportsInv'
  <1>1. \A u \in Reporters : InFlight(u)' = InFlight(u)
    BY InFlightUntouched
  <1>2. QED BY <1>1 DEF ReportsInv, ReportsTyped, CountsGood, LimitOvershoot

-----------------------------------------------------------------------------
LEMMA InitReportsInv == Init => ReportsInv
  <1> SUFFICES ASSUME ReportsInit PROVE ReportsInv
    BY DEF Init
  <1>1. ReportsTyped
    BY ReportsAssumption DEF ReportsInit, ReportsTyped
  <1>2. \A u \in Reporters : InFlight(u) = 0
    <2> TAKE u \in Reporters
    <2>1. ~\E x \in Filers : filing[x] = u
      BY ReportsAssumption DEF ReportsInit
    <2>2. InFlight(u) \in Nat /\ ~(InFlight(u) > 0)
      BY <1>1, <2>1, InFlightIsCount
    <2>3. QED BY <2>2
  <1>3. CountsGood /\ LimitOvershoot
    BY <1>2 DEF ReportsInit, CountsGood, LimitOvershoot
  <1>4. QED BY <1>1, <1>3 DEF ReportsInv

LEMMA NextReportsInv == ReportsInv /\ [Next]_vars => ReportsInv'
  <1> SUFFICES ASSUME ReportsInv, [Next]_vars PROVE ReportsInv'
    OBVIOUS
  <1>1. CASE ReportsNext
    <2>1. CASE \E u \in Reporters, d \in 0..MaxDay : UpdateStatus(u, d)
      BY <2>1, ReportsUntouched DEF UpdateStatus
    <2>2. QED BY <1>1, <2>1, CountReportsStep, ReportRefusedStep, CreateReportStep, MidnightStep
              DEF ReportsNext
  <1>2. CASE UNCHANGED reportVars
    BY <1>2, ReportsUntouched DEF reportVars
  <1>3. QED BY <1>1, <1>2 DEF Next, vars

\* However many requests of however many users overlap, midnight among them, a reporter
\* exceeds the daily limit by no more than the requests it had in flight beside the first.
THEOREM SpecLimitOvershoot == Spec => []LimitOvershoot
  <1>1. ReportsInv => LimitOvershoot
    BY DEF ReportsInv
  <1>2. QED BY <1>1, InitReportsInv, NextReportsInv, PTL DEF Spec

-----------------------------------------------------------------------------
(* The response cache.                                                     *)

Entries == [val : 0..MaxVersion, until : Nat]

CacheTyped ==
    /\ tick \in Nat
    /\ row \in 0..MaxVersion
    /\ entry \in Entries \cup {Empty}
    /\ get \in [Readers -> [pc : {"none", "read", "fill"}, val : 0..MaxVersion]]
    /\ edit \in [Editors -> BOOLEAN]
    /\ current \in [0..MaxVersion -> Nat]

\* The row's version is current now, and what a request in flight has read was so at this
\* tick; an entry's version was current when its life began.
WhenCurrent ==
    /\ \A v \in 0..MaxVersion : current[v] <= tick
    /\ current[row] = tick
    /\ \A r \in Readers : get[r].pc = "fill" => current[get[r].val] = tick
    /\ entry # Empty => entry.until <= current[entry.val] + Ttl

Explained ==
    entry # Empty /\ entry.val # row => excused \/ \E e \in Editors : edit[e]

CacheInv == CacheTyped /\ WhenCurrent /\ Explained

LEMMA ReaderMove ==
    ASSUME CacheInv, NEW r \in Readers,
           NEW x \in [pc : {"none", "read", "fill"}, val : 0..MaxVersion],
           x.pc = "fill" => current[x.val] = tick,
           get' = [get EXCEPT ![r] = x],
           UNCHANGED <<tick, row, edit, current>>
    PROVE  /\ get' \in [Readers -> [pc : {"none", "read", "fill"}, val : 0..MaxVersion]]
           /\ \A q \in Readers : get'[q].pc = "fill" => current'[get'[q].val] = tick'
  BY DEF CacheInv, CacheTyped, WhenCurrent

LEMMA ReadStep ==
    ASSUME CacheInv, NEW r \in Readers, Miss(r) \/ ReadRow(r) \/ FillFails(r)
    PROVE  CacheInv'
  <1>1. PICK x \in [pc : {"none", "read", "fill"}, val : 0..MaxVersion] :
           /\ x.pc = "fill" => current[x.val] = tick
           /\ get' = [get EXCEPT ![r] = x]
    <2>1. CASE Miss(r)
      <3>1. [get[r] EXCEPT !.pc = "read"] \in [pc : {"none", "read", "fill"}, val : 0..MaxVersion]
        BY DEF CacheInv, CacheTyped
      <3>2. [get[r] EXCEPT !.pc = "read"].pc = "read"
        BY DEF CacheInv, CacheTyped
      <3>3. QED BY <2>1, <3>1, <3>2 DEF Miss
    <2>2. CASE ReadRow(r)
      <3>1. [pc |-> "fill", val |-> row] \in [pc : {"none", "read", "fill"}, val : 0..MaxVersion]
        BY DEF CacheInv, CacheTyped
      <3>2. QED BY <2>2, <3>1 DEF ReadRow, CacheInv, WhenCurrent
    <2>3. CASE FillFails(r)
      <3>1. /\ Waiting \in [pc : {"none", "read", "fill"}, val : 0..MaxVersion]
            /\ Waiting.pc = "none"
        BY CacheAssumption DEF Waiting
      <3>2. QED BY <2>3, <3>1 DEF FillFails
    <2>4. QED BY <2>1, <2>2, <2>3
  <1>2. UNCHANGED <<tick, row, entry, edit, current, excused>>
    BY DEF Miss, ReadRow, FillFails
  <1>3. QED BY <1>1, <1>2, ReaderMove DEF CacheInv, CacheTyped, WhenCurrent, Explained

LEMMA FillStep ==
    ASSUME CacheInv, NEW r \in Readers, Fill(r)
    PROVE  CacheInv'
  <1>1. /\ Waiting \in [pc : {"none", "read", "fill"}, val : 0..MaxVersion]
        /\ Waiting.pc = "none"
    BY CacheAssumption DEF Waiting
  <1>2. /\ get' \in [Readers -> [pc : {"none", "read", "fill"}, val : 0..MaxVersion]]
        /\ \A q \in Readers : get'[q].pc = "fill" => current'[get'[q].val] = tick'
    BY <1>1, ReaderMove DEF Fill
  <1>3. /\ get[r].val \in 0..MaxVersion /\ current[get[r].val] = tick
        /\ tick \in Nat /\ tick + Ttl \in Nat
    BY CacheAssumption DEF Fill, CacheInv, CacheTyped, WhenCurrent
  <1>4. entry' \in Entries /\ entry'.val = get[r].val /\ entry'.until = tick + Ttl
    BY <1>3 DEF Fill, Entries
  <1>5. CacheTyped'
    BY <1>2, <1>4 DEF Fill, CacheInv, CacheTyped
  <1>6. WhenCurrent'
    BY <1>2, <1>3, <1>4 DEF Fill, CacheInv, WhenCurrent
  <1>7. Explained'
    BY <1>4 DEF Fill, Explained
  <1>8. QED BY <1>5, <1>6, <1>7 DEF CacheInv

\* A new version of the row: what was current is so no longer, but was at this tick.
LEMMA EditedKeeps ==
    ASSUME CacheInv, Edited, UNCHANGED <<tick, entry, get>>, edit' \in [Editors -> BOOLEAN],
           entry # Empty => excused' \/ \E e \in Editors : edit'[e]
    PROVE  CacheInv'
  <1>1. row \in Nat /\ row + 1 \in 0..MaxVersion /\ tick \in Nat
    BY CacheAssumption DEF CacheInv, CacheTyped, Edited
  <1>2. /\ row' = row + 1
        /\ current' \in [0..MaxVersion -> Nat]
        /\ current'[row + 1] = tick
        /\ \A v \in 0..MaxVersion : v # row + 1 => current'[v] = current[v]
    BY <1>1 DEF CacheInv, CacheTyped, Edited
  <1>3. CacheTyped'
    BY <1>1, <1>2 DEF CacheInv, CacheTyped
  <1>4. \A v \in 0..MaxVersion : current'[v] \in Nat /\ current[v] <= current'[v] /\ current'[v] <= tick
    BY <1>1, <1>2 DEF CacheInv, CacheTyped, WhenCurrent
  <1>5. \A r \in Readers : get[r].pc = "fill" => current'[get[r].val] = tick
    BY <1>2 DEF CacheInv, CacheTyped, WhenCurrent
  <1>6. entry # Empty => entry.until <= current'[entry.val] + Ttl
    <2> SUFFICES ASSUME entry # Empty PROVE entry.until <= current'[entry.val] + Ttl
      OBVIOUS
    <2>1. entry.until \in Nat /\ entry.val \in 0..MaxVersion /\ current[entry.val] \in Nat
      BY DEF CacheInv, CacheTyped, Entries
    <2>2. entry.until <= current[entry.val] + Ttl
      BY DEF CacheInv, WhenCurrent
    <2>3. QED BY <1>4, <2>1, <2>2, CacheAssumption
  <1>7. WhenCurrent'
    BY <1>2, <1>4, <1>5, <1>6 DEF WhenCurrent
  <1>8. QED BY <1>3, <1>7 DEF CacheInv, Explained

LEMMA EditStep ==
    ASSUME CacheInv, UpdateCategories \/ AdminEdits \/ \E e \in Editors : Update(e)
    PROVE  CacheInv'
  <1>1. CASE EditElsewhere
    <2>1. entry # Empty => excused'
      BY <1>1 DEF EditElsewhere
    <2>2. edit' \in [Editors -> BOOLEAN]
      BY <1>1 DEF EditElsewhere, CacheInv, CacheTyped
    <2>3. QED BY <1>1, <2>1, <2>2, EditedKeeps DEF EditElsewhere
  <1>2. ASSUME NEW e \in Editors, Update(e) PROVE CacheInv'
    <2>1. edit' \in [Editors -> BOOLEAN] /\ edit'[e]
      BY <1>2 DEF Update, CacheInv, CacheTyped
    <2>2. QED BY <1>2, <2>1, EditedKeeps DEF Update
  <1>3. QED BY <1>1, <1>2 DEF UpdateCategories, AdminEdits

LEMMA DeleteStep ==
    ASSUME CacheInv, NEW e \in Editors, DeleteKey(e) \/ DeleteFails(e)
    PROVE  CacheInv'
  <1>1. edit' \in [Editors -> BOOLEAN]
    BY DEF DeleteKey, DeleteFails, CacheInv, CacheTyped
  <1>2. CASE DeleteKey(e)
    BY <1>1, <1>2 DEF DeleteKey, CacheInv, CacheTyped, WhenCurrent, Explained
  <1>3. CASE DeleteFails(e)
    <2>1. Explained'
      BY <1>3 DEF DeleteFails, Explained
    <2>2. QED BY <1>1, <1>3, <2>1 DEF DeleteFails, CacheInv, CacheTyped, WhenCurrent
  <1>4. QED BY <1>2, <1>3

LEMMA CacheTicksStep ==
    ASSUME CacheInv, CacheTicks
    PROVE  CacheInv'
  <1>1. tick \in Nat /\ tick' = tick + 1 /\ row \in 0..MaxVersion
    BY DEF CacheInv, CacheTyped, CacheTicks
  <1>2. /\ current' \in [0..MaxVersion -> Nat]
        /\ current'[row] = tick + 1
        /\ \A v \in 0..MaxVersion : v # row => current'[v] = current[v]
    BY <1>1 DEF CacheInv, CacheTyped, CacheTicks
  <1>3. CacheTyped'
    BY <1>1, <1>2 DEF CacheInv, CacheTyped, CacheTicks
  <1>4. \A v \in 0..MaxVersion :
           /\ current[v] \in Nat /\ current'[v] \in Nat
           /\ current[v] <= current'[v] /\ current'[v] <= tick + 1
    BY <1>1, <1>2 DEF CacheInv, CacheTyped, WhenCurrent
  <1>5. \A r \in Readers : get'[r].pc # "fill"
    BY DEF CacheTicks, Waiting
  <1>6. entry' # Empty => entry'.until <= current'[entry'.val] + Ttl
    <2> SUFFICES ASSUME entry # Empty PROVE entry.until <= current'[entry.val] + Ttl
      BY DEF CacheTicks
    <2>1. entry.until \in Nat /\ entry.val \in 0..MaxVersion
      BY DEF CacheInv, CacheTyped, Entries
    <2>2. entry.until <= current[entry.val] + Ttl
      BY DEF CacheInv, WhenCurrent
    <2>3. QED BY <1>4, <2>1, <2>2, CacheAssumption
  <1>7. WhenCurrent'
    BY <1>1, <1>2, <1>4, <1>5, <1>6 DEF WhenCurrent, CacheTicks
  <1>8. QED BY <1>3, <1>7 DEF CacheInv, Explained, CacheTicks

LEMMA InitCacheInv == Init => CacheInv
  <1>1. 0 \in 0..MaxVersion /\ 0 \in Nat
    BY CacheAssumption
  <1>2. QED BY <1>1 DEF Init, CacheInit, CacheInv, CacheTyped, WhenCurrent, Explained, Waiting

LEMMA NextCacheInv == CacheInv /\ [Next]_vars => CacheInv'
  <1> SUFFICES ASSUME CacheInv, [Next]_vars PROVE CacheInv'
    OBVIOUS
  <1>1. CASE CacheNext
    BY <1>1, ReadStep, FillStep, EditStep, DeleteStep, CacheTicksStep DEF CacheNext
  <1>2. CASE UNCHANGED cacheVars
    BY <1>2 DEF cacheVars, CacheInv, CacheTyped, WhenCurrent, Explained
  <1>3. QED BY <1>1, <1>2 DEF Next, vars

\* A profile served from the cache (XCacheInterceptor) that differs from the row is
\* explained by an edit, a failed deletion or an overlapping fill, and was the row's
\* within the last Ttl.
THEOREM SpecStaleIsExplained == Spec => []StaleIsExplained
  <1>1. CacheInv => StaleIsExplained
    <2> SUFFICES ASSUME CacheInv, Live
                 PROVE  /\ entry.val # row => excused \/ \E e \in Editors : edit[e]
                        /\ tick - current[entry.val] < Ttl
      BY DEF StaleIsExplained
    <2>1. entry # Empty /\ entry.until > tick
      BY DEF Live
    <2>2. entry.until \in Nat /\ entry.val \in 0..MaxVersion /\ tick \in Nat
      BY <2>1 DEF CacheInv, CacheTyped, Entries
    <2>3. entry.until <= current[entry.val] + Ttl /\ current[entry.val] \in Nat
      BY <2>1, <2>2 DEF CacheInv, CacheTyped, WhenCurrent
    <2>4. tick - current[entry.val] < Ttl
      BY <2>1, <2>2, <2>3, CacheAssumption
    <2>5. QED BY <2>1, <2>4 DEF CacheInv, Explained
  <1>2. Spec => []CacheInv
    BY InitCacheInv, NextCacheInv, PTL DEF Spec
  <1>3. QED BY <1>1, <1>2, PTL

-----------------------------------------------------------------------------
(* Deliveries.                                                             *)

DeliveryRecord == [pc : {"unsent", "read", "post", "done"}, todo : Seq(Hooks)]

DeliveriesTyped ==
    /\ hook \in [Hooks -> {"absent", "on", "removed"}]
    /\ delivery \in [Pairs -> DeliveryRecord]
    /\ posted \in [Pairs -> Seq(Hooks)]
    /\ mailed \in [Sales -> SUBSET Creators]
    /\ kept \in [Pairs -> SUBSET Hooks]
    /\ broken \subseteq Pairs

\* The webhooks of d's creator, whatever became of them.
Owned(d) == {h \in Hooks : HookOwner[h] = d[2]}

\* What a delivery relies on.  What is kept is on.  Nothing was posted before the webhooks
\* were read; from then on what is left to do is a list without repetition, disjoint from
\* what was posted, and no kept webhook is outside the two.
GoodDelivery(d) ==
    /\ kept[d] \subseteq On(d[2])
    /\ IsInjective(posted[d]) /\ ToSet(posted[d]) \subseteq Owned(d)
    /\ delivery[d].pc \in {"read", "post"} => d[2] \in ByCreator(d[1])
    /\ posted[d] # <<>> => d[2] \in ByCreator(d[1])
    /\ delivery[d].pc = "unsent" => delivery[d] = Unsent
    /\ delivery[d].pc = "done" => delivery[d] = Done
    /\ delivery[d].pc \in {"unsent", "read"} => posted[d] = <<>> /\ d \notin broken
    /\ delivery[d].pc = "post" =>
          /\ delivery[d].todo # <<>> /\ IsInjective(delivery[d].todo)
          /\ ToSet(delivery[d].todo) \subseteq Owned(d) \ ToSet(posted[d])
          /\ kept[d] \subseteq ToSet(posted[d]) \cup ToSet(delivery[d].todo)
    /\ delivery[d].pc = "done" /\ d \notin broken /\ d[2] \in ByCreator(d[1]) =>
          kept[d] \subseteq ToSet(posted[d])
    /\ delivery[d].pc # "unsent" => mailed[d[1]] = MailsTo(d[1])

DeliveriesInv == DeliveriesTyped /\ \A d \in Pairs : GoodDelivery(d)

LEMMA ToDoShrinks ==
    ASSUME NEW s \in Seq(Hooks), s # <<>>, IsInjective(s)
    PROVE  /\ Head(s) \in Hooks /\ Tail(s) \in Seq(Hooks)
           /\ ToSet(s) = {Head(s)} \cup ToSet(Tail(s))
           /\ Head(s) \notin ToSet(Tail(s)) /\ IsInjective(Tail(s))
  <1>1. /\ Len(s) \in Nat /\ 1 \in 1..Len(s) /\ DOMAIN s = 1..Len(s)
        /\ Head(s) = s[1] /\ Head(s) \in Hooks
    BY Z3
  <1>2. /\ Tail(s) \in Seq(Hooks) /\ DOMAIN Tail(s) = 1..Len(s) - 1
        /\ \A i \in 1..Len(s) - 1 : i + 1 \in 1..Len(s) /\ Tail(s)[i] = s[i + 1]
    BY <1>1
  <1>3. \A j \in 1..Len(s) : j # 1 => j - 1 \in 1..Len(s) - 1 /\ (j - 1) + 1 = j
    BY <1>1
  <1>4. ToSet(s) = {Head(s)} \cup ToSet(Tail(s))
    <2>1. \A j \in 1..Len(s) : j # 1 => s[j] = Tail(s)[j - 1]
      BY <1>2, <1>3
    <2>2. ToSet(s) \subseteq {Head(s)} \cup ToSet(Tail(s))
      <3> SUFFICES ASSUME NEW j \in 1..Len(s) PROVE s[j] \in {Head(s)} \cup ToSet(Tail(s))
        BY <1>1 DEF ToSet
      <3>1. CASE j = 1
        BY <1>1, <3>1
      <3>2. CASE j # 1
        <4>1. j - 1 \in DOMAIN Tail(s) /\ s[j] = Tail(s)[j - 1]
          BY <1>2, <1>3, <2>1, <3>2
        <4>2. QED BY <4>1 DEF ToSet
      <3>3. QED BY <3>1, <3>2
    <2>3. QED BY <1>1, <1>2, <2>2 DEF ToSet
  <1>5. Head(s) \notin ToSet(Tail(s))
    BY <1>1, <1>2 DEF ToSet, IsInjective
  <1>6. IsInjective(Tail(s))
    BY <1>1, <1>2 DEF IsInjective
  <1>7. QED BY <1>1, <1>2, <1>4, <1>5, <1>6

LEMMA AppendNew ==
    ASSUME NEW s \in Seq(Hooks), IsInjective(s), NEW h \in Hooks \ ToSet(s)
    PROVE  /\ Append(s, h) \in Seq(Hooks) /\ Append(s, h) # <<>>
           /\ ToSet(Append(s, h)) = ToSet(s) \cup {h}
           /\ IsInjective(Append(s, h))
  <1> DEFINE t == Append(s, h)
  <1>1. /\ t \in Seq(Hooks) /\ t # <<>> /\ Len(s) \in Nat /\ Len(t) = Len(s) + 1
        /\ DOMAIN s = 1..Len(s) /\ DOMAIN t = 1..Len(s) + 1
        /\ t[Len(s) + 1] = h /\ \A i \in 1..Len(s) : t[i] = s[i]
    BY AppendProperties
  <1> HIDE DEF t
  <1>2. \A i \in 1..Len(s) + 1 : i \in 1..Len(s) \/ i = Len(s) + 1
    BY <1>1
  <1>3. Len(s) + 1 \in 1..Len(s) + 1 /\ \A i \in 1..Len(s) : i \in 1..Len(s) + 1
    BY <1>1
  <1>4. ToSet(t) = ToSet(s) \cup {h}
    BY <1>1, <1>2, <1>3 DEF ToSet
  <1>5. IsInjective(t)
    BY <1>1, <1>2 DEF IsInjective, ToSet
  <1>6. QED BY <1>1, <1>4, <1>5 DEF t

\* The orders of a finite set list all of it, each once.
LEMMA OrdersList ==
    ASSUME NEW S \in SUBSET Hooks, NEW s \in SetToSeqs(S)
    PROVE  s \in Seq(Hooks) /\ IsInjective(s) /\ ToSet(s) = S
  <1>1. IsFiniteSet(S) /\ Cardinality(S) \in Nat
    BY DeliveriesAssumption, FS_Subset, FS_CardinalityType
  <1> DEFINE n == Cardinality(S)
  <1>2. s \in [1..n -> S] /\ IsInjective(s)
    BY DEF SetToSeqs, IsInjective
  <1>3. Cardinality(1..n) = n
    <2>1. 1 \in Int /\ n \in Int
      BY <1>1
    <2> HIDE DEF n
    <2>2. Cardinality(1..n) = IF 1 > n THEN 0 ELSE n - 1 + 1
      BY <2>1, FS_Interval
    <2>3. QED BY <1>1, <2>2 DEF n
  <1>4. s \in Surjection(1..n, S)
    <2>1. s \in Injection(1..n, S)
      BY <1>2 DEF Injection
    <2>2. QED BY <1>1, <1>3, <2>1, FS_Injection
  <1>5. ToSet(s) = S
    BY <1>2, <1>4 DEF ToSet, Surjection
  <1>6. QED BY <1>1, <1>2, <1>5

LEMMA NothingListed == ToSet(<<>>) = {} /\ IsInjective(<<>>)
  BY DEF ToSet, IsInjective

\* A step of one delivery that leaves the webhooks alone.
LEMMA DeliveryMove ==
    ASSUME DeliveriesInv, NEW d \in Pairs, NEW y \in DeliveryRecord, NEW q \in Seq(Hooks),
           delivery' = [delivery EXCEPT ![d] = y],
           posted' = [posted EXCEPT ![d] = q],
           broken' = broken \/ broken' = broken \cup {d},
           UNCHANGED <<hook, mailed, kept>>,
           delivery'[d] = y /\ posted'[d] = q => GoodDelivery(d)'
    PROVE  DeliveriesInv'
  <1>1. DeliveriesTyped'
    BY DEF DeliveriesInv, DeliveriesTyped
  <1>2. delivery'[d] = y /\ posted'[d] = q
    BY DEF DeliveriesInv, DeliveriesTyped
  <1>3. ASSUME NEW e \in Pairs \ {d} PROVE GoodDelivery(e)'
    <2>1. /\ delivery'[e] = delivery[e] /\ posted'[e] = posted[e]
          /\ e \in broken' <=> e \in broken
      BY DEF DeliveriesInv, DeliveriesTyped
    <2>2. GoodDelivery(e)
      BY DEF DeliveriesInv
    <2>3. QED BY <2>1, <2>2 DEF GoodDelivery, On, Owned
  <1>4. QED BY <1>1, <1>2, <1>3 DEF DeliveriesInv

LEMMA ReadHooksStep ==
    ASSUME DeliveriesInv, NEW d \in Pairs, ReadHooks(d)
    PROVE  DeliveriesInv'
  <1>1. PICK s \in SetToSeqs(On(d[2])) :
           delivery' = [delivery EXCEPT ![d] = IF s = <<>> THEN Done ELSE [pc |-> "post", todo |-> s]]
    BY DEF ReadHooks
  <1>2. s \in Seq(Hooks) /\ IsInjective(s) /\ ToSet(s) = On(d[2])
    BY OrdersList DEF On
  <1>3. /\ GoodDelivery(d) /\ delivery[d].pc = "read" /\ posted[d] = <<>>
        /\ kept[d] \subseteq On(d[2]) /\ mailed[d[1]] = MailsTo(d[1])
        /\ posted[d] \in Seq(Hooks)
    BY DEF ReadHooks, DeliveriesInv, DeliveriesTyped, GoodDelivery
  <1>4. posted' = [posted EXCEPT ![d] = posted[d]] /\ UNCHANGED <<hook, posted, mailed, kept, broken>>
    BY DEF ReadHooks, DeliveriesInv, DeliveriesTyped
  <1>5. On(d[2]) \subseteq Owned(d)
    BY DEF On, Owned
  <1>6. CASE s = <<>>
    <2>1. Done \in DeliveryRecord /\ Done.pc = "done"
      BY DEF Done, DeliveryRecord
    <2>2. kept[d] = {}
      BY <1>2, <1>3, <1>6, NothingListed
    <2>3. ASSUME delivery'[d] = Done PROVE GoodDelivery(d)'
      BY <1>3, <1>4, <2>1, <2>2, <2>3 DEF GoodDelivery, Owned, On
    <2>4. QED BY <1>1, <1>3, <1>4, <1>6, <2>1, <2>3, DeliveryMove
  <1>7. CASE s # <<>>
    <2> DEFINE y == [pc |-> "post", todo |-> s]
    <2>1. y \in DeliveryRecord /\ y.pc = "post" /\ y.todo = s
      BY <1>2 DEF DeliveryRecord
    <2> HIDE DEF y
    <2>2. ASSUME delivery'[d] = y PROVE GoodDelivery(d)'
      BY <1>2, <1>3, <1>4, <1>5, <1>7, <2>1, <2>2, NothingListed DEF GoodDelivery, Owned, On
    <2>3. delivery' = [delivery EXCEPT ![d] = y]
      BY <1>1, <1>7 DEF y
    <2>4. QED BY <1>3, <1>4, <2>1, <2>2, <2>3, DeliveryMove
  <1>8. QED BY <1>6, <1>7

LEMMA PostStep ==
    ASSUME DeliveriesInv, NEW d \in Pairs, Post(d)
    PROVE  DeliveriesInv'
  <1> DEFINE t == delivery[d].todo
             q == Append(posted[d], Head(t))
  <1>1. /\ GoodDelivery(d) /\ delivery[d].pc = "post" /\ delivery[d] \in DeliveryRecord
        /\ t \in Seq(Hooks) /\ t # <<>> /\ IsInjective(t)
        /\ posted[d] \in Seq(Hooks) /\ IsInjective(posted[d])
        /\ ToSet(t) \subseteq Owned(d) \ ToSet(posted[d])
    BY DEF Post, DeliveriesInv, DeliveriesTyped, GoodDelivery, DeliveryRecord
  <1>2. /\ Head(t) \in Hooks /\ Tail(t) \in Seq(Hooks)
        /\ ToSet(t) = {Head(t)} \cup ToSet(Tail(t))
        /\ Head(t) \notin ToSet(Tail(t)) /\ IsInjective(Tail(t))
    BY <1>1, ToDoShrinks
  <1>3. /\ q \in Seq(Hooks) /\ q # <<>> /\ ToSet(q) = ToSet(posted[d]) \cup {Head(t)} /\ IsInjective(q)
    BY <1>1, <1>2, AppendNew
  <1>4. /\ posted' = [posted EXCEPT ![d] = q] /\ UNCHANGED <<hook, mailed, kept, broken>>
        /\ delivery' = [delivery EXCEPT ![d] = IF Tail(t) = <<>> THEN Done
                                               ELSE [delivery[d] EXCEPT !.todo = Tail(t)]]
    BY DEF Post, DeliveriesInv, DeliveriesTyped
  <1> HIDE DEF t, q
  <1>5. /\ kept[d] \subseteq ToSet(q) \cup ToSet(Tail(t)) /\ kept[d] \subseteq On(d[2])
        /\ ToSet(Tail(t)) \subseteq Owned(d) \ ToSet(q) /\ ToSet(q) \subseteq Owned(d)
        /\ d[2] \in ByCreator(d[1]) /\ mailed[d[1]] = MailsTo(d[1])
    BY <1>1, <1>2, <1>3 DEF GoodDelivery, t
  <1>6. CASE Tail(t) = <<>>
    <2>1. Done \in DeliveryRecord /\ Done.pc = "done"
      BY DEF Done, DeliveryRecord
    <2>2. kept[d] \subseteq ToSet(q)
      BY <1>5, <1>6, NothingListed
    <2>3. ASSUME delivery'[d] = Done, posted'[d] = q PROVE GoodDelivery(d)'
      BY <1>3, <1>4, <1>5, <2>1, <2>2, <2>3 DEF GoodDelivery, Owned, On
    <2>4. QED BY <1>3, <1>4, <1>6, <2>1, <2>3, DeliveryMove
  <1>7. CASE Tail(t) # <<>>
    <2> DEFINE y == [delivery[d] EXCEPT !.todo = Tail(t)]
    <2>1. y \in DeliveryRecord /\ y.pc = "post" /\ y.todo = Tail(t)
      BY <1>1, <1>2 DEF DeliveryRecord
    <2> HIDE DEF y
    <2>2. ASSUME delivery'[d] = y, posted'[d] = q PROVE GoodDelivery(d)'
      BY <1>2, <1>3, <1>4, <1>5, <1>7, <2>1, <2>2 DEF GoodDelivery, Owned, On
    <2>3. delivery' = [delivery EXCEPT ![d] = y]
      BY <1>4, <1>7 DEF y
    <2>4. QED BY <1>3, <1>4, <2>1, <2>2, <2>3, DeliveryMove
  <1>8. QED BY <1>6, <1>7

LEMMA DeliveryBreaksStep ==
    ASSUME DeliveriesInv, NEW d \in Pairs, DeliveryBreaks(d)
    PROVE  DeliveriesInv'
  <1>1. Done \in DeliveryRecord /\ Done.pc = "done" /\ posted[d] \in Seq(Hooks)
    BY DEF Done, DeliveryRecord, DeliveriesInv, DeliveriesTyped
  <1>2. /\ delivery' = [delivery EXCEPT ![d] = Done]
        /\ broken' = broken \cup {d} /\ posted' = [posted EXCEPT ![d] = posted[d]]
        /\ UNCHANGED <<hook, posted, mailed, kept>>
    BY DEF DeliveryBreaks, DeliveriesInv, DeliveriesTyped
  <1>3. ASSUME delivery'[d] = Done PROVE GoodDelivery(d)'
    <2>1. GoodDelivery(d) /\ delivery[d].pc \in {"read", "post"}
      BY DEF DeliveriesInv, DeliveryBreaks
    <2>2. QED BY <1>1, <1>2, <1>3, <2>1 DEF GoodDelivery, Owned, On
  <1>4. QED BY <1>1, <1>2, <1>3, DeliveryMove

LEMMA AnnounceStep ==
    ASSUME DeliveriesInv, NEW x \in Sales, Announce(x)
    PROVE  DeliveriesInv'
  <1>1. /\ Done \in DeliveryRecord /\ Done.pc = "done"
        /\ [Unsent EXCEPT !.pc = "read"] \in DeliveryRecord
        /\ [Unsent EXCEPT !.pc = "read"].pc = "read"
    <2>1. Done \in DeliveryRecord /\ Done.pc = "done" /\ Unsent \in DeliveryRecord
      BY DEF Done, Unsent, DeliveryRecord
    <2>2. \A y \in DeliveryRecord :
             [y EXCEPT !.pc = "read"] \in DeliveryRecord /\ [y EXCEPT !.pc = "read"].pc = "read"
      BY DEF DeliveryRecord
    <2>3. QED BY <2>1, <2>2
  <1>2. MailsTo(x) \subseteq Creators
    BY DeliveriesAssumption DEF MailsTo, ByCreator, ToSet
  <1>3. DeliveriesTyped'
    BY <1>1, <1>2 DEF Announce, DeliveriesInv, DeliveriesTyped, On
  <1>4. ASSUME NEW d \in Pairs, d[1] # x PROVE GoodDelivery(d)'
    <2>1. /\ delivery'[d] = delivery[d] /\ kept'[d] = kept[d] /\ mailed'[d[1]] = mailed[d[1]]
          /\ UNCHANGED <<hook, posted, broken>>
      BY <1>4 DEF Announce, DeliveriesInv, DeliveriesTyped, Pairs
    <2>2. GoodDelivery(d)
      BY DEF DeliveriesInv
    <2>3. QED BY <2>1, <2>2 DEF GoodDelivery, Owned, On
  <1>5. ASSUME NEW d \in Pairs, d[1] = x PROVE GoodDelivery(d)'
    <2>1. GoodDelivery(d) /\ delivery[d] = Unsent
      <3>1. d[2] \in Creators /\ d = <<x, d[2]>>
        BY <1>5 DEF Pairs
      <3>2. QED BY <3>1 DEF DeliveriesInv, Announce
    <2>2. posted[d] = <<>> /\ d \notin broken
      BY <2>1 DEF GoodDelivery, Unsent
    <2>3. /\ delivery'[d] = IF d[2] \in ByCreator(x) THEN [Unsent EXCEPT !.pc = "read"] ELSE Done
          /\ kept'[d] = On(d[2]) /\ mailed'[x] = MailsTo(x)
          /\ UNCHANGED <<hook, posted, broken>>
      BY <1>5 DEF Announce, DeliveriesInv, DeliveriesTyped, Pairs
    <2>4. QED BY <1>1, <1>5, <2>2, <2>3, NothingListed DEF GoodDelivery, Owned, On
  <1>6. QED BY <1>3, <1>4, <1>5 DEF DeliveriesInv

LEMMA HookStep ==
    ASSUME DeliveriesInv, NEW h \in Hooks, RegisterHook(h) \/ RemoveHook(h)
    PROVE  DeliveriesInv'
  <1>1. DeliveriesTyped'
    BY DEF RegisterHook, RemoveHook, DeliveriesInv, DeliveriesTyped
  <1>2. ASSUME NEW d \in Pairs PROVE GoodDelivery(d)'
    <2>1. GoodDelivery(d) /\ UNCHANGED <<delivery, posted, mailed, broken>>
      BY DEF DeliveriesInv, RegisterHook, RemoveHook
    <2>2. kept'[d] \subseteq kept[d] /\ kept'[d] \subseteq On(d[2])'
      BY <2>1 DEF GoodDelivery, On, RegisterHook, RemoveHook, DeliveriesInv, DeliveriesTyped
    <2>3. QED BY <2>1, <2>2 DEF GoodDelivery, Owned
  <1>3. QED BY <1>1, <1>2 DEF DeliveriesInv

LEMMA InitDeliveriesInv == Init => DeliveriesInv
  <1> SUFFICES ASSUME DeliveriesInit PROVE DeliveriesInv
    BY DEF Init
  <1>1. Unsent \in DeliveryRecord /\ Unsent.pc = "unsent" /\ Unsent.todo = <<>>
    BY DEF Unsent, DeliveryRecord
  <1>2. DeliveriesTyped
    BY <1>1 DEF DeliveriesInit, DeliveriesTyped
  <1>3. \A d \in Pairs : GoodDelivery(d)
    BY <1>1, NothingListed DEF DeliveriesInit, GoodDelivery
  <1>4. QED BY <1>2, <1>3 DEF DeliveriesInv

LEMMA NextDeliveriesInv == DeliveriesInv /\ [Next]_vars => DeliveriesInv'
  <1> SUFFICES ASSUME DeliveriesInv, [Next]_vars PROVE DeliveriesInv'
    OBVIOUS
  <1>1. CASE DeliveriesNext
    BY <1>1, HookStep, AnnounceStep, ReadHooksStep, PostStep, DeliveryBreaksStep
       DEF DeliveriesNext, AnnouncePass, AnnounceBundle
  <1>2. CASE UNCHANGED deliveryVars
    BY <1>2 DEF deliveryVars, DeliveriesInv, DeliveriesTyped, GoodDelivery, On, Owned
  <1>3. QED BY <1>1, <1>2 DEF Next, vars

\* Once a sale's deliveries are over (webhooks.service.ts), each creator's webhooks were
\* tried, once each and no others, whatever other endpoints answered and whatever
\* webhooks came and went, and the creators who can be mailed were.
THEOREM SpecSaleAnnounced == Spec => []SaleAnnounced
  <1>1. DeliveriesInv => SaleAnnounced
    <2> SUFFICES ASSUME DeliveriesInv, NEW x \in Sales, NEW c \in Creators
                 PROVE  LET d == <<x, c>> IN
                        /\ delivery[d] = Done /\ d \notin broken /\ c \in ByCreator(x) =>
                              kept[d] \subseteq ToSet(posted[d]) /\ (c \in Mailed => c \in mailed[x])
                        /\ IsInjective(posted[d])
                        /\ \A h \in ToSet(posted[d]) : HookOwner[h] = c /\ c \in ByCreator(x)
      BY DEF SaleAnnounced
    <2> DEFINE d == <<x, c>>
    <2>1. d \in Pairs /\ d[1] = x /\ d[2] = c
      BY DEF Pairs
    <2> HIDE DEF d
    <2>2. GoodDelivery(d) /\ Done.pc = "done"
      BY <2>1 DEF DeliveriesInv, Done
    <2>3. \A h \in ToSet(posted[d]) : HookOwner[h] = c /\ c \in ByCreator(x)
      BY <2>1, <2>2, NothingListed DEF GoodDelivery, Owned
    <2>4. delivery[d] = Done /\ d \notin broken /\ c \in ByCreator(x) =>
             kept[d] \subseteq ToSet(posted[d]) /\ (c \in Mailed => c \in mailed[x])
      BY <2>1, <2>2 DEF GoodDelivery, MailsTo
    <2>5. QED BY <2>2, <2>3, <2>4 DEF GoodDelivery, d
  <1>2. QED BY <1>1, InitDeliveriesInv, NextDeliveriesInv, PTL DEF Spec
=============================================================================
