--------------------------- MODULE AccountsProofs ---------------------------
(***************************************************************************)
(* Proofs about the accounts, for any number of fans, requests, sessions   *)
(* and passes: the retention period, what a deletion keeps and what it     *)
(* takes with it.  The steps of a deletion are separate queries, so the    *)
(* invariant IInv says what each request may rely on between two of them.  *)
(***************************************************************************)
EXTENDS Accounts, FiniteSetTheorems, SequenceTheorems, TLAPS

UserLabels == {"loginSession", "deletionCancel", "deletionCommit", "anonymizeWrite",
               "permanentFan", "permanentUser", "exportWrite"}
TokenLabels == {"refreshDrop", "refreshUser"}

RequestRecord == [pc : {"idle"} \cup UserLabels \cup TokenLabels,
             at : Time, of : Users \cup Tokens \cup {None}, rows : SUBSET PassIds]

\* What a request in flight may rely on.  A deletion request that has read the passes
\* holds the fan's active ones, save those sold since, and what it finds recorded for
\* the fan was recorded after it began.  A permanent deletion past its check began when
\* the period after the first recorded request had passed.
Good == {r \in RequestRecord :
    /\ r.pc \in UserLabels => r.of \in Users
    /\ r.pc \in TokenLabels => r.of \in Tokens
    /\ r.pc # "idle" => now - 1 <= r.at /\ r.at <= now
    /\ r.pc = "deletionCommit" =>
          /\ r.rows \subseteq PassesOf(r.of)
          /\ \A p \in PassesOf(r.of) \ late : passes[p].active => p \in r.rows
    /\ r.pc \in {"deletionCancel", "deletionCommit"} =>
          (IsFan(r.of) /\ fan[r.of].requested # None => r.at <= fan[r.of].requested)
    /\ r.pc = "permanentFan" => asked[r.of] # None /\ now - asked[r.of] >= Retention}

TasksGood == task \in [Workers -> Good]

TablesTyped ==
    /\ users \subseteq Users
    /\ sessions \in [Tokens -> [user : Users, until : Nat] \cup {None}]
    /\ fan \in [Users -> FanRow \cup {None}]
    /\ passes \in [PassIds -> PassRow \cup {None}]
    /\ earnings \subseteq PassIds
    /\ now \in Time
    /\ asked \in [Users -> Time \cup {None}]

\* The foreign keys of passes, and an earnings record has its pass.
KeysKept ==
    /\ \A p \in PassIds : passes[p] # None => IsFan(passes[p].fan)
    /\ \A p \in earnings : passes[p] # None

\* The first recorded request is no later than the one that the row shows.
AskedFirst ==
    \A f \in Users :
        /\ asked[f] # None => asked[f] <= now
        /\ IsFan(f) /\ fan[f].requested # None =>
              asked[f] # None /\ asked[f] <= fan[f].requested

TablesGood ==
    /\ TablesTyped
    /\ KeysKept
    /\ AskedFirst
    /\ LeaversPasses
    /\ DeletedIsOut

CoreInv == TablesGood /\ TasksGood

IInv == CoreInv /\ HalfDeletionExplained

LEMMA IInvImpliesTypeOK == IInv => TypeOK
  BY DEF IInv, CoreInv, TablesGood, TablesTyped, TasksGood, Good, RequestRecord, TypeOK,
         UserLabels, TokenLabels

-----------------------------------------------------------------------------
(* Values and slots.                                                       *)

\* None is no row, and the fan that a sale makes has a row.
LEMMA NoneIsNoRow ==
    /\ None \notin FanRow
    /\ None \notin PassRow
    /\ None \notin [user : Users, until : Nat]
    /\ None \notin Time
    /\ NewFan \in FanRow
    /\ Time \subseteq Nat
  <1>1. Time \subseteq Nat
    BY AccountsAssumption DEF Time
  <1>2. QED
    BY <1>1, AccountsAssumption DEF FanRow, PassRow, NewFan, Users

\* What a free slot may rely on: nothing.
LEMMA FreeIsGood == Free \in Good /\ Free \in Good'
  <1>1. 0 \in Time
    BY AccountsAssumption DEF Time
  <1>2. QED
    BY <1>1 DEF Free, Good, RequestRecord, UserLabels, TokenLabels

\* What requests rely on is in five variables.
LEMMA GoodUntouched ==
    ASSUME UNCHANGED <<fan, passes, late, asked, now>>
    PROVE  Good' = Good
  BY DEF Good, PassesOf, IsFan

\* Requests stay good when one slot gets a good request.
LEMMA TaskMove ==
    ASSUME TasksGood, Good \subseteq Good', NEW w \in Workers, NEW r \in Good',
           task' = [task EXCEPT ![w] = r]
    PROVE  TasksGood'
  BY DEF TasksGood

LEMMA TaskEnds ==
    ASSUME TasksGood, Good \subseteq Good', NEW w \in Workers, Ends(w)
    PROVE  TasksGood'
  BY TaskMove, FreeIsGood DEF Ends

LEMMA TaskStay ==
    ASSUME TasksGood, Good \subseteq Good', UNCHANGED task
    PROVE  TasksGood'
  BY DEF TasksGood

\* A slot is taken by a request whose first query changes no table.
LEMMA TaskBegins ==
    ASSUME TablesTyped, TasksGood, UNCHANGED <<fan, passes, late, asked, now>>,
           NEW w \in Workers, NEW pc \in UserLabels \cup TokenLabels, NEW of,
           Begins(w, pc, of),
           pc \in UserLabels => of \in Users,
           pc \in TokenLabels => of \in Tokens,
           pc # "deletionCommit",
           pc = "deletionCancel" => fan[of].requested = None,
           pc = "permanentFan" => asked[of] # None /\ now - asked[of] >= Retention
    PROVE  TasksGood'
  <1> DEFINE r == [pc |-> pc, at |-> now, of |-> of, rows |-> {}]
  <1>1. r \in RequestRecord
    BY DEF TablesTyped, RequestRecord
  <1>2. now \in Nat
    BY NoneIsNoRow DEF TablesTyped
  <1>3. r \in Good
    BY <1>1, <1>2 DEF Good, IsFan
  <1>4. QED BY <1>3, GoodUntouched, TaskMove DEF Begins

-----------------------------------------------------------------------------
(* The steps.                                                              *)

\* Steps that leave the tables of fans and passes alone and touch sessions or users.
LEMMA SessionStep ==
    ASSUME CoreInv, TasksGood', DeletedIsOut', users' \subseteq Users,
           sessions' \in [Tokens -> [user : Users, until : Nat] \cup {None}],
           UNCHANGED <<fan, passes, late, asked, now, earnings>>
    PROVE  CoreInv'
  BY DEF CoreInv, TablesGood, TablesTyped, KeysKept, AskedFirst, LeaversPasses, IsFan

\* Steps that change no table.
LEMMA RequestStep ==
    ASSUME CoreInv, TasksGood', UNCHANGED tables, UNCHANGED <<late, asked, now>>
    PROVE  CoreInv'
  BY SessionStep DEF CoreInv, TablesGood, TablesTyped, DeletedIsOut, tables

LEMMA FirstQueries ==
    ASSUME CoreInv, NEW w \in Workers,
           \/ \E t \in Tokens : RefreshFind(w, t)
           \/ \E f \in Leavers : DeletionRead(w, f) \/ AnonymizeRead(w, f) \/ PermanentRead(w, f)
           \/ \E f \in Exporters : ExportRead(w, f)
    PROVE  CoreInv'
  <1>1. Leavers \cup Exporters \subseteq Users
    BY AccountsAssumption DEF Users
  <1>2. TasksGood'
    <2>1. ASSUME NEW t \in Tokens, RefreshFind(w, t) PROVE TasksGood'
      <3>1. PICK pc \in TokenLabels : Begins(w, pc, t)
        BY <2>1 DEF RefreshFind, TokenLabels
      <3>2. QED BY <2>1, <3>1, TaskBegins
                DEF RefreshFind, CoreInv, TablesGood, history, tables, UserLabels, TokenLabels
    <2>2. ASSUME NEW f \in Leavers, DeletionRead(w, f) PROVE TasksGood'
      BY <1>1, <2>2, TaskBegins
         DEF DeletionRead, MayRequest, CoreInv, TablesGood, history, tables, UserLabels, TokenLabels
    <2>3. ASSUME NEW f \in Leavers, AnonymizeRead(w, f) PROVE TasksGood'
      BY <1>1, <2>3, TaskBegins
         DEF AnonymizeRead, CoreInv, TablesGood, history, tables, UserLabels, TokenLabels
    <2>4. ASSUME NEW f \in Leavers, PermanentRead(w, f) PROVE TasksGood'
      <3>1. f \in Users /\ IsFan(f) /\ fan[f].requested # None
        BY <1>1, <2>4 DEF PermanentRead, CanFinalize
      <3>2. asked[f] # None /\ asked[f] <= fan[f].requested
        BY <3>1 DEF CoreInv, TablesGood, AskedFirst
      <3>3. asked[f] \in Nat /\ fan[f].requested \in Nat /\ now \in Nat
        BY <3>1, <3>2, NoneIsNoRow DEF CoreInv, TablesGood, TablesTyped, IsFan, FanRow
      <3>4. now - asked[f] >= Retention
        BY <2>4, <3>2, <3>3, AccountsAssumption DEF PermanentRead, CanFinalize
      <3>5. QED BY <2>4, <3>1, <3>2, <3>4, TaskBegins
                DEF PermanentRead, CoreInv, TablesGood, history, tables, UserLabels, TokenLabels
    <2>5. ASSUME NEW f \in Exporters, ExportRead(w, f) PROVE TasksGood'
      BY <1>1, <2>5, TaskBegins
         DEF ExportRead, CoreInv, TablesGood, history, tables, UserLabels, TokenLabels
    <2>6. QED BY <2>1, <2>2, <2>3, <2>4, <2>5
  <1>3. QED BY <1>2, RequestStep
            DEF RefreshFind, DeletionRead, AnonymizeRead, PermanentRead, ExportRead, history

\* The user whom a request is about.
LEMMA OfUser ==
    ASSUME TasksGood, NEW w \in Workers
    PROVE  /\ task[w] \in Good
           /\ task[w].pc \in UserLabels => Of(w) \in Users
           /\ task[w].pc \in TokenLabels => Of(w) \in Tokens
  BY DEF TasksGood, Good, Of

LEMMA LoginUserStep ==
    ASSUME CoreInv, NEW w \in Workers, NEW u \in Members, LoginUser(w, u)
    PROVE  CoreInv'
  <1>1. u \in Users
    BY AccountsAssumption DEF Users
  <1>2. TasksGood'
    BY <1>1, TaskBegins DEF LoginUser, CoreInv, TablesGood, UserLabels, TokenLabels
  <1>3. QED BY <1>1, <1>2, SessionStep
            DEF LoginUser, CoreInv, TablesGood, TablesTyped, DeletedIsOut

LEMMA LoginSessionStep ==
    ASSUME CoreInv, NEW w \in Workers, NEW t \in Tokens, LoginSession(w, t)
    PROVE  CoreInv'
  <1>1. TasksGood'
    BY TaskEnds, GoodUntouched DEF LoginSession, CoreInv
  <1>2. Of(w) \in Users /\ now + SessionDays \in Nat
    BY OfUser, NoneIsNoRow, AccountsAssumption
       DEF CoreInv, TablesGood, TablesTyped, LoginSession, At, UserLabels
  <1>3. QED BY <1>1, <1>2, SessionStep
            DEF LoginSession, MayOwnSession, CoreInv, TablesGood, TablesTyped, DeletedIsOut

LEMMA DropStep ==
    ASSUME CoreInv, NEW w \in Workers, RefreshDrop(w)
    PROVE  CoreInv'
  <1>1. TasksGood'
    BY TaskEnds, GoodUntouched DEF RefreshDrop, CoreInv, history
  <1>2. QED BY <1>1, SessionStep
            DEF RefreshDrop, history, CoreInv, TablesGood, TablesTyped, DeletedIsOut

LEMMA LogoutStep ==
    ASSUME CoreInv, NEW t \in Tokens, Logout(t)
    PROVE  CoreInv'
  <1>1. TasksGood'
    BY TaskStay, GoodUntouched DEF Logout, CoreInv, history
  <1>2. QED BY <1>1, SessionStep
            DEF Logout, history, CoreInv, TablesGood, TablesTyped, DeletedIsOut

LEMMA PermanentUserStep ==
    ASSUME CoreInv, NEW w \in Workers, PermanentUser(w)
    PROVE  CoreInv'
  <1>1. TasksGood'
    BY TaskEnds, GoodUntouched DEF PermanentUser, CoreInv, history
  <1>2. QED BY <1>1, SessionStep
            DEF PermanentUser, history, CoreInv, TablesGood, TablesTyped, DeletedIsOut

\* A request that has nothing left to write ends.
LEMMA EndStep ==
    ASSUME CoreInv, NEW w \in Workers, RefreshUser(w) \/ Fails(w)
    PROVE  CoreInv'
  BY TaskEnds, GoodUntouched, RequestStep
     DEF CoreInv, RefreshUser, Fails, tables, history

LEMMA CancelStep ==
    ASSUME CoreInv, NEW w \in Workers, DeletionCancel(w)
    PROVE  CoreInv'
  <1> DEFINE r == [task[w] EXCEPT !.pc = "deletionCommit", !.rows = Cancelled(Of(w))]
  <1>1. task[w] \in Good /\ task[w].pc = "deletionCancel"
    BY OfUser DEF CoreInv, DeletionCancel, At
  <1>2. Cancelled(Of(w)) \subseteq PassesOf(Of(w)) /\ PassesOf(Of(w)) \subseteq PassIds
    BY DEF Cancelled, PassesOf
  <1>3. r \in Good
    BY <1>1, <1>2 DEF Good, RequestRecord, UserLabels, TokenLabels, Of, Cancelled
  <1>4. TasksGood'
    BY <1>3, TaskMove, GoodUntouched DEF DeletionCancel, CoreInv, TasksGood, tables, history
  <1>5. QED BY <1>4, RequestStep DEF DeletionCancel, history

LEMMA CommitStep ==
    ASSUME CoreInv, NEW w \in Workers, DeletionCommit(w)
    PROVE  CoreInv'
  <1> DEFINE f == Of(w)
             rows == task[w].rows
  <1>1. /\ f \in Users
        /\ rows \subseteq PassesOf(f)
        /\ \A p \in PassesOf(f) \ late : passes[p].active => p \in rows
    BY OfUser DEF CoreInv, DeletionCommit, At, Good, Of, UserLabels
  <1>2. fan[f] \in FanRow /\ now \in Time /\ now \in Nat
    BY <1>1, NoneIsNoRow DEF CoreInv, TablesGood, TablesTyped, DeletionCommit, IsFan
  <1>3. /\ fan' \in [Users -> FanRow \cup {None}]
        /\ \A g \in Users : (fan'[g] # None) <=> IsFan(g)
        /\ \A g \in Users \ {f} : fan'[g] = fan[g]
        /\ fan'[f].requested = now
    BY <1>1, <1>2, NoneIsNoRow DEF CoreInv, TablesGood, TablesTyped, DeletionCommit, IsFan, FanRow
  <1>4. \A p \in PassIds : passes[p] # None => passes[p] \in PassRow
    BY DEF CoreInv, TablesGood, TablesTyped
  <1>5. /\ passes' \in [PassIds -> PassRow \cup {None}]
        /\ \A p \in PassIds : (passes'[p] # None) <=> (passes[p] # None)
        /\ \A p \in PassIds : passes[p] # None =>
              /\ passes'[p].fan = passes[p].fan
              /\ passes'[p].active => passes[p].active /\ p \notin rows
    BY SMTT(30), ZenonT(30), <1>1, <1>4, NoneIsNoRow DEF CoreInv, TablesGood, TablesTyped, DeletionCommit, PassesOf, PassRow
  <1>6. /\ asked' \in [Users -> Time \cup {None}]
        /\ \A g \in Users : asked[g] # None => asked'[g] = asked[g]
        /\ asked'[f] # None
        /\ \A g \in Users : asked'[g] # None => asked'[g] <= now
    <2>1. \A g \in Users : asked[g] # None => asked[g] <= now
      BY DEF CoreInv, TablesGood, AskedFirst
    <2>2. QED BY <1>1, <1>2, <2>1, NoneIsNoRow DEF CoreInv, TablesGood, TablesTyped, DeletionCommit
  <1>7. Good \subseteq Good'
    <2> SUFFICES ASSUME NEW r \in Good PROVE r \in Good'
      OBVIOUS
    <2>1. \A g : PassesOf(g)' = PassesOf(g)
      BY <1>5 DEF PassesOf
    <2>2. r.pc \in {"deletionCancel", "deletionCommit"} =>
             (IsFan(r.of)' /\ fan'[r.of].requested # None => r.at <= fan'[r.of].requested)
      BY <1>3 DEF Good, UserLabels, IsFan
    <2>3. r.pc = "deletionCommit" =>
             \A p \in PassesOf(r.of) \ late : passes'[p].active => p \in r.rows
      BY <1>5 DEF Good, PassesOf
    <2>4. r.pc = "permanentFan" => asked'[r.of] # None /\ now - asked'[r.of] >= Retention
      BY <1>6 DEF Good, UserLabels
    <2>5. now' = now /\ late' = late
      BY DEF DeletionCommit
    <2>6. QED BY <2>1, <2>2, <2>3, <2>4, <2>5 DEF Good
  <1>8. TasksGood'
    BY <1>7, TaskEnds DEF DeletionCommit, CoreInv
  <1>9. TablesTyped' /\ KeysKept' /\ DeletedIsOut'
    BY <1>3, <1>4, <1>5, <1>6
       DEF CoreInv, TablesGood, TablesTyped, KeysKept, DeletedIsOut, DeletionCommit, IsFan, PassRow
  <1>10. AskedFirst'
    BY <1>1, <1>3, <1>6 DEF CoreInv, TablesGood, AskedFirst, IsFan, DeletionCommit
  <1>11. LeaversPasses'
    <2> SUFFICES ASSUME NEW p \in PassIds, passes'[p] # None, passes'[p].active, p \notin late
                 PROVE  fan'[passes'[p].fan] # None /\ fan'[passes'[p].fan].requested = None
      BY DEF LeaversPasses, DeletionCommit, IsFan
    <2>1. passes[p] # None /\ passes[p].active /\ p \notin rows /\ passes'[p].fan = passes[p].fan
      BY <1>5
    <2>2. passes[p].fan # f
      BY <1>1, <2>1 DEF PassesOf
    <2>3. passes[p].fan \in Users
      BY <1>4, <2>1 DEF PassRow, Users
    <2>4. IsFan(passes[p].fan) /\ fan[passes[p].fan].requested = None
      BY <2>1 DEF CoreInv, TablesGood, LeaversPasses
    <2>5. QED BY <1>3, <2>1, <2>2, <2>3, <2>4 DEF IsFan
  <1>12. QED BY <1>8, <1>9, <1>10, <1>11 DEF CoreInv, TablesGood

\* The two writes of a fan's other columns.
LEMMA FanWriteStep ==
    ASSUME CoreInv, NEW w \in Workers, AnonymizeWrite(w) \/ ExportWrite(w)
    PROVE  CoreInv'
  <1> DEFINE f == Of(w)
  <1>1. f \in Users
    BY OfUser DEF CoreInv, AnonymizeWrite, ExportWrite, At, UserLabels
  <1>2. fan[f] \in FanRow /\ now \in Time
    BY <1>1 DEF CoreInv, TablesGood, TablesTyped, AnonymizeWrite, ExportWrite, IsFan
  <1>3. /\ fan' \in [Users -> FanRow \cup {None}]
        /\ \A g \in Users : (fan'[g] # None) <=> IsFan(g)
        /\ \A g \in Users : fan[g] # None => fan'[g].requested = fan[g].requested
    <2>1. PICK row \in FanRow : fan' = [fan EXCEPT ![f] = row] /\ row.requested = fan[f].requested
      BY <1>2 DEF AnonymizeWrite, ExportWrite, FanRow
    <2>2. IsFan(f)
      BY DEF AnonymizeWrite, ExportWrite
    <2>3. QED BY <1>1, <2>1, <2>2, NoneIsNoRow DEF CoreInv, TablesGood, TablesTyped, IsFan
  <1>4. UNCHANGED <<users, sessions, passes, earnings, now, asked, late>>
    BY DEF AnonymizeWrite, ExportWrite, history
  <1>5. Good \subseteq Good'
    BY <1>3, <1>4 DEF Good, PassesOf, IsFan, UserLabels
  <1>6. TasksGood'
    BY <1>5, TaskEnds DEF AnonymizeWrite, ExportWrite, CoreInv
  <1>7. \A p \in PassIds : passes[p] # None => passes[p].fan \in Users
    BY DEF CoreInv, TablesGood, TablesTyped, PassRow, Users
  <1>8. TablesGood'
    BY <1>3, <1>4, <1>7
       DEF CoreInv, TablesGood, TablesTyped, KeysKept, AskedFirst, LeaversPasses, DeletedIsOut, IsFan
  <1>9. QED BY <1>6, <1>8 DEF CoreInv

\* The fan rows that a sale makes.
LEMMA EnrolledRows ==
    ASSUME TablesTyped, NEW S, fan' = Enrolled(S)
    PROVE  /\ fan' \in [Users -> FanRow \cup {None}]
           /\ \A f \in Users : IsFan(f) => fan'[f] = fan[f]
           /\ \A f \in Users : fan'[f] # None <=> IsFan(f) \/ f \in S
           /\ \A f \in Users : ~IsFan(f) /\ fan'[f] # None => fan'[f].requested = None
  BY NoneIsNoRow DEF TablesTyped, Enrolled, IsFan, NewFan

LEMMA SellStep ==
    ASSUME CoreInv, NEW p \in PassIds, NEW payer \in Fans, NEW owner \in Fans,
           NEW s \in Sellers, Sell(p, payer, owner, s)
    PROVE  CoreInv'
  <1> DEFINE row == [fan |-> owner, payer |-> payer, seller |-> s, active |-> TRUE]
  <1>1. /\ row \in PassRow /\ row # None /\ row.fan = owner
        /\ passes[p] = None
        /\ Fans \subseteq Users
    <2>1. row \in PassRow /\ row.fan = owner
      BY DEF PassRow
    <2>2. QED BY <2>1, NoneIsNoRow DEF Sell, Users
  <1>2. passes' = [passes EXCEPT ![p] = row] /\ passes' \in [PassIds -> PassRow \cup {None}]
    BY <1>1 DEF CoreInv, TablesGood, TablesTyped, Sell
  <1> HIDE DEF row
  <1>3. /\ fan' \in [Users -> FanRow \cup {None}]
        /\ \A f \in Users : IsFan(f) => fan'[f] = fan[f]
        /\ \A f \in Users : fan'[f] # None <=> IsFan(f) \/ f \in {payer, owner}
        /\ \A f \in Users : ~IsFan(f) /\ fan'[f] # None => fan'[f].requested = None
    BY EnrolledRows DEF CoreInv, TablesGood, Sell
  <1>4. late \subseteq late' /\ UNCHANGED <<sessions, now, task, asked>>
    BY DEF Sell
  <1>5. TablesTyped'
    BY <1>2, <1>3, <1>4 DEF CoreInv, TablesGood, TablesTyped, Sell, Users
  <1>6. KeysKept'
    <2>1. ASSUME NEW q \in PassIds, passes'[q] # None PROVE fan'[passes'[q].fan] # None
      <3>1. CASE q = p
        BY <1>1, <1>2, <1>3, <3>1 DEF CoreInv, TablesGood, TablesTyped
      <3>2. CASE q # p
        <4>1. passes'[q] = passes[q]
          BY <1>2, <3>2 DEF CoreInv, TablesGood, TablesTyped
        <4>2. IsFan(passes[q].fan) /\ passes[q].fan \in Users
          BY <1>1, <2>1, <4>1 DEF CoreInv, TablesGood, TablesTyped, KeysKept, PassRow
        <4>3. QED BY <1>3, <4>1, <4>2
      <3>3. QED BY <3>1, <3>2
    <2>2. ASSUME NEW q \in earnings' PROVE passes'[q] # None
      <3>1. q = p \/ (q \in earnings /\ q \in PassIds)
        BY DEF CoreInv, TablesGood, TablesTyped, Sell
      <3>2. QED BY <1>1, <1>2, <3>1 DEF CoreInv, TablesGood, TablesTyped, KeysKept
    <2>3. QED BY <2>1, <2>2 DEF KeysKept, IsFan
  <1>7. AskedFirst'
    BY <1>3, <1>4 DEF CoreInv, TablesGood, AskedFirst, IsFan
  <1>8. LeaversPasses'
    <2> SUFFICES ASSUME NEW q \in PassIds, passes'[q] # None, passes'[q].active, q \notin late'
                 PROVE  fan'[passes'[q].fan] # None /\ fan'[passes'[q].fan].requested = None
      BY DEF LeaversPasses, IsFan
    <2>1. CASE q = p
      <3>1. passes'[q].fan = owner
        BY <1>1, <1>2, <2>1 DEF CoreInv, TablesGood, TablesTyped
      <3>2. IsFan(owner) => fan[owner].requested = None
        BY <2>1 DEF Sell
      <3>3. QED BY <1>1, <1>3, <3>1, <3>2
    <2>2. CASE q # p
      <3>1. passes'[q] = passes[q] /\ q \notin late
        BY <1>2, <1>4, <2>2 DEF CoreInv, TablesGood, TablesTyped
      <3>2. IsFan(passes[q].fan) /\ fan[passes[q].fan].requested = None
        BY <3>1 DEF CoreInv, TablesGood, LeaversPasses
      <3>3. passes[q].fan \in Users
        BY <1>1, <3>1 DEF CoreInv, TablesGood, TablesTyped, PassRow
      <3>4. QED BY <1>3, <3>1, <3>2, <3>3 DEF IsFan
    <2>3. QED BY <2>1, <2>2
  <1>9. DeletedIsOut'
    BY <1>4 DEF CoreInv, TablesGood, DeletedIsOut, Sell
  <1>10. ASSUME NEW w \in Workers PROVE task[w] \in Good'
    <2> DEFINE r == task[w]
    <2>1. r \in Good
      BY OfUser DEF CoreInv
    <2>2. /\ r.pc \in {"deletionCancel", "deletionCommit"} =>
               (IsFan(r.of)' /\ fan'[r.of].requested # None => r.at <= fan'[r.of].requested)
          /\ r.pc = "permanentFan" => asked'[r.of] # None /\ now' - asked'[r.of] >= Retention
      BY <1>3, <1>4, <2>1 DEF Good, UserLabels, IsFan
    <2>3. ASSUME r.pc = "deletionCommit"
          PROVE  /\ r.rows \subseteq PassesOf(r.of)'
                 /\ \A q \in PassesOf(r.of)' \ late' : passes'[q].active => q \in r.rows
      <3>1. /\ r.rows \subseteq PassesOf(r.of)
            /\ \A q \in PassesOf(r.of) \ late : passes[q].active => q \in r.rows
        BY <2>1, <2>3 DEF Good
      <3>2. r.of = owner => p \in late'
        BY <2>3 DEF Sell, At, Of
      <3>3. \A q \in PassIds \ {p} : passes'[q] = passes[q]
        BY <1>2 DEF CoreInv, TablesGood, TablesTyped
      <3>4. passes'[p] = row
        BY <1>2 DEF CoreInv, TablesGood, TablesTyped
      <3>5. PassesOf(r.of) \subseteq PassesOf(r.of)'
        BY <1>1, <1>4, <3>3 DEF PassesOf
      <3>6. \A q \in PassesOf(r.of)' : q \notin late' => q \in PassesOf(r.of) \ late /\ q # p
        BY <1>1, <1>4, <3>2, <3>3, <3>4 DEF PassesOf
      <3>7. QED BY <3>1, <3>3, <3>5, <3>6 DEF PassesOf
    <2>4. r \in RequestRecord /\ r.pc \in UserLabels => r.of \in Users
      BY <2>1 DEF Good
    <2>5. QED BY <1>4, <2>1, <2>2, <2>3 DEF Good
  <1>11. TasksGood'
    BY <1>4, <1>10 DEF CoreInv, TasksGood
  <1>12. QED BY <1>5, <1>6, <1>7, <1>8, <1>9, <1>11 DEF CoreInv, TablesGood

LEMMA EnrolStep ==
    ASSUME CoreInv, NEW f \in Fans, Enrol(f)
    PROVE  CoreInv'
  <1>1. /\ fan' \in [Users -> FanRow \cup {None}]
        /\ \A g \in Users : IsFan(g) => fan'[g] = fan[g]
        /\ \A g \in Users : fan'[g] # None <=> IsFan(g) \/ g = f
        /\ \A g \in Users : ~IsFan(g) /\ fan'[g] # None => fan'[g].requested = None
    <2>1. fan' = Enrolled({f})
      BY DEF Enrol
    <2>2. QED BY <2>1, EnrolledRows DEF CoreInv, TablesGood
  <1>2. UNCHANGED <<sessions, passes, earnings, now, task, asked, late>> /\ f \in Users
    BY DEF Enrol, history, Users
  <1>3. \A p \in PassIds : passes[p] # None => passes[p].fan \in Users
    BY DEF CoreInv, TablesGood, TablesTyped, PassRow, Users
  <1>4. Good \subseteq Good'
    BY <1>1, <1>2 DEF Good, PassesOf, IsFan, UserLabels
  <1>5. TasksGood'
    BY <1>2, <1>4, TaskStay DEF CoreInv
  <1>6. TablesTyped' /\ KeysKept' /\ DeletedIsOut'
    BY <1>1, <1>2, <1>3
       DEF CoreInv, TablesGood, TablesTyped, KeysKept, DeletedIsOut, IsFan, Enrol, Users
  <1>7. AskedFirst'
    BY <1>1, <1>2 DEF CoreInv, TablesGood, AskedFirst, IsFan
  <1>8. LeaversPasses'
    BY <1>1, <1>2, <1>3 DEF CoreInv, TablesGood, LeaversPasses, IsFan
  <1>9. QED BY <1>5, <1>6, <1>7, <1>8 DEF CoreInv, TablesGood

LEMMA BookStep ==
    ASSUME CoreInv, NEW p \in PassIds, Book(p)
    PROVE  CoreInv'
  <1>1. TasksGood'
    BY TaskStay, GoodUntouched DEF CoreInv, Book, history
  <1>2. TablesGood'
    BY DEF CoreInv, TablesGood, TablesTyped, KeysKept, AskedFirst, LeaversPasses, DeletedIsOut,
           IsFan, Book, history
  <1>3. QED BY <1>1, <1>2 DEF CoreInv

LEMMA PermanentFanStep ==
    ASSUME CoreInv, NEW w \in Workers, PermanentFan(w)
    PROVE  CoreInv'
  <1> DEFINE f == Of(w)
             r == [task[w] EXCEPT !.pc = "permanentUser"]
  <1>1. /\ f \in Users /\ PassesOf(f) = {}
        /\ task[w] \in Good /\ task[w].pc = "permanentFan"
    BY OfUser DEF CoreInv, PermanentFan, KeptByPasses, At, UserLabels
  <1>2. /\ fan' = [fan EXCEPT ![f] = None]
        /\ fan' \in [Users -> FanRow \cup {None}]
        /\ UNCHANGED <<users, sessions, passes, now, asked, late>>
        /\ earnings' \subseteq earnings
    BY <1>1 DEF CoreInv, TablesGood, TablesTyped, PermanentFan
  <1>3. \A p \in PassIds : passes[p] # None => passes[p].fan \in Users \ {f}
    BY <1>1 DEF CoreInv, TablesGood, TablesTyped, PassRow, PassesOf, Users
  <1>4. \A g \in Users : fan'[g] = IF g = f THEN None ELSE fan[g]
    BY <1>1, <1>2 DEF CoreInv, TablesGood, TablesTyped
  <1>5. Good \subseteq Good'
    BY <1>2, <1>4 DEF Good, PassesOf, IsFan, UserLabels
  <1>6. r \in Good
    BY <1>1 DEF Good, RequestRecord, UserLabels, TokenLabels
  <1>7. TasksGood'
    <2>1. task' = [task EXCEPT ![w] = r]
      BY DEF PermanentFan, AfterFan, Goes, CoreInv, TasksGood
    <2>2. QED BY <1>5, <1>6, <2>1, TaskMove DEF CoreInv
  <1>8. TablesTyped' /\ KeysKept' /\ DeletedIsOut'
    BY <1>2, <1>3, <1>4 DEF CoreInv, TablesGood, TablesTyped, KeysKept, DeletedIsOut, IsFan
  <1>9. AskedFirst' /\ LeaversPasses'
    BY <1>2, <1>3, <1>4 DEF CoreInv, TablesGood, AskedFirst, LeaversPasses, IsFan
  <1>10. QED BY <1>7, <1>8, <1>9 DEF CoreInv, TablesGood

LEMMA TickStep ==
    ASSUME CoreInv, Tick
    PROVE  CoreInv'
  <1>1. now \in Nat /\ now' = now + 1 /\ now' \in Time
    BY NoneIsNoRow, AccountsAssumption DEF CoreInv, TablesGood, TablesTyped, Tick, Time
  <1>2. UNCHANGED <<users, sessions, fan, passes, earnings, task, asked, late>>
    BY DEF Tick, tables
  <1>3. \A f \in Users : asked[f] # None => asked[f] \in Nat
    BY NoneIsNoRow DEF CoreInv, TablesGood, TablesTyped
  <1>4. ASSUME NEW w \in Workers PROVE task[w] \in Good'
    <2> DEFINE r == task[w]
    <2>1. r \in Good /\ (r.pc # "idle" => r.at = now)
      BY OfUser DEF CoreInv, Tick, At
    <2>2. r.pc # "idle" => now' - 1 <= r.at /\ r.at <= now'
      BY <1>1, <2>1
    <2>3. r.pc = "permanentFan" => asked[r.of] # None /\ now' - asked[r.of] >= Retention
      <3>1. r.pc = "permanentFan" =>
               /\ asked[r.of] # None /\ asked[r.of] \in Nat
               /\ now - asked[r.of] >= Retention
        BY <1>3, <2>1 DEF Good, UserLabels
      <3>2. QED BY <1>1, <3>1, AccountsAssumption
    <2>4. QED BY <1>2, <2>1, <2>2, <2>3 DEF Good, PassesOf, IsFan
  <1>5. TasksGood'
    BY <1>2, <1>4 DEF CoreInv, TasksGood
  <1>6. TablesTyped' /\ KeysKept' /\ DeletedIsOut' /\ LeaversPasses'
    BY <1>1, <1>2
       DEF CoreInv, TablesGood, TablesTyped, KeysKept, DeletedIsOut, LeaversPasses, IsFan
  <1>7. AskedFirst'
    BY <1>1, <1>2, <1>3 DEF CoreInv, TablesGood, AskedFirst, IsFan
  <1>8. QED BY <1>5, <1>6, <1>7 DEF CoreInv, TablesGood

LEMMA CoreStep == CoreInv /\ [Next]_vars => CoreInv'
  <1> SUFFICES ASSUME CoreInv, [Next]_vars PROVE CoreInv'
    OBVIOUS
  <1>1. ASSUME NEW w \in Workers, Request(w) PROVE CoreInv'
    BY <1>1, LoginUserStep, FirstQueries DEF Request
  <1>2. ASSUME NEW w \in Workers, Serve(w) PROVE CoreInv'
    BY <1>2, LoginSessionStep, DropStep, EndStep, CancelStep, CommitStep, FanWriteStep,
       PermanentFanStep, PermanentUserStep DEF Serve
  <1>3. CASE \E p \in PassIds, f, g \in Fans, s \in Sellers : Sell(p, f, g, s)
    BY <1>3, SellStep
  <1>4. CASE \E f \in Fans : Enrol(f)
    BY <1>4, EnrolStep
  <1>5. CASE \E p \in PassIds : Book(p)
    BY <1>5, BookStep
  <1>6. CASE \E t \in Tokens : Logout(t)
    BY <1>6, LogoutStep
  <1>7. CASE UNCHANGED vars
    BY <1>7, TaskStay, GoodUntouched, RequestStep DEF CoreInv, vars, history, tables
  <1>8. QED BY <1>1, <1>2, <1>3, <1>4, <1>5, <1>6, <1>7, TickStep DEF Next

LEMMA InitCore == Init => CoreInv
  <1> SUFFICES ASSUME Init PROVE CoreInv
    OBVIOUS
  <1>1. TasksGood
    BY FreeIsGood DEF Init, TasksGood
  <1>2. 0 \in Time
    BY AccountsAssumption DEF Time
  <1>3. TablesGood
    BY <1>2 DEF Init, TablesGood, TablesTyped, KeysKept, AskedFirst, LeaversPasses,
                DeletedIsOut, IsFan, Users
  <1>4. QED BY <1>1, <1>3 DEF CoreInv

\* A fan who is gone comes back as a user only by a login, which excuses it; the
\* deletion that has taken the fan goes on to the user, or is excused.
LEMMA HalfStep == CoreInv /\ HalfDeletionExplained /\ [Next]_vars => HalfDeletionExplained'
  <1> SUFFICES ASSUME CoreInv, HalfDeletionExplained, [Next]_vars,
                      NEW f \in gone' \cap users', f \notin excused'
               PROVE  \E w \in Workers : task'[w].pc = "permanentUser" /\ task'[w].of = f
    BY DEF HalfDeletionExplained, At, Of
  <1>1. excused \subseteq excused'
    BY SMTT(30), ZenonT(30)
       DEF Next, Request, Serve, vars, history, LoginUser, RefreshFind, DeletionRead,
           AnonymizeRead, PermanentRead, ExportRead, LoginSession, RefreshDrop, RefreshUser,
           DeletionCancel, DeletionCommit, AnonymizeWrite, PermanentFan, PermanentUser,
           ExportWrite, Fails, Sell, Enrol, Book, Logout, Tick
  <1>2. task \in [Workers -> RequestRecord]
    BY DEF CoreInv, TasksGood, Good
  <1>3. CASE \E w \in Workers : PermanentFan(w) /\ Of(w) = f
    BY <1>2, <1>3 DEF PermanentFan, AfterFan, Goes, Of, RequestRecord
  <1>4. CASE ~\E w \in Workers : PermanentFan(w) /\ Of(w) = f
    <2>1. f \in gone
      BY SMTT(30), ZenonT(30), <1>4
         DEF Next, Request, Serve, vars, history, LoginUser, RefreshFind, DeletionRead,
           AnonymizeRead, PermanentRead, ExportRead, LoginSession, RefreshDrop, RefreshUser,
           DeletionCancel, DeletionCommit, AnonymizeWrite, PermanentFan, PermanentUser,
           ExportWrite, Fails, Sell, Enrol, Book, Logout, Tick
    <2>2. f \in users
      BY SMTT(30), ZenonT(30), <2>1
         DEF Next, Request, Serve, vars, history, tables, LoginUser, RefreshFind, DeletionRead, AnonymizeRead, PermanentRead, ExportRead, LoginSession, RefreshDrop,
           RefreshUser, DeletionCancel, DeletionCommit, AnonymizeWrite, PermanentFan,
           PermanentUser, ExportWrite, Fails, Sell, Enrol, Book, Logout, Tick
    <2>3. PICK w \in Workers : task[w].pc = "permanentUser" /\ task[w].of = f
      BY <1>1, <2>1, <2>2 DEF HalfDeletionExplained, At, Of
    <2>4. task'[w] = task[w]
      BY SMTT(30), ZenonT(30), <1>1, <1>2, <2>2, <2>3
         DEF Next, Request, Serve, vars, history, tables, LoginUser, RefreshFind,
           DeletionRead, AnonymizeRead, PermanentRead, ExportRead, LoginSession, RefreshDrop,
           RefreshUser, DeletionCancel, DeletionCommit, AnonymizeWrite, PermanentFan,
           PermanentUser, ExportWrite, Fails, Sell, Enrol, Book, Logout, Tick,
           Begins, Goes, Ends, AfterFan, At, Of
    <2>5. QED BY <2>3, <2>4
  <1>5. QED BY <1>3, <1>4

-----------------------------------------------------------------------------
(* The theorems.                                                           *)

LEMMA Invariance == Spec => []IInv
  <1>1. Init => IInv
    BY InitCore DEF IInv, Init, HalfDeletionExplained
  <1>2. IInv /\ [Next]_vars => IInv'
    BY CoreStep, HalfStep DEF IInv
  <1>3. QED BY <1>1, <1>2, PTL DEF Spec

\* In every behaviour tables and requests keep the shapes of the schema.
THEOREM SpecTypeOK == Spec => []TypeOK
  BY Invariance, IInvImpliesTypeOK, PTL

\* After a deletion request only passes sold during it or later are active, though the
\* request reads the passes and commits in separate queries beside sales.
THEOREM SpecLeaversPasses == Spec => []LeaversPasses
  <1>1. IInv => LeaversPasses
    BY DEF IInv, CoreInv, TablesGood
  <1>2. QED BY <1>1, Invariance, PTL

\* No session outlives its user, though a deletion falls between the writes of a login.
THEOREM SpecDeletedIsOut == Spec => []DeletedIsOut
  <1>1. IInv => DeletedIsOut
    BY DEF IInv, CoreInv, TablesGood
  <1>2. QED BY <1>1, Invariance, PTL

\* A fan is deleted and its user left only while the deletion is between its two
\* deletes, when the second has failed, or when the user logged in again.
THEOREM SpecHalfDeletionExplained == Spec => []HalfDeletionExplained
  <1>1. IInv => HalfDeletionExplained
    BY DEF IInv
  <1>2. QED BY <1>1, Invariance, PTL

\* Only a sale or a write of a column makes or keeps a fan row; only the permanent
\* deletion takes one away.
LEMMA WhoDeletesFans ==
    ASSUME CoreInv, [Next]_vars, NEW f \in Users, IsFan(f), fan'[f] = None
    PROVE  \E w \in Workers : PermanentFan(w) /\ Of(w) = f
  <1>1. CASE \E w \in Workers : DeletionCommit(w) \/ AnonymizeWrite(w) \/ ExportWrite(w)
    <2>1. PICK w \in Workers, row \in FanRow : fan' = [fan EXCEPT ![Of(w)] = row] /\ row # None
      <3>1. PICK w \in Workers : DeletionCommit(w) \/ AnonymizeWrite(w) \/ ExportWrite(w)
        BY <1>1
      <3>2. Of(w) \in Users /\ IsFan(Of(w))
        BY <3>1, OfUser DEF CoreInv, DeletionCommit, AnonymizeWrite, ExportWrite, At, UserLabels
      <3>3. fan[Of(w)] \in FanRow /\ now \in Time
        BY <3>2 DEF CoreInv, TablesGood, TablesTyped, IsFan
      <3>4. PICK row \in FanRow : fan' = [fan EXCEPT ![Of(w)] = row]
        BY <3>1, <3>3 DEF DeletionCommit, AnonymizeWrite, ExportWrite, FanRow
      <3>5. QED BY <3>4, NoneIsNoRow
    <2>2. QED BY <2>1 DEF CoreInv, TablesGood, TablesTyped, IsFan
  <1>2. CASE \E w \in Workers : PermanentFan(w)
    BY <1>2 DEF PermanentFan, CoreInv, TablesGood, TablesTyped, IsFan
  <1>3. CASE \/ \E p \in PassIds, g, h \in Fans, s \in Sellers : Sell(p, g, h, s)
             \/ \E g \in Fans : Enrol(g)
    BY <1>3 DEF Sell, Enrol, Enrolled, IsFan
  <1>4. CASE UNCHANGED fan
    BY <1>4 DEF IsFan
  <1>5. QED BY <1>1, <1>2, <1>3, <1>4
            DEF Next, Request, Serve, vars, history, tables, LoginUser, RefreshFind,
                DeletionRead, AnonymizeRead, PermanentRead, ExportRead, LoginSession,
                RefreshDrop, RefreshUser, DeletionCancel, PermanentUser, Fails, Book,
                Logout, Tick

\* A fan's row goes only when the cooling-off period has passed since the deletion was
\* first recorded: the check and the deletion are separate queries, and a second request
\* may move the recorded date between them, but never the first one back.
THEOREM SpecRetentionKept == Spec => RetentionKept
  <1> DEFINE A == \A f \in Users : IsFan(f) /\ fan'[f] = None =>
                      asked[f] # None /\ now - asked[f] >= Retention
  <1>1. IInv /\ [Next]_vars => A
    <2> SUFFICES ASSUME CoreInv, [Next]_vars, NEW f \in Users, IsFan(f), fan'[f] = None
                 PROVE  asked[f] # None /\ now - asked[f] >= Retention
      BY DEF IInv
    <2>1. PICK w \in Workers : PermanentFan(w) /\ Of(w) = f
      BY WhoDeletesFans
    <2>2. QED BY <2>1, OfUser DEF CoreInv, PermanentFan, At, Of, Good
  <1>2. IInv /\ [Next]_vars => [A]_vars
    BY <1>1
  <1>3. QED BY <1>2, Invariance, PTL DEF Spec, RetentionKept

\* A deletion that may be finalised stays so: a second request was accepted before the
\* first was recorded, and no request lasts as long as the period.
THEOREM SpecPeriodNeverRestarts == Spec => PeriodNeverRestarts
  <1> DEFINE A == \A f \in Users : IsFan(f) /\ CanFinalize(f) /\ fan'[f] # None =>
                      CanFinalize(f)'
  <1>1. IInv /\ [Next]_vars => A
    <2> SUFFICES ASSUME CoreInv, [Next]_vars, NEW f \in Users, IsFan(f), CanFinalize(f),
                        fan'[f] # None
                 PROVE  CanFinalize(f)'
      BY DEF IInv
    <2>1. now \in Nat /\ fan[f].requested \in Nat /\ now - fan[f].requested >= Retention
      BY NoneIsNoRow DEF CoreInv, TablesGood, TablesTyped, IsFan, CanFinalize, FanRow
    <2>2. ASSUME NEW w \in Workers, DeletionCommit(w) PROVE fan'[f] = fan[f]
      <3>1. task[w] \in Good /\ task[w].pc = "deletionCommit" /\ Of(w) \in Users
        BY <2>2, OfUser DEF CoreInv, DeletionCommit, At, UserLabels
      <3>2. now - 1 <= task[w].at /\ task[w].at \in Nat
        BY <3>1, NoneIsNoRow DEF Good, RequestRecord
      <3>3. Of(w) = f => task[w].at <= fan[f].requested
        BY <3>1 DEF Good, Of, CanFinalize
      <3>4. Of(w) # f
        BY <2>1, <3>2, <3>3, AccountsAssumption
      <3>5. QED BY <2>2, <3>1, <3>4 DEF DeletionCommit, CoreInv, TablesGood, TablesTyped
    <2>3. ASSUME NEW w \in Workers, AnonymizeWrite(w) \/ ExportWrite(w)
          PROVE  fan'[f].requested = fan[f].requested
      <3>1. Of(w) \in Users
        BY <2>3, OfUser DEF CoreInv, AnonymizeWrite, ExportWrite, At, UserLabels
      <3>2. fan[f] \in FanRow
        BY DEF CoreInv, TablesGood, TablesTyped, IsFan
      <3>3. QED BY <2>3, <3>1, <3>2
                DEF AnonymizeWrite, ExportWrite, CoreInv, TablesGood, TablesTyped, FanRow
    <2>4. ASSUME NEW w \in Workers, PermanentFan(w) PROVE fan'[f] = fan[f]
      BY <2>4 DEF PermanentFan, CoreInv, TablesGood, TablesTyped
    <2>5. ASSUME \/ \E p \in PassIds, g, h \in Fans, s \in Sellers : Sell(p, g, h, s)
                 \/ \E g \in Fans : Enrol(g)
          PROVE  fan'[f] = fan[f]
      BY <2>5 DEF Sell, Enrol, Enrolled, IsFan
    <2>6. fan'[f].requested = fan[f].requested
      BY <2>2, <2>3, <2>4, <2>5
         DEF Next, Request, Serve, vars, history, tables, LoginUser, RefreshFind,
             DeletionRead, AnonymizeRead, PermanentRead, ExportRead, LoginSession,
             RefreshDrop, RefreshUser, DeletionCancel, PermanentUser, Fails, Book,
             Logout, Tick
    <2>7. now' = now \/ now' = now + 1
      BY SMTT(30), ZenonT(30) DEF Next, Request, Serve, vars, history, tables, LoginUser, RefreshFind,
             DeletionRead, AnonymizeRead, PermanentRead, ExportRead, LoginSession,
             RefreshDrop, RefreshUser, DeletionCancel, DeletionCommit, AnonymizeWrite,
             PermanentFan, PermanentUser, ExportWrite, Fails, Sell, Enrol, Book, Logout, Tick
    <2>8. QED BY <2>1, <2>6, <2>7, AccountsAssumption DEF CanFinalize
  <1>2. IInv /\ [Next]_vars => [A]_vars
    BY <1>1
  <1>3. QED BY <1>2, Invariance, PTL DEF Spec, PeriodNeverRestarts

\* No pass row is lost, nor the fan it names; an earnings record is lost only with a fan
\* who paid for somebody else's pass.
THEOREM SpecRecordsKept == Spec => RecordsKept
  <1> DEFINE A == /\ \A p \in PassIds : passes[p] # None =>
                        passes'[p] # None /\ fan'[passes[p].fan] # None
                  /\ \A p \in earnings \ earnings' :
                        /\ passes[p].payer # passes[p].fan
                        /\ fan'[passes[p].payer] = None
  <1>1. IInv /\ [Next]_vars => A
    <2> SUFFICES ASSUME CoreInv, [Next]_vars PROVE A
      BY DEF IInv
    <2>1. ASSUME NEW p \in PassIds, passes[p] # None PROVE fan'[passes[p].fan] # None
      <3>1. passes[p].fan \in Users /\ IsFan(passes[p].fan)
        BY <2>1 DEF CoreInv, TablesGood, TablesTyped, KeysKept, PassRow, Users
      <3>2. ~\E w \in Workers : PermanentFan(w) /\ Of(w) = passes[p].fan
        BY <2>1 DEF PermanentFan, KeptByPasses, PassesOf
      <3>3. QED BY <3>1, <3>2, WhoDeletesFans
    <2>2. ASSUME NEW p \in PassIds, passes[p] # None PROVE passes'[p] # None
      <3>1. CASE \E w \in Workers : DeletionCommit(w)
        <4>1. passes[p] \in PassRow /\ [passes[p] EXCEPT !.active = FALSE] \in PassRow
          BY <2>2 DEF CoreInv, TablesGood, TablesTyped, PassRow
        <4>2. QED BY <2>2, <3>1, <4>1, NoneIsNoRow DEF DeletionCommit
      <3>2. CASE \E q \in PassIds, g, h \in Fans, s \in Sellers : Sell(q, g, h, s)
        BY <2>2, <3>2 DEF Sell, CoreInv, TablesGood, TablesTyped
      <3>3. CASE UNCHANGED passes
        BY <2>2, <3>3
      <3>4. QED BY <3>1, <3>2, <3>3
                DEF Next, Request, Serve, vars, history, tables, LoginUser, RefreshFind,
                    DeletionRead, AnonymizeRead, PermanentRead, ExportRead, LoginSession,
                    RefreshDrop, RefreshUser, DeletionCancel, AnonymizeWrite, PermanentFan,
                    PermanentUser, ExportWrite, Fails, Enrol, Book, Logout, Tick
    <2>3. ASSUME NEW p \in earnings, p \notin earnings'
          PROVE  passes[p].payer # passes[p].fan /\ fan'[passes[p].payer] = None
      <3>1. PICK w \in Workers : PermanentFan(w)
        BY SMTT(30), ZenonT(30), <2>3 DEF Next, Request, Serve, vars, history, tables, LoginUser, RefreshFind,
                    DeletionRead, AnonymizeRead, PermanentRead, ExportRead, LoginSession,
                    RefreshDrop, RefreshUser, DeletionCancel, DeletionCommit,
                    AnonymizeWrite, PermanentUser, ExportWrite, Fails, Sell, Enrol, Book,
                    Logout, Tick
      <3>2. p \in PassIds /\ passes[p] # None /\ passes[p].payer = Of(w) /\ Of(w) \in Users
        BY <2>3, <3>1, OfUser
           DEF PermanentFan, PaidBy, CoreInv, TablesGood, TablesTyped, KeysKept, At, UserLabels
      <3>3. passes[p].fan # Of(w)
        BY <3>1, <3>2 DEF PermanentFan, KeptByPasses, PassesOf
      <3>4. fan'[Of(w)] = None
        BY <3>1, <3>2 DEF PermanentFan, CoreInv, TablesGood, TablesTyped
      <3>5. QED BY <3>2, <3>3, <3>4
    <2>4. QED BY <2>1, <2>2, <2>3
  <1>2. IInv /\ [Next]_vars => [A]_vars
    BY <1>1
  <1>3. QED BY <1>2, Invariance, PTL DEF Spec, RecordsKept

-----------------------------------------------------------------------------
(* Exports.  A request that passes the cooldown's check finds no export in *)
(* the period before it, so those of a period are by requests that passed  *)
(* it together.                                                            *)

Exporting(f) == {w \in Workers : At(w, "exportWrite") /\ Of(w) = f}

ExportsGood ==
    \A f \in Users :
        /\ recent[f] \in Seq(Nat)
        /\ \A i \in 1..Len(recent[f]) : recent[f][i] <= now
        /\ recent[f] # <<>> => IsFan(f) \/ f \in gone
        /\ recent[f] # <<>> /\ IsFan(f) =>
              /\ Cooling(f)
              /\ \A i \in 1..Len(recent[f]) : recent[f][i] <= fan[f].exported
        /\ recent[f] # <<>> => Len(recent[f]) + Cardinality(Exporting(f)) <= Cardinality(Workers)

LEMMA ExportingIsFinite ==
    ASSUME NEW f
    PROVE  /\ IsFiniteSet(Exporting(f)) /\ Cardinality(Exporting(f)) \in Nat
           /\ Cardinality(Exporting(f)) <= Cardinality(Workers)
           /\ Cardinality(Workers) \in Nat
  <1>1. Exporting(f) \in SUBSET Workers
    BY DEF Exporting
  <1>2. QED BY <1>1, FS_Subset, FS_CardinalityType, AccountsAssumption

LEMMA FewerExporting ==
    ASSUME NEW f, Exporting(f)' \subseteq Exporting(f)
    PROVE  /\ Cardinality(Exporting(f)') \in Nat
           /\ Cardinality(Exporting(f)') <= Cardinality(Exporting(f))
  BY ExportingIsFinite, FS_Subset, FS_CardinalityType

\* A step that exports nothing and admits no export, and takes a fan's row away or
\* makes it only as those of deletions and sales do.
LEMMA NoExport ==
    ASSUME ExportsGood, UNCHANGED <<recent, now>>, gone \subseteq gone',
           \A f \in Users : IsFan(f) =>
              \/ fan'[f] # None /\ fan'[f].exported = fan[f].exported
              \/ fan'[f] = None /\ f \in gone',
           \A f \in Users \cap gone : fan[f] = None => fan'[f] = None,
           \A w \in Workers : task'[w].pc = "exportWrite" => task'[w] = task[w]
    PROVE  ExportsGood'
  <1> SUFFICES ASSUME NEW f \in Users
               PROVE  /\ recent[f] \in Seq(Nat)
                      /\ \A i \in 1..Len(recent[f]) : recent[f][i] <= now
                      /\ recent[f] # <<>> => fan'[f] # None \/ f \in gone'
                      /\ recent[f] # <<>> /\ fan'[f] # None =>
                            /\ fan'[f].exported # None /\ now - fan'[f].exported < Cooldown
                            /\ \A i \in 1..Len(recent[f]) : recent[f][i] <= fan'[f].exported
                      /\ recent[f] # <<>> =>
                            Len(recent[f]) + Cardinality(Exporting(f)') <= Cardinality(Workers)
    BY DEF ExportsGood, IsFan, Cooling
  <1>1. Exporting(f)' \subseteq Exporting(f)
    BY DEF Exporting, At, Of
  <1>2. recent[f] \in Seq(Nat) /\ \A i \in 1..Len(recent[f]) : recent[f][i] <= now
    BY DEF ExportsGood
  <1>3. recent[f] # <<>> => fan'[f] # None \/ f \in gone'
    BY DEF ExportsGood, IsFan
  <1>4. recent[f] # <<>> /\ fan'[f] # None =>
              /\ fan'[f].exported # None /\ now - fan'[f].exported < Cooldown
              /\ \A i \in 1..Len(recent[f]) : recent[f][i] <= fan'[f].exported
    BY DEF ExportsGood, IsFan, Cooling
  <1>5. recent[f] # <<>> =>
              Len(recent[f]) + Cardinality(Exporting(f)') <= Cardinality(Workers)
    <2> SUFFICES ASSUME recent[f] # <<>>
                 PROVE  Len(recent[f]) + Cardinality(Exporting(f)') <= Cardinality(Workers)
      OBVIOUS
    <2>1. Len(recent[f]) + Cardinality(Exporting(f)) <= Cardinality(Workers)
      BY DEF ExportsGood
    <2>2. Len(recent[f]) \in Nat
      BY <1>2
    <2>3. QED BY <1>1, <2>1, <2>2, FewerExporting, ExportingIsFinite
  <1>6. QED BY <1>2, <1>3, <1>4, <1>5

LEMMA ExportReadStep ==
    ASSUME CoreInv, ExportsGood, NEW w \in Workers, NEW f \in Exporters, ExportRead(w, f)
    PROVE  ExportsGood'
  <1>1. UNCHANGED <<fan, recent, now, gone>> /\ f \in Users
    BY AccountsAssumption DEF ExportRead, tables, history, Users
  <1>2. recent[f] = <<>>
    BY <1>1 DEF ExportRead, ExportsGood
  <1>3. \A v \in Workers \ {w} : task'[v] = task[v]
    BY DEF ExportRead, Begins, CoreInv, TasksGood
  <1>4. task'[w].of = f
    BY DEF ExportRead, Begins, CoreInv, TasksGood
  <1> SUFFICES ASSUME NEW g \in Users, recent[g] # <<>>
               PROVE  Len(recent[g]) + Cardinality(Exporting(g)') <= Cardinality(Workers)
    BY <1>1 DEF ExportsGood, IsFan, Cooling
  <1>5. Exporting(g)' \subseteq Exporting(g)
    BY <1>2, <1>3, <1>4 DEF Exporting, At, Of
  <1>6. Len(recent[g]) + Cardinality(Exporting(g)) <= Cardinality(Workers) /\ Len(recent[g]) \in Nat
    BY DEF ExportsGood
  <1>7. QED BY <1>5, <1>6, FewerExporting, ExportingIsFinite

LEMMA ExportWriteStep ==
    ASSUME CoreInv, ExportsGood, NEW w \in Workers, ExportWrite(w),
           recent \in [Users -> Seq(Nat)]
    PROVE  ExportsGood'
  <1>0. PICK f \in Users : f = Of(w)
    BY OfUser DEF ExportWrite, CoreInv, At, UserLabels
  <1> DEFINE row == [fan[f] EXCEPT !.exported = now]
  <1>1. /\ IsFan(f) /\ now \in Nat /\ fan[f] \in FanRow
        /\ now' = now /\ gone' = gone /\ w \in Exporting(f)
        /\ fan' = [fan EXCEPT ![f] = row] /\ recent' = [recent EXCEPT ![f] = Append(@, now)]
    BY <1>0, NoneIsNoRow
       DEF ExportWrite, CoreInv, TablesGood, TablesTyped, IsFan, Exporting
  <1>2. row \in FanRow /\ row.exported = now
    BY <1>1 DEF FanRow, CoreInv, TablesGood, TablesTyped
  <1> HIDE DEF row
  <1>3. /\ fan'[f] = row /\ row # None
        /\ \A g \in Users \ {f} : fan'[g] = fan[g] /\ recent'[g] = recent[g]
    BY <1>1, <1>2, NoneIsNoRow DEF CoreInv, TablesGood, TablesTyped
  <1>4. task'[w] = Free /\ \A v \in Workers \ {w} : task'[v] = task[v]
    BY DEF ExportWrite, Ends, CoreInv, TasksGood
  <1>5. /\ recent[f] \in Seq(Nat) /\ recent'[f] = Append(recent[f], now)
        /\ \A i \in 1..Len(recent[f]) : recent[f][i] <= now
    BY <1>1 DEF ExportsGood
  <1>6. /\ recent'[f] \in Seq(Nat) /\ Len(recent'[f]) = Len(recent[f]) + 1
        /\ \A i \in 1..Len(recent'[f]) : recent'[f][i] <= now
    <2>1. /\ recent'[f] \in Seq(Nat) /\ Len(recent'[f]) = Len(recent[f]) + 1
          /\ \A i \in 1..Len(recent[f]) : recent'[f][i] = recent[f][i]
          /\ recent'[f][Len(recent[f]) + 1] = now
      BY <1>1, <1>5, AppendProperties
    <2>2. Len(recent[f]) \in Nat
      BY <1>5
    <2>3. QED BY <1>1, <1>5, <2>1, <2>2
  <1>7. Len(recent'[f]) + Cardinality(Exporting(f)') <= Cardinality(Workers)
    <2>1. Exporting(f)' \subseteq Exporting(f) \ {w}
      BY <1>4 DEF Exporting, At, Of, Free
    <2>2. /\ IsFiniteSet(Exporting(f) \ {w})
          /\ Cardinality(Exporting(f) \ {w}) = Cardinality(Exporting(f)) - 1
      BY <1>1, ExportingIsFinite, FS_RemoveElement
    <2>3. /\ Cardinality(Exporting(f)') <= Cardinality(Exporting(f)) - 1
          /\ Cardinality(Exporting(f)') \in Nat
      BY <2>1, <2>2, FS_Subset, FS_CardinalityType
    <2>4. Len(recent[f]) \in Nat /\ (recent[f] = <<>> => Len(recent[f]) = 0)
      BY <1>5
    <2>5. recent[f] # <<>> =>
              Len(recent[f]) + Cardinality(Exporting(f)) <= Cardinality(Workers)
      BY <1>1 DEF ExportsGood
    <2>6. QED BY <1>6, <2>3, <2>4, <2>5, ExportingIsFinite
  <1>8. ASSUME NEW g \in Users \ {f} PROVE Exporting(g)' = Exporting(g)
    BY <1>0, <1>4 DEF Exporting, At, Of, Free
  <1>9. Cooling(f)'
    BY <1>1, <1>2, <1>3, NoneIsNoRow, AccountsAssumption DEF Cooling
  <1> DEFINE GoodFor(g) ==
        /\ recent[g] \in Seq(Nat)
        /\ \A i \in 1..Len(recent[g]) : recent[g][i] <= now
        /\ recent[g] # <<>> => IsFan(g) \/ g \in gone
        /\ recent[g] # <<>> /\ IsFan(g) =>
              /\ Cooling(g)
              /\ \A i \in 1..Len(recent[g]) : recent[g][i] <= fan[g].exported
        /\ recent[g] # <<>> => Len(recent[g]) + Cardinality(Exporting(g)) <= Cardinality(Workers)
  <1>10. GoodFor(f)'
    BY <1>1, <1>2, <1>3, <1>6, <1>7, <1>9 DEF IsFan
  <1>11. ASSUME NEW g \in Users \ {f} PROVE GoodFor(g)'
    BY <1>1, <1>3, <1>8 DEF ExportsGood, IsFan, Cooling
  <1>12. QED BY <1>10, <1>11 DEF ExportsGood

\* The day leaves the first exports behind; what is left is within the cooldown of the
\* last one.
LEMMA TickExports ==
    ASSUME CoreInv, ExportsGood, Tick
    PROVE  ExportsGood'
  <1>1. UNCHANGED <<fan, gone, task>> /\ now' = now + 1 /\ now \in Nat
    BY NoneIsNoRow DEF Tick, tables, CoreInv, TablesGood, TablesTyped
  <1> SUFFICES ASSUME NEW f \in Users
               PROVE  /\ recent'[f] \in Seq(Nat)
                      /\ \A i \in 1..Len(recent'[f]) : recent'[f][i] <= now'
                      /\ recent'[f] # <<>> => IsFan(f) \/ f \in gone
                      /\ recent'[f] # <<>> /\ IsFan(f) =>
                            /\ fan[f].exported # None /\ now' - fan[f].exported < Cooldown
                            /\ \A i \in 1..Len(recent'[f]) : recent'[f][i] <= fan[f].exported
                      /\ recent'[f] # <<>> =>
                            Len(recent'[f]) + Cardinality(Exporting(f)) <= Cardinality(Workers)
    BY <1>1 DEF ExportsGood, IsFan, Cooling, Exporting, At, Of
  <1> DEFINE s == recent[f]
             L == Len(s)
             k == Cardinality(Past(f))
  <1>2. s \in Seq(Nat) /\ L \in Nat /\ \A i \in 1..L : s[i] \in Nat /\ s[i] <= now
    BY DEF ExportsGood
  <1>3. recent'[f] = SubSeq(s, k + 1, L)
    BY DEF Tick
  <1>4. /\ Past(f) \in SUBSET (1..L)
        /\ \A i \in 1..L : i \notin Past(f) => now + 1 - s[i] < Cooldown
    <2>1. DOMAIN s = 1..L /\ Cooldown \in Nat
      BY <1>2, AccountsAssumption
    <2>2. Past(f) = {i \in 1..L : now + 1 - s[i] >= Cooldown}
      BY <2>1 DEF Past
    <2>3. \A i \in 1..L : now + 1 - s[i] \in Int
      BY <1>1, <1>2
    <2> HIDE DEF L, s
    <2>4. QED BY <2>1, <2>2, <2>3
  <1>5. IsFiniteSet(1..L) /\ Cardinality(1..L) = L
    <2>1. 1 \in Int /\ L \in Int /\ (1 > L => L = 0)
      BY <1>2
    <2> HIDE DEF L
    <2>2. QED BY <2>1, FS_Interval
  <1>6. k \in 0..L /\ (k = L => Past(f) = 1..L)
    <2> HIDE DEF L
    <2>1. IsFiniteSet(Past(f)) /\ k \in Nat /\ k <= L
      BY <1>4, <1>5, FS_Subset, FS_CardinalityType
    <2>2. k = L => Past(f) = 1..L
      BY <1>4, <1>5, FS_Subset
    <2>3. QED BY <1>2, <2>1, <2>2
  <1> HIDE DEF k
  <1>7. /\ recent'[f] \in Seq(Nat)
        /\ Len(recent'[f]) = L - k
        /\ \A i \in 1..Len(recent'[f]) : i + k \in 1..L /\ recent'[f][i] = s[i + k]
    <2>1. k + 1 \in Int /\ L \in Int /\ k \in Nat /\ L - k \in Nat
      BY <1>2, <1>6
    <2>2. \A i \in (k + 1)..L : s[i] \in Nat
      BY <1>2, <2>1
    <2>3. /\ recent'[f] \in Seq(Nat)
          /\ Len(recent'[f]) = IF k + 1 <= L THEN L - (k + 1) + 1 ELSE 0
          /\ \A i \in 1..(L - (k + 1) + 1) : recent'[f][i] = s[(k + 1) + i - 1]
      <3> HIDE DEF L, s
      <3>1. QED BY <1>3, <2>1, <2>2, SubSeqProperties
    <2>4. Len(recent'[f]) = L - k
      BY <1>6, <2>1, <2>3
    <2>5. ASSUME NEW i \in 1..(L - k) PROVE i + k \in 1..L /\ recent'[f][i] = s[i + k]
      <3>1. i \in 1..(L - (k + 1) + 1) /\ (k + 1) + i - 1 = i + k /\ i + k \in 1..L
        BY <2>1
      <3>2. QED BY <2>3, <3>1
    <2>6. QED BY <2>3, <2>4, <2>5
  <1>8. recent'[f] # <<>> => s # <<>> /\ k < L
    <2>1. recent'[f] # <<>> => Len(recent'[f]) # 0
      BY <1>7
    <2>2. s = <<>> => L = 0
      OBVIOUS
    <2>3. QED BY <1>2, <1>6, <1>7, <2>1, <2>2
  <1>9. \A i \in 1..Len(recent'[f]) : recent'[f][i] <= now'
    <2> SUFFICES ASSUME NEW i \in 1..Len(recent'[f]) PROVE recent'[f][i] <= now'
      OBVIOUS
    <2>1. i + k \in 1..L /\ recent'[f][i] = s[i + k]
      BY <1>7
    <2>2. s[i + k] \in Nat /\ s[i + k] <= now
      BY <1>2, <2>1
    <2>3. QED BY <1>1, <2>1, <2>2
  <1>10. ASSUME recent'[f] # <<>>, IsFan(f)
         PROVE  /\ fan[f].exported # None /\ now' - fan[f].exported < Cooldown
                /\ \A i \in 1..Len(recent'[f]) : recent'[f][i] <= fan[f].exported
    <2>1. /\ fan[f].exported # None
          /\ \A i \in 1..L : s[i] <= fan[f].exported
      BY <1>8, <1>10 DEF ExportsGood, Cooling
    <2>2. fan[f].exported \in Nat
      BY <1>10, <2>1, NoneIsNoRow DEF CoreInv, TablesGood, TablesTyped, IsFan, FanRow
    <2>3. PICK i \in 1..L : i \notin Past(f)
      <3>1. k < L /\ k \in Nat /\ Past(f) # 1..L
        <4>1. Past(f) = 1..L => k = L
          BY <1>5 DEF k
        <4>2. QED BY <1>2, <1>6, <1>8, <1>10, <4>1
      <3>2. QED BY <1>4, <3>1
    <2>4. now + 1 - s[i] < Cooldown /\ s[i] <= fan[f].exported /\ s[i] \in Nat
      BY <1>2, <1>4, <2>1, <2>3
    <2>5. now' - fan[f].exported < Cooldown
      BY SMTT(30), ZenonT(30), <1>1, <2>2, <2>4, AccountsAssumption
    <2>6. QED BY <1>7, <2>1, <2>5
  <1>11. recent'[f] # <<>> =>
              Len(recent'[f]) + Cardinality(Exporting(f)) <= Cardinality(Workers)
    <2>1. s # <<>> => L + Cardinality(Exporting(f)) <= Cardinality(Workers)
      BY DEF ExportsGood
    <2>2. QED BY <1>2, <1>6, <1>7, <1>8, <2>1, ExportingIsFinite
  <1>12. recent'[f] # <<>> => IsFan(f) \/ f \in gone
    BY <1>8 DEF ExportsGood
  <1>13. QED BY <1>7, <1>9, <1>10, <1>11, <1>12

\* What the other steps do to the rows of fans and to the requests that export.
LEMMA OthersExportNothing ==
    ASSUME CoreInv, [Next]_vars, ~Tick,
           \A w \in Workers : ~ExportWrite(w) /\ \A f \in Exporters : ~ExportRead(w, f)
    PROVE  /\ UNCHANGED <<recent, now>> /\ gone \subseteq gone'
           /\ \A w \in Workers : task'[w].pc = "exportWrite" => task'[w] = task[w]
  <1>1. UNCHANGED <<recent, now>> /\ gone \subseteq gone'
    BY SMTT(30), ZenonT(30) DEF Next, Request, Serve, vars, history, tables, LoginUser, RefreshFind,
           DeletionRead, AnonymizeRead, PermanentRead, LoginSession, RefreshDrop,
           RefreshUser, DeletionCancel, DeletionCommit, AnonymizeWrite, PermanentFan,
           PermanentUser, Fails, Sell, Enrol, Book, Logout
  <1>2. task \in [Workers -> RequestRecord]
    BY DEF CoreInv, TasksGood, Good
  <1>3. ASSUME NEW v \in Workers, task'[v].pc = "exportWrite" PROVE task'[v] = task[v]
    <2>1. ASSUME NEW w \in Workers, NEW pc, NEW of, Begins(w, pc, of), pc # "exportWrite"
          PROVE  task'[v] = task[v]
      BY <1>2, <1>3, <2>1 DEF Begins
    <2>2. ASSUME NEW w \in Workers, Ends(w) PROVE task'[v] = task[v]
      BY <1>2, <1>3, <2>2 DEF Ends, Free
    <2>3. ASSUME NEW w \in Workers, DeletionCancel(w) PROVE task'[v] = task[v]
      <3>1. [task[w] EXCEPT !.pc = "deletionCommit", !.rows = Cancelled(Of(w))].pc
               = "deletionCommit"
        BY <1>2 DEF RequestRecord
      <3>2. QED BY <1>2, <1>3, <2>3, <3>1 DEF DeletionCancel
    <2>4. ASSUME NEW w \in Workers, PermanentFan(w) PROVE task'[v] = task[v]
      <3>1. [task[w] EXCEPT !.pc = "permanentUser"].pc = "permanentUser"
        BY <1>2 DEF RequestRecord
      <3>2. QED BY <1>2, <1>3, <2>4, <3>1 DEF PermanentFan, AfterFan, Goes
    <2>5. ASSUME NEW w \in Workers, Request(w) PROVE task'[v] = task[v]
      BY <2>1, <2>5 DEF Request, LoginUser, RefreshFind, DeletionRead, AnonymizeRead,
                        PermanentRead
    <2>6. ASSUME NEW w \in Workers, Serve(w) PROVE task'[v] = task[v]
      BY <2>2, <2>3, <2>4, <2>6
         DEF Serve, LoginSession, RefreshDrop, RefreshUser, DeletionCommit, AnonymizeWrite,
             PermanentUser, Fails
    <2>7. QED BY <2>5, <2>6 DEF Next, vars, Sell, Enrol, Book, Logout
  <1>4. QED BY <1>1, <1>3

LEMMA RowsBesideExports ==
    ASSUME CoreInv, [Next]_vars, \A w \in Workers : ~ExportWrite(w), NEW f \in Users
    PROVE  /\ IsFan(f) => \/ fan'[f] # None /\ fan'[f].exported = fan[f].exported
                          \/ fan'[f] = None /\ f \in gone'
           /\ f \in gone /\ fan[f] = None => fan'[f] = None
  <1>1. ASSUME NEW w \in Workers, DeletionCommit(w) \/ AnonymizeWrite(w)
        PROVE  IF Of(w) = f THEN IsFan(f) /\ fan'[f] # None /\ fan'[f].exported = fan[f].exported
                            ELSE fan'[f] = fan[f]
    <2>1. Of(w) \in Users /\ IsFan(Of(w)) /\ fan[Of(w)] \in FanRow
      BY <1>1, OfUser DEF CoreInv, DeletionCommit, AnonymizeWrite, At, UserLabels,
                          TablesGood, TablesTyped, IsFan
    <2>2. PICK row \in FanRow : /\ fan' = [fan EXCEPT ![Of(w)] = row]
                                /\ row.exported = fan[Of(w)].exported
      <3>1. CASE DeletionCommit(w)
        <4>1. fan' = [fan EXCEPT ![Of(w)] = [fan[Of(w)] EXCEPT !.requested = now]]
          BY <3>1 DEF DeletionCommit
        <4>2. /\ [fan[Of(w)] EXCEPT !.requested = now] \in FanRow
              /\ [fan[Of(w)] EXCEPT !.requested = now].exported = fan[Of(w)].exported
          BY <2>1 DEF FanRow, CoreInv, TablesGood, TablesTyped
        <4>3. QED BY <4>1, <4>2
      <3>2. CASE AnonymizeWrite(w)
        <4>1. fan' = [fan EXCEPT ![Of(w)] = [fan[Of(w)] EXCEPT !.anonymized = TRUE]]
          BY <3>2 DEF AnonymizeWrite
        <4>2. /\ [fan[Of(w)] EXCEPT !.anonymized = TRUE] \in FanRow
              /\ [fan[Of(w)] EXCEPT !.anonymized = TRUE].exported = fan[Of(w)].exported
          BY <2>1 DEF FanRow
        <4>3. QED BY <4>1, <4>2
      <3>3. QED BY <1>1, <3>1, <3>2
    <2>3. QED BY <2>1, <2>2, NoneIsNoRow DEF CoreInv, TablesGood, TablesTyped
  <1>2. ASSUME NEW w \in Workers, PermanentFan(w)
        PROVE  IF Of(w) = f THEN fan'[f] = None /\ f \in gone' ELSE fan'[f] = fan[f]
    BY <1>2 DEF PermanentFan, CoreInv, TablesGood, TablesTyped
  <1>3. ASSUME \/ \E p \in PassIds, g, h \in Fans, s \in Sellers : Sell(p, g, h, s)
               \/ \E g \in Fans : Enrol(g)
        PROVE  fan'[f] = fan[f] \/ (~IsFan(f) /\ f \notin gone)
    BY <1>3 DEF Sell, Enrol, Enrolled, IsFan
  <1>4. CASE UNCHANGED fan
    BY <1>4 DEF IsFan
  <1>5. QED
    BY <1>1, <1>2, <1>3, <1>4
       DEF Next, Request, Serve, vars, history, tables, LoginUser, RefreshFind, DeletionRead,
           AnonymizeRead, PermanentRead, ExportRead, LoginSession, RefreshDrop, RefreshUser,
           DeletionCancel, PermanentUser, Fails, Book, Logout, Tick, IsFan

LEMMA NextExports ==
    CoreInv /\ ExportsGood /\ recent \in [Users -> Seq(Nat)] /\ [Next]_vars
    => ExportsGood' /\ recent' \in [Users -> Seq(Nat)]
  <1> SUFFICES ASSUME CoreInv, ExportsGood, recent \in [Users -> Seq(Nat)], [Next]_vars
               PROVE  ExportsGood' /\ recent' = [f \in Users |-> recent'[f]]
    BY DEF ExportsGood
  <1>1. CASE Tick
    BY <1>1, TickExports DEF Tick
  <1>2. CASE \E w \in Workers : ExportWrite(w)
    BY <1>2, ExportWriteStep DEF ExportWrite
  <1>3. CASE \E w \in Workers, f \in Exporters : ExportRead(w, f)
    BY <1>3, ExportReadStep DEF ExportRead, history
  <1>4. CASE /\ ~Tick
             /\ \A w \in Workers : ~ExportWrite(w) /\ \A f \in Exporters : ~ExportRead(w, f)
    <2>1. /\ UNCHANGED <<recent, now>> /\ gone \subseteq gone'
          /\ \A w \in Workers : task'[w].pc = "exportWrite" => task'[w] = task[w]
      BY <1>4, OthersExportNothing
    <2>2. \A f \in Users :
             /\ IsFan(f) => \/ fan'[f] # None /\ fan'[f].exported = fan[f].exported
                            \/ fan'[f] = None /\ f \in gone'
             /\ f \in gone /\ fan[f] = None => fan'[f] = None
      BY <1>4, RowsBesideExports
    <2>3. QED BY <2>1, <2>2, NoExport
  <1>5. QED BY <1>1, <1>2, <1>3, <1>4

\* However many requests for an export overlap (requestDataExport reads the date of the
\* last one and writes the new one in separate queries), a fan's data is exported within
\* a cooldown no oftener than there are requests that may be served at a time.
THEOREM SpecExportsSpaced == Spec => []ExportsSpaced
  <1> DEFINE Inv == CoreInv /\ ExportsGood /\ recent \in [Users -> Seq(Nat)]
  <1>1. Init => Inv
    <2> SUFFICES ASSUME Init PROVE Inv
      OBVIOUS
    <2>1. \A f \in Users : recent[f] = <<>>
      BY DEF Init
    <2>2. <<>> \in Seq(Nat) /\ Len(<<>>) = 0
      BY EmptySeq
    <2>3. recent \in [Users -> Seq(Nat)]
      BY <2>2 DEF Init
    <2>4. \A f \in Users : recent[f] \in Seq(Nat) /\ 1..Len(recent[f]) = {}
      <3>1. <<>> \in Seq(Nat) /\ 1..Len(<<>>) = {}
        BY <2>2
      <3>2. QED BY <2>1, <3>1
    <2>5. ExportsGood
      BY <2>1, <2>4 DEF ExportsGood
    <2>6. QED BY <2>3, <2>5, InitCore
  <1>2. Inv /\ [Next]_vars => Inv'
    BY CoreStep, NextExports
  <1>3. Inv => ExportsSpaced
    <2> SUFFICES ASSUME Inv, NEW f \in Users PROVE Len(recent[f]) <= Cardinality(Workers)
      BY DEF ExportsSpaced
    <2>1. CASE recent[f] = <<>>
      BY <2>1, ExportingIsFinite
    <2>2. CASE recent[f] # <<>>
      BY <2>2, ExportingIsFinite DEF ExportsGood
    <2>3. QED BY <2>1, <2>2
  <1>4. QED BY <1>1, <1>2, <1>3, PTL DEF Spec
=============================================================================
