------------------------------ MODULE Accounts ------------------------------
(***************************************************************************)
(* Accounts: the sessions of users (auth.service.ts) and a fan's data      *)
(* export, deletion request, anonymisation and permanent deletion          *)
(* (fans.service.ts), over the tables users, sessions, fans, passes and    *)
(* earnings_records with their foreign keys (schema.prisma).  A user and   *)
(* the fan of that user share an id here.  One action per awaited query;   *)
(* the query a handler begins with has its guards, since a refused request *)
(* changes nothing.  Time is in days; a request lasts less than a day.     *)
(***************************************************************************)
EXTENDS Integers, Sequences, FiniteSets

CONSTANTS
    Workers,     \* requests in flight at a time
    Fans,        \* fans, who are users
    Sellers,     \* creators, who are users: passes of theirs are sold
    PassIds,     \* passes that can be sold
    Tokens,      \* refresh tokens
    Leavers, Exporters, Members,  \* fans who leave, export, log in
    Retention,   \* COOLING_OFF_PERIOD_DAYS
    Cooldown,    \* EXPORT_COOLDOWN_HOURS, in days
    SessionDays, \* REFRESH_TOKEN_TTL_MS, in days
    MaxTime,     \* bound of the clock
    None

ASSUME AccountsAssumption ==
    /\ {Retention, Cooldown, SessionDays, MaxTime} \subseteq Nat
    /\ Retention > 1
    /\ Cooldown > 0
    /\ IsFiniteSet(Workers)
    /\ None \notin Nat
    /\ None \notin [fan : Fans, payer : Fans, seller : Sellers, active : BOOLEAN]
    /\ None \notin [requested : Nat \cup {None}, exported : Nat \cup {None},
                    anonymized : BOOLEAN]
    /\ None \notin [user : Fans \cup Sellers, until : Nat]
    /\ Leavers \cup Exporters \cup Members \subseteq Fans \cup Sellers

Users == Fans \cup Sellers
Time == 0..MaxTime

VARIABLES
    users,     \* table users
    sessions,  \* table sessions, by token
    fan,       \* table fans: at most one row per user
    passes,    \* table passes
    earnings,  \* the passes whose earnings record is stored
    now,       \* days
    task,      \* the request of each worker
    asked,     \* history: when a fan's deletion was first recorded
    gone,      \* history: fans whose row was deleted
    late,      \* history: passes sold during or after a deletion request
    excused,   \* history: users kept by a failed deletion, or who came back
    spent,     \* history: tokens handed out
    recent     \* history: when a fan's exports of the last Cooldown days were

tables == <<users, sessions, fan, passes, earnings>>
history == <<asked, gone, late, excused, spent, recent>>
vars == <<tables, now, task, history>>

NewFan == [requested |-> None, exported |-> None, anonymized |-> FALSE]

Free == [pc |-> "idle", at |-> 0, of |-> None, rows |-> {}]

Init ==
    /\ users = Sellers
    /\ sessions = [t \in Tokens |-> None]
    /\ fan = [f \in Users |-> None]
    /\ passes = [p \in PassIds |-> None]
    /\ earnings = {}
    /\ now = 0
    /\ task = [w \in Workers |-> Free]
    /\ asked = [f \in Users |-> None]
    /\ gone = {}
    /\ late = {}
    /\ excused = {}
    /\ spent = {}
    /\ recent = [f \in Users |-> <<>>]

At(w, pc) == task[w].pc = pc
Of(w) == task[w].of
Begins(w, pc, of) ==
    /\ At(w, "idle")
    /\ task' = [task EXCEPT ![w] = [pc |-> pc, at |-> now, of |-> of, rows |-> {}]]
Goes(w, pc) == task' = [task EXCEPT ![w].pc = pc]
Ends(w) == task' = [task EXCEPT ![w] = Free]
IsFan(f) == fan[f] # None
PassesOf(f) == {p \in PassIds : passes[p] # None /\ passes[p].fan = f}

----------------------------------------------------------------------------
(* Sales, as the other tables see them: Passes has the queries behind them. *)

Enrolled(S) == [f \in Users |-> IF f \in S /\ ~IsFan(f) THEN NewFan ELSE fan[f]]

\* A fan is enrolled by a sale that is refused after that.  A fan whose row was
\* deleted does not come back (bound).
Enrol(f) ==
    /\ ~IsFan(f)
    /\ f \notin gone
    /\ users' = users \cup {f}
    /\ fan' = Enrolled({f})
    /\ UNCHANGED <<sessions, passes, earnings, now, task, history>>

\* A pass is stored: bought if payer and owner are one, a gift if they are not.  A gift
\* is booked in its transaction.
Sell(p, payer, owner, s) ==
    /\ passes[p] = None
    /\ {payer, owner} \cap gone = {}
    /\ s \in users
    /\ users' = users \cup {payer, owner}
    /\ fan' = Enrolled({payer, owner})
    /\ passes' = [passes EXCEPT
          ![p] = [fan |-> owner, payer |-> payer, seller |-> s, active |-> TRUE]]
    /\ earnings' = IF payer = owner THEN earnings ELSE earnings \cup {p}
    /\ late' = IF \/ IsFan(owner) /\ fan[owner].requested # None
                  \/ \E w \in Workers : At(w, "deletionCommit") /\ Of(w) = owner
               THEN late \cup {p} ELSE late
    /\ UNCHANGED <<sessions, now, task, asked, gone, excused, spent, recent>>

\* The earnings record of a pass bought on chain, which the sale does not wait for.
Book(p) ==
    /\ passes[p] # None
    /\ passes[p].payer = passes[p].fan
    /\ IsFan(passes[p].payer)
    /\ earnings' = earnings \cup {p}
    /\ UNCHANGED <<users, sessions, fan, passes, now, task, history>>

----------------------------------------------------------------------------
(* Sessions. *)

\* The signature is right: the user row is upserted.
LoginUser(w, u) ==
    /\ Begins(w, "loginSession", u)
    /\ users' = users \cup {u}
    /\ excused' = IF u \in gone THEN excused \cup {u} ELSE excused
    /\ UNCHANGED <<sessions, fan, passes, earnings, now, asked, gone, late, spent, recent>>

\* Mutant: the foreign key to users is not looked at.
MayOwnSessionMutant(u) == TRUE

MayOwnSession(u) == u \in users

LoginSession(w, t) ==
    /\ At(w, "loginSession")
    /\ t \notin spent
    /\ MayOwnSession(Of(w))
    /\ sessions' = [sessions EXCEPT ![t] = [user |-> Of(w), until |-> now + SessionDays]]
    /\ spent' = spent \cup {t}
    /\ Ends(w)
    /\ UNCHANGED <<users, fan, passes, earnings, now, asked, gone, late, excused, recent>>

Expired(t) == sessions[t].until < now

RefreshFind(w, t) ==
    /\ sessions[t] # None
    /\ Begins(w, IF Expired(t) THEN "refreshDrop" ELSE "refreshUser", t)
    /\ UNCHANGED <<tables, now, history>>

\* The expired session is deleted by its id: a second such request finds none and
\* fails; either way no access token is issued.
RefreshDrop(w) ==
    /\ At(w, "refreshDrop")
    /\ sessions' = [sessions EXCEPT ![Of(w)] = None]
    /\ Ends(w)
    /\ UNCHANGED <<users, fan, passes, earnings, now, history>>

\* The user is looked up and, if found, an access token signed: nothing is stored.
RefreshUser(w) ==
    /\ At(w, "refreshUser")
    /\ Ends(w)
    /\ UNCHANGED <<tables, now, history>>

Logout(t) ==
    /\ sessions[t] # None
    /\ sessions' = [sessions EXCEPT ![t] = None]
    /\ UNCHANGED <<users, fan, passes, earnings, now, task, history>>

----------------------------------------------------------------------------
(* The deletion request. *)

\* Mutant: an earlier request is no reason to refuse.
MayRequestMutant(f) == IsFan(f)

MayRequest(f) == IsFan(f) /\ fan[f].requested = None

DeletionRead(w, f) ==
    /\ MayRequest(f)
    /\ Begins(w, "deletionCancel", f)
    /\ UNCHANGED <<tables, now, history>>

\* Mutant: the passes that are not active are cancelled.
CancelledMutant(f) == {p \in PassesOf(f) : ~passes[p].active}

Cancelled(f) == {p \in PassesOf(f) : passes[p].active}

\* cancelAllActivePasses, inside the transaction.
DeletionCancel(w) ==
    /\ At(w, "deletionCancel")
    /\ task' = [task EXCEPT ![w].pc = "deletionCommit", ![w].rows = Cancelled(Of(w))]
    /\ UNCHANGED <<tables, now, history>>

\* The fan row is updated and both writes become visible.
DeletionCommit(w) ==
    /\ At(w, "deletionCommit")
    /\ IsFan(Of(w))
    /\ fan' = [fan EXCEPT ![Of(w)].requested = now]
    /\ passes' = [p \in PassIds |-> IF p \in task[w].rows
                                    THEN [passes[p] EXCEPT !.active = FALSE]
                                    ELSE passes[p]]
    /\ asked' = [asked EXCEPT ![Of(w)] = IF @ = None THEN now ELSE @]
    /\ Ends(w)
    /\ UNCHANGED <<users, sessions, earnings, now, gone, late, excused, spent, recent>>

----------------------------------------------------------------------------
(* Anonymisation and permanent deletion, called by a job or by hand. *)

AnonymizeRead(w, f) ==
    /\ IsFan(f)
    /\ fan[f].requested # None
    /\ ~fan[f].anonymized
    /\ Begins(w, "anonymizeWrite", f)
    /\ UNCHANGED <<tables, now, history>>

AnonymizeWrite(w) ==
    /\ At(w, "anonymizeWrite")
    /\ IsFan(Of(w))
    /\ fan' = [fan EXCEPT ![Of(w)].anonymized = TRUE]
    /\ Ends(w)
    /\ UNCHANGED <<users, sessions, passes, earnings, now, history>>

\* Mutant: the last day of the cooling-off period is not waited for.
CanFinalizeMutant(f) ==
    /\ fan[f].requested # None
    /\ now - fan[f].requested >= Retention - 1

CanFinalize(f) ==
    /\ fan[f].requested # None
    /\ now - fan[f].requested >= Retention

PermanentRead(w, f) ==
    /\ IsFan(f)
    /\ CanFinalize(f)
    /\ Begins(w, "permanentFan", f)
    /\ UNCHANGED <<tables, now, history>>

\* Mutant: passes.fan_id cascades like the other keys that refer to fans.
KeptByPassesMutant(f) == FALSE

\* passes.fan_id refers to fans and does not cascade.
KeptByPasses(f) == PassesOf(f) # {}

\* earnings_records.fan_id cascades: the records of what the fan paid for.
PaidBy(f) == {p \in earnings : passes[p].payer = f}

\* Mutant: the user is forgotten.
AfterFanMutant(w) == Ends(w)

AfterFan(w) == Goes(w, "permanentUser")

PermanentFan(w) ==
    /\ At(w, "permanentFan")
    /\ IsFan(Of(w))
    /\ ~KeptByPasses(Of(w))
    /\ fan' = [fan EXCEPT ![Of(w)] = None]
    /\ earnings' = earnings \ PaidBy(Of(w))
    /\ gone' = gone \cup {Of(w)}
    /\ AfterFan(w)
    /\ UNCHANGED <<users, sessions, passes, now, asked, late, excused, spent, recent>>

\* users.id is referred to by creators, and their passes do not cascade.
Sold(u) == \E p \in PassIds : passes[p] # None /\ passes[p].seller = u

\* The user goes, and the sessions with it.
PermanentUser(w) ==
    /\ At(w, "permanentUser")
    /\ Of(w) \in users
    /\ ~Sold(Of(w))
    /\ users' = users \ {Of(w)}
    /\ sessions' = [t \in Tokens |-> IF sessions[t] # None /\ sessions[t].user = Of(w)
                                     THEN None ELSE sessions[t]]
    /\ Ends(w)
    /\ UNCHANGED <<fan, passes, earnings, now, history>>

----------------------------------------------------------------------------
(* The data export. *)

\* Mutant: the comparison the wrong way round.
CoolingMutant(f) == fan[f].exported # None /\ now - fan[f].exported > Cooldown

Cooling(f) == fan[f].exported # None /\ now - fan[f].exported < Cooldown

ExportRead(w, f) ==
    /\ IsFan(f)
    /\ ~Cooling(f)
    /\ Begins(w, "exportWrite", f)
    /\ UNCHANGED <<tables, now, history>>

ExportWrite(w) ==
    /\ At(w, "exportWrite")
    /\ IsFan(Of(w))
    /\ fan' = [fan EXCEPT ![Of(w)].exported = now]
    /\ recent' = [recent EXCEPT ![Of(w)] = Append(@, now)]
    /\ Ends(w)
    /\ UNCHANGED <<users, sessions, passes, earnings, now, asked, gone, late, excused, spent>>

----------------------------------------------------------------------------
(* Failure and time. *)

\* A query fails, on a key, a missing row or the connection, or the process dies:
\* what the request has written stays, a transaction in flight leaves nothing.
Fails(w) ==
    /\ ~At(w, "idle")
    /\ excused' = IF At(w, "permanentUser") THEN excused \cup {Of(w)} ELSE excused
    /\ Ends(w)
    /\ UNCHANGED <<tables, now, asked, gone, late, spent, recent>>

\* The first exports of recent[f], those that the next day leaves behind.
Past(f) == {i \in DOMAIN recent[f] : now + 1 - recent[f][i] >= Cooldown}

\* No request is still in flight on the second day after it began.
Tick ==
    /\ now < MaxTime
    /\ \A w \in Workers : ~At(w, "idle") => task[w].at = now
    /\ now' = now + 1
    /\ recent' = [f \in Users |-> SubSeq(recent[f], Cardinality(Past(f)) + 1, Len(recent[f]))]
    /\ UNCHANGED <<tables, task, asked, gone, late, excused, spent>>

Serve(w) ==
    \/ \E t \in Tokens : LoginSession(w, t)
    \/ RefreshDrop(w)
    \/ RefreshUser(w)
    \/ DeletionCancel(w)
    \/ DeletionCommit(w)
    \/ AnonymizeWrite(w)
    \/ PermanentFan(w)
    \/ PermanentUser(w)
    \/ ExportWrite(w)
    \/ Fails(w)

Request(w) ==
    \/ \E u \in Members : LoginUser(w, u)
    \/ \E t \in Tokens : RefreshFind(w, t)
    \/ \E f \in Leavers : DeletionRead(w, f) \/ AnonymizeRead(w, f) \/ PermanentRead(w, f)
    \/ \E f \in Exporters : ExportRead(w, f)

Next ==
    \/ \E w \in Workers : Request(w) \/ Serve(w)
    \/ \E p \in PassIds, f, g \in Fans, s \in Sellers : Sell(p, f, g, s)
    \/ \E f \in Fans : Enrol(f)
    \/ \E p \in PassIds : Book(p)
    \/ \E t \in Tokens : Logout(t)
    \/ Tick

Spec == Init /\ [][Next]_vars

----------------------------------------------------------------------------
(* Properties *)

FanRow == [requested : Time \cup {None}, exported : Time \cup {None}, anonymized : BOOLEAN]
PassRow == [fan : Fans, payer : Fans, seller : Sellers, active : BOOLEAN]

\* The tables hold rows of their columns' types, and each request is at a query.
TypeOK ==
    /\ users \subseteq Users
    /\ sessions \in [Tokens -> [user : Users, until : Nat] \cup {None}]
    /\ fan \in [Users -> FanRow \cup {None}]
    /\ passes \in [PassIds -> PassRow \cup {None}]
    /\ earnings \subseteq PassIds
    /\ now \in Time
    /\ task \in [Workers -> [pc : {"idle", "loginSession", "refreshDrop", "refreshUser",
            "deletionCancel", "deletionCommit", "anonymizeWrite", "permanentFan",
            "permanentUser", "exportWrite"},
            at : Time, of : Users \cup Tokens \cup {None}, rows : SUBSET PassIds]]

\* A fan's row is deleted only when the cooling-off period has passed since the
\* deletion was first recorded, however requests and jobs overlap.
RetentionKept ==
    [][\A f \in Users : IsFan(f) /\ fan'[f] = None =>
          asked[f] # None /\ now - asked[f] >= Retention]_vars

\* Once a fan's deletion may be finalised, it stays so until it is: a second request
\* that passed the check for an earlier one cannot start the period anew.
PeriodNeverRestarts ==
    [][\A f \in Users : IsFan(f) /\ CanFinalize(f) /\ fan'[f] # None =>
          CanFinalize(f)']_vars

\* Every pass that was ever stored names a fan that is still there, and an earnings
\* record is lost only with the fan who paid for somebody else's pass.
RecordsKept ==
    [][/\ \A p \in PassIds : passes[p] # None =>
             passes'[p] # None /\ fan'[passes[p].fan] # None
       /\ \A p \in earnings \ earnings' :
             /\ passes[p].payer # passes[p].fan
             /\ fan'[passes[p].payer] = None]_vars

\* After a deletion request only a pass sold during it or later is active.
LeaversPasses ==
    \A p \in PassIds :
        passes[p] # None /\ passes[p].active =>
            \/ IsFan(passes[p].fan) /\ fan[passes[p].fan].requested = None
            \/ p \in late

\* No session outlives its user: a deleted account cannot refresh, though its
\* deletion falls between the two writes of a login.
DeletedIsOut == \A t \in Tokens : sessions[t] # None => sessions[t].user \in users

\* A fan row is deleted and its user left only while the request is about to delete
\* the user, when that failed, or when the user logged in again.
HalfDeletionExplained ==
    \A f \in gone \cap users :
        \/ f \in excused
        \/ \E w \in Workers : At(w, "permanentUser") /\ Of(w) = f

\* What the export's cooldown gives: requests that overlap may all pass it, so a period
\* holds as many exports as there are requests in flight, and no more; one, as the code
\* claims below, where no two requests overlap.
ExportsSpaced == \A f \in Users : Len(recent[f]) <= Cardinality(Workers)

\* "Rate limited to 1 export per 24 hours" (fans.service.ts): what the code claims and does
\* not keep.  The cooldown is read in one query of requestDataExport and set in another.
OneExportPerPeriod == \A f \in Users : Len(recent[f]) <= 1
============================================================================
