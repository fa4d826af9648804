------------------------------ MODULE Reports ------------------------------
(***************************************************************************)
(* reports.service.ts: a user files reports, at most DailyLimit a day.     *)
(* The count and the insert are two queries of one request, so requests of *)
(* one user overlap, and midnight may fall between the two.                *)
(***************************************************************************)
EXTENDS Naturals, FiniteSets

CONSTANTS
    Filers,       \* slots for requests
    Reporters,
    DailyLimit,   \* 5 in the code
    MaxDay,       \* bound of the calendar
    Nobody        \* a slot that serves no request

ASSUME ReportsAssumption ==
    /\ IsFiniteSet(Filers)
    /\ Nobody \notin Reporters
    /\ DailyLimit \in Nat \ {0}
    /\ MaxDay \in Nat

VARIABLES
    day,
    filed,      \* by reporter and day, the rows of the table Report
    resolved,   \* how many of them an admin has dealt with
    filing,     \* requests past the count: the reporter, or Nobody
    peak        \* history: the most requests of a reporter in flight at once

reportVars == <<day, filed, resolved, filing, peak>>

ReportsInit ==
    /\ day = 0
    /\ filed = [u \in Reporters |-> [d \in 0..MaxDay |-> 0]]
    /\ resolved = filed
    /\ filing = [x \in Filers |-> Nobody]
    /\ peak = [u \in Reporters |-> 0]

\* Mutant: only reports that are still open are counted.
CountTodayMutant(u) == filed[u][day] - resolved[u][day]

CountToday(u) == filed[u][day]

InFlight(u) == Cardinality({x \in Filers : filing[x] = u})

\* submitReport up to the count.
CountReports(x, u) ==
    /\ filing[x] = Nobody
    /\ CountToday(u) < DailyLimit       \* else BadRequestException
    /\ filing' = [filing EXCEPT ![x] = u]
    /\ peak' = [peak EXCEPT ![u] = IF InFlight(u) + 1 > @ THEN InFlight(u) + 1 ELSE @]
    /\ UNCHANGED <<day, filed, resolved>>

\* The creator or tier that is reported does not exist, or a query fails.
ReportRefused(x) ==
    /\ filing[x] # Nobody
    /\ filing' = [filing EXCEPT ![x] = Nobody]
    /\ UNCHANGED <<day, filed, resolved, peak>>

CreateReport(x) ==
    /\ filing[x] # Nobody
    /\ filed' = [filed EXCEPT ![filing[x]][day] = @ + 1]
    /\ filing' = [filing EXCEPT ![x] = Nobody]
    /\ UNCHANGED <<day, resolved, peak>>

\* The admin sets a status.
UpdateStatus(u, d) ==
    /\ resolved[u][d] < filed[u][d]
    /\ resolved' = [resolved EXCEPT ![u][d] = @ + 1]
    /\ UNCHANGED <<day, filed, filing, peak>>

Midnight ==
    /\ day < MaxDay
    /\ day' = day + 1
    /\ UNCHANGED <<filed, resolved, filing, peak>>

ReportsNext ==
    \/ \E x \in Filers : \/ \E u \in Reporters : CountReports(x, u)
                         \/ ReportRefused(x)
                         \/ CreateReport(x)
    \/ \E u \in Reporters, d \in 0..MaxDay : UpdateStatus(u, d)
    \/ Midnight

----------------------------------------------------------------------------
(* Property *)

\* A reporter exceeds the daily limit by no more than the requests that it had in
\* flight beside the first, those that midnight caught between count and insert
\* included.  The service's own message says "Maximum 5 reports per day allowed", and
\* so it is for one who waits for each answer; for one who does not, it is wrong.
LimitOvershoot ==
    \A u \in Reporters, d \in 0..MaxDay :
        filed[u][d] > 0 => filed[u][d] <= DailyLimit - 1 + peak[u]
============================================================================
