------------------------------- MODULE Cache -------------------------------
(***************************************************************************)
(* The response cache before GET /creators/:address: XCacheInterceptor     *)
(* fills it, the profile update deletes its entry, the other edits of a    *)
(* creator's row (categories, verified, featured) leave it alone.  Redis   *)
(* may fail to answer at each call, and the code goes on.  Versions stand  *)
(* for the contents of the row.                                            *)
(***************************************************************************)
EXTENDS Naturals

CONSTANTS
    Readers,      \* slots for GET requests
    Editors,      \* slots for profile updates
    Ttl,          \* CacheTTL of the route
    MaxVersion,   \* bound on edits of the row
    MaxTick,      \* bound of the clock
    Empty         \* no entry

ASSUME CacheAssumption ==
    /\ {Ttl, MaxVersion, MaxTick} \subseteq Nat
    /\ Empty \notin [val : 0..MaxVersion, until : Nat]

VARIABLES
    tick,
    row,       \* the creator's row
    entry,     \* what the cache holds under creator:<address>
    get,       \* requests that missed: what they have read
    edit,      \* profile updates between the write and the deletion
    current,   \* history: when each version was last current
    excused    \* history: an edit without deletion, or an overlapping fill, explains
               \* that the entry is stale

cacheVars == <<tick, row, entry, get, edit, current, excused>>

Waiting == [pc |-> "none", val |-> 0]

CacheInit ==
    /\ tick = 0
    /\ row = 0
    /\ entry = Empty
    /\ get = [r \in Readers |-> Waiting]
    /\ edit = [e \in Editors |-> FALSE]
    /\ current = [v \in 0..MaxVersion |-> 0]
    /\ excused = FALSE

Live == entry # Empty /\ entry.until > tick

\* No live entry, or the cache does not answer: the handler runs.
Miss(r) ==
    /\ get[r].pc = "none"
    /\ get' = [get EXCEPT ![r].pc = "read"]
    /\ UNCHANGED <<tick, row, entry, edit, current, excused>>

\* findByAddress; the answer is on its way.
ReadRow(r) ==
    /\ get[r].pc = "read"
    /\ get' = [get EXCEPT ![r] = [pc |-> "fill", val |-> row]]
    /\ UNCHANGED <<tick, row, entry, edit, current, excused>>

\* The interceptor's tap stores the answer; nobody waits for it.
Fill(r) ==
    /\ get[r].pc = "fill"
    /\ entry' = [val |-> get[r].val, until |-> tick + Ttl]
    /\ excused' = (get[r].val # row)
    /\ get' = [get EXCEPT ![r] = Waiting]
    /\ UNCHANGED <<tick, row, edit, current>>

FillFails(r) ==
    /\ get[r].pc = "fill"
    /\ get' = [get EXCEPT ![r] = Waiting]
    /\ UNCHANGED <<tick, row, entry, edit, current, excused>>

Edited ==
    /\ row < MaxVersion
    /\ row' = row + 1
    /\ current' = [current EXCEPT ![row + 1] = tick]

\* update: the row is written, then the entry deleted.
Update(e) ==
    /\ ~edit[e]
    /\ Edited
    /\ edit' = [edit EXCEPT ![e] = TRUE]
    /\ UNCHANGED <<tick, entry, get, excused>>

\* Mutant: another key is deleted.
DeleteKeyMutant(e) ==
    /\ edit[e]
    /\ edit' = [edit EXCEPT ![e] = FALSE]
    /\ UNCHANGED <<tick, row, entry, get, current, excused>>

DeleteKey(e) ==
    /\ edit[e]
    /\ entry' = Empty
    /\ excused' = FALSE
    /\ edit' = [edit EXCEPT ![e] = FALSE]
    /\ UNCHANGED <<tick, row, get, current>>

\* The deletion fails, which the code ignores.
DeleteFails(e) ==
    /\ edit[e]
    /\ edit' = [edit EXCEPT ![e] = FALSE]
    /\ excused' = (entry # Empty)
    /\ UNCHANGED <<tick, row, entry, get, current>>

\* An edit of the row that leaves the entry alone.
EditElsewhere ==
    /\ Edited
    /\ excused' = (entry # Empty)
    /\ UNCHANGED <<tick, entry, get, edit>>

UpdateCategories == EditElsewhere

\* featureCreator, verifyCreator and their opposites.
AdminEdits == EditElsewhere

\* The clock does not move while a request is under way: none takes as long.
CacheTicks ==
    /\ tick < MaxTick
    /\ \A r \in Readers : get[r] = Waiting
    /\ tick' = tick + 1
    /\ current' = [current EXCEPT ![row] = tick + 1]
    /\ UNCHANGED <<row, entry, get, edit, excused>>

CacheNext ==
    \/ \E r \in Readers : Miss(r) \/ ReadRow(r) \/ Fill(r) \/ FillFails(r)
    \/ \E e \in Editors : Update(e) \/ DeleteKey(e) \/ DeleteFails(e)
    \/ UpdateCategories
    \/ AdminEdits
    \/ CacheTicks

----------------------------------------------------------------------------
(* Property *)

\* A cached profile that differs from the row is explained by an update that has not
\* deleted it yet, a failed deletion, an edit of another kind, or an answer that was
\* computed before an update and stored after it; and it was current within the last
\* Ttl, however often it is served.
StaleIsExplained ==
    Live => /\ entry.val # row => excused \/ \E e \in Editors : edit[e]
            /\ tick - current[entry.val] < Ttl
============================================================================
