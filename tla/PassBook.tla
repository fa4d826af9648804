------------------------------ MODULE PassBook ------------------------------
(***************************************************************************)
(* The book of sales a pass store promises to keep, with no requests, no   *)
(* queries and no clock: a pass is entered once, its owner and payer are   *)
(* then fixed, it may be retired once, and its account is settled at most  *)
(* once.  A trial has no account to settle.                                *)
(***************************************************************************)
CONSTANTS PassIds, Tiers, Fans, None

VARIABLE book        \* by pass, its entry or None

\* Order: the tiers asked for in the sale the pass comes from.
Entries == [order : SUBSET Tiers, tier : Tiers, fan : Fans, payer : Fans, active : BOOLEAN,
            account : {"trial", "due", "paid", "lost"}]

Init == book = [p \in PassIds |-> None]

\* An order is sold, all of it at once or nothing of it: one pass per tier asked for.
Sell(P) ==
    /\ \A p \in P : /\ book[p] = None
                    /\ book'[p] \in Entries
                    /\ book'[p].active
                    /\ book'[p].account # "lost"
    /\ \A p \in P : book'[p].order = {book'[q].tier : q \in P}
    /\ \A p, q \in P : book'[p].tier = book'[q].tier => p = q
    /\ \A p \in PassIds \ P : book'[p] = book[p]

\* Passes are retired, for good: they have expired or their owner leaves.
Retire(P) ==
    \A p \in PassIds :
        IF p \in P
        THEN book[p] # None /\ book'[p] = [book[p] EXCEPT !.active = FALSE]
        ELSE book'[p] = book[p]

\* What is due becomes paid ...
Settle(p) ==
    /\ book[p] # None /\ book[p].account = "due"
    /\ book' = [book EXCEPT ![p].account = "paid"]

\* ... or is lost, when the write fails or the process dies.
WriteOff(P) ==
    \A p \in PassIds :
        IF p \in P
        THEN /\ book[p] # None /\ book[p].account = "due"
             /\ book'[p] = [book[p] EXCEPT !.account = "lost"]
        ELSE book'[p] = book[p]

Next ==
    /\ book' \in [PassIds -> Entries \cup {None}]
    /\ \/ \E P \in SUBSET PassIds : Sell(P) \/ Retire(P) \/ WriteOff(P)
       \/ \E p \in PassIds : Settle(p)

Spec == Init /\ [][Next]_book
=============================================================================
