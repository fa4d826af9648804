------------------------------ MODULE Services ------------------------------
(***************************************************************************)
(* Four services that share no table and never wait for one another: the   *)
(* content scheduler, webhook deliveries, the response cache and reports;  *)
(* and the indexer's search for a ledger, which touches no table at all.   *)
(* What one does is invisible to the others, so a behaviour here follows   *)
(* one of them and the states are the sum of theirs, not the product.      *)
(***************************************************************************)
EXTENDS Content, Deliveries, Cache, Reports, LedgerSearch

VARIABLE service

Init ==
    /\ service \in {"content", "deliveries", "cache", "reports", "search"}
    /\ ContentInit
    /\ DeliveriesInit
    /\ CacheInit
    /\ ReportsInit
    /\ SearchInit /\ (service # "search" => NoSearch)

vars == <<service, contentVars, deliveryVars, cacheVars, reportVars, searchVars>>

Next ==
    /\ UNCHANGED service
    /\ \/ /\ service = "content"
          /\ ContentNext
          /\ UNCHANGED <<deliveryVars, cacheVars, reportVars, searchVars>>
       \/ /\ service = "deliveries"
          /\ DeliveriesNext
          /\ UNCHANGED <<contentVars, cacheVars, reportVars, searchVars>>
       \/ /\ service = "cache"
          /\ CacheNext
          /\ UNCHANGED <<contentVars, deliveryVars, reportVars, searchVars>>
       \/ /\ service = "reports"
          /\ ReportsNext
          /\ UNCHANGED <<contentVars, deliveryVars, cacheVars, searchVars>>
       \/ /\ service = "search"
          /\ SearchNext
          /\ UNCHANGED <<contentVars, deliveryVars, cacheVars, reportVars>>

\* The fairness of the scheduler and of the search asks nothing of a behaviour that
\* follows another service: no schedule is ever due in it, and nothing is searched.
Spec == Init /\ [][Next]_vars /\ ContentFairness /\ SearchFairness
============================================================================
