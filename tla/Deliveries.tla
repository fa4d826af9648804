----------------------------- MODULE Deliveries -----------------------------
(***************************************************************************)
(* What a sale sends out: one webhook delivery for each creator of the     *)
(* passes sold, and an e-mail to each creator who has an address.  Both    *)
(* are started and not awaited.  A delivery reads the creator's webhooks   *)
(* and posts to one after the other; creators register and remove          *)
(* webhooks meanwhile.                                                     *)
(***************************************************************************)
EXTENDS Sequences, FiniteSets, SequencesExt

CONSTANTS
    Sales,
    Creators,
    Mailed,      \* creators with an e-mail address
    Hooks,
    HookOwner,   \* WebhookConfig.creatorId
    BundleOf     \* the creators of the passes of a sale, in order

ASSUME DeliveriesAssumption ==
    /\ IsFiniteSet(Hooks)
    /\ HookOwner \in [Hooks -> Creators]
    /\ BundleOf \in [Sales -> Seq(Creators)]

VARIABLES
    hook,       \* "absent", "on" or "removed"
    delivery,   \* by sale and creator
    posted,     \* by sale and creator, the webhooks a request was sent to, in order
    mailed,     \* by sale, the creators an e-mail was attempted to
    kept,       \* history: webhooks on from before the delivery and not removed since
    broken      \* history: deliveries whose first query failed or whose process died

deliveryVars == <<hook, delivery, posted, mailed, kept, broken>>

Pairs == Sales \X Creators
Unsent == [pc |-> "unsent", todo |-> <<>>]
Done   == [pc |-> "done", todo |-> <<>>]
On(c)  == {h \in Hooks : hook[h] = "on" /\ HookOwner[h] = c}

DeliveriesInit ==
    /\ hook = [h \in Hooks |-> "absent"]
    /\ delivery = [d \in Pairs |-> Unsent]
    /\ posted = [d \in Pairs |-> <<>>]
    /\ mailed = [x \in Sales |-> {}]
    /\ kept = [d \in Pairs |-> {}]
    /\ broken = {}

RegisterHook(h) ==
    /\ hook[h] = "absent"
    /\ hook' = [hook EXCEPT ![h] = "on"]
    /\ UNCHANGED <<delivery, posted, mailed, kept, broken>>

RemoveHook(h) ==
    /\ hook[h] = "on"
    /\ hook' = [hook EXCEPT ![h] = "removed"]
    /\ kept' = [d \in Pairs |-> kept[d] \ {h}]
    /\ UNCHANGED <<delivery, posted, mailed, broken>>

\* The grouping of a bundle's passes by creator.
ByCreator(x) == ToSet(BundleOf[x])

\* The creators a mail is sent to; a mail that fails is logged and forgotten.
MailsTo(x) == ByCreator(x) \cap Mailed

\* The sale is committed; its deliveries and e-mails are started.
Announce(x) ==
    /\ \A c \in Creators : delivery[x, c] = Unsent
    /\ delivery' = [d \in Pairs |-> IF d[1] = x
                                    THEN IF d[2] \in ByCreator(x) THEN [Unsent EXCEPT !.pc = "read"] ELSE Done
                                    ELSE delivery[d]]
    /\ mailed' = [mailed EXCEPT ![x] = MailsTo(x)]
    /\ kept' = [d \in Pairs |-> IF d[1] = x THEN On(d[2]) ELSE kept[d]]
    /\ UNCHANGED <<hook, posted, broken>>

\* A pass bought on chain or given away has one creator.
AnnouncePass(x) == Len(BundleOf[x]) = 1 /\ Announce(x)

AnnounceBundle(x) == Announce(x)

\* findMany: active webhooks in any order; with none the delivery is over.
ReadHooks(d) ==
    /\ delivery[d].pc = "read"
    /\ \E s \in SetToSeqs(On(d[2])) :
          delivery' = [delivery EXCEPT ![d] = IF s = <<>> THEN Done ELSE [pc |-> "post", todo |-> s]]
    /\ UNCHANGED <<hook, posted, mailed, kept, broken>>

\* The query fails and is logged, or the process dies.
DeliveryBreaks(d) ==
    /\ delivery[d].pc \in {"read", "post"}
    /\ delivery' = [delivery EXCEPT ![d] = Done]
    /\ broken' = broken \cup {d}
    /\ UNCHANGED <<hook, posted, mailed, kept>>

\* Mutant: a request that throws ends the loop.
PostMutant(d) ==
    /\ delivery[d].pc = "post"
    /\ posted' = [posted EXCEPT ![d] = Append(@, Head(delivery[d].todo))]
    /\ \E left \in {Tail(delivery[d].todo), <<>>} :
          delivery' = [delivery EXCEPT ![d] = IF left = <<>> THEN Done ELSE [@ EXCEPT !.todo = left]]
    /\ UNCHANGED <<hook, mailed, kept, broken>>

\* The request is answered, answered with an error or throws: the loop goes on.
Post(d) ==
    LET left == Tail(delivery[d].todo) IN
    /\ delivery[d].pc = "post"
    /\ posted' = [posted EXCEPT ![d] = Append(@, Head(delivery[d].todo))]
    /\ delivery' = [delivery EXCEPT ![d] = IF left = <<>> THEN Done ELSE [@ EXCEPT !.todo = left]]
    /\ UNCHANGED <<hook, mailed, kept, broken>>

DeliveriesNext ==
    \/ \E h \in Hooks : RegisterHook(h) \/ RemoveHook(h)
    \/ \E x \in Sales : AnnouncePass(x) \/ AnnounceBundle(x)
    \/ \E d \in Pairs : ReadHooks(d) \/ Post(d) \/ DeliveryBreaks(d)

----------------------------------------------------------------------------
(* Property *)

\* When a sale's delivery is over, every webhook of every creator who sold in it was
\* tried, if it was on from the sale until then, though other endpoints fail and
\* webhooks come and go; none is tried twice, nor one of another creator's; and every
\* one of those creators who has an address is mailed.
SaleAnnounced ==
    \A x \in Sales, c \in Creators :
        LET d == <<x, c>> IN
        /\ delivery[d] = Done /\ d \notin broken /\ c \in ByCreator(x) =>
              kept[d] \subseteq ToSet(posted[d]) /\ (c \in Mailed => c \in mailed[x])
        /\ IsInjective(posted[d])
        /\ \A h \in ToSet(posted[d]) : HookOwner[h] = c /\ c \in ByCreator(x)
============================================================================
