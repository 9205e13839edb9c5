--------------------------- MODULE ContentMarket ---------------------------
(***************************************************************************)
(* The content market of the chain: submitting content with a publishing   *)
(* fee in escrow, buying it with the price in escrow, the seeders' key     *)
(* deliveries and proofs of custody, and the housekeeping of chain         *)
(* maintenance that returns what is left in escrow                         *)
(* (decent_evaluator.cpp, db_decent.cpp).                                  *)
(*                                                                         *)
(* Operations are evaluated at the head block's time; a block ends by      *)
(* moving that time and, when due, by maintenance.  Every hardfork is      *)
(* taken to have passed, operation fees are zero, signatures and proofs    *)
(* are valid.  An operation that throws changes nothing and is no step.    *)
(***************************************************************************)
EXTENDS Integers, FiniteSets, Functions

CONSTANTS
  Account,        \* every account; authors, consumers and seeders among them
  Author, Consumer, Seeder,
  URI,            \* contents by their URI
  Splits,         \* co_authors maps: functions from accounts to basis points
  Subscribed,     \* pairs <<consumer, author>> with a running subscription
  Fees,           \* publishing fees that are offered
  Prices,         \* prices content is submitted with: [asset, amount]
  Payments,       \* payments that are offered: [asset, amount]
  Durations,      \* times to expiration that content is submitted with
  SeederPrices,   \* prices per day that seeders ask for
  Size, Space,    \* size of a content, space a seeder offers
  Rate, Feed,     \* UIA and MIA per DCT
  Wealth,         \* initial balance of DCT and UIA of authors and consumers
  Pool,           \* initial core_pool and asset_pool of the UIA
  Parameters,     \* chain_parameters that miners may agree on: [interval, maint]
  Day,
  Word,           \* number of values of a uint32_t
  MaxSlots,       \* bound: slots between two blocks
  MaxTime,        \* bound on head_block_time
  MaxMaints,      \* bound: maintenances; the last one adopts no new parameters
  None

ASSUME TimeAssumption ==
  {Day, MaxTime, MaxSlots, MaxMaints} \subseteq Nat \ {0}
(* chain_parameters::validate; a parameter change may name any of them.    *)
ASSUME ParameterAssumption ==
  /\ Parameters \subseteq [interval : Nat \ {0}, maint : Nat \ {0}]
  /\ \A p \in Parameters : p.maint > p.interval /\ p.maint % p.interval = 0
ASSUME AccountAssumption ==
  /\ Author \cup Consumer \cup Seeder \subseteq Account
  /\ IsFiniteSet(Account) /\ IsFiniteSet(URI)
ASSUME SplitAssumption ==
  \A co \in Splits : DOMAIN co \subseteq Account /\ co \in [DOMAIN co -> Nat]
ASSUME AmountAssumption ==
  /\ {Size, Space, Wealth, Pool} \cup Fees \cup SeederPrices \subseteq Nat
  /\ {Rate, Feed, Word} \subseteq Nat \ {0}
  /\ Durations \subseteq Int
  /\ Prices \subseteq [asset : {"DCT", "UIA", "MIA"}, amount : Int]
  /\ Payments \subseteq [asset : {"DCT", "UIA", "MIA"}, amount : Nat]

VARIABLES
  now,         \* head_block_time
  lastBudget,  \* dynamic_global_property_object::last_budget_time
  nextMaint,   \* dynamic_global_property_object::next_maintenance_time
  params,      \* block_interval and maintenance_interval of the parameters
  maints,      \* history: the maintenances, and the block interval each adopted
  bal,         \* account_balance_index, by account and asset
  pool,        \* core_pool and asset_pool of the UIA
  content,     \* content_index, by URI
  buying,      \* buying_index, by consumer and URI
  seeder,      \* seeder_index: price and free space
  stats        \* seeding_statistics_index

vars == <<now, lastBudget, nextMaint, params, maints, bal, pool, content, buying, seeder, stats>>

Asset == {"DCT", "UIA", "MIA"}

-----------------------------------------------------------------------------
(* Balances and conversion                                                 *)

(* adjust_balance on a balance function.                                   *)
Adjusted(b, a, asset, d) == [b EXCEPT ![a][asset] = @ + d]

(* are_assets_exchangeable, with one UIA that is exchangeable.             *)
Exchangeable(paid, price) == paid # "MIA"

(* asset_object::convert into DCT and on into the price's asset, and what  *)
(* it adds to the UIA's pools.                                             *)
InCore(x) == IF x.asset = "UIA" THEN x.amount \div Rate ELSE x.amount

Converted(x, asset) ==
  CASE x.asset = asset -> x.amount
    [] x.asset # asset /\ asset = "DCT" -> InCore(x)
    [] x.asset # asset /\ asset = "UIA" -> InCore(x) * Rate
    [] x.asset # asset /\ asset = "MIA" -> InCore(x) * Feed

(* Faulty: the asset pool is not debited.                                  *)
PoolAfterGrows(x, asset) ==
  IF x.asset = asset THEN pool
  ELSE [core  |-> pool.core - (IF x.asset = "UIA" THEN InCore(x) ELSE 0)
                            + (IF asset = "UIA" THEN InCore(x) ELSE 0),
        asset |-> pool.asset + (IF x.asset = "UIA" THEN x.amount ELSE 0)]

PoolAfter(x, asset) ==
  IF x.asset = asset THEN pool
  ELSE [core  |-> pool.core - (IF x.asset = "UIA" THEN InCore(x) ELSE 0)
                            + (IF asset = "UIA" THEN InCore(x) ELSE 0),
        asset |-> pool.asset + (IF x.asset = "UIA" THEN x.amount ELSE 0)
                             - (IF asset = "UIA" THEN InCore(x) * Rate ELSE 0)]

-----------------------------------------------------------------------------
(* Seeders                                                                 *)

NoStats == [missed |-> 0, delivered |-> 0, seeded |-> 0, requested |-> 0]

(* ready_to_publish: the first one also creates the statistics.            *)
ReadyToPublish(s, price) ==
  /\ seeder' = [seeder EXCEPT ![s] = [price |-> price, free |-> Space]]
  /\ stats' = [stats EXCEPT ![s] = IF seeder[s] = None THEN NoStats ELSE @]
  /\ UNCHANGED <<now, lastBudget, nextMaint, params, maints, bal, pool, content, buying>>

-----------------------------------------------------------------------------
(* Content                                                                 *)

SplitSum(co) == SumFunctionOnSet(co, DOMAIN co)

(* The author gets what the co-authors leave, or is one of them.           *)
SplitOk(a, co) ==
  IF a \in DOMAIN co THEN SplitSum(co) = 10000 ELSE SplitSum(co) < 10000

Days(exp) == (exp - now) \div Day

(* content_submit of a new URI is accepted: the fee covers the seeders'    *)
(* prices, and they have the space.                                        *)
Acceptable(a, co, parts, quorum, fee, exp) ==
  /\ SplitOk(a, co)
  /\ Days(exp) >= 1
  /\ IF parts = {} THEN quorum = 0 ELSE quorum >= 2 /\ Cardinality(parts) >= quorum
  /\ \A s \in parts : seeder[s] # None /\ seeder[s].free > Size
  /\ Days(exp) * SumFunction([s \in parts |-> seeder[s].price * Size]) <= fee
  /\ fee <= bal[a]["DCT"]

(* content_submit of a new URI; without seeders it is simplified content.  *)
ContentSubmit(u, a, co, price, parts, quorum, fee, exp, cd) ==
  /\ content[u] = None
  /\ Acceptable(a, co, parts, quorum, fee, exp)
  /\ content' = [content EXCEPT ![u] =
       [author |-> a, co |-> co, price |-> price, exp |-> exp, escrow |-> fee,
        parts |-> parts, quorum |-> quorum, cd |-> cd, blocked |-> FALSE,
        proof |-> [s \in Seeder |-> None],
        sprice |-> [s \in Seeder |-> IF s \in parts THEN seeder[s].price ELSE None],
        bought |-> 0, ratings |-> 0]]
  /\ bal' = Adjusted(bal, a, "DCT", -fee)
  /\ seeder' = [s \in Seeder |-> IF s \in parts THEN [seeder[s] EXCEPT !.free = @ - Size]
                                 ELSE seeder[s]]
  /\ stats' = [s \in Seeder |-> IF s \in parts THEN [stats[s] EXCEPT !.requested = (@ + 1) % Word]
                                ELSE stats[s]]
  /\ UNCHANGED <<now, lastBudget, nextMaint, params, maints, pool, buying>>

(* content_submit of a known URI: price and co-authors change; the         *)
(* expiration too, unless there is custody data.                           *)
ContentResubmit(u, co, price, exp) ==
  /\ content[u] # None
  /\ SplitOk(content[u].author, co)
  /\ Days(exp) >= 1
  /\ content[u].cd => exp = content[u].exp
  /\ content' = [content EXCEPT ![u].co = co, ![u].price = price, ![u].exp = exp]
  /\ UNCHANGED <<now, lastBudget, nextMaint, params, maints, bal, pool, buying, seeder, stats>>

(* content_cancellation: expires in a day at the latest.                   *)
ContentCancel(u) ==
  /\ content[u] # None
  /\ content[u].exp > now
  /\ ~content[u].blocked
  /\ content' = [content EXCEPT ![u].blocked = TRUE,
                                ![u].exp = IF @ > now + Day THEN now + Day ELSE @]
  /\ UNCHANGED <<now, lastBudget, nextMaint, params, maints, bal, pool, buying, seeder, stats>>

-----------------------------------------------------------------------------
(* Buying                                                                  *)

(* content_payout: floored shares for the co-authors, the rest for the     *)
(* author.                                                                 *)
Share(co, a, x) == IF a \in DOMAIN co THEN (x * co[a]) \div 10000 ELSE 0
(* Faulty: the author gets the price on top of the co-authors' shares.     *)
PayoutTwice(b, c, asset, x) ==
  [a \in Account |-> [b[a] EXCEPT ![asset] = @ + Share(c.co, a, x)
                                               + (IF a = c.author THEN x ELSE 0)]]

Payout(b, c, asset, x) ==
  LET rest == x - SumFunction([a \in DOMAIN c.co |-> Share(c.co, a, x)])
  IN [a \in Account |-> [b[a] EXCEPT ![asset] = @ + Share(c.co, a, x)
                                                  + (IF a = c.author THEN rest ELSE 0)]]

(* request_to_buy.  Subscribers pay nothing; simplified content is paid    *)
(* out at once, otherwise the price waits in escrow.  The index allows one *)
(* buying per consumer and URI.                                            *)
RequestToBuy(c, u, x) ==
  /\ content[u] # None
  /\ buying[<<c, u>>] = None
  /\ x.amount <= bal[c][x.asset]
  /\ content[u].exp > now
  /\ ~content[u].blocked
  /\ LET k     == content[u]
         asset == k.price.asset
         free  == <<c, k.author>> \in Subscribed
         paid  == IF free THEN 0 ELSE x.amount
         got   == IF free THEN 0 ELSE Converted(x, asset)
         now1  == Adjusted(bal, c, x.asset, -paid)
         simple == k.parts = {}
     IN /\ ~free => /\ Exchangeable(x.asset, asset)
                    /\ PoolAfter(x, asset).core >= 0
                    /\ PoolAfter(x, asset).asset >= 0
                    /\ got >= k.price.amount
        /\ pool' = IF free THEN pool ELSE PoolAfter(x, asset)
        /\ buying' = [buying EXCEPT ![<<c, u>>] =
             [asset |-> asset, paid |-> got, escrow |-> IF simple THEN 0 ELSE got,
              exp |-> now + Day, answered |-> {}, delivered |-> simple,
              expired |-> FALSE, rated |-> FALSE]]
        /\ bal' = IF simple THEN Payout(now1, k, asset, got) ELSE now1
        /\ content' = IF simple THEN [content EXCEPT ![u].bought = @ + 1] ELSE content
        /\ stats' = [s \in Seeder |->
                       IF s \in k.parts THEN [stats[s] EXCEPT !.missed = (@ + 1) % Word]
                       ELSE stats[s]]
  /\ UNCHANGED <<now, lastBudget, nextMaint, params, maints, seeder>>

(* Faulty: forgets one of the two ways to be settled.                      *)
ReopensExpired(b) == b.delivered
ReopensDelivered(b) == b.expired

(* A buying that was settled: paid to the author or refunded.              *)
Closed(b) == b.delivered \/ b.expired

(* deliver_keys: the first answer of a seeder is counted, the one that     *)
(* makes the quorum pays the author, and a late one below the quorum gives *)
(* the escrow back.                                                        *)
DeliverKeys(s, c, u) ==
  /\ buying[<<c, u>>] # None
  /\ s \in content[u].parts
  /\ LET b   == buying[<<c, u>>]
         k   == content[u]
         b1  == [b EXCEPT !.answered = @ \cup {s}]
         full == Cardinality(b1.answered) >= k.quorum
         late == b.exp < now
     IN /\ stats' = IF s \in b.answered THEN stats
                    ELSE [stats EXCEPT ![s].missed = (@ - 1) % Word,
                                       ![s].delivered = (@ + 1) % Word]
        /\ \/ /\ Closed(b) \/ (~full /\ ~late)
              /\ buying' = [buying EXCEPT ![<<c, u>>] = b1]
              /\ UNCHANGED <<bal, content>>
           \/ /\ ~Closed(b) /\ full
              /\ buying' = [buying EXCEPT ![<<c, u>>] = [b1 EXCEPT !.escrow = 0, !.delivered = TRUE]]
              /\ bal' = Payout(bal, k, b.asset, b.paid)
              /\ content' = [content EXCEPT ![u].bought = @ + 1]
           \/ /\ ~Closed(b) /\ ~full /\ late
              /\ buying' = [buying EXCEPT ![<<c, u>>] = [b1 EXCEPT !.escrow = 0, !.expired = TRUE]]
              /\ bal' = Adjusted(bal, c, b.asset, b.escrow)
              /\ UNCHANGED content
  /\ UNCHANGED <<now, lastBudget, nextMaint, params, maints, pool, seeder>>

(* leave_rating_and_comment: once per buying.                              *)
LeaveRating(c, u) ==
  /\ buying[<<c, u>>] # None
  /\ buying[<<c, u>>].delivered
  /\ ~buying[<<c, u>>].rated
  /\ buying' = [buying EXCEPT ![<<c, u>>].rated = TRUE]
  /\ content' = [content EXCEPT ![u].ratings = @ + 1]
  /\ UNCHANGED <<now, lastBudget, nextMaint, params, maints, bal, pool, seeder, stats>>

-----------------------------------------------------------------------------
(* Proofs of custody                                                       *)

(* Faulty: the reward may exceed what is left in escrow.                   *)
RewardUncapped(k, s) ==
  LET diff  == IF now - k.proof[s] > Day THEN Day ELSE now - k.proof[s]
      ratio == (10000 * diff) \div Day
      loss  == (10000 - ratio) \div 4
      full  == (ratio * (10000 - loss)) \div 10000
  IN (k.sprice[s] * full * Size) \div 10000

(* The share of a day since the last proof, less a quarter of what is      *)
(* missing to a full day; never more than the escrow holds.                *)
Reward(k, s) ==
  LET diff  == IF now - k.proof[s] > Day THEN Day ELSE now - k.proof[s]
      ratio == (10000 * diff) \div Day
      loss  == (10000 - ratio) \div 4
      full  == (ratio * (10000 - loss)) \div 10000
      sum   == (k.sprice[s] * full * Size) \div 10000
  IN IF sum > k.escrow THEN k.escrow ELSE sum

(* proof_of_custody of content with seeders: any seeder's first proof only *)
(* counts; the content's own seeders are paid for the later ones.          *)
ProofOfCustody(s, u) ==
  /\ content[u] # None
  /\ content[u].parts # {}
  /\ content[u].exp > now
  /\ seeder[s] # None
  /\ \/ /\ content[u].proof[s] = None
        /\ content' = [content EXCEPT ![u].proof[s] = now]
        /\ stats' = [stats EXCEPT ![s].seeded = (@ + 1) % Word,
                                  ![s].requested = IF @ > 0 THEN @ - 1 ELSE 0]
        /\ UNCHANGED bal
     \/ /\ content[u].proof[s] # None
        /\ content[u].sprice[s] # None
        /\ content' = [content EXCEPT ![u].proof[s] = now,
                                      ![u].escrow = @ - Reward(content[u], s)]
        /\ bal' = Adjusted(bal, s, "DCT", Reward(content[u], s))
        /\ UNCHANGED stats
  /\ UNCHANGED <<now, lastBudget, nextMaint, params, maints, pool, buying, seeder>>

-----------------------------------------------------------------------------
(* Blocks and maintenance                                                  *)

(* Faulty: what expires right at head_block_time is left for the next      *)
(* maintenance, which starts behind it.                                    *)
DueBefore(exp, t) == lastBudget + params.interval <= exp /\ exp < t

(* What decent_housekeeping at time t takes as expired since the last one. *)
Due(exp, t) == lastBudget + params.interval <= exp /\ exp <= t

(* Faulty: a buying that was delivered is refunded as well.                *)
RefundedAll(c, u, t) == buying[<<c, u>>] # None /\ Due(buying[<<c, u>>].exp, t)

Refunded(c, u, t) ==
  buying[<<c, u>>] # None /\ Due(buying[<<c, u>>].exp, t) /\ ~buying[<<c, u>>].delivered

(* set_and_reset_seeding_stats, content_expire and buying_expire.          *)
Housekeeping(t) ==
  LET out == {u \in URI : content[u] # None /\ Due(content[u].exp, t)}
      due == {p \in Consumer \X URI : Refunded(p[1], p[2], t)}
      back(a) == SumFunctionOnSet([u \in out |-> content[u].escrow],
                                  {u \in out : content[u].author = a})
      refund(a, x) == SumFunctionOnSet([p \in due |-> buying[p].escrow],
                                       {p \in due : p[1] = a /\ buying[p].asset = x})
  IN /\ bal' = [a \in Account |-> [x \in Asset |->
                  bal[a][x] + refund(a, x) + (IF x = "DCT" THEN back(a) ELSE 0)]]
     /\ content' = [u \in URI |-> IF u \in out THEN [content[u] EXCEPT !.escrow = 0] ELSE content[u]]
     /\ buying' = [p \in Consumer \X URI |->
                     IF p \in due THEN [buying[p] EXCEPT !.escrow = 0, !.expired = TRUE]
                     ELSE buying[p]]
     /\ stats' = [s \in Seeder |->
                    [NoStats EXCEPT !.seeded =
                       (stats[s].seeded - Cardinality({u \in out : s \in content[u].parts
                                                                 /\ content[u].proof[s] # None})) % Word]]

(* _apply_block after the block's transactions: the head time moves to a   *)
(* later slot and, when it is due, maintenance takes place.  Housekeeping  *)
(* still goes by the old parameters; then the pending ones, which a        *)
(* proposal may have set since, are adopted.                               *)
NextBlock(slots, pending) ==
  LET t == (now \div params.interval + slots) * params.interval
  IN /\ t <= MaxTime /\ Cardinality(maints) <= MaxMaints
     /\ Cardinality(maints) = MaxMaints => pending = params
     /\ now' = t
     /\ IF nextMaint <= t
        THEN /\ Housekeeping(t)
             /\ params' = pending
             /\ nextMaint' = nextMaint + ((t - nextMaint) \div pending.maint + 1) * pending.maint
             /\ lastBudget' = t
             /\ maints' = maints \cup {[time |-> t, interval |-> pending.interval]}
        ELSE UNCHANGED <<bal, content, buying, stats, params, maints, nextMaint, lastBudget>>
     /\ UNCHANGED <<pool, seeder>>

-----------------------------------------------------------------------------
Init ==
  /\ now = 0
  /\ lastBudget = 0
  /\ params \in Parameters
  /\ nextMaint = params.maint
  /\ maints = {[time |-> 0, interval |-> params.interval]}
  /\ bal = [a \in Account |-> [x \in Asset |->
             IF a \in Author \cup Consumer /\ x # "MIA" THEN Wealth ELSE 0]]
  /\ pool = [core |-> Pool, asset |-> Pool]
  /\ content = [u \in URI |-> None]
  /\ buying = [p \in Consumer \X URI |-> None]
  /\ seeder = [s \in Seeder |-> None]
  /\ stats = [s \in Seeder |-> NoStats]

Next ==
  \/ \E s \in Seeder, price \in SeederPrices : ReadyToPublish(s, price)
  \/ \E u \in URI, a \in Author, co \in Splits, price \in Prices, parts \in SUBSET Seeder,
        quorum \in 0..Cardinality(Seeder), fee \in Fees, d \in Durations, cd \in BOOLEAN :
       ContentSubmit(u, a, co, price, parts, quorum, fee, now + d, cd)
  \/ \E u \in URI, co \in Splits, price \in Prices, d \in Durations :
       ContentResubmit(u, co, price, now + d)
  \/ \E u \in URI : ContentCancel(u)
  \/ \E c \in Consumer, u \in URI, x \in Payments : RequestToBuy(c, u, x)
  \/ \E s \in Seeder, c \in Consumer, u \in URI : DeliverKeys(s, c, u)
  \/ \E c \in Consumer, u \in URI : LeaveRating(c, u)
  \/ \E s \in Seeder, u \in URI : ProofOfCustody(s, u)
  \/ \E k \in 1..MaxSlots, pending \in Parameters : NextBlock(k, pending)

Spec == Init /\ [][Next]_vars

-----------------------------------------------------------------------------
(* Properties                                                              *)

Time == 0..MaxTime
Money == Nat

(* seeder_object, seeding_statistics_object, content_object and            *)
(* buying_object.                                                          *)
SeederObject == [price : Money, free : Nat]
StatsObject == [missed : 0..(Word - 1), delivered : 0..(Word - 1),
                seeded : 0..(Word - 1), requested : 0..(Word - 1)]
ContentObject ==
  [author : Author, co : Splits, price : Prices, exp : Nat, escrow : Money,
   parts : SUBSET Seeder, quorum : Nat, cd : BOOLEAN, blocked : BOOLEAN,
   proof : [Seeder -> Time \cup {None}],
   sprice : [Seeder -> Money \cup {None}], bought : Nat, ratings : Nat]
BuyingObject ==
  [asset : Asset, paid : Money, escrow : Money, exp : Nat, answered : SUBSET Seeder,
   delivered : BOOLEAN, expired : BOOLEAN, rated : BOOLEAN]

ASSUME NoneAssumption ==
  None \notin SeederObject \cup ContentObject \cup BuyingObject \cup Nat

(* Every value has the type the code gives it; in particular no balance,   *)
(* escrow or pool is negative.                                             *)
TypeOK ==
  /\ {now, lastBudget} \subseteq Time
  /\ nextMaint \in Nat /\ params \in Parameters
  /\ bal \in [Account -> [Asset -> Money]]
  /\ pool \in [core : Money, asset : Money]
  /\ seeder \in [Seeder -> SeederObject \cup {None}]
  /\ stats \in [Seeder -> StatsObject]
  /\ content \in [URI -> ContentObject \cup {None}]
  /\ buying \in [Consumer \X URI -> BuyingObject \cup {None}]
  /\ \A u \in URI : content[u] # None =>
       /\ content[u].parts \subseteq {s \in Seeder : seeder[s] # None}
       /\ content[u].quorum <= Cardinality(content[u].parts)
  /\ \A p \in Consumer \X URI : buying[p] # None =>
       /\ content[p[2]] # None
       /\ buying[p].answered \subseteq content[p[2]].parts

(* The DCT that content u holds, and what buying p holds of an asset.      *)
ContentHeld(u) == IF content[u] = None THEN 0 ELSE content[u].escrow
BuyingHeld(p, asset) ==
  IF buying[p] = None THEN 0 ELSE IF buying[p].asset = asset THEN buying[p].escrow ELSE 0

InBalances(asset) == SumFunction([a \in Account |-> bal[a][asset]])
InBuyings(asset) == SumFunction([p \in Consumer \X URI |-> BuyingHeld(p, asset)])
InContents == SumFunction([u \in URI |-> ContentHeld(u)])
Total(asset) ==
  InBalances(asset) + InBuyings(asset) + (IF asset = "DCT" THEN InContents ELSE 0)
Supply == Wealth * Cardinality(Author \cup Consumer) + Pool

(* Whatever is bought, delivered, expired or proved, in any order, no      *)
(* token appears or disappears: balances, escrows and pools of DCT and of  *)
(* the UIA add up to what there was.                                       *)
Conservation == Total("DCT") + pool.core = Supply /\ Total("UIA") + pool.asset = Supply

(* A buying is settled once: what was paid is in escrow until the author   *)
(* is paid or the consumer refunded, and never are both.  The author is    *)
(* paid exactly when the quorum of keys was delivered in time to find the  *)
(* buying open.                                                            *)
SettledOnce ==
  \A p \in Consumer \X URI : buying[p] # None =>
    LET b == buying[p]
        full == Cardinality(b.answered) >= content[p[2]].quorum
    IN /\ ~(b.delivered /\ b.expired)
       /\ b.escrow = IF b.delivered \/ b.expired THEN 0 ELSE b.paid
       /\ b.delivered => full
       /\ full => b.delivered \/ b.expired

(* Each block interval that was adopted divides a day and the one before   *)
(* it; so it is as long as the parameters are left alone.                  *)
IntervalsDivide(history) ==
  /\ \A m \in history : Day % m.interval = 0
  /\ \A m, n \in history : m.time < n.time => m.interval % n.interval = 0

(* Less than a block interval after a maintenance, in the interval that it *)
(* adopted: neither that housekeeping looks there nor the next one.        *)
Overlooked(exp, history) ==
  \E m \in history : m.time < exp /\ exp < m.time + m.interval

(* The consumer's escrow does not outlive the maintenance after it         *)
(* expired, because buyings expire at block times: unless the interval was *)
(* changed to one that does not divide the old one (or a day), and the     *)
(* buying expires within an interval of that or a later maintenance.       *)
RefundedInTime ==
  \A p \in Consumer \X URI :
    buying[p] # None /\ ~Closed(buying[p]) /\ buying[p].exp <= lastBudget =>
      Overlooked(buying[p].exp, maints) /\ ~IntervalsDivide(maints)

(* Not met by the code, which takes the interval that is now in force for  *)
(* the one in which the last maintenance took place.                       *)
AlwaysRefunded ==
  \A p \in Consumer \X URI :
    buying[p] # None /\ ~Closed(buying[p]) => buying[p].exp > lastBudget

(* Not met by the code.  Content that expired by the last maintenance      *)
(* holds no escrow.                                                        *)
EscrowReturned ==
  \A u \in URI : content[u] # None /\ content[u].exp <= lastBudget => content[u].escrow = 0

(* The same, but for content that expires within an interval of a          *)
(* maintenance; and not at a block's time, unless intervals were changed   *)
(* to ones that do not divide the old ones.                                *)
AlignedEscrowReturned ==
  \A u \in URI :
    content[u] # None /\ content[u].exp <= lastBudget /\ content[u].escrow # 0 =>
      /\ Overlooked(content[u].exp, maints)
      /\ IntervalsDivide(maints) => \E m \in maints : content[u].exp % m.interval # 0

(* times_bought and num_of_ratings count the delivered and rated buyings.  *)
CountsMatch ==
  \A u \in URI : content[u] # None =>
    /\ content[u].bought = Cardinality({c \in Consumer : buying[<<c, u>>] # None /\ buying[<<c, u>>].delivered})
    /\ content[u].ratings = Cardinality({c \in Consumer : buying[<<c, u>>] # None /\ buying[<<c, u>>].rated})

(* num_of_content_seeded never exceeds the contents a seeder has proved.   *)
SeededCounts ==
  \A s \in Seeder :
    stats[s].seeded <= Cardinality({u \in URI : content[u] # None /\ content[u].proof[s] # None})

(* The key_delivery_ratio that maintenance would compute is a ratio, in    *)
(* hundredths of a percent.                                                *)
KeyDeliveryRatio(s) ==
  LET requests == (stats[s].delivered + stats[s].missed) % Word
  IN IF requests > 0 THEN (stats[s].delivered * 10000) \div requests ELSE 0
RatioInRange == \A s \in Seeder : KeyDeliveryRatio(s) <= 10000

(* process_budget's assertion: the supply of DCT is get_real_supply, which *)
(* adds the amounts of all buyings' escrows.                               *)
RealSupply ==
  InBalances("DCT") + InContents + pool.core
  + SumFunction([p \in Consumer \X URI |-> IF buying[p] = None THEN 0 ELSE buying[p].escrow])
  = Supply
=============================================================================
