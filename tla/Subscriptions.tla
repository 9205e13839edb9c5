---------------------------- MODULE Subscriptions ----------------------------
(***************************************************************************)
(* Subscriptions of consumers to authors (subscription_evaluator.cpp, the  *)
(* subscription part of account_update_evaluator and of                    *)
(* database::decent_housekeeping) over the multi-index container that      *)
(* holds them.                                                             *)
(*                                                                         *)
(* Two loops walk an index whose key they change on the way, so the order  *)
(* of the elements is part of the state: an index is the sequence of the   *)
(* object ids it holds.  Several nodes apply the same blocks; a node may   *)
(* besides apply something that it undoes again (a pending transaction, a  *)
(* block of a fork) and be restarted.                                      *)
(***************************************************************************)
EXTENDS Integers, FiniteSets, FiniteSetsExt, Sequences, SequencesExt

CONSTANTS
  Nodes,
  Consumers, Authors,
  Terms,     \* the subscription options an author may set
  Rates,     \* price feeds of the monitored asset; 0 is no feed
  Prices,    \* what a consumer may offer
  Funds,     \* balance of a consumer at the start
  Interval,  \* maintenance_interval
  MaxGap,    \* bound: time between two blocks
  MaxTime,   \* bound: time of the last block
  MaxSubs,   \* bound: number of subscriptions
  MaxUndone  \* bound: undone changes and restarts

Options == [allow : BOOLEAN, asset : {"DCT", "monitored"}, price : Nat, period : Nat]

ASSUME TermsAssumption ==
  /\ Terms \subseteq Options
  /\ \A t \in Terms : t.allow => t.price > 0 /\ t.period > 0
  /\ \E t \in Terms : t.allow
ASSUME NumberAssumption ==
  /\ Rates \subseteq Nat /\ Prices \subseteq Nat /\ Funds \in Nat
  /\ Interval \in Nat \ {0} /\ MaxGap \in Nat \ {0}
  /\ MaxTime \in Nat /\ MaxSubs \in Nat /\ MaxUndone \in Nat
ASSUME AccountAssumption == Consumers \cap Authors = {} /\ IsFiniteSet(Consumers \cup Authors)

Accounts == Consumers \cup Authors
Ids == 1..MaxSubs

VARIABLES
  db,     \* the objects and indexes of each node
  now,    \* head_block_time
  undone  \* how often something was undone or a node restarted

vars == <<db, now, undone>>

(* agreed is a history: the author's options when renewal was switched on. *)
SubscriptionType ==
  [from : Consumers, to : Authors, expiration : Nat, automatic_renewal : BOOLEAN,
   agreed : Options]

DbType ==
  [subs : Seq(SubscriptionType), by_renewal : Seq(Ids), by_to_renewal : [Authors -> Seq(Ids)],
   balance : [Accounts -> Int], options : [Authors -> Options], rate : Nat]

-----------------------------------------------------------------------------
(* Non-unique ordered indexes over automatic_renewal: by_renewal has the   *)
(* value TRUE first; by_to_renewal has, for each author, FALSE first.      *)

Before(subs, first, x, y) ==
  subs[x].automatic_renewal = first /\ subs[y].automatic_renewal # first

Position(index, id) == CHOOSE j \in DOMAIN index : index[j] = id

(* Insert: behind the elements with an equal key.                          *)
Link(index, id, subs, first) ==
  LET after == {i \in DOMAIN index : Before(subs, first, id, index[i])}
  IN InsertAt(index, IF after = {} THEN Len(index) + 1 ELSE Min(after), id)

(* Faulty: the element stays where it is.                                  *)
RelinkNever(index, id, subs, first) == index
(* Modify: an element that still fits between its neighbours stays there.  *)
Relink(index, id, subs, first) ==
  LET i    == Position(index, id)
      fits == /\ i > 1 => ~Before(subs, first, id, index[i - 1])
              /\ i < Len(index) => ~Before(subs, first, index[i + 1], id)
  IN IF fits THEN index ELSE Link(RemoveAt(index, i), id, subs, first)

(* The element that ++ takes an iterator to, or 0 at the end.              *)
Following(index, id) ==
  LET i == Position(index, id)
  IN IF i = Len(index) THEN 0 ELSE index[i + 1]

(* An object is created, given a new value, removed.                       *)
Create(D, s) ==
  LET subs == Append(D.subs, s)
  IN [D EXCEPT !.subs = subs,
               !.by_renewal = Link(@, Len(subs), subs, TRUE),
               !.by_to_renewal[s.to] = Link(@, Len(subs), subs, FALSE)]
Modify(D, id, s) ==
  LET subs == [D.subs EXCEPT ![id] = s]
  IN [D EXCEPT !.subs = subs,
               !.by_renewal = Relink(@, id, subs, TRUE),
               !.by_to_renewal[s.to] = Relink(@, id, subs, FALSE)]
RemoveLast(D) ==
  LET id == Len(D.subs)
  IN [D EXCEPT !.subs = Front(@), !.by_renewal = RemoveAt(@, Position(@, id)),
               !.by_to_renewal[D.subs[id].to] = RemoveAt(@, Position(@, id))]

(* index::open inserts the objects in the order of their ids.              *)
Emptied(D) == [D EXCEPT !.subs = <<>>, !.by_renewal = <<>>,
                        !.by_to_renewal = [a \in Authors |-> <<>>]]
Reload(D) ==
  LET loaded[i \in 0..Len(D.subs)] ==
        IF i = 0 THEN Emptied(D) ELSE Create(loaded[i - 1], D.subs[i])
  IN loaded[Len(D.subs)]

-----------------------------------------------------------------------------
(* Operations, as functions of what a node holds                           *)

(* The author's price in DCT, or 0 if there is no feed.                    *)
DctPrice(D, a) == D.options[a].price * (IF D.options[a].asset = "DCT" THEN 1 ELSE D.rate)
HasPrice(D, a) == D.options[a].asset = "DCT" \/ D.rate # 0

Pay(D, from, to, amount) ==
  [D EXCEPT !.balance = [D.balance EXCEPT ![from] = @ - amount, ![to] = @ + amount]]

(* A running subscription is lengthened, an expired one starts again.      *)
Subscribed(D, from, to) ==
  LET have   == {id \in DOMAIN D.subs : D.subs[id].from = from /\ D.subs[id].to = to}
      id     == CHOOSE i \in have : TRUE
      period == D.options[to].period
  IN IF have = {}
     THEN Create(D, [from |-> from, to |-> to, expiration |-> now + period,
                     automatic_renewal |-> FALSE, agreed |-> D.options[to]])
     ELSE Modify(D, id, [D.subs[id] EXCEPT
                           !.expiration = (IF @ < now THEN now ELSE @) + period])

subscribe(D, op) == Pay(Subscribed(D, op.from, op.to), op.from, op.to, op.price)
subscribe_by_author(D, op) == Subscribed(D, op.from, op.to)

automatic_renewal_of_subscription(D, op) ==
  LET s == D.subs[op.id]
  IN Modify(D, op.id, [s EXCEPT !.automatic_renewal = op.on,
                                !.agreed = IF op.on THEN D.options[s.to] ELSE @])

disallow_automatic_renewal(D, id) ==
  Modify(D, id, [D.subs[id] EXCEPT !.automatic_renewal = FALSE])

(* Loops over an index: R.D is what the node holds, R.at the element the   *)
(* iterator is at, or 0 at the end.  No loop goes through its body more    *)
(* often than there are subscriptions.                                     *)

(* The author's first renewed subscription.                                *)
FirstRenewed(D, a) ==
  LET index == D.by_to_renewal[a]
      on    == {j \in DOMAIN index : D.subs[index[j]].automatic_renewal}
  IN IF on = {} THEN 0 ELSE index[Min(on)]

(* Faulty: walks by_renewal, where an element that is stopped goes last.   *)
StopNextByRenewal(R, a) ==
  IF R.at = 0 THEN R
  ELSE LET E == disallow_automatic_renewal(R.D, R.at)
       IN [D |-> E, at |-> Following(E.by_renewal, R.at)]

(* The iterator is moved on after its element went to another place.       *)
StopNext(R, a) ==
  IF R.at = 0 THEN R
  ELSE LET E == disallow_automatic_renewal(R.D, R.at)
       IN [D |-> E, at |-> Following(E.by_to_renewal[a], R.at)]

(* for_each over the author's renewed subscriptions.                       *)
StopRenewals(D, a) ==
  LET loop[i \in 0..Len(D.subs)] ==
        IF i = 0 THEN [D |-> D, at |-> FirstRenewed(D, a)] ELSE StopNext(loop[i - 1], a)
  IN loop[Len(D.subs)].D

(* Renewal goes on only under the price and period it was switched on for. *)
account_update(D, op) ==
  LET old == D.options[op.to]
      new == op.options
      E   == IF \/ ~new.allow
                \/ <<old.asset, old.price>> # <<new.asset, new.price>>
                \/ old.period # new.period
             THEN StopRenewals(D, op.to) ELSE D
  IN [E EXCEPT !.options[op.to] = new]

publish_feed(D, op) == [D EXCEPT !.rate = op.rate]

-----------------------------------------------------------------------------
(* Maintenance                                                             *)

next_maintenance_time(time) == (time \div Interval + 1) * Interval

(* The balance is enough to renew the subscription.                        *)
CanPay(D, id) ==
  LET s == D.subs[id]
  IN HasPrice(D, s.to) /\ DctPrice(D, s.to) <= D.balance[s.from]

renew_subscription(D, id) ==
  LET s == D.subs[id]
  IN Pay(Modify(D, id, [s EXCEPT !.expiration = @ + D.options[s.to].period]),
         s.from, s.to, DctPrice(D, s.to))

Due(D, id, time) == D.subs[id].expiration <= next_maintenance_time(time)

(* Faulty: a balance that is just enough is not.                           *)
RenewOrStopStrict(D, id) ==
  IF CanPay(D, id) /\ DctPrice(D, D.subs[id].to) < D.balance[D.subs[id].from]
  THEN renew_subscription(D, id) ELSE disallow_automatic_renewal(D, id)
RenewOrStop(D, id) == IF CanPay(D, id) THEN renew_subscription(D, id)
                      ELSE disallow_automatic_renewal(D, id)

(* Faulty: the loop ends at the first subscription that is not due.        *)
RenewNextDue(R, time) ==
  IF R.at = 0 \/ ~R.D.subs[R.at].automatic_renewal \/ ~Due(R.D, R.at, time)
  THEN [R EXCEPT !.at = 0]
  ELSE LET E == RenewOrStop(R.D, R.at)
       IN [D |-> E, at |-> Following(E.by_renewal, R.at)]

(* The loop ends at the first element that is not to be renewed.           *)
RenewNext(R, time) ==
  IF R.at = 0 \/ ~R.D.subs[R.at].automatic_renewal THEN [R EXCEPT !.at = 0]
  ELSE LET E == IF Due(R.D, R.at, time) THEN RenewOrStop(R.D, R.at) ELSE R.D
       IN [D |-> E, at |-> Following(E.by_renewal, R.at)]

(* The last loop of decent_housekeeping.                                   *)
decent_housekeeping(D, time) ==
  LET first == IF D.by_renewal = <<>> THEN 0 ELSE D.by_renewal[1]
      loop[i \in 0..Len(D.subs)] ==
        IF i = 0 THEN [D |-> D, at |-> first] ELSE RenewNext(loop[i - 1], time)
  IN loop[Len(D.subs)].D

-----------------------------------------------------------------------------
(* What a block may hold.                                                  *)
Operations ==
       [type : {"subscribe"}, from : Consumers, to : Authors, price : Prices]
  \cup [type : {"subscribe_by_author"}, from : Consumers, to : Authors]
  \cup [type : {"automatic_renewal"}, id : Ids, on : BOOLEAN]
  \cup [type : {"account_update"}, to : Authors, options : Terms]
  \cup [type : {"publish_feed"}, rate : Rates]

(* Bound on what a subscription is lengthened to.                          *)
RoomFor(D, op) ==
  LET have == {id \in DOMAIN D.subs : D.subs[id].from = op.from /\ D.subs[id].to = op.to}
  IN IF have = {} THEN Len(D.subs) < MaxSubs
     ELSE \A id \in have : D.subs[id].expiration <= now + Interval

(* The do_evaluate of each operation; the last two leave out the           *)
(* operations that change nothing.                                         *)
can_subscribe(D, op) ==
  /\ op.price <= D.balance[op.from] /\ D.options[op.to].allow
  /\ HasPrice(D, op.to) /\ op.price >= DctPrice(D, op.to)
  /\ RoomFor(D, op)
can_subscribe_by_author(D, op) == D.options[op.to].allow /\ RoomFor(D, op)
can_set_renewal(D, op) ==
  op.id \in DOMAIN D.subs /\ D.subs[op.id].automatic_renewal # op.on
can_update(D, op) == D.options[op.to] # op.options
can_publish(D, op) == D.rate # op.rate

Evaluate(D, op) ==
  CASE op.type = "subscribe"           -> can_subscribe(D, op)
    [] op.type = "subscribe_by_author" -> can_subscribe_by_author(D, op)
    [] op.type = "automatic_renewal"   -> can_set_renewal(D, op)
    [] op.type = "account_update"      -> can_update(D, op)
    [] op.type = "publish_feed"        -> can_publish(D, op)

(* do_apply                                                                *)
Apply(D, op) ==
  CASE op.type = "subscribe"           -> subscribe(D, op)
    [] op.type = "subscribe_by_author" -> subscribe_by_author(D, op)
    [] op.type = "automatic_renewal"   -> automatic_renewal_of_subscription(D, op)
    [] op.type = "account_update"      -> account_update(D, op)
    [] op.type = "publish_feed"        -> publish_feed(D, op)

(* undo_database::undo from E back to D: the old values are put back in    *)
(* the order of a hash table, then what was created is removed.            *)
UndoneTo(D, E, order) ==
  LET back[i \in 0..Len(order)] ==
        IF i = 0 THEN E ELSE Modify(back[i - 1], order[i], D.subs[order[i]])
      F == back[Len(order)]
      G == IF Len(F.subs) > Len(D.subs) THEN RemoveLast(F) ELSE F
  IN [D EXCEPT !.by_renewal = G.by_renewal, !.by_to_renewal = G.by_to_renewal]

Undo(n, E) ==
  LET D == db[n]
      changed == {id \in DOMAIN D.subs : D.subs[id] # E.subs[id]}
  IN /\ undone < MaxUndone /\ undone' = undone + 1
     /\ \E order \in SetToSeqs(changed) : db' = [db EXCEPT ![n] = UndoneTo(D, E, order)]
     /\ UNCHANGED now

-----------------------------------------------------------------------------
(* Every node applies an operation of the next block.                      *)
ApplyOperation(op) ==
  /\ \A n \in Nodes : Evaluate(db[n], op)
  /\ db' = [n \in Nodes |-> Apply(db[n], op)]
  /\ UNCHANGED <<now, undone>>

(* A block is done and time goes on; the first block at or after the       *)
(* maintenance time does the maintenance.                                  *)
AfterBlock(D, time) ==
  IF time >= next_maintenance_time(now) THEN decent_housekeeping(D, time) ELSE D

NextBlock ==
  \E time \in (now + 1)..(now + MaxGap) :
    /\ time <= MaxTime /\ now' = time
    /\ db' = [n \in Nodes |-> AfterBlock(db[n], time)]
    /\ UNCHANGED undone

(* One node applies an operation, or a block with maintenance, and undoes  *)
(* it.                                                                     *)
UndoOperation(n, op) == Evaluate(db[n], op) /\ Undo(n, Apply(db[n], op))
UndoBlock(n) ==
  \E time \in (now + 1)..(now + MaxGap) :
    time <= MaxTime /\ Undo(n, AfterBlock(db[n], time))

(* One node is stopped and started.                                        *)
Restart(n) ==
  /\ undone < MaxUndone /\ undone' = undone + 1
  /\ db' = [db EXCEPT ![n] = Reload(@)]
  /\ UNCHANGED now

Init ==
  /\ now = 0 /\ undone = 0
  /\ \E terms \in [Authors -> {t \in Terms : t.allow}], rate \in Rates :
       db = [n \in Nodes |->
               [subs |-> <<>>, by_renewal |-> <<>>, by_to_renewal |-> [a \in Authors |-> <<>>],
                balance |-> [a \in Accounts |-> IF a \in Consumers THEN Funds ELSE 0],
                options |-> terms, rate |-> rate]]

Next ==
  \/ NextBlock
  \/ \E op \in Operations : ApplyOperation(op)
  \/ \E n \in Nodes : \/ UndoBlock(n) \/ Restart(n)
                      \/ \E op \in Operations : UndoOperation(n, op)

Spec == Init /\ [][Next]_vars

-----------------------------------------------------------------------------
(* Properties                                                              *)

(* The indexes hold every subscription once, in the order of their key,    *)
(* and no account is overdrawn.                                            *)
TypeOK ==
  /\ db \in [Nodes -> DbType] /\ now \in 0..MaxTime /\ undone \in 0..MaxUndone
  /\ \A n \in Nodes :
       LET D == db[n]
       IN /\ IsInjective(D.by_renewal) /\ ToSet(D.by_renewal) = DOMAIN D.subs
          /\ \A i, j \in DOMAIN D.by_renewal :
               Before(D.subs, TRUE, D.by_renewal[i], D.by_renewal[j]) => i < j
          /\ \A a \in Accounts : D.balance[a] >= 0

(* Automatic renewal is on only under the price and the period that the    *)
(* author asked for when the consumer switched it on: account_update stops *)
(* every renewal it changes the terms of, although its loop moves the      *)
(* elements it walks over.                                                 *)
RenewedAsAgreed ==
  \A n \in Nodes : \A id \in DOMAIN db[n].subs :
    LET s == db[n].subs[id]
        t == db[n].options[s.to]
    IN s.automatic_renewal =>
         <<s.agreed.asset, s.agreed.price, s.agreed.period>> = <<t.asset, t.price, t.period>>

On(n) == {id \in DOMAIN db[n].subs : db[n].subs[id].automatic_renewal}

(* Maintenance stops the renewal of a consumer who cannot pay ("if         *)
(* consumer doesn't have enought balance to renew"), never of one who can. *)
StoppedOnlyUnpaid ==
  [][now' # now => \A n \in Nodes : \A id \in On(n) \ On(n)' : ~CanPay(db[n], id)']_vars

(* Maintenance passes over a subscription that is due only when it has     *)
(* stopped another one, which took the iterator to the end of the index;   *)
(* so a subscription is passed over at most as often as others are         *)
(* stopped, and otherwise every due one is lengthened by one period.       *)
PassedOverOnlyByStop ==
  [][now' >= next_maintenance_time(now) =>
       \A n \in Nodes :
         On(n)' = On(n) =>
           \A id \in On(n) :
             db'[n].subs[id].expiration = db[n].subs[id].expiration +
               IF Due(db[n], id, now') THEN db[n].options[db[n].subs[id].to].period ELSE 0]_vars

(* Nodes that applied the same blocks hold the same objects, whatever they *)
(* undid ("undoes any changes it made") and whenever they were restarted.  *)
NodesAgree ==
  \A m, n \in Nodes : db[m].subs = db[n].subs /\ db[m].balance = db[n].balance
=============================================================================
