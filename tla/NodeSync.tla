------------------------------ MODULE NodeSync ------------------------------
(***************************************************************************)
(* A node of the peer to peer network that fetches the chain of its peers  *)
(* (libraries/net/node.cpp): the lists of block ids it asks for, the       *)
(* blocks it requests from the peers on those lists, the backlog it hands  *)
(* to the chain, the blocks that peers advertise, and the connections that *)
(* time out, close and come back.                                          *)
(*                                                                         *)
(* Everything but the chain runs as cooperative tasks of one thread, so an *)
(* action is what a task does between two points where it yields.  The     *)
(* chain has a thread of its own and takes the blocks in the order of the  *)
(* calls; between its answer and the rest of the caller other tasks run.   *)
(*                                                                         *)
(* The chain is one line of blocks 1, 2, 3...; a peer holds the first      *)
(* height[p] of them and answers as on_fetch_items_message and             *)
(* on_fetch_blockchain_item_ids_message do.  Peers are honest.             *)
(***************************************************************************)
EXTENDS Integers, FiniteSets, FiniteSetsExt, Sequences, SequencesExt

CONSTANTS
  Peers,
  MaxBlock,     \* bound: the last block the peers come to hold
  Heights,      \* the heights a peer may have at the start
  Batch,        \* limit of get_block_ids
  MinPrefetch,  \* GRAPHENE_NET_MIN_BLOCK_IDS_TO_PREFETCH
  MaxPerPeer,   \* _maximum_blocks_per_peer_during_syncing
  MaxHandle,    \* _maximum_number_of_blocks_to_handle_at_one_time
  MaxPrefetch,  \* _maximum_number_of_sync_blocks_to_prefetch
  Refused,      \* the blocks the chain refuses
  MaxDrops,     \* bound: connections that are lost or time out
  MaxMissing,   \* bound: items answered by item_not_available
  LostBy,       \* the ids that may be unknown: "message_hash", "block_id"
  MaxAsks,      \* bound: times a peer asks for our block ids
  Sync          \* stands for the sync tasks as the caller of handle_block

ASSUME BoundAssumption ==
  /\ MaxBlock \in Nat /\ Heights \subseteq 0..MaxBlock /\ Heights # {}
  /\ Batch \in Nat \ {0, 1} /\ MinPrefetch \in Nat
  /\ {MaxPerPeer, MaxHandle, MaxPrefetch} \subseteq Nat \ {0}
  /\ MaxDrops \in Nat /\ MaxMissing \in Nat /\ MaxAsks \in Nat
  /\ LostBy \subseteq {"message_hash", "block_id"} /\ Refused \subseteq Nat
ASSUME PeerAssumption == IsFiniteSet(Peers) /\ Sync \notin Peers

Blocks == 1..MaxBlock

VARIABLES
  pr,       \* the node's peer_connection for each peer, see PeerType
  node,     \* the members of node_impl, see NodeType
  calls,    \* handle_block calls under way, in their order
  head,     \* head block of the node's chain
  toPeer,   \* messages on the way to a peer
  fromPeer, \* messages on the way from a peer
  height,   \* head block of a peer's chain
  behind,   \* a peer's peer_needs_sync_items_from_us for this node
  blamed,   \* history: peers disconnected for something they sent, and why
  budget    \* what is left of MaxDrops, MaxMissing and MaxAsks

vars == <<pr, node, calls, head, toPeer, fromPeer, height, behind, blamed, budget>>

(* _active_connections, _closing_connections, _terminating_connections, or *)
(* no connection; the handshake is not modelled.                           *)
Lists == {"none", "active", "closing", "terminating"}

PeerType ==
  [list : Lists, open : BOOLEAN,
   ids_of_items_to_get : Seq(Blocks),
   ids_of_items_being_processed : SUBSET Blocks,
   sync_items_requested : SUBSET Blocks,
   item_ids_requested : [on : BOOLEAN, synopsis : SUBSET Blocks],
   items_requested : SUBSET Blocks,
   unfetched : 0..MaxBlock,
   we_need : BOOLEAN, peer_needs : BOOLEAN, inhibit : BOOLEAN,
   last_seen : 0..MaxBlock,
   advertised_to_us : SUBSET Blocks, advertised_to_peer : SUBSET Blocks]

NodeType ==
  [active_sync_requests : SUBSET Blocks,
   new_received : Seq(Blocks), received : Seq(Blocks),
   recent : SUBSET Blocks,           \* _most_recent_blocks_accepted
   suspend : BOOLEAN,                \* _suspend_fetching_sync_blocks
   backlog : BOOLEAN,                \* process_backlog_of_sync_blocks is scheduled
   sync_updated : BOOLEAN,           \* _sync_items_to_fetch_updated
   items_to_fetch : SUBSET Blocks,
   items_updated : BOOLEAN,          \* _items_to_fetch_updated
   new_inventory : SUBSET Blocks]

NoRequest == [on |-> FALSE, synopsis |-> {}]

(* peer_connection's constructor.                                          *)
FreshPeer(list) ==
  [list |-> list, open |-> list = "active",
   ids_of_items_to_get |-> <<>>, ids_of_items_being_processed |-> {},
   sync_items_requested |-> {}, item_ids_requested |-> NoRequest,
   items_requested |-> {}, unfetched |-> 0,
   we_need |-> TRUE, peer_needs |-> TRUE, inhibit |-> FALSE, last_seen |-> 0,
   advertised_to_us |-> {}, advertised_to_peer |-> {}]

Idle(r) ==
  r.items_requested = {} /\ r.sync_items_requested = {} /\ ~r.item_ids_requested.on

-----------------------------------------------------------------------------
(* Handlers are built from steps on the record S of what a task can reach. *)

Here == [pr |-> pr, node |-> node, out |-> toPeer, blamed |-> blamed]

Install(S) ==
  /\ pr' = S.pr /\ node' = S.node /\ toPeer' = S.out /\ blamed' = S.blamed

Active(S) == {p \in Peers : S.pr[p].list = "active"}

(* send_message: queued for a task that writes to the socket; it does not  *)
(* yield, and on a closed socket the message is lost.                      *)
Send(S, p, m) == IF S.pr[p].open THEN [S EXCEPT !.out[p] = Append(@, m)] ELSE S

TriggerSync(S) == [S EXCEPT !.node.sync_updated = TRUE]
TriggerItems(S) == [S EXCEPT !.node.items_updated = TRUE]
TriggerBacklog(S) == [S EXCEPT !.node.backlog = TRUE]

(* A step for each of a set of peers: a peer's step changes its own        *)
(* connection and messages, and may blame it.                              *)
ForEach(S, peers, Step(_, _)) ==
  [S EXCEPT !.pr  = [p \in Peers |-> IF p \in peers THEN Step(S, p).pr[p] ELSE @[p]],
            !.out = [p \in Peers |-> IF p \in peers THEN Step(S, p).out[p] ELSE @[p]],
            !.blamed = @ \cup UNION {Step(S, p).blamed : p \in peers}]

(* disconnect_from_peer: the peer goes to the closing list and is told why.*)
Disconnect(S, p) == [S EXCEPT !.pr[p].list = "closing"]
Blame(S, p, why) == [Disconnect(S, p) EXCEPT !.blamed = @ \cup {<<p, why>>}]

(* The numbers of a synopsis of a chain that ends in block high: every     *)
(* step halves what is left.                                               *)
SynopsisOf(high) ==
  LET from[low \in 1..(high + 1)] ==
        IF low > high THEN {} ELSE {low} \cup from[low + (high - low + 2) \div 2]
  IN from[1]

(* The ids already listed for this peer come after the blocks of our chain *)
(* up to the last block it has in common with us.                          *)
create_blockchain_synopsis_for_peer(S, p) ==
  LET r == S.pr[p]
  IN SynopsisOf(CASE r.ids_of_items_to_get # <<>> -> Last(r.ids_of_items_to_get)
                  [] r.ids_of_items_to_get = <<>> /\ r.last_seen # 0 -> r.last_seen
                  [] OTHER -> head)

fetch_next_batch_of_item_ids(S, p) ==
  LET synopsis == create_blockchain_synopsis_for_peer(S, p)
  IN Send([S EXCEPT !.pr[p].item_ids_requested = [on |-> TRUE, synopsis |-> synopsis]],
          p, [type |-> "fetch_ids", synopsis |-> synopsis])

start_synchronizing_with_peer(S, p) ==
  fetch_next_batch_of_item_ids(
    [S EXCEPT !.pr[p] = [@ EXCEPT !.ids_of_items_to_get = <<>>, !.unfetched = 0,
                                  !.we_need = TRUE, !.last_seen = 0, !.inhibit = FALSE]], p)

has_item(b) == b <= head

(* get_block_ids of a chain of the given height: from the last block of    *)
(* the synopsis it knows, at most Batch ids, and how many are left.        *)
BlockIds(high, synopsis) ==
  LET known == {b \in synopsis : b <= high}
      first == CASE synopsis = {} -> 1
                 [] synopsis # {} /\ known # {} -> Max(known)
                 [] OTHER -> high + 1
      last  == IF first + Batch - 1 < high THEN first + Batch - 1 ELSE high
  IN [hashes |-> [i \in 1..(last - first + 1) |-> first + i - 1],
      remaining |-> IF last < first THEN 0 ELSE high - last]

(* The reply shows that the one who asked has all our blocks.              *)
InSync(reply, synopsis) ==
  \/ reply.hashes = <<>>
  \/ synopsis # {} /\ Len(reply.hashes) = 1 /\ Last(reply.hashes) \in synopsis

-----------------------------------------------------------------------------
(* Block ids: on_blockchain_item_ids_inventory_message                     *)

(* The list must start at a block of the synopsis that was sent.           *)
AnswersRequest(r, m) ==
  \/ m.hashes = <<>>
  \/ r.item_ids_requested.synopsis = {} /\ m.hashes[1] = 1
  \/ m.hashes[1] \in r.item_ids_requested.synopsis

(* The peer has nothing after the block we asked for.                      *)
NothingNew(r, m) ==
  /\ m.remaining = 0
  /\ m.hashes = <<>> \/ (Len(m.hashes) = 1 /\ has_item(m.hashes[1]))
  /\ r.ids_of_items_to_get = <<>> /\ r.unfetched = 0

(* The new list joined to the ids already listed for the peer.  A first    *)
(* list loses the blocks our chain has, unless another peer's list starts  *)
(* with the same block; a further list replaces what follows its first id. *)
MergeIds(S, p, hashes) ==
  LET r        == S.pr[p]
      old      == r.ids_of_items_to_get
      flush    == ~\E q \in Active(S) \ {p} :
                     LET ids == S.pr[q].ids_of_items_to_get
                     IN ids # <<>> /\ ids[1] = hashes[1]
      known    == {i \in DOMAIN hashes : \A j \in 1..i : has_item(hashes[j])}
      n        == IF flush THEN Cardinality(known) ELSE 0
      common   == {i \in DOMAIN old : old[i] = hashes[1]}
      List(ids, seen) == [r EXCEPT !.ids_of_items_to_get = ids, !.last_seen = seen]
  IN CASE hashes = <<>> -> r
       [] hashes # <<>> /\ old = <<>> ->
            List(SubSeq(hashes, n + 1, Len(hashes)), IF n = 0 THEN r.last_seen ELSE hashes[n])
       [] hashes # <<>> /\ old # <<>> /\ common = {} -> List(Tail(hashes), hashes[1])
       [] OTHER -> List(SubSeq(old, 1, Max(common) - 1) \o hashes, r.last_seen)

on_blockchain_item_ids_inventory_message(S, p, m) ==
  LET r    == S.pr[p]
      Done == [S EXCEPT !.pr[p].item_ids_requested = NoRequest]
      T    == [Done EXCEPT !.pr[p] = [MergeIds(Done, p, m.hashes) EXCEPT !.unfetched = m.remaining]]
      ids  == T.pr[p].ids_of_items_to_get
  IN CASE ~r.item_ids_requested.on -> S
       [] r.item_ids_requested.on /\ ~AnswersRequest(r, m) -> Blame(S, p, "ids")
       [] r.item_ids_requested.on /\ AnswersRequest(r, m) /\ NothingNew(r, m) ->
            [Done EXCEPT !.pr[p].we_need = FALSE]
       [] OTHER -> IF IF m.remaining # 0 THEN Len(ids) > MinPrefetch ELSE ids # <<>>
                   THEN TriggerSync(T)
                   ELSE fetch_next_batch_of_item_ids(T, p)

(* A peer asks for our block ids.  If it is at a block we do not have, a   *)
(* new round of synchronisation starts.  Its own fetching is not modelled, *)
(* so the reply is not kept.                                               *)
on_fetch_blockchain_item_ids_message(S, p, m) ==
  LET r     == S.pr[p]
      sync  == InSync(BlockIds(head, m.synopsis), m.synopsis)
      empty == BlockIds(head, m.synopsis).hashes = <<>>
      T     == [S EXCEPT !.pr[p].peer_needs = ~sync]
      U     == IF ~r.we_need /\ m.synopsis # {} /\ ~has_item(Max(m.synopsis))
               THEN start_synchronizing_with_peer(T, p) ELSE T
  IN IF sync /\ ~empty /\ r.inhibit THEN Disconnect(U, p) ELSE U

-----------------------------------------------------------------------------
(* Requests: fetch_sync_items_loop and fetch_items_loop                    *)

have_already_received_sync_item(S, b) ==
  b \in ToSet(S.node.received) \/ b \in ToSet(S.node.new_received)

(* Those of the ids that are wanted, in their order, but at most n.        *)
FirstWanted(ids, wanted, n) ==
  LET taken[i \in 0..Len(ids)] ==
        IF i = 0 THEN <<>>
        ELSE IF ids[i] \in wanted /\ Len(taken[i - 1]) < n
        THEN Append(taken[i - 1], ids[i]) ELSE taken[i - 1]
  IN taken[Len(ids)]

(* The first ids of the peer's list that nobody was asked for and that     *)
(* are not here yet.                                                       *)
SyncItemsFor(S, p) ==
  IF S.pr[p].we_need /\ Idle(S.pr[p]) /\ ~S.pr[p].inhibit
  THEN FirstWanted(S.pr[p].ids_of_items_to_get,
                   {b \in Blocks \ S.node.active_sync_requests :
                      ~have_already_received_sync_item(S, b)}, MaxPerPeer)
  ELSE <<>>

request_sync_items_from_peer(S, p) ==
  LET items == SyncItemsFor(S, p)
  IN IF items = <<>> THEN S
     ELSE Send([S EXCEPT !.node.active_sync_requests = @ \cup ToSet(items),
                         !.pr[p].sync_items_requested = @ \cup ToSet(items)],
               p, [type |-> "fetch_items", by |-> "block_id", items |-> items])

(* The peers are asked one after the other, in the order of a hash set.    *)
fetch_sync_items_loop ==
  /\ node.sync_updated
  /\ \E order \in SetToSeqs(Active(Here)) :
       LET S == [Here EXCEPT !.node.sync_updated = FALSE]
           asked[i \in 0..Len(order)] ==
             IF i = 0 THEN S ELSE request_sync_items_from_peer(asked[i - 1], order[i])
       IN Install(IF node.suspend THEN S ELSE asked[Len(order)])
  /\ UNCHANGED <<calls, head, fromPeer, height, behind, budget>>

is_item_in_any_peers_inventory(S, b) ==
  \E p \in Active(S) : b \in S.pr[p].advertised_to_us

(* The idle peers that advertised the item.                                *)
Suppliers(b) == {p \in Active(Here) : Idle(pr[p]) /\ b \in pr[p].advertised_to_us}

(* Every item that an idle peer has is requested from one such peer.       *)
fetch_items_loop ==
  LET some == {b \in node.items_to_fetch : Suppliers(b) # {}}
  IN /\ node.items_updated
     /\ \E from \in [some -> Peers] :
          /\ \A b \in some : from[b] \in Suppliers(b)
          /\ LET Ask(S, p) ==
                   LET items == {b \in some : from[b] = p}
                   IN IF items = {} THEN S
                      ELSE Send([S EXCEPT !.pr[p].items_requested = @ \cup items], p,
                                [type |-> "fetch_items", by |-> "message_hash",
                                 items |-> FirstWanted([b \in Blocks |-> b], items, MaxBlock)])
             IN Install(ForEach([Here EXCEPT !.node.items_updated = FALSE,
                                             !.node.items_to_fetch = @ \ some], Peers, Ask))
     /\ UNCHANGED <<calls, head, fromPeer, height, behind, budget>>

(* on_item_ids_inventory_message, for one block.                           *)
on_item_ids_inventory_message(S, p, b) ==
  LET T == [S EXCEPT !.pr[p].advertised_to_us = @ \cup {b}]
  IN CASE \E q \in Active(S) : b \in S.pr[q].advertised_to_peer -> S
       [] \A q \in Active(S) : b \notin S.pr[q].advertised_to_peer /\ b \notin S.pr[q].items_requested ->
            IF b \in S.node.items_to_fetch THEN T
            ELSE TriggerItems([T EXCEPT !.node.items_to_fetch = @ \cup {b}])
       [] OTHER -> T

(* on_item_not_available_message                                           *)
on_item_not_available_message(S, p, b) ==
  LET T == [S EXCEPT !.pr[p].items_requested = @ \ {b}, !.pr[p].advertised_to_us = @ \ {b}]
      U == [S EXCEPT !.pr[p].sync_items_requested = @ \ {b}]
  IN CASE b \in S.pr[p].items_requested ->
            TriggerItems(IF is_item_in_any_peers_inventory(T, b)
                         THEN [T EXCEPT !.node.items_to_fetch = @ \cup {b}] ELSE T)
       [] b \notin S.pr[p].items_requested /\ b \in S.pr[p].sync_items_requested ->
            TriggerSync(IF S.pr[p].peer_needs THEN [U EXCEPT !.pr[p].inhibit = TRUE]
                        ELSE Disconnect(U, p))
       [] OTHER -> S

-----------------------------------------------------------------------------
(* Blocks                                                                  *)

Results == {"waiting", "accepted", "refused", "unlinkable"}
Call(from, b) == [from |-> from, block |-> b, result |-> "waiting"]
(* The calls of send_sync_block_to_node_delegate that are under way.       *)
SyncCalls == {i \in DOMAIN calls : calls[i].from = Sync}

(* process_block_during_normal_operation after the chain accepted, or had  *)
(* accepted, the block: note who has it and broadcast it.                  *)
BroadcastBlock(S, b) ==
  ForEach([S EXCEPT !.node.recent = @ \cup {b}, !.node.new_inventory = @ \cup {b}],
          {p \in Active(S) : b \in S.pr[p].advertised_to_us},
          LAMBDA T, p : [T EXCEPT !.pr[p].last_seen = b])

AfterItem(S, p) == IF Idle(S.pr[p]) THEN TriggerItems(S) ELSE S

(* The block was requested during synchronisation.                         *)
process_block_during_sync(S, p, b) ==
  LET T == TriggerBacklog([S EXCEPT !.pr[p].sync_items_requested = @ \ {b},
                                    !.node.active_sync_requests = @ \ {b},
                                    !.node.new_received = <<b>> \o @])
      r == T.pr[p]
  IN CASE ~Idle(r) -> T
       [] Idle(r) /\ r.unfetched > 0 /\ Len(r.ids_of_items_to_get) < MinPrefetch ->
            fetch_next_batch_of_item_ids(T, p)
       [] OTHER -> TriggerSync(T)

(* process_block_message: the task waits for the chain only for a block    *)
(* that was advertised and that the node has not just accepted.            *)
process_block_message(p, b) ==
  LET T == [Here EXCEPT !.pr[p].items_requested = @ \ {b}]
  IN CASE b \in pr[p].items_requested /\ b \notin node.recent ->
            Install(T) /\ calls' = Append(calls, Call(p, b))
       [] b \in pr[p].items_requested /\ b \in node.recent ->
            Install(AfterItem(BroadcastBlock(T, b), p)) /\ UNCHANGED calls
       [] b \notin pr[p].items_requested /\ b \in pr[p].sync_items_requested ->
            Install(process_block_during_sync(Here, p, b)) /\ UNCHANGED calls
       [] OTHER -> Install(Blame(Here, p, "unrequested")) /\ UNCHANGED calls

(* Faulty: the block is anywhere on the peer's list.                       *)
IsListed(r, b) == r.list = "active" /\ b \in ToSet(r.ids_of_items_to_get)
(* The block is the next one of an active peer's list.                     *)
IsNext(r, b) ==
  r.list = "active" /\ r.ids_of_items_to_get # <<>> /\ r.ids_of_items_to_get[1] = b

(* One round of process_backlog_of_sync_blocks: the first block at hand    *)
(* that is the next one of some peer's list is taken from all the lists it *)
(* heads and, unless it was just accepted, handed to the chain.            *)
BacklogRound(B) ==
  LET heads(b)  == {p \in Peers : IsNext(B.pr[p], b)}
      next      == {i \in DOMAIN B.received : heads(B.received[i]) # {}}
      i         == Min(next)
      b         == B.received[i]
      taken     == [p \in Peers |->
                      IF p \in heads(b)
                      THEN [B.pr[p] EXCEPT !.ids_of_items_to_get = Tail(@),
                                           !.ids_of_items_being_processed = @ \cup {b}]
                      ELSE B.pr[p]]
      fresh     == b \notin node.recent
      Full(n)   == n >= MaxHandle
  IN CASE ~B.go \/ next = {} -> [B EXCEPT !.go = FALSE]
       [] B.go /\ next # {} /\ fresh ->
            [B EXCEPT !.pr = taken, !.received = RemoveAt(@, i),
                      !.started = Append(@, b), !.go = ~Full(Cardinality(SyncCalls) + Len(B.started) + 1)]
       [] OTHER -> [B EXCEPT !.pr = taken, !.go = FALSE]

(* Faulty: suspends without a call under way.                              *)
BacklogLong(n, waiting) == waiting >= MaxPrefetch
(* No further block is requested while n calls are under way and so many   *)
(* blocks wait.                                                            *)
BacklogFull(n, waiting) == n >= MaxHandle /\ waiting >= MaxPrefetch

process_backlog_of_sync_blocks ==
  LET all  == Reverse(node.new_received) \o node.received
      round[i \in 0..(Len(all) + 1)] ==
        IF i = 0 THEN [pr |-> pr, received |-> all, started |-> <<>>, go |-> TRUE]
        ELSE BacklogRound(round[i - 1])
      B    == round[Len(all) + 1]
      full == BacklogFull(Cardinality(SyncCalls) + Len(B.started), Len(B.received))
      S    == [Here EXCEPT !.pr = B.pr, !.node.backlog = FALSE, !.node.new_received = <<>>,
                           !.node.received = B.received, !.node.suspend = full]
  IN /\ node.backlog
     /\ IF Cardinality(SyncCalls) >= MaxHandle
        THEN node' = [node EXCEPT !.backlog = FALSE] /\ UNCHANGED <<pr, toPeer, blamed, calls>>
        ELSE /\ Install(IF full THEN S ELSE TriggerSync(S))
             /\ calls' = calls \o [i \in DOMAIN B.started |-> Call(Sync, B.started[i])]
     /\ UNCHANGED <<head, fromPeer, height, behind, budget>>

(* The chain, in its own thread, takes the next block.                     *)
handle_block ==
  LET waiting == {i \in DOMAIN calls : calls[i].result = "waiting"}
      i       == Min(waiting)
      b       == calls[i].block
      linked  == b <= head + 1
  IN /\ waiting # {}
     /\ calls' = [calls EXCEPT ![i].result = CASE b \in Refused -> "refused"
                                               [] b \notin Refused /\ linked -> "accepted"
                                               [] OTHER -> "unlinkable"]
     /\ head' = IF b \notin Refused /\ b = head + 1 THEN b ELSE head
     /\ UNCHANGED <<pr, node, toPeer, fromPeer, height, behind, blamed, budget>>

(* Faulty: asks only while ids are unfetched.                              *)
ListUsedUpEarly(r) == r.ids_of_items_to_get = <<>> /\ r.unfetched # 0
(* The last item of the peer's list is done: ask whether there are more.   *)
ListUsedUp(r) ==
  r.ids_of_items_to_get = <<>> /\ r.unfetched = 0 /\ r.ids_of_items_being_processed = {}

(* send_sync_block_to_node_delegate after an accepted block: a peer whose  *)
(* list is used up is asked for more ids, a peer that is in sync with us   *)
(* and did not offer the block is told of it by a new round.               *)
SyncBlockAccepted(S, b) ==
  LET Of(p) == S.pr[p]
      idle  == {p \in Active(S) : Of(p).ids_of_items_to_get = <<>> /\ Of(p).ids_of_items_being_processed = {}}
      had   == {p \in Active(S) \ idle : b \in Of(p).ids_of_items_being_processed}
      Seen(T, p) == [T EXCEPT !.pr[p].last_seen = b, !.pr[p].ids_of_items_being_processed = @ \ {b}]
      U     == ForEach([S EXCEPT !.node.recent = @ \cup {b}], had, Seen)
      empty == {p \in had : ListUsedUp(U.pr[p])}
      tell  == {p \in idle : ~Of(p).peer_needs /\ ~Of(p).we_need}
  IN ForEach(ForEach(U, empty, fetch_next_batch_of_item_ids), tell, start_synchronizing_with_peer)

(* Every active peer that had the refused block on its list is to blame.    *)
BlameRefused(S, p) == Blame(S, p, "refused")
(* Faulty: blames every active peer.                                       *)
BlameActive(S, b) == ForEach(S, Active(S), BlameRefused)
SyncBlockRefused(S, b) ==
  ForEach(S, {p \in Active(S) : b \in S.pr[p].ids_of_items_being_processed}, BlameRefused)

send_sync_block_to_node_delegate ==
  /\ calls # <<>> /\ calls[1].from = Sync /\ calls[1].result # "waiting"
  /\ LET b == calls[1].block
     IN Install(TriggerBacklog(IF calls[1].result = "accepted"
                               THEN SyncBlockAccepted(Here, b) ELSE SyncBlockRefused(Here, b)))
  /\ calls' = Tail(calls)
  /\ UNCHANGED <<head, fromPeer, height, behind, budget>>

(* The rest of process_block_during_normal_operation.                      *)
process_block_during_normal_operation ==
  /\ calls # <<>> /\ calls[1].from # Sync /\ calls[1].result # "waiting"
  /\ LET b == calls[1].block
         p == calls[1].from
         next == {q \in Peers : IsNext(pr[q], b)}
     IN Install(AfterItem(CASE calls[1].result = "accepted"   -> BroadcastBlock(Here, b)
                            [] calls[1].result = "unlinkable" -> start_synchronizing_with_peer(Here, p)
                            [] calls[1].result = "refused"    -> ForEach(Here, next \cup {p}, BlameRefused), p))
  /\ calls' = Tail(calls)
  /\ UNCHANGED <<head, fromPeer, height, behind, budget>>

(* advertise_inventory_loop: peers that are in sync with us learn of what  *)
(* neither told the other yet.                                             *)
advertise_inventory_loop ==
  /\ node.new_inventory # {}
  /\ LET Tell(S, p) == [S EXCEPT !.pr[p].advertised_to_peer =
                                   @ \cup (node.new_inventory \ S.pr[p].advertised_to_us)]
     IN Install(ForEach([Here EXCEPT !.node.new_inventory = {}],
                        {p \in Active(Here) : ~pr[p].peer_needs}, Tell))
  /\ UNCHANGED <<calls, head, fromPeer, height, behind, budget>>

-----------------------------------------------------------------------------
(* Messages and connections                                                *)

(* The read loop of a peer takes the next message once the task that       *)
(* handles the one before it is done.                                      *)
Reading(p) == pr[p].open /\ \A i \in DOMAIN calls : calls[i].from # p

on_message(p) ==
  /\ Reading(p) /\ fromPeer[p] # <<>>
  /\ LET m == Head(fromPeer[p])
     IN IF m.type = "block" THEN process_block_message(p, m.block)
        ELSE /\ Install(
                  CASE m.type = "ids"       -> on_blockchain_item_ids_inventory_message(Here, p, m)
                    [] m.type = "fetch_ids" -> on_fetch_blockchain_item_ids_message(Here, p, m)
                    [] m.type = "inventory" -> on_item_ids_inventory_message(Here, p, m.block)
                    [] m.type = "missing"   -> on_item_not_available_message(Here, p, m.block))
             /\ UNCHANGED calls
  /\ fromPeer' = [fromPeer EXCEPT ![p] = Tail(@)]
  /\ UNCHANGED <<head, height, behind, budget>>

(* What was in flight is lost with the socket.                             *)
CloseSocket(S, p) == [S EXCEPT !.pr[p].open = FALSE, !.out[p] = <<>>]
Shut(S, p) == Install(CloseSocket(S, p)) /\ fromPeer' = [fromPeer EXCEPT ![p] = <<>>]

(* terminate_inactive_connections_loop: a peer that did not answer for a   *)
(* second is dropped without a word.                                       *)
TimeOut(p) ==
  /\ pr[p].list = "active" /\ pr[p].open /\ ~Idle(pr[p])
  /\ budget.drops > 0 /\ budget' = [budget EXCEPT !.drops = @ - 1]
  /\ Shut([Here EXCEPT !.pr[p].list = "terminating"], p)
  /\ UNCHANGED <<calls, head, height, behind>>

(* The same loop ends the connections that are closing.                    *)
TerminateClosing(p) ==
  /\ pr[p].list = "closing" /\ pr[p].open
  /\ Shut([Here EXCEPT !.pr[p].list = "terminating"], p)
  /\ UNCHANGED <<calls, head, height, behind, budget>>

(* The peer, or the network, ends the connection.                          *)
PeerCloses(p) ==
  /\ pr[p].list # "none" /\ pr[p].open
  /\ budget.drops > 0 /\ budget' = [budget EXCEPT !.drops = @ - 1]
  /\ Shut(Here, p)
  /\ UNCHANGED <<calls, head, height, behind>>

(* What was requested from the peer goes to others; T is the node without  *)
(* the peer.  First the advertised items, then the sync items as well.     *)
RescheduleItems(T, p) ==
  LET again == {b \in pr[p].items_requested : is_item_in_any_peers_inventory(T, b)}
  IN IF pr[p].items_requested = {} THEN T
     ELSE TriggerItems([T EXCEPT !.node.items_to_fetch = @ \cup again])
Reschedule(T, p) ==
  RescheduleItems(IF pr[p].sync_items_requested = {} THEN T
                  ELSE TriggerSync([T EXCEPT !.node.active_sync_requests =
                                               @ \ pr[p].sync_items_requested]), p)

(* on_connection_closed, at the end of the read loop; the peer_connection  *)
(* is deleted.                                                             *)
on_connection_closed(p) ==
  /\ pr[p].list # "none" /\ ~pr[p].open /\ \A i \in DOMAIN calls : calls[i].from # p
  /\ Install(Reschedule([Here EXCEPT !.pr[p] = FreshPeer("none")], p))
  /\ UNCHANGED <<calls, head, fromPeer, height, behind, budget>>

(* new_peer_just_added, at the end of the handshake.                       *)
new_peer_just_added(p) ==
  /\ pr[p].list = "none"
  /\ Install(start_synchronizing_with_peer([Here EXCEPT !.pr[p] = FreshPeer("active")], p))
  /\ behind' = [behind EXCEPT ![p] = TRUE]
  /\ UNCHANGED <<calls, head, fromPeer, height, budget>>

-----------------------------------------------------------------------------
(* The peers                                                               *)

(* on_fetch_blockchain_item_ids_message at the peer.                       *)
PeerSendsIds(p) ==
  /\ toPeer[p] # <<>> /\ Head(toPeer[p]).type = "fetch_ids"
  /\ LET synopsis == Head(toPeer[p]).synopsis
         reply    == BlockIds(height[p], synopsis)
     IN /\ fromPeer' = [fromPeer EXCEPT ![p] =
             Append(@, [type |-> "ids", hashes |-> reply.hashes, remaining |-> reply.remaining])]
        /\ behind' = [behind EXCEPT ![p] = ~InSync(reply, synopsis)]
  /\ toPeer' = [toPeer EXCEPT ![p] = Tail(@)]
  /\ UNCHANGED <<pr, node, calls, head, height, blamed, budget>>

(* on_fetch_items_message at the peer; missing are the items it no longer  *)
(* has: a message that left its cache, a block of a fork it left.          *)
PeerSendsItems(p) ==
  /\ toPeer[p] # <<>> /\ Head(toPeer[p]).type = "fetch_items"
  /\ LET items == Head(toPeer[p]).items
     IN \E missing \in SUBSET ToSet(items) :
          /\ Cardinality(missing) <= budget.missing
          /\ missing # {} => Head(toPeer[p]).by \in LostBy
          /\ budget' = [budget EXCEPT !.missing = @ - Cardinality(missing)]
          /\ fromPeer' = [fromPeer EXCEPT ![p] = @ \o
               [i \in DOMAIN items |->
                  [type |-> IF items[i] \in missing THEN "missing" ELSE "block",
                   block |-> items[i]]]]
  /\ toPeer' = [toPeer EXCEPT ![p] = Tail(@)]
  /\ UNCHANGED <<pr, node, calls, head, height, behind, blamed>>

(* The peer's chain grows; a node it takes to be in sync is told.          *)
PeerGrows(p) ==
  /\ height[p] < MaxBlock
  /\ height' = [height EXCEPT ![p] = @ + 1]
  /\ fromPeer' = IF pr[p].open /\ ~behind[p]
                 THEN [fromPeer EXCEPT ![p] =
                         Append(@, [type |-> "inventory", block |-> height[p] + 1])]
                 ELSE fromPeer
  /\ UNCHANGED <<pr, node, calls, head, toPeer, behind, blamed, budget>>

(* The peer asks which blocks we have.                                     *)
PeerAsks(p) ==
  /\ pr[p].open /\ budget.asks > 0
  /\ budget' = [budget EXCEPT !.asks = @ - 1]
  /\ fromPeer' = [fromPeer EXCEPT ![p] =
       Append(@, [type |-> "fetch_ids", synopsis |-> SynopsisOf(height[p])])]
  /\ UNCHANGED <<pr, node, calls, head, toPeer, height, behind, blamed>>

-----------------------------------------------------------------------------
Init ==
  /\ pr = [p \in Peers |-> FreshPeer("none")]
  /\ node = [active_sync_requests |-> {}, new_received |-> <<>>, received |-> <<>>,
             recent |-> {}, suspend |-> FALSE, backlog |-> FALSE, sync_updated |-> FALSE,
             items_to_fetch |-> {}, items_updated |-> FALSE, new_inventory |-> {}]
  /\ calls = <<>> /\ head = 0
  /\ toPeer = [p \in Peers |-> <<>>] /\ fromPeer = [p \in Peers |-> <<>>]
  /\ height \in [Peers -> Heights]
  /\ behind = [p \in Peers |-> TRUE]
  /\ blamed = {}
  /\ budget = [drops |-> MaxDrops, missing |-> MaxMissing, asks |-> MaxAsks]

(* What the node, the chain and the loops of the node do.                  *)
NodeStep ==
  \/ fetch_sync_items_loop \/ fetch_items_loop \/ advertise_inventory_loop
  \/ process_backlog_of_sync_blocks
  \/ handle_block \/ send_sync_block_to_node_delegate
  \/ process_block_during_normal_operation

PeerStep(p) ==
  \/ on_message(p) \/ PeerSendsIds(p) \/ PeerSendsItems(p)
  \/ TerminateClosing(p) \/ on_connection_closed(p) \/ new_peer_just_added(p)

Next ==
  \/ NodeStep
  \/ \E p \in Peers :
       \/ PeerStep(p) \/ PeerGrows(p) \/ PeerAsks(p) \/ TimeOut(p) \/ PeerCloses(p)

Spec == Init /\ [][Next]_vars

(* Tasks that are ready run, messages arrive, peers answer, the loops that *)
(* close and open connections go on.                                       *)
Fairness ==
  /\ WF_vars(fetch_sync_items_loop) /\ WF_vars(fetch_items_loop)
  /\ WF_vars(advertise_inventory_loop) /\ WF_vars(process_backlog_of_sync_blocks)
  /\ WF_vars(handle_block) /\ WF_vars(send_sync_block_to_node_delegate)
  /\ WF_vars(process_block_during_normal_operation)
  /\ \A p \in Peers : WF_vars(PeerStep(p))
FairSpec == Spec /\ Fairness

-----------------------------------------------------------------------------
(* Properties                                                              *)

Connected == {p \in Peers : pr[p].list # "none"}

(* The variables have the types of the members they stand for.             *)
TypeOK ==
  /\ pr \in [Peers -> PeerType] /\ node \in NodeType
  /\ calls \in Seq([from : Peers \cup {Sync}, block : Blocks,
                    result : Results])
  /\ head \in 0..MaxBlock /\ height \in [Peers -> 0..MaxBlock]
  /\ behind \in [Peers -> BOOLEAN] /\ blamed \subseteq Peers \X {"ids", "unrequested", "refused"}

(* The backlog hands the chain the blocks of a synchronisation in the      *)
(* order of the chain, whatever order the peers deliver them in and        *)
(* whichever connections come and go: a block that waits for the chain     *)
(* follows the head or a block in front of it, unless it builds on a block *)
(* that the chain refuses.                                                 *)
SyncInOrder ==
  \A i \in DOMAIN calls :
    calls[i].from = Sync =>
      \/ calls[i].block <= head + 1
      \/ \E j \in 1..(i - 1) : calls[i].block <= calls[j].block + 1
      \/ \E r \in Refused : r < calls[i].block

(* What the node holds back from other peers, _active_sync_requests, is on *)
(* request at exactly one peer that can still answer or be closed; after   *)
(* timeouts, late answers and new connections as well.                     *)
RequestsAreOpen ==
  \A b \in Blocks :
    Cardinality({p \in Connected : b \in pr[p].sync_items_requested})
      = IF b \in node.active_sync_requests THEN 1 ELSE 0

(* A peer that only answers what it was asked is never disconnected for a  *)
(* block the node does not remember asking for ("we must have a            *)
(* misbehaving peer"), and for a refused block only if its chain has one.  *)
HonestNotBlamed ==
  \A x \in blamed : /\ x[2] # "unrequested"
                    /\ x[2] = "refused" => \E b \in Refused : b <= height[x[1]]

(* Not met by the code.  Nor is it disconnected for a list of block ids    *)
(* ("You gave an invalid response to my request for sync blocks").         *)
HonestIdsNotBlamed == \A x \in blamed : x[2] # "ids"

(* Not met by the code.  A block that the chain has accepted is not left   *)
(* among the blocks a peer waits for ("treating it as accepted"): what is   *)
(* being processed for a peer is in a call whose end takes it off.         *)
ProcessedIsUnderWay ==
  \A p \in Peers : pr[p].list = "active" =>
    \A b \in pr[p].ids_of_items_being_processed :
      \E i \in DOMAIN calls : calls[i] \in [from : {Sync}, block : {b}, result : Results]

(* Fetching is suspended only while a call is under way that resumes it.   *)
SuspensionEnds == node.suspend => node.backlog \/ SyncCalls # {}

CaughtUp(p) == head >= height[p] /\ ~pr[p].we_need

(* A list of ids is left off, to fetch the blocks on it first.             *)
LeftOff(p) == pr[p].unfetched > 0 /\ Len(pr[p].ids_of_items_to_get) > MinPrefetch

(* All that was listed is fetched and accepted, and nobody asks the peer   *)
(* for the ids that are left: none of its blocks is on the way any more,   *)
(* and an accepted block asks only when no ids are left.                   *)
LeftUnasked(p) ==
  /\ pr[p].ids_of_items_to_get = <<>> /\ pr[p].ids_of_items_being_processed = {}
  /\ pr[p].unfetched > 0 /\ Idle(pr[p])

(* A block that the chain accepted was listed and fetched again, and waits *)
(* for a call that is over: the peer is never asked for more.              *)
LeftProcessed(p) ==
  /\ pr[p].ids_of_items_being_processed \cap node.recent # {} /\ SyncCalls = {}
  /\ Idle(pr[p])

(* With a peer whose connection holds the node catches up and knows it,    *)
(* unless it left off a list longer than MinPrefetch; synchronisation can  *)
(* then also end with ids that nobody asks for, or with an accepted block  *)
(* that stays among those being processed, and in no other way.            *)
CatchesUp ==
  \A p \in Peers :
    \/ <>[]CaughtUp(p)
    \/ <>LeftOff(p) /\ <>[](LeftUnasked(p) \/ LeftProcessed(p))

(* Not met by the code.  A list of ids that is left off to fetch its       *)
(* blocks is continued ("we'll switch back later to finish the job"), so   *)
(* that the node catches up.                                               *)
ListsContinued == \A p \in Peers : <>[]CaughtUp(p)
=============================================================================
