--------------------------- MODULE NodeSyncProofs ---------------------------
(***************************************************************************)
(* Proofs about synchronisation with peers, for every number of peers,     *)
(* every chain, every set of blocks that the chain refuses and every limit *)
(* of the node.                                                            *)
(***************************************************************************)
EXTENDS NodeSync, InductionTheorems, SequenceTheorems

-----------------------------------------------------------------------------
(* The inductive invariant                                                 *)

ToMessages ==
  [type : {"fetch_ids"}, synopsis : SUBSET Blocks]
    \cup [type : {"fetch_items"}, by : {"message_hash", "block_id"}, items : Seq(Blocks)]

FromMessages ==
  [type : {"ids"}, hashes : Seq(Blocks), remaining : 0..MaxBlock]
    \cup [type : {"fetch_ids"}, synopsis : SUBSET Blocks]
    \cup [type : {"inventory", "block", "missing"}, block : Blocks]

Calls == [from : Peers \cup {Sync}, block : Blocks, result : Results]
Blamings == SUBSET (Peers \X {"ids", "unrequested", "refused"})

(* What a task can reach, see Here.                                        *)
TaskState ==
  [pr : [Peers -> PeerType], node : NodeType, out : [Peers -> Seq(ToMessages)], blamed : Blamings]

(* The types of all variables but budget.                                  *)
TypeInv ==
  /\ Here \in TaskState /\ fromPeer \in [Peers -> Seq(FromMessages)]
  /\ calls \in Seq(Calls) /\ head \in 0..MaxBlock
  /\ height \in [Peers -> 0..MaxBlock] /\ behind \in [Peers -> BOOLEAN]

(* The ids of a list follow one another on the chain.                      *)
InARow(ids) == \A i \in 1..Len(ids) : ids[i] = ids[1] + i - 1

(* The chain refuses no block up to k.                                     *)
Sound(k) == \A r \in Refused : ~(r <= k)

(* Block k is in the chain or among the first n calls.                     *)
Covered(k, n) == k <= head \/ \E j \in 1..n : calls[j].from = Sync /\ calls[j].block = k

(* The blocks up to which everything the chain can take is there already   *)
(* or on its way.                                                          *)
Reached == {c \in 0..MaxBlock : \A k \in 1..c : Sound(k) => Covered(k, Len(calls))}

(* The messages on a closed connection are lost, and what is not connected *)
(* was asked for nothing.                                                  *)
ClosedIsQuiet(r, out, in) ==
  /\ ~r.open => out = <<>> /\ in = <<>>
  /\ r.list = "none" => ~r.open /\ r.sync_items_requested = {}

(* A peer's list of ids is a piece of its chain that starts no later than  *)
(* the first block still to come; so does what can be appended to it.      *)
ListOk(r, h, C) ==
  LET ids == r.ids_of_items_to_get
  IN /\ InARow(ids)
     /\ \A i \in 1..Len(ids) : ids[i] <= h
     /\ ids # <<>> => ids[1] - 1 \in C
     /\ r.last_seen \in C
     /\ r.item_ids_requested.on =>
          \A c \in r.item_ids_requested.synopsis : c \in C \/ (ids # <<>> /\ c <= ids[Len(ids)])

(* What a peer listed or advertised is on its chain.                       *)
Held(r, in, h) ==
  /\ \A b \in r.ids_of_items_being_processed \cup r.advertised_to_us \cup r.items_requested : b <= h
  /\ \A i \in 1..Len(in) : in[i].type = "ids" =>
       InARow(in[i].hashes) /\ \A j \in 1..Len(in[i].hashes) : in[i].hashes[j] <= h
  /\ \A i \in 1..Len(in) : in[i].type = "inventory" => in[i].block <= h

IsItem(m) == m.type \in {"block", "missing"}

(* The items on their way from a peer are requested from it, each once.    *)
AnswersOpen(r, in) ==
  /\ \A i \in 1..Len(in) : IsItem(in[i]) =>
       in[i].block \in r.items_requested \cup r.sync_items_requested
  /\ \A i \in 1..Len(in) : in[i].type = "missing" /\ "block_id" \notin LostBy =>
       in[i].block \in r.items_requested
  /\ \A i, j \in 1..Len(in) : IsItem(in[i]) /\ IsItem(in[j]) /\ in[i].block = in[j].block => i = j

(* So are the items of the requests on their way.                          *)
IsAsk(m) == m.type = "fetch_items"
RequestedBy(r, by) == IF by = "block_id" THEN r.sync_items_requested ELSE r.items_requested
AskedFor(r, out) ==
  \A i \in 1..Len(out) : IsAsk(out[i]) =>
    \A k \in 1..Len(out[i].items) : out[i].items[k] \in RequestedBy(r, out[i].by)
AskedOnce(out) ==
  \A i, j \in 1..Len(out) : IsAsk(out[i]) /\ IsAsk(out[j]) =>
    \A k \in 1..Len(out[i].items), l \in 1..Len(out[j].items) :
      out[i].items[k] = out[j].items[l] => i = j /\ k = l
NotAnswered(out, in) ==
  \A i \in 1..Len(out), j \in 1..Len(in) : IsAsk(out[i]) /\ IsItem(in[j]) =>
    \A k \in 1..Len(out[i].items) : out[i].items[k] # in[j].block
AsksOpen(r, out, in) == AskedFor(r, out) /\ AskedOnce(out) /\ NotAnswered(out, in)

OneKind(r) == r.items_requested = {} \/ r.sync_items_requested = {}

(* A peer's connection r, the messages to and from it, its height h, and C *)
(* as Reached.                                                             *)
PeerOk(r, out, in, h, C) ==
  /\ ClosedIsQuiet(r, out, in) /\ ListOk(r, h, C) /\ Held(r, in, h)
  /\ AnswersOpen(r, in) /\ AsksOpen(r, out, in) /\ OneKind(r)

(* _active_sync_requests is the disjoint union of what the peers were      *)
(* asked for.                                                              *)
RequestsOk(S) ==
  /\ \A p \in Peers : S.pr[p].sync_items_requested \subseteq S.node.active_sync_requests
  /\ \A p, q \in Peers : p # q =>
       S.pr[p].sync_items_requested \cap S.pr[q].sync_items_requested = {}
  /\ "block_id" \notin LostBy =>
       \A b \in S.node.active_sync_requests : \E p \in Peers : b \in S.pr[p].sync_items_requested

(* Nobody is blamed without a reason, what was just accepted is in the     *)
(* chain, and a suspension has a task that ends it.                        *)
BlamedOk(who) ==
  \A x \in who : x[2] # "unrequested" /\ (x[2] = "refused" => \E b \in Refused : b <= height[x[1]])
NodeOk(S) ==
  /\ BlamedOk(S.blamed) /\ \A b \in S.node.recent : b <= head
  /\ S.node.suspend => S.node.backlog \/ SyncCalls # {}

Good(S, in, C) ==
  /\ S \in TaskState
  /\ \A p \in Peers : PeerOk(S.pr[p], S.out[p], in[p], height[p], C)
  /\ RequestsOk(S) /\ NodeOk(S)

(* A block is handed to the chain behind all the blocks it builds on.      *)
CallOk(c, i) ==
  /\ c.from = Sync => \A k \in 1..(c.block - 1) : Sound(k) => Covered(k, i - 1)
  /\ c.from # Sync => c.block <= height[c.from]
  /\ c.result = "accepted" => c.block <= head
  /\ c.result = "refused" => c.block \in Refused
  /\ c.from = Sync /\ c.result = "unlinkable" => ~Sound(c.block)
CallsOk == \A i \in 1..Len(calls) : CallOk(calls[i], i)

SyncInv == TypeInv /\ Good(Here, fromPeer, Reached) /\ CallsOk
-----------------------------------------------------------------------------
(* Sequences and numbers                                                   *)

(* A sequence without its head.                                            *)
LEMMA TailFacts ==
  ASSUME NEW T, NEW q \in Seq(T), q # <<>>
  PROVE  /\ Tail(q) \in Seq(T) /\ Len(Tail(q)) = Len(q) - 1 /\ Len(q) \in Nat \ {0}
         /\ \A i \in 1..Len(Tail(q)) : Tail(q)[i] = q[i + 1] /\ i + 1 \in 1..Len(q)
         /\ q[1] = Head(q) /\ Head(q) \in T /\ 1 \in 1..Len(q)
OBVIOUS

(* A sequence with one element more.                                       *)
LEMMA AppendFacts ==
  ASSUME NEW T, NEW q \in Seq(T), NEW e \in T
  PROVE  /\ Append(q, e) \in Seq(T) /\ Len(Append(q, e)) = Len(q) + 1 /\ Len(q) \in Nat
         /\ \A i \in 1..Len(q) : Append(q, e)[i] = q[i] /\ i \in 1..(Len(q) + 1)
         /\ Append(q, e)[Len(q) + 1] = e
         /\ \A i \in 1..Len(Append(q, e)) : i \in 1..Len(q) \/ i = Len(q) + 1
OBVIOUS

(* Two sequences one after the other.                                      *)
LEMMA ConcatFacts ==
  ASSUME NEW T, NEW a \in Seq(T), NEW c \in Seq(T)
  PROVE  /\ a \o c \in Seq(T) /\ Len(a \o c) = Len(a) + Len(c)
         /\ Len(a) \in Nat /\ Len(c) \in Nat
         /\ \A i \in 1..Len(a) : (a \o c)[i] = a[i]
         /\ \A i \in 1..Len(c) : (a \o c)[Len(a) + i] = c[i]
         /\ \A i \in 1..Len(a \o c) : i \in 1..Len(a) \/ i - Len(a) \in 1..Len(c)
<1>1. Len(a) \in Nat /\ Len(c) \in Nat
  OBVIOUS
<1>2. a \o c \in Seq(T) /\ Len(a \o c) = Len(a) + Len(c)
  BY ConcatProperties
<1>3. \A i \in 1..(Len(a) + Len(c)) : (a \o c)[i] = IF i <= Len(a) THEN a[i] ELSE c[i - Len(a)]
  BY ConcatProperties
<1>4. \A i \in 1..Len(a) : i \in 1..(Len(a) + Len(c)) /\ i <= Len(a)
  BY <1>1
<1>5. ASSUME NEW i \in 1..Len(c) PROVE (a \o c)[Len(a) + i] = c[i]
  <2>1. Len(a) + i \in 1..(Len(a) + Len(c)) /\ ~(Len(a) + i <= Len(a)) /\ Len(a) + i - Len(a) = i
    BY <1>1
  <2> QED BY <2>1, <1>3
<1>6. \A i \in 1..(Len(a) + Len(c)) : i \in 1..Len(a) \/ i - Len(a) \in 1..Len(c)
  BY <1>1
<1> QED BY <1>1, <1>2, <1>3, <1>4, <1>5, <1>6

(* A piece of a sequence.                                                  *)
LEMMA PieceFacts ==
  ASSUME NEW T, NEW q \in Seq(T), NEW m \in 1..(Len(q) + 1), NEW n \in 0..Len(q), n >= m - 1
  PROVE  /\ SubSeq(q, m, n) \in Seq(T) /\ Len(SubSeq(q, m, n)) = n - m + 1
         /\ \A i \in 1..(n - m + 1) : SubSeq(q, m, n)[i] = q[m + i - 1] /\ m + i - 1 \in 1..Len(q)
OBVIOUS

(* The greatest of finitely many numbers.                                  *)
LEMMA MaxIsIn ==
  ASSUME NEW S \in SUBSET Nat, S # {}, NEW k \in Nat, \A x \in S : x <= k
  PROVE  Max(S) \in S /\ \A x \in S : x <= Max(S)
<1>1. PICK n \in S : \A x \in S : x <= n
  BY GreatestBelow
<1>2. \A x \in S : n >= x
  BY <1>1
<1> QED BY <1>2 DEF Max

(* The least of some numbers.                                              *)
LEMMA MinIsIn ==
  ASSUME NEW S \in SUBSET Nat, S # {}
  PROVE  Min(S) \in S /\ \A x \in S : Min(S) <= x
<1>1. PICK n \in S : \A x \in S : n <= x
  BY LeastNatural
<1>2. \A x \in S : n =< x
  BY <1>1
<1> QED BY <1>2 DEF Min

(* Step i of FirstWanted(ids, wanted, n), and what its recursive function  *)
(* is.                                                                     *)
TakeStep(ids, wanted, n, i, r) ==
  IF ids[i] \in wanted /\ Len(r) < n THEN Append(r, ids[i]) ELSE r
IsTaking(g, ids, wanted, n) ==
  g = [i \in 0..Len(ids) |-> IF i = 0 THEN <<>> ELSE TakeStep(ids, wanted, n, i, g[i - 1])]

(* What was taken of the first i ids.                                      *)
TakenOf(ids, wanted, i, r) ==
  /\ \A j \in 1..Len(r) : r[j] \in wanted /\ \E k \in 1..i : ids[k] = r[j]
  /\ (\A j, k \in 1..Len(ids) : ids[j] = ids[k] => j = k)
       => \A j, k \in 1..Len(r) : r[j] = r[k] => j = k

(* FirstWanted takes wanted ids, and each once if each is listed once.     *)
LEMMA FirstWantedFacts ==
  ASSUME NEW T, NEW ids \in Seq(T), NEW wanted, NEW n \in Nat
  PROVE  /\ FirstWanted(ids, wanted, n) \in Seq(T)
         /\ TakenOf(ids, wanted, Len(ids), FirstWanted(ids, wanted, n))
<1> DEFINE N == Len(ids)
           St(i, r) == TakeStep(ids, wanted, n, i, r)
           H == [x \in (1..N) \X Seq(T) |-> St(x[1], x[2])]
           G == CHOOSE g : IsTaking(g, ids, wanted, n)
<1>1. N \in Nat /\ \A i \in 1..N : ids[i] \in T
  OBVIOUS
<1>2. FirstWanted(ids, wanted, n) = G[N]
  BY DEF FirstWanted, IsTaking, TakeStep
<1>3. \A i \in 1..N : \A r \in Seq(T) : St(i, r) \in Seq(T)
  BY <1>1 DEF TakeStep
<1>4. IsTaking(G, ids, wanted, n)
  <2>1. H \in [(1..N) \X Seq(T) -> Seq(T)]
    <3> HIDE DEF St, N
    <3> QED BY <1>3
  <2>2. PICK f : LoopOf(f, N, Seq(T), <<>>, H)
    <3>1. <<>> \in Seq(T)
      OBVIOUS
    <3> HIDE DEF H, N
    <3> QED BY <1>1, <2>1, <3>1, LoopExists
  <2>3. f \in [0..N -> Seq(T)] /\ f[0] = <<>> /\ \A i \in 1..N : f[i] = H[<<i, f[i - 1]>>]
    BY <2>2 DEF LoopOf
  <2>9. \A i \in 1..N : i - 1 \in 0..N
    BY <1>1
  <2>4. \A i \in 1..N : i - 1 \in 0..N /\ f[i - 1] \in Seq(T)
    <3> HIDE DEF N, H
    <3> QED BY <2>9, <2>3
  <2>5. \A i \in 1..N : f[i] = St(i, f[i - 1])
    <3> HIDE DEF St, N
    <3> QED BY <2>3, <2>4
  <2>6. \A i \in 0..N : i = 0 \/ i \in 1..N
    BY <1>1
  <2>7. f = [i \in 0..N |-> IF i = 0 THEN <<>> ELSE St(i, f[i - 1])]
    <3> HIDE DEF St, N
    <3> QED BY <2>3, <2>5, <2>6, <1>1
  <2>8. IsTaking(f, ids, wanted, n)
    BY <2>7 DEF IsTaking
  <2> QED BY <2>8
<1>5. G = [i \in 0..N |-> IF i = 0 THEN <<>> ELSE St(i, G[i - 1])]
  BY <1>4 DEF IsTaking
<1> HIDE DEF G
<1> DEFINE Sel == {i \in 0..N : G[i] \in Seq(T) /\ TakenOf(ids, wanted, i, G[i])}
<1>6. 0 \in Sel
  <2>1. 0 \in 0..N
    BY <1>1
  <2>2. G[0] = <<>>
    BY <1>5, <2>1
  <2>3. Len(<<>>) = 0 /\ <<>> \in Seq(T) /\ 1..0 = {}
    OBVIOUS
  <2>4. TakenOf(ids, wanted, 0, <<>>)
    BY <2>3 DEF TakenOf
  <2> QED BY <2>1, <2>2, <2>3, <2>4
<1>7. ASSUME NEW i \in 1..N, i - 1 \in Sel PROVE i \in Sel
  <2> DEFINE q == G[i - 1]
             e == ids[i]
  <2>1. q \in Seq(T) /\ TakenOf(ids, wanted, i - 1, q)
    BY <1>7
  <2>2. i \in Nat /\ i \in 0..N /\ i # 0
    BY <1>1
  <2>5. G[i] = St(i, q)
    BY <1>5, <2>2
  <2>3. CASE ~(e \in wanted /\ Len(q) < n)
    <3>1. G[i] = q
      BY <2>5, <2>3 DEF TakeStep
    <3>2. \A k \in 1..(i - 1) : k \in 1..i
      BY <2>2
    <3>3. TakenOf(ids, wanted, i, q)
      <4> HIDE DEF q
      <4> QED BY <2>1, <3>2 DEF TakenOf
    <3> QED BY <3>1, <3>3, <2>1, <2>2
  <2>4. CASE e \in wanted /\ Len(q) < n
    <3>1. G[i] = Append(q, e)
      BY <2>5, <2>4 DEF TakeStep
    <3>2. e \in T
      BY <1>1
    <3>3. \A k \in 1..(i - 1) : k \in 1..i
      BY <2>2
    <3> DEFINE r == Append(q, e)
    <3>4. /\ r \in Seq(T) /\ Len(r) = Len(q) + 1 /\ Len(q) \in Nat
          /\ \A j \in 1..Len(q) : r[j] = q[j]
          /\ r[Len(q) + 1] = e
          /\ \A j \in 1..Len(r) : j \in 1..Len(q) \/ j = Len(q) + 1
      <4> HIDE DEF q, e
      <4> QED BY <2>1, <3>2, AppendFacts
    <3>5. \A j \in 1..Len(r) : r[j] \in wanted /\ \E k \in 1..i : ids[k] = r[j]
      <4> HIDE DEF q, r
      <4>1. i \in 1..i
        BY <2>2
      <4> QED BY <2>1, <2>4, <3>3, <3>4, <4>1 DEF TakenOf
    <3>6. ASSUME \A j, k \in 1..Len(ids) : ids[j] = ids[k] => j = k
          PROVE  \A j, k \in 1..Len(r) : r[j] = r[k] => j = k
      <4>1. \A j \in 1..Len(q) : q[j] # e
        <5> SUFFICES ASSUME NEW j \in 1..Len(q), q[j] = e PROVE FALSE
          OBVIOUS
        <5>1. PICK k \in 1..(i - 1) : ids[k] = q[j]
          BY <2>1 DEF TakenOf
        <5>2. k \in 1..N /\ i \in 1..N /\ k # i
          BY <1>1
        <5> QED BY <5>1, <5>2, <3>6
      <4>2. \A j, k \in 1..Len(q) : q[j] = q[k] => j = k
        BY <2>1, <3>6 DEF TakenOf
      <4> HIDE DEF q, r, e
      <4> QED BY <4>1, <4>2, <3>4
    <3>7. TakenOf(ids, wanted, i, r)
      <4> HIDE DEF r
      <4> QED BY <3>5, <3>6 DEF TakenOf
    <3> QED BY <3>1, <3>4, <3>7, <2>2
  <2> QED BY <2>3, <2>4
<1>8. N \in 0..N
  BY <1>1
<1>9. \A i \in 0..N : i \in Sel
  <2> HIDE DEF Sel, N
  <2> QED BY <1>1, <1>6, <1>7, UpTo
<1> QED BY <1>2, <1>8, <1>9

-----------------------------------------------------------------------------
(* Synopses and lists of ids                                               *)

(* What the recursive function in SynopsisOf(high) is.                     *)
IsSynopsis(g, high) ==
  g = [low \in 1..(high + 1) |->
         IF low > high THEN {} ELSE {low} \cup g[low + (high - low + 2) \div 2]]

(* A synopsis of a chain names blocks of that chain only.                  *)
LEMMA SynopsisFacts ==
  ASSUME NEW high \in Nat
  PROVE  SynopsisOf(high) \subseteq 1..high
<1> DEFINE A == 1..high
           r == high + 1
           p == [low \in A |-> low + (high - low + 2) \div 2]
           V == SUBSET A
           H == [x \in A \X V |-> {x[1]} \cup x[2]]
           G == CHOOSE g : IsSynopsis(g, high)
<1>1. SynopsisOf(high) = G[1]
  BY DEF SynopsisOf, IsSynopsis
<1>2. /\ r \notin A /\ A \cup {r} = 1..(high + 1) /\ A \subseteq Nat
      /\ \A low \in A : ~(low > high) /\ low \in Nat
      /\ r > high
  OBVIOUS
<1>3. ASSUME NEW low \in A
      PROVE  low + (high - low + 2) \div 2 \in A \cup {r} /\ low + (high - low + 2) \div 2 > low
  <2>1. PICK d \in Nat : d = high - low
    OBVIOUS
  <2>2. (d + 2) \div 2 >= 1 /\ (d + 2) \div 2 <= d + 1 /\ (d + 2) \div 2 \in Nat
    OBVIOUS
  <2>3. high - low + 2 = d + 2
    BY <2>1
  <2>4. low + (d + 2) \div 2 \in 1..(high + 1) /\ low + (d + 2) \div 2 > low
    BY <2>1, <2>2
  <2> QED BY <2>3, <2>4, <1>2
<1>4. ParentTree(A, r, p)
  <2>1. p \in [A -> A \cup {r}]
    BY <1>3
  <2>2. ASSUME NEW S \in SUBSET A, S # {} PROVE \E b \in S : p[b] \notin S
    <3>1. S \in SUBSET Nat /\ \A x \in S : x <= high
      OBVIOUS
    <3>2. PICK m \in S : \A x \in S : x <= m
      BY <3>1, <2>2, GreatestBelow
    <3>3. p[m] > m /\ m \in Nat /\ p[m] \in Nat
      BY <1>2, <1>3
    <3>4. p[m] \notin S
      BY <3>2, <3>3
    <3> QED BY <3>2, <3>4
  <2> QED BY <2>1, <2>2, <1>2 DEF ParentTree
<1>5. PICK f \in [A \cup {r} -> V] : RecursiveAlong(f, A, r, p, H, {})
  <2>1. H \in [A \X V -> V] /\ {} \in V
    OBVIOUS
  <2> HIDE DEF A, r, p, V, H
  <2> QED BY <1>4, <2>1, RecursionAlongParents
<1>6. f[r] = {} /\ \A low \in A : f[low] = {low} \cup f[low + (high - low + 2) \div 2]
  <2>1. \A low \in A : p[low] = low + (high - low + 2) \div 2 /\ p[low] \in A \cup {r}
    BY <1>3
  <2>2. \A low \in A : f[p[low]] \in V
    BY <2>1, <1>5
  <2>3. \A low \in A : \A v \in V : H[<<low, v>>] = {low} \cup v
    OBVIOUS
  <2>4. f[r] = {} /\ \A low \in A : f[low] = {low} \cup f[p[low]]
    <3> HIDE DEF A, r, p, V, H
    <3> QED BY <1>5, <2>2, <2>3 DEF RecursiveAlong
  <2>5. ASSUME NEW low \in A PROVE f[low] = {low} \cup f[low + (high - low + 2) \div 2]
    <3> HIDE DEF A, r, p, V, H
    <3> QED BY <2>1, <2>4
  <2> QED BY <2>4, <2>5
<1>7. IsSynopsis(f, high)
  <2>1. f = [low \in A \cup {r} |-> IF low > high THEN {} ELSE {low} \cup f[low + (high - low + 2) \div 2]]
    <3> HIDE DEF A, r, p, V, H
    <3> QED BY <1>2, <1>5, <1>6
  <2> QED BY <2>1, <1>2 DEF IsSynopsis
<1>8. IsSynopsis(G, high)
  BY <1>7
<1> HIDE DEF G
<1>9. G = [low \in A \cup {r} |-> IF low > high THEN {} ELSE {low} \cup G[low + (high - low + 2) \div 2]]
  BY <1>8, <1>2 DEF IsSynopsis
<1> DEFINE T == {low \in A \cup {r} : ~(G[low] \subseteq A)}
<1>10. T = {}
  <2> SUFFICES ASSUME T # {} PROVE FALSE
    OBVIOUS
  <2>1. T \in SUBSET Nat /\ \A x \in T : x <= high + 1
    BY <1>2
  <2>2. PICK m \in T : \A x \in T : x <= m
    <3>1. high + 1 \in Nat
      OBVIOUS
    <3> HIDE DEF T
    <3> QED BY <2>1, <3>1, GreatestBelow
  <2>3. CASE m = r
    <3>1. G[m] = {}
      BY <2>3, <1>9, <1>2
    <3> QED BY <3>1
  <2>4. CASE m \in A
    <3> DEFINE k == m + (high - m + 2) \div 2
    <3>1. k \in A \cup {r} /\ k > m /\ k \in Nat /\ m \in Nat
      BY <2>4, <1>2, <1>3
    <3>2. G[k] \subseteq A
      BY <2>2, <3>1
    <3>3. G[m] = {m} \cup G[k]
      BY <2>4, <1>9, <1>2
    <3>4. G[m] \subseteq A
      <4> HIDE DEF A, k
      <4> QED BY <3>2, <3>3, <2>4
    <3> QED BY <3>4
  <2> QED BY <2>3, <2>4
<1>11. 1 \in A \cup {r}
  BY <1>2
<1> QED BY <1>1, <1>10, <1>11

(* get_block_ids gives a piece of the chain.                               *)
LEMMA BlockIdsFacts ==
  ASSUME NEW high \in 0..MaxBlock, NEW synopsis \in SUBSET Blocks
  PROVE  LET reply == BlockIds(high, synopsis)
         IN /\ reply.hashes \in Seq(Blocks) /\ reply.remaining \in 0..MaxBlock
            /\ InARow(reply.hashes)
            /\ \A i \in 1..Len(reply.hashes) : reply.hashes[i] <= high
<1> DEFINE known == {b \in synopsis : b <= high}
           first == CASE synopsis = {} -> 1
                      [] synopsis # {} /\ known # {} -> Max(known)
                      [] OTHER -> high + 1
           last  == IF first + Batch - 1 < high THEN first + Batch - 1 ELSE high
           n == last - first + 1
           ids == [i \in 1..n |-> first + i - 1]
<1>1. MaxBlock \in Nat /\ Batch \in Nat \ {0, 1} /\ high \in Nat /\ high <= MaxBlock
  BY BoundAssumption
<1>2. first \in 1..(high + 1)
  <2>1. CASE synopsis = {}
    <3>1. first = 1
      BY <2>1
    <3> HIDE DEF first
    <3> QED BY <1>1, <3>1
  <2>2. CASE synopsis # {} /\ known # {}
    <3>5. \A x \in Blocks : x \in Nat /\ x >= 1
      BY <1>1 DEF Blocks
    <3>1. known \in SUBSET Nat /\ \A x \in known : x <= high /\ x >= 1
      BY <3>5
    <3>2. Max(known) \in known
      <4> HIDE DEF known
      <4>1. \A x \in known : x <= high
        BY <3>1
      <4> QED BY <1>1, <2>2, <3>1, <4>1, MaxIsIn
    <3>3. first = Max(known)
      BY <2>2
    <3> HIDE DEF first, known
    <3>4. Max(known) \in Nat /\ Max(known) <= high /\ Max(known) >= 1
      BY <3>1, <3>2
    <3> QED BY <1>1, <3>3, <3>4
  <2>3. CASE synopsis # {} /\ known = {}
    <3>1. first = high + 1
      BY <2>3
    <3> HIDE DEF first
    <3> QED BY <1>1, <3>1
  <2> QED BY <2>1, <2>2, <2>3
<1> HIDE DEF first
<1>3. first \in Nat /\ first >= 1 /\ first <= high + 1 /\ Batch \in Nat /\ Batch >= 2
  BY <1>1, <1>2
<1>4. last \in Int /\ last <= high /\ n \in Int /\ last >= 0 /\ n = last - first + 1
  BY <1>1, <1>3
<1>5. BlockIds(high, synopsis) = [hashes |-> ids, remaining |-> IF last < first THEN 0 ELSE high - last]
  BY DEF BlockIds, first
<1>6. (IF last < first THEN 0 ELSE high - last) \in 0..MaxBlock
  <2> HIDE DEF last, n
  <2> QED BY <1>1, <1>3, <1>4
<1>7. n >= 0
  BY <1>1, <1>3
<1>8. \A i \in 1..n : first + i - 1 \in Blocks /\ first + i - 1 <= high
  <2> HIDE DEF last, n
  <2> QED BY <1>1, <1>3, <1>4 DEF Blocks
<1>9. ids \in Seq(Blocks) /\ Len(ids) = n
  <2> HIDE DEF n
  <2> QED BY <1>4, <1>7, <1>8
<1>10. \A i \in 1..Len(ids) : ids[i] = first + i - 1 /\ ids[i] <= high
  <2> HIDE DEF n
  <2> QED BY <1>8, <1>9
<1>11. InARow(ids)
  <2> SUFFICES ASSUME NEW i \in 1..Len(ids) PROVE ids[i] = ids[1] + i - 1
    BY DEF InARow
  <2>1. 1 \in 1..Len(ids) /\ i \in Int
    <3> HIDE DEF n, ids
    <3> QED BY <1>4, <1>9
  <2>2. ids[1] = first /\ ids[i] = first + i - 1
    <3> HIDE DEF ids
    <3> QED BY <1>10, <2>1, <1>3
  <2> QED BY <2>2
<1> HIDE DEF ids
<1> QED BY <1>5, <1>6, <1>9, <1>10, <1>11

-----------------------------------------------------------------------------
(* What a step may do to one peer                                          *)

(* What the requests of a peer are does not change.                        *)
SameRequests(r, q) ==
  /\ q.open = r.open /\ (q.list = "none" => r.list = "none")
  /\ q.items_requested = r.items_requested /\ q.sync_items_requested = r.sync_items_requested

(* Nor does the list of ids.                                               *)
SameList(r, q) ==
  q.ids_of_items_to_get = r.ids_of_items_to_get /\ q.item_ids_requested = r.item_ids_requested

(* The parts of PeerOk that only look at requests and messages.            *)
LEMMA KeepsMessages ==
  ASSUME NEW r, NEW q, NEW out, NEW in, SameRequests(r, q),
         ClosedIsQuiet(r, out, in), AnswersOpen(r, in), AsksOpen(r, out, in), OneKind(r)
  PROVE  ClosedIsQuiet(q, out, in) /\ AnswersOpen(q, in) /\ AsksOpen(q, out, in) /\ OneKind(q)
<1>1. ClosedIsQuiet(q, out, in)
  BY DEF SameRequests, ClosedIsQuiet
<1>2. AnswersOpen(q, in)
  BY DEF SameRequests, AnswersOpen
<1>3. \A by : RequestedBy(q, by) = RequestedBy(r, by)
  BY DEF SameRequests, RequestedBy
<1>4. AsksOpen(q, out, in)
  BY <1>3 DEF AsksOpen, AskedFor
<1>5. OneKind(q)
  BY DEF SameRequests, OneKind
<1> QED BY <1>1, <1>2, <1>4, <1>5

(* What the node remembers of a peer besides its list and its requests.    *)
LEMMA PeerNotes ==
  ASSUME NEW r, NEW q, NEW out, NEW in, NEW h, NEW C, PeerOk(r, out, in, h, C),
         SameRequests(r, q), SameList(r, q), q.last_seen \in C,
         \A b \in q.ids_of_items_being_processed \cup q.advertised_to_us : b <= h
  PROVE  PeerOk(q, out, in, h, C)
<1>1. ListOk(q, h, C)
  BY DEF PeerOk, ListOk, SameList
<1>2. Held(q, in, h)
  BY DEF PeerOk, Held, SameRequests
<1> QED BY <1>1, <1>2, KeepsMessages DEF PeerOk

(* The peer's chain grows, and so does the node's.                         *)
LEMMA PeerLater ==
  ASSUME NEW r \in PeerType, NEW out, NEW in \in Seq(FromMessages), NEW h \in 0..MaxBlock, NEW C,
         NEW g \in 0..MaxBlock, NEW D, h <= g, C \subseteq D, PeerOk(r, out, in, h, C)
  PROVE  PeerOk(r, out, in, g, D)
<1>1. MaxBlock \in Nat
  BY BoundAssumption
<1>2. \A b \in Blocks : b <= h => b <= g
  BY <1>1 DEF Blocks
<1>3. ListOk(r, g, D)
  <2>1. \A i \in 1..Len(r.ids_of_items_to_get) : r.ids_of_items_to_get[i] \in Blocks
    BY DEF PeerType
  <2> QED BY <1>2, <2>1 DEF PeerOk, ListOk
<1>4. Held(r, in, g)
  <2>1. r.ids_of_items_being_processed \cup r.advertised_to_us \cup r.items_requested \subseteq Blocks
    BY DEF PeerType
  <2>2. ASSUME NEW i \in 1..Len(in), in[i].type = "ids"
        PROVE  InARow(in[i].hashes) /\ \A j \in 1..Len(in[i].hashes) : in[i].hashes[j] <= g
    <3>1. in[i] \in FromMessages
      OBVIOUS
    <3>2. in[i].hashes \in Seq(Blocks)
      BY <3>1, <2>2 DEF FromMessages
    <3>3. \A j \in 1..Len(in[i].hashes) : in[i].hashes[j] \in Blocks
      BY <3>2
    <3> QED BY <1>2, <2>2, <3>3 DEF PeerOk, Held
  <2>3. ASSUME NEW i \in 1..Len(in), in[i].type = "inventory" PROVE in[i].block <= g
    <3>1. in[i] \in FromMessages
      OBVIOUS
    <3>2. in[i].block \in Blocks
      BY <3>1, <2>3 DEF FromMessages
    <3> QED BY <1>2, <2>3, <3>2 DEF PeerOk, Held
  <2> QED BY <1>2, <2>1, <2>2, <2>3 DEF PeerOk, Held
<1> QED BY <1>3, <1>4 DEF PeerOk

(* A message was read.                                                     *)
LEMMA PeerRead ==
  ASSUME NEW r, NEW out, NEW in \in Seq(FromMessages), NEW h, NEW C, in # <<>>,
         PeerOk(r, out, in, h, C)
  PROVE  PeerOk(r, out, Tail(in), h, C) /\ r.open /\ r.list # "none"
<1> DEFINE t == Tail(in)
<1>1. /\ t \in Seq(FromMessages) /\ Len(t) = Len(in) - 1 /\ Len(in) \in Nat \ {0}
      /\ \A i \in 1..Len(t) : t[i] = in[i + 1] /\ i + 1 \in 1..Len(in)
  BY TailFacts
<1>2. r.open /\ r.list # "none"
  BY DEF PeerOk, ClosedIsQuiet
<1> HIDE DEF t
<1>3. ClosedIsQuiet(r, out, t)
  BY <1>2 DEF ClosedIsQuiet
<1>4. Held(r, t, h)
  BY <1>1 DEF PeerOk, Held
<1>5. AnswersOpen(r, t)
  <2>1. \A i, j \in 1..Len(t) : i + 1 = j + 1 => i = j
    OBVIOUS
  <2> QED BY <1>1, <2>1 DEF PeerOk, AnswersOpen
<1>6. AsksOpen(r, out, t)
  <2>1. NotAnswered(out, t)
    BY SMTT(30), <1>1 DEF PeerOk, AsksOpen, NotAnswered
  <2> QED BY <2>1 DEF PeerOk, AsksOpen
<1> QED BY <1>2, <1>3, <1>4, <1>5, <1>6 DEF PeerOk, t

(* The node asks a peer for more block ids.                                *)
LEMMA PeerAskedForIds ==
  ASSUME NEW r, NEW q, NEW out \in Seq(ToMessages), NEW in, NEW h, NEW C,
         PeerOk(r, out, in, h, C), NEW s \in SUBSET Blocks,
         SameRequests(r, q), q.ids_of_items_to_get = r.ids_of_items_to_get,
         q.last_seen = r.last_seen, q.advertised_to_us = r.advertised_to_us,
         q.ids_of_items_being_processed = r.ids_of_items_being_processed,
         q.item_ids_requested = [on |-> TRUE, synopsis |-> s],
         \A c \in s : \/ c \in C
                      \/ /\ r.ids_of_items_to_get # <<>>
                         /\ c <= r.ids_of_items_to_get[Len(r.ids_of_items_to_get)]
  PROVE  PeerOk(q, IF r.open THEN Append(out, [type |-> "fetch_ids", synopsis |-> s]) ELSE out,
                in, h, C)
<1> DEFINE m == [type |-> "fetch_ids", synopsis |-> s]
           next == IF r.open THEN Append(out, m) ELSE out
<1>1. ClosedIsQuiet(q, out, in) /\ AnswersOpen(q, in) /\ AsksOpen(q, out, in) /\ OneKind(q)
  BY KeepsMessages DEF PeerOk
<1>2. ListOk(q, h, C)
  <2>1. q.item_ids_requested.synopsis = s
    OBVIOUS
  <2> QED BY <2>1 DEF PeerOk, ListOk
<1>3. Held(q, in, h)
  BY DEF PeerOk, Held, SameRequests
<1>4. m \in ToMessages /\ ~IsAsk(m)
  BY DEF ToMessages, IsAsk
<1> HIDE DEF m
<1>5. CASE ~r.open
  <2>1. next = out
    BY <1>5
  <2> QED BY <2>1, <1>1, <1>2, <1>3 DEF PeerOk, m
<1>6. CASE r.open
  <2>1. /\ next = Append(out, m)
        /\ Len(next) = Len(out) + 1 /\ Len(out) \in Nat
        /\ \A i \in 1..Len(out) : next[i] = out[i]
        /\ next[Len(out) + 1] = m
        /\ \A i \in 1..Len(next) : i \in 1..Len(out) \/ i = Len(out) + 1
    BY <1>4, <1>6, AppendFacts
  <2> HIDE DEF next
  <2>2. \A i \in 1..Len(next) : IsAsk(next[i]) => i \in 1..Len(out) /\ next[i] = out[i]
    BY <2>1, <1>4
  <2>3. ClosedIsQuiet(q, next, in)
    BY <1>1, <1>6 DEF ClosedIsQuiet, SameRequests
  <2>4. AskedFor(q, next)
    BY <1>1, <2>2 DEF AsksOpen, AskedFor
  <2>5. AskedOnce(next)
    BY SMTT(30), <1>1, <2>2 DEF AsksOpen, AskedOnce
  <2>6. NotAnswered(next, in)
    BY SMTT(30), <1>1, <2>2 DEF AsksOpen, NotAnswered
  <2> QED BY <1>1, <1>2, <1>3, <2>3, <2>4, <2>5, <2>6 DEF PeerOk, AsksOpen, next, m
<1> QED BY <1>5, <1>6

(* A round of synchronisation starts anew: the list is empty.              *)
LEMMA PeerRestarted ==
  ASSUME NEW r, NEW q, NEW out, NEW in, NEW h, NEW C, 0 \in C, PeerOk(r, out, in, h, C),
         SameRequests(r, q), q.ids_of_items_to_get = <<>>, q.last_seen = 0,
         ~q.item_ids_requested.on, q.advertised_to_us = r.advertised_to_us,
         q.ids_of_items_being_processed = r.ids_of_items_being_processed
  PROVE  PeerOk(q, out, in, h, C)
<1>1. ListOk(q, h, C)
  BY DEF ListOk, InARow
<1>2. Held(q, in, h)
  BY DEF PeerOk, Held, SameRequests
<1> QED BY <1>1, <1>2, KeepsMessages DEF PeerOk

(* The node asks an idle peer for items.                                   *)
LEMMA PeerAskedForItems ==
  ASSUME NEW r, NEW q, NEW out \in Seq(ToMessages), NEW in, NEW h, NEW C,
         PeerOk(r, out, in, h, C), Idle(r),
         q.open = r.open, q.list = r.list, r.list # "none", SameList(r, q),
         q.last_seen = r.last_seen, q.advertised_to_us = r.advertised_to_us,
         q.ids_of_items_being_processed = r.ids_of_items_being_processed,
         NEW by \in {"message_hash", "block_id"}, NEW items \in Seq(Blocks),
         by = "block_id" => q.items_requested = {},
         by # "block_id" => q.sync_items_requested = {},
         \A b \in q.items_requested : b <= h,
         \A k \in 1..Len(items) : items[k] \in RequestedBy(q, by),
         \A k, l \in 1..Len(items) : items[k] = items[l] => k = l
  PROVE  PeerOk(q, IF r.open THEN Append(out, [type |-> "fetch_items", by |-> by, items |-> items])
                   ELSE out, in, h, C)
<1> DEFINE m == [type |-> "fetch_items", by |-> by, items |-> items]
           next == IF r.open THEN Append(out, m) ELSE out
<1>1. r.items_requested = {} /\ r.sync_items_requested = {}
  BY DEF Idle
<1>2. \A j \in 1..Len(in) : ~IsItem(in[j])
  BY <1>1 DEF PeerOk, AnswersOpen
<1>3. \A i \in 1..Len(out) : IsAsk(out[i]) => \A k \in 1..Len(out[i].items) : FALSE
  BY <1>1 DEF PeerOk, AsksOpen, AskedFor, RequestedBy
<1>4. ListOk(q, h, C)
  BY DEF PeerOk, ListOk, SameList
<1>5. Held(q, in, h)
  BY DEF PeerOk, Held
<1>6. OneKind(q)
  BY DEF OneKind
<1>7. AnswersOpen(q, in)
  <2>1. \A j \in 1..Len(in) : in[j].type # "missing"
    BY <1>2 DEF IsItem
  <2> QED BY <1>2, <2>1 DEF AnswersOpen
<1>8. m \in ToMessages /\ IsAsk(m) /\ m.by = by /\ m.items = items
  BY DEF ToMessages, IsAsk
<1> HIDE DEF m
<1>9. ClosedIsQuiet(q, next, in)
  BY DEF PeerOk, ClosedIsQuiet
<1>10. \A i \in 1..Len(next) : IsAsk(next[i]) /\ (\E k \in 1..Len(next[i].items) : TRUE) =>
         i = Len(out) + 1 /\ next[i] = m
  <2>1. CASE ~r.open
    <3>1. next = out
      BY <2>1
    <3> HIDE DEF next
    <3> QED BY <3>1, <1>3
  <2>2. CASE r.open
    <3>1. /\ next = Append(out, m)
          /\ \A i \in 1..Len(out) : next[i] = out[i]
          /\ next[Len(out) + 1] = m
          /\ \A i \in 1..Len(next) : i \in 1..Len(out) \/ i = Len(out) + 1
      BY <1>8, <2>2, AppendFacts
    <3> HIDE DEF next
    <3> QED BY <3>1, <1>3
  <2> QED BY <2>1, <2>2
<1> HIDE DEF next
<1>11. AskedFor(q, next)
  BY <1>10, <1>8 DEF AskedFor
<1>12. AskedOnce(next)
  <2> SUFFICES ASSUME NEW i \in 1..Len(next), NEW j \in 1..Len(next),
                      IsAsk(next[i]), IsAsk(next[j]),
                      NEW k \in 1..Len(next[i].items), NEW l \in 1..Len(next[j].items),
                      next[i].items[k] = next[j].items[l]
               PROVE  i = j /\ k = l
    BY DEF AskedOnce
  <2>1. i = Len(out) + 1 /\ next[i] = m /\ j = Len(out) + 1 /\ next[j] = m
    BY <1>10
  <2> QED BY <2>1, <1>8
<1>13. NotAnswered(next, in)
  BY <1>2 DEF NotAnswered
<1> QED BY <1>4, <1>5, <1>6, <1>7, <1>9, <1>11, <1>12, <1>13 DEF PeerOk, AsksOpen, next, m

(* The peer's answer about item b was read.                                *)
LEMMA PeerAnswered ==
  ASSUME NEW r, NEW q, NEW out, NEW in \in Seq(FromMessages), NEW h, NEW C, in # <<>>,
         PeerOk(r, out, in, h, C), IsItem(in[1]), NEW b, b = in[1].block,
         q.open = r.open, (q.list = "none" => r.list = "none"), SameList(r, q),
         q.last_seen = r.last_seen, q.advertised_to_us \subseteq r.advertised_to_us,
         q.ids_of_items_being_processed = r.ids_of_items_being_processed,
         q.items_requested \subseteq r.items_requested,
         q.sync_items_requested \subseteq r.sync_items_requested,
         \A c \in r.items_requested : c = b \/ c \in q.items_requested,
         \A c \in r.sync_items_requested : c = b \/ c \in q.sync_items_requested
  PROVE  PeerOk(q, out, Tail(in), h, C)
<1> DEFINE t == Tail(in)
<1>1. /\ t \in Seq(FromMessages) /\ Len(t) = Len(in) - 1 /\ Len(in) \in Nat \ {0}
      /\ \A i \in 1..Len(t) : t[i] = in[i + 1] /\ i + 1 \in 1..Len(in)
      /\ 1 \in 1..Len(in)
  BY TailFacts
<1>2. PeerOk(r, out, t, h, C) /\ r.open /\ r.list # "none"
  BY PeerRead
<1> HIDE DEF t
<1>3. \A i \in 1..Len(t) : i + 1 # 1
  BY <1>1
<1>4. \A i \in 1..Len(t) : IsItem(t[i]) => t[i].block # b
  BY <1>1, <1>3 DEF PeerOk, AnswersOpen
<1>5. \A i \in 1..Len(out) : IsAsk(out[i]) => \A k \in 1..Len(out[i].items) : out[i].items[k] # b
  BY <1>1 DEF PeerOk, AsksOpen, NotAnswered
<1>6. ClosedIsQuiet(q, out, t)
  BY <1>2 DEF ClosedIsQuiet
<1>7. ListOk(q, h, C)
  BY <1>2 DEF PeerOk, ListOk, SameList
<1>8. Held(q, t, h)
  BY <1>2 DEF PeerOk, Held
<1>9. AnswersOpen(q, t)
  <2>1. \A i \in 1..Len(t) : IsItem(t[i]) =>
          t[i].block \in q.items_requested \cup q.sync_items_requested
    BY <1>2, <1>4 DEF PeerOk, AnswersOpen
  <2>2. \A i \in 1..Len(t) : t[i].type = "missing" /\ "block_id" \notin LostBy =>
          t[i].block \in q.items_requested
    BY <1>2, <1>4 DEF PeerOk, AnswersOpen, IsItem
  <2> QED BY <1>2, <2>1, <2>2 DEF PeerOk, AnswersOpen
<1>10. AskedFor(q, out)
  BY <1>2, <1>5 DEF PeerOk, AsksOpen, AskedFor, RequestedBy
<1>11. OneKind(q)
  BY <1>2 DEF PeerOk, OneKind
<1> QED BY <1>2, <1>6, <1>7, <1>8, <1>9, <1>10, <1>11 DEF PeerOk, AsksOpen, t

(* The connection is closed; the messages are lost.                        *)
LEMMA PeerClosed ==
  ASSUME NEW r, NEW q, NEW out, NEW in, NEW h, NEW C,
         PeerOk(r, out, in, h, C), q.list # "none",
         q.items_requested = r.items_requested, q.sync_items_requested = r.sync_items_requested,
         SameList(r, q), q.last_seen = r.last_seen, q.advertised_to_us = r.advertised_to_us,
         q.ids_of_items_being_processed = r.ids_of_items_being_processed
  PROVE  PeerOk(q, <<>>, <<>>, h, C)
<1>1. Len(<<>>) = 0 /\ 1..0 = {}
  OBVIOUS
<1>2. ClosedIsQuiet(q, <<>>, <<>>)
  BY DEF ClosedIsQuiet
<1>3. ListOk(q, h, C)
  BY DEF PeerOk, ListOk, SameList
<1>4. Held(q, <<>>, h)
  BY <1>1 DEF PeerOk, Held
<1>5. AnswersOpen(q, <<>>)
  BY <1>1 DEF AnswersOpen
<1>6. AsksOpen(q, <<>>, <<>>)
  BY <1>1 DEF AsksOpen, AskedFor, AskedOnce, NotAnswered
<1>7. OneKind(q)
  BY DEF PeerOk, OneKind
<1> QED BY <1>2, <1>3, <1>4, <1>5, <1>6, <1>7 DEF PeerOk

(* A new connection, or none.                                              *)
LEMMA PeerFresh ==
  ASSUME NEW list \in {"none", "active"}, NEW h, NEW C, 0 \in C
  PROVE  FreshPeer(list) \in PeerType /\ PeerOk(FreshPeer(list), <<>>, <<>>, h, C)
<1> DEFINE r == FreshPeer(list)
<1>1. Len(<<>>) = 0 /\ 1..0 = {}
  OBVIOUS
<1>2. MaxBlock \in Nat
  BY BoundAssumption
<1>3. r \in PeerType
  BY <1>2 DEF FreshPeer, PeerType, Lists, NoRequest
<1>4. ClosedIsQuiet(r, <<>>, <<>>)
  BY DEF FreshPeer, ClosedIsQuiet
<1>5. ListOk(r, h, C)
  BY <1>1 DEF FreshPeer, ListOk, InARow, NoRequest
<1>6. Held(r, <<>>, h)
  BY <1>1 DEF FreshPeer, Held
<1>7. AnswersOpen(r, <<>>)
  BY <1>1 DEF AnswersOpen
<1>8. AsksOpen(r, <<>>, <<>>)
  BY <1>1 DEF AsksOpen, AskedFor, AskedOnce, NotAnswered
<1>9. OneKind(r)
  BY DEF FreshPeer, OneKind
<1> QED BY <1>3, <1>4, <1>5, <1>6, <1>7, <1>8, <1>9 DEF PeerOk

(* The peer's list of ids has changed.                                     *)
LEMMA PeerListed ==
  ASSUME NEW r, NEW q, NEW out, NEW in, NEW h, NEW C, PeerOk(r, out, in, h, C),
         SameRequests(r, q), q.advertised_to_us = r.advertised_to_us,
         \A b \in q.ids_of_items_being_processed : b <= h, ListOk(q, h, C)
  PROVE  PeerOk(q, out, in, h, C)
<1>1. Held(q, in, h)
  BY DEF PeerOk, Held, SameRequests
<1> QED BY <1>1, KeepsMessages DEF PeerOk

(* The peer sends something other than an item.                            *)
LEMMA PeerSaid ==
  ASSUME NEW r, NEW out, NEW in \in Seq(FromMessages), NEW h, NEW C, PeerOk(r, out, in, h, C),
         r.open, NEW m \in FromMessages, ~IsItem(m),
         m.type = "ids" => InARow(m.hashes) /\ \A j \in 1..Len(m.hashes) : m.hashes[j] <= h,
         m.type = "inventory" => m.block <= h
  PROVE  PeerOk(r, out, Append(in, m), h, C)
<1> DEFINE t == Append(in, m)
<1>1. /\ \A i \in 1..Len(in) : t[i] = in[i]
      /\ t[Len(in) + 1] = m
      /\ \A i \in 1..Len(t) : i \in 1..Len(in) \/ i = Len(in) + 1
  BY AppendFacts
<1> HIDE DEF t
<1>2. \A i \in 1..Len(t) : IsItem(t[i]) => i \in 1..Len(in) /\ t[i] = in[i]
  BY <1>1
<1>3. ClosedIsQuiet(r, out, t)
  BY DEF PeerOk, ClosedIsQuiet
<1>4. Held(r, t, h)
  BY <1>1 DEF PeerOk, Held
<1>5. AnswersOpen(r, t)
  <2>1. \A i \in 1..Len(t) : t[i].type = "missing" => IsItem(t[i])
    BY DEF IsItem
  <2> QED BY <1>2, <2>1 DEF PeerOk, AnswersOpen
<1>6. NotAnswered(out, t)
  BY <1>2 DEF PeerOk, AsksOpen, NotAnswered
<1> QED BY <1>3, <1>4, <1>5, <1>6 DEF PeerOk, AsksOpen, t

(* The peer has read a message.                                            *)
LEMMA PeerHeard ==
  ASSUME NEW r, NEW out \in Seq(ToMessages), NEW in, NEW h, NEW C, out # <<>>,
         PeerOk(r, out, in, h, C)
  PROVE  PeerOk(r, Tail(out), in, h, C) /\ r.open
<1> DEFINE t == Tail(out)
<1>1. /\ Len(t) = Len(out) - 1 /\ Len(out) \in Nat \ {0}
      /\ \A i \in 1..Len(t) : t[i] = out[i + 1] /\ i + 1 \in 1..Len(out)
  BY TailFacts
<1>2. r.open /\ r.list # "none"
  BY DEF PeerOk, ClosedIsQuiet
<1> HIDE DEF t
<1>3. ClosedIsQuiet(r, t, in)
  BY <1>2 DEF ClosedIsQuiet
<1>4. AskedFor(r, t)
  BY <1>1 DEF PeerOk, AsksOpen, AskedFor
<1>5. AskedOnce(t)
  <2> SUFFICES ASSUME NEW i \in 1..Len(t), NEW j \in 1..Len(t), IsAsk(t[i]), IsAsk(t[j]),
                      NEW k \in 1..Len(t[i].items), NEW l \in 1..Len(t[j].items),
                      t[i].items[k] = t[j].items[l]
               PROVE  i = j /\ k = l
    BY DEF AskedOnce
  <2>1. AskedOnce(out)
    BY DEF PeerOk, AsksOpen
  <2>2. /\ t[i] = out[i + 1] /\ i + 1 \in 1..Len(out)
        /\ t[j] = out[j + 1] /\ j + 1 \in 1..Len(out)
    BY <1>1
  <2>3. i + 1 = j + 1 /\ k = l
    BY <2>1, <2>2 DEF AskedOnce
  <2> QED BY <2>3
<1>6. NotAnswered(t, in)
  <2> SUFFICES ASSUME NEW i \in 1..Len(t), NEW j \in 1..Len(in), IsAsk(t[i]), IsItem(in[j]),
                      NEW k \in 1..Len(t[i].items)
               PROVE  t[i].items[k] # in[j].block
    BY DEF NotAnswered
  <2>1. NotAnswered(out, in)
    BY DEF PeerOk, AsksOpen
  <2>2. t[i] = out[i + 1] /\ i + 1 \in 1..Len(out)
    BY <1>1
  <2> QED BY <2>1, <2>2 DEF NotAnswered
<1> QED BY <1>2, <1>3, <1>4, <1>5, <1>6 DEF PeerOk, AsksOpen, t

(* What the peer answers to a request for items.                           *)
Answers(items, missing) ==
  [i \in DOMAIN items |->
     [type |-> IF items[i] \in missing THEN "missing" ELSE "block", block |-> items[i]]]

(* The peer has read a request for items and answers.                      *)
LEMMA PeerGaveItems ==
  ASSUME NEW r, NEW out \in Seq(ToMessages), NEW in \in Seq(FromMessages), NEW h, NEW C,
         out # <<>>, PeerOk(r, out, in, h, C), IsAsk(out[1]),
         NEW missing, missing # {} => out[1].by \in LostBy
  PROVE  /\ in \o Answers(out[1].items, missing) \in Seq(FromMessages)
         /\ PeerOk(r, Tail(out), in \o Answers(out[1].items, missing), h, C)
<1> DEFINE t == Tail(out)
           m == out[1]
           items == m.items
           new == Answers(items, missing)
           all == in \o new
<1>1. /\ Len(t) = Len(out) - 1 /\ Len(out) \in Nat \ {0}
      /\ \A i \in 1..Len(t) : t[i] = out[i + 1] /\ i + 1 \in 1..Len(out)
      /\ 1 \in 1..Len(out) /\ m \in ToMessages
  BY TailFacts
<1>2. items \in Seq(Blocks) /\ m.by \in {"message_hash", "block_id"}
  BY <1>1 DEF ToMessages, IsAsk
<1> HIDE DEF items
<1>3. DOMAIN items = 1..Len(items) /\ Len(items) \in Nat
  BY <1>2
<1>4. \A i \in 1..Len(items) : items[i] \in Blocks
  BY <1>2
<1>5. /\ new \in Seq(FromMessages) /\ Len(new) = Len(items)
      /\ \A i \in 1..Len(items) :
           /\ new[i].block = items[i] /\ new[i].type \in {"block", "missing"}
           /\ new[i].type = "missing" => missing # {}
  <2>1. \A i \in 1..Len(items) :
          [type |-> IF items[i] \in missing THEN "missing" ELSE "block", block |-> items[i]]
            \in FromMessages
    BY <1>4 DEF FromMessages
  <2>2. new = [i \in 1..Len(items) |->
          [type |-> IF items[i] \in missing THEN "missing" ELSE "block", block |-> items[i]]]
    BY <1>3 DEF Answers
  <2>3. new \in Seq(FromMessages) /\ Len(new) = Len(items)
    BY <1>3, <2>1, <2>2
  <2>4. \A i \in 1..Len(items) : new[i] =
          [type |-> IF items[i] \in missing THEN "missing" ELSE "block", block |-> items[i]]
    BY <2>2
  <2> HIDE DEF new
  <2>5. ASSUME NEW i \in 1..Len(items)
        PROVE  /\ new[i].block = items[i] /\ new[i].type \in {"block", "missing"}
               /\ new[i].type = "missing" => missing # {}
    <3>1. CASE items[i] \in missing
      <4>1. new[i] = [type |-> "missing", block |-> items[i]]
        BY <2>4, <3>1
      <4> QED BY <4>1, <3>1
    <3>2. CASE items[i] \notin missing
      <4>1. new[i] = [type |-> "block", block |-> items[i]]
        BY <2>4, <3>2
      <4> QED BY <4>1
    <3> QED BY <3>1, <3>2
  <2> QED BY <2>3, <2>5
<1> HIDE DEF new
<1>6. /\ all \in Seq(FromMessages) /\ Len(in) \in Nat
      /\ \A i \in 1..Len(in) : all[i] = in[i]
      /\ \A i \in 1..Len(new) : all[Len(in) + i] = new[i]
      /\ \A i \in 1..Len(all) : i \in 1..Len(in) \/ i - Len(in) \in 1..Len(new)
  BY <1>5, ConcatFacts
<1> HIDE DEF all
<1>7. ASSUME NEW i \in 1..Len(all)
      PROVE  \/ i \in 1..Len(in) /\ all[i] = in[i]
             \/ \E k \in 1..Len(items) : i = Len(in) + k /\ all[i] = new[k]
  <2>1. CASE i \in 1..Len(in)
    BY <2>1, <1>6
  <2>2. CASE i - Len(in) \in 1..Len(new)
    <3>1. i = Len(in) + (i - Len(in)) /\ i \in Nat
      BY <1>6
    <3>2. all[i] = new[i - Len(in)]
      BY <2>2, <1>6, <3>1
    <3> QED BY <2>2, <3>1, <3>2, <1>5
  <2> QED BY <2>1, <2>2, <1>6
<1>8. PeerOk(r, t, in, h, C) /\ r.open
  BY PeerHeard
<1> HIDE DEF t, m
<1>9. ClosedIsQuiet(r, t, all)
  BY <1>8 DEF PeerOk, ClosedIsQuiet
<1>10. Held(r, all, h)
  <2>1. \A i \in 1..Len(all) : all[i].type \in {"ids", "inventory"} => i \in 1..Len(in) /\ all[i] = in[i]
    BY <1>5, <1>7
  <2> QED BY <1>8, <2>1 DEF PeerOk, Held
<1>11. \A k \in 1..Len(items) :
         /\ items[k] \in RequestedBy(r, m.by)
         /\ \A l \in 1..Len(items) : items[k] = items[l] => k = l
         /\ \A j \in 1..Len(in) : IsItem(in[j]) => items[k] # in[j].block
         /\ \A i \in 1..Len(t) : IsAsk(t[i]) =>
              \A l \in 1..Len(t[i].items) : t[i].items[l] # items[k]
  <2> SUFFICES ASSUME NEW k \in 1..Len(items)
               PROVE  /\ items[k] \in RequestedBy(r, m.by)
                      /\ \A l \in 1..Len(items) : items[k] = items[l] => k = l
                      /\ \A j \in 1..Len(in) : IsItem(in[j]) => items[k] # in[j].block
                      /\ \A i \in 1..Len(t) : IsAsk(t[i]) =>
                           \A l \in 1..Len(t[i].items) : t[i].items[l] # items[k]
    OBVIOUS
  <2>1. items[k] \in RequestedBy(r, m.by)
    BY <1>1 DEF PeerOk, AsksOpen, AskedFor, items, m
  <2>2. \A l \in 1..Len(items) : items[k] = items[l] => k = l
    BY <1>1 DEF PeerOk, AsksOpen, AskedOnce, items, m
  <2>3. \A j \in 1..Len(in) : IsItem(in[j]) => items[k] # in[j].block
    BY <1>1 DEF PeerOk, AsksOpen, NotAnswered, items, m
  <2>4. ASSUME NEW i \in 1..Len(t), IsAsk(t[i]), NEW l \in 1..Len(t[i].items)
        PROVE  t[i].items[l] # items[k]
    <3>1. i + 1 # 1 /\ t[i] = out[i + 1] /\ i + 1 \in 1..Len(out)
      BY <1>1
    <3> QED BY SMTT(30), <1>1, <2>4, <3>1 DEF PeerOk, AsksOpen, AskedOnce, items, m
  <2> QED BY <2>1, <2>2, <2>3, <2>4
<1>12. AnswersOpen(r, all)
  <2>1. ASSUME NEW i \in 1..Len(all), IsItem(all[i])
        PROVE  all[i].block \in r.items_requested \cup r.sync_items_requested
    <3>1. RequestedBy(r, m.by) \subseteq r.items_requested \cup r.sync_items_requested
      BY DEF RequestedBy
    <3>2. CASE i \in 1..Len(in) /\ all[i] = in[i]
      BY <1>8, <2>1, <3>2 DEF PeerOk, AnswersOpen
    <3>3. ASSUME NEW k \in 1..Len(items), all[i] = new[k]
          PROVE  all[i].block \in r.items_requested \cup r.sync_items_requested
      BY <1>5, <1>11, <3>1, <3>3
    <3> QED BY <1>7, <3>2, <3>3
  <2>2. ASSUME NEW i \in 1..Len(all), all[i].type = "missing", "block_id" \notin LostBy
        PROVE  all[i].block \in r.items_requested
    <3>1. CASE i \in 1..Len(in) /\ all[i] = in[i]
      BY <1>8, <2>2, <3>1 DEF PeerOk, AnswersOpen
    <3>2. ASSUME NEW k \in 1..Len(items), all[i] = new[k]
          PROVE  all[i].block \in r.items_requested
      <4>1. m.by # "block_id"
        BY <1>5, <2>2, <3>2 DEF m
      <4> QED BY <4>1, <1>5, <1>11, <3>2 DEF RequestedBy
    <3> QED BY <1>7, <3>1, <3>2
  <2>3. ASSUME NEW i \in 1..Len(all), NEW j \in 1..Len(all),
               IsItem(all[i]), IsItem(all[j]), all[i].block = all[j].block
        PROVE  i = j
    <3>1. CASE i \in 1..Len(in) /\ all[i] = in[i] /\ j \in 1..Len(in) /\ all[j] = in[j]
      BY <1>8, <2>3, <3>1 DEF PeerOk, AnswersOpen
    <3>2. ASSUME i \in 1..Len(in), all[i] = in[i], NEW k \in 1..Len(items), all[j] = new[k]
          PROVE  FALSE
      <4>1. new[k].block = items[k]
        BY <1>5
      <4>2. items[k] # in[i].block
        BY <1>11, <2>3, <3>2
      <4> QED BY <2>3, <3>2, <4>1, <4>2
    <3>3. ASSUME j \in 1..Len(in), all[j] = in[j], NEW k \in 1..Len(items), all[i] = new[k]
          PROVE  FALSE
      <4>1. new[k].block = items[k]
        BY <1>5
      <4>2. items[k] # in[j].block
        BY <1>11, <2>3, <3>3
      <4> QED BY <2>3, <3>3, <4>1, <4>2
    <3>4. ASSUME NEW k \in 1..Len(items), i = Len(in) + k, all[i] = new[k],
                 NEW l \in 1..Len(items), j = Len(in) + l, all[j] = new[l]
          PROVE  i = j
      BY <1>5, <1>11, <2>3, <3>4
    <3> QED BY <1>7, <3>1, <3>2, <3>3, <3>4
  <2> QED BY <2>1, <2>2, <2>3 DEF AnswersOpen
<1>13. NotAnswered(t, all)
  <2> SUFFICES ASSUME NEW i \in 1..Len(t), NEW j \in 1..Len(all), IsAsk(t[i]), IsItem(all[j]),
                      NEW l \in 1..Len(t[i].items)
               PROVE  t[i].items[l] # all[j].block
    BY DEF NotAnswered
  <2>1. CASE j \in 1..Len(in) /\ all[j] = in[j]
    <3>1. NotAnswered(t, in)
      BY <1>8 DEF PeerOk, AsksOpen
    <3> QED BY <3>1, <2>1 DEF NotAnswered
  <2>2. ASSUME NEW k \in 1..Len(items), all[j] = new[k] PROVE t[i].items[l] # all[j].block
    <3>1. new[k].block = items[k]
      BY <1>5
    <3> QED BY <1>11, <2>2, <3>1
  <2> QED BY <1>7, <2>1, <2>2
<1> QED BY <1>6, <1>8, <1>9, <1>10, <1>12, <1>13 DEF PeerOk, AsksOpen, t, all, new, items, m


-----------------------------------------------------------------------------
(* What the steps of a task do to its state                                *)

(* Only peer p changes.                                                    *)
OnlyPeer(S, T, p) == \A q \in Peers \ {p} : T.pr[q] = S.pr[q] /\ T.out[q] = S.out[q]

(* What the node remembers of its requests and of the chain does not.      *)
KeepsNode(S, T) ==
  /\ T.node.active_sync_requests = S.node.active_sync_requests
  /\ T.node.recent = S.node.recent /\ T.node.suspend = S.node.suspend
  /\ S.node.backlog => T.node.backlog

(* What peers were asked for does not change.                              *)
LEMMA StillGood ==
  ASSUME NEW S, NEW T \in TaskState, NEW in, NEW new, NEW C, Good(S, in, C),
         \A p \in Peers : /\ PeerOk(T.pr[p], T.out[p], new[p], height[p], C)
                          /\ T.pr[p].sync_items_requested = S.pr[p].sync_items_requested,
         KeepsNode(S, T), BlamedOk(T.blamed)
  PROVE  Good(T, new, C)
<1>1. RequestsOk(T)
  BY DEF Good, RequestsOk, KeepsNode
<1>2. NodeOk(T)
  BY DEF Good, NodeOk, KeepsNode
<1> QED BY <1>1, <1>2 DEF Good

(* Only one peer is concerned.                                             *)
LEMMA OnePeerGood ==
  ASSUME NEW S, NEW T \in TaskState, NEW in, NEW new, NEW C, Good(S, in, C), NEW p \in Peers,
         OnlyPeer(S, T, p), \A q \in Peers \ {p} : new[q] = in[q],
         PeerOk(T.pr[p], T.out[p], new[p], height[p], C),
         T.pr[p].sync_items_requested = S.pr[p].sync_items_requested,
         KeepsNode(S, T), BlamedOk(T.blamed)
  PROVE  Good(T, new, C)
<1>1. ASSUME NEW q \in Peers
      PROVE  /\ PeerOk(T.pr[q], T.out[q], new[q], height[q], C)
             /\ T.pr[q].sync_items_requested = S.pr[q].sync_items_requested
  BY DEF Good, OnlyPeer
<1> QED BY <1>1, StillGood

(* A message is sent.                                                      *)
LEMMA SendDoes ==
  ASSUME NEW S \in TaskState, NEW p \in Peers, NEW m \in ToMessages, NEW T, T = Send(S, p, m)
  PROVE  /\ T \in TaskState /\ OnlyPeer(S, T, p) /\ T.pr = S.pr
         /\ T.out[p] = IF S.pr[p].open THEN Append(S.out[p], m) ELSE S.out[p]
         /\ T.node = S.node /\ T.blamed = S.blamed
<1>1. CASE ~S.pr[p].open
  BY <1>1 DEF Send, OnlyPeer
<1>2. CASE S.pr[p].open
  <2>1. Append(S.out[p], m) \in Seq(ToMessages)
    BY DEF TaskState
  <2>2. T = [S EXCEPT !.out[p] = Append(@, m)]
    BY <1>2 DEF Send
  <2> QED BY ZenonT(60), <1>2, <2>1, <2>2 DEF TaskState, OnlyPeer
<1> QED BY <1>1, <1>2

(* The members of the node are replaced.                                   *)
LEMMA SetNode ==
  ASSUME NEW S \in TaskState, NEW n \in NodeType, NEW T, T = [S EXCEPT !.node = n]
  PROVE  /\ T \in TaskState /\ T.node = n
         /\ T.pr = S.pr /\ T.out = S.out /\ T.blamed = S.blamed
BY DEF TaskState

(* The flags of the loops.                                                 *)
LEMMA TriggerDoes ==
  ASSUME NEW S \in TaskState, NEW T \in {TriggerSync(S), TriggerItems(S), TriggerBacklog(S)}
  PROVE  /\ T \in TaskState /\ KeepsNode(S, T)
         /\ T.pr = S.pr /\ T.out = S.out /\ T.blamed = S.blamed
<1>1. S.node \in NodeType
  BY DEF TaskState
<1>2. CASE T = TriggerSync(S)
  <2> DEFINE n == [S.node EXCEPT !.sync_updated = TRUE]
  <2>1. n \in NodeType /\ n.active_sync_requests = S.node.active_sync_requests
        /\ n.recent = S.node.recent /\ n.suspend = S.node.suspend /\ n.backlog = S.node.backlog
    BY <1>1 DEF NodeType
  <2>2. T = [S EXCEPT !.node = n]
    BY <1>2 DEF TriggerSync
  <2> HIDE DEF n
  <2> QED BY <2>1, <2>2, SetNode DEF KeepsNode
<1>3. CASE T = TriggerItems(S)
  <2> DEFINE n == [S.node EXCEPT !.items_updated = TRUE]
  <2>1. n \in NodeType /\ n.active_sync_requests = S.node.active_sync_requests
        /\ n.recent = S.node.recent /\ n.suspend = S.node.suspend /\ n.backlog = S.node.backlog
    BY <1>1 DEF NodeType
  <2>2. T = [S EXCEPT !.node = n]
    BY <1>3 DEF TriggerItems
  <2> HIDE DEF n
  <2> QED BY <2>1, <2>2, SetNode DEF KeepsNode
<1>4. CASE T = TriggerBacklog(S)
  <2> DEFINE n == [S.node EXCEPT !.backlog = TRUE]
  <2>1. n \in NodeType /\ n.active_sync_requests = S.node.active_sync_requests
        /\ n.recent = S.node.recent /\ n.suspend = S.node.suspend /\ n.backlog
    BY <1>1 DEF NodeType
  <2>2. T = [S EXCEPT !.node = n]
    BY <1>4 DEF TriggerBacklog
  <2> HIDE DEF n
  <2> QED BY <2>1, <2>2, SetNode DEF KeepsNode
<1> QED BY <1>2, <1>3, <1>4

(* A triggered loop changes nothing for the peers.                         *)
LEMMA TriggerGood ==
  ASSUME NEW S, NEW in, NEW C, Good(S, in, C),
         NEW T \in {TriggerSync(S), TriggerItems(S), TriggerBacklog(S)}
  PROVE  Good(T, in, C)
<1>1. S \in TaskState /\ BlamedOk(S.blamed)
  BY DEF Good, NodeOk
<1>2. /\ T \in TaskState /\ KeepsNode(S, T)
      /\ T.pr = S.pr /\ T.out = S.out /\ T.blamed = S.blamed
  BY <1>1, TriggerDoes
<1>3. \A p \in Peers : PeerOk(T.pr[p], T.out[p], in[p], height[p], C)
  BY <1>2 DEF Good
<1> QED BY <1>1, <1>2, <1>3, StillGood

(* The blocks of the chain are reached, and with a block all before it.    *)
Grown(C) == 0..head \subseteq C /\ C \subseteq 0..MaxBlock /\ \A c \in C : 0..c \subseteq C

(* What the peer's connection is once its request for ids is forgotten.    *)
Quiet(r) == [r EXCEPT !.item_ids_requested = NoRequest]

(* It keeps everything else.                                               *)
LEMMA QuietOk ==
  ASSUME NEW r \in PeerType, NEW out, NEW in, NEW h, NEW C, PeerOk(r, out, in, h, C)
  PROVE  /\ Quiet(r) \in PeerType /\ PeerOk(Quiet(r), out, in, h, C)
         /\ SameRequests(r, Quiet(r))
<1> DEFINE q == Quiet(r)
<1>1. /\ q \in PeerType /\ q.open = r.open /\ q.list = r.list
      /\ q.items_requested = r.items_requested /\ q.sync_items_requested = r.sync_items_requested
      /\ q.advertised_to_us = r.advertised_to_us /\ q.last_seen = r.last_seen
      /\ q.ids_of_items_to_get = r.ids_of_items_to_get
      /\ q.ids_of_items_being_processed = r.ids_of_items_being_processed
      /\ ~q.item_ids_requested.on
  BY DEF Quiet, PeerType, NoRequest
<1> HIDE DEF q
<1>2. SameRequests(r, q)
  BY <1>1 DEF SameRequests
<1>3. ListOk(q, h, C)
  BY <1>1 DEF PeerOk, ListOk
<1>4. \A b \in q.ids_of_items_being_processed : b <= h
  BY <1>1 DEF PeerOk, Held
<1>5. PeerOk(q, out, in, h, C)
  BY <1>1, <1>2, <1>3, <1>4, PeerListed
<1> QED BY <1>1, <1>2, <1>5 DEF q

(* A step of a task that concerns one peer and not what it was asked for.  *)
Moves(S, T, p, in, C) ==
  /\ T \in TaskState /\ OnlyPeer(S, T, p) /\ SameRequests(S.pr[p], T.pr[p])
  /\ PeerOk(T.pr[p], T.out[p], in, height[p], C)

(* It is good.                                                             *)
LEMMA MovesGood ==
  ASSUME NEW S, NEW T, NEW in, NEW new, NEW C, Good(S, in, C), NEW p \in Peers,
         \A q \in Peers \ {p} : new[q] = in[q],
         Moves(S, T, p, new[p], C), KeepsNode(S, T), BlamedOk(T.blamed)
  PROVE  Good(T, new, C)
<1>1. T \in TaskState /\ OnlyPeer(S, T, p) /\ PeerOk(T.pr[p], T.out[p], new[p], height[p], C)
      /\ T.pr[p].sync_items_requested = S.pr[p].sync_items_requested
  BY DEF Moves, SameRequests
<1> QED BY <1>1, OnePeerGood

(* The synopsis for a peer.                                                *)
LEMMA SynopsisForPeer ==
  ASSUME NEW S \in TaskState, NEW p \in Peers, NEW C, Grown(C), head \in 0..MaxBlock,
         S.pr[p].last_seen \in C,
         NEW s, s = create_blockchain_synopsis_for_peer(S, p)
  PROVE  LET ids == S.pr[p].ids_of_items_to_get
         IN  s \in SUBSET Blocks /\ \A c \in s : c \in C \/ (ids # <<>> /\ c <= ids[Len(ids)])
<1> DEFINE r == S.pr[p]
           ids == r.ids_of_items_to_get
<1>1. r \in PeerType /\ ids \in Seq(Blocks) /\ r.last_seen \in 0..MaxBlock /\ MaxBlock \in Nat
  BY BoundAssumption DEF TaskState, PeerType
<1> HIDE DEF r
<1>2. CASE ids # <<>>
  <2>1. s = SynopsisOf(ids[Len(ids)])
    BY <1>2 DEF create_blockchain_synopsis_for_peer, Last, r
  <2>2. Len(ids) \in 1..Len(ids)
    BY <1>1, <1>2
  <2>3. ids[Len(ids)] \in Blocks
    BY <1>1, <2>2
  <2>4. s \subseteq 1..ids[Len(ids)]
    BY <1>1, <2>1, <2>3, SynopsisFacts DEF Blocks
  <2> HIDE DEF ids
  <2>5. \A c \in s : c \in Blocks /\ c <= ids[Len(ids)]
    BY <1>1, <2>3, <2>4 DEF Blocks
  <2> QED BY <1>2, <2>5 DEF ids, r
<1>3. ASSUME NEW n \in C, s = SynopsisOf(n), ids = <<>>
      PROVE  s \in SUBSET Blocks /\ \A c \in s : c \in C
  <2>1. n \in 0..MaxBlock /\ n \in Nat
    BY <1>1 DEF Grown
  <2>2. s \subseteq 1..n
    BY <1>3, <2>1, SynopsisFacts
  <2>3. \A c \in s : c \in 0..n /\ c \in Blocks
    BY <1>1, <2>1, <2>2 DEF Blocks
  <2> QED BY <2>3 DEF Grown
<1>4. CASE ids = <<>> /\ r.last_seen # 0
  <2>1. s = SynopsisOf(r.last_seen)
    BY <1>4 DEF create_blockchain_synopsis_for_peer, r
  <2> QED BY <1>3, <1>4, <2>1 DEF r
<1>5. CASE ids = <<>> /\ r.last_seen = 0
  <2>1. s = SynopsisOf(head)
    BY <1>5 DEF create_blockchain_synopsis_for_peer, r
  <2>2. head \in C
    BY <1>1 DEF Grown
  <2> QED BY <1>3, <1>5, <2>1, <2>2 DEF r
<1> QED BY <1>2, <1>4, <1>5

(* fetch_next_batch_of_item_ids                                            *)
LEMMA FetchIdsMoves ==
  ASSUME NEW S \in TaskState, NEW p \in Peers, NEW in, NEW C, Grown(C), head \in 0..MaxBlock,
         PeerOk(Quiet(S.pr[p]), S.out[p], in, height[p], C),
         NEW T, T = fetch_next_batch_of_item_ids(S, p)
  PROVE  Moves(S, T, p, in, C) /\ T.node = S.node /\ T.blamed = S.blamed
<1> DEFINE s == create_blockchain_synopsis_for_peer(S, p)
           r == S.pr[p]
           q == [r EXCEPT !.item_ids_requested = [on |-> TRUE, synopsis |-> s]]
           U == [S EXCEPT !.pr[p] = q]
           m == [type |-> "fetch_ids", synopsis |-> s]
<1>1. r \in PeerType /\ S.out[p] \in Seq(ToMessages)
  BY DEF TaskState
<1>2. /\ Quiet(r).ids_of_items_to_get = r.ids_of_items_to_get /\ Quiet(r).last_seen = r.last_seen
      /\ Quiet(r).open = r.open /\ Quiet(r).list = r.list
      /\ Quiet(r).advertised_to_us = r.advertised_to_us
      /\ Quiet(r).items_requested = r.items_requested
      /\ Quiet(r).sync_items_requested = r.sync_items_requested
      /\ Quiet(r).ids_of_items_being_processed = r.ids_of_items_being_processed
  BY <1>1 DEF Quiet, PeerType
<1>3. r.last_seen \in C
  BY <1>2 DEF PeerOk, ListOk
<1>4. /\ s \in SUBSET Blocks
      /\ \A c \in s : \/ c \in C
                      \/ /\ r.ids_of_items_to_get # <<>>
                         /\ c <= r.ids_of_items_to_get[Len(r.ids_of_items_to_get)]
  BY <1>3, SynopsisForPeer
<1>5. T = Send(U, p, m)
  BY DEF fetch_next_batch_of_item_ids
<1> HIDE DEF s
<1>6. /\ q \in PeerType /\ q.ids_of_items_to_get = r.ids_of_items_to_get
      /\ q.last_seen = r.last_seen /\ q.open = r.open /\ q.list = r.list
      /\ q.advertised_to_us = r.advertised_to_us /\ q.items_requested = r.items_requested
      /\ q.sync_items_requested = r.sync_items_requested
      /\ q.ids_of_items_being_processed = r.ids_of_items_being_processed
      /\ q.item_ids_requested = [on |-> TRUE, synopsis |-> s]
  BY <1>1, <1>4 DEF PeerType
<1>20. U = [S EXCEPT !.pr[p] = q]
  OBVIOUS
<1> HIDE DEF q, U
<1>7. /\ U \in TaskState /\ OnlyPeer(S, U, p) /\ U.pr[p] = q
      /\ U.out = S.out /\ U.node = S.node /\ U.blamed = S.blamed
  BY <1>6, <1>20 DEF TaskState, OnlyPeer
<1>8. m \in ToMessages
  BY <1>4 DEF ToMessages
<1>9. /\ T \in TaskState /\ OnlyPeer(U, T, p) /\ T.pr = U.pr
      /\ T.out[p] = IF U.pr[p].open THEN Append(U.out[p], m) ELSE U.out[p]
      /\ T.node = U.node /\ T.blamed = U.blamed
  BY <1>5, <1>7, <1>8, SendDoes
<1>10. T.out[p] = IF Quiet(r).open THEN Append(S.out[p], m) ELSE S.out[p]
  BY <1>2, <1>6, <1>7, <1>9
<1>11. SameRequests(Quiet(r), q) /\ SameRequests(r, q)
  BY <1>2, <1>6 DEF SameRequests
<1>12. PeerOk(q, IF Quiet(r).open THEN Append(S.out[p], m) ELSE S.out[p], in, height[p], C)
  BY <1>1, <1>2, <1>4, <1>6, <1>11, PeerAskedForIds DEF r
<1>13. OnlyPeer(S, T, p) /\ T.pr[p] = q
  BY <1>7, <1>9 DEF OnlyPeer
<1>14. T.node = S.node /\ T.blamed = S.blamed
  BY <1>7, <1>9
<1> HIDE DEF m
<1>15. PeerOk(T.pr[p], T.out[p], in, height[p], C)
  BY <1>10, <1>12, <1>13
<1> QED BY <1>9, <1>11, <1>13, <1>14, <1>15 DEF Moves, r

(* start_synchronizing_with_peer                                           *)
LEMMA StartMoves ==
  ASSUME NEW S \in TaskState, NEW p \in Peers, NEW in, NEW C, Grown(C), head \in 0..MaxBlock,
         PeerOk(S.pr[p], S.out[p], in, height[p], C),
         NEW T, T = start_synchronizing_with_peer(S, p)
  PROVE  Moves(S, T, p, in, C) /\ T.node = S.node /\ T.blamed = S.blamed
<1> DEFINE r == S.pr[p]
           q == [r EXCEPT !.ids_of_items_to_get = <<>>, !.unfetched = 0,
                          !.we_need = TRUE, !.last_seen = 0, !.inhibit = FALSE]
           U == [S EXCEPT !.pr[p] = q]
<1>1. r \in PeerType /\ MaxBlock \in Nat
  BY BoundAssumption DEF TaskState
<1>2. T = fetch_next_batch_of_item_ids(U, p)
  BY DEF start_synchronizing_with_peer
<1>20. U = [S EXCEPT !.pr[p] = q]
  OBVIOUS
<1> HIDE DEF r, U
<1>3. /\ q \in PeerType /\ q.ids_of_items_to_get = <<>>
      /\ q.last_seen = 0 /\ q.open = r.open /\ q.list = r.list
      /\ q.advertised_to_us = r.advertised_to_us /\ q.items_requested = r.items_requested
      /\ q.sync_items_requested = r.sync_items_requested
      /\ q.ids_of_items_being_processed = r.ids_of_items_being_processed
  <2>1. <<>> \in Seq(Blocks) /\ 0 \in 0..MaxBlock
    BY <1>1
  <2>2. q \in PeerType
    BY <1>1, <2>1 DEF PeerType
  <2>3. /\ q.ids_of_items_to_get = <<>> /\ q.last_seen = 0
    BY <1>1 DEF PeerType
  <2> QED BY <1>1, <2>2, <2>3 DEF PeerType
<1> HIDE DEF q
<1>4. /\ Quiet(q).ids_of_items_to_get = <<>> /\ Quiet(q).last_seen = 0
      /\ Quiet(q).open = r.open /\ Quiet(q).list = r.list
      /\ Quiet(q).advertised_to_us = r.advertised_to_us
      /\ Quiet(q).items_requested = r.items_requested
      /\ Quiet(q).sync_items_requested = r.sync_items_requested
      /\ Quiet(q).ids_of_items_being_processed = r.ids_of_items_being_processed
      /\ ~Quiet(q).item_ids_requested.on
  BY <1>3 DEF Quiet, PeerType, NoRequest
<1>5. SameRequests(r, Quiet(q)) /\ SameRequests(r, q)
  BY <1>3, <1>4 DEF SameRequests
<1>6. 0 \in C
  BY <1>1 DEF Grown
<1>7. PeerOk(Quiet(q), S.out[p], in, height[p], C)
  BY <1>4, <1>5, <1>6, PeerRestarted DEF r
<1>8. /\ U \in TaskState /\ OnlyPeer(S, U, p) /\ U.pr[p] = q
      /\ U.out = S.out /\ U.node = S.node /\ U.blamed = S.blamed
  BY <1>3, <1>20 DEF TaskState, OnlyPeer
<1>9. Moves(U, T, p, in, C) /\ T.node = U.node /\ T.blamed = U.blamed
  BY <1>2, <1>7, <1>8, FetchIdsMoves
<1>10. SameRequests(r, T.pr[p])
  BY <1>5, <1>8, <1>9 DEF Moves, SameRequests
<1>11. OnlyPeer(S, T, p)
  BY <1>8, <1>9 DEF Moves, OnlyPeer
<1> QED BY <1>8, <1>9, <1>10, <1>11 DEF Moves, r

(* Two steps one after the other.                                          *)
LEMMA MovesTwice ==
  ASSUME NEW S, NEW T, NEW U, NEW p \in Peers, NEW in, NEW C,
         Moves(S, T, p, in, C), Moves(T, U, p, in, C)
  PROVE  Moves(S, U, p, in, C)
BY DEF Moves, OnlyPeer, SameRequests

(* The connection is marked.                                               *)
Marked(S, p, v) ==
  {[S EXCEPT !.pr[p].peer_needs = v], [S EXCEPT !.pr[p].inhibit = v],
   [S EXCEPT !.pr[p].we_need = v], Disconnect(S, p)}

(* That is no concern of what it was asked for.                            *)
LEMMA MarkMoves ==
  ASSUME NEW S \in TaskState, NEW p \in Peers, NEW in, NEW C,
         PeerOk(S.pr[p], S.out[p], in, height[p], C), NEW v \in BOOLEAN, NEW T \in Marked(S, p, v)
  PROVE  Moves(S, T, p, in, C) /\ T.node = S.node /\ T.blamed = S.blamed
<1> DEFINE r == S.pr[p]
<1>1. r \in PeerType
  BY DEF TaskState
<1>2. ASSUME NEW q \in PeerType, T = [S EXCEPT !.pr[p] = q],
             q.open = r.open, q.list # "none" \/ q.list = r.list,
             q.items_requested = r.items_requested,
             q.sync_items_requested = r.sync_items_requested,
             q.ids_of_items_to_get = r.ids_of_items_to_get,
             q.item_ids_requested = r.item_ids_requested, q.last_seen = r.last_seen,
             q.advertised_to_us = r.advertised_to_us,
             q.ids_of_items_being_processed = r.ids_of_items_being_processed
      PROVE  Moves(S, T, p, in, C) /\ T.node = S.node /\ T.blamed = S.blamed
  <2>1. /\ T \in TaskState /\ OnlyPeer(S, T, p) /\ T.pr[p] = q
        /\ T.out = S.out /\ T.node = S.node /\ T.blamed = S.blamed
    BY <1>2 DEF TaskState, OnlyPeer
  <2>2. SameRequests(r, q) /\ SameList(r, q)
    BY <1>2 DEF SameRequests, SameList
  <2>3. /\ q.last_seen \in C
        /\ \A b \in q.ids_of_items_being_processed \cup q.advertised_to_us : b <= height[p]
    BY <1>2 DEF PeerOk, ListOk, Held
  <2>4. PeerOk(q, S.out[p], in, height[p], C)
    BY <2>2, <2>3, PeerNotes
  <2> QED BY <2>1, <2>2, <2>4 DEF Moves
<1>3. CASE T = [S EXCEPT !.pr[p].peer_needs = v]
  <2> DEFINE q == [r EXCEPT !.peer_needs = v]
  <2>1. T = [S EXCEPT !.pr[p] = q]
    BY <1>3
  <2> HIDE DEF r
  <2>2. q \in PeerType
    BY <1>1 DEF PeerType
  <2> QED BY <1>1, <1>2, <2>1, <2>2 DEF PeerType
<1>4. CASE T = [S EXCEPT !.pr[p].inhibit = v]
  <2> DEFINE q == [r EXCEPT !.inhibit = v]
  <2>1. T = [S EXCEPT !.pr[p] = q]
    BY <1>4
  <2> HIDE DEF r
  <2>2. q \in PeerType
    BY <1>1 DEF PeerType
  <2> QED BY <1>1, <1>2, <2>1, <2>2 DEF PeerType
<1>5. CASE T = [S EXCEPT !.pr[p].we_need = v]
  <2> DEFINE q == [r EXCEPT !.we_need = v]
  <2>1. T = [S EXCEPT !.pr[p] = q]
    BY <1>5
  <2> HIDE DEF r
  <2>2. q \in PeerType
    BY <1>1 DEF PeerType
  <2> QED BY <1>1, <1>2, <2>1, <2>2 DEF PeerType
<1>6. CASE T = Disconnect(S, p)
  <2> DEFINE q == [r EXCEPT !.list = "closing"]
  <2>1. T = [S EXCEPT !.pr[p] = q]
    BY <1>6 DEF Disconnect
  <2> HIDE DEF r
  <2>2. q \in PeerType /\ q.list = "closing"
    BY <1>1 DEF PeerType, Lists
  <2> QED BY <1>1, <1>2, <2>1, <2>2 DEF PeerType
<1> QED BY <1>3, <1>4, <1>5, <1>6 DEF Marked

(* A peer is blamed.                                                       *)
LEMMA BlameMoves ==
  ASSUME NEW S \in TaskState, NEW p \in Peers, NEW in, NEW C,
         PeerOk(S.pr[p], S.out[p], in, height[p], C),
         NEW why \in {"ids", "unrequested", "refused"}, NEW T, T = Blame(S, p, why)
  PROVE  Moves(S, T, p, in, C) /\ T.node = S.node /\ T.blamed = S.blamed \cup {<<p, why>>}
<1> DEFINE U == Disconnect(S, p)
<1>1. Moves(S, U, p, in, C) /\ U.node = S.node /\ U.blamed = S.blamed
  BY MarkMoves DEF Marked
<1>2. T = [U EXCEPT !.blamed = @ \cup {<<p, why>>}]
  BY DEF Blame
<1> HIDE DEF U
<1>3. U \in TaskState /\ S.blamed \cup {<<p, why>>} \in Blamings
  BY <1>1 DEF Moves, TaskState, Blamings
<1>4. T \in TaskState /\ T.pr = U.pr /\ T.out = U.out /\ T.node = U.node
      /\ T.blamed = S.blamed \cup {<<p, why>>}
  BY <1>1, <1>2, <1>3 DEF TaskState
<1> QED BY <1>1, <1>4 DEF Moves, OnlyPeer

(* on_fetch_blockchain_item_ids_message                                    *)
LEMMA FetchIdsGood ==
  ASSUME NEW S, NEW in, NEW new, NEW C, Good(S, in, C), Grown(C), head \in 0..MaxBlock,
         NEW p \in Peers, \A q \in Peers \ {p} : new[q] = in[q],
         PeerOk(S.pr[p], S.out[p], new[p], height[p], C), NEW m
  PROVE  Good(on_fetch_blockchain_item_ids_message(S, p, m), new, C)
<1> DEFINE sync == InSync(BlockIds(head, m.synopsis), m.synopsis)
           v == ~sync
           T == [S EXCEPT !.pr[p].peer_needs = v]
           U == IF ~S.pr[p].we_need /\ m.synopsis # {} /\ ~has_item(Max(m.synopsis))
                THEN start_synchronizing_with_peer(T, p) ELSE T
           V == on_fetch_blockchain_item_ids_message(S, p, m)
<1>1. S \in TaskState /\ BlamedOk(S.blamed)
  BY DEF Good, NodeOk
<1>2. V \in {U, Disconnect(U, p)}
  BY DEF on_fetch_blockchain_item_ids_message
<1>3. v \in BOOLEAN
  OBVIOUS
<1> HIDE DEF v, V
<1>10. T \in Marked(S, p, v)
  BY DEF Marked
<1> HIDE DEF T
<1>4. Moves(S, T, p, new[p], C) /\ T.node = S.node /\ T.blamed = S.blamed
  BY <1>1, <1>3, <1>10, MarkMoves
<1>5. U \in {T, start_synchronizing_with_peer(T, p)}
  OBVIOUS
<1> HIDE DEF U
<1>6. Moves(S, U, p, new[p], C) /\ U.node = S.node /\ U.blamed = S.blamed
  <2>1. CASE U = start_synchronizing_with_peer(T, p)
    <3>1. Moves(T, U, p, new[p], C) /\ U.node = T.node /\ U.blamed = T.blamed
      BY <1>4, <2>1, StartMoves DEF Moves
    <3> QED BY <1>4, <3>1, MovesTwice
  <2> QED BY <1>4, <1>5, <2>1
<1>7. Moves(S, V, p, new[p], C) /\ V.node = S.node /\ V.blamed = S.blamed
  <2>1. CASE V = Disconnect(U, p)
    <3>1. Moves(U, V, p, new[p], C) /\ V.node = U.node /\ V.blamed = U.blamed
      BY <1>6, <2>1, MarkMoves DEF Moves, Marked
    <3> QED BY <1>6, <3>1, MovesTwice
  <2> QED BY <1>2, <1>6, <2>1
<1>8. KeepsNode(S, V) /\ BlamedOk(V.blamed)
  BY <1>1, <1>7 DEF KeepsNode
<1>9. Good(V, new, C)
  BY <1>7, <1>8, MovesGood
<1> QED BY <1>9 DEF V

(* on_item_ids_inventory_message                                           *)
LEMMA InventoryGood ==
  ASSUME NEW S, NEW in, NEW new, NEW C, Good(S, in, C), NEW p \in Peers,
         \A q \in Peers \ {p} : new[q] = in[q],
         PeerOk(S.pr[p], S.out[p], new[p], height[p], C),
         NEW b \in Blocks, b <= height[p]
  PROVE  Good(on_item_ids_inventory_message(S, p, b), new, C)
<1> DEFINE r == S.pr[p]
           q == [r EXCEPT !.advertised_to_us = @ \cup {b}]
           T == [S EXCEPT !.pr[p].advertised_to_us = @ \cup {b}]
           n == [S.node EXCEPT !.items_to_fetch = @ \cup {b}]
           U == [T EXCEPT !.node.items_to_fetch = @ \cup {b}]
           V == on_item_ids_inventory_message(S, p, b)
<1>1. S \in TaskState /\ BlamedOk(S.blamed) /\ r \in PeerType /\ S.node \in NodeType
  BY DEF Good, NodeOk, TaskState
<1>2. V \in {S, T, TriggerItems(U)}
  BY DEF on_item_ids_inventory_message
<1>3. T = [S EXCEPT !.pr[p] = q] /\ U = [T EXCEPT !.node = n]
  BY <1>1 DEF TaskState
<1> HIDE DEF V, T, U, r
<1>4. /\ q \in PeerType /\ q.open = r.open /\ q.list = r.list
      /\ q.items_requested = r.items_requested
      /\ q.sync_items_requested = r.sync_items_requested
      /\ q.ids_of_items_to_get = r.ids_of_items_to_get
      /\ q.item_ids_requested = r.item_ids_requested /\ q.last_seen = r.last_seen
      /\ q.advertised_to_us = r.advertised_to_us \cup {b}
      /\ q.ids_of_items_being_processed = r.ids_of_items_being_processed
  BY <1>1 DEF PeerType
<1>5. /\ n \in NodeType /\ n.active_sync_requests = S.node.active_sync_requests
      /\ n.recent = S.node.recent /\ n.suspend = S.node.suspend /\ n.backlog = S.node.backlog
  BY <1>1 DEF NodeType
<1> HIDE DEF q, n
<1>6. SameRequests(r, q) /\ SameList(r, q)
  BY <1>4 DEF SameRequests, SameList
<1>7. /\ q.last_seen \in C
      /\ \A x \in q.ids_of_items_being_processed \cup q.advertised_to_us : x <= height[p]
  BY <1>4 DEF PeerOk, ListOk, Held, r
<1>8. PeerOk(q, S.out[p], new[p], height[p], C)
  BY <1>6, <1>7, PeerNotes DEF r
<1>9. /\ T \in TaskState /\ OnlyPeer(S, T, p) /\ T.pr[p] = q
      /\ T.out = S.out /\ T.node = S.node /\ T.blamed = S.blamed
  BY <1>1, <1>3, <1>4 DEF TaskState, OnlyPeer
<1>10. U \in TaskState /\ U.node = n /\ U.pr = T.pr /\ U.out = T.out /\ U.blamed = T.blamed
  BY <1>3, <1>5, <1>9 DEF TaskState
<1>11. Good(T, new, C)
  <2>1. Moves(S, T, p, new[p], C) /\ KeepsNode(S, T) /\ BlamedOk(T.blamed)
    BY <1>1, <1>6, <1>8, <1>9 DEF Moves, KeepsNode, r
  <2> QED BY <2>1, MovesGood
<1>12. Good(U, new, C)
  <2>1. Moves(S, U, p, new[p], C) /\ KeepsNode(S, U) /\ BlamedOk(U.blamed)
    BY <1>1, <1>5, <1>6, <1>8, <1>9, <1>10 DEF Moves, KeepsNode, OnlyPeer, r
  <2> QED BY <2>1, MovesGood
<1>13. Good(TriggerItems(U), new, C)
  BY <1>12, TriggerGood
<1>14. Good(S, new, C)
  <2>1. Moves(S, S, p, new[p], C) /\ KeepsNode(S, S)
    BY <1>1 DEF Moves, KeepsNode, OnlyPeer, SameRequests
  <2> QED BY <1>1, <2>1, MovesGood
<1> QED BY <1>2, <1>11, <1>13, <1>14 DEF V

(* Peer p no longer owes the items X.                                      *)
LEMMA RequestsShrink ==
  ASSUME NEW S, NEW T, NEW p \in Peers, RequestsOk(S), OnlyPeer(S, T, p),
         NEW X, X \subseteq S.pr[p].sync_items_requested,
         T.pr[p].sync_items_requested = S.pr[p].sync_items_requested \ X,
         \/ T.node.active_sync_requests = S.node.active_sync_requests \ X
         \/ /\ T.node.active_sync_requests = S.node.active_sync_requests
            /\ "block_id" \in LostBy
  PROVE  RequestsOk(T)
<1>1. \A q \in Peers \ {p} : T.pr[q].sync_items_requested = S.pr[q].sync_items_requested
  BY DEF OnlyPeer
<1>2. ASSUME NEW q \in Peers
      PROVE  T.pr[q].sync_items_requested \subseteq T.node.active_sync_requests
  <2>1. CASE q = p
    BY <2>1 DEF RequestsOk
  <2>2. CASE q # p
    <3>1. S.pr[q].sync_items_requested \cap S.pr[p].sync_items_requested = {}
      BY <2>2 DEF RequestsOk
    <3> QED BY <1>1, <2>2, <3>1 DEF RequestsOk
  <2> QED BY <2>1, <2>2
<1>3. ASSUME NEW q \in Peers, NEW s \in Peers, q # s
      PROVE  T.pr[q].sync_items_requested \cap T.pr[s].sync_items_requested = {}
  <2>1. \A x \in Peers : T.pr[x].sync_items_requested \subseteq S.pr[x].sync_items_requested
    BY <1>1
  <2> QED BY <1>3, <2>1 DEF RequestsOk
<1>4. ASSUME "block_id" \notin LostBy, NEW b \in T.node.active_sync_requests
      PROVE  \E q \in Peers : b \in T.pr[q].sync_items_requested
  <2>1. b \in S.node.active_sync_requests /\ b \notin X
    BY <1>4
  <2>2. PICK q \in Peers : b \in S.pr[q].sync_items_requested
    BY <1>4, <2>1 DEF RequestsOk
  <2> QED BY <1>1, <2>1, <2>2
<1> QED BY <1>2, <1>3, <1>4 DEF RequestsOk

(* on_item_not_available_message                                           *)
LEMMA NotAvailableGood ==
  ASSUME NEW S, NEW in \in [Peers -> Seq(FromMessages)], NEW new, NEW C, Good(S, in, C),
         NEW p \in Peers, \A q \in Peers \ {p} : new[q] = in[q],
         in[p] # <<>>, new[p] = Tail(in[p]), in[p][1].type = "missing",
         NEW b \in Blocks, b = in[p][1].block
  PROVE  Good(on_item_not_available_message(S, p, b), new, C)
<1> DEFINE r == S.pr[p]
           q == [r EXCEPT !.items_requested = @ \ {b}, !.advertised_to_us = @ \ {b}]
           s == [r EXCEPT !.sync_items_requested = @ \ {b}]
           T == [S EXCEPT !.pr[p].items_requested = @ \ {b}, !.pr[p].advertised_to_us = @ \ {b}]
           n == [S.node EXCEPT !.items_to_fetch = @ \cup {b}]
           W == [T EXCEPT !.node.items_to_fetch = @ \cup {b}]
           U == [S EXCEPT !.pr[p].sync_items_requested = @ \ {b}]
           X == [U EXCEPT !.pr[p].inhibit = TRUE]
           V == on_item_not_available_message(S, p, b)
<1>1. S \in TaskState /\ BlamedOk(S.blamed) /\ r \in PeerType /\ S.node \in NodeType
  BY DEF Good, NodeOk, TaskState
<1>2. /\ b \in r.items_requested => V \in {TriggerItems(T), TriggerItems(W)}
      /\ b \notin r.items_requested /\ b \in r.sync_items_requested =>
           V \in {TriggerSync(X), TriggerSync(Disconnect(U, p))}
      /\ b \in r.items_requested \/ b \in r.sync_items_requested
  <2>1. b \in r.items_requested \/ b \in r.sync_items_requested
    <3>1. IsItem(in[p][1]) /\ 1 \in 1..Len(in[p])
      BY DEF IsItem
    <3>2. AnswersOpen(r, in[p])
      BY DEF Good, PeerOk
    <3> QED BY <3>1, <3>2 DEF AnswersOpen
  <2> QED BY <2>1 DEF on_item_not_available_message
<1>3. PeerOk(r, S.out[p], in[p], height[p], C) /\ IsItem(in[p][1]) /\ in[p] \in Seq(FromMessages)
  BY DEF Good, IsItem
<1>4. T = [S EXCEPT !.pr[p] = q] /\ W = [T EXCEPT !.node = n] /\ U = [S EXCEPT !.pr[p] = s]
  BY <1>1 DEF TaskState
<1>5. X \in Marked(U, p, TRUE) /\ Disconnect(U, p) \in Marked(U, p, TRUE)
  BY DEF Marked
<1> HIDE DEF V, T, U, r, W, X
<1>6. CASE b \in r.items_requested
  <2>1. /\ q \in PeerType /\ q.open = r.open /\ q.list = r.list
        /\ q.items_requested = r.items_requested \ {b}
        /\ q.sync_items_requested = r.sync_items_requested
        /\ q.ids_of_items_to_get = r.ids_of_items_to_get
        /\ q.item_ids_requested = r.item_ids_requested /\ q.last_seen = r.last_seen
        /\ q.advertised_to_us = r.advertised_to_us \ {b}
        /\ q.ids_of_items_being_processed = r.ids_of_items_being_processed
    BY <1>1 DEF PeerType
  <2>2. /\ n \in NodeType /\ n.active_sync_requests = S.node.active_sync_requests
        /\ n.recent = S.node.recent /\ n.suspend = S.node.suspend /\ n.backlog = S.node.backlog
    BY <1>1 DEF NodeType
  <2> HIDE DEF q, n
  <2>3. SameList(r, q)
    BY <2>1 DEF SameList
  <2>4. PeerOk(q, S.out[p], new[p], height[p], C)
    BY <1>3, <2>1, <2>3, PeerAnswered
  <2>5. /\ T \in TaskState /\ OnlyPeer(S, T, p) /\ T.pr[p] = q
        /\ T.out = S.out /\ T.node = S.node /\ T.blamed = S.blamed
    BY <1>1, <1>4, <2>1 DEF TaskState, OnlyPeer
  <2>6. W \in TaskState /\ W.node = n /\ W.pr = T.pr /\ W.out = T.out /\ W.blamed = T.blamed
    BY <1>4, <2>2, <2>5 DEF TaskState
  <2>7. Good(T, new, C)
    <3>1. KeepsNode(S, T) /\ BlamedOk(T.blamed)
      BY <1>1, <2>5 DEF KeepsNode
    <3> QED BY ZenonT(60), <2>1, <2>4, <2>5, <3>1, OnePeerGood DEF r
  <2>8. Good(W, new, C)
    <3>1. KeepsNode(S, W) /\ BlamedOk(W.blamed) /\ OnlyPeer(S, W, p)
      BY <1>1, <2>2, <2>5, <2>6 DEF KeepsNode, OnlyPeer
    <3> QED BY ZenonT(60), <2>1, <2>4, <2>5, <2>6, <3>1, OnePeerGood DEF r
  <2>9. Good(TriggerItems(T), new, C) /\ Good(TriggerItems(W), new, C)
    BY <2>7, <2>8, TriggerGood
  <2> QED BY <1>2, <1>6, <2>9 DEF V
<1>7. CASE b \notin r.items_requested /\ b \in r.sync_items_requested
  <2>1. /\ s \in PeerType /\ s.open = r.open /\ s.list = r.list
        /\ s.items_requested = r.items_requested
        /\ s.sync_items_requested = r.sync_items_requested \ {b}
        /\ s.ids_of_items_to_get = r.ids_of_items_to_get
        /\ s.item_ids_requested = r.item_ids_requested /\ s.last_seen = r.last_seen
        /\ s.advertised_to_us = r.advertised_to_us
        /\ s.ids_of_items_being_processed = r.ids_of_items_being_processed
    BY <1>1 DEF PeerType
  <2> HIDE DEF s
  <2>2. SameList(r, s)
    BY <2>1 DEF SameList
  <2>3. PeerOk(s, S.out[p], new[p], height[p], C)
    BY <1>3, <2>1, <2>2, PeerAnswered
  <2>4. /\ U \in TaskState /\ OnlyPeer(S, U, p) /\ U.pr[p] = s
        /\ U.out = S.out /\ U.node = S.node /\ U.blamed = S.blamed
    BY <1>1, <1>4, <2>1 DEF TaskState, OnlyPeer
  <2>5. "block_id" \in LostBy
    <3>1. AnswersOpen(r, in[p]) /\ 1 \in 1..Len(in[p])
      BY <1>3 DEF PeerOk
    <3> QED BY <1>7, <3>1 DEF AnswersOpen
  <2>6. RequestsOk(U)
    <3>1. RequestsOk(S)
      BY DEF Good
    <3> QED BY <1>7, <2>1, <2>4, <2>5, <3>1, RequestsShrink DEF r
  <2>7. Good(U, new, C)
    <3>1. NodeOk(U)
      BY <2>4 DEF Good, NodeOk
    <3>2. \A x \in Peers : PeerOk(U.pr[x], U.out[x], new[x], height[x], C)
      BY <2>3, <2>4 DEF Good, OnlyPeer
    <3> QED BY <2>4, <2>6, <3>1, <3>2 DEF Good
  <2>8. ASSUME NEW Y \in Marked(U, p, TRUE) PROVE Good(TriggerSync(Y), new, C)
    <3>1. Moves(U, Y, p, new[p], C) /\ Y.node = U.node /\ Y.blamed = U.blamed
      BY <2>3, <2>4, MarkMoves
    <3>2. KeepsNode(U, Y) /\ BlamedOk(Y.blamed)
      BY <1>1, <2>4, <3>1 DEF KeepsNode
    <3>3. Good(Y, new, C)
      BY <2>7, <3>1, <3>2, MovesGood
    <3> QED BY <3>3, TriggerGood
  <2> QED BY <1>2, <1>5, <1>7, <2>8 DEF V
<1> QED BY <1>2, <1>6, <1>7

(* Block b was accepted, and peers that had it are at b.                   *)
LEMMA BroadcastGood ==
  ASSUME NEW S, NEW in, NEW C, Good(S, in, C), Grown(C), head \in 0..MaxBlock,
         NEW b \in Blocks, b <= head
  PROVE  Good(BroadcastBlock(S, b), in, C)
<1> DEFINE n == [S.node EXCEPT !.recent = @ \cup {b}, !.new_inventory = @ \cup {b}]
           U == [S EXCEPT !.node.recent = @ \cup {b}, !.node.new_inventory = @ \cup {b}]
           peers == {p \in Active(S) : b \in S.pr[p].advertised_to_us}
           q(p) == [S.pr[p] EXCEPT !.last_seen = b]
           T == BroadcastBlock(S, b)
<1>1. S \in TaskState /\ BlamedOk(S.blamed) /\ S.node \in NodeType /\ MaxBlock \in Nat
  BY BoundAssumption DEF Good, NodeOk, TaskState
<1>2. U = [S EXCEPT !.node = n]
  BY <1>1 DEF TaskState
<1>3. /\ n \in NodeType /\ n.active_sync_requests = S.node.active_sync_requests
      /\ n.recent = S.node.recent \cup {b} /\ n.suspend = S.node.suspend
      /\ n.backlog = S.node.backlog
  BY <1>1 DEF NodeType
<1> HIDE DEF n
<1>4. U \in TaskState /\ U.node = n /\ U.pr = S.pr /\ U.out = S.out /\ U.blamed = S.blamed
  BY <1>1, <1>2, <1>3 DEF TaskState
<1>5. T = [U EXCEPT
             !.pr  = [p \in Peers |-> IF p \in peers THEN [U EXCEPT !.pr[p].last_seen = b].pr[p]
                                      ELSE @[p]],
             !.out = [p \in Peers |-> IF p \in peers THEN [U EXCEPT !.pr[p].last_seen = b].out[p]
                                      ELSE @[p]],
             !.blamed = @ \cup UNION {[U EXCEPT !.pr[p].last_seen = b].blamed : p \in peers}]
  BY DEF BroadcastBlock, ForEach
<1> HIDE DEF U
<1>6. \A p \in Peers : /\ [U EXCEPT !.pr[p].last_seen = b].pr[p] = q(p)
                       /\ [U EXCEPT !.pr[p].last_seen = b].out[p] = S.out[p]
                       /\ [U EXCEPT !.pr[p].last_seen = b].blamed = S.blamed
  BY <1>4 DEF TaskState
<1>7. /\ peers \subseteq Peers
      /\ UNION {[U EXCEPT !.pr[p].last_seen = b].blamed : p \in peers} \subseteq S.blamed
  BY <1>6 DEF Active
<1>8. \A p \in Peers : q(p) \in PeerType
  <2> SUFFICES ASSUME NEW p \in Peers PROVE q(p) \in PeerType
    OBVIOUS
  <2>1. S.pr[p] \in PeerType /\ b \in 0..MaxBlock
    BY <1>1 DEF TaskState, Blocks
  <2> QED BY <2>1 DEF PeerType
<1> DEFINE f == [p \in Peers |-> IF p \in peers THEN q(p) ELSE S.pr[p]]
<1>9. /\ T.pr = [p \in Peers |-> IF p \in peers THEN [U EXCEPT !.pr[p].last_seen = b].pr[p]
                                 ELSE U.pr[p]]
      /\ T.out = [p \in Peers |-> IF p \in peers THEN [U EXCEPT !.pr[p].last_seen = b].out[p]
                                 ELSE U.out[p]]
      /\ T.blamed = U.blamed \cup UNION {[U EXCEPT !.pr[p].last_seen = b].blamed : p \in peers}
      /\ T.node = U.node
      /\ T = [pr |-> T.pr, node |-> T.node, out |-> T.out, blamed |-> T.blamed]
  BY <1>4, <1>5 DEF TaskState
<1> HIDE DEF T, peers
<1>10. T.pr = f /\ T.out = S.out /\ T.blamed = S.blamed /\ T.node = n
  BY <1>1, <1>4, <1>6, <1>7, <1>9 DEF TaskState
<1>11. f \in [Peers -> PeerType]
  BY <1>1, <1>8 DEF TaskState
<1>12. T \in TaskState
  BY <1>1, <1>3, <1>9, <1>10, <1>11 DEF TaskState
<1>13. ASSUME NEW p \in Peers
       PROVE  /\ PeerOk(T.pr[p], T.out[p], in[p], height[p], C)
              /\ T.pr[p].sync_items_requested = S.pr[p].sync_items_requested
  <2>1. PeerOk(S.pr[p], S.out[p], in[p], height[p], C) /\ S.pr[p] \in PeerType
    BY <1>1 DEF Good, TaskState
  <2>2. CASE p \notin peers
    BY <1>10, <2>1, <2>2
  <2>3. CASE p \in peers
    <3>1. T.pr[p] = q(p) /\ T.out[p] = S.out[p]
      BY <1>10, <2>3
    <3> DEFINE r == S.pr[p]
               x == q(p)
    <3>2. /\ x.open = r.open /\ x.list = r.list
          /\ x.items_requested = r.items_requested
          /\ x.sync_items_requested = r.sync_items_requested
          /\ x.ids_of_items_to_get = r.ids_of_items_to_get
          /\ x.item_ids_requested = r.item_ids_requested /\ x.last_seen = b
          /\ x.advertised_to_us = r.advertised_to_us
          /\ x.ids_of_items_being_processed = r.ids_of_items_being_processed
      BY <2>1 DEF PeerType
    <3> HIDE DEF x
    <3>3. SameRequests(r, x) /\ SameList(r, x)
      BY <3>2 DEF SameRequests, SameList
    <3>4. b \in C
      <4>1. b \in 0..head
        BY <1>1 DEF Blocks
      <4> QED BY <4>1 DEF Grown
    <3>5. \A c \in x.ids_of_items_being_processed \cup x.advertised_to_us : c <= height[p]
      BY <2>1, <3>2 DEF PeerOk, Held
    <3>6. PeerOk(x, S.out[p], in[p], height[p], C)
      BY <2>1, <3>2, <3>3, <3>4, <3>5, PeerNotes
    <3> QED BY <3>1, <3>2, <3>6 DEF x
  <2> QED BY <2>2, <2>3
<1>14. RequestsOk(T)
  BY <1>3, <1>10, <1>13 DEF Good, RequestsOk
<1>15. NodeOk(T)
  BY <1>3, <1>10 DEF Good, NodeOk
<1>16. Good(T, in, C)
  BY <1>12, <1>13, <1>14, <1>15 DEF Good
<1> QED BY <1>16 DEF T

(* AfterItem                                                               *)
LEMMA AfterItemGood ==
  ASSUME NEW S, NEW in, NEW C, Good(S, in, C), NEW p
  PROVE  Good(AfterItem(S, p), in, C)
BY TriggerGood DEF AfterItem

(* fetch_next_batch_of_item_ids and start_synchronizing_with_peer          *)
LEMMA AskMoves ==
  ASSUME NEW S, NEW in, NEW C, Good(S, in, C), Grown(C), head \in 0..MaxBlock, NEW p \in Peers,
         NEW T \in {fetch_next_batch_of_item_ids(S, p), start_synchronizing_with_peer(S, p)}
  PROVE  Moves(S, T, p, in[p], C) /\ T.node = S.node /\ T.blamed = S.blamed
<1>1. /\ S \in TaskState /\ S.pr[p] \in PeerType
      /\ PeerOk(S.pr[p], S.out[p], in[p], height[p], C)
  BY DEF Good, TaskState
<1>2. PeerOk(Quiet(S.pr[p]), S.out[p], in[p], height[p], C)
  BY <1>1, QuietOk
<1> QED BY <1>1, <1>2, FetchIdsMoves, StartMoves

(* They are good.                                                          *)
LEMMA AskGood ==
  ASSUME NEW S, NEW in, NEW C, Good(S, in, C), Grown(C), head \in 0..MaxBlock, NEW p \in Peers,
         NEW T \in {fetch_next_batch_of_item_ids(S, p), start_synchronizing_with_peer(S, p)}
  PROVE  Good(T, in, C)
<1>1. BlamedOk(S.blamed)
  BY DEF Good, NodeOk
<1>2. Moves(S, T, p, in[p], C) /\ T.node = S.node /\ T.blamed = S.blamed
  BY AskMoves
<1>3. KeepsNode(S, T) /\ BlamedOk(T.blamed)
  BY <1>1, <1>2 DEF KeepsNode
<1> QED BY <1>2, <1>3, MovesGood

(* process_block_during_sync                                               *)
LEMMA DuringSyncGood ==
  ASSUME NEW S, NEW in \in [Peers -> Seq(FromMessages)], NEW new, NEW C, Good(S, in, C),
         Grown(C), head \in 0..MaxBlock,
         NEW p \in Peers, \A q \in Peers \ {p} : new[q] = in[q],
         in[p] # <<>>, new[p] = Tail(in[p]), IsItem(in[p][1]),
         NEW b \in Blocks, b = in[p][1].block, b \in S.pr[p].sync_items_requested
  PROVE  Good(process_block_during_sync(S, p, b), new, C)
<1> DEFINE r == S.pr[p]
           q == [r EXCEPT !.sync_items_requested = @ \ {b}]
           n == [S.node EXCEPT !.active_sync_requests = @ \ {b}, !.new_received = <<b>> \o @]
           A == [S EXCEPT !.pr[p].sync_items_requested = @ \ {b},
                          !.node.active_sync_requests = @ \ {b},
                          !.node.new_received = <<b>> \o @]
           T == TriggerBacklog(A)
           V == process_block_during_sync(S, p, b)
<1>1. /\ S \in TaskState /\ BlamedOk(S.blamed) /\ r \in PeerType /\ S.node \in NodeType
      /\ in[p] \in Seq(FromMessages)
  BY DEF Good, NodeOk, TaskState
<1>2. V \in {T, fetch_next_batch_of_item_ids(T, p), TriggerSync(T)}
  BY DEF process_block_during_sync
<1>3. A = [S EXCEPT !.pr[p] = q, !.node = n]
  BY <1>1 DEF TaskState
<1> HIDE DEF V, A, r
<1>4. /\ q \in PeerType /\ q.open = r.open /\ q.list = r.list
      /\ q.items_requested = r.items_requested
      /\ q.sync_items_requested = r.sync_items_requested \ {b}
      /\ q.ids_of_items_to_get = r.ids_of_items_to_get
      /\ q.item_ids_requested = r.item_ids_requested /\ q.last_seen = r.last_seen
      /\ q.advertised_to_us = r.advertised_to_us
      /\ q.ids_of_items_being_processed = r.ids_of_items_being_processed
  BY <1>1 DEF PeerType
<1>5. /\ n \in NodeType /\ n.active_sync_requests = S.node.active_sync_requests \ {b}
      /\ n.recent = S.node.recent /\ n.suspend = S.node.suspend /\ n.backlog = S.node.backlog
  <2>1. <<b>> \o S.node.new_received \in Seq(Blocks)
    BY <1>1 DEF NodeType
  <2> HIDE DEF r
  <2> QED BY <1>1, <2>1 DEF NodeType
<1> HIDE DEF q, n
<1>6. SameList(r, q)
  BY <1>4 DEF SameList
<1>7. PeerOk(q, S.out[p], new[p], height[p], C)
  <2>1. PeerOk(r, S.out[p], in[p], height[p], C)
    BY DEF Good, r
  <2> QED BY <1>1, <1>4, <1>6, <2>1, PeerAnswered
<1>8. /\ A \in TaskState /\ OnlyPeer(S, A, p) /\ A.pr[p] = q
      /\ A.out = S.out /\ A.node = n /\ A.blamed = S.blamed
  BY <1>1, <1>3, <1>4, <1>5 DEF TaskState, OnlyPeer
<1>9. RequestsOk(A)
  <2>1. RequestsOk(S)
    BY DEF Good
  <2>2. A.pr[p].sync_items_requested = S.pr[p].sync_items_requested \ {b}
    BY <1>4, <1>8 DEF r
  <2>3. A.node.active_sync_requests = S.node.active_sync_requests \ {b}
    BY <1>5, <1>8
  <2>4. {b} \subseteq S.pr[p].sync_items_requested
    OBVIOUS
  <2> QED BY <1>8, <2>1, <2>2, <2>3, <2>4, RequestsShrink
<1>10. NodeOk(A)
  BY <1>5, <1>8 DEF Good, NodeOk
<1>11. \A x \in Peers : PeerOk(A.pr[x], A.out[x], new[x], height[x], C)
  BY <1>7, <1>8 DEF Good, OnlyPeer
<1>12. Good(A, new, C)
  BY <1>8, <1>9, <1>10, <1>11 DEF Good
<1>13. Good(T, new, C)
  BY <1>12, TriggerGood
<1> HIDE DEF T
<1>14. Good(TriggerSync(T), new, C) /\ Good(fetch_next_batch_of_item_ids(T, p), new, C)
  BY <1>13, TriggerGood, AskGood
<1> QED BY <1>2, <1>13, <1>14 DEF V

(* process_block_message                                                   *)
LEMMA BlockMessage ==
  ASSUME Good(Here, fromPeer, Reached), fromPeer \in [Peers -> Seq(FromMessages)],
         Grown(Reached), head \in 0..MaxBlock,
         NEW new, NEW p \in Peers, \A q \in Peers \ {p} : new[q] = fromPeer[q],
         fromPeer[p] # <<>>, new[p] = Tail(fromPeer[p]), fromPeer[p][1].type = "block",
         NEW b \in Blocks, b = fromPeer[p][1].block, process_block_message(p, b)
  PROVE  \E S : /\ Install(S) /\ Good(S, new, Reached)
                /\ \/ calls' = calls
                   \/ calls' = Append(calls, Call(p, b)) /\ b <= height[p]
<1> DEFINE S == Here
           in == fromPeer
           r == S.pr[p]
           q == [r EXCEPT !.items_requested = @ \ {b}]
           T == [S EXCEPT !.pr[p].items_requested = @ \ {b}]
<1>1. /\ S \in TaskState /\ BlamedOk(S.blamed) /\ r \in PeerType
      /\ in[p] \in Seq(FromMessages) /\ S.pr = pr /\ S.node = node
  BY DEF Good, NodeOk, TaskState, Here
<1>2. IsItem(in[p][1]) /\ PeerOk(r, S.out[p], in[p], height[p], Reached)
  BY DEF IsItem, Good
<1>3. b \in r.items_requested \/ b \in r.sync_items_requested
  <2>1. 1 \in 1..Len(in[p]) /\ AnswersOpen(r, in[p])
    BY <1>1, <1>2 DEF PeerOk
  <2> QED BY <1>2, <2>1 DEF AnswersOpen
<1>4. T = [S EXCEPT !.pr[p] = q]
  BY <1>1 DEF TaskState
<1>5. pr[p] = r
  BY <1>1
<1> HIDE DEF r, S, T
<1>6. CASE b \in r.items_requested
  <2>1. /\ q \in PeerType /\ q.open = r.open /\ q.list = r.list
        /\ q.items_requested = r.items_requested \ {b}
        /\ q.sync_items_requested = r.sync_items_requested
        /\ q.ids_of_items_to_get = r.ids_of_items_to_get
        /\ q.item_ids_requested = r.item_ids_requested /\ q.last_seen = r.last_seen
        /\ q.advertised_to_us = r.advertised_to_us
        /\ q.ids_of_items_being_processed = r.ids_of_items_being_processed
    BY <1>1 DEF PeerType
  <2> HIDE DEF q
  <2>2. SameList(r, q)
    BY <2>1 DEF SameList
  <2>3. PeerOk(q, S.out[p], new[p], height[p], Reached)
    BY <1>1, <1>2, <2>1, <2>2, PeerAnswered
  <2>4. /\ T \in TaskState /\ OnlyPeer(S, T, p) /\ T.pr[p] = q
        /\ T.out = S.out /\ T.node = S.node /\ T.blamed = S.blamed
    BY <1>1, <1>4, <2>1 DEF TaskState, OnlyPeer
  <2>5. Good(T, new, Reached)
    <3>1. KeepsNode(S, T) /\ BlamedOk(T.blamed) /\ Good(S, in, Reached)
      BY <1>1, <2>4 DEF KeepsNode, S
    <3>2. PeerOk(T.pr[p], T.out[p], new[p], height[p], Reached)
      BY <2>3, <2>4
    <3>3. T.pr[p].sync_items_requested = S.pr[p].sync_items_requested
      BY <2>1, <2>4 DEF r
    <3> QED BY <2>4, <3>1, <3>2, <3>3, OnePeerGood
  <2>6. b <= height[p]
    BY <1>2, <1>6 DEF PeerOk, Held
  <2>7. CASE b \notin node.recent
    <3>1. Install(T) /\ calls' = Append(calls, Call(p, b))
      BY <1>5, <1>6, <2>7 DEF process_block_message, S, T
    <3> QED BY <3>1, <2>5, <2>6
  <2>8. CASE b \in node.recent
    <3>1. Install(AfterItem(BroadcastBlock(T, b), p)) /\ calls' = calls
      BY <1>5, <1>6, <2>8 DEF process_block_message, S, T
    <3>2. b <= head
      BY <1>1, <2>8 DEF Good, NodeOk, S
    <3>3. Good(AfterItem(BroadcastBlock(T, b), p), new, Reached)
      BY <2>5, <3>2, BroadcastGood, AfterItemGood
    <3> QED BY <3>1, <3>3
  <2> QED BY <2>7, <2>8
<1>7. CASE b \notin r.items_requested /\ b \in r.sync_items_requested
  <2>1. Install(process_block_during_sync(S, p, b)) /\ calls' = calls
    BY <1>5, <1>7 DEF process_block_message, S
  <2>2. Good(process_block_during_sync(S, p, b), new, Reached)
    BY <1>2, <1>7, DuringSyncGood DEF S, r
  <2> QED BY <2>1, <2>2
<1> QED BY <1>3, <1>6, <1>7

(* A set of numbers from 1 without gaps.                                   *)
LEMMA PrefixIsInterval ==
  ASSUME NEW N \in Nat, NEW K, K \subseteq 1..N, \A i \in K : 1..i \subseteq K
  PROVE  Cardinality(K) \in 0..N /\ K = 1..Cardinality(K)
<1>1. CASE K = {}
  BY <1>1, FS_EmptySet
<1>2. CASE K # {}
  <2>1. K \in SUBSET Nat /\ \A x \in K : x <= N
    OBVIOUS
  <2>2. PICK n \in K : \A x \in K : x <= n
    BY <1>2, <2>1, GreatestBelow
  <2>3. n \in 1..N /\ n \in Nat
    OBVIOUS
  <2>4. K = 1..n
    <3>1. 1..n \subseteq K
      BY <2>2
    <3>2. \A x \in K : x \in Nat /\ x >= 1 /\ x <= n
      BY <2>2
    <3>3. K \subseteq 1..n
      BY <2>3, <3>2
    <3> QED BY <3>1, <3>3
  <2>5. Cardinality(1..n) = n
    <3>1. Cardinality(1..n) = n - 1 + 1
      BY <2>3, FS_Interval
    <3> QED BY <2>3, <3>1
  <2> QED BY <2>3, <2>4, <2>5
<1> QED BY <1>1, <1>2

(* The ids of a list as numbers.                                           *)
LEMMA RowFacts ==
  ASSUME NEW q \in Seq(Blocks), InARow(q)
  PROVE  \A i \in 1..Len(q) : q[i] \in Int /\ q[i] \in Nat /\ q[i] = q[1] + i - 1
BY BoundAssumption DEF InARow, Blocks

(* A piece of a row is a row.                                              *)
LEMMA RowEnd ==
  ASSUME NEW q \in Seq(Blocks), InARow(q), NEW n \in 0..Len(q)
  PROVE  LET s == SubSeq(q, n + 1, Len(q))
         IN /\ s \in Seq(Blocks) /\ InARow(s) /\ Len(s) = Len(q) - n
            /\ \A i \in 1..Len(s) : s[i] = q[n + i] /\ n + i \in 1..Len(q)
            /\ s # <<>> /\ n > 0 => s[1] - 1 = q[n]
<1> DEFINE s == SubSeq(q, n + 1, Len(q))
<1>1. Len(q) \in Nat /\ n + 1 \in 1..(Len(q) + 1) /\ Len(q) \in 0..Len(q) /\ Len(q) >= n + 1 - 1
  OBVIOUS
<1>2. /\ s \in Seq(Blocks) /\ Len(s) = Len(q) - (n + 1) + 1
      /\ \A i \in 1..(Len(q) - (n + 1) + 1) : s[i] = q[(n + 1) + i - 1] /\ (n + 1) + i - 1 \in 1..Len(q)
  <2> DEFINE m == n + 1
             l == Len(q)
  <2>1. m \in 1..(Len(q) + 1) /\ l \in 0..Len(q) /\ l >= m - 1 /\ s = SubSeq(q, m, l)
    BY <1>1
  <2> HIDE DEF m, l, s
  <2>2. /\ s \in Seq(Blocks) /\ Len(s) = l - m + 1
        /\ \A i \in 1..(l - m + 1) : s[i] = q[m + i - 1] /\ m + i - 1 \in 1..Len(q)
    BY <2>1, PieceFacts
  <2> QED BY <2>2 DEF m, l
<1> HIDE DEF s
<1>3. Len(s) = Len(q) - n /\ \A i \in 1..Len(s) : s[i] = q[n + i] /\ n + i \in 1..Len(q)
  <2>1. Len(s) = Len(q) - n
    BY <1>1, <1>2
  <2>2. ASSUME NEW i \in 1..Len(s) PROVE s[i] = q[n + i] /\ n + i \in 1..Len(q)
    <3>1. (n + 1) + i - 1 = n + i /\ i \in 1..(Len(q) - (n + 1) + 1)
      BY <1>1, <1>2
    <3> QED BY <1>2, <3>1
  <2> QED BY <2>1, <2>2
<1>4. \A i \in 1..Len(q) : q[i] \in Int /\ q[i] = q[1] + i - 1
  BY RowFacts
<1>5. InARow(s)
  <2> SUFFICES ASSUME NEW i \in 1..Len(s) PROVE s[i] = s[1] + i - 1
    BY DEF InARow
  <2>1. 1 \in 1..Len(s)
    BY <1>1, <1>3
  <2>2. s[i] = q[n + i] /\ s[1] = q[n + 1] /\ n + i \in 1..Len(q) /\ n + 1 \in 1..Len(q)
    BY <1>3, <2>1
  <2>3. q[n + i] = q[1] + (n + i) - 1 /\ q[n + 1] = q[1] + (n + 1) - 1 /\ q[1] \in Int
    BY <1>1, <1>4, <2>2
  <2> QED BY <1>1, <2>2, <2>3
<1>6. ASSUME s # <<>>, n > 0 PROVE s[1] - 1 = q[n]
  <2>1. 1 \in 1..Len(s) /\ n \in 1..Len(q)
    BY <1>1, <1>2, <1>6
  <2>2. s[1] = q[n + 1] /\ n + 1 \in 1..Len(q)
    BY <1>3, <2>1
  <2>3. q[n + 1] = q[1] + (n + 1) - 1 /\ q[n] = q[1] + n - 1 /\ q[1] \in Int
    BY <1>1, <1>4, <2>1, <2>2
  <2> QED BY <1>1, <2>2, <2>3
<1> QED BY <1>2, <1>3, <1>5, <1>6 DEF s

(* A list continued from one of its ids on.                                *)
LEMMA RowJoin ==
  ASSUME NEW a \in Seq(Blocks), InARow(a), NEW c \in Seq(Blocks), InARow(c), c # <<>>,
         NEW k \in 1..Len(a), a[k] = c[1]
  PROVE  LET s == SubSeq(a, 1, k - 1) \o c
         IN /\ s \in Seq(Blocks) /\ InARow(s) /\ s # <<>> /\ s[1] = a[1]
            /\ \A i \in 1..Len(s) : \/ \E j \in 1..Len(a) : s[i] = a[j]
                                    \/ \E j \in 1..Len(c) : s[i] = c[j]
<1> DEFINE f == SubSeq(a, 1, k - 1)
           s == f \o c
<1>1. Len(a) \in Nat /\ Len(c) \in Nat /\ 1 \in 1..Len(c) /\ 1 \in 1..Len(a) /\ k - 1 \in 0..Len(a)
  OBVIOUS
<1>2. /\ f \in Seq(Blocks) /\ Len(f) = (k - 1) - 1 + 1
      /\ \A i \in 1..((k - 1) - 1 + 1) : f[i] = a[1 + i - 1] /\ 1 + i - 1 \in 1..Len(a)
  <2>1. 1 \in 1..(Len(a) + 1) /\ k - 1 >= 1 - 1
    BY <1>1
  <2> QED BY <1>1, <2>1, PieceFacts
<1>3. Len(f) = k - 1 /\ \A i \in 1..(k - 1) : f[i] = a[i] /\ i \in 1..Len(a)
  <2>1. (k - 1) - 1 + 1 = k - 1 /\ \A i \in 1..(k - 1) : 1 + i - 1 = i
    OBVIOUS
  <2> QED BY <1>2, <2>1
<1> HIDE DEF f
<1>4. /\ s \in Seq(Blocks) /\ Len(s) = Len(f) + Len(c)
      /\ \A i \in 1..Len(f) : s[i] = f[i]
      /\ \A i \in 1..Len(c) : s[Len(f) + i] = c[i]
      /\ \A i \in 1..Len(s) : i \in 1..Len(f) \/ i - Len(f) \in 1..Len(c)
  BY <1>2, ConcatFacts
<1> HIDE DEF s
<1>5. /\ \A i \in 1..Len(a) : a[i] \in Int /\ a[i] = a[1] + i - 1
      /\ \A i \in 1..Len(c) : c[i] \in Int /\ c[i] = c[1] + i - 1
  BY RowFacts
<1>6. ASSUME NEW i \in 1..Len(s)
      PROVE  /\ s[i] = a[1] + i - 1
             /\ (\E j \in 1..Len(a) : s[i] = a[j]) \/ (\E j \in 1..Len(c) : s[i] = c[j])
  <2>1. CASE i \in 1..Len(f)
    <3>1. s[i] = a[i] /\ i \in 1..Len(a)
      BY <1>3, <1>4, <2>1
    <3> QED BY <1>5, <3>1
  <2>2. CASE i - Len(f) \in 1..Len(c)
    <3> DEFINE j == i - (k - 1)
    <3>1. j \in 1..Len(c) /\ Len(f) + j = i /\ i \in Nat
      BY <1>3, <2>2
    <3>2. s[i] = c[j]
      BY <1>4, <3>1
    <3>3. c[j] = c[1] + j - 1 /\ c[1] = a[1] + k - 1 /\ a[1] \in Int
      BY <1>1, <1>5, <3>1
    <3>4. s[i] = a[1] + i - 1
      <4>1. j = i - (k - 1) /\ k \in Nat
        OBVIOUS
      <4>2. s[i] = (a[1] + k - 1) + j - 1
        BY <3>2, <3>3
      <4>3. \A x \in Int : (x + k - 1) + (i - (k - 1)) - 1 = x + i - 1
        BY <3>1, <4>1
      <4> QED BY <3>3, <4>2, <4>3
    <3> QED BY <3>1, <3>2, <3>4
  <2> QED BY <1>4, <2>1, <2>2
<1>7. 1 \in 1..Len(s)
  BY <1>1, <1>3, <1>4
<1>8. s[1] = a[1] /\ s # <<>>
  BY <1>1, <1>4, <1>5, <1>6, <1>7
<1>9. InARow(s)
  BY <1>6, <1>8 DEF InARow
<1> QED BY <1>4, <1>6, <1>8, <1>9 DEF s, f

(* A list of ids is given to a peer.                                       *)
WithList(r, ids, seen) == [r EXCEPT !.ids_of_items_to_get = ids, !.last_seen = seen]

(* It is one the peer may have.                                            *)
LEMMA ListGiven ==
  ASSUME NEW r \in PeerType, ~r.item_ids_requested.on, NEW h, NEW C, C \subseteq 0..MaxBlock,
         NEW ids \in Seq(Blocks), NEW seen \in C, InARow(ids),
         \A i \in 1..Len(ids) : ids[i] <= h, ids # <<>> => ids[1] - 1 \in C,
         NEW q, q = WithList(r, ids, seen)
  PROVE  /\ q \in PeerType /\ SameRequests(r, q) /\ q.advertised_to_us = r.advertised_to_us
         /\ q.ids_of_items_being_processed = r.ids_of_items_being_processed
         /\ ~q.item_ids_requested.on /\ ListOk(q, h, C)
<1>1. /\ q \in PeerType /\ q.open = r.open /\ q.list = r.list
      /\ q.items_requested = r.items_requested /\ q.sync_items_requested = r.sync_items_requested
      /\ q.advertised_to_us = r.advertised_to_us /\ q.last_seen = seen
      /\ q.ids_of_items_to_get = ids
      /\ q.ids_of_items_being_processed = r.ids_of_items_being_processed
      /\ q.item_ids_requested = r.item_ids_requested
  <2>1. seen \in 0..MaxBlock
    OBVIOUS
  <2> QED BY <2>1 DEF PeerType, WithList
<1>2. SameRequests(r, q) /\ ListOk(q, h, C)
  BY <1>1 DEF SameRequests, ListOk
<1> QED BY <1>1, <1>2

(* MergeIds leaves a piece of the peer's chain that starts no later than   *)
(* the first block still to come, whatever was listed before.              *)
LEMMA MergeOk ==
  ASSUME NEW S \in TaskState, NEW p \in Peers, NEW h \in 0..MaxBlock, NEW C, Grown(C),
         head \in 0..MaxBlock, NEW r, r = S.pr[p], ~r.item_ids_requested.on, ListOk(r, h, C),
         NEW hashes \in Seq(Blocks), InARow(hashes), \A i \in 1..Len(hashes) : hashes[i] <= h,
         hashes # <<>> =>
           \/ hashes[1] = 1 \/ hashes[1] \in C
           \/ /\ r.ids_of_items_to_get # <<>>
              /\ hashes[1] <= r.ids_of_items_to_get[Len(r.ids_of_items_to_get)],
         NEW q, q = MergeIds(S, p, hashes)
  PROVE  /\ q \in PeerType /\ SameRequests(r, q) /\ q.advertised_to_us = r.advertised_to_us
         /\ q.ids_of_items_being_processed = r.ids_of_items_being_processed
         /\ ~q.item_ids_requested.on /\ ListOk(q, h, C)
<1> DEFINE old == r.ids_of_items_to_get
           flush == ~\E x \in Active(S) \ {p} :
                       LET ids == S.pr[x].ids_of_items_to_get
                       IN ids # <<>> /\ ids[1] = hashes[1]
           known == {i \in DOMAIN hashes : \A j \in 1..i : has_item(hashes[j])}
           n == IF flush THEN Cardinality(known) ELSE 0
           common == {i \in DOMAIN old : old[i] = hashes[1]}
           List(ids, seen) == WithList(r, ids, seen)
<1>1. r \in PeerType /\ old \in Seq(Blocks) /\ MaxBlock \in Nat /\ C \subseteq 0..MaxBlock
  BY BoundAssumption DEF TaskState, PeerType, Grown
<1>2. /\ hashes = <<>> => q = r
      /\ hashes # <<>> /\ old = <<>> =>
           q = List(SubSeq(hashes, n + 1, Len(hashes)), IF n = 0 THEN r.last_seen ELSE hashes[n])
      /\ hashes # <<>> /\ old # <<>> /\ common = {} => q = List(Tail(hashes), hashes[1])
      /\ hashes # <<>> /\ old # <<>> /\ common # {} =>
           q = List(SubSeq(old, 1, Max(common) - 1) \o hashes, r.last_seen)
  BY DEF MergeIds, WithList
<1>3. /\ InARow(old) /\ \A i \in 1..Len(old) : old[i] <= h
      /\ old # <<>> => old[1] - 1 \in C
      /\ r.last_seen \in C
  BY DEF ListOk
<1>4. /\ \A i \in 1..Len(old) : old[i] \in Int /\ old[i] \in Nat /\ old[i] = old[1] + i - 1
      /\ \A i \in 1..Len(hashes) : hashes[i] \in Int /\ hashes[i] \in Nat /\ hashes[i] = hashes[1] + i - 1
  BY <1>1, <1>3, RowFacts
<1>5. DOMAIN hashes = 1..Len(hashes) /\ DOMAIN old = 1..Len(old) /\ Len(old) \in Nat /\ Len(hashes) \in Nat
  BY <1>1
<1>6. \A c \in C : c \in Nat /\ \A k \in 0..c : k \in C
  BY <1>1 DEF Grown
<1>7. \A k \in Blocks : k <= head => k \in C
  BY <1>1 DEF Grown, Blocks
<1> HIDE DEF old, flush
<1>8. CASE hashes = <<>>
  BY <1>1, <1>2, <1>8 DEF SameRequests
<1>9. CASE hashes # <<>> /\ old = <<>>
  <2>1. known \subseteq 1..Len(hashes) /\ \A i \in known : 1..i \subseteq known
    <3>1. known \subseteq 1..Len(hashes)
      BY <1>5
    <3>2. ASSUME NEW i \in known, NEW k \in 1..i PROVE k \in known
      <4>1. i \in 1..Len(hashes) /\ \A j \in 1..i : has_item(hashes[j])
        BY <1>5
      <4>2. k \in 1..Len(hashes) /\ 1..k \subseteq 1..i
        BY <1>5, <4>1
      <4> QED BY <1>5, <4>1, <4>2
    <3> QED BY <3>1, <3>2
  <2>2. Cardinality(known) \in 0..Len(hashes) /\ known = 1..Cardinality(known)
    <3> HIDE DEF known
    <3> QED BY <1>5, <2>1, PrefixIsInterval
  <2>3. n \in 0..Len(hashes) /\ (n # 0 => n \in known)
    <3> HIDE DEF known
    <3> QED BY <1>5, <2>2
  <2>4. n # 0 => n \in 1..Len(hashes) /\ hashes[n] <= head
    <3>1. \A i \in known : i \in 1..Len(hashes) /\ i \in 1..i /\ has_item(hashes[i])
      BY <1>5
    <3> HIDE DEF known, n
    <3> QED BY <2>3, <3>1 DEF has_item
  <2> HIDE DEF n, known, common
  <2> DEFINE ids == SubSeq(hashes, n + 1, Len(hashes))
             seen == IF n = 0 THEN r.last_seen ELSE hashes[n]
  <2>5. /\ ids \in Seq(Blocks) /\ InARow(ids) /\ Len(ids) = Len(hashes) - n
        /\ \A i \in 1..Len(ids) : ids[i] = hashes[n + i] /\ n + i \in 1..Len(hashes)
        /\ ids # <<>> /\ n > 0 => ids[1] - 1 = hashes[n]
    BY <2>3, RowEnd
  <2>6. n # 0 => hashes[n] \in C
    BY <1>7, <2>4
  <2>7. seen \in C
    BY <1>3, <2>6
  <2>8. q = WithList(r, ids, seen)
    BY <1>2, <1>9
  <2> HIDE DEF ids, seen
  <2>9. ids # <<>> => ids[1] - 1 \in C
    <3>1. CASE n # 0
      BY <1>5, <2>3, <2>5, <2>6, <3>1
    <3>2. CASE n = 0
      <4>1. ids # <<>> => ids[1] = hashes[1]
        <5> SUFFICES ASSUME ids # <<>> PROVE ids[1] = hashes[1]
          OBVIOUS
        <5>1. 1 \in 1..Len(ids) /\ n + 1 = 1
          BY <1>5, <2>5, <3>2
        <5> QED BY <2>5, <5>1
      <4>2. hashes[1] \in Nat /\ hashes[1] >= 1
        <5>1. 1 \in 1..Len(hashes)
          BY <1>5, <1>9
        <5> QED BY <5>1, <1>1 DEF Blocks
      <4>3. hashes[1] = 1 \/ hashes[1] \in C
        BY <1>9 DEF old
      <4>4. 0 \in C
        BY <1>1 DEF Grown
      <4>5. hashes[1] - 1 \in C
        <5>1. hashes[1] \in C => hashes[1] - 1 \in 0..hashes[1]
          BY <4>2
        <5> QED BY <1>6, <4>2, <4>3, <4>4, <5>1
      <4> QED BY <4>1, <4>5
    <3> QED BY <3>1, <3>2
  <2>10. \A i \in 1..Len(ids) : ids[i] <= h
    BY <2>5
  <2> QED BY <1>1, <2>5, <2>7, <2>8, <2>9, <2>10, ListGiven
<1> HIDE DEF known, n
<1>10. ASSUME hashes # <<>>, old # <<>>
       PROVE  /\ 1 \in 1..Len(hashes) /\ 1 \in 1..Len(old) /\ Len(old) \in 1..Len(old)
              /\ hashes[1] \in Nat /\ hashes[1] >= 1 /\ old[1] \in Nat /\ old[1] >= 1
              /\ old[Len(old)] = old[1] + Len(old) - 1
  <2>1. 1 \in 1..Len(hashes) /\ 1 \in 1..Len(old) /\ Len(old) \in 1..Len(old)
    BY <1>1, <1>5, <1>10
  <2>2. hashes[1] \in Blocks /\ old[1] \in Blocks
    BY <1>1, <2>1
  <2>3. hashes[1] \in Nat /\ hashes[1] >= 1 /\ old[1] \in Nat /\ old[1] >= 1
    BY <2>2 DEF Blocks
  <2>4. old[Len(old)] = old[1] + Len(old) - 1
    BY <1>1, <1>4, <2>1
  <2> QED BY <2>1, <2>3, <2>4
<1>11. CASE hashes # <<>> /\ old # <<>> /\ common = {}
  <2>1. hashes[1] \in C
    <3>1. \A i \in 1..Len(old) : old[i] # hashes[1]
      BY <1>5, <1>11
    <3>2. ASSUME hashes[1] <= old[Len(old)] PROVE hashes[1] < old[1]
      <4>1. SUFFICES ASSUME hashes[1] >= old[1] PROVE FALSE
        BY <1>10, <1>11
      <4> DEFINE k == hashes[1] - old[1] + 1
      <4>2. k \in 1..Len(old)
        BY <1>5, <1>10, <1>11, <3>2, <4>1
      <4>3. old[1] + k - 1 = hashes[1]
        BY <1>10, <1>11
      <4> HIDE DEF k
      <4> QED BY <1>4, <3>1, <4>2, <4>3
    <3>3. ASSUME hashes[1] = 1 PROVE hashes[1] < old[1]
      <4>1. old[1] # hashes[1]
        BY <1>10, <1>11, <3>1
      <4> QED BY <1>10, <1>11, <3>3, <4>1
    <3>4. ASSUME hashes[1] < old[1] PROVE hashes[1] \in C
      <4>1. old[1] - 1 \in C
        BY <1>3, <1>11
      <4>2. hashes[1] \in 0..(old[1] - 1)
        BY <1>10, <1>11, <3>4
      <4> QED BY <1>6, <4>1, <4>2
    <3> QED BY <1>11, <3>2, <3>3, <3>4 DEF old
  <2> DEFINE ids == Tail(hashes)
             seen == hashes[1]
  <2>2. ids = SubSeq(hashes, 1 + 1, Len(hashes))
    BY <1>11
  <2>3. 1 \in 0..Len(hashes) /\ 1 > 0
    BY <1>10, <1>11
  <2>4. q = WithList(r, ids, seen)
    BY <1>2, <1>11
  <2> HIDE DEF ids
  <2>5. /\ ids \in Seq(Blocks) /\ InARow(ids)
        /\ \A i \in 1..Len(ids) : ids[i] = hashes[1 + i] /\ 1 + i \in 1..Len(hashes)
        /\ ids # <<>> => ids[1] - 1 = seen
    BY <2>2, <2>3, RowEnd
  <2> HIDE DEF seen
  <2>6. seen \in C
    BY <2>1 DEF seen
  <2>7. \A i \in 1..Len(ids) : ids[i] <= h
    BY <2>5
  <2>8. ids # <<>> => ids[1] - 1 \in C
    BY <2>5, <2>6
  <2> QED BY <1>1, <2>4, <2>5, <2>6, <2>7, <2>8, ListGiven
<1>12. CASE hashes # <<>> /\ old # <<>> /\ common # {}
  <2> DEFINE k == Max(common)
             ids == SubSeq(old, 1, k - 1) \o hashes
  <2>1. common \in SUBSET Nat /\ \A x \in common : x \in 1..Len(old) /\ old[x] = hashes[1] /\ x <= Len(old)
    BY <1>5
  <2> HIDE DEF common
  <2>2. k \in 1..Len(old) /\ old[k] = hashes[1]
    BY <1>5, <1>12, <2>1, MaxIsIn
  <2>3. q = WithList(r, ids, r.last_seen)
    BY <1>2, <1>12
  <2> HIDE DEF k
  <2>4. /\ ids \in Seq(Blocks) /\ InARow(ids) /\ ids # <<>> /\ ids[1] = old[1]
        /\ \A i \in 1..Len(ids) : \/ \E j \in 1..Len(old) : ids[i] = old[j]
                                  \/ \E j \in 1..Len(hashes) : ids[i] = hashes[j]
    BY <1>1, <1>3, <1>12, <2>2, RowJoin
  <2> HIDE DEF ids
  <2>5. \A i \in 1..Len(ids) : ids[i] <= h
    BY <1>3, <2>4
  <2>6. ids[1] - 1 \in C
    BY <1>3, <1>12, <2>4
  <2> QED BY <1>1, <1>3, <2>3, <2>4, <2>5, <2>6, ListGiven
<1> QED BY <1>8, <1>9, <1>11, <1>12

(* on_blockchain_item_ids_inventory_message                                *)
LEMMA IdsGood ==
  ASSUME NEW S, NEW in, NEW new, NEW C, Good(S, in, C), Grown(C), head \in 0..MaxBlock,
         NEW p \in Peers, height[p] \in 0..MaxBlock, \A q \in Peers \ {p} : new[q] = in[q],
         PeerOk(S.pr[p], S.out[p], new[p], height[p], C),
         NEW m, m.hashes \in Seq(Blocks), m.remaining \in 0..MaxBlock, InARow(m.hashes),
         \A i \in 1..Len(m.hashes) : m.hashes[i] <= height[p]
  PROVE  Good(on_blockchain_item_ids_inventory_message(S, p, m), new, C)
<1> DEFINE r == S.pr[p]
           h == height[p]
           Done == [S EXCEPT !.pr[p].item_ids_requested = NoRequest]
           q == MergeIds(Done, p, m.hashes)
           x == [q EXCEPT !.unfetched = m.remaining]
           T == [Done EXCEPT !.pr[p] = x]
           N == [Done EXCEPT !.pr[p].we_need = FALSE]
           V == on_blockchain_item_ids_inventory_message(S, p, m)
<1>1. S \in TaskState /\ BlamedOk(S.blamed) /\ r \in PeerType
  BY DEF Good, NodeOk, TaskState
<1>2. /\ ~r.item_ids_requested.on => V = S
      /\ r.item_ids_requested.on /\ ~AnswersRequest(r, m) => V = Blame(S, p, "ids")
      /\ r.item_ids_requested.on /\ AnswersRequest(r, m) /\ NothingNew(r, m) => V = N
      /\ r.item_ids_requested.on /\ AnswersRequest(r, m) /\ ~NothingNew(r, m) =>
           V \in {TriggerSync(T), fetch_next_batch_of_item_ids(T, p)}
  BY DEF on_blockchain_item_ids_inventory_message
<1>3. Done = [S EXCEPT !.pr[p] = Quiet(r)]
  BY <1>1 DEF TaskState, Quiet
<1>4. N \in Marked(Done, p, FALSE)
  BY DEF Marked
<1>5. Quiet(r) \in PeerType /\ PeerOk(Quiet(r), S.out[p], new[p], h, C) /\ SameRequests(r, Quiet(r))
  BY <1>1, QuietOk
<1> HIDE DEF Done, N, V, r
<1>6. /\ Done \in TaskState /\ OnlyPeer(S, Done, p) /\ Done.pr[p] = Quiet(r)
      /\ Done.out = S.out /\ Done.node = S.node /\ Done.blamed = S.blamed
  BY <1>1, <1>3, <1>5 DEF TaskState, OnlyPeer
<1>7. Good(Done, new, C)
  <2>1. Moves(S, Done, p, new[p], C) /\ KeepsNode(S, Done) /\ BlamedOk(Done.blamed)
    BY <1>1, <1>5, <1>6 DEF Moves, KeepsNode, r
  <2> QED BY <2>1, MovesGood
<1>8. CASE ~r.item_ids_requested.on
  <2>1. Moves(S, S, p, new[p], C) /\ KeepsNode(S, S)
    BY <1>1 DEF Moves, KeepsNode, OnlyPeer, SameRequests
  <2>2. Good(S, new, C)
    BY <1>1, <2>1, MovesGood
  <2> QED BY <1>2, <1>8, <2>2 DEF V
<1>9. CASE r.item_ids_requested.on /\ ~AnswersRequest(r, m)
  <2>1. V = Blame(S, p, "ids")
    BY <1>2, <1>9
  <2>2. Moves(S, V, p, new[p], C) /\ V.node = S.node /\ V.blamed = S.blamed \cup {<<p, "ids">>}
    BY SMTT(30), <1>1, <2>1, BlameMoves
  <2>3. BlamedOk(V.blamed) /\ KeepsNode(S, V)
    <3>1. \A z \in V.blamed : z \in S.blamed \/ z[2] = "ids"
      BY <2>2
    <3> QED BY <1>1, <2>2, <3>1 DEF BlamedOk, KeepsNode
  <2>4. Good(V, new, C)
    BY <2>2, <2>3, MovesGood
  <2> QED BY <2>4 DEF V
<1>10. CASE r.item_ids_requested.on /\ AnswersRequest(r, m) /\ NothingNew(r, m)
  <2>1. Moves(Done, N, p, new[p], C) /\ N.node = Done.node /\ N.blamed = Done.blamed
    BY <1>4, <1>5, <1>6, MarkMoves
  <2>2. KeepsNode(Done, N) /\ BlamedOk(N.blamed)
    BY <1>1, <1>6, <2>1 DEF KeepsNode
  <2>3. Good(N, new, C)
    BY <1>7, <2>1, <2>2, MovesGood
  <2> QED BY <1>2, <1>10, <2>3 DEF V
<1>11. CASE r.item_ids_requested.on /\ AnswersRequest(r, m) /\ ~NothingNew(r, m)
  <2> DEFINE r0 == Done.pr[p]
             hashes == m.hashes
  <2>1. /\ ~r0.item_ids_requested.on /\ ListOk(r0, h, C)
        /\ r0.ids_of_items_to_get = r.ids_of_items_to_get
    <3>1. ~Quiet(r).item_ids_requested.on /\ Quiet(r).ids_of_items_to_get = r.ids_of_items_to_get
      BY <1>1 DEF Quiet, PeerType, NoRequest
    <3>2. ListOk(Quiet(r), h, C)
      BY <1>5 DEF PeerOk
    <3> QED BY <1>6, <3>1, <3>2
  <2>2. hashes # <<>> =>
           \/ hashes[1] = 1 \/ hashes[1] \in C
           \/ /\ r0.ids_of_items_to_get # <<>>
              /\ hashes[1] <= r0.ids_of_items_to_get[Len(r0.ids_of_items_to_get)]
    <3>1. ListOk(r, h, C)
      BY DEF PeerOk, r
    <3> QED BY <1>11, <2>1, <3>1 DEF AnswersRequest, ListOk
  <2>3. /\ q \in PeerType /\ SameRequests(r0, q) /\ q.advertised_to_us = r0.advertised_to_us
        /\ q.ids_of_items_being_processed = r0.ids_of_items_being_processed
        /\ ~q.item_ids_requested.on /\ ListOk(q, h, C)
    BY <1>6, <2>1, <2>2, MergeOk
  <2>4. T = [Done EXCEPT !.pr[p] = x]
    OBVIOUS
  <2> HIDE DEF q, T
  <2>5. /\ x \in PeerType /\ x.open = q.open /\ x.list = q.list
        /\ x.items_requested = q.items_requested /\ x.sync_items_requested = q.sync_items_requested
        /\ x.advertised_to_us = q.advertised_to_us /\ x.last_seen = q.last_seen
        /\ x.ids_of_items_to_get = q.ids_of_items_to_get
        /\ x.ids_of_items_being_processed = q.ids_of_items_being_processed
        /\ x.item_ids_requested = q.item_ids_requested
    BY <2>3 DEF PeerType
  <2> HIDE DEF x, r0
  <2>6. SameRequests(r0, x) /\ ListOk(x, h, C)
    BY <2>3, <2>5 DEF SameRequests, ListOk
  <2>7. PeerOk(r0, S.out[p], new[p], h, C)
    BY <1>5, <1>6 DEF r0
  <2>8. PeerOk(x, S.out[p], new[p], h, C)
    <3>1. \A b \in x.ids_of_items_being_processed : b <= h
      BY <2>3, <2>5, <2>7 DEF PeerOk, Held
    <3> QED BY <2>3, <2>5, <2>6, <2>7, <3>1, PeerListed
  <2>9. /\ T \in TaskState /\ OnlyPeer(Done, T, p) /\ T.pr[p] = x
        /\ T.out = Done.out /\ T.node = Done.node /\ T.blamed = Done.blamed
    BY <1>6, <2>4, <2>5 DEF TaskState, OnlyPeer
  <2>10. Good(T, new, C)
    <3>1. Moves(Done, T, p, new[p], C) /\ KeepsNode(Done, T) /\ BlamedOk(T.blamed)
      BY <1>1, <1>6, <2>6, <2>8, <2>9 DEF Moves, KeepsNode, r0
    <3> QED BY <1>7, <3>1, MovesGood
  <2>11. Good(TriggerSync(T), new, C) /\ Good(fetch_next_batch_of_item_ids(T, p), new, C)
    BY <2>10, TriggerGood, AskGood
  <2> QED BY <1>2, <1>11, <2>11 DEF V
<1> QED BY <1>8, <1>9, <1>10, <1>11

(* The other messages of a peer.                                           *)
LEMMA OtherMessage ==
  ASSUME Good(Here, fromPeer, Reached), TypeInv, Grown(Reached),
         NEW new, NEW p \in Peers, \A q \in Peers \ {p} : new[q] = fromPeer[q],
         fromPeer[p] # <<>>, new[p] = Tail(fromPeer[p]), NEW m, m = Head(fromPeer[p]),
         m.type # "block"
  PROVE  Good(CASE m.type = "ids"       -> on_blockchain_item_ids_inventory_message(Here, p, m)
                [] m.type = "fetch_ids" -> on_fetch_blockchain_item_ids_message(Here, p, m)
                [] m.type = "inventory" -> on_item_ids_inventory_message(Here, p, m.block)
                [] m.type = "missing"   -> on_item_not_available_message(Here, p, m.block),
              new, Reached)
<1> DEFINE S == Here
<1>1. /\ fromPeer[p] \in Seq(FromMessages) /\ head \in 0..MaxBlock /\ height[p] \in 0..MaxBlock
      /\ fromPeer \in [Peers -> Seq(FromMessages)]
  BY DEF TypeInv
<1>2. m \in FromMessages /\ m = fromPeer[p][1] /\ 1 \in 1..Len(fromPeer[p])
  BY <1>1, TailFacts
<1>3. PeerOk(S.pr[p], S.out[p], fromPeer[p], height[p], Reached)
  BY DEF Good
<1>4. PeerOk(S.pr[p], S.out[p], new[p], height[p], Reached)
  BY <1>1, <1>3, PeerRead
<1> HIDE DEF S
<1>5. m.type \in {"ids", "fetch_ids", "inventory", "missing"}
  BY <1>2 DEF FromMessages
<1>6. CASE m.type = "ids"
  <2>1. m.hashes \in Seq(Blocks) /\ m.remaining \in 0..MaxBlock
    BY <1>2, <1>6 DEF FromMessages
  <2>2. InARow(m.hashes) /\ \A i \in 1..Len(m.hashes) : m.hashes[i] <= height[p]
    BY <1>2, <1>3, <1>6 DEF PeerOk, Held
  <2>3. Good(on_blockchain_item_ids_inventory_message(S, p, m), new, Reached)
    BY <1>1, <1>4, <2>1, <2>2, IdsGood DEF S
  <2> QED BY <1>6, <2>3 DEF S
<1>7. CASE m.type = "fetch_ids"
  <2>1. Good(on_fetch_blockchain_item_ids_message(S, p, m), new, Reached)
    BY <1>1, <1>4, FetchIdsGood DEF S
  <2> QED BY <1>7, <2>1 DEF S
<1>8. CASE m.type = "inventory"
  <2>1. m.block \in Blocks
    BY <1>2, <1>8 DEF FromMessages
  <2>2. m.block <= height[p]
    BY <1>2, <1>3, <1>8 DEF PeerOk, Held
  <2>3. Good(on_item_ids_inventory_message(S, p, m.block), new, Reached)
    BY <1>4, <2>1, <2>2, InventoryGood DEF S
  <2> QED BY <1>8, <2>3 DEF S
<1>9. CASE m.type = "missing"
  <2>1. m.block \in Blocks
    BY <1>2, <1>9 DEF FromMessages
  <2>2. Good(on_item_not_available_message(S, p, m.block), new, Reached)
    BY <1>1, <1>2, <1>9, <2>1, NotAvailableGood DEF S
  <2> QED BY <1>9, <2>2 DEF S
<1> QED BY <1>5, <1>6, <1>7, <1>8, <1>9

-----------------------------------------------------------------------------
(* The loops that request items                                            *)

(* Peer p is asked for the items X.                                        *)
LEMMA RequestsGrow ==
  ASSUME NEW S, NEW T, NEW p \in Peers, RequestsOk(S), OnlyPeer(S, T, p),
         NEW X, X \cap S.node.active_sync_requests = {},
         T.pr[p].sync_items_requested = S.pr[p].sync_items_requested \cup X,
         T.node.active_sync_requests = S.node.active_sync_requests \cup X
  PROVE  RequestsOk(T)
<1>1. \A q \in Peers \ {p} : T.pr[q].sync_items_requested = S.pr[q].sync_items_requested
  BY DEF OnlyPeer
<1>2. \A q \in Peers : S.pr[q].sync_items_requested \subseteq S.node.active_sync_requests
  BY DEF RequestsOk
<1>3. \A q \in Peers : T.pr[q].sync_items_requested \subseteq T.node.active_sync_requests
  BY <1>1, <1>2
<1>4. ASSUME NEW q \in Peers, NEW s \in Peers, q # s
      PROVE  T.pr[q].sync_items_requested \cap T.pr[s].sync_items_requested = {}
  <2>1. S.pr[q].sync_items_requested \cap S.pr[s].sync_items_requested = {}
    BY <1>4 DEF RequestsOk
  <2>2. X \cap S.pr[q].sync_items_requested = {} /\ X \cap S.pr[s].sync_items_requested = {}
    BY <1>2
  <2>3. CASE q = p
    <3>1. T.pr[s].sync_items_requested = S.pr[s].sync_items_requested
      BY <1>1, <1>4, <2>3
    <3> QED BY <2>1, <2>2, <2>3, <3>1
  <2>4. CASE s = p
    <3>1. T.pr[q].sync_items_requested = S.pr[q].sync_items_requested
      BY <1>1, <1>4, <2>4
    <3> QED BY <2>1, <2>2, <2>4, <3>1
  <2>5. CASE q # p /\ s # p
    BY <1>1, <2>1, <2>5
  <2> QED BY <2>3, <2>4, <2>5
<1>5. ASSUME "block_id" \notin LostBy, NEW b \in T.node.active_sync_requests
      PROVE  \E q \in Peers : b \in T.pr[q].sync_items_requested
  <2>1. CASE b \in X
    BY <2>1
  <2>2. CASE b \in S.node.active_sync_requests
    <3>1. PICK q \in Peers : b \in S.pr[q].sync_items_requested
      BY <1>5, <2>2 DEF RequestsOk
    <3> QED BY <1>1, <3>1
  <2> QED BY <2>1, <2>2
<1> QED BY <1>3, <1>4, <1>5 DEF RequestsOk

(* request_sync_items_from_peer                                            *)
LEMMA RequestSyncGood ==
  ASSUME NEW S, NEW in, NEW C, Good(S, in, C), NEW p \in Peers, S.pr[p].list # "none",
         NEW T, T = request_sync_items_from_peer(S, p)
  PROVE  Good(T, in, C) /\ \A q \in Peers : T.pr[q].list = S.pr[q].list
<1> DEFINE items == SyncItemsFor(S, p)
           r == S.pr[p]
           ids == r.ids_of_items_to_get
           wanted == {b \in Blocks \ S.node.active_sync_requests :
                        ~have_already_received_sync_item(S, b)}
           X == ToSet(items)
           q == [r EXCEPT !.sync_items_requested = @ \cup X]
           n == [S.node EXCEPT !.active_sync_requests = @ \cup X]
           U == [S EXCEPT !.node.active_sync_requests = @ \cup X,
                          !.pr[p].sync_items_requested = @ \cup X]
           m == [type |-> "fetch_items", by |-> "block_id", items |-> items]
<1>1. /\ S \in TaskState /\ r \in PeerType /\ S.node \in NodeType /\ ids \in Seq(Blocks)
      /\ PeerOk(r, S.out[p], in[p], height[p], C) /\ S.out[p] \in Seq(ToMessages)
  BY DEF Good, TaskState, PeerType
<1>2. CASE items = <<>>
  BY <1>2 DEF request_sync_items_from_peer
<1>3. CASE items # <<>>
  <2>1. T = Send(U, p, m)
    BY <1>3 DEF request_sync_items_from_peer
  <2>2. Idle(r) /\ items = FirstWanted(ids, wanted, MaxPerPeer)
    BY <1>3 DEF SyncItemsFor
  <2>3. MaxPerPeer \in Nat
    BY BoundAssumption
  <2> HIDE DEF items, wanted
  <2>4. items \in Seq(Blocks) /\ TakenOf(ids, wanted, Len(ids), items)
    BY <1>1, <2>2, <2>3, FirstWantedFacts
  <2>5. \A j, k \in 1..Len(ids) : ids[j] = ids[k] => j = k
    <3>1. InARow(ids)
      BY <1>1 DEF PeerOk, ListOk
    <3>2. \A i \in 1..Len(ids) : ids[i] \in Int /\ ids[i] = ids[1] + i - 1
      BY <1>1, <3>1, RowFacts
    <3> SUFFICES ASSUME NEW j \in 1..Len(ids), NEW k \in 1..Len(ids), ids[j] = ids[k] PROVE j = k
      OBVIOUS
    <3>3. 1 \in 1..Len(ids)
      BY <1>1
    <3>4. ids[1] \in Int
      BY <3>2, <3>3
    <3>5. ids[1] + j - 1 = ids[1] + k - 1
      BY <3>2
    <3> HIDE DEF ids
    <3> QED BY <3>4, <3>5
  <2>6. \A j, k \in 1..Len(items) : items[j] = items[k] => j = k
    BY <2>4, <2>5 DEF TakenOf
  <2>7. /\ X \subseteq Blocks /\ \A k \in 1..Len(items) : items[k] \in X
        /\ X \cap S.node.active_sync_requests = {}
    <3>1. DOMAIN items = 1..Len(items)
      BY <2>4
    <3>2. \A k \in 1..Len(items) : items[k] \in Blocks /\ items[k] \notin S.node.active_sync_requests
      BY <2>4 DEF TakenOf, wanted
    <3> QED BY <3>1, <3>2 DEF ToSet
  <2>8. U = [S EXCEPT !.node = n, !.pr[p] = q]
    BY <1>1 DEF TaskState
  <2> HIDE DEF X, U, r
  <2>9. /\ q \in PeerType /\ q.open = r.open /\ q.list = r.list
        /\ q.items_requested = r.items_requested
        /\ q.sync_items_requested = r.sync_items_requested \cup X
        /\ q.ids_of_items_to_get = r.ids_of_items_to_get
        /\ q.item_ids_requested = r.item_ids_requested /\ q.last_seen = r.last_seen
        /\ q.advertised_to_us = r.advertised_to_us
        /\ q.ids_of_items_being_processed = r.ids_of_items_being_processed
    BY <1>1, <2>7 DEF PeerType
  <2>10. /\ n \in NodeType /\ n.active_sync_requests = S.node.active_sync_requests \cup X
         /\ n.recent = S.node.recent /\ n.suspend = S.node.suspend /\ n.backlog = S.node.backlog
    BY <1>1, <2>7 DEF NodeType
  <2> HIDE DEF q, n
  <2>11. /\ U \in TaskState /\ OnlyPeer(S, U, p) /\ U.pr[p] = q
         /\ U.out = S.out /\ U.node = n /\ U.blamed = S.blamed
    BY <1>1, <2>8, <2>9, <2>10 DEF TaskState, OnlyPeer
  <2>12. m \in ToMessages
    BY <2>4 DEF ToMessages
  <2>13. /\ T \in TaskState /\ OnlyPeer(U, T, p) /\ T.pr = U.pr
         /\ T.out[p] = IF U.pr[p].open THEN Append(U.out[p], m) ELSE U.out[p]
         /\ T.node = U.node /\ T.blamed = U.blamed
    BY <2>1, <2>11, <2>12, SendDoes
  <2>14. T.out[p] = (IF r.open THEN Append(S.out[p], m) ELSE S.out[p]) /\ T.pr[p] = q
    BY <2>9, <2>11, <2>13
  <2>15. SameList(r, q)
    BY <2>9 DEF SameList
  <2>16. PeerOk(q, IF r.open THEN Append(S.out[p], m) ELSE S.out[p], in[p], height[p], C)
    <3>1. q.items_requested = {}
      BY <2>2, <2>9 DEF Idle
    <3>2. \A k \in 1..Len(items) : items[k] \in RequestedBy(q, "block_id")
      BY <2>7, <2>9 DEF RequestedBy
    <3>3. r.list # "none"
      BY DEF r
    <3> QED BY <1>1, <2>2, <2>4, <2>6, <2>9, <2>15, <3>1, <3>2, <3>3, PeerAskedForItems
  <2> HIDE DEF m
  <2>17. OnlyPeer(S, T, p) /\ T.node = n /\ T.blamed = S.blamed
    BY <2>11, <2>13 DEF OnlyPeer
  <2>18. RequestsOk(T)
    <3>1. RequestsOk(S)
      BY DEF Good
    <3> QED BY <2>7, <2>9, <2>10, <2>14, <2>17, <3>1, RequestsGrow DEF r
  <2>19. NodeOk(T)
    BY <2>10, <2>17 DEF Good, NodeOk
  <2>20. PeerOk(T.pr[p], T.out[p], in[p], height[p], C)
    BY <2>14, <2>16
  <2>21. \A x \in Peers : PeerOk(T.pr[x], T.out[x], in[x], height[x], C)
    BY <2>17, <2>20 DEF Good, OnlyPeer
  <2>22. Good(T, in, C)
    BY <2>13, <2>18, <2>19, <2>21 DEF Good
  <2>23. \A x \in Peers : T.pr[x].list = S.pr[x].list
    BY <2>9, <2>14, <2>17 DEF OnlyPeer, r
  <2> QED BY <2>22, <2>23
<1> QED BY <1>2, <1>3

(* The peers of fetch_sync_items_loop one after the other.                 *)
IsAsking(g, S, order) ==
  g = [i \in 0..Len(order) |->
         IF i = 0 THEN S ELSE request_sync_items_from_peer(g[i - 1], order[i])]

(* fetch_sync_items_loop                                                   *)
LEMMA SyncLoopGood ==
  ASSUME Good(Here, fromPeer, Reached), fetch_sync_items_loop
  PROVE  \E S : Install(S) /\ Good(S, fromPeer, Reached)
<1> DEFINE S == [Here EXCEPT !.node.sync_updated = FALSE]
           n == [node EXCEPT !.sync_updated = FALSE]
<1>1. PICK order \in SetToSeqs(Active(Here)) :
        Install(IF node.suspend THEN S ELSE (CHOOSE g : IsAsking(g, S, order))[Len(order)])
  BY DEF fetch_sync_items_loop, IsAsking
<1>2. Here \in TaskState /\ node \in NodeType /\ Here.node = node /\ Here.pr = pr
  BY DEF Good, TaskState, Here
<1>3. Good(S, fromPeer, Reached) /\ S.pr = pr
  <2>1. S = [Here EXCEPT !.node = n]
    BY <1>2
  <2>2. /\ n \in NodeType /\ n.active_sync_requests = node.active_sync_requests
        /\ n.recent = node.recent /\ n.suspend = node.suspend /\ n.backlog = node.backlog
    BY <1>2 DEF NodeType
  <2> HIDE DEF n, S
  <2>3. /\ S \in TaskState /\ S.node = n /\ S.pr = Here.pr /\ S.out = Here.out
        /\ S.blamed = Here.blamed
    BY <1>2, <2>1, <2>2 DEF TaskState
  <2>4. KeepsNode(Here, S) /\ BlamedOk(S.blamed)
    BY <1>2, <2>2, <2>3 DEF KeepsNode, Good, NodeOk
  <2>5. \A p \in Peers : PeerOk(S.pr[p], S.out[p], fromPeer[p], height[p], Reached)
    BY <2>3 DEF Good
  <2>6. Good(S, fromPeer, Reached)
    BY <2>3, <2>4, <2>5, StillGood
  <2> QED BY <1>2, <2>3, <2>6
<1> HIDE DEF S
<1> DEFINE N == Len(order)
           V == {T \in TaskState : /\ Good(T, fromPeer, Reached)
                                   /\ \A q \in Peers : T.pr[q].list = pr[q].list}
           H == [x \in (1..N) \X V |-> request_sync_items_from_peer(x[2], order[x[1]])]
           G == CHOOSE g : IsAsking(g, S, order)
<1>4. N \in Nat /\ \A i \in 1..N : order[i] \in Peers /\ pr[order[i]].list # "none"
  <2>1. Active(Here) \subseteq Peers /\ \A p \in Active(Here) : pr[p].list # "none"
    BY <1>2 DEF Active
  <2>2. IsFiniteSet(Active(Here))
    BY <2>1, PeerAssumption, FS_Subset
  <2>3. Cardinality(Active(Here)) \in Nat
    BY <2>2, FS_CardinalityType
  <2>4. order \in [1..Cardinality(Active(Here)) -> Active(Here)]
    BY DEF SetToSeqs
  <2>5. N = Cardinality(Active(Here))
    <3>1. order \in Seq(Active(Here))
      BY <2>3, <2>4
    <3> QED BY <2>3, <2>4, <3>1
  <2> QED BY <2>1, <2>3, <2>4, <2>5
<1> HIDE DEF N
<1>5. S \in V
  BY <1>3 DEF Good
<1>6. ASSUME NEW i \in 1..N, NEW T \in V PROVE request_sync_items_from_peer(T, order[i]) \in V
  <2>1. order[i] \in Peers /\ T.pr[order[i]].list # "none"
    BY <1>4
  <2>2. LET U == request_sync_items_from_peer(T, order[i])
        IN Good(U, fromPeer, Reached) /\ \A q \in Peers : U.pr[q].list = T.pr[q].list
    BY <2>1, RequestSyncGood
  <2> QED BY <2>2 DEF Good
<1> HIDE DEF V
<1>7. H \in [(1..N) \X V -> V]
  BY <1>6
<1>8. PICK f : LoopOf(f, N, V, S, H)
  <2> HIDE DEF H
  <2> QED BY <1>4, <1>5, <1>7, LoopExists
<1>9. f \in [0..N -> V] /\ f[0] = S /\ \A i \in 1..N : f[i] = H[<<i, f[i - 1]>>]
  BY <1>8 DEF LoopOf
<1>10. \A i \in 1..N : i - 1 \in 0..N
  BY <1>4
<1>11. \A i \in 1..N : f[i] = request_sync_items_from_peer(f[i - 1], order[i])
  BY <1>9, <1>10
<1>12. \A i \in 0..N : i = 0 \/ i \in 1..N
  BY <1>4
<1>13. IsAsking(f, S, order)
  <2>1. f = [i \in 0..N |-> IF i = 0 THEN S ELSE request_sync_items_from_peer(f[i - 1], order[i])]
    <3> HIDE DEF H
    <3> QED BY <1>9, <1>11, <1>12
  <2> QED BY <2>1 DEF IsAsking, N
<1>14. IsAsking(G, S, order)
  BY <1>13
<1> HIDE DEF G
<1>15. ASSUME NEW g, IsAsking(g, S, order) PROVE \A i \in 0..N : g[i] \in V
  <2>1. g = [i \in 0..N |-> IF i = 0 THEN S ELSE request_sync_items_from_peer(g[i - 1], order[i])]
    BY <1>15 DEF IsAsking, N
  <2> DEFINE Sel == {i \in 0..N : g[i] \in V}
  <2>2. 0 \in Sel
    BY <1>4, <1>5, <2>1
  <2>3. ASSUME NEW i \in 1..N, i - 1 \in Sel PROVE i \in Sel
    <3>1. i \in 0..N /\ i # 0
      BY <1>4
    <3>2. g[i] = request_sync_items_from_peer(g[i - 1], order[i])
      BY <2>1, <3>1
    <3> QED BY <1>6, <2>3, <3>1, <3>2
  <2>4. \A i \in 0..N : i \in Sel
    <3> HIDE DEF Sel
    <3> QED BY <1>4, <2>2, <2>3, UpTo
  <2> QED BY <2>4
<1>16. G[N] \in V
  BY <1>4, <1>14, <1>15
<1>17. Good(G[N], fromPeer, Reached)
  BY <1>16 DEF V
<1> QED BY <1>1, <1>3, <1>17 DEF G, N

(* ForEach with the step of each peer as a function.                       *)
EachOf(S, peers, A) ==
  [S EXCEPT !.pr  = [p \in Peers |-> IF p \in peers THEN A[p].pr[p] ELSE @[p]],
            !.out = [p \in Peers |-> IF p \in peers THEN A[p].out[p] ELSE @[p]],
            !.blamed = @ \cup UNION {A[p].blamed : p \in peers}]

(* A step for each of some peers.                                          *)
LEMMA EachGood ==
  ASSUME NEW S, NEW in, NEW C, Good(S, in, C), NEW peers \in SUBSET Peers, NEW A,
         \A p \in peers : /\ A[p] \in TaskState /\ BlamedOk(A[p].blamed)
                          /\ PeerOk(A[p].pr[p], A[p].out[p], in[p], height[p], C)
                          /\ A[p].pr[p].sync_items_requested = S.pr[p].sync_items_requested,
         NEW T, T = EachOf(S, peers, A)
  PROVE  /\ Good(T, in, C) /\ T.node = S.node
         /\ \A p \in Peers : T.pr[p] = IF p \in peers THEN A[p].pr[p] ELSE S.pr[p]
<1> DEFINE f == [p \in Peers |-> IF p \in peers THEN A[p].pr[p] ELSE S.pr[p]]
           g == [p \in Peers |-> IF p \in peers THEN A[p].out[p] ELSE S.out[p]]
           w == S.blamed \cup UNION {A[p].blamed : p \in peers}
<1>1. S \in TaskState /\ BlamedOk(S.blamed)
  BY DEF Good, NodeOk
<1>2. T = [S EXCEPT !.pr = f, !.out = g, !.blamed = w]
  BY DEF EachOf
<1>3. f \in [Peers -> PeerType] /\ g \in [Peers -> Seq(ToMessages)]
  <2>1. \A p \in Peers : f[p] \in PeerType /\ g[p] \in Seq(ToMessages)
    <3> SUFFICES ASSUME NEW p \in Peers PROVE f[p] \in PeerType /\ g[p] \in Seq(ToMessages)
      OBVIOUS
    <3>1. CASE p \in peers
      <4>1. A[p] \in TaskState
        BY <3>1
      <4>2. A[p].pr[p] \in PeerType /\ A[p].out[p] \in Seq(ToMessages)
        BY <4>1 DEF TaskState
      <4> QED BY <3>1, <4>2
    <3>2. CASE p \notin peers
      BY <1>1, <3>2 DEF TaskState
    <3> QED BY <3>1, <3>2
  <2> QED BY <2>1
<1>4. w \in Blamings /\ BlamedOk(w)
  <2>1. S.blamed \in Blamings /\ \A p \in peers : A[p].blamed \in Blamings
    BY <1>1 DEF TaskState
  <2>2. w \in Blamings
    BY <2>1 DEF Blamings
  <2>3. BlamedOk(w)
    BY <1>1 DEF BlamedOk
  <2> QED BY <2>2, <2>3
<1> HIDE DEF w
<1>5. T \in TaskState /\ T.node = S.node /\ T.pr = f /\ T.out = g /\ T.blamed = w
  BY <1>1, <1>2, <1>3, <1>4 DEF TaskState
<1>6. \A p \in Peers : /\ T.pr[p] = IF p \in peers THEN A[p].pr[p] ELSE S.pr[p]
                       /\ T.out[p] = IF p \in peers THEN A[p].out[p] ELSE S.out[p]
  BY <1>5
<1> HIDE DEF f, g
<1>7. ASSUME NEW p \in Peers
      PROVE  /\ PeerOk(T.pr[p], T.out[p], in[p], height[p], C)
             /\ T.pr[p].sync_items_requested = S.pr[p].sync_items_requested
  <2>1. CASE p \in peers
    BY <1>6, <2>1
  <2>2. CASE p \notin peers
    BY <1>6, <2>2 DEF Good
  <2> QED BY <2>1, <2>2
<1>8. KeepsNode(S, T)
  BY <1>5 DEF KeepsNode
<1>9. Good(T, in, C)
  BY <1>4, <1>5, <1>7, <1>8, StillGood
<1> QED BY <1>5, <1>6, <1>9

(* The node's members that no property is about.                           *)
LEMMA NodeNotes ==
  ASSUME NEW S, NEW in, NEW C, Good(S, in, C), NEW n \in NodeType,
         n.active_sync_requests = S.node.active_sync_requests, n.recent = S.node.recent,
         n.suspend = S.node.suspend, n.backlog = S.node.backlog, NEW T, T = [S EXCEPT !.node = n]
  PROVE  Good(T, in, C) /\ T.pr = S.pr /\ T.out = S.out /\ T.blamed = S.blamed /\ T.node = n
<1>1. S \in TaskState /\ BlamedOk(S.blamed)
  BY DEF Good, NodeOk
<1>2. T \in TaskState /\ T.node = n /\ T.pr = S.pr /\ T.out = S.out /\ T.blamed = S.blamed
  BY <1>1 DEF TaskState
<1>3. KeepsNode(S, T) /\ BlamedOk(T.blamed)
  BY <1>1, <1>2 DEF KeepsNode
<1>4. \A p \in Peers : PeerOk(T.pr[p], T.out[p], in[p], height[p], C)
  BY <1>2 DEF Good
<1>5. Good(T, in, C)
  BY <1>2, <1>3, <1>4, StillGood
<1> QED BY <1>2, <1>5

(* What fetch_items_loop asks peer p for.                                  *)
AskFor(S, p, items) ==
  IF items = {} THEN S
  ELSE Send([S EXCEPT !.pr[p].items_requested = @ \cup items], p,
            [type |-> "fetch_items", by |-> "message_hash",
             items |-> FirstWanted([b \in Blocks |-> b], items, MaxBlock)])

(* An idle peer is asked for items it advertised.                          *)
LEMMA AskForOk ==
  ASSUME NEW S, NEW in, NEW C, Good(S, in, C), NEW p \in Peers, S.pr[p].list # "none",
         NEW items \in SUBSET Blocks, items # {} => Idle(S.pr[p]),
         items \subseteq S.pr[p].advertised_to_us, NEW T, T = AskFor(S, p, items)
  PROVE  /\ T \in TaskState /\ T.blamed = S.blamed
         /\ PeerOk(T.pr[p], T.out[p], in[p], height[p], C)
         /\ T.pr[p].sync_items_requested = S.pr[p].sync_items_requested
<1> DEFINE r == S.pr[p]
           q == [r EXCEPT !.items_requested = @ \cup items]
           ids == [b \in Blocks |-> b]
           list == FirstWanted(ids, items, MaxBlock)
           U == [S EXCEPT !.pr[p].items_requested = @ \cup items]
           m == [type |-> "fetch_items", by |-> "message_hash", items |-> list]
<1>1. /\ S \in TaskState /\ r \in PeerType
      /\ PeerOk(r, S.out[p], in[p], height[p], C) /\ S.out[p] \in Seq(ToMessages)
  BY DEF Good, TaskState
<1>2. CASE items = {}
  BY <1>1, <1>2 DEF AskFor
<1>3. CASE items # {}
  <2>1. T = Send(U, p, m) /\ Idle(r)
    BY <1>3 DEF AskFor
  <2>2. MaxBlock \in Nat
    BY BoundAssumption
  <2>3. ids \in Seq(Blocks) /\ Len(ids) = MaxBlock
    BY <2>2 DEF Blocks
  <2>4. \A j, k \in 1..Len(ids) : ids[j] = ids[k] => j = k
    BY <2>2, <2>3 DEF Blocks
  <2> HIDE DEF ids
  <2>5. list \in Seq(Blocks) /\ TakenOf(ids, items, Len(ids), list)
    BY <2>2, <2>3, FirstWantedFacts
  <2> HIDE DEF list
  <2>6. /\ \A k \in 1..Len(list) : list[k] \in items
        /\ \A j, k \in 1..Len(list) : list[j] = list[k] => j = k
    BY <2>4, <2>5 DEF TakenOf
  <2>7. U = [S EXCEPT !.pr[p] = q]
    BY <1>1 DEF TaskState
  <2> HIDE DEF U, r
  <2>8. /\ q \in PeerType /\ q.open = r.open /\ q.list = r.list
        /\ q.items_requested = r.items_requested \cup items
        /\ q.sync_items_requested = r.sync_items_requested
        /\ q.ids_of_items_to_get = r.ids_of_items_to_get
        /\ q.item_ids_requested = r.item_ids_requested /\ q.last_seen = r.last_seen
        /\ q.advertised_to_us = r.advertised_to_us
        /\ q.ids_of_items_being_processed = r.ids_of_items_being_processed
    BY <1>1 DEF PeerType
  <2> HIDE DEF q
  <2>9. /\ U \in TaskState /\ U.pr[p] = q /\ U.out = S.out /\ U.blamed = S.blamed
    BY <1>1, <2>7, <2>8 DEF TaskState
  <2>10. m \in ToMessages
    BY <2>5 DEF ToMessages
  <2>11. /\ T \in TaskState /\ T.pr = U.pr /\ T.blamed = U.blamed
         /\ T.out[p] = IF U.pr[p].open THEN Append(U.out[p], m) ELSE U.out[p]
    BY <2>1, <2>9, <2>10, SendDoes
  <2>12. T.out[p] = (IF r.open THEN Append(S.out[p], m) ELSE S.out[p]) /\ T.pr[p] = q
    BY <2>8, <2>9, <2>11
  <2>13. PeerOk(q, IF r.open THEN Append(S.out[p], m) ELSE S.out[p], in[p], height[p], C)
    <3>1. SameList(r, q)
      BY <2>8 DEF SameList
    <3>2. q.sync_items_requested = {} /\ r.list # "none"
      BY <2>1, <2>8 DEF Idle, r
    <3>3. \A k \in 1..Len(list) : list[k] \in RequestedBy(q, "message_hash")
      BY <2>6, <2>8 DEF RequestedBy
    <3>4. \A b \in q.items_requested : b <= height[p]
      BY <1>1, <2>8 DEF PeerOk, Held, r
    <3> QED BY <1>1, <2>1, <2>5, <2>6, <2>8, <3>1, <3>2, <3>3, <3>4, PeerAskedForItems
  <2> HIDE DEF m
  <2>14. PeerOk(T.pr[p], T.out[p], in[p], height[p], C)
    BY <2>12, <2>13
  <2> QED BY <2>8, <2>9, <2>11, <2>12, <2>14 DEF r
<1> QED BY <1>2, <1>3

(* fetch_items_loop                                                        *)
LEMMA ItemsLoopGood ==
  ASSUME Good(Here, fromPeer, Reached), fetch_items_loop
  PROVE  \E S : Install(S) /\ Good(S, fromPeer, Reached)
<1> DEFINE some == {b \in node.items_to_fetch : Suppliers(b) # {}}
           n == [node EXCEPT !.items_updated = FALSE, !.items_to_fetch = @ \ some]
           S == [Here EXCEPT !.node.items_updated = FALSE, !.node.items_to_fetch = @ \ some]
           Ask(from, p) == AskFor(S, p, {b \in some : from[b] = p})
           Each(from) ==
             [S EXCEPT !.pr = [p \in Peers |-> IF p \in Peers THEN Ask(from, p).pr[p] ELSE @[p]],
                       !.out = [p \in Peers |-> IF p \in Peers THEN Ask(from, p).out[p] ELSE @[p]],
                       !.blamed = @ \cup UNION {Ask(from, p).blamed : p \in Peers}]
<1>1. PICK from \in [some -> Peers] :
        (\A b \in some : from[b] \in Suppliers(b)) /\ Install(Each(from))
  BY DEF fetch_items_loop, ForEach, AskFor
<1>2. Here \in TaskState /\ node \in NodeType /\ Here.node = node /\ Here.pr = pr
  BY DEF Good, TaskState, Here
<1>3. some \subseteq Blocks
  BY <1>2 DEF NodeType
<1>4. Good(S, fromPeer, Reached) /\ S.pr = pr /\ S.blamed = Here.blamed
  <2>1. S = [Here EXCEPT !.node = n]
    BY <1>2
  <2>2. /\ n \in NodeType /\ n.active_sync_requests = node.active_sync_requests
        /\ n.recent = node.recent /\ n.suspend = node.suspend /\ n.backlog = node.backlog
    <3> HIDE DEF some
    <3> QED BY <1>2 DEF NodeType
  <2> HIDE DEF n, S
  <2> QED BY <1>2, <2>1, <2>2, NodeNotes
<1> HIDE DEF S
<1> DEFINE A == [p \in Peers |-> Ask(from, p)]
           T == EachOf(S, Peers, A)
<1>5. ASSUME NEW p \in Peers
      PROVE  /\ A[p] \in TaskState /\ BlamedOk(A[p].blamed)
             /\ PeerOk(A[p].pr[p], A[p].out[p], fromPeer[p], height[p], Reached)
             /\ A[p].pr[p].sync_items_requested = S.pr[p].sync_items_requested
  <2> DEFINE items == {b \in some : from[b] = p}
  <2>1. \A b \in items : pr[p].list = "active" /\ Idle(pr[p]) /\ b \in pr[p].advertised_to_us
    BY <1>1, <1>2 DEF Suppliers, Active
  <2>2. items \in SUBSET Blocks
    BY <1>3
  <2>3. A[p] = AskFor(S, p, items)
    OBVIOUS
  <2> HIDE DEF items, A
  <2>4. BlamedOk(S.blamed) /\ S \in TaskState /\ PeerOk(S.pr[p], S.out[p], fromPeer[p], height[p], Reached)
    BY <1>4 DEF Good, NodeOk
  <2>5. CASE items = {}
    <3>1. A[p] = S
      BY <2>3, <2>5 DEF AskFor
    <3> QED BY <2>4, <3>1
  <2>6. CASE items # {}
    <3>1. S.pr[p].list # "none" /\ Idle(S.pr[p]) /\ items \subseteq S.pr[p].advertised_to_us
      BY <1>4, <2>1, <2>6
    <3>2. /\ A[p] \in TaskState /\ A[p].blamed = S.blamed
          /\ PeerOk(A[p].pr[p], A[p].out[p], fromPeer[p], height[p], Reached)
          /\ A[p].pr[p].sync_items_requested = S.pr[p].sync_items_requested
      BY <1>4, <2>2, <2>3, <3>1, AskForOk
    <3> QED BY <2>4, <3>2
  <2> QED BY <2>5, <2>6
<1>6. Each(from) = T
  <2>1. \A p \in Peers : A[p] = Ask(from, p)
    OBVIOUS
  <2> HIDE DEF A, Ask
  <2> QED BY <2>1 DEF EachOf
<1> HIDE DEF A
<1>7. Good(T, fromPeer, Reached)
  BY ZenonT(60), <1>4, <1>5, EachGood
<1> QED BY <1>1, <1>6, <1>7

(* advertise_inventory_loop                                                *)
LEMMA AdvertiseGood ==
  ASSUME Good(Here, fromPeer, Reached), advertise_inventory_loop
  PROVE  \E S : Install(S) /\ Good(S, fromPeer, Reached)
<1> DEFINE n == [node EXCEPT !.new_inventory = {}]
           S == [Here EXCEPT !.node.new_inventory = {}]
           peers == {p \in Active(Here) : ~pr[p].peer_needs}
           A == [p \in peers |-> [S EXCEPT !.pr[p].advertised_to_peer =
                                             @ \cup (node.new_inventory \ S.pr[p].advertised_to_us)]]
           T == EachOf(S, peers, A)
           Tell(p) == [S EXCEPT !.pr[p].advertised_to_peer =
                                  @ \cup (node.new_inventory \ S.pr[p].advertised_to_us)]
           Each == [S EXCEPT !.pr = [p \in Peers |-> IF p \in peers THEN Tell(p).pr[p] ELSE @[p]],
                             !.out = [p \in Peers |-> IF p \in peers THEN Tell(p).out[p] ELSE @[p]],
                             !.blamed = @ \cup UNION {Tell(p).blamed : p \in peers}]
<1>1. Install(Each)
  BY DEF advertise_inventory_loop, ForEach
<1>7. Each = T
  <2>1. \A p \in peers : A[p] = Tell(p)
    OBVIOUS
  <2> HIDE DEF A, Tell, S, peers
  <2> QED BY <2>1 DEF EachOf
<1> HIDE DEF Each
<1>2. Here \in TaskState /\ node \in NodeType /\ Here.node = node /\ Here.pr = pr
  BY DEF Good, TaskState, Here
<1>3. Good(S, fromPeer, Reached)
  <2>1. S = [Here EXCEPT !.node = n]
    BY <1>2
  <2>2. /\ n \in NodeType /\ n.active_sync_requests = node.active_sync_requests
        /\ n.recent = node.recent /\ n.suspend = node.suspend /\ n.backlog = node.backlog
    BY <1>2 DEF NodeType
  <2> HIDE DEF n, S
  <2> QED BY <1>2, <2>1, <2>2, NodeNotes
<1> HIDE DEF S
<1>4. peers \in SUBSET Peers
  BY DEF Active
<1> HIDE DEF peers
<1>5. ASSUME NEW p \in peers
      PROVE  /\ A[p] \in TaskState /\ BlamedOk(A[p].blamed)
             /\ PeerOk(A[p].pr[p], A[p].out[p], fromPeer[p], height[p], Reached)
             /\ A[p].pr[p].sync_items_requested = S.pr[p].sync_items_requested
  <2> DEFINE r == S.pr[p]
             q == [r EXCEPT !.advertised_to_peer = @ \cup (node.new_inventory \ r.advertised_to_us)]
  <2>1. /\ p \in Peers /\ S \in TaskState /\ r \in PeerType /\ BlamedOk(S.blamed)
        /\ PeerOk(r, S.out[p], fromPeer[p], height[p], Reached)
    BY <1>3, <1>4 DEF Good, NodeOk, TaskState
  <2>2. A[p] = [S EXCEPT !.pr[p] = q]
    BY <2>1 DEF TaskState
  <2> HIDE DEF A, r
  <2>3. /\ q \in PeerType /\ q.open = r.open /\ q.list = r.list
        /\ q.items_requested = r.items_requested
        /\ q.sync_items_requested = r.sync_items_requested
        /\ q.ids_of_items_to_get = r.ids_of_items_to_get
        /\ q.item_ids_requested = r.item_ids_requested /\ q.last_seen = r.last_seen
        /\ q.advertised_to_us = r.advertised_to_us
        /\ q.ids_of_items_being_processed = r.ids_of_items_being_processed
    <3>1. node.new_inventory \subseteq Blocks
      BY <1>2 DEF NodeType
    <3> QED BY <2>1, <3>1 DEF PeerType
  <2> HIDE DEF q
  <2>4. A[p] \in TaskState /\ A[p].pr[p] = q /\ A[p].out = S.out /\ A[p].blamed = S.blamed
    <3> DEFINE a == A[p]
    <3>1. a = [S EXCEPT !.pr[p] = q]
      BY <2>2
    <3> HIDE DEF a
    <3>2. a \in TaskState /\ a.pr[p] = q /\ a.out = S.out /\ a.blamed = S.blamed
      BY <2>1, <2>3, <3>1 DEF TaskState
    <3> QED BY <3>2 DEF a
  <2>5. SameRequests(r, q) /\ SameList(r, q)
    BY <2>3 DEF SameRequests, SameList
  <2>6. /\ q.last_seen \in Reached
        /\ \A x \in q.ids_of_items_being_processed \cup q.advertised_to_us : x <= height[p]
    BY <2>1, <2>3 DEF PeerOk, ListOk, Held
  <2>7. PeerOk(q, S.out[p], fromPeer[p], height[p], Reached)
    BY <2>1, <2>5, <2>6, PeerNotes
  <2> QED BY <2>1, <2>3, <2>4, <2>7 DEF r
<1> HIDE DEF A
<1>6. Good(T, fromPeer, Reached)
  BY <1>3, <1>4, <1>5, EachGood
<1> QED BY <1>1, <1>6, <1>7

(* Peers that had a block of a refused chain are blamed.                   *)
LEMMA BlameGood ==
  ASSUME NEW S, NEW in, NEW C, Good(S, in, C), NEW peers \in SUBSET Peers,
         \A p \in peers : \E r \in Refused : r <= height[p]
  PROVE  Good(ForEach(S, peers, BlameRefused), in, C)
<1> DEFINE A == [p \in peers |-> BlameRefused(S, p)]
           T == EachOf(S, peers, A)
<1>1. ForEach(S, peers, BlameRefused) = T
  <2>1. \A p \in peers : A[p] = BlameRefused(S, p)
    OBVIOUS
  <2> HIDE DEF A
  <2> QED BY <2>1 DEF ForEach, EachOf
<1>2. ASSUME NEW p \in peers
      PROVE  /\ A[p] \in TaskState /\ BlamedOk(A[p].blamed)
             /\ PeerOk(A[p].pr[p], A[p].out[p], in[p], height[p], C)
             /\ A[p].pr[p].sync_items_requested = S.pr[p].sync_items_requested
  <2>1. A[p] = Blame(S, p, "refused")
    BY DEF BlameRefused
  <2>2. /\ S \in TaskState /\ p \in Peers /\ BlamedOk(S.blamed)
        /\ PeerOk(S.pr[p], S.out[p], in[p], height[p], C)
    BY DEF Good, NodeOk
  <2> HIDE DEF A
  <2>3. Moves(S, A[p], p, in[p], C) /\ A[p].blamed = S.blamed \cup {<<p, "refused">>}
    BY <2>1, <2>2, BlameMoves
  <2>4. BlamedOk(A[p].blamed)
    <3>1. \A x \in A[p].blamed : x \in S.blamed \/ x = <<p, "refused">>
      BY <2>3
    <3>2. <<p, "refused">>[1] = p /\ <<p, "refused">>[2] = "refused" /\ "refused" # "unrequested"
      OBVIOUS
    <3> QED BY <2>2, <3>1, <3>2 DEF BlamedOk
  <2> QED BY <2>3, <2>4 DEF Moves, SameRequests
<1> HIDE DEF A
<1>3. Good(T, in, C)
  BY ZenonT(60), <1>2, EachGood
<1> QED BY <1>1, <1>3

(* SyncBlockRefused                                                        *)
LEMMA RefusedGood ==
  ASSUME NEW S, NEW in, NEW C, Good(S, in, C), height \in [Peers -> 0..MaxBlock],
         NEW b \in Blocks, ~Sound(b)
  PROVE  Good(SyncBlockRefused(S, b), in, C)
<1> DEFINE peers == {p \in Active(S) : b \in S.pr[p].ids_of_items_being_processed}
<1>1. peers \in SUBSET Peers
  BY DEF Active
<1>2. ASSUME NEW p \in peers PROVE \E r \in Refused : r <= height[p]
  <2>1. p \in Peers /\ b \in S.pr[p].ids_of_items_being_processed
    BY <1>1
  <2>2. b <= height[p]
    BY <2>1 DEF Good, PeerOk, Held
  <2>3. PICK r \in Refused : r <= b
    BY DEF Sound
  <2>4. r \in Nat /\ b \in Nat /\ height[p] \in Nat
    BY <2>1, BoundAssumption DEF Blocks
  <2> QED BY <2>2, <2>3, <2>4
<1>3. SyncBlockRefused(S, b) = ForEach(S, peers, BlameRefused)
  BY DEF SyncBlockRefused
<1> HIDE DEF peers
<1> QED BY <1>1, <1>2, <1>3, BlameGood

(* SyncBlockAccepted                                                       *)
LEMMA AcceptedGood ==
  ASSUME NEW S, NEW in, NEW C, Good(S, in, C), Grown(C), head \in 0..MaxBlock,
         NEW b \in Blocks, b <= head
  PROVE  Good(SyncBlockAccepted(S, b), in, C)
<1> DEFINE Of(p) == S.pr[p]
           idle == {p \in Active(S) : Of(p).ids_of_items_to_get = <<>> /\ Of(p).ids_of_items_being_processed = {}}
           had == {p \in Active(S) \ idle : b \in Of(p).ids_of_items_being_processed}
           Seen(T, p) == [T EXCEPT !.pr[p].last_seen = b, !.pr[p].ids_of_items_being_processed = @ \ {b}]
           S2 == [S EXCEPT !.node.recent = @ \cup {b}]
           U == ForEach(S2, had, Seen)
           empty == {p \in had : ListUsedUp(U.pr[p])}
           tell == {p \in idle : ~Of(p).peer_needs /\ ~Of(p).we_need}
           W == ForEach(U, empty, fetch_next_batch_of_item_ids)
           X == ForEach(W, tell, start_synchronizing_with_peer)
           n == [S.node EXCEPT !.recent = @ \cup {b}]
           q(p) == [S.pr[p] EXCEPT !.last_seen = b, !.ids_of_items_being_processed = @ \ {b}]
           AU == [p \in had |-> Seen(S2, p)]
           AW == [p \in empty |-> fetch_next_batch_of_item_ids(U, p)]
           AX == [p \in tell |-> start_synchronizing_with_peer(W, p)]
<1>1. SyncBlockAccepted(S, b) = X
  BY DEF SyncBlockAccepted
<1>2. had \in SUBSET Peers /\ empty \in SUBSET Peers /\ tell \in SUBSET Peers
  BY DEF Active
<1>3. /\ S \in TaskState /\ S.node \in NodeType /\ MaxBlock \in Nat /\ BlamedOk(S.blamed)
      /\ \A p \in Peers : S.pr[p] \in PeerType
  BY BoundAssumption DEF Good, NodeOk, TaskState
<1>4. Good(S2, in, C) /\ S2 \in TaskState /\ S2.pr = S.pr /\ S2.out = S.out /\ S2.blamed = S.blamed
  <2>1. S2 = [S EXCEPT !.node = n]
    BY <1>3 DEF TaskState
  <2>2. /\ n \in NodeType /\ n.active_sync_requests = S.node.active_sync_requests
        /\ n.recent = S.node.recent \cup {b} /\ n.suspend = S.node.suspend
        /\ n.backlog = S.node.backlog
    BY <1>3 DEF NodeType
  <2> HIDE DEF n, S2
  <2>3. S2 \in TaskState /\ S2.node = n /\ S2.pr = S.pr /\ S2.out = S.out /\ S2.blamed = S.blamed
    BY <1>3, <2>1, <2>2 DEF TaskState
  <2>4. \A p \in Peers : PeerOk(S2.pr[p], S2.out[p], in[p], height[p], C)
    BY <2>3 DEF Good
  <2>5. RequestsOk(S2)
    BY <2>2, <2>3 DEF Good, RequestsOk
  <2>6. NodeOk(S2)
    BY <2>2, <2>3 DEF Good, NodeOk
  <2> QED BY <2>3, <2>4, <2>5, <2>6 DEF Good
<1>14. \A p \in had : p \in Peers
  BY DEF Active
<1> HIDE DEF S2, had
<1>5. U = EachOf(S2, had, AU)
  <2>1. \A p \in had : AU[p] = Seen(S2, p)
    OBVIOUS
  <2>2. U = [S2 EXCEPT !.pr = [p \in Peers |-> IF p \in had THEN Seen(S2, p).pr[p] ELSE @[p]],
                       !.out = [p \in Peers |-> IF p \in had THEN Seen(S2, p).out[p] ELSE @[p]],
                       !.blamed = @ \cup UNION {Seen(S2, p).blamed : p \in had}]
    BY DEF ForEach
  <2> HIDE DEF AU, Seen, U
  <2> QED BY <2>1, <2>2 DEF EachOf
<1>6. ASSUME NEW p \in had
      PROVE  /\ AU[p] \in TaskState /\ BlamedOk(AU[p].blamed)
             /\ PeerOk(AU[p].pr[p], AU[p].out[p], in[p], height[p], C)
             /\ AU[p].pr[p].sync_items_requested = S2.pr[p].sync_items_requested
  <2> DEFINE r == S.pr[p]
             x == [r EXCEPT !.last_seen = b, !.ids_of_items_being_processed = @ \ {b}]
             T == AU[p]
  <2>1. p \in Peers /\ r \in PeerType /\ b \in 0..MaxBlock /\ S2.pr[p] = r
    BY <1>14, <1>3, <1>4 DEF Blocks
  <2>2. T = [S2 EXCEPT !.pr[p] = x]
    BY <1>4, <2>1 DEF TaskState
  <2> HIDE DEF r, T
  <2>3. /\ x \in PeerType /\ x.open = r.open /\ x.list = r.list
        /\ x.items_requested = r.items_requested
        /\ x.sync_items_requested = r.sync_items_requested
        /\ x.ids_of_items_to_get = r.ids_of_items_to_get
        /\ x.item_ids_requested = r.item_ids_requested /\ x.last_seen = b
        /\ x.advertised_to_us = r.advertised_to_us
        /\ x.ids_of_items_being_processed = r.ids_of_items_being_processed \ {b}
    BY <2>1 DEF PeerType
  <2> HIDE DEF x
  <2>4. T \in TaskState /\ T.pr[p] = x /\ T.out = S.out /\ T.blamed = S.blamed
    BY <1>4, <2>1, <2>2, <2>3 DEF TaskState
  <2>5. SameRequests(r, x) /\ SameList(r, x)
    BY <2>3 DEF SameRequests, SameList
  <2>6. b \in C
    <3>1. b \in 0..head
      BY <1>3 DEF Blocks
    <3> QED BY <3>1 DEF Grown
  <2>7. PeerOk(r, S.out[p], in[p], height[p], C)
    BY <2>1 DEF Good, r
  <2>8. \A c \in x.ids_of_items_being_processed \cup x.advertised_to_us : c <= height[p]
    BY <2>3, <2>7 DEF PeerOk, Held
  <2>9. PeerOk(x, S.out[p], in[p], height[p], C)
    BY <2>3, <2>5, <2>6, <2>7, <2>8, PeerNotes
  <2> HIDE DEF AU, Seen
  <2>10. /\ BlamedOk(T.blamed) /\ PeerOk(T.pr[p], T.out[p], in[p], height[p], C)
         /\ T.pr[p].sync_items_requested = S2.pr[p].sync_items_requested
    BY <1>3, <2>1, <2>3, <2>4, <2>9
  <2> QED BY <2>4, <2>10 DEF T
<1> HIDE DEF AU, U
<1>7. Good(U, in, C)
  BY ZenonT(60), <1>2, <1>4, <1>5, <1>6, EachGood
<1> HIDE DEF empty
<1>8. W = EachOf(U, empty, AW)
  <2>1. \A p \in empty : AW[p] = fetch_next_batch_of_item_ids(U, p)
    OBVIOUS
  <2> HIDE DEF AW
  <2> QED BY <2>1 DEF ForEach, EachOf
<1>9. ASSUME NEW p \in empty
      PROVE  /\ AW[p] \in TaskState /\ BlamedOk(AW[p].blamed)
             /\ PeerOk(AW[p].pr[p], AW[p].out[p], in[p], height[p], C)
             /\ AW[p].pr[p].sync_items_requested = U.pr[p].sync_items_requested
  <2>1. AW[p] = fetch_next_batch_of_item_ids(U, p) /\ p \in Peers /\ BlamedOk(U.blamed)
    BY <1>2, <1>7 DEF Good, NodeOk
  <2> HIDE DEF AW
  <2>2. Moves(U, AW[p], p, in[p], C) /\ AW[p].blamed = U.blamed
    BY <1>7, <2>1, AskMoves
  <2> QED BY <2>1, <2>2 DEF Moves, SameRequests
<1> HIDE DEF AW, W
<1>10. Good(W, in, C)
  BY ZenonT(60), <1>2, <1>7, <1>8, <1>9, EachGood
<1> HIDE DEF tell
<1>11. X = EachOf(W, tell, AX)
  <2>1. \A p \in tell : AX[p] = start_synchronizing_with_peer(W, p)
    OBVIOUS
  <2> HIDE DEF AX
  <2> QED BY <2>1 DEF ForEach, EachOf
<1>12. ASSUME NEW p \in tell
       PROVE  /\ AX[p] \in TaskState /\ BlamedOk(AX[p].blamed)
              /\ PeerOk(AX[p].pr[p], AX[p].out[p], in[p], height[p], C)
              /\ AX[p].pr[p].sync_items_requested = W.pr[p].sync_items_requested
  <2>1. AX[p] = start_synchronizing_with_peer(W, p) /\ p \in Peers /\ BlamedOk(W.blamed)
    BY <1>2, <1>10 DEF Good, NodeOk
  <2> HIDE DEF AX
  <2>2. Moves(W, AX[p], p, in[p], C) /\ AX[p].blamed = W.blamed
    BY <1>10, <2>1, AskMoves
  <2> QED BY <2>1, <2>2 DEF Moves, SameRequests
<1> HIDE DEF AX, X
<1>13. Good(X, in, C)
  BY <1>2, <1>10, <1>11, <1>12, EachGood
<1> QED BY <1>1, <1>13

-----------------------------------------------------------------------------
(* The backlog                                                             *)

(* The next block of a peer's list is taken.                               *)
Takes(r, b) == [r EXCEPT !.ids_of_items_to_get = Tail(@), !.ids_of_items_being_processed = @ \cup {b}]

(* The rest of the list still starts no later than the first block to come.*)
LEMMA PeerTaken ==
  ASSUME NEW r \in PeerType, NEW out, NEW in \in Seq(FromMessages), NEW h \in 0..MaxBlock, NEW C,
         NEW D, C \subseteq D, Grown(D), head \in 0..MaxBlock,
         PeerOk(r, out, in, h, C), r.ids_of_items_to_get # <<>>, NEW b, b = r.ids_of_items_to_get[1],
         b \in D, NEW q, q = Takes(r, b)
  PROVE  q \in PeerType /\ SameRequests(r, q) /\ PeerOk(q, out, in, h, D)
<1> DEFINE ids == r.ids_of_items_to_get
           rest == Tail(ids)
           l == Len(ids)
<1>1. ids \in Seq(Blocks) /\ ids # <<>> /\ l \in Nat /\ l # 0 /\ 1 \in 1..l /\ l \in 1..l
  BY DEF PeerType
<1>2. b \in Blocks
  BY <1>1
<1>3. /\ q \in PeerType /\ q.open = r.open /\ q.list = r.list
      /\ q.items_requested = r.items_requested /\ q.sync_items_requested = r.sync_items_requested
      /\ q.advertised_to_us = r.advertised_to_us /\ q.last_seen = r.last_seen
      /\ q.ids_of_items_to_get = rest
      /\ q.ids_of_items_being_processed = r.ids_of_items_being_processed \cup {b}
      /\ q.item_ids_requested = r.item_ids_requested
  <2>1. rest \in Seq(Blocks)
    BY <1>1
  <2> QED BY <1>2, <2>1 DEF PeerType, Takes
<1>4. PeerOk(r, out, in, h, D)
  <2>1. h <= h
    BY BoundAssumption
  <2> QED BY <2>1, PeerLater
<1>5. ListOk(r, h, D)
  BY <1>4 DEF PeerOk
<1>6. InARow(ids) /\ \A i \in 1..l : ids[i] <= h
  BY <1>5 DEF ListOk
<1>7. /\ rest \in Seq(Blocks) /\ InARow(rest) /\ Len(rest) = l - 1
      /\ \A i \in 1..Len(rest) : rest[i] = ids[1 + i] /\ 1 + i \in 1..l
      /\ rest # <<>> => rest[1] - 1 = ids[1]
  <2>1. rest = SubSeq(ids, 1 + 1, Len(ids)) /\ 1 \in 0..Len(ids) /\ 1 > 0
    BY <1>1
  <2> HIDE DEF rest
  <2> QED BY <1>1, <1>6, <2>1, RowEnd
<1> HIDE DEF ids, rest, l
<1>8. b <= h
  BY <1>1, <1>6 DEF ids, l
<1>9. ListOk(q, h, D)
  <2>1. \A i \in 1..Len(rest) : rest[i] <= h
    BY <1>6, <1>7
  <2>2. rest # <<>> => rest[1] - 1 \in D
    BY <1>7 DEF ids
  <2>3. r.last_seen \in D
    BY <1>5 DEF ListOk
  <2>4. ASSUME r.item_ids_requested.on, NEW c \in r.item_ids_requested.synopsis
        PROVE  c \in D \/ (rest # <<>> /\ c <= rest[Len(rest)])
    <3>1. c \in D \/ c <= ids[l]
      BY <1>5, <2>4 DEF ListOk, ids, l
    <3>2. CASE rest # <<>>
      <4>1. Len(rest) \in 1..Len(rest) /\ 1 + Len(rest) = l
        BY <1>1, <1>7, <3>2
      <4>2. rest[Len(rest)] = ids[l]
        BY <1>7, <4>1
      <4> QED BY <3>1, <3>2, <4>2
    <3>3. CASE rest = <<>>
      <4>1. l = 1
        BY <1>1, <1>7, <3>3
      <4>2. c \in Blocks
        BY <2>4 DEF PeerType
      <4>3. c <= b => c \in 0..b
        BY <1>2, <4>2, BoundAssumption DEF Blocks
      <4> QED BY <3>1, <4>1, <4>3 DEF Grown, ids
    <3> QED BY <3>2, <3>3
  <2> QED BY <1>3, <1>7, <2>1, <2>2, <2>3, <2>4 DEF ListOk
<1>10. SameRequests(r, q)
  BY <1>3 DEF SameRequests
<1>11. \A c \in q.ids_of_items_being_processed : c <= h
  BY <1>3, <1>4, <1>8 DEF PeerOk, Held
<1>12. PeerOk(q, out, in, h, D)
  BY <1>3, <1>4, <1>9, <1>10, <1>11, PeerListed
<1> QED BY <1>3, <1>10, <1>12

(* Block k is in the chain, in a call or about to be handed over.          *)
HandedOver(k, started, n) ==
  Covered(k, Len(calls)) \/ \E j \in 1..n : started[j] = k
SoFar(started) ==
  {c \in 0..MaxBlock : \A k \in 1..c : Sound(k) => HandedOver(k, started, Len(started))}

(* What is reached goes on from the head without a gap.                    *)
LEMMA SoFarGrown ==
  ASSUME head \in 0..MaxBlock, NEW started
  PROVE  Grown(SoFar(started))
<1>1. MaxBlock \in Nat /\ head \in Nat
  BY BoundAssumption
<1>2. ASSUME NEW c \in 0..head PROVE c \in SoFar(started)
  <2>1. c \in 0..MaxBlock /\ \A k \in 1..c : k <= head
    BY <1>1
  <2> QED BY <2>1 DEF SoFar, HandedOver, Covered
<1>3. ASSUME NEW c \in SoFar(started), NEW x \in 0..c PROVE x \in SoFar(started)
  <2>1. c \in 0..MaxBlock
    BY DEF SoFar
  <2>2. x \in 0..MaxBlock /\ \A k \in 1..x : k \in 1..c
    BY <1>1, <2>1
  <2> QED BY <2>2 DEF SoFar
<1>4. SoFar(started) \subseteq 0..MaxBlock
  BY DEF SoFar
<1> QED BY <1>2, <1>3, <1>4 DEF Grown

(* So it is before the backlog is processed.                               *)
LEMMA ReachedGrown ==
  ASSUME head \in 0..MaxBlock
  PROVE  Reached = SoFar(<<>>) /\ Grown(Reached)
<1>1. \A j \in 1..Len(<<>>) : FALSE
  OBVIOUS
<1>2. Reached = SoFar(<<>>)
  BY <1>1 DEF Reached, SoFar, HandedOver
<1> QED BY <1>2, SoFarGrown

(* The state of process_backlog_of_sync_blocks between two rounds.         *)
Backlogs ==
  [pr : [Peers -> PeerType], received : Seq(Blocks), started : Seq(Blocks), go : BOOLEAN]
RoundOk(B) ==
  /\ B \in Backlogs
  /\ \A p \in Peers : /\ PeerOk(B.pr[p], toPeer[p], fromPeer[p], height[p], SoFar(B.started))
                      /\ SameRequests(pr[p], B.pr[p])
  /\ \A j \in 1..Len(B.started) : \A k \in 1..(B.started[j] - 1) :
       Sound(k) => HandedOver(k, B.started, j - 1)


(* A block is handed over behind what it builds on.                        *)
LEMMA HandedOneMore ==
  ASSUME NEW started \in Seq(Blocks), NEW b \in Blocks, NEW more, more = Append(started, b),
         b - 1 \in SoFar(started),
         \A j \in 1..Len(started) : \A k \in 1..(started[j] - 1) :
           Sound(k) => HandedOver(k, started, j - 1)
  PROVE  /\ SoFar(started) \subseteq SoFar(more) /\ b \in SoFar(more)
         /\ \A j \in 1..Len(more) : \A k \in 1..(more[j] - 1) :
              Sound(k) => HandedOver(k, more, j - 1)
<1>1. /\ more \in Seq(Blocks) /\ Len(more) = Len(started) + 1 /\ Len(started) \in Nat
      /\ \A i \in 1..Len(started) : more[i] = started[i] /\ i \in 1..(Len(started) + 1)
      /\ more[Len(started) + 1] = b
      /\ \A i \in 1..Len(more) : i \in 1..Len(started) \/ i = Len(started) + 1
  BY AppendFacts
<1>2. ASSUME NEW k, NEW n \in 0..Len(started), NEW m \in Nat, n <= m, HandedOver(k, started, n)
      PROVE  HandedOver(k, more, m)
  <2>1. CASE Covered(k, Len(calls))
    BY <2>1 DEF HandedOver
  <2>2. CASE ~Covered(k, Len(calls))
    <3>1. PICK j \in 1..n : started[j] = k
      BY <1>2, <2>2 DEF HandedOver
    <3>2. j \in 1..Len(started) /\ j \in 1..m
      BY <1>1, <1>2
    <3> QED BY <1>1, <3>1, <3>2 DEF HandedOver
  <2> QED BY <2>1, <2>2
<1>3. Len(started) \in 0..Len(started) /\ Len(more) \in Nat /\ Len(started) <= Len(more)
  BY <1>1
<1>4. SoFar(started) \subseteq SoFar(more)
  BY <1>2, <1>3 DEF SoFar
<1>5. HandedOver(b, more, Len(more))
  <2>1. Len(started) + 1 \in 1..Len(more)
    BY <1>1
  <2> QED BY <1>1, <2>1 DEF HandedOver
<1>6. b \in SoFar(more)
  <2>1. b - 1 \in SoFar(more)
    BY <1>4
  <2>2. b \in 0..MaxBlock /\ \A k \in 1..b : k = b \/ k \in 1..(b - 1)
    BY BoundAssumption DEF Blocks
  <2> QED BY <1>5, <2>1, <2>2 DEF SoFar
<1>7. ASSUME NEW j \in 1..Len(more), NEW k \in 1..(more[j] - 1), Sound(k)
      PROVE  HandedOver(k, more, j - 1)
  <2>1. CASE j \in 1..Len(started)
    <3>1. HandedOver(k, started, j - 1)
      BY <1>1, <1>7, <2>1
    <3>2. j - 1 \in 0..Len(started) /\ j - 1 \in Nat /\ j - 1 <= j - 1
      BY <1>1, <2>1
    <3> QED BY <1>2, <3>1, <3>2
  <2>2. CASE j = Len(started) + 1
    <3>1. k \in 1..(b - 1)
      BY <1>1, <1>7, <2>2
    <3>2. HandedOver(k, started, Len(started))
      BY <1>7, <3>1 DEF SoFar
    <3>3. j - 1 = Len(started)
      BY <1>1, <2>2
    <3> QED BY <1>1, <1>2, <1>3, <3>2, <3>3
  <2> QED BY <1>1, <2>1, <2>2
<1> QED BY <1>4, <1>6, <1>7

(* A round of process_backlog_of_sync_blocks.                              *)
LEMMA RoundGood ==
  ASSUME TypeInv, \A c \in node.recent : c <= head, NEW B, RoundOk(B),
         NEW R, R = BacklogRound(B)
  PROVE  RoundOk(R)
<1> DEFINE heads(c) == {p \in Peers : IsNext(B.pr[p], c)}
           next == {j \in DOMAIN B.received : heads(B.received[j]) # {}}
           i == Min(next)
           b == B.received[i]
           taken == [p \in Peers |-> IF p \in heads(b) THEN Takes(B.pr[p], b) ELSE B.pr[p]]
           go == ~(Cardinality(SyncCalls) + Len(B.started) + 1 >= MaxHandle)
           more == Append(B.started, b)
           less == RemoveAt(B.received, i)
<1>1. /\ B \in Backlogs /\ B.pr \in [Peers -> PeerType] /\ B.received \in Seq(Blocks)
      /\ B.started \in Seq(Blocks) /\ head \in 0..MaxBlock
      /\ \A p \in Peers : /\ B.pr[p] \in PeerType /\ fromPeer[p] \in Seq(FromMessages)
                          /\ height[p] \in 0..MaxBlock
  BY DEF RoundOk, Backlogs, TypeInv
<1>2. R = CASE ~B.go \/ next = {} -> [B EXCEPT !.go = FALSE]
            [] B.go /\ next # {} /\ b \notin node.recent ->
                 [B EXCEPT !.pr = taken, !.received = less, !.started = more, !.go = go]
            [] OTHER -> [B EXCEPT !.pr = taken, !.go = FALSE]
  BY DEF BacklogRound, Takes
<1> HIDE DEF taken, go, more, less
<1>3. CASE ~B.go \/ next = {}
  <2>1. R = [B EXCEPT !.go = FALSE]
    BY <1>2, <1>3
  <2>2. R \in Backlogs /\ R.pr = B.pr /\ R.started = B.started
    BY <1>1, <2>1 DEF Backlogs
  <2> QED BY <2>2 DEF RoundOk
<1>4. CASE B.go /\ next # {}
  <2>1. DOMAIN B.received = 1..Len(B.received) /\ Len(B.received) \in Nat
    BY <1>1
  <2>2. i \in next
    <3>1. next \in SUBSET Nat
      BY <2>1
    <3> HIDE DEF next
    <3> QED BY <1>4, <3>1, MinIsIn
  <2> HIDE DEF i
  <2>3. i \in 1..Len(B.received) /\ b \in Blocks /\ heads(b) # {}
    <3>1. i \in 1..Len(B.received) /\ heads(b) # {}
      BY <2>1, <2>2
    <3> QED BY <1>1, <3>1
  <2> HIDE DEF b, next
  <2>4. ASSUME NEW p \in heads(b)
        PROVE  /\ p \in Peers /\ B.pr[p].ids_of_items_to_get # <<>>
               /\ b = B.pr[p].ids_of_items_to_get[1]
    BY DEF IsNext
  <2>5. b - 1 \in SoFar(B.started)
    <3>1. PICK p \in heads(b) : TRUE
      BY <2>3
    <3>2. PeerOk(B.pr[p], toPeer[p], fromPeer[p], height[p], SoFar(B.started))
      BY <2>4 DEF RoundOk
    <3> HIDE DEF heads
    <3> QED BY <2>4, <3>2 DEF PeerOk, ListOk
  <2> HIDE DEF heads
  <2>6. ASSUME NEW x, SoFar(B.started) \subseteq SoFar(x), b \in SoFar(x)
        PROVE  /\ taken \in [Peers -> PeerType]
               /\ \A p \in Peers : /\ PeerOk(taken[p], toPeer[p], fromPeer[p], height[p], SoFar(x))
                                   /\ SameRequests(pr[p], taken[p])
    <3>1. Grown(SoFar(x))
      BY <1>1, SoFarGrown
    <3>2. ASSUME NEW p \in Peers
          PROVE  /\ taken[p] \in PeerType /\ SameRequests(pr[p], taken[p])
                 /\ PeerOk(taken[p], toPeer[p], fromPeer[p], height[p], SoFar(x))
      <4>1. /\ PeerOk(B.pr[p], toPeer[p], fromPeer[p], height[p], SoFar(B.started))
            /\ SameRequests(pr[p], B.pr[p])
        BY DEF RoundOk
      <4>2. CASE p \in heads(b)
        <5>1. taken[p] = Takes(B.pr[p], b)
          BY <4>2 DEF taken
        <5>2. /\ taken[p] \in PeerType /\ SameRequests(B.pr[p], taken[p])
              /\ PeerOk(taken[p], toPeer[p], fromPeer[p], height[p], SoFar(x))
          BY <1>1, <2>4, <2>6, <3>1, <4>1, <4>2, <5>1, PeerTaken
        <5> QED BY <4>1, <5>2 DEF SameRequests
      <4>3. CASE p \notin heads(b)
        <5>1. taken[p] = B.pr[p]
          BY <4>3 DEF taken
        <5>2. height[p] <= height[p]
          BY <1>1, BoundAssumption
        <5>3. PeerOk(B.pr[p], toPeer[p], fromPeer[p], height[p], SoFar(x))
          BY <1>1, <2>6, <4>1, <5>2, PeerLater
        <5> QED BY <1>1, <4>1, <5>1, <5>3
      <4> QED BY <4>2, <4>3
    <3>3. taken = [p \in Peers |-> taken[p]]
      BY DEF taken
    <3> HIDE DEF taken
    <3> QED BY <3>2, <3>3
  <2>7. CASE b \notin node.recent
    <3>1. R = [B EXCEPT !.pr = taken, !.received = less, !.started = more, !.go = go]
      BY <1>2, <1>4, <2>7
    <3>2. less \in Seq(Blocks)
      <4>1. i - 1 \in 0..Len(B.received) /\ i + 1 \in 1..(Len(B.received) + 1)
        BY <2>1, <2>3
      <4>2. less = SubSeq(B.received, 1, i - 1) \o SubSeq(B.received, i + 1, Len(B.received))
        BY DEF less, RemoveAt
      <4>3. SubSeq(B.received, 1, i - 1) \in Seq(Blocks)
        BY <1>1, <4>1
      <4>4. SubSeq(B.received, i + 1, Len(B.received)) \in Seq(Blocks)
        BY <1>1, <4>1
      <4> QED BY <4>2, <4>3, <4>4, ConcatFacts
    <3>3. more \in Seq(Blocks)
      BY <1>1, <2>3 DEF more
    <3>4. /\ SoFar(B.started) \subseteq SoFar(more) /\ b \in SoFar(more)
          /\ \A j \in 1..Len(more) : \A k \in 1..(more[j] - 1) :
               Sound(k) => HandedOver(k, more, j - 1)
      BY <1>1, <2>3, <2>5, HandedOneMore DEF RoundOk, more
    <3>5. go \in BOOLEAN
      BY DEF go
    <3>6. taken \in [Peers -> PeerType]
      BY <2>6, <3>4
    <3>7. R \in Backlogs /\ R.pr = taken /\ R.started = more
      BY <1>1, <3>1, <3>2, <3>3, <3>5, <3>6 DEF Backlogs
    <3> QED BY <2>6, <3>4, <3>7 DEF RoundOk
  <2>8. CASE b \in node.recent
    <3>1. R = [B EXCEPT !.pr = taken, !.go = FALSE]
      BY <1>2, <1>4, <2>8
    <3>2. b \in SoFar(B.started)
      <4>1. b \in 0..head
        BY <1>1, <2>3, <2>8 DEF Blocks
      <4>2. Grown(SoFar(B.started))
        BY <1>1, SoFarGrown
      <4> QED BY <4>1, <4>2 DEF Grown
    <3>3. taken \in [Peers -> PeerType]
      BY <2>6, <3>2
    <3>4. R \in Backlogs /\ R.pr = taken /\ R.started = B.started
      BY <1>1, <3>1, <3>3 DEF Backlogs
    <3> QED BY <2>6, <3>2, <3>4 DEF RoundOk
  <2> QED BY <2>7, <2>8
<1> QED BY <1>3, <1>4

(* The rounds of process_backlog_of_sync_blocks one after the other.       *)
IsRounds(g, all) ==
  g = [i \in 0..(Len(all) + 1) |->
         IF i = 0 THEN [pr |-> pr, received |-> all, started |-> <<>>, go |-> TRUE]
         ELSE BacklogRound(g[i - 1])]

(* After any number of them, what is handed over is in order.              *)
LEMMA RoundsGood ==
  ASSUME TypeInv, Good(Here, fromPeer, Reached), NEW all \in Seq(Blocks),
         NEW G, G = CHOOSE g : IsRounds(g, all)
  PROVE  RoundOk(G[Len(all) + 1])
<1> DEFINE S == [pr |-> pr, received |-> all, started |-> <<>>, go |-> TRUE]
           N == Len(all) + 1
           V == {T \in Backlogs : RoundOk(T)}
           H == [x \in (1..N) \X V |-> BacklogRound(x[2])]
<1>1. N \in Nat
  OBVIOUS
<1>2. pr \in [Peers -> PeerType] /\ head \in 0..MaxBlock /\ \A c \in node.recent : c <= head
  BY DEF TypeInv, TaskState, Here, Good, NodeOk
<1> HIDE DEF N
<1>3. S \in V
  <2>1. S \in Backlogs /\ S.pr = pr /\ S.started = <<>> /\ \A j \in 1..Len(S.started) : FALSE
    BY <1>2 DEF Backlogs
  <2> HIDE DEF S
  <2>2. ASSUME NEW p \in Peers
        PROVE  /\ PeerOk(S.pr[p], toPeer[p], fromPeer[p], height[p], SoFar(S.started))
               /\ SameRequests(pr[p], S.pr[p])
    <3>1. Reached = SoFar(<<>>)
      BY <1>2, ReachedGrown
    <3> QED BY <2>1, <3>1 DEF Good, Here, SameRequests
  <2> QED BY <2>1, <2>2 DEF RoundOk
<1> HIDE DEF S
<1>6. ASSUME NEW T \in V PROVE BacklogRound(T) \in V
  <2>1. RoundOk(BacklogRound(T))
    BY <1>2, RoundGood
  <2> QED BY <2>1 DEF RoundOk
<1> HIDE DEF V
<1>7. H \in [(1..N) \X V -> V]
  BY <1>6
<1>8. PICK f : LoopOf(f, N, V, S, H)
  <2> HIDE DEF H
  <2> QED BY <1>1, <1>3, <1>7, LoopExists
<1>9. f \in [0..N -> V] /\ f[0] = S /\ \A i \in 1..N : f[i] = H[<<i, f[i - 1]>>]
  BY <1>8 DEF LoopOf
<1>10. \A i \in 1..N : i - 1 \in 0..N
  BY <1>1
<1>11. \A i \in 1..N : f[i] = BacklogRound(f[i - 1])
  BY <1>9, <1>10
<1>12. \A i \in 0..N : i = 0 \/ i \in 1..N
  BY <1>1
<1>13. IsRounds(f, all)
  <2>1. f = [i \in 0..N |-> IF i = 0 THEN S ELSE BacklogRound(f[i - 1])]
    <3> HIDE DEF H
    <3> QED BY <1>9, <1>11, <1>12
  <2> QED BY <2>1 DEF IsRounds, N, S
<1>14. IsRounds(G, all)
  BY <1>13
<1>15. ASSUME NEW g, IsRounds(g, all) PROVE \A i \in 0..N : g[i] \in V
  <2>1. g = [i \in 0..N |-> IF i = 0 THEN S ELSE BacklogRound(g[i - 1])]
    BY <1>15 DEF IsRounds, N, S
  <2> DEFINE Sel == {i \in 0..N : g[i] \in V}
  <2>2. 0 \in Sel
    BY <1>1, <1>3, <2>1
  <2>3. ASSUME NEW i \in 1..N, i - 1 \in Sel PROVE i \in Sel
    <3>1. i \in 0..N /\ i # 0
      BY <1>1
    <3>2. g[i] = BacklogRound(g[i - 1])
      BY <2>1, <3>1
    <3> QED BY <1>6, <2>3, <3>1, <3>2
  <2>4. \A i \in 0..N : i \in Sel
    <3> HIDE DEF Sel
    <3> QED BY <1>1, <2>2, <2>3, UpTo
  <2> QED BY <2>4
<1>16. G[N] \in V
  BY <1>1, <1>14, <1>15
<1> QED BY <1>16 DEF V, N

-----------------------------------------------------------------------------
(* Steps                                                                   *)

(* What is good stays good while the chain and the peers go on.            *)
LEMMA GoodLater ==
  ASSUME NEW S \in TaskState, Install(S), NEW new, fromPeer' = new,
         new \in [Peers -> Seq(FromMessages)],
         NEW C, C \subseteq Reached', head \in 0..MaxBlock, head' \in 0..MaxBlock, head <= head',
         height \in [Peers -> 0..MaxBlock], height' \in [Peers -> 0..MaxBlock],
         \A p \in Peers : height[p] <= height'[p],
         \A p \in Peers : PeerOk(S.pr[p], S.out[p], new[p], height[p], C),
         RequestsOk(S), BlamedOk(S.blamed), \A b \in S.node.recent : b <= head,
         S.node.suspend => S.node.backlog \/ (SyncCalls # {})'
  PROVE  Good(Here, fromPeer, Reached)'
<1>1. Here' = S
  BY DEF Install, Here, TaskState
<1>2. ASSUME NEW p \in Peers PROVE PeerOk(S.pr[p], S.out[p], new[p], height'[p], Reached')
  <2>1. S.pr[p] \in PeerType /\ new[p] \in Seq(FromMessages) /\ height[p] \in 0..MaxBlock
        /\ height'[p] \in 0..MaxBlock /\ height[p] <= height'[p]
    BY DEF TaskState
  <2> QED BY <2>1, PeerLater
<1>3. \A b \in S.node.recent : b <= head'
  <2>1. S.node.recent \subseteq Nat /\ head \in Nat /\ head' \in Nat
    BY BoundAssumption DEF TaskState, NodeType, Blocks
  <2> QED BY <2>1
<1>4. \A x \in S.blamed : x[2] # "unrequested" /\ (x[2] = "refused" => \E b \in Refused : b <= height'[x[1]])
  <2> SUFFICES ASSUME NEW x \in S.blamed, x[2] = "refused" PROVE \E b \in Refused : b <= height'[x[1]]
    BY DEF BlamedOk
  <2>1. PICK b \in Refused : b <= height[x[1]]
    BY DEF BlamedOk
  <2>2. x[1] \in Peers
    BY DEF TaskState, Blamings
  <2>3. b \in Nat /\ height[x[1]] \in Nat /\ height'[x[1]] \in Nat /\ height[x[1]] <= height'[x[1]]
    BY <2>2, BoundAssumption
  <2> QED BY <2>1, <2>3
<1> QED BY <1>1, <1>2, <1>3, <1>4 DEF Good, NodeOk, BlamedOk

(* A task that leaves the chain alone.                                     *)
LEMMA TaskStep ==
  ASSUME SyncInv, NEW S, Install(S), NEW new, fromPeer' = new,
         new \in [Peers -> Seq(FromMessages)], Good(S, new, Reached),
         UNCHANGED <<calls, head, height>>, behind' \in [Peers -> BOOLEAN]
  PROVE  SyncInv'
<1>1. Reached' = Reached /\ SyncCalls' = SyncCalls
  BY DEF Reached, Covered, SyncCalls
<1>2. CallsOk'
  BY DEF SyncInv, CallsOk, CallOk, Covered
<1>3. /\ head \in 0..MaxBlock /\ height \in [Peers -> 0..MaxBlock] /\ calls \in Seq(Calls)
      /\ head <= head /\ \A p \in Peers : height[p] <= height[p]
  BY BoundAssumption DEF SyncInv, TypeInv
<1>4. Good(Here, fromPeer, Reached)'
  <2>1. /\ S \in TaskState /\ RequestsOk(S) /\ BlamedOk(S.blamed) /\ \A b \in S.node.recent : b <= head
        /\ \A p \in Peers : PeerOk(S.pr[p], S.out[p], new[p], height[p], Reached)
        /\ S.node.suspend => S.node.backlog \/ SyncCalls # {}
    BY DEF Good, NodeOk
  <2> HIDE DEF SyncInv
  <2> QED BY <1>1, <1>3, <2>1, GoodLater
<1>5. Here' \in TaskState
  BY DEF Here, Install, Good, TaskState
<1> QED BY <1>1, <1>2, <1>3, <1>4, <1>5 DEF SyncInv, TypeInv

(* The calls that follow leave the ones before as they are.                *)
LEMMA CallsFollow ==
  ASSUME calls \in Seq(Calls), NEW new \in Seq(Calls), calls' = calls \o new, head' = head,
         CallsOk, height' = height
  PROVE  /\ calls' \in Seq(Calls) /\ Len(calls') = Len(calls) + Len(new)
         /\ \A i \in 1..Len(new) : calls'[Len(calls) + i] = new[i] /\ Len(calls) + i \in DOMAIN calls'
         /\ \A i \in 1..Len(calls') : i \in 1..Len(calls) \/ i - Len(calls) \in 1..Len(new)
         /\ \A k : \A n \in 0..Len(calls) : \A m \in Nat : n <= m /\ Covered(k, n) => Covered(k, m)'
         /\ \A i \in 1..Len(calls) : CallOk(calls[i], i)'
         /\ SyncCalls # {} => (SyncCalls # {})'
<1>1. /\ calls' \in Seq(Calls) /\ Len(calls') = Len(calls) + Len(new)
      /\ Len(calls) \in Nat /\ Len(new) \in Nat
      /\ \A i \in 1..Len(calls) : calls'[i] = calls[i]
      /\ \A i \in 1..Len(new) : calls'[Len(calls) + i] = new[i]
      /\ \A i \in 1..Len(calls') : i \in 1..Len(calls) \/ i - Len(calls) \in 1..Len(new)
  BY ConcatFacts
<1>2. DOMAIN calls' = 1..Len(calls') /\ DOMAIN calls = 1..Len(calls)
  BY <1>1
<1>3. \A i \in 1..Len(new) : Len(calls) + i \in DOMAIN calls'
  BY <1>1, <1>2
<1>4. ASSUME NEW k, NEW n \in 0..Len(calls), NEW m \in Nat, n <= m, Covered(k, n)
      PROVE  Covered(k, m)'
  <2>1. CASE k <= head
    BY <2>1 DEF Covered
  <2>2. CASE ~(k <= head)
    <3>1. PICK j \in 1..n : calls[j].from = Sync /\ calls[j].block = k
      BY <1>4, <2>2 DEF Covered
    <3>2. j \in 1..Len(calls) /\ j \in 1..m
      BY <1>1, <1>4
    <3>3. calls'[j] = calls[j]
      BY <1>1, <3>2
    <3> QED BY <3>1, <3>2, <3>3 DEF Covered
  <2> QED BY <2>1, <2>2
<1>5. ASSUME NEW i \in 1..Len(calls) PROVE CallOk(calls[i], i)'
  <2>1. CallOk(calls[i], i) /\ calls'[i] = calls[i]
    BY <1>1 DEF CallsOk
  <2>2. i - 1 \in 0..Len(calls) /\ i - 1 \in Nat /\ i - 1 <= i - 1
    BY <1>1
  <2>3. \A k : Covered(k, i - 1) => Covered(k, i - 1)'
    BY <1>4, <2>2
  <2> QED BY <2>1, <2>3 DEF CallOk
<1>6. ASSUME SyncCalls # {} PROVE (SyncCalls # {})'
  <2>1. PICK j \in DOMAIN calls : calls[j].from = Sync
    BY <1>6 DEF SyncCalls
  <2>2. j \in DOMAIN calls' /\ calls'[j].from = Sync
    BY <1>1, <1>2, <2>1
  <2> QED BY <2>2 DEF SyncCalls
<1> QED BY <1>1, <1>3, <1>4, <1>5, <1>6

(* process_backlog_of_sync_blocks while the chain has enough to do.        *)
LEMMA BacklogWaits ==
  ASSUME SyncInv, process_backlog_of_sync_blocks, Cardinality(SyncCalls) >= MaxHandle
  PROVE  SyncInv'
<1> DEFINE n == [node EXCEPT !.backlog = FALSE]
           S == [Here EXCEPT !.node = n]
<1>1. /\ Here \in TaskState /\ node \in NodeType /\ Good(Here, fromPeer, Reached)
      /\ fromPeer \in [Peers -> Seq(FromMessages)] /\ behind \in [Peers -> BOOLEAN]
      /\ Here.pr = pr /\ Here.node = node /\ Here.out = toPeer /\ Here.blamed = blamed
  BY DEF SyncInv, TypeInv, TaskState, Here
<1>2. node' = n /\ UNCHANGED <<pr, toPeer, blamed, calls, head, fromPeer, height, behind>>
  BY DEF process_backlog_of_sync_blocks
<1>3. /\ n \in NodeType /\ n.active_sync_requests = node.active_sync_requests
      /\ n.recent = node.recent
  BY <1>1 DEF NodeType
<1> HIDE DEF n
<1>4. /\ S \in TaskState /\ S.node = n /\ S.pr = pr /\ S.out = toPeer /\ S.blamed = blamed
  BY <1>1, <1>3, SetNode
<1> HIDE DEF S
<1>5. SyncCalls # {}
  <2>1. Cardinality({}) = 0
    BY FS_EmptySet
  <2>2. MaxHandle \in Nat \ {0}
    BY BoundAssumption
  <2> QED BY <2>1, <2>2
<1>6. Good(S, fromPeer, Reached)
  BY <1>1, <1>3, <1>4, <1>5 DEF Good, RequestsOk, NodeOk
<1>7. Install(S)
  BY <1>2, <1>4 DEF Install
<1> QED BY <1>1, <1>2, <1>6, <1>7, TaskStep

(* process_backlog_of_sync_blocks                                          *)
LEMMA BacklogStep ==
  ASSUME SyncInv, process_backlog_of_sync_blocks
  PROVE  SyncInv'
<1> DEFINE all == Reverse(node.new_received) \o node.received
           G == CHOOSE g : IsRounds(g, all)
           B == G[Len(all) + 1]
           full == BacklogFull(Cardinality(SyncCalls) + Len(B.started), Len(B.received))
           S == [Here EXCEPT !.pr = B.pr, !.node.backlog = FALSE, !.node.new_received = <<>>,
                             !.node.received = B.received, !.node.suspend = full]
           n == [node EXCEPT !.backlog = FALSE, !.new_received = <<>>, !.received = B.received,
                             !.suspend = full]
           T == IF full THEN S ELSE TriggerSync(S)
           new == [i \in DOMAIN B.started |-> Call(Sync, B.started[i])]
<1> SUFFICES ASSUME ~(Cardinality(SyncCalls) >= MaxHandle) PROVE SyncInv'
  BY BacklogWaits
<1>1. /\ Here \in TaskState /\ node \in NodeType /\ Good(Here, fromPeer, Reached) /\ TypeInv
      /\ fromPeer \in [Peers -> Seq(FromMessages)] /\ behind \in [Peers -> BOOLEAN]
      /\ Here.pr = pr /\ Here.node = node /\ Here.out = toPeer /\ Here.blamed = blamed
      /\ head \in 0..MaxBlock /\ height \in [Peers -> 0..MaxBlock] /\ calls \in Seq(Calls) /\ CallsOk
  BY DEF SyncInv, TypeInv, TaskState, Here
<1>2. /\ Install(T) /\ calls' = calls \o new /\ UNCHANGED <<head, fromPeer, height, behind>>
  BY DEF process_backlog_of_sync_blocks, IsRounds
<1>3. all \in Seq(Blocks)
  <2>1. node.new_received \in Seq(Blocks) /\ node.received \in Seq(Blocks)
    BY <1>1 DEF NodeType
  <2>2. Reverse(node.new_received) \in Seq(Blocks)
    BY <2>1 DEF Reverse
  <2> QED BY <2>1, <2>2, ConcatFacts
<1> HIDE DEF all
<1>4. RoundOk(B)
  <2> HIDE DEF G
  <2>1. G = CHOOSE g : IsRounds(g, all)
    BY DEF G
  <2> QED BY <1>1, <1>3, <2>1, RoundsGood
<1> HIDE DEF B
<1>5. /\ B.pr \in [Peers -> PeerType] /\ B.received \in Seq(Blocks) /\ B.started \in Seq(Blocks)
      /\ \A p \in Peers : /\ PeerOk(B.pr[p], toPeer[p], fromPeer[p], height[p], SoFar(B.started))
                          /\ SameRequests(pr[p], B.pr[p])
      /\ \A j \in 1..Len(B.started) : \A k \in 1..(B.started[j] - 1) :
           Sound(k) => HandedOver(k, B.started, j - 1)
  BY <1>4 DEF RoundOk, Backlogs
<1>6. full \in BOOLEAN
  BY DEF BacklogFull
<1>7. full => SyncCalls # {} \/ Len(B.started) # 0
  <2>1. Cardinality({}) = 0
    BY FS_EmptySet
  <2>2. MaxHandle \in Nat \ {0}
    BY BoundAssumption
  <2>3. ASSUME full, SyncCalls = {}, Len(B.started) = 0 PROVE FALSE
    <3>1. Cardinality(SyncCalls) = 0
      BY <2>1, <2>3
    <3>2. Cardinality(SyncCalls) + Len(B.started) >= MaxHandle
      BY <2>3 DEF BacklogFull
    <3>3. 0 + 0 >= MaxHandle
      BY <2>3, <3>1, <3>2
    <3> QED BY <2>2, <3>3
  <2> QED BY <2>3
<1> HIDE DEF full
<1>8. S = [Here EXCEPT !.pr = B.pr, !.node = n]
  BY <1>1 DEF TaskState
<1>9. /\ n \in NodeType /\ n.active_sync_requests = node.active_sync_requests
      /\ n.recent = node.recent /\ n.suspend = full
  <2>1. n \in NodeType
    <3> DEFINE x == [node EXCEPT !.backlog = FALSE, !.new_received = <<>>]
    <3>1. x \in NodeType
      <4>1. <<>> \in Seq(Blocks)
        OBVIOUS
      <4> QED BY <1>1, <4>1 DEF NodeType
    <3>2. n = [x EXCEPT !.received = B.received, !.suspend = full]
      OBVIOUS
    <3> HIDE DEF x, n
    <3> QED BY <1>5, <1>6, <3>1, <3>2 DEF NodeType
  <2>2. n.active_sync_requests = node.active_sync_requests /\ n.recent = node.recent
    BY <1>1 DEF NodeType
  <2>3. n.suspend = full
    BY <1>1 DEF NodeType
  <2> QED BY <2>1, <2>2, <2>3
<1> HIDE DEF n, S
<1>10. /\ S \in TaskState /\ S.node = n /\ S.pr = B.pr /\ S.out = toPeer /\ S.blamed = blamed
  BY <1>1, <1>5, <1>8, <1>9 DEF TaskState
<1>11. /\ T \in TaskState /\ T.pr = B.pr /\ T.out = toPeer /\ T.blamed = blamed
       /\ T.node.active_sync_requests = node.active_sync_requests
       /\ T.node.recent = node.recent /\ T.node.suspend = full
  <2>1. CASE full
    BY <1>9, <1>10, <2>1
  <2>2. CASE ~full
    <3>1. T = TriggerSync(S)
      BY <2>2
    <3> HIDE DEF T
    <3> QED BY <1>9, <1>10, <3>1, TriggerDoes DEF KeepsNode
  <2> QED BY <2>1, <2>2
<1> HIDE DEF T
<1>12. /\ new \in Seq(Calls) /\ Len(new) = Len(B.started)
       /\ \A j \in 1..Len(B.started) : new[j] = Call(Sync, B.started[j])
  <2>1. \A j \in 1..Len(B.started) : Call(Sync, B.started[j]) \in Calls
    <3>1. \A j \in 1..Len(B.started) : B.started[j] \in Blocks
      BY <1>5
    <3> QED BY <3>1 DEF Call, Calls, Results
  <2>2. DOMAIN B.started = 1..Len(B.started) /\ Len(B.started) \in Nat
    BY <1>5
  <2> QED BY <2>1, <2>2
<1> HIDE DEF new
<1>13. /\ calls' \in Seq(Calls) /\ Len(calls') = Len(calls) + Len(B.started)
       /\ \A i \in 1..Len(B.started) : /\ calls'[Len(calls) + i] = Call(Sync, B.started[i])
                                       /\ Len(calls) + i \in DOMAIN calls'
       /\ \A i \in 1..Len(calls') : i \in 1..Len(calls) \/ i - Len(calls) \in 1..Len(B.started)
       /\ \A k : \A x \in 0..Len(calls) : \A m \in Nat : x <= m /\ Covered(k, x) => Covered(k, m)'
       /\ \A i \in 1..Len(calls) : CallOk(calls[i], i)'
       /\ SyncCalls # {} => (SyncCalls # {})'
  <2>1. head' = head /\ height' = height /\ calls' = calls \o new
    BY <1>2
  <2> QED BY <1>1, <1>12, <2>1, CallsFollow
<1>14. PICK L : L = Len(calls)
  OBVIOUS
<1>30. L \in Nat /\ Len(B.started) \in Nat /\ L \in 0..L
  BY <1>1, <1>5, <1>14
<1>15. \A b : Call(Sync, b).from = Sync /\ Call(Sync, b).block = b /\ Call(Sync, b).result = "waiting"
  BY DEF Call
<1>16. ASSUME NEW k, NEW j \in 0..Len(B.started), HandedOver(k, B.started, j)
       PROVE  Covered(k, L + j)'
  <2>0. L + j \in Nat /\ L <= L + j
    BY <1>30
  <2>1. CASE Covered(k, Len(calls))
    <3>1. Covered(k, L) /\ L \in 0..Len(calls)
      BY <1>14, <1>30, <2>1
    <3> QED BY <1>13, <2>0, <3>1
  <2>2. CASE ~Covered(k, Len(calls))
    <3>1. PICK i \in 1..j : B.started[i] = k
      BY <1>16, <2>2 DEF HandedOver
    <3>2. i \in 1..Len(B.started) /\ L + i \in 1..(L + j)
      BY <1>30
    <3>3. calls'[L + i] = Call(Sync, k)
      BY <1>13, <1>14, <3>1, <3>2
    <3> QED BY <1>15, <3>2, <3>3 DEF Covered
  <2> QED BY <2>1, <2>2
<1>17. SoFar(B.started) \subseteq Reached'
  <2>1. Len(B.started) \in 0..Len(B.started)
    BY <1>30
  <2>2. PICK M : M = Len(B.started)
    OBVIOUS
  <2>3. Len(calls') = L + M
    BY <1>13, <1>14, <2>2
  <2>4. ASSUME NEW k, HandedOver(k, B.started, Len(B.started)) PROVE Covered(k, Len(calls))'
    <3>1. Covered(k, L + M)'
      BY <1>16, <2>1, <2>2, <2>4
    <3> QED BY <2>3, <3>1 DEF Covered
  <2> QED BY <2>4 DEF SoFar, Reached
<1>18. ASSUME NEW i \in 1..Len(calls') PROVE CallOk(calls[i], i)'
  <2>1. CASE i \in 1..Len(calls)
    BY <1>13, <2>1
  <2>2. CASE i - Len(calls) \in 1..Len(B.started)
    <3>1. PICK j \in 1..Len(B.started) : j = i - L
      BY <1>14, <2>2
    <3>2. i \in Nat
      BY <1>13
    <3>3. L + j = i /\ j - 1 \in 0..Len(B.started) /\ L + (j - 1) = i - 1
      BY <1>30, <3>1, <3>2
    <3>4. calls'[i] = Call(Sync, B.started[j])
      BY <1>13, <1>14, <3>3
    <3>5. /\ calls'[i].from = Sync /\ calls'[i].block = B.started[j]
          /\ calls'[i].result = "waiting"
      BY <1>15, <3>4
    <3>6. ASSUME NEW k \in 1..(calls'[i].block - 1), Sound(k) PROVE Covered(k, i - 1)'
      <4>1. HandedOver(k, B.started, j - 1)
        BY <1>5, <3>5, <3>6
      <4>2. Covered(k, L + (j - 1))'
        BY <1>16, <3>3, <4>1
      <4> QED BY <3>3, <4>2
    <3> QED BY <3>5, <3>6 DEF CallOk
  <2> QED BY <1>13, <2>1, <2>2
<1>19. full => (SyncCalls # {})'
  <2>1. CASE Len(B.started) # 0
    <3>1. 1 \in 1..Len(B.started)
      BY <1>30, <2>1
    <3>2. Len(calls) + 1 \in DOMAIN calls' /\ calls'[Len(calls) + 1].from = Sync
      BY <1>13, <1>15, <3>1
    <3> QED BY <3>2 DEF SyncCalls
  <2> QED BY <1>7, <1>13, <2>1
<1>20. /\ \A p \in Peers : PeerOk(T.pr[p], T.out[p], fromPeer[p], height[p], SoFar(B.started))
       /\ BlamedOk(T.blamed) /\ \A b \in T.node.recent : b <= head
  BY <1>1, <1>5, <1>11 DEF Good, NodeOk
<1>21. RequestsOk(T)
  <2>1. \A p \in Peers : T.pr[p].sync_items_requested = pr[p].sync_items_requested
    BY <1>5, <1>11 DEF SameRequests
  <2>2. RequestsOk(Here) /\ Here.pr = pr /\ Here.node = node
    BY <1>1 DEF Good
  <2> QED BY <1>11, <2>1, <2>2 DEF RequestsOk
<1>22. head' = head /\ height' = height /\ head <= head /\ \A p \in Peers : height[p] <= height[p]
  BY <1>1, <1>2, BoundAssumption
<1>23. T.node.suspend => (SyncCalls # {})'
  BY <1>11, <1>19
<1>24. Good(Here, fromPeer, Reached)'
  <2>1. fromPeer' = fromPeer
    BY <1>2
  <2> QED BY <1>1, <1>2, <1>11, <1>17, <1>20, <1>21, <1>22, <1>23, <2>1, GoodLater
<1>25. Here' \in TaskState
  BY <1>2, <1>11 DEF Here, Install, TaskState
<1> QED BY <1>1, <1>2, <1>13, <1>18, <1>24, <1>25 DEF SyncInv, TypeInv, CallsOk

-----------------------------------------------------------------------------
(* The chain                                                               *)

(* What the chain can take is in it when the chain is done with it.        *)
LEMMA DoneIsIn ==
  ASSUME calls \in Seq(Calls), CallsOk, NEW i \in 1..Len(calls), calls[i].from = Sync,
         calls[i].result # "waiting"
  PROVE  Sound(calls[i].block) => calls[i].block <= head
<1>1. CallOk(calls[i], i) /\ calls[i] \in Calls
  BY DEF CallsOk
<1>2. calls[i].result \in {"accepted", "refused", "unlinkable"} /\ calls[i].block \in Blocks
  BY <1>1 DEF Calls, Results
<1>3. CASE calls[i].result = "accepted"
  BY <1>1, <1>3 DEF CallOk
<1>4. CASE calls[i].result = "refused"
  <2>1. calls[i].block \in Refused /\ calls[i].block <= calls[i].block
    BY <1>1, <1>2, <1>4, BoundAssumption DEF CallOk, Blocks
  <2> QED BY <2>1 DEF Sound
<1>5. CASE calls[i].result = "unlinkable"
  BY <1>1, <1>5 DEF CallOk
<1> QED BY <1>2, <1>3, <1>4, <1>5

(* The chain takes a block of the backlog when it has all that it builds   *)
(* on; only behind a refused one it does not.                              *)
LEMMA NextIsLinked ==
  ASSUME calls \in Seq(Calls), CallsOk, head \in 0..MaxBlock, NEW i \in 1..Len(calls),
         calls[i].from = Sync, \A j \in 1..(i - 1) : calls[j].result # "waiting",
         NEW b, b = calls[i].block, Sound(b)
  PROVE  b <= head + 1
<1>1. b \in Blocks /\ CallOk(calls[i], i) /\ Len(calls) \in Nat
  <2>1. calls[i] \in Calls
    OBVIOUS
  <2>2. calls[i].block \in Blocks
    BY <2>1 DEF Calls
  <2> QED BY <2>2 DEF CallsOk
<1>2. b \in Nat \ {0} /\ head \in Nat
  BY <1>1, BoundAssumption DEF Blocks
<1>3. CASE b = 1
  BY <1>2, <1>3
<1>4. CASE b # 1
  <2>1. b - 1 \in 1..(b - 1)
    BY <1>2, <1>4
  <2>2. Sound(b - 1)
    <3>1. ASSUME NEW r \in Refused, r <= b - 1 PROVE r <= b
      <4>1. r \in Nat
        BY BoundAssumption
      <4> QED BY <1>2, <3>1, <4>1
    <3> QED BY <3>1 DEF Sound
  <2>3. Covered(b - 1, i - 1)
    BY <1>1, <2>1, <2>2 DEF CallOk
  <2>4. b - 1 <= head
    <3>1. CASE ~(b - 1 <= head)
      <4>1. PICK j \in 1..(i - 1) : calls[j].from = Sync /\ calls[j].block = b - 1
        BY <2>3, <3>1 DEF Covered
      <4>2. j \in 1..Len(calls)
        BY <1>1
      <4> QED BY <2>2, <4>1, <4>2, DoneIsIn
    <3> QED BY <3>1
  <2> QED BY <1>2, <2>4
<1> QED BY <1>3, <1>4

(* handle_block                                                            *)
LEMMA ChainStep ==
  ASSUME SyncInv, handle_block
  PROVE  SyncInv'
<1> DEFINE waiting == {j \in DOMAIN calls : calls[j].result = "waiting"}
           i == Min(waiting)
           b == calls[i].block
           res == CASE b \in Refused -> "refused"
                    [] b \notin Refused /\ b <= head + 1 -> "accepted"
                    [] OTHER -> "unlinkable"
<1>1. /\ waiting # {} /\ calls' = [calls EXCEPT ![i].result = res]
      /\ head' = IF b \notin Refused /\ b = head + 1 THEN b ELSE head
      /\ UNCHANGED <<pr, node, toPeer, fromPeer, height, behind, blamed>>
  BY DEF handle_block
<1>2. /\ TypeInv /\ Here \in TaskState /\ fromPeer \in [Peers -> Seq(FromMessages)]
      /\ behind \in [Peers -> BOOLEAN] /\ Good(Here, fromPeer, Reached)
      /\ head \in 0..MaxBlock /\ height \in [Peers -> 0..MaxBlock]
      /\ calls \in Seq(Calls) /\ CallsOk
  BY DEF SyncInv, TypeInv
<1>3. DOMAIN calls = 1..Len(calls) /\ Len(calls) \in Nat
  BY <1>2
<1>4. i \in waiting /\ \A j \in waiting : i <= j
  <2>1. waiting \in SUBSET Nat
    BY <1>3
  <2> HIDE DEF waiting
  <2> QED BY <1>1, <2>1, MinIsIn
<1> HIDE DEF i
<1>5. i \in 1..Len(calls) /\ calls[i].result = "waiting" /\ calls[i] \in Calls
  BY <1>2, <1>3, <1>4
<1>6. \A j \in 1..(i - 1) : calls[j].result # "waiting"
  <2> SUFFICES ASSUME NEW j \in 1..(i - 1), calls[j].result = "waiting" PROVE FALSE
    OBVIOUS
  <2>1. j \in DOMAIN calls /\ j \in Nat /\ i \in Nat /\ ~(i <= j)
    BY <1>3, <1>5
  <2> QED BY <1>4, <2>1
<1> HIDE DEF waiting
<1>7. b \in Blocks /\ calls[i].from \in Peers \cup {Sync}
  BY <1>5 DEF Calls
<1> HIDE DEF b
<1>8. res \in Results
  BY DEF Results
<1>9. res = "refused" => b \in Refused
  OBVIOUS
<1>10. res = "accepted" => b \notin Refused /\ b <= head + 1
  OBVIOUS
<1>11. res = "unlinkable" => b \notin Refused /\ ~(b <= head + 1)
  OBVIOUS
<1> HIDE DEF res
<1>12. head' \in 0..MaxBlock /\ head <= head' /\ (res = "accepted" => b <= head')
  <2>1. head \in Nat /\ b \in 0..MaxBlock /\ b \in Nat /\ MaxBlock \in Nat
    BY <1>2, <1>7, BoundAssumption DEF Blocks
  <2>2. CASE b \notin Refused /\ b = head + 1
    BY <1>1, <2>1, <2>2
  <2>3. CASE ~(b \notin Refused /\ b = head + 1)
    <3>1. head' = head
      BY <1>1, <2>3
    <3> QED BY <1>2, <1>10, <2>1, <2>3, <3>1
  <2> QED BY <2>2, <2>3
<1>13. /\ calls' \in Seq(Calls) /\ Len(calls') = Len(calls) /\ DOMAIN calls' = DOMAIN calls
       /\ \A j \in 1..Len(calls) : /\ calls'[j].from = calls[j].from /\ calls'[j].block = calls[j].block
                                   /\ calls'[j].result = IF j = i THEN res ELSE calls[j].result
  <2> DEFINE c == [calls[i] EXCEPT !.result = res]
  <2>1. c \in Calls /\ c.from = calls[i].from /\ c.block = calls[i].block /\ c.result = res
    BY <1>5, <1>8 DEF Calls
  <2>2. calls' = [calls EXCEPT ![i] = c]
    BY <1>1
  <2> HIDE DEF c
  <2>3. calls' \in Seq(Calls) /\ Len(calls') = Len(calls) /\ DOMAIN calls' = DOMAIN calls
    BY <1>2, <1>3, <1>5, <2>1, <2>2
  <2>4. \A j \in 1..Len(calls) : calls'[j] = IF j = i THEN c ELSE calls[j]
    BY <1>3, <2>2
  <2> QED BY <2>1, <2>3, <2>4
<1>14. ASSUME NEW k \in Nat, NEW n \in 0..Len(calls), Covered(k, n) PROVE Covered(k, n)'
  <2>1. CASE k <= head
    <3>1. k <= head'
      <4>1. head \in Nat /\ head' \in Nat
        BY <1>2, <1>12, BoundAssumption
      <4> QED BY <1>12, <2>1, <4>1
    <3> QED BY <3>1 DEF Covered
  <2>2. CASE ~(k <= head)
    <3>1. PICK j \in 1..n : calls[j].from = Sync /\ calls[j].block = k
      BY <1>14, <2>2 DEF Covered
    <3>2. j \in 1..Len(calls)
      BY <1>3
    <3> QED BY <1>13, <3>1, <3>2 DEF Covered
  <2> QED BY <2>1, <2>2
<1>15. Reached \subseteq Reached'
  <2> SUFFICES ASSUME NEW c \in Reached PROVE c \in Reached'
    OBVIOUS
  <2>1. PICK L : L = Len(calls)
    OBVIOUS
  <2>2. L \in 0..Len(calls) /\ Len(calls') = L /\ c \in 0..MaxBlock
    BY <1>3, <1>13, <2>1 DEF Reached
  <2>3. ASSUME NEW k \in 1..c, Sound(k) PROVE Covered(k, Len(calls))'
    <3>1. Covered(k, L) /\ k \in Nat
      BY <2>1, <2>2, <2>3, BoundAssumption DEF Reached
    <3>2. Covered(k, L)'
      BY <1>14, <2>2, <3>1
    <3> QED BY <2>2, <3>2 DEF Covered
  <2> QED BY <2>2, <2>3 DEF Reached
<1>16. ASSUME NEW j \in 1..Len(calls') PROVE CallOk(calls[j], j)'
  <2>1. j \in 1..Len(calls) /\ CallOk(calls[j], j) /\ calls[j] \in Calls
    BY <1>2, <1>13 DEF CallsOk
  <2>2. calls[j].block \in Blocks /\ calls[j].block \in Nat /\ head \in Nat /\ head' \in Nat
    BY <1>2, <1>12, <2>1, BoundAssumption DEF Calls, Blocks
  <2>3. ASSUME calls'[j].from = Sync, NEW k \in 1..(calls'[j].block - 1), Sound(k)
        PROVE  Covered(k, j - 1)'
    <3>1. Covered(k, j - 1) /\ k \in Nat /\ j - 1 \in 0..Len(calls)
      BY <1>3, <1>13, <2>1, <2>2, <2>3 DEF CallOk
    <3> QED BY <1>14, <3>1
  <2>4. calls'[j].from # Sync => calls'[j].block <= height'[calls'[j].from]
    BY <1>1, <1>13, <2>1 DEF CallOk
  <2>5. calls'[j].result = "accepted" => calls'[j].block <= head'
    <3>1. CASE j = i
      BY <1>12, <1>13, <2>1, <3>1 DEF b
    <3>2. CASE j # i
      BY <1>12, <1>13, <2>1, <2>2, <3>2 DEF CallOk
    <3> QED BY <3>1, <3>2
  <2>6. calls'[j].result = "refused" => calls'[j].block \in Refused
    BY <1>9, <1>13, <2>1 DEF CallOk, b
  <2>7. calls'[j].from = Sync /\ calls'[j].result = "unlinkable" => ~Sound(calls'[j].block)
    <3>1. CASE j = i
      <4>1. calls'[j].from = calls[i].from /\ calls'[j].block = b /\ calls'[j].result = res
        BY <1>13, <2>1, <3>1 DEF b
      <4>2. calls[i].from = Sync /\ Sound(b) => b <= head + 1
        BY <1>2, <1>5, <1>6, NextIsLinked DEF b
      <4> QED BY <1>11, <4>1, <4>2
    <3>2. CASE j # i
      BY <1>13, <2>1, <3>2 DEF CallOk
    <3> QED BY <3>1, <3>2
  <2> QED BY <2>3, <2>4, <2>5, <2>6, <2>7 DEF CallOk
<1>17. SyncCalls' = SyncCalls
  BY <1>3, <1>13 DEF SyncCalls
<1>18. Install(Here) /\ fromPeer' = fromPeer /\ height' = height
       /\ \A p \in Peers : height[p] <= height[p]
  BY <1>1, <1>2, BoundAssumption DEF Install, Here
<1>19. Good(Here, fromPeer, Reached)'
  <2>1. /\ RequestsOk(Here) /\ BlamedOk(Here.blamed) /\ \A c \in Here.node.recent : c <= head
        /\ \A p \in Peers : PeerOk(Here.pr[p], Here.out[p], fromPeer[p], height[p], Reached)
        /\ Here.node.suspend => Here.node.backlog \/ (SyncCalls # {})'
    BY <1>2, <1>17 DEF Good, NodeOk
  <2> QED BY <1>2, <1>12, <1>15, <1>18, <2>1, GoodLater
<1>20. Here' = Here
  BY <1>1 DEF Here
<1> QED BY <1>1, <1>2, <1>12, <1>13, <1>16, <1>19, <1>20 DEF SyncInv, TypeInv, CallsOk

(* The caller of the first call goes on: what is left is still in order.   *)
LEMMA CallReturns ==
  ASSUME SyncInv, calls # <<>>, calls' = Tail(calls), calls[1].result # "waiting",
         UNCHANGED <<head, height, fromPeer, behind>>, NEW S, Install(S),
         Good(S, fromPeer, Reached), S.node.backlog \/ calls[1].from # Sync
  PROVE  SyncInv'
<1>1. /\ TypeInv /\ fromPeer \in [Peers -> Seq(FromMessages)] /\ behind \in [Peers -> BOOLEAN]
      /\ head \in 0..MaxBlock /\ height \in [Peers -> 0..MaxBlock]
      /\ calls \in Seq(Calls) /\ CallsOk
  BY DEF SyncInv, TypeInv
<1>2. /\ calls' \in Seq(Calls) /\ Len(calls') = Len(calls) - 1 /\ Len(calls) \in Nat \ {0}
      /\ \A i \in 1..Len(calls') : calls'[i] = calls[i + 1] /\ i + 1 \in 1..Len(calls)
      /\ 1 \in 1..Len(calls)
  BY <1>1, TailFacts
<1>3. ASSUME NEW k, NEW n \in 1..Len(calls), Sound(k), Covered(k, n) PROVE Covered(k, n - 1)'
  <2>1. CASE k <= head
    BY <2>1 DEF Covered
  <2>2. CASE ~(k <= head)
    <3>1. PICK j \in 1..n : calls[j].from = Sync /\ calls[j].block = k
      BY <1>3, <2>2 DEF Covered
    <3>2. j # 1
      BY <1>1, <1>2, <1>3, <2>2, <3>1, DoneIsIn
    <3>3. j - 1 \in 1..(n - 1) /\ j - 1 \in 1..Len(calls') /\ (j - 1) + 1 = j
      BY <1>2, <3>1, <3>2
    <3>4. calls'[j - 1] = calls[j]
      BY <1>2, <3>3
    <3> QED BY <3>1, <3>3, <3>4 DEF Covered
  <2> QED BY <2>1, <2>2
<1>4. Reached \subseteq Reached'
  <2> SUFFICES ASSUME NEW c \in Reached PROVE c \in Reached'
    OBVIOUS
  <2>1. PICK L : L = Len(calls)
    OBVIOUS
  <2>2. L \in 1..Len(calls) /\ Len(calls') = L - 1 /\ c \in 0..MaxBlock
    BY <1>2, <2>1 DEF Reached
  <2>3. ASSUME NEW k \in 1..c, Sound(k) PROVE Covered(k, Len(calls))'
    <3>1. Covered(k, L)
      BY <2>1, <2>3 DEF Reached
    <3>2. Covered(k, L - 1)'
      BY <1>3, <2>2, <2>3, <3>1
    <3> QED BY <2>2, <3>2 DEF Covered
  <2> QED BY <2>2, <2>3 DEF Reached
<1>5. ASSUME NEW i \in 1..Len(calls') PROVE CallOk(calls[i], i)'
  <2>1. i + 1 \in 1..Len(calls) /\ calls'[i] = calls[i + 1] /\ (i + 1) - 1 = i
    BY <1>2
  <2>2. CallOk(calls[i + 1], i + 1)
    BY <1>1, <2>1 DEF CallsOk
  <2>3. ASSUME calls'[i].from = Sync, NEW k \in 1..(calls'[i].block - 1), Sound(k)
        PROVE  Covered(k, i - 1)'
    <3>1. Covered(k, (i + 1) - 1)
      BY <2>1, <2>2, <2>3 DEF CallOk
    <3>2. Covered(k, i) /\ i \in 1..Len(calls)
      BY <1>2, <2>1, <3>1
    <3> QED BY <1>3, <2>3, <3>2
  <2> QED BY <2>1, <2>2, <2>3 DEF CallOk
<1>6. S.node.suspend => S.node.backlog \/ (SyncCalls # {})'
  <2> SUFFICES ASSUME S.node.suspend, ~S.node.backlog PROVE (SyncCalls # {})'
    OBVIOUS
  <2>1. SyncCalls # {}
    BY DEF Good, NodeOk
  <2>2. PICK j \in DOMAIN calls : calls[j].from = Sync
    BY <2>1 DEF SyncCalls
  <2>3. j \in 1..Len(calls) /\ j # 1
    BY <1>1, <2>2
  <2>4. j - 1 \in 1..Len(calls') /\ (j - 1) + 1 = j
    BY <1>2, <2>3
  <2>5. calls'[j - 1] = calls[j] /\ j - 1 \in DOMAIN calls'
    BY <1>2, <2>4
  <2> QED BY <2>2, <2>5 DEF SyncCalls
<1>7. head' = head /\ height' = height /\ head <= head /\ fromPeer' = fromPeer
      /\ \A p \in Peers : height[p] <= height[p]
  BY <1>1, BoundAssumption
<1>8. Good(Here, fromPeer, Reached)'
  <2>1. /\ S \in TaskState /\ RequestsOk(S) /\ BlamedOk(S.blamed) /\ \A b \in S.node.recent : b <= head
        /\ \A p \in Peers : PeerOk(S.pr[p], S.out[p], fromPeer[p], height[p], Reached)
    BY DEF Good, NodeOk
  <2> QED BY <1>1, <1>4, <1>6, <1>7, <2>1, GoodLater
<1>9. Here' \in TaskState
  BY DEF Here, Install, Good, TaskState
<1> QED BY <1>1, <1>2, <1>5, <1>7, <1>8, <1>9 DEF SyncInv, TypeInv, CallsOk

(* send_sync_block_to_node_delegate                                        *)
LEMMA SyncReturns ==
  ASSUME SyncInv, send_sync_block_to_node_delegate
  PROVE  SyncInv'
<1> DEFINE b == calls[1].block
           S == IF calls[1].result = "accepted" THEN SyncBlockAccepted(Here, b)
                ELSE SyncBlockRefused(Here, b)
           T == TriggerBacklog(S)
<1>1. /\ calls # <<>> /\ calls[1].from = Sync /\ calls[1].result # "waiting"
      /\ Install(T) /\ calls' = Tail(calls) /\ UNCHANGED <<head, height, fromPeer, behind>>
  BY DEF send_sync_block_to_node_delegate
<1>2. /\ Good(Here, fromPeer, Reached) /\ head \in 0..MaxBlock
      /\ height \in [Peers -> 0..MaxBlock] /\ calls \in Seq(Calls) /\ CallsOk
  BY DEF SyncInv, TypeInv
<1>3. 1 \in 1..Len(calls) /\ calls[1] \in Calls
  BY <1>1, <1>2
<1>4. b \in Blocks /\ (Sound(b) => b <= head) /\ Grown(Reached)
      /\ calls[1].result \in {"accepted", "refused", "unlinkable"}
  BY <1>1, <1>2, <1>3, DoneIsIn, ReachedGrown DEF Calls, Results
<1>5. CallOk(calls[1], 1)
  BY <1>2, <1>3 DEF CallsOk
<1>6. Good(S, fromPeer, Reached)
  <2>1. CASE calls[1].result = "accepted"
    <3>1. b <= head
      BY <1>5, <2>1 DEF CallOk
    <3> HIDE DEF b
    <3> QED BY <1>2, <1>4, <2>1, <3>1, AcceptedGood
  <2>2. CASE calls[1].result # "accepted"
    <3>1. ~Sound(b)
      <4>1. CASE calls[1].result = "refused"
        <5>1. b \in Refused /\ b <= b
          BY <1>4, <1>5, <4>1, BoundAssumption DEF CallOk, Blocks
        <5> QED BY <5>1 DEF Sound
      <4>2. CASE calls[1].result = "unlinkable"
        BY <1>1, <1>5, <4>2 DEF CallOk
      <4> QED BY <1>4, <2>2, <4>1, <4>2
    <3> HIDE DEF b
    <3> QED BY <1>2, <1>4, <2>2, <3>1, RefusedGood
  <2> QED BY <2>1, <2>2
<1> HIDE DEF S
<1>7. Good(T, fromPeer, Reached)
  BY <1>6, TriggerGood
<1>8. T.node.backlog
  <2>1. S \in TaskState
    BY <1>6 DEF Good
  <2> QED BY <2>1 DEF TaskState, NodeType, TriggerBacklog
<1> HIDE DEF T
<1> QED BY <1>1, <1>7, <1>8, CallReturns

(* process_block_during_normal_operation                                   *)
LEMMA NormalReturns ==
  ASSUME SyncInv, process_block_during_normal_operation
  PROVE  SyncInv'
<1> DEFINE b == calls[1].block
           p == calls[1].from
           next == {q \in Peers : IsNext(pr[q], b)}
           S == CASE calls[1].result = "accepted"   -> BroadcastBlock(Here, b)
                  [] calls[1].result = "unlinkable" -> start_synchronizing_with_peer(Here, p)
                  [] calls[1].result = "refused"    -> ForEach(Here, next \cup {p}, BlameRefused)
           T == AfterItem(S, p)
<1>1. /\ calls # <<>> /\ calls[1].from # Sync /\ calls[1].result # "waiting"
      /\ Install(T) /\ calls' = Tail(calls) /\ UNCHANGED <<head, height, fromPeer, behind>>
  BY DEF process_block_during_normal_operation
<1>2. /\ Good(Here, fromPeer, Reached) /\ head \in 0..MaxBlock
      /\ height \in [Peers -> 0..MaxBlock] /\ calls \in Seq(Calls) /\ CallsOk
      /\ pr \in [Peers -> PeerType] /\ Here.pr = pr
  BY DEF SyncInv, TypeInv, TaskState, Here
<1>3. 1 \in 1..Len(calls) /\ calls[1] \in Calls
  BY <1>1, <1>2
<1>4. b \in Blocks /\ p \in Peers /\ Grown(Reached)
      /\ calls[1].result \in {"accepted", "refused", "unlinkable"}
  BY <1>1, <1>2, <1>3, ReachedGrown DEF Calls, Results
<1>5. CallOk(calls[1], 1)
  BY <1>2, <1>3 DEF CallsOk
<1>6. Good(S, fromPeer, Reached)
  <2>1. CASE calls[1].result = "accepted"
    <3>1. b <= head
      BY <1>5, <2>1 DEF CallOk
    <3>2. S = BroadcastBlock(Here, b)
      BY <2>1
    <3> HIDE DEF b, S
    <3> QED BY <1>2, <1>4, <3>1, <3>2, BroadcastGood
  <2>2. CASE calls[1].result = "unlinkable"
    <3>1. S = start_synchronizing_with_peer(Here, p)
      BY <2>2
    <3> HIDE DEF p, S
    <3> QED BY <1>2, <1>4, <3>1, AskGood
  <2>3. CASE calls[1].result = "refused"
    <3>1. S = ForEach(Here, next \cup {p}, BlameRefused)
      BY <2>3
    <3>2. b \in Refused
      BY <1>5, <2>3 DEF CallOk
    <3>3. b <= height[p]
      BY <1>1, <1>5 DEF CallOk
    <3>4. ASSUME NEW q \in next PROVE b <= height[q]
      <4>1. /\ q \in Peers /\ pr[q].ids_of_items_to_get # <<>>
            /\ pr[q].ids_of_items_to_get[1] = b /\ pr[q].ids_of_items_to_get \in Seq(Blocks)
        BY <1>2 DEF IsNext, PeerType
      <4>2. PeerOk(pr[q], toPeer[q], fromPeer[q], height[q], Reached)
        BY <1>2, <4>1 DEF Good, Here
      <4>3. 1 \in 1..Len(pr[q].ids_of_items_to_get)
        BY <4>1
      <4> QED BY <4>1, <4>2, <4>3 DEF PeerOk, ListOk
    <3>5. next \cup {p} \in SUBSET Peers
      BY <1>4
    <3> DEFINE peers == next \cup {p}
    <3>6. \A q \in peers : \E r \in Refused : r <= height[q]
      <4> HIDE DEF next, p, b
      <4> QED BY <3>2, <3>3, <3>4
    <3> HIDE DEF peers, S
    <3> QED BY <1>2, <3>1, <3>5, <3>6, BlameGood DEF peers
  <2> QED BY <1>4, <2>1, <2>2, <2>3
<1> HIDE DEF S
<1>7. Good(T, fromPeer, Reached)
  <2> HIDE DEF p
  <2> QED BY <1>6, AfterItemGood
<1> HIDE DEF T
<1> QED BY <1>1, <1>7, CallReturns

-----------------------------------------------------------------------------
(* Messages and connections                                                *)

(* The task of a message waits for the chain.                              *)
LEMMA CallFollows ==
  ASSUME SyncInv, NEW S, Install(S), NEW new, fromPeer' = new,
         new \in [Peers -> Seq(FromMessages)], Good(S, new, Reached),
         UNCHANGED <<head, height, behind>>, NEW p \in Peers, NEW b \in Blocks, b <= height[p],
         calls' = Append(calls, Call(p, b))
  PROVE  SyncInv'
<1> DEFINE more == <<Call(p, b)>>
<1>1. /\ TypeInv /\ behind \in [Peers -> BOOLEAN] /\ head \in 0..MaxBlock
      /\ height \in [Peers -> 0..MaxBlock] /\ calls \in Seq(Calls) /\ CallsOk
  BY DEF SyncInv, TypeInv
<1>2. /\ Call(p, b) \in Calls /\ Call(p, b).from = p /\ Call(p, b).block = b
      /\ Call(p, b).result = "waiting" /\ p # Sync
  BY PeerAssumption DEF Call, Calls, Results
<1>3. more \in Seq(Calls) /\ calls' = calls \o more /\ Len(more) = 1 /\ more[1] = Call(p, b)
  <2>1. more \in Seq(Calls) /\ Len(more) = 1 /\ more[1] = Call(p, b)
    BY <1>2
  <2>2. calls \o more = Append(calls, Call(p, b))
    BY <1>1, <1>2, AppendIsConcat
  <2> QED BY <2>1, <2>2
<1> HIDE DEF more
<1>4. /\ calls' \in Seq(Calls) /\ Len(calls') = Len(calls) + 1
      /\ calls'[Len(calls) + 1] = Call(p, b)
      /\ \A i \in 1..Len(calls') : i \in 1..Len(calls) \/ i - Len(calls) \in 1..1
      /\ \A k : \A n \in 0..Len(calls) : \A m \in Nat : n <= m /\ Covered(k, n) => Covered(k, m)'
      /\ \A i \in 1..Len(calls) : CallOk(calls[i], i)'
      /\ SyncCalls # {} => (SyncCalls # {})'
  <2>1. head' = head /\ height' = height /\ 1 \in 1..1
    OBVIOUS
  <2> QED BY <1>1, <1>3, <2>1, CallsFollow
<1>5. PICK L : L = Len(calls)
  OBVIOUS
<1>6. L \in Nat /\ L \in 0..Len(calls) /\ Len(calls') = L + 1 /\ L + 1 \in Nat /\ L <= L + 1
  BY <1>1, <1>4, <1>5
<1>7. Reached \subseteq Reached'
  <2> SUFFICES ASSUME NEW c \in Reached PROVE c \in Reached'
    OBVIOUS
  <2>1. ASSUME NEW k \in 1..c, Sound(k) PROVE Covered(k, Len(calls))'
    <3>1. Covered(k, L)
      BY <1>5, <2>1 DEF Reached
    <3>2. Covered(k, L + 1)'
      BY <1>4, <1>6, <3>1
    <3> QED BY <1>6, <3>2 DEF Covered
  <2> QED BY <2>1 DEF Reached
<1>8. ASSUME NEW i \in 1..Len(calls') PROVE CallOk(calls[i], i)'
  <2>1. CASE i \in 1..Len(calls)
    BY <1>4, <2>1
  <2>2. CASE i - Len(calls) \in 1..1
    <3>1. i = L + 1
      BY <1>5, <1>6, <2>2
    <3>2. calls'[i] = Call(p, b) /\ height' = height
      BY <1>4, <1>5, <3>1
    <3> QED BY <1>2, <3>2 DEF CallOk
  <2> QED BY <1>4, <2>1, <2>2
<1>9. head' = head /\ height' = height /\ head <= head /\ \A q \in Peers : height[q] <= height[q]
  BY <1>1, BoundAssumption
<1>10. Good(Here, fromPeer, Reached)'
  <2>1. /\ S \in TaskState /\ RequestsOk(S) /\ BlamedOk(S.blamed) /\ \A c \in S.node.recent : c <= head
        /\ \A q \in Peers : PeerOk(S.pr[q], S.out[q], new[q], height[q], Reached)
        /\ S.node.suspend => S.node.backlog \/ (SyncCalls # {})'
    BY <1>4 DEF Good, NodeOk
  <2> QED BY <1>1, <1>7, <1>9, <2>1, GoodLater
<1>11. Here' \in TaskState
  BY DEF Here, Install, Good, TaskState
<1> QED BY <1>1, <1>4, <1>8, <1>9, <1>10, <1>11 DEF SyncInv, TypeInv, CallsOk

(* on_message                                                              *)
LEMMA MessageStep ==
  ASSUME SyncInv, NEW p \in Peers, on_message(p)
  PROVE  SyncInv'
<1> DEFINE new == [fromPeer EXCEPT ![p] = Tail(@)]
           m == Head(fromPeer[p])
           S == CASE m.type = "ids"       -> on_blockchain_item_ids_inventory_message(Here, p, m)
                  [] m.type = "fetch_ids" -> on_fetch_blockchain_item_ids_message(Here, p, m)
                  [] m.type = "inventory" -> on_item_ids_inventory_message(Here, p, m.block)
                  [] m.type = "missing"   -> on_item_not_available_message(Here, p, m.block)
<1>1. /\ fromPeer[p] # <<>> /\ fromPeer' = new /\ UNCHANGED <<head, height, behind>>
      /\ IF m.type = "block" THEN process_block_message(p, m.block)
         ELSE Install(S) /\ UNCHANGED calls
  BY DEF on_message
<1>2. /\ TypeInv /\ Good(Here, fromPeer, Reached) /\ fromPeer \in [Peers -> Seq(FromMessages)]
      /\ head \in 0..MaxBlock /\ behind \in [Peers -> BOOLEAN]
  BY DEF SyncInv, TypeInv
<1>3. Grown(Reached)
  BY <1>2, ReachedGrown
<1>4. m = fromPeer[p][1] /\ m \in FromMessages /\ Tail(fromPeer[p]) \in Seq(FromMessages)
  BY <1>1, <1>2
<1>5. /\ new \in [Peers -> Seq(FromMessages)] /\ new[p] = Tail(fromPeer[p])
      /\ \A q \in Peers \ {p} : new[q] = fromPeer[q]
  BY <1>2, <1>4
<1> HIDE DEF new
<1>6. CASE m.type = "block"
  <2>1. m.block \in Blocks
    BY <1>4, <1>6 DEF FromMessages
  <2>2. PICK T : /\ Install(T) /\ Good(T, new, Reached)
                 /\ \/ calls' = calls
                    \/ calls' = Append(calls, Call(p, m.block)) /\ m.block <= height[p]
    <3>1. process_block_message(p, m.block) /\ fromPeer[p][1].type = "block"
      BY <1>1, <1>4, <1>6
    <3>2. m.block = fromPeer[p][1].block
      BY <1>4
    <3> HIDE DEF m
    <3> QED BY <1>1, <1>2, <1>3, <1>5, <2>1, <3>1, <3>2, BlockMessage
  <2>3. CASE calls' = calls
    BY <1>1, <1>2, <1>5, <2>2, <2>3, TaskStep
  <2>4. CASE calls' = Append(calls, Call(p, m.block)) /\ m.block <= height[p]
    <3> HIDE DEF m
    <3> QED BY <1>1, <1>2, <1>5, <2>1, <2>2, <2>4, CallFollows
  <2> QED BY <2>2, <2>3, <2>4
<1>7. CASE m.type # "block"
  <2>1. Good(S, new, Reached)
    BY <1>1, <1>2, <1>3, <1>5, <1>7, OtherMessage
  <2> HIDE DEF S
  <2>2. Install(S) /\ UNCHANGED <<calls, head, height>> /\ behind' = behind /\ fromPeer' = new
    BY <1>1, <1>7
  <2> QED BY <1>2, <1>5, <2>1, <2>2, TaskStep
<1> QED BY <1>6, <1>7

(* A connection that is closed.                                            *)
ClosedPeer(r) == [r EXCEPT !.open = FALSE]

(* What was on its way is lost, what was requested stays requested until   *)
(* on_connection_closed.                                                   *)
LEMMA SocketCloses ==
  ASSUME SyncInv, NEW p \in Peers, NEW S \in TaskState, S.node = node, S.blamed = blamed,
         S.out = toPeer, OnlyPeer(Here, S, p), S.pr[p].list # "none",
         NEW list, S.pr[p] = [pr[p] EXCEPT !.list = list], Shut(S, p),
         UNCHANGED <<calls, head, height, behind>>
  PROVE  SyncInv'
<1> DEFINE r == pr[p]
           x == S.pr[p]
           q == ClosedPeer(x)
           new == [fromPeer EXCEPT ![p] = <<>>]
           T == CloseSocket(S, p)
<1>1. /\ TypeInv /\ Good(Here, fromPeer, Reached) /\ fromPeer \in [Peers -> Seq(FromMessages)]
      /\ behind \in [Peers -> BOOLEAN] /\ r \in PeerType /\ x \in PeerType
      /\ Here.pr = pr /\ Here.node = node /\ Here.out = toPeer /\ Here.blamed = blamed
  BY DEF SyncInv, TypeInv, TaskState, Here
<1>2. Install(T) /\ fromPeer' = new
  BY DEF Shut
<1>3. /\ x.items_requested = r.items_requested /\ x.sync_items_requested = r.sync_items_requested
      /\ x.ids_of_items_to_get = r.ids_of_items_to_get
      /\ x.item_ids_requested = r.item_ids_requested /\ x.last_seen = r.last_seen
      /\ x.advertised_to_us = r.advertised_to_us
      /\ x.ids_of_items_being_processed = r.ids_of_items_being_processed
  <2>1. x = [r EXCEPT !.list = list]
    OBVIOUS
  <2> HIDE DEF r, x
  <2> QED BY <1>1, <2>1 DEF PeerType
<1>4. T = [S EXCEPT !.pr[p] = q, !.out[p] = <<>>]
  BY DEF CloseSocket, ClosedPeer, TaskState
<1>5. x.list # "none"
  OBVIOUS
<1> HIDE DEF r, x, T
<1>6. /\ q \in PeerType /\ q.list = x.list
      /\ q.items_requested = x.items_requested /\ q.sync_items_requested = x.sync_items_requested
      /\ q.ids_of_items_to_get = x.ids_of_items_to_get
      /\ q.item_ids_requested = x.item_ids_requested /\ q.last_seen = x.last_seen
      /\ q.advertised_to_us = x.advertised_to_us
      /\ q.ids_of_items_being_processed = x.ids_of_items_being_processed
  BY <1>1 DEF PeerType, ClosedPeer
<1> HIDE DEF q
<1>7. /\ T \in TaskState /\ T.node = node /\ T.blamed = blamed /\ OnlyPeer(Here, T, p)
      /\ T.pr[p] = q /\ T.out[p] = <<>>
  <2>1. <<>> \in Seq(ToMessages)
    OBVIOUS
  <2>2. /\ T \in TaskState /\ T.node = node /\ T.blamed = blamed /\ OnlyPeer(S, T, p)
        /\ T.pr[p] = q /\ T.out[p] = <<>>
    BY <1>4, <1>6, <2>1 DEF TaskState, OnlyPeer
  <2> QED BY <2>2 DEF OnlyPeer
<1>8. /\ new \in [Peers -> Seq(FromMessages)] /\ new[p] = <<>>
      /\ \A y \in Peers \ {p} : new[y] = fromPeer[y]
  BY <1>1
<1> HIDE DEF new
<1>9. PeerOk(q, <<>>, <<>>, height[p], Reached)
  <2>1. PeerOk(r, toPeer[p], fromPeer[p], height[p], Reached)
    BY <1>1 DEF Good, r
  <2>2. SameList(r, q) /\ q.list # "none"
    BY <1>3, <1>5, <1>6 DEF SameList
  <2> QED BY <1>3, <1>6, <2>1, <2>2, PeerClosed
<1>10. Good(T, new, Reached)
  <2>1. KeepsNode(Here, T) /\ BlamedOk(T.blamed)
    BY <1>1, <1>7 DEF KeepsNode, Good, NodeOk
  <2>2. T.pr[p].sync_items_requested = Here.pr[p].sync_items_requested
    BY <1>1, <1>3, <1>6, <1>7 DEF r
  <2>3. PeerOk(T.pr[p], T.out[p], new[p], height[p], Reached)
    BY <1>7, <1>8, <1>9
  <2> QED BY <1>1, <1>7, <1>8, <2>1, <2>2, <2>3, OnePeerGood
<1> QED BY <1>1, <1>2, <1>8, <1>10, TaskStep

(* TimeOut, TerminateClosing and PeerCloses                                *)
LEMMA ShutStep ==
  ASSUME SyncInv, NEW p \in Peers, TimeOut(p) \/ TerminateClosing(p) \/ PeerCloses(p)
  PROVE  SyncInv'
<1>1. /\ Here \in TaskState /\ pr \in [Peers -> PeerType]
      /\ Here.pr = pr /\ Here.node = node /\ Here.out = toPeer /\ Here.blamed = blamed
  BY DEF SyncInv, TypeInv, TaskState, Here
<1>2. CASE TimeOut(p) \/ TerminateClosing(p)
  <2> DEFINE S == [Here EXCEPT !.pr[p].list = "terminating"]
             q == [pr[p] EXCEPT !.list = "terminating"]
  <2>1. Shut(S, p) /\ UNCHANGED <<calls, head, height, behind>>
    BY <1>2 DEF TimeOut, TerminateClosing
  <2>2. S = [Here EXCEPT !.pr[p] = q]
    BY <1>1
  <2>3. q \in PeerType /\ q.list # "none"
    <3>1. PICK r \in PeerType : r = pr[p]
      BY <1>1
    <3>2. q = [r EXCEPT !.list = "terminating"]
      BY <3>1
    <3> HIDE DEF q
    <3>3. "terminating" \in Lists /\ "terminating" # "none"
      BY DEF Lists
    <3> QED BY <3>2, <3>3 DEF PeerType
  <2> HIDE DEF q, S
  <2>4. /\ S \in TaskState /\ S.node = node /\ S.blamed = blamed /\ S.out = toPeer
        /\ OnlyPeer(Here, S, p) /\ S.pr[p] = q
    BY <1>1, <2>2, <2>3 DEF TaskState, OnlyPeer
  <2>5. S.pr[p] = [pr[p] EXCEPT !.list = "terminating"] /\ S.pr[p].list # "none"
    BY <2>3, <2>4 DEF q
  <2> QED BY <2>1, <2>4, <2>5, SocketCloses
<1>3. CASE PeerCloses(p)
  <2>1. /\ Shut(Here, p) /\ UNCHANGED <<calls, head, height, behind>> /\ pr[p].list # "none"
    BY <1>3 DEF PeerCloses
  <2>2. pr[p] = [pr[p] EXCEPT !.list = pr[p].list] /\ OnlyPeer(Here, Here, p)
    BY <1>1 DEF PeerType, OnlyPeer
  <2>3. PICK list : list = pr[p].list
    OBVIOUS
  <2> QED BY <1>1, <2>1, <2>2, <2>3, SocketCloses
<1> QED BY <1>2, <1>3

(* The connection in the place of peer p.                                  *)
Replaced(S, p, r) == [S EXCEPT !.pr[p] = r]

(* on_connection_closed: what the peer was asked for is free for others.   *)
LEMMA ConnectionClosed ==
  ASSUME SyncInv, NEW p \in Peers, on_connection_closed(p)
  PROVE  SyncInv'
<1> DEFINE r == FreshPeer("none")
           S == Replaced(Here, p, r)
           X == pr[p].sync_items_requested
           n == [node EXCEPT !.active_sync_requests = @ \ X]
           T == IF X = {} THEN S ELSE TriggerSync([S EXCEPT !.node.active_sync_requests = @ \ X])
           U == RescheduleItems(T, p)
<1>1. /\ ~pr[p].open /\ Install(U)
      /\ UNCHANGED <<calls, head, fromPeer, height, behind>>
  BY DEF on_connection_closed, Reschedule, Replaced
<1>2. /\ TypeInv /\ Good(Here, fromPeer, Reached) /\ fromPeer \in [Peers -> Seq(FromMessages)]
      /\ behind \in [Peers -> BOOLEAN] /\ Here \in TaskState /\ head \in 0..MaxBlock
      /\ Here.pr = pr /\ Here.node = node /\ Here.out = toPeer /\ Here.blamed = blamed
      /\ node \in NodeType /\ X \in SUBSET Blocks
  BY DEF SyncInv, TypeInv, TaskState, Here, PeerType
<1>3. toPeer[p] = <<>> /\ fromPeer[p] = <<>>
  BY <1>1, <1>2 DEF Good, PeerOk, ClosedIsQuiet
<1>4. 0 \in Reached
  <2>1. Grown(Reached) /\ 0 \in 0..head
    BY <1>2, ReachedGrown, BoundAssumption
  <2> QED BY <2>1 DEF Grown
<1>5. r \in PeerType /\ PeerOk(r, <<>>, <<>>, height[p], Reached)
  BY <1>4, PeerFresh
<1>6. r.sync_items_requested = {}
  BY DEF FreshPeer
<1> HIDE DEF r
<1>7. /\ S \in TaskState /\ S.node = node /\ S.blamed = blamed /\ S.out = toPeer
      /\ OnlyPeer(Here, S, p) /\ S.pr[p] = r
  BY <1>2, <1>5 DEF TaskState, OnlyPeer, Replaced
<1> HIDE DEF S, X
<1>8. /\ T \in TaskState /\ T.blamed = blamed /\ T.out = toPeer /\ T.pr = S.pr
      /\ T.node.active_sync_requests = node.active_sync_requests \ X
      /\ T.node.recent = node.recent /\ T.node.suspend = node.suspend
      /\ node.backlog => T.node.backlog
  <2>1. CASE X = {}
    BY <1>7, <2>1
  <2>2. CASE X # {}
    <3> DEFINE W == [S EXCEPT !.node = n]
    <3>1. /\ n \in NodeType /\ n.active_sync_requests = node.active_sync_requests \ X
          /\ n.recent = node.recent /\ n.suspend = node.suspend /\ n.backlog = node.backlog
      BY <1>2 DEF NodeType
    <3>2. T = TriggerSync(W)
      BY <1>7, <2>2 DEF TaskState
    <3> HIDE DEF n, T
    <3>3. W \in TaskState /\ W.node = n /\ W.pr = S.pr /\ W.out = toPeer /\ W.blamed = blamed
      BY <1>7, <3>1, SetNode
    <3> HIDE DEF W
    <3> QED BY <3>1, <3>2, <3>3, TriggerDoes DEF KeepsNode
  <2> QED BY <2>1, <2>2
<1> HIDE DEF T
<1>9. Good(T, fromPeer, Reached)
  <2>1. OnlyPeer(Here, T, p) /\ T.pr[p] = r /\ T.out[p] = <<>>
    BY <1>2, <1>3, <1>7, <1>8 DEF OnlyPeer
  <2>2. RequestsOk(T)
    <3>1. /\ X \subseteq Here.pr[p].sync_items_requested
          /\ T.pr[p].sync_items_requested = Here.pr[p].sync_items_requested \ X
          /\ T.node.active_sync_requests = Here.node.active_sync_requests \ X
      BY <1>2, <1>6, <1>8, <2>1 DEF X
    <3>2. RequestsOk(Here)
      BY <1>2 DEF Good
    <3> QED BY <2>1, <3>1, <3>2, RequestsShrink
  <2>3. NodeOk(T)
    BY <1>2, <1>8 DEF Good, NodeOk
  <2>4. \A q \in Peers : PeerOk(T.pr[q], T.out[q], fromPeer[q], height[q], Reached)
    BY <1>2, <1>3, <1>5, <2>1 DEF Good, OnlyPeer
  <2> QED BY <1>8, <2>2, <2>3, <2>4 DEF Good
<1>10. Good(U, fromPeer, Reached)
  <2> DEFINE again == {b \in pr[p].items_requested : is_item_in_any_peers_inventory(T, b)}
             x == [T.node EXCEPT !.items_to_fetch = @ \cup again]
             W == [T EXCEPT !.node = x]
  <2>1. CASE pr[p].items_requested = {}
    BY <1>9, <2>1 DEF RescheduleItems
  <2>2. CASE pr[p].items_requested # {}
    <3>1. U = TriggerItems(W)
      BY <1>8, <2>2 DEF RescheduleItems, TaskState
    <3>2. again \in SUBSET Blocks /\ T.node \in NodeType
      BY <1>2, <1>8 DEF TypeInv, TaskState, PeerType
    <3> HIDE DEF again, U
    <3>3. /\ x \in NodeType /\ x.active_sync_requests = T.node.active_sync_requests
          /\ x.recent = T.node.recent /\ x.suspend = T.node.suspend /\ x.backlog = T.node.backlog
      BY <3>2 DEF NodeType
    <3> HIDE DEF x
    <3>4. Good(W, fromPeer, Reached)
      BY <1>9, <3>3, NodeNotes
    <3> HIDE DEF W
    <3> QED BY <3>1, <3>4, TriggerGood
  <2> QED BY <2>1, <2>2
<1> HIDE DEF U
<1> QED BY <1>1, <1>2, <1>10, TaskStep

(* new_peer_just_added                                                     *)
LEMMA PeerAdded ==
  ASSUME SyncInv, NEW p \in Peers, new_peer_just_added(p)
  PROVE  SyncInv'
<1> DEFINE r == FreshPeer("active")
           S == Replaced(Here, p, r)
           T == start_synchronizing_with_peer(S, p)
<1>1. /\ pr[p].list = "none" /\ Install(T) /\ behind' = [behind EXCEPT ![p] = TRUE]
      /\ UNCHANGED <<calls, head, fromPeer, height>>
  BY DEF new_peer_just_added, Replaced
<1>2. /\ TypeInv /\ Good(Here, fromPeer, Reached) /\ fromPeer \in [Peers -> Seq(FromMessages)]
      /\ behind \in [Peers -> BOOLEAN] /\ Here \in TaskState /\ head \in 0..MaxBlock
      /\ Here.pr = pr /\ Here.node = node /\ Here.out = toPeer /\ Here.blamed = blamed
  BY DEF SyncInv, TypeInv, TaskState, Here
<1>3. toPeer[p] = <<>> /\ fromPeer[p] = <<>> /\ pr[p].sync_items_requested = {}
  BY <1>1, <1>2 DEF Good, PeerOk, ClosedIsQuiet
<1>4. Grown(Reached) /\ 0 \in Reached
  <2>1. Grown(Reached) /\ 0 \in 0..head
    BY <1>2, ReachedGrown, BoundAssumption
  <2> QED BY <2>1 DEF Grown
<1>5. r \in PeerType /\ PeerOk(r, <<>>, <<>>, height[p], Reached)
  BY <1>4, PeerFresh
<1>6. r.sync_items_requested = {}
  BY DEF FreshPeer
<1> HIDE DEF r
<1>7. /\ S \in TaskState /\ S.node = node /\ S.blamed = blamed /\ S.out = toPeer
      /\ OnlyPeer(Here, S, p) /\ S.pr[p] = r
  BY <1>2, <1>5 DEF TaskState, OnlyPeer, Replaced
<1> HIDE DEF S
<1>8. Good(S, fromPeer, Reached)
  <2>1. KeepsNode(Here, S) /\ BlamedOk(S.blamed)
    BY <1>2, <1>7 DEF KeepsNode, Good, NodeOk
  <2>2. PeerOk(S.pr[p], S.out[p], fromPeer[p], height[p], Reached)
    BY <1>3, <1>5, <1>7
  <2>3. S.pr[p].sync_items_requested = Here.pr[p].sync_items_requested
    BY <1>2, <1>3, <1>6, <1>7
  <2>4. \A q \in Peers \ {p} : fromPeer[q] = fromPeer[q]
    OBVIOUS
  <2> QED BY <1>2, <1>7, <2>1, <2>2, <2>3, <2>4, OnePeerGood
<1>9. Good(T, fromPeer, Reached)
  <2> HIDE DEF T
  <2>1. T = start_synchronizing_with_peer(S, p)
    BY DEF T
  <2> QED BY <1>2, <1>4, <1>8, <2>1, AskGood
<1> HIDE DEF T
<1>10. behind' \in [Peers -> BOOLEAN]
  BY <1>1, <1>2
<1> QED BY <1>1, <1>2, <1>9, <1>10, TaskStep

-----------------------------------------------------------------------------
(* The peers                                                               *)

(* A peer takes a message and says something.                              *)
LEMMA PeerAct ==
  ASSUME SyncInv, NEW p \in Peers, NEW to \in Seq(ToMessages), NEW from \in Seq(FromMessages),
         toPeer' = [toPeer EXCEPT ![p] = to], fromPeer' = [fromPeer EXCEPT ![p] = from],
         PeerOk(pr[p], to, from, height[p], Reached),
         UNCHANGED <<pr, node, calls, head, height, blamed>>, behind' \in [Peers -> BOOLEAN]
  PROVE  SyncInv'
<1> DEFINE S == [Here EXCEPT !.out[p] = to]
           new == [fromPeer EXCEPT ![p] = from]
<1>1. /\ Good(Here, fromPeer, Reached) /\ fromPeer \in [Peers -> Seq(FromMessages)]
      /\ Here \in TaskState /\ toPeer \in [Peers -> Seq(ToMessages)]
      /\ Here.pr = pr /\ Here.node = node /\ Here.out = toPeer /\ Here.blamed = blamed
  BY DEF SyncInv, TypeInv, TaskState, Here
<1>2. /\ new \in [Peers -> Seq(FromMessages)] /\ new[p] = from
      /\ \A q \in Peers \ {p} : new[q] = fromPeer[q]
  BY <1>1
<1>3. /\ S \in TaskState /\ S.node = node /\ S.blamed = blamed /\ S.pr = pr
      /\ OnlyPeer(Here, S, p) /\ S.out[p] = to /\ S.out = [toPeer EXCEPT ![p] = to]
  BY <1>1 DEF TaskState, OnlyPeer
<1> HIDE DEF S, new
<1>4. Good(S, new, Reached)
  <2>1. KeepsNode(Here, S) /\ BlamedOk(S.blamed)
    BY <1>1, <1>3 DEF KeepsNode, Good, NodeOk
  <2>2. /\ PeerOk(S.pr[p], S.out[p], new[p], height[p], Reached)
        /\ S.pr[p].sync_items_requested = Here.pr[p].sync_items_requested
    BY <1>1, <1>2, <1>3
  <2> QED BY <1>1, <1>2, <1>3, <2>1, <2>2, OnePeerGood
<1>5. Install(S) /\ fromPeer' = new
  BY <1>3 DEF Install, new
<1> QED BY <1>2, <1>4, <1>5, TaskStep

(* PeerSendsIds                                                            *)
LEMMA IdsSent ==
  ASSUME SyncInv, NEW p \in Peers, PeerSendsIds(p)
  PROVE  SyncInv'
<1> DEFINE synopsis == Head(toPeer[p]).synopsis
           reply == BlockIds(height[p], synopsis)
           m == [type |-> "ids", hashes |-> reply.hashes, remaining |-> reply.remaining]
           to == Tail(toPeer[p])
           from == Append(fromPeer[p], m)
<1>1. /\ toPeer[p] # <<>> /\ Head(toPeer[p]).type = "fetch_ids"
      /\ fromPeer' = [fromPeer EXCEPT ![p] = from] /\ toPeer' = [toPeer EXCEPT ![p] = to]
      /\ behind' = [behind EXCEPT ![p] = ~InSync(reply, synopsis)]
      /\ UNCHANGED <<pr, node, calls, head, height, blamed>>
  BY DEF PeerSendsIds
<1>2. /\ toPeer[p] \in Seq(ToMessages) /\ fromPeer[p] \in Seq(FromMessages)
      /\ height[p] \in 0..MaxBlock /\ behind \in [Peers -> BOOLEAN]
      /\ PeerOk(pr[p], toPeer[p], fromPeer[p], height[p], Reached)
  BY DEF SyncInv, TypeInv, TaskState, Here, Good
<1>3. Head(toPeer[p]) \in ToMessages /\ to \in Seq(ToMessages)
  BY <1>1, <1>2
<1>4. synopsis \in SUBSET Blocks
  BY <1>1, <1>3 DEF ToMessages
<1> HIDE DEF synopsis
<1>5. /\ reply.hashes \in Seq(Blocks) /\ reply.remaining \in 0..MaxBlock
      /\ InARow(reply.hashes) /\ \A i \in 1..Len(reply.hashes) : reply.hashes[i] <= height[p]
  BY <1>2, <1>4, BlockIdsFacts
<1> HIDE DEF reply
<1>6. m \in FromMessages /\ m.type = "ids" /\ m.hashes = reply.hashes /\ ~IsItem(m)
  BY <1>5 DEF FromMessages, IsItem
<1> HIDE DEF m
<1>7. PeerOk(pr[p], to, fromPeer[p], height[p], Reached) /\ pr[p].open
  BY <1>1, <1>2, PeerHeard
<1>8. PeerOk(pr[p], to, from, height[p], Reached)
  <2>1. m.type # "inventory"
    BY <1>6
  <2> HIDE DEF to
  <2> QED BY <1>2, <1>5, <1>6, <1>7, <2>1, PeerSaid
<1>9. from \in Seq(FromMessages)
  BY <1>2, <1>6
<1>10. behind' \in [Peers -> BOOLEAN]
  <2>1. (~InSync(reply, synopsis)) \in BOOLEAN
    OBVIOUS
  <2> QED BY <1>1, <1>2, <2>1
<1> HIDE DEF to, from
<1> QED BY <1>1, <1>3, <1>8, <1>9, <1>10, PeerAct

(* PeerSendsItems                                                          *)
LEMMA ItemsSent ==
  ASSUME SyncInv, NEW p \in Peers, PeerSendsItems(p)
  PROVE  SyncInv'
<1> DEFINE items == Head(toPeer[p]).items
           to == Tail(toPeer[p])
<1>1. /\ toPeer[p] # <<>> /\ Head(toPeer[p]).type = "fetch_items"
      /\ toPeer' = [toPeer EXCEPT ![p] = to]
      /\ UNCHANGED <<pr, node, calls, head, height, behind, blamed>>
  BY DEF PeerSendsItems
<1>2. PICK missing \in SUBSET ToSet(items) :
        /\ missing # {} => Head(toPeer[p]).by \in LostBy
        /\ fromPeer' = [fromPeer EXCEPT ![p] = @ \o Answers(items, missing)]
  BY DEF PeerSendsItems, Answers
<1>3. /\ toPeer[p] \in Seq(ToMessages) /\ fromPeer[p] \in Seq(FromMessages)
      /\ behind \in [Peers -> BOOLEAN]
      /\ PeerOk(pr[p], toPeer[p], fromPeer[p], height[p], Reached)
  BY DEF SyncInv, TypeInv, TaskState, Here, Good
<1>4. Head(toPeer[p]) = toPeer[p][1] /\ to \in Seq(ToMessages) /\ IsAsk(toPeer[p][1])
  BY <1>1, <1>3 DEF IsAsk
<1> DEFINE from == fromPeer[p] \o Answers(items, missing)
<1>5. from \in Seq(FromMessages) /\ PeerOk(pr[p], to, from, height[p], Reached)
  <2>1. missing # {} => toPeer[p][1].by \in LostBy
    BY <1>2, <1>4
  <2> QED BY <1>1, <1>3, <1>4, <2>1, PeerGaveItems
<1>6. fromPeer' = [fromPeer EXCEPT ![p] = from] /\ behind' \in [Peers -> BOOLEAN]
  BY <1>1, <1>2, <1>3
<1> HIDE DEF to, from
<1> QED BY <1>1, <1>4, <1>5, <1>6, PeerAct

(* PeerAsks                                                                *)
LEMMA PeerAsked ==
  ASSUME SyncInv, NEW p \in Peers, PeerAsks(p)
  PROVE  SyncInv'
<1> DEFINE m == [type |-> "fetch_ids", synopsis |-> SynopsisOf(height[p])]
           to == toPeer[p]
           from == Append(fromPeer[p], m)
<1>1. /\ pr[p].open /\ fromPeer' = [fromPeer EXCEPT ![p] = from]
      /\ UNCHANGED <<pr, node, calls, head, toPeer, height, behind, blamed>>
  BY DEF PeerAsks
<1>2. /\ toPeer \in [Peers -> Seq(ToMessages)] /\ fromPeer[p] \in Seq(FromMessages)
      /\ height[p] \in 0..MaxBlock /\ behind \in [Peers -> BOOLEAN]
      /\ PeerOk(pr[p], toPeer[p], fromPeer[p], height[p], Reached)
  BY DEF SyncInv, TypeInv, TaskState, Here, Good
<1>3. SynopsisOf(height[p]) \in SUBSET Blocks
  <2>1. height[p] \in Nat /\ 1..height[p] \subseteq Blocks
    BY <1>2, BoundAssumption DEF Blocks
  <2> QED BY <2>1, SynopsisFacts
<1>4. m \in FromMessages /\ m.type = "fetch_ids" /\ ~IsItem(m)
  BY <1>3 DEF FromMessages, IsItem
<1> HIDE DEF m
<1>5. PeerOk(pr[p], to, from, height[p], Reached)
  <2>1. m.type # "ids" /\ m.type # "inventory"
    BY <1>4
  <2> QED BY <1>1, <1>2, <1>4, <2>1, PeerSaid
<1>6. /\ from \in Seq(FromMessages) /\ to \in Seq(ToMessages)
      /\ toPeer' = [toPeer EXCEPT ![p] = to] /\ behind' \in [Peers -> BOOLEAN]
  BY <1>1, <1>2, <1>4
<1> HIDE DEF to, from
<1> QED BY <1>1, <1>5, <1>6, PeerAct

(* PeerGrows                                                               *)
LEMMA PeerGrew ==
  ASSUME SyncInv, NEW p \in Peers, PeerGrows(p)
  PROVE  SyncInv'
<1> DEFINE h == height[p] + 1
           m == [type |-> "inventory", block |-> h]
           from == IF pr[p].open /\ ~behind[p] THEN Append(fromPeer[p], m) ELSE fromPeer[p]
           new == [fromPeer EXCEPT ![p] = from]
           up == [height EXCEPT ![p] = h]
<1>1. /\ height[p] < MaxBlock /\ height' = up
      /\ fromPeer' = IF pr[p].open /\ ~behind[p] THEN [fromPeer EXCEPT ![p] = Append(@, m)]
                     ELSE fromPeer
      /\ UNCHANGED <<pr, node, calls, head, toPeer, behind, blamed>>
  BY DEF PeerGrows
<1>2. /\ TypeInv /\ Good(Here, fromPeer, Reached) /\ fromPeer \in [Peers -> Seq(FromMessages)]
      /\ height \in [Peers -> 0..MaxBlock] /\ behind \in [Peers -> BOOLEAN] /\ Here \in TaskState
      /\ head \in 0..MaxBlock /\ calls \in Seq(Calls) /\ CallsOk
      /\ Here.pr = pr /\ Here.node = node /\ Here.out = toPeer /\ Here.blamed = blamed
      /\ pr \in [Peers -> PeerType]
  BY DEF SyncInv, TypeInv, TaskState, Here
<1>3. h \in Blocks /\ h \in 0..MaxBlock /\ height[p] <= h /\ h <= h
  BY <1>1, <1>2, BoundAssumption DEF Blocks
<1> HIDE DEF h
<1>4. m \in FromMessages /\ m.type = "inventory" /\ m.block = h /\ ~IsItem(m)
  BY <1>3 DEF FromMessages, IsItem
<1> HIDE DEF m
<1>5. from \in Seq(FromMessages) /\ fromPeer' = new
  <2>1. Append(fromPeer[p], m) \in Seq(FromMessages) /\ fromPeer[p] \in Seq(FromMessages)
    BY <1>2, <1>4
  <2>2. fromPeer = [fromPeer EXCEPT ![p] = fromPeer[p]]
    BY <1>2
  <2>3. CASE pr[p].open /\ ~behind[p]
    BY <1>1, <2>1, <2>3
  <2>4. CASE ~(pr[p].open /\ ~behind[p])
    BY <1>1, <2>1, <2>2, <2>4
  <2> QED BY <2>3, <2>4
<1>6. PeerOk(pr[p], toPeer[p], from, h, Reached)
  <2>1. PeerOk(pr[p], toPeer[p], fromPeer[p], height[p], Reached)
    BY <1>2 DEF Good
  <2>2. PeerOk(pr[p], toPeer[p], fromPeer[p], h, Reached)
    BY <1>2, <1>3, <2>1, PeerLater
  <2>3. pr[p].open => PeerOk(pr[p], toPeer[p], Append(fromPeer[p], m), h, Reached)
    <3>1. m.type # "ids" /\ m.block <= h
      BY <1>3, <1>4
    <3> QED BY <1>2, <1>4, <2>2, <3>1, PeerSaid
  <2> QED BY <2>2, <2>3
<1> HIDE DEF from
<1>7. /\ new \in [Peers -> Seq(FromMessages)] /\ new[p] = from
      /\ \A q \in Peers \ {p} : new[q] = fromPeer[q]
  BY <1>2, <1>5
<1>8. /\ up \in [Peers -> 0..MaxBlock] /\ up[p] = h /\ \A q \in Peers \ {p} : up[q] = height[q]
      /\ \A q \in Peers : height[q] <= up[q]
  <2>1. \A q \in Peers : height[q] <= height[q]
    BY <1>2, BoundAssumption
  <2> QED BY <1>2, <1>3, <2>1
<1> HIDE DEF new, up
<1>9. Here' = Here /\ Reached' = Reached /\ SyncCalls' = SyncCalls
  BY <1>1 DEF Here, Reached, Covered, SyncCalls
<1>10. \A q \in Peers : PeerOk(Here.pr[q], Here.out[q], new[q], up[q], Reached)
  BY <1>2, <1>6, <1>7, <1>8 DEF Good
<1>11. ASSUME NEW x \in blamed, x[2] = "refused" PROVE \E b \in Refused : b <= up[x[1]]
  <2>1. PICK b \in Refused : b <= height[x[1]]
    BY <1>2, <1>11 DEF Good, NodeOk, BlamedOk
  <2>2. x[1] \in Peers
    BY <1>2 DEF TaskState, Blamings
  <2>3. b \in Nat /\ height[x[1]] \in Nat /\ up[x[1]] \in Nat /\ height[x[1]] <= up[x[1]]
    BY <1>2, <1>8, <2>2, BoundAssumption
  <2> QED BY <2>1, <2>3
<1>12. Good(Here, fromPeer, Reached)'
  <2>1. /\ Good(Here, fromPeer, Reached) /\ height' = up /\ fromPeer' = new /\ head' = head
    BY <1>1, <1>2, <1>5
  <2>2. NodeOk(Here)'
    BY <1>2, <1>9, <1>11, <2>1 DEF Good, NodeOk, BlamedOk
  <2> QED BY <1>9, <1>10, <2>1, <2>2 DEF Good
<1>13. CallsOk'
  <2> SUFFICES ASSUME NEW i \in 1..Len(calls) PROVE CallOk(calls[i], i)'
    BY <1>1 DEF CallsOk
  <2>1. CallOk(calls[i], i) /\ calls[i] \in Calls
    BY <1>2 DEF CallsOk
  <2>2. ASSUME calls[i].from # Sync PROVE calls[i].block <= up[calls[i].from]
    <3>1. calls[i].from \in Peers /\ calls[i].block \in Nat
      BY <2>1, <2>2, BoundAssumption DEF Calls, Blocks
    <3>2. height[calls[i].from] \in Nat /\ up[calls[i].from] \in Nat
      BY <1>2, <1>8, <3>1, BoundAssumption
    <3> QED BY <1>8, <2>1, <2>2, <3>1, <3>2 DEF CallOk
  <2> QED BY <1>1, <2>1, <2>2 DEF CallOk, Covered
<1> QED BY <1>1, <1>2, <1>5, <1>7, <1>8, <1>9, <1>12, <1>13 DEF SyncInv, TypeInv

-----------------------------------------------------------------------------
(* The theorems                                                            *)

(* A node starts without peers.                                            *)
LEMMA InitSync == Init => SyncInv
<1> SUFFICES ASSUME Init PROVE SyncInv
  OBVIOUS
<1> DEFINE r == FreshPeer("none")
<1>1. /\ pr = [p \in Peers |-> r] /\ calls = <<>> /\ head = 0 /\ blamed = {}
      /\ toPeer = [p \in Peers |-> <<>>] /\ fromPeer = [p \in Peers |-> <<>>]
      /\ height \in [Peers -> Heights] /\ behind = [p \in Peers |-> TRUE]
  BY DEF Init
<1>2. /\ node \in NodeType /\ node.active_sync_requests = {} /\ node.recent = {} /\ ~node.suspend
  BY DEF Init, NodeType
<1>3. /\ head \in 0..MaxBlock /\ height \in [Peers -> 0..MaxBlock] /\ behind \in [Peers -> BOOLEAN]
      /\ calls \in Seq(Calls) /\ fromPeer \in [Peers -> Seq(FromMessages)] /\ Len(calls) = 0
  <2>1. head \in 0..MaxBlock /\ height \in [Peers -> 0..MaxBlock]
    <3>1. MaxBlock \in Nat /\ Heights \subseteq 0..MaxBlock
      BY BoundAssumption
    <3>2. head \in 0..MaxBlock
      BY <1>1, <3>1
    <3>3. [Peers -> Heights] \subseteq [Peers -> 0..MaxBlock]
      BY <3>1
    <3> QED BY <1>1, <3>2, <3>3
  <2>2. behind \in [Peers -> BOOLEAN] /\ fromPeer \in [Peers -> Seq(FromMessages)]
    BY <1>1
  <2>3. calls \in Seq(Calls) /\ Len(calls) = 0
    BY <1>1
  <2> QED BY <2>1, <2>2, <2>3
<1>4. 0 \in Reached
  <2>1. Grown(Reached) /\ 0 \in 0..head
    BY <1>3, ReachedGrown, BoundAssumption
  <2> QED BY <2>1 DEF Grown
<1>5. r \in PeerType /\ \A h : PeerOk(r, <<>>, <<>>, h, Reached)
  BY <1>4, PeerFresh
<1>6. r.sync_items_requested = {}
  BY DEF FreshPeer
<1> HIDE DEF r
<1>7. /\ Here \in TaskState /\ Here.pr = pr /\ Here.node = node /\ Here.out = toPeer
      /\ Here.blamed = blamed
  <2>1. pr \in [Peers -> PeerType] /\ toPeer \in [Peers -> Seq(ToMessages)] /\ blamed \in Blamings
    BY <1>1, <1>5 DEF Blamings
  <2> QED BY <1>2, <2>1 DEF Here, TaskState
<1>8. \A p \in Peers : /\ PeerOk(Here.pr[p], Here.out[p], fromPeer[p], height[p], Reached)
                       /\ Here.pr[p].sync_items_requested = {}
  BY <1>1, <1>5, <1>6, <1>7
<1>9. RequestsOk(Here)
  BY <1>2, <1>7, <1>8 DEF RequestsOk
<1>10. NodeOk(Here)
  BY <1>1, <1>2, <1>7 DEF NodeOk, BlamedOk
<1>11. CallsOk
  BY <1>3 DEF CallsOk
<1> QED BY <1>3, <1>7, <1>8, <1>9, <1>10, <1>11 DEF SyncInv, TypeInv, Good

(* The loops that request and advertise items.                             *)
LEMMA LoopStep ==
  ASSUME SyncInv, fetch_sync_items_loop \/ fetch_items_loop \/ advertise_inventory_loop
  PROVE  SyncInv'
<1>1. /\ Good(Here, fromPeer, Reached) /\ fromPeer \in [Peers -> Seq(FromMessages)]
      /\ behind \in [Peers -> BOOLEAN]
  BY DEF SyncInv, TypeInv
<1>2. PICK S : Install(S) /\ Good(S, fromPeer, Reached)
  BY <1>1, SyncLoopGood, ItemsLoopGood, AdvertiseGood
<1>3. UNCHANGED <<calls, head, height>> /\ behind' = behind /\ fromPeer' = fromPeer
  BY DEF fetch_sync_items_loop, fetch_items_loop, advertise_inventory_loop
<1> QED BY <1>1, <1>2, <1>3, TaskStep

(* Every step keeps the invariant.                                         *)
LEMMA StepSync == SyncInv /\ [Next]_vars => SyncInv'
<1> SUFFICES ASSUME SyncInv, [Next]_vars PROVE SyncInv'
  OBVIOUS
<1>1. CASE fetch_sync_items_loop \/ fetch_items_loop \/ advertise_inventory_loop
  BY <1>1, LoopStep
<1>2. CASE process_backlog_of_sync_blocks
  BY <1>2, BacklogStep
<1>3. CASE handle_block
  BY <1>3, ChainStep
<1>4. CASE send_sync_block_to_node_delegate
  BY <1>4, SyncReturns
<1>5. CASE process_block_during_normal_operation
  BY <1>5, NormalReturns
<1>6. ASSUME NEW p \in Peers, PeerStep(p) PROVE SyncInv'
  BY <1>6, MessageStep, IdsSent, ItemsSent, ShutStep, ConnectionClosed, PeerAdded DEF PeerStep
<1>7. ASSUME NEW p \in Peers, PeerGrows(p) \/ PeerAsks(p) \/ TimeOut(p) \/ PeerCloses(p)
      PROVE  SyncInv'
  BY <1>7, PeerGrew, PeerAsked, ShutStep
<1>8. CASE UNCHANGED vars
  <2>1. /\ Install(Here) /\ fromPeer' = fromPeer /\ UNCHANGED <<calls, head, height>>
        /\ behind' = behind
    BY <1>8 DEF vars, Install, Here
  <2>2. /\ Good(Here, fromPeer, Reached) /\ fromPeer \in [Peers -> Seq(FromMessages)]
        /\ behind \in [Peers -> BOOLEAN]
    BY DEF SyncInv, TypeInv
  <2> QED BY <2>1, <2>2, TaskStep
<1> QED BY <1>1, <1>2, <1>3, <1>4, <1>5, <1>6, <1>7, <1>8 DEF Next, NodeStep

(* The invariant of synchronisation: lists of ids are pieces of the peers' *)
(* chains that start where the node's chain and its calls end, the         *)
(* messages on their way answer requests that are open, and the calls      *)
(* under way follow one another, for any peers, limits and refused blocks. *)
THEOREM Synchronised == Spec => []SyncInv
BY InitSync, StepSync, PTL DEF Spec

(* The members of the node and of its peer_connections have their types in *)
(* every state; no list of block ids, request or queue holds anything but  *)
(* blocks of the chain.                                                    *)
THEOREM SyncTypes == Spec => []TypeOK
<1>1. SyncInv => TypeOK
  BY DEF SyncInv, TypeInv, TaskState, Here, TypeOK, Calls, Blamings
<1> QED BY <1>1, Synchronised, PTL

(* process_backlog_of_sync_blocks hands the blocks to the chain in the     *)
(* order of the chain, whatever the peers deliver and whichever            *)
(* connections come and go.                                                *)
THEOREM BacklogInOrder == Spec => []SyncInOrder
<1>1. SyncInv => SyncInOrder
  <2> SUFFICES ASSUME SyncInv, NEW i \in DOMAIN calls, calls[i].from = Sync
               PROVE  \/ calls[i].block <= head + 1
                      \/ \E j \in 1..(i - 1) : calls[i].block <= calls[j].block + 1
                      \/ \E r \in Refused : r < calls[i].block
    BY DEF SyncInOrder
  <2> DEFINE b == calls[i].block
  <2>1. calls \in Seq(Calls) /\ CallsOk /\ head \in 0..MaxBlock
    BY DEF SyncInv, TypeInv
  <2>2. i \in 1..Len(calls) /\ calls[i] \in Calls
    BY <2>1
  <2>3. CallOk(calls[i], i) /\ b \in Nat /\ head \in Nat
    BY <2>1, <2>2, BoundAssumption DEF CallsOk, Calls, Blocks
  <2>4. CASE b <= head + 1
    BY <2>4
  <2>5. CASE \E r \in Refused : r < b
    BY <2>5
  <2>6. CASE ~(b <= head + 1) /\ ~\E r \in Refused : r < b
    <3>1. b - 1 \in 1..(b - 1)
      BY <2>3, <2>6
    <3>2. Sound(b - 1)
      <4>1. ASSUME NEW r \in Refused, r <= b - 1 PROVE r < b
        <5>1. r \in Nat
          BY BoundAssumption
        <5> QED BY <2>3, <4>1, <5>1
      <4> QED BY <2>6, <4>1 DEF Sound
    <3>3. Covered(b - 1, i - 1)
      BY <2>3, <3>1, <3>2 DEF CallOk
    <3>4. PICK j \in 1..(i - 1) : calls[j].block = b - 1
      <4>1. ~(b - 1 <= head)
        BY <2>3, <2>6
      <4> QED BY <3>3, <4>1 DEF Covered
    <3>5. b <= calls[j].block + 1
      BY <2>3, <3>4
    <3> QED BY <3>5
  <2> QED BY <2>4, <2>5, <2>6
<1> QED BY <1>1, Synchronised, PTL

(* A peer that answers what it was asked is not disconnected as a          *)
(* "misbehaving peer" for a block the node does not remember asking for,   *)
(* and for a refused block only if its chain holds one.                    *)
THEOREM AnswersNotBlamed == Spec => []HonestNotBlamed
<1>1. SyncInv => HonestNotBlamed
  BY DEF SyncInv, Good, NodeOk, BlamedOk, Here, HonestNotBlamed
<1> QED BY <1>1, Synchronised, PTL

(* _suspend_fetching_sync_blocks is set only while the backlog is          *)
(* scheduled or a call is under way whose end schedules it.                *)
THEOREM SuspensionHasEnd == Spec => []SuspensionEnds
<1>1. SyncInv => SuspensionEnds
  BY DEF SyncInv, Good, NodeOk, Here, SuspensionEnds
<1> QED BY <1>1, Synchronised, PTL

(* If no peer loses a block it listed, every id of _active_sync_requests   *)
(* is requested from exactly one connected peer and every other id from    *)
(* none, through timeouts, late answers and new connections.               *)
THEOREM RequestsHaveOnePeer ==
  ASSUME "block_id" \notin LostBy
  PROVE  Spec => []RequestsAreOpen
<1>1. SyncInv => RequestsAreOpen
  <2> SUFFICES ASSUME SyncInv, NEW b \in Blocks
               PROVE  Cardinality({p \in Connected : b \in pr[p].sync_items_requested})
                        = IF b \in node.active_sync_requests THEN 1 ELSE 0
    BY DEF RequestsAreOpen
  <2> DEFINE X == {p \in Connected : b \in pr[p].sync_items_requested}
  <2>1. /\ RequestsOk(Here) /\ Here.pr = pr /\ Here.node = node
        /\ \A p \in Peers : PeerOk(pr[p], toPeer[p], fromPeer[p], height[p], Reached)
    BY DEF SyncInv, Good, Here
  <2>2. \A p \in Peers : b \in pr[p].sync_items_requested <=> p \in X
    BY <2>1 DEF PeerOk, ClosedIsQuiet, Connected
  <2>3. X \subseteq Peers
    BY DEF Connected
  <2> HIDE DEF X
  <2>4. CASE b \in node.active_sync_requests
    <3>1. PICK p \in Peers : b \in pr[p].sync_items_requested
      BY <2>1, <2>4 DEF RequestsOk
    <3>2. \A q \in Peers : q # p => b \notin pr[q].sync_items_requested
      BY <2>1, <3>1 DEF RequestsOk
    <3>3. X = {p}
      BY <2>2, <2>3, <3>1, <3>2
    <3>4. Cardinality(X) = 1
      BY <3>3, FS_Singleton
    <3> QED BY <2>4, <3>4 DEF X
  <2>5. CASE b \notin node.active_sync_requests
    <3>1. \A p \in Peers : b \notin pr[p].sync_items_requested
      BY <2>1, <2>5 DEF RequestsOk
    <3>2. X = {}
      BY <2>2, <2>3, <3>1
    <3>3. Cardinality(X) = 0
      BY <3>2, FS_EmptySet
    <3> QED BY <2>5, <3>3 DEF X
  <2> QED BY <2>4, <2>5
<1> QED BY <1>1, Synchronised, PTL
=============================================================================
