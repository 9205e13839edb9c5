------------------------ MODULE ChainDatabaseProofs ------------------------
(***************************************************************************)
(* Proofs about chain::database: the state is the replay of the head's     *)
(* chain, the undo history reaches back far enough, pending transactions   *)
(* are applied in order and none is lost or evaluated twice; and across    *)
(* restarts close() keeps what is irreversible and the ledger is the one   *)
(* of the head's chain.                                                    *)
(*                                                                         *)
(* The heart of the invariant is the trail: the undo history followed by   *)
(* the state without pending transactions.  Each of its states is the      *)
(* replay of its head's chain, and neighbours are parent and child (or the *)
(* same).  Every operation takes a state off its end, drops some off its   *)
(* front, or puts the result of a block on its end.                        *)
(*                                                                         *)
(* Across restarts the states of the trail need not be replays: reindex()  *)
(* leaves the deduplication index empty.  The last sections prove what is  *)
(* left then, along the same operations.                                   *)
(***************************************************************************)
EXTENDS ChainRestart, InductionTheorems, SequenceTheorems

-----------------------------------------------------------------------------
(* The tree of blocks                                                      *)

(* The blocks are such a tree.                                             *)
LEMMA BlockTree == ParentTree(Block, Root, Prev)
BY TreeAssumption DEF ParentTree, Node

(* Block numbers count up from the root's.                                 *)
LEMMA NumFacts ==
  /\ Num \in [Node -> Nat]
  /\ Num[Root] = RootNum
  /\ \A b \in Block : Prev[b] \in Node /\ Num[b] = Num[Prev[b]] + 1
<1> DEFINE H == [x \in Block \X Nat |-> x[2] + 1]
           Is(g) == g = [b \in Node |-> IF b = Root THEN RootNum ELSE g[Prev[b]] + 1]
<1>0. PICK f \in [Node -> Nat] : RecursiveAlong(f, Block, Root, Prev, H, RootNum)
  <2>1. H \in [Block \X Nat -> Nat]
    OBVIOUS
  <2> HIDE DEF H
  <2> QED BY <2>1, BlockTree, BlockAssumption, RecursionAlongParents DEF Node
<1>1. f[Root] = RootNum /\ \A b \in Block : f[b] = H[<<b, f[Prev[b]]>>]
  BY <1>0 DEF RecursiveAlong
<1>2. \A b \in Block : Prev[b] \in Node /\ b # Root
  BY TreeAssumption
<1>3. \A b \in Block : f[b] = f[Prev[b]] + 1
  BY <1>1, <1>2
<1>4. Is(f)
  BY <1>1, <1>3 DEF Node
<1>5. Num = CHOOSE g : Is(g)
  BY DEF Num
<1>6. Is(Num)
  <2> HIDE DEF Is
  <2> QED BY <1>4, <1>5
<1> HIDE DEF Is
<1>7. DOMAIN Num = Node /\ Num[Root] = RootNum /\ \A b \in Block : Num[b] = Num[Prev[b]] + 1
  BY <1>6, <1>2 DEF Is, Node
<1>8. \A b \in Node : Num[b] \in Nat
  <2> DEFINE Bad == {b \in Block : Num[b] \notin Nat}
  <2>1. SUFFICES ASSUME Bad # {} PROVE FALSE
    BY <1>7, BlockAssumption DEF Node
  <2>2. PICK b \in Bad : Prev[b] \notin Bad
    <3>1. Bad \in SUBSET Block
      OBVIOUS
    <3> HIDE DEF Bad
    <3> QED BY <2>1, <3>1, TreeAssumption
  <2>3. Num[Prev[b]] \in Nat
    BY <2>2, <1>2, <1>7, BlockAssumption DEF Node
  <2> QED BY <2>2, <2>3, <1>7
<1> QED 
  <2>1. Num = [b \in Node |-> Num[b]]
    BY <1>6 DEF Is
  <2> QED BY <2>1, <1>7, <1>8, <1>2

(* The chain of a block is its parent's and the block.                     *)
LEMMA ChainFacts ==
  /\ Chain \in [Node -> Seq(Node)]
  /\ Chain[Root] = <<Root>>
  /\ \A b \in Block : Chain[b] = Append(Chain[Prev[b]], b)
<1> DEFINE H == [x \in Block \X Seq(Node) |-> Append(x[2], x[1])]
           Is(g) == g = [b \in Node |-> IF b = Root THEN <<Root>> ELSE Append(g[Prev[b]], b)]
<1>0. PICK f \in [Node -> Seq(Node)] : RecursiveAlong(f, Block, Root, Prev, H, <<Root>>)
  <2>1. H \in [Block \X Seq(Node) -> Seq(Node)]
    BY DEF Node
  <2>2. <<Root>> \in Seq(Node)
    BY DEF Node
  <2> HIDE DEF H
  <2> QED BY <2>1, <2>2, BlockTree, RecursionAlongParents DEF Node
<1>1. f[Root] = <<Root>> /\ \A b \in Block : f[b] = H[<<b, f[Prev[b]]>>]
  BY <1>0 DEF RecursiveAlong
<1>2. \A b \in Block : Prev[b] \in Node /\ b # Root /\ b \in Node
  BY TreeAssumption DEF Node
<1>3. \A b \in Block : f[b] = Append(f[Prev[b]], b)
  BY <1>1, <1>2
<1>4. Is(f)
  BY <1>1, <1>3 DEF Node
<1>5. Chain = CHOOSE g : Is(g)
  BY DEF Chain
<1>6. Is(Chain)
  <2> HIDE DEF Is
  <2> QED BY <1>4, <1>5
<1> HIDE DEF Is
<1>7. DOMAIN Chain = Node /\ Chain[Root] = <<Root>> /\ \A b \in Block : Chain[b] = Append(Chain[Prev[b]], b)
  BY <1>6, <1>2 DEF Is, Node
<1>8. \A b \in Node : Chain[b] \in Seq(Node)
  <2> DEFINE Bad == {b \in Block : Chain[b] \notin Seq(Node)}
  <2>0. <<Root>> \in Seq(Node) /\ \A b \in Node : b = Root \/ b \in Block
    BY DEF Node
  <2>1. SUFFICES ASSUME Bad # {} PROVE FALSE
    BY <1>7, <2>0
  <2>2. PICK b \in Bad : Prev[b] \notin Bad
    <3>1. Bad \in SUBSET Block
      OBVIOUS
    <3> HIDE DEF Bad
    <3> QED BY <2>1, <3>1, TreeAssumption
  <2>3. Chain[Prev[b]] \in Seq(Node)
    BY <2>2, <2>0, <1>2, <1>7
  <2>4. Append(Chain[Prev[b]], b) \in Seq(Node)
    BY <2>2, <2>3, <1>2
  <2> QED BY <2>2, <2>4, <1>7
<1> QED
  <2>1. Chain = [b \in Node |-> Chain[b]]
    BY <1>6 DEF Is
  <2> QED BY <2>1, <1>7, <1>8, <1>2

(* The elements of a sequence, and of one with an element appended.        *)
LEMMA ToSetFacts ==
  ASSUME NEW S, NEW q \in Seq(S)
  PROVE  /\ ToSet(q) \subseteq S
         /\ \A e \in S : ToSet(Append(q, e)) = ToSet(q) \cup {e}
         /\ ToSet(<<>>) = {}
<1>1. DOMAIN q = 1..Len(q) /\ \A i \in 1..Len(q) : q[i] \in S
  OBVIOUS
<1>2. ASSUME NEW e \in S PROVE ToSet(Append(q, e)) = ToSet(q) \cup {e}
  <2>1. DOMAIN Append(q, e) = 1..(Len(q) + 1) /\ Append(q, e)[Len(q) + 1] = e
        /\ \A i \in 1..Len(q) : Append(q, e)[i] = q[i]
    OBVIOUS
  <2>2. Len(q) \in Nat
    OBVIOUS
  <2>3. ASSUME NEW x \in ToSet(Append(q, e)) PROVE x \in ToSet(q) \cup {e}
    <3>1. PICK i \in 1..(Len(q) + 1) : x = Append(q, e)[i]
      BY <2>1 DEF ToSet
    <3>2. i \in 1..Len(q) \/ i = Len(q) + 1
      BY <2>2
    <3> QED BY <3>1, <3>2, <2>1, <1>1 DEF ToSet
  <2>4. ASSUME NEW x \in ToSet(q) PROVE x \in ToSet(Append(q, e))
    <3>1. PICK i \in 1..Len(q) : x = q[i]
      BY <1>1 DEF ToSet
    <3>2. i \in 1..(Len(q) + 1)
      BY <2>2
    <3> QED BY <3>1, <3>2, <2>1 DEF ToSet
  <2>5. e \in ToSet(Append(q, e))
    <3>1. Len(q) + 1 \in 1..(Len(q) + 1)
      BY <2>2
    <3> QED BY <3>1, <2>1 DEF ToSet
  <2> QED BY <2>3, <2>4, <2>5
<1>3. ToSet(<<>>) = {}
  BY DEF ToSet
<1> QED BY <1>1, <1>2, <1>3 DEF ToSet

(* The blocks on a block's chain.                                          *)
LEMMA OnChainFacts ==
  /\ OnChain(Root) = {Root}
  /\ \A b \in Block : OnChain(b) = OnChain(Prev[b]) \cup {b}
  /\ \A h \in Node : h \in OnChain(h) /\ OnChain(h) \subseteq Node
<1>1. OnChain(Root) = {Root}
  <2>1. ToSet(<<Root>>) = {Root}
    BY DEF ToSet
  <2> QED BY <2>1, ChainFacts DEF OnChain
<1>2. ASSUME NEW b \in Block PROVE OnChain(b) = OnChain(Prev[b]) \cup {b}
  <2>1. Chain[Prev[b]] \in Seq(Node) /\ Chain[b] = Append(Chain[Prev[b]], b) /\ b \in Node
    BY ChainFacts, TreeAssumption DEF Node
  <2> QED BY <2>1, ToSetFacts DEF OnChain
<1>3. ASSUME NEW h \in Node PROVE h \in OnChain(h) /\ OnChain(h) \subseteq Node
  <2>1. Chain[h] \in Seq(Node)
    BY ChainFacts
  <2>2. OnChain(h) \subseteq Node
    BY <2>1, ToSetFacts DEF OnChain
  <2> QED BY <2>2, <1>1, <1>2 DEF Node
<1> QED BY <1>1, <1>2, <1>3

(* A block's ancestors have lower numbers.                                 *)
LEMMA OnChainNum ==
  ASSUME NEW h \in Node, NEW b \in OnChain(h)
  PROVE  Num[b] < Num[h] \/ b = h
<1> DEFINE Bad == {c \in Block : \E d \in OnChain(c) : ~(Num[d] < Num[c] \/ d = c)}
<1>1. SUFFICES ASSUME Bad # {} PROVE FALSE
  BY OnChainFacts DEF Node
<1>2. PICK c \in Bad : Prev[c] \notin Bad
  <2>1. Bad \in SUBSET Block
    OBVIOUS
  <2> HIDE DEF Bad
  <2> QED BY <1>1, <2>1, TreeAssumption
<1>3. PICK d \in OnChain(c) : ~(Num[d] < Num[c] \/ d = c)
  BY <1>2
<1>4. d \in OnChain(Prev[c]) /\ d \in Node /\ c \in Block /\ Prev[c] \in Node
  BY <1>2, <1>3, OnChainFacts, NumFacts DEF Node
<1>5. Num[d] < Num[Prev[c]] \/ d = Prev[c]
  BY <1>2, <1>4, OnChainFacts DEF Node
<1>6. Num[c] = Num[Prev[c]] + 1 /\ Num[d] \in Nat /\ Num[Prev[c]] \in Nat
  BY <1>4, NumFacts
<1> QED BY <1>3, <1>5, <1>6

-----------------------------------------------------------------------------
(* Transactions                                                            *)

(* The fields of the state once a transaction is applied.                  *)
LEMMA ApplyTxFacts ==
  ASSUME NEW st \in ChainState, NEW t \in Tx
  PROVE  LET a == ApplyTx(st, t)
         IN  /\ a \in ChainState
             /\ a.head = st.head /\ a.lib = st.lib /\ a.conf = st.conf
             /\ a.seen = st.seen \cup {t}
             /\ a.done = [st.done EXCEPT ![t] = IF @ < 2 THEN @ + 1 ELSE @]
             /\ a # None /\ st # None
<1>1. st.done \in [Tx -> 0..2] /\ st.seen \in SUBSET Tx /\ st.lib \in Nat /\ st.head \in Node
      /\ st.conf \in [Miner -> Nat]
  BY DEF ChainState
<1> DEFINE d == [st.done EXCEPT ![t] = IF @ < 2 THEN @ + 1 ELSE @]
<1>2. d \in [Tx -> 0..2]
  <2>1. st.done[t] \in 0..2
    BY <1>1
  <2>2. (IF st.done[t] < 2 THEN st.done[t] + 1 ELSE st.done[t]) \in 0..2
    BY <2>1
  <2> QED BY <1>1, <2>2
<1>3. st.seen \cup {t} \in SUBSET Tx
  BY <1>1
<1>4. ApplyTx(st, t) = [st EXCEPT !.seen = st.seen \cup {t}, !.done = d]
  BY DEF ApplyTx, ChainState
<1> HIDE DEF d
<1>5. ApplyTx(st, t) \in ChainState
  BY <1>1, <1>2, <1>3, <1>4 DEF ChainState
<1>6. ApplyTx(st, t).head = st.head /\ ApplyTx(st, t).lib = st.lib /\ ApplyTx(st, t).conf = st.conf
      /\ ApplyTx(st, t).seen = st.seen \cup {t} /\ ApplyTx(st, t).done = d
  BY <1>4 DEF ChainState
<1> QED BY <1>5, <1>6, NoneAssumption DEF d

(* One transaction of a block; None stays None.                            *)
TxsStep(a, t) == IF a # None /\ TxApplies(a, t) THEN ApplyTx(a, t) ELSE None

(* g[i] is the state after the first i transactions.                       *)
After(g, st, ts) == g = [i \in 0..Len(ts) |-> IF i = 0 THEN st ELSE TxsStep(g[i - 1], ts[i])]

(* What that says of the first state and of the next ones.                 *)
LEMMA AfterEquations ==
  ASSUME NEW g, NEW st, NEW ts, Len(ts) \in Nat, After(g, st, ts)
  PROVE  g[0] = st /\ \A i \in 1..Len(ts) : g[i] = TxsStep(g[i - 1], ts[i])
BY DEF After

(* A transaction leads to a chain state or to None.                        *)
LEMMA StepType ==
  ASSUME NEW a \in ChainState \cup {None}, NEW t \in Tx
  PROVE  TxsStep(a, t) \in ChainState \cup {None}
BY ApplyTxFacts DEF TxsStep

(* ApplyTxs is the last value of such a function.                          *)
LEMMA ApplyTxsIs ==
  ASSUME NEW st \in ChainState, NEW ts \in Seq(Tx)
  PROVE  \E g : After(g, st, ts) /\ ApplyTxs(st, ts) = g[Len(ts)]
<1> DEFINE n == Len(ts)
           A == 1..n
           V == ChainState \cup {None}
           H == [x \in A \X V |-> TxsStep(x[2], ts[x[1]])]
<1>1. n \in Nat /\ \A i \in A : ts[i] \in Tx
  OBVIOUS
<1>4. H \in [A \X V -> V]
  <2> SUFFICES ASSUME NEW x \in A \X V PROVE TxsStep(x[2], ts[x[1]]) \in V
    OBVIOUS
  <2>1. x[1] \in A /\ x[2] \in V
    OBVIOUS
  <2> HIDE DEF A, V
  <2>2. ts[x[1]] \in Tx
    BY <2>1, <1>1
  <2> QED BY <2>1, <2>2, StepType DEF V
<1>5. st \in V
  OBVIOUS
<1>6. PICK f \in [0..n -> V] : f[0] = st /\ \A i \in A : f[i] = H[<<i, f[i - 1]>>]
  <2>1. \E f : LoopOf(f, n, V, st, H)
    <3> HIDE DEF H, V, n
    <3> QED BY <1>1, <1>4, <1>5, LoopExists
  <2> HIDE DEF H, V, n
  <2> QED BY <2>1 DEF LoopOf
<1>7. After(f, st, ts)
  <2>1. \A i \in A : i - 1 \in 0..n /\ i \in 0..n
    BY <1>1
  <2>3. \A i \in A : H[<<i, f[i - 1]>>] = TxsStep(f[i - 1], ts[i])
    BY <2>1, <1>6
  <2>4. \A i \in 0..n : f[i] = IF i = 0 THEN st ELSE TxsStep(f[i - 1], ts[i])
    <3>1. \A i \in A : f[i] = TxsStep(f[i - 1], ts[i])
      BY <1>6, <2>3
    <3>2. \A i \in 0..n : i = 0 \/ (i # 0 /\ i \in A)
      BY <1>1
    <3> HIDE DEF A, H, V, n
    <3> QED BY <1>6, <3>1, <3>2
  <2>5. f = [i \in 0..n |-> f[i]]
    BY <1>6
  <2> HIDE DEF H, V
  <2> QED BY <2>4, <2>5 DEF After
<1>8. ApplyTxs(st, ts) = (CHOOSE g : After(g, st, ts))[Len(ts)]
  BY DEF ApplyTxs, After, TxsStep
<1> QED BY <1>7, <1>8

(* No transactions change nothing.                                         *)
LEMMA ApplyTxsEmpty ==
  ASSUME NEW st \in ChainState
  PROVE  ApplyTxs(st, <<>>) = st
<1>1. <<>> \in Seq(Tx) /\ Len(<<>>) = 0
  OBVIOUS
<1>2. PICK g : After(g, st, <<>>) /\ ApplyTxs(st, <<>>) = g[0]
  BY <1>1, ApplyTxsIs
<1> QED BY <1>1, <1>2, AfterEquations

(* One transaction more is one step more: _pending_tx grows by one while   *)
(* the pending state takes one step.                                       *)
LEMMA ApplyTxsAppend ==
  ASSUME NEW st \in ChainState, NEW ts \in Seq(Tx), NEW t \in Tx
  PROVE  ApplyTxs(st, Append(ts, t)) = TxsStep(ApplyTxs(st, ts), t)
<1> DEFINE us == Append(ts, t)
           n == Len(ts)
<1>1. us \in Seq(Tx) /\ Len(us) = n + 1 /\ n \in Nat /\ us[n + 1] = t /\ \A i \in 1..n : us[i] = ts[i]
  OBVIOUS
<1> HIDE DEF us
<1>2. PICK g : After(g, st, ts) /\ ApplyTxs(st, ts) = g[n]
  BY ApplyTxsIs
<1>3. PICK h : After(h, st, us) /\ ApplyTxs(st, us) = h[n + 1]
  BY <1>1, ApplyTxsIs
<1>4. g[0] = st /\ \A i \in 1..n : g[i] = TxsStep(g[i - 1], ts[i])
  BY <1>1, <1>2, AfterEquations
<1>5. h[0] = st /\ \A i \in 1..(n + 1) : h[i] = TxsStep(h[i - 1], us[i])
  <2>1. Len(us) \in Nat
    BY <1>1
  <2> QED BY <1>1, <1>3, <2>1, AfterEquations
<1> HIDE DEF n
<1>6. \A i \in 0..n : g[i] = h[i]
  <2> DEFINE S == {i \in 0..n : g[i] # h[i]}
  <2>1. SUFFICES ASSUME S # {} PROVE FALSE
    OBVIOUS
  <2>2. S \in SUBSET Nat
    BY <1>1
  <2>3. PICK m \in S : \A k \in S : m <= k
    <3> HIDE DEF S
    <3> QED BY <2>1, <2>2, LeastNatural
  <2>4. m # 0
    BY <2>3, <1>4, <1>5
  <2>5. m \in 1..n /\ m \in 1..(n + 1) /\ m - 1 \in 0..n /\ m \in Nat
    BY <2>3, <2>4, <1>1
  <2>6. m - 1 \notin S
    BY <2>3, <2>5
  <2>7. g[m - 1] = h[m - 1]
    BY <2>5, <2>6
  <2>8. g[m] = h[m]
    BY <2>5, <2>7, <1>4, <1>5, <1>1
  <2> QED BY <2>3, <2>8
<1>7. n + 1 \in 1..(n + 1) /\ n \in 0..n /\ (n + 1) - 1 = n
  BY <1>1
<1>8. h[n + 1] = TxsStep(h[n], t)
  BY <1>5, <1>7, <1>1
<1> QED BY <1>2, <1>3, <1>6, <1>7, <1>8 DEF us

-----------------------------------------------------------------------------
(* The invariant, state by state                                           *)

(* _apply_transaction rejects t because of its expiration.                 *)
Expired(st, t) == Num[st.head] > 0 /\ Expiration[t] < Time[st.head]

(* A state in which no transaction has been evaluated twice: what was      *)
(* evaluated is in the deduplication index or has expired.  No             *)
(* confirmation is above the head.                                         *)
Counted(st) ==
  /\ st \in ChainState
  /\ st.lib <= Num[st.head]
  /\ \A m \in Miner : st.conf[m] <= Num[st.head]
  /\ \A t \in Tx : st.done[t] = 0 \/ (st.done[t] = 1 /\ (t \in st.seen \/ Expired(st, t)))

(* Applying a transaction keeps it so.                                     *)
LEMMA CountedTx ==
  ASSUME NEW st, Counted(st), NEW t \in Tx, TxApplies(st, t)
  PROVE  Counted(ApplyTx(st, t))
<1> DEFINE a == ApplyTx(st, t)
<1>1. st \in ChainState
  BY DEF Counted
<1>2. /\ a \in ChainState
      /\ a.head = st.head /\ a.lib = st.lib /\ a.conf = st.conf
      /\ a.seen = st.seen \cup {t}
      /\ a.done = [st.done EXCEPT ![t] = IF @ < 2 THEN @ + 1 ELSE @]
  BY <1>1, ApplyTxFacts
<1> HIDE DEF a
<1>3. st.done \in [Tx -> 0..2] /\ st.head \in Node
  BY <1>1 DEF ChainState
<1>4. st.done[t] = 0
  <2>1. ~Expired(st, t)
    <3>1. Num[st.head] > 0 => Time[st.head] <= Expiration[t]
      BY DEF TxApplies
    <3>2. Time[st.head] \in Nat /\ Expiration[t] \in Nat
      BY <1>3, BlockAssumption, TxAssumption
    <3> QED BY <3>1, <3>2 DEF Expired
  <2>2. t \notin st.seen
    BY DEF TxApplies
  <2> QED BY <2>1, <2>2 DEF Counted
<1>5. a.done[t] = 1
  BY <1>2, <1>3, <1>4
<1>6. ASSUME NEW u \in Tx
      PROVE  a.done[u] = 0 \/ (a.done[u] = 1 /\ (u \in a.seen \/ Expired(a, u)))
  <2>1. CASE u = t
    BY <2>1, <1>2, <1>5
  <2>2. CASE u # t
    <3>1. a.done[u] = st.done[u]
      BY <2>2, <1>2, <1>3
    <3>2. st.done[u] = 0 \/ (st.done[u] = 1 /\ (u \in st.seen \/ Expired(st, u)))
      BY DEF Counted
    <3> QED BY <3>1, <3>2, <1>2 DEF Expired
  <2> QED BY <2>1, <2>2
<1>7. Counted(a)
  BY <1>2, <1>6 DEF Counted
<1> QED BY <1>7 DEF a

(* What a state and a result of applying transactions to it have to do     *)
(* with each other.                                                        *)
OnTop(a, st, T) ==
  /\ a \in ChainState
  /\ a.head = st.head /\ a.lib = st.lib /\ a.conf = st.conf
  /\ st.seen \subseteq a.seen /\ a.seen \subseteq st.seen \cup T
  /\ Counted(st) => Counted(a)

(* One transaction more on top of a state.                                 *)
LEMMA OnTopStep ==
  ASSUME NEW st \in ChainState, NEW T, NEW a, OnTop(a, st, T), NEW t \in Tx, TxApplies(a, t), t \in T
  PROVE  OnTop(ApplyTx(a, t), st, T)
<1>1. a \in ChainState
  BY DEF OnTop
<1> DEFINE b == ApplyTx(a, t)
<1>2. b \in ChainState /\ b.head = a.head /\ b.lib = a.lib /\ b.conf = a.conf
      /\ b.seen = a.seen \cup {t}
  BY <1>1, ApplyTxFacts
<1>3. Counted(a) => Counted(b)
  BY CountedTx
<1> HIDE DEF b
<1>4. OnTop(b, st, T)
  BY <1>2, <1>3 DEF OnTop
<1> QED BY <1>4 DEF b

(* What the transactions of a block leave alone and what they add.         *)
LEMMA ApplyTxsFacts ==
  ASSUME NEW st \in ChainState, NEW ts \in Seq(Tx)
  PROVE  ApplyTxs(st, ts) = None \/ OnTop(ApplyTxs(st, ts), st, ToSet(ts))
<1>1. PICK g : After(g, st, ts) /\ ApplyTxs(st, ts) = g[Len(ts)]
  BY ApplyTxsIs
<1> DEFINE n == Len(ts)
<1>2. n \in Nat /\ \A i \in 1..n : ts[i] \in Tx /\ ts[i] \in ToSet(ts)
  BY DEF ToSet
<1>3. g[0] = st /\ \A i \in 1..n : g[i] = TxsStep(g[i - 1], ts[i])
  BY <1>1, <1>2, AfterEquations
<1> HIDE DEF n
<1> DEFINE Ok(a) == a = None \/ OnTop(a, st, ToSet(ts))
           S == {i \in 0..n : ~Ok(g[i])}
<1>4. SUFFICES S = {}
  BY <1>1, <1>2 DEF n
<1>5. SUFFICES ASSUME S # {} PROVE FALSE
  OBVIOUS
<1>6. S \in SUBSET Nat
  BY <1>2
<1>7. PICK m \in S : \A k \in S : m <= k
  <2> HIDE DEF S
  <2> QED BY <1>5, <1>6, LeastNatural
<1>8. m # 0
  <2>1. OnTop(st, st, ToSet(ts))
    BY DEF OnTop
  <2> QED BY <2>1, <1>7, <1>3
<1>9. m \in 1..n /\ m - 1 \in 0..n /\ m \in Nat
  BY <1>7, <1>8, <1>2
<1>10. m - 1 \notin S
  BY <1>7, <1>9
<1>11. Ok(g[m - 1])
  <2> HIDE DEF Ok
  <2> QED BY <1>9, <1>10
<1>12. g[m] = TxsStep(g[m - 1], ts[m]) /\ ts[m] \in Tx /\ ts[m] \in ToSet(ts)
  BY <1>9, <1>3, <1>2
<1>13. Ok(g[m])
  BY <1>11, <1>12, OnTopStep DEF TxsStep
<1> QED BY <1>7, <1>13

-----------------------------------------------------------------------------
(* Blocks                                                                  *)

(* The confirmation that update_last_irreversible_block picks exists and   *)
(* is one of the miners'.                                                  *)
LEMMA NthConfirmedFacts ==
  ASSUME NEW conf \in [Miner -> Nat], NEW k \in Nat, \A m \in Miner : conf[m] <= k
  PROVE  NthConfirmed(conf) \in Nat /\ NthConfirmed(conf) <= k
<1> DEFINE V == {conf[m] : m \in Miner}
           Upto(n) == {m \in Miner : conf[m] <= n}
           Below(n) == {m \in Miner : conf[m] < n}
           c == Cardinality(Miner)
<1>1. c \in Nat /\ c > 0
  BY MinerAssumption, FS_CardinalityType, FS_EmptySet
<1>2. LibOffset \in Nat /\ LibOffset < c
  <2> HIDE DEF c
  <2>1. LibOffset = (3000 * c) \div 10000
    BY DEF LibOffset, c
  <2> QED BY <2>1, <1>1
<1>3. ASSUME NEW n PROVE /\ IsFiniteSet(Upto(n)) /\ Cardinality(Upto(n)) \in Nat
                         /\ IsFiniteSet(Below(n)) /\ Cardinality(Below(n)) \in Nat
  <2>1. Upto(n) \subseteq Miner /\ Below(n) \subseteq Miner
    OBVIOUS
  <2> HIDE DEF Upto, Below
  <2> QED BY <2>1, MinerAssumption, FS_Subset, FS_CardinalityType
<1>4. V \in SUBSET Nat /\ V # {} /\ \A x \in V : x <= k
  BY MinerAssumption
<1>5. PICK top \in V : \A x \in V : x <= top
  <2> HIDE DEF V
  <2> QED BY <1>4, GreatestBelow
<1>6. Upto(top) = Miner
  BY <1>5
<1> DEFINE S == {n \in V : Cardinality(Upto(n)) > LibOffset}
<1>7. top \in S
  <2>1. Cardinality(Upto(top)) = c
    BY <1>6
  <2> HIDE DEF Upto, c
  <2> QED BY <2>1, <1>5, <1>2, <1>1
<1>8. PICK n \in S : \A x \in S : n <= x
  <2>1. S \in SUBSET Nat /\ S # {}
    BY <1>7, <1>4
  <2> HIDE DEF S
  <2> QED BY <2>1, LeastNatural
<1>9. Cardinality(Below(n)) <= LibOffset
  <2>1. CASE Below(n) = {}
    <3> HIDE DEF Below
    <3>1. Cardinality(Below(n)) = 0
      BY <2>1, FS_EmptySet
    <3> QED BY <3>1, <1>2
  <2>2. CASE Below(n) # {}
    <3> DEFINE W == {conf[m] : m \in Below(n)}
    <3>1. W \in SUBSET Nat /\ W # {} /\ \A x \in W : x <= k
      BY <2>2
    <3>2. PICK w \in W : \A x \in W : x <= w
      <4> HIDE DEF W
      <4> QED BY <3>1, GreatestBelow
    <3>3. w \in V /\ w < n /\ w \in Nat /\ n \in Nat
      BY <3>2, <1>4, <1>8
    <3>4. Upto(w) = Below(n)
      BY <3>2, <3>3
    <3>5. w \notin S
      BY <3>3, <1>8
    <3>6. ~(Cardinality(Upto(w)) > LibOffset)
      <4> HIDE DEF Upto, V
      <4> QED BY <3>3, <3>5
    <3>7. Cardinality(Upto(w)) \in Nat
      BY <1>3
    <3> HIDE DEF Upto, Below
    <3> QED BY <3>4, <3>6, <3>7, <1>2
  <2> QED BY <2>1, <2>2
<1> DEFINE P(x) == Cardinality(Below(x)) <= LibOffset /\ Cardinality(Upto(x)) > LibOffset
<1>10. n \in V /\ P(n)
  BY <1>8, <1>9
<1>11. NthConfirmed(conf) = CHOOSE x \in V : P(x)
  BY DEF NthConfirmed
<1>12. NthConfirmed(conf) \in V
  <2> HIDE DEF P, V
  <2> QED BY <1>10, <1>11
<1> QED BY <1>12, <1>4

(* What a block that applies does to the state.                            *)
Extends(y, st, b) ==
  /\ b \in Block /\ Prev[b] = st.head /\ Time[st.head] < Time[b]
  /\ y \in ChainState /\ y.head = b
  /\ y.seen \subseteq st.seen \cup ToSet(Txs[b])
  /\ \A t \in st.seen : t \in y.seen \/ Expired(y, t)
  /\ Counted(y)

(* _apply_block extends the state it does not throw on.                    *)
LEMMA ApplyBlockFacts ==
  ASSUME NEW st, Counted(st), NEW b, ApplyBlock(st, b) # None
  PROVE  Extends(ApplyBlock(st, b), st, b)
<1> DEFINE a == ApplyTxs(st, Txs[b])
           h == AdvanceHead(a, b)
           l == UpdateLib(h)
           y == ClearExpired(l)
<1>0. st \in ChainState
  BY DEF Counted
<1>1. b \in Valid /\ Prev[b] = st.head /\ ~(Time[st.head] >= Time[b]) /\ a # None
      /\ ApplyBlock(st, b) = y
  BY DEF ApplyBlock
<1>2. b \in Block /\ b \in Node /\ st.head \in Node /\ Txs[b] \in Seq(Tx) /\ Signer[b] \in Miner
      /\ Time[b] \in Nat /\ Time[st.head] \in Nat /\ Time[st.head] < Time[b]
  BY <1>0, <1>1, BlockAssumption DEF ChainState, Node
<1>3. OnTop(a, st, ToSet(Txs[b]))
  <2> HIDE DEF a
  <2>1. a = None \/ OnTop(a, st, ToSet(Txs[b]))
    BY <1>0, <1>2, ApplyTxsFacts DEF a
  <2> QED BY <2>1, <1>1
<1> HIDE DEF a
<1>4. a \in ChainState /\ a.head = st.head
  BY <1>3 DEF OnTop
<1>5. a.conf \in [Miner -> Nat] /\ a.lib \in Nat /\ a.seen \in SUBSET Tx /\ a.done \in [Tx -> 0..2]
  BY <1>4 DEF ChainState
<1>6. Num[b] \in Nat /\ Num[st.head] \in Nat /\ Num[b] = Num[st.head] + 1
  BY <1>1, <1>2, NumFacts
<1> DEFINE cf == [a.conf EXCEPT ![Signer[b]] = Num[b]]
<1>7. cf \in [Miner -> Nat]
  BY <1>5, <1>6, <1>2
<1>8. h = [a EXCEPT !.head = b, !.conf = cf]
  BY <1>4 DEF AdvanceHead, ChainState
<1> HIDE DEF h, cf
<1>9. h \in ChainState /\ h.head = b /\ h.lib = a.lib /\ h.conf = cf /\ h.seen = a.seen /\ h.done = a.done
  BY <1>4, <1>7, <1>8, <1>2 DEF ChainState
<1>10. Counted(a)
  BY <1>3 DEF OnTop
<1>11. \A m \in Miner : cf[m] <= Num[b]
  <2> SUFFICES ASSUME NEW m \in Miner PROVE cf[m] <= Num[b]
    OBVIOUS
  <2>1. a.conf[m] <= Num[st.head] /\ a.conf[m] \in Nat
    BY <1>10, <1>4, <1>5 DEF Counted
  <2>2. cf[m] = Num[b] \/ cf[m] = a.conf[m]
    BY <1>5 DEF cf
  <2> QED BY <2>1, <2>2, <1>6
<1> DEFINE nth == NthConfirmed(cf)
<1>12. nth \in Nat /\ nth <= Num[b]
  BY <1>7, <1>6, <1>11, NthConfirmedFacts
<1> HIDE DEF nth
<1> DEFINE lb == IF nth > a.lib THEN nth ELSE a.lib
<1>13. lb \in Nat /\ lb <= Num[b]
  <2>1. a.lib <= Num[st.head]
    BY <1>10, <1>4 DEF Counted
  <2> QED BY <2>1, <1>12, <1>5, <1>6
<1>14. l = [h EXCEPT !.lib = lb]
  BY <1>9 DEF UpdateLib, ChainState, nth
<1> HIDE DEF l, lb
<1>15. l \in ChainState /\ l.head = b /\ l.lib = lb /\ l.conf = cf /\ l.seen = a.seen /\ l.done = a.done
  BY <1>9, <1>13, <1>14 DEF ChainState
<1> DEFINE sn == IF \E t \in a.seen : Expiration[t] >= Time[b] THEN a.seen ELSE {}
<1>16. sn \in SUBSET Tx
  BY <1>5
<1>17. y = [l EXCEPT !.seen = sn]
  BY <1>15 DEF ClearExpired, ChainState
<1>18. \A t \in a.seen : t \in sn \/ Expiration[t] < Time[b]
  BY <1>5, <1>2, TxAssumption
<1>19. sn \subseteq a.seen
  OBVIOUS
<1> HIDE DEF y, sn
<1>20. y \in ChainState /\ y.head = b /\ y.lib = lb /\ y.conf = cf /\ y.seen = sn /\ y.done = a.done
  BY <1>15, <1>16, <1>17 DEF ChainState
<1>21. \A t \in a.seen : t \in y.seen \/ Expired(y, t)
  BY <1>18, <1>20, <1>6 DEF Expired
<1>22. ASSUME NEW t \in Tx
       PROVE  y.done[t] = 0 \/ (y.done[t] = 1 /\ (t \in y.seen \/ Expired(y, t)))
  <2>1. a.done[t] = 0 \/ (a.done[t] = 1 /\ (t \in a.seen \/ Expired(a, t)))
    BY <1>10 DEF Counted
  <2>2. Expired(a, t) => Expired(y, t)
    <3>1. Expiration[t] \in Nat
      BY TxAssumption
    <3> QED BY <3>1, <1>2, <1>4, <1>6, <1>20 DEF Expired
  <2> QED BY <2>1, <2>2, <1>20, <1>21
<1>23. Counted(y)
  BY <1>11, <1>13, <1>20, <1>22 DEF Counted
<1>24. st.seen \subseteq a.seen /\ a.seen \subseteq st.seen \cup ToSet(Txs[b])
  BY <1>3 DEF OnTop
<1>25. Extends(y, st, b)
  BY <1>1, <1>2, <1>19, <1>20, <1>21, <1>23, <1>24 DEF Extends
<1> QED BY <1>1, <1>25

-----------------------------------------------------------------------------
(* The replay of a chain                                                   *)

(* The state the node starts with.                                         *)
LEMMA RootCounted == Counted(RootState) /\ RootState.head = Root /\ RootState.lib = RootNum
<1>1. [m \in Miner |-> RootNum] \in [Miner -> Nat] /\ [t \in Tx |-> 0] \in [Tx -> 0..2]
      /\ Root \in Node /\ RootNum \in Nat /\ {} \in SUBSET Tx
  BY BlockAssumption DEF Node
<1>2. RootState \in ChainState
  BY <1>1 DEF RootState, ChainState
<1>3. RootState.lib = RootNum /\ RootState.head = Root /\ RootState.conf = [m \in Miner |-> RootNum]
      /\ RootState.done = [t \in Tx |-> 0]
  BY DEF RootState
<1> QED BY <1>1, <1>2, <1>3, NumFacts DEF Counted

(* The replay of a chain, block by block.                                  *)
LEMMA ReplayFacts ==
  /\ Replay[Root] = RootState
  /\ \A b \in Block : Replay[b] = IF Replay[Prev[b]] = None THEN None ELSE ApplyBlock(Replay[Prev[b]], b)
<1> DEFINE G == {st \in ChainState : Counted(st)}
           V == G \cup {None}
           Then(v, b) == IF v = None THEN None ELSE ApplyBlock(v, b)
           H == [x \in Block \X V |-> Then(x[2], x[1])]
           Is(g) == g = [b \in Node |-> IF b = Root THEN RootState ELSE Then(g[Prev[b]], b)]
<1>0. PICK f \in [Node -> V] : RecursiveAlong(f, Block, Root, Prev, H, RootState)
  <2>1. H \in [Block \X V -> V]
    <3> SUFFICES ASSUME NEW b \in Block, NEW v \in V PROVE Then(v, b) \in V
      <4> HIDE DEF V, Then
      <4> QED OBVIOUS
    <3>1. CASE v = None
      BY <3>1
    <3>2. CASE v # None
      <4>1. Counted(v)
        BY <3>2
      <4>2. ApplyBlock(v, b) = None \/ Extends(ApplyBlock(v, b), v, b)
        BY <4>1, ApplyBlockFacts
      <4>3. ApplyBlock(v, b) = None \/ ApplyBlock(v, b) \in G
        BY <4>2 DEF Extends
      <4> QED BY <3>2, <4>3
    <3> QED BY <3>1, <3>2
  <2>2. RootState \in V
    BY RootCounted DEF Counted
  <2> HIDE DEF H, V
  <2> QED BY <2>1, <2>2, BlockTree, RecursionAlongParents DEF Node
<1> HIDE DEF V
<1>1. f[Root] = RootState /\ \A b \in Block : f[b] = H[<<b, f[Prev[b]]>>]
  BY <1>0 DEF RecursiveAlong
<1>2. \A b \in Block : Prev[b] \in Node /\ b # Root /\ b \in Node
  BY TreeAssumption DEF Node
<1> HIDE DEF Then
<1>3. \A b \in Block : f[b] = Then(f[Prev[b]], b)
  BY <1>0, <1>1, <1>2
<1>4. Is(f)
  <2> DEFINE g == [b \in Node |-> IF b = Root THEN RootState ELSE Then(f[Prev[b]], b)]
  <2>1. \A b \in Node : f[b] = g[b]
    BY <1>1, <1>3 DEF Node
  <2>2. f = [b \in Node |-> f[b]] /\ g = [b \in Node |-> g[b]]
    BY <1>0
  <2> HIDE DEF g
  <2>3. f = g
    BY <2>1, <2>2
  <2> QED BY <2>3 DEF g
<1>5. Replay = CHOOSE g : Is(g)
  BY DEF Replay, Then
<1>6. Is(Replay)
  <2> HIDE DEF Is
  <2> QED BY <1>4, <1>5
<1> HIDE DEF Is
<1>7. Replay[Root] = RootState /\ \A b \in Block : Replay[b] = Then(Replay[Prev[b]], b)
  BY <1>6, <1>2 DEF Is, Node
<1> QED BY <1>7 DEF Then

(* The types that go with Counted.                                         *)
LEMMA CountedNotNone ==
  ASSUME NEW st, Counted(st)
  PROVE  st # None /\ st \in ChainState /\ st.head \in Node /\ st.lib \in Nat /\ Num[st.head] \in Nat
         /\ st.lib <= Num[st.head]
<1>1. st \in ChainState
  BY DEF Counted
<1>2. st.head \in Node /\ st.lib \in Nat
  BY <1>1 DEF ChainState
<1> QED BY <1>1, <1>2, NoneAssumption, NumFacts DEF Counted

(* A block applied on top of a replayed state gives a replayed state.      *)
LEMMA ReplayNext ==
  ASSUME NEW st, Counted(st), st = Replay[st.head], NEW b, ApplyBlock(st, b) # None
  PROVE  ApplyBlock(st, b) = Replay[b] /\ Extends(ApplyBlock(st, b), st, b)
<1>1. Extends(ApplyBlock(st, b), st, b)
  BY ApplyBlockFacts
<1>2. b \in Block /\ Prev[b] = st.head
  BY <1>1 DEF Extends
<1>3. st # None
  BY CountedNotNone
<1> QED BY <1>1, <1>2, <1>3, ReplayFacts

(* And the state of a block's parent is the one it was applied to.         *)
LEMMA ReplayParent ==
  ASSUME NEW x, Counted(x), x = Replay[x.head], NEW y, Counted(y), y = Replay[y.head],
         y.head \in Block, x.head = Prev[y.head]
  PROVE  Extends(y, x, y.head)
<1>1. x # None /\ y # None
  BY CountedNotNone
<1>2. y = ApplyBlock(x, y.head)
  BY <1>1, ReplayFacts
<1>3. Extends(ApplyBlock(x, y.head), x, y.head)
  BY <1>1, <1>2, ApplyBlockFacts
<1> QED BY <1>2, <1>3

-----------------------------------------------------------------------------
(* The states the undo history leads back through, oldest first, down to   *)
(* the one without pending transactions.                                   *)
Trail == IF psess THEN undo ELSE Append(undo, s)

(* Every state of the history is the replay of its head's chain, follows   *)
(* the one before by a block (or is a copy of it), and is higher than all  *)
(* that are different from it.                                             *)
GoodTrail(tr) ==
  /\ tr \in Seq(ChainState) /\ tr # <<>>
  /\ \A i \in 1..Len(tr) : Counted(tr[i]) /\ tr[i] = Replay[tr[i].head]
  /\ \A i \in 1..(Len(tr) - 1) :
       tr[i + 1] = tr[i] \/ (tr[i + 1].head \in Block /\ tr[i].head = Prev[tr[i + 1].head])
  /\ \A i, j \in 1..Len(tr) : i < j => tr[i] = tr[j] \/ Num[tr[i].head] < Num[tr[j].head]

(* No state's last irreversible block is above n.                          *)
LibUpTo(tr, n) == \A i \in 1..Len(tr) : tr[i].lib <= n

(* Each block of the chain from number n on is in its place.               *)
Indexed(tr, n) ==
  LET h == tr[Len(tr)].head
  IN \A b \in OnChain(h) :
       Num[b] >= n => /\ Num[h] - Num[b] < Len(tr)
                      /\ tr[Len(tr) - (Num[h] - Num[b])].head = b

(* What holds of the history, n being the highest block that was           *)
(* irreversible so far.  With proposals executed, states may be missing.   *)
TrailInv(tr, n) == GoodTrail(tr) /\ LibUpTo(tr, n) /\ (Proposes = {} => Indexed(tr, n))

(* The locals of push_block that the proofs are about.                     *)
OpFields == {"kept", "was", "second", "left", "threw"}

(* Where push_block is, or a node that goes down.                          *)
Places == {"idle", "direct", "pop", "apply", "unwind", "restore", "requeue",
           "closing", "flush", "down"}

(* The types, and: the pending session is gone while blocks are applied.   *)
TypeInv ==
  /\ undo \in Seq(ChainState) /\ psess \in BOOLEAN /\ (psess => undo # <<>>)
  /\ usize \in Nat /\ usize >= 2 /\ irr \in Nat
  /\ pending \in Seq(Tx) /\ popped \in Seq(Tx)
  /\ op.kept \in Seq(Tx) /\ op.was \in SUBSET Tx
  /\ OpFields \subseteq DOMAIN op
  /\ pc \in Places
  /\ pc \notin {"idle", "requeue"} => ~psess

(* The history is good, and there is room in it for every block that may   *)
(* still have to be undone.                                                *)
HistoryInv ==
  /\ TrailInv(Trail, irr)
  /\ usize >= Num[Last(Trail).head] - irr + 1

(* The state differs from the newest of the history by pending             *)
(* transactions only.                                                      *)
StateInv ==
  /\ Counted(s)
  /\ s.head = Last(Trail).head
  /\ s.seen \subseteq Last(Trail).seen \cup ToSet(pending)

(* Where the transactions are that the node held when push_block began.    *)
Waiting == ToSet(popped) \cup ToSet(op.kept)

(* Nothing of what the node held is lost, when the state is st.            *)
Held(st) == \A t \in op.was : t \in Waiting \cup st.seen \/ Expired(st, t)

(* Where it is in each part of push_block.  While a branch is applied, the *)
(* same holds of every state that it may be unwound to.                    *)
KeptInv ==
  /\ pc = "pop" => op.was \subseteq Waiting \cup s.seen
  /\ pc \in {"apply", "unwind"} =>
       /\ ForkParent \in Node
       /\ Num[s.head] >= Num[ForkParent]
       /\ \A e \in ToSet(Trail) :
            Num[e.head] >= Num[ForkParent] =>
              Held(e) /\ (Num[e.head] = Num[ForkParent] => e.head = ForkParent)
  /\ pc \in {"direct", "restore"} => Held(s)
  /\ pc = "requeue" => \A t \in op.was : t \in Waiting \/ ~TxApplies(s, t)

(* The pending state is the result of the pending transactions.            *)
PendingInv ==
  Grows = {} => IF psess THEN s = ApplyTxs(Last(undo), pending) ELSE pending = <<>>

(* The inductive invariant.                                                *)
Inv == TypeInv /\ HistoryInv /\ StateInv /\ KeptInv /\ PendingInv
-----------------------------------------------------------------------------
(* What happens to the history                                             *)

(* u is the end of tr, all of it or at least its last m states.            *)
Suffix(u, tr, m) ==
  /\ u \in Seq(ChainState) /\ tr \in Seq(ChainState)
  /\ Len(u) \in 1..Len(tr) /\ (Len(u) = Len(tr) \/ Len(u) >= m)
  /\ \A i \in 1..Len(u) : u[i] = tr[i + (Len(tr) - Len(u))]

(* An end of a sequence has its last element.                              *)
LEMMA SuffixFacts ==
  ASSUME NEW u, NEW tr, NEW m \in Int, Suffix(u, tr, m)
  PROVE  /\ u \in Seq(ChainState) /\ u # <<>> /\ Last(u) = Last(tr)
         /\ ToSet(u) \subseteq ToSet(tr)
<1>1. /\ u \in Seq(ChainState) /\ tr \in Seq(ChainState)
      /\ Len(u) \in 1..Len(tr) /\ (Len(u) = Len(tr) \/ Len(u) >= m)
      /\ \A i \in 1..Len(u) : u[i] = tr[i + (Len(tr) - Len(u))]
  BY DEF Suffix
<1>2. Len(tr) \in Nat /\ Len(u) \in Nat /\ Len(u) >= 1 /\ Len(u) <= Len(tr)
  BY <1>1
<1>3. u[Len(u)] = tr[Len(tr)]
  <2>1. Len(u) \in 1..Len(u) /\ Len(u) + (Len(tr) - Len(u)) = Len(tr)
    BY <1>2
  <2> QED BY <2>1, <1>1
<1>4. ASSUME NEW x \in ToSet(u) PROVE x \in ToSet(tr)
  <2>1. PICK i \in 1..Len(u) : x = u[i]
    BY <1>1 DEF ToSet
  <2>2. i + (Len(tr) - Len(u)) \in 1..Len(tr)
    BY <1>2
  <2>3. x = tr[i + (Len(tr) - Len(u))]
    BY <2>1, <1>1
  <2> QED BY <2>2, <2>3, <1>1 DEF ToSet
<1> QED BY <1>1, <1>2, <1>3, <1>4 DEF Last

(* All of a sequence is an end of it.                                      *)
LEMMA SuffixRefl ==
  ASSUME NEW tr \in Seq(ChainState), tr # <<>>, NEW m \in Int
  PROVE  Suffix(tr, tr, m)
<1>1. Len(tr) \in Nat /\ Len(tr) >= 1
  OBVIOUS
<1>2. \A i \in 1..Len(tr) : i + (Len(tr) - Len(tr)) = i
  BY <1>1
<1> QED BY <1>1, <1>2 DEF Suffix

(* An end of an end.                                                       *)
LEMMA SuffixTrans ==
  ASSUME NEW u, NEW v, NEW w, NEW m \in Int, Suffix(u, v, m), Suffix(v, w, m)
  PROVE  Suffix(u, w, m)
<1>1. /\ u \in Seq(ChainState) /\ v \in Seq(ChainState) /\ w \in Seq(ChainState)
      /\ Len(u) \in 1..Len(v) /\ (Len(u) = Len(v) \/ Len(u) >= m)
      /\ Len(v) \in 1..Len(w) /\ (Len(v) = Len(w) \/ Len(v) >= m)
  BY DEF Suffix
<1>2. Len(u) \in Nat /\ Len(v) \in Nat /\ Len(w) \in Nat
  BY <1>1
<1>3. Len(u) \in 1..Len(w) /\ (Len(u) = Len(w) \/ Len(u) >= m)
  BY <1>1, <1>2
<1>4. ASSUME NEW i \in 1..Len(u) PROVE u[i] = w[i + (Len(w) - Len(u))]
  <2> DEFINE j == i + (Len(v) - Len(u))
  <2>1. j \in 1..Len(v) /\ j + (Len(w) - Len(v)) = i + (Len(w) - Len(u))
    BY <1>1, <1>2
  <2>2. u[i] = v[j] /\ v[j] = w[j + (Len(w) - Len(v))]
    <3> HIDE DEF j
    <3>1. v[j] = w[j + (Len(w) - Len(v))]
      BY <2>1 DEF Suffix
    <3>2. u[i] = v[j]
      BY DEF Suffix, j
    <3> QED BY <3>1, <3>2
  <2> HIDE DEF j
  <2> QED BY <2>1, <2>2
<1> QED BY <1>1, <1>3, <1>4 DEF Suffix

(* start_undo_session keeps the newest n entries.                          *)
LEMMA TrimFacts ==
  ASSUME NEW u \in Seq(ChainState), NEW n \in Nat
  PROVE  /\ Trim(u, n) \in Seq(ChainState)
         /\ Len(Trim(u, n)) = IF Len(u) <= n THEN Len(u) ELSE n
         /\ \A i \in 1..Len(Trim(u, n)) : Trim(u, n)[i] = u[i + (Len(u) - Len(Trim(u, n)))]
<1>1. Len(u) \in Nat
  OBVIOUS
<1>2. CASE Len(u) <= n
  <2>1. Trim(u, n) = u
    BY <1>2 DEF Trim
  <2>2. \A i \in 1..Len(u) : i + (Len(u) - Len(u)) = i
    BY <1>1
  <2> QED BY <2>1, <2>2, <1>2
<1>3. CASE ~(Len(u) <= n)
  <2> DEFINE a == Len(u) - n + 1
             t == SubSeq(u, a, Len(u))
  <2>1. Trim(u, n) = t
    BY <1>3 DEF Trim
  <2>2. a \in 1..Len(u) \/ n = 0
    BY <1>1, <1>3
  <2>3. a \in Int /\ a >= 1 /\ Len(u) - a + 1 = n
    BY <1>1, <1>3
  <2>4. \A i \in a..Len(u) : u[i] \in ChainState
    BY <2>3
  <2>5. /\ t \in Seq(ChainState)
        /\ Len(t) = (IF a <= Len(u) THEN Len(u) - a + 1 ELSE 0)
        /\ \A i \in 1..(Len(u) - a + 1) : t[i] = u[a + i - 1]
    <3> HIDE DEF a
    <3> QED BY <2>3, <2>4, <1>1, SubSeqProperties
  <2>6. Len(t) = n
    BY <2>3, <2>5, <1>1
  <2>7. \A i \in 1..n : t[i] = u[i + (Len(u) - n)]
    <3> SUFFICES ASSUME NEW i \in 1..n PROVE t[i] = u[i + (Len(u) - n)]
      OBVIOUS
    <3>1. t[i] = u[a + i - 1]
      BY <2>3, <2>5
    <3>2. a + i - 1 = i + (Len(u) - n)
      BY <1>1
    <3> QED BY <3>1, <3>2
  <2> HIDE DEF t
  <2> QED BY <2>1, <2>5, <2>6, <2>7, <1>3
<1> QED BY <1>2, <1>3

(* That is an end of the history.                                          *)
LEMMA TrimSuffix ==
  ASSUME NEW u \in Seq(ChainState), u # <<>>, NEW n \in Nat, n >= 1, NEW m \in Int, m <= n
  PROVE  Suffix(Trim(u, n), u, m)
<1> DEFINE t == Trim(u, n)
<1>1. /\ t \in Seq(ChainState)
      /\ Len(t) = IF Len(u) <= n THEN Len(u) ELSE n
      /\ \A i \in 1..Len(t) : t[i] = u[i + (Len(u) - Len(t))]
  BY TrimFacts
<1> HIDE DEF t
<1>2. Len(u) \in Nat /\ Len(u) >= 1
  OBVIOUS
<1>3. Len(t) \in 1..Len(u) /\ (Len(t) = Len(u) \/ Len(t) >= m)
  BY <1>1, <1>2
<1>4. Suffix(t, u, m)
  BY <1>1, <1>3 DEF Suffix
<1> QED BY <1>4 DEF t

(* And so is the history with the new session in it.                       *)
LEMMA OpenedSuffix ==
  ASSUME NEW u \in Seq(ChainState), NEW n \in Nat, NEW m \in Int, m <= n + 1, NEW st \in ChainState
  PROVE  Suffix(Opened(u, n, st), Append(u, st), m)
<1> DEFINE t == Trim(u, n)
           v == Append(t, st)
           w == Append(u, st)
<1>1. /\ t \in Seq(ChainState)
      /\ Len(t) = IF Len(u) <= n THEN Len(u) ELSE n
      /\ \A i \in 1..Len(t) : t[i] = u[i + (Len(u) - Len(t))]
  BY TrimFacts
<1> HIDE DEF t
<1>2. Len(u) \in Nat /\ Len(t) \in Nat
  BY <1>1
<1>3. v \in Seq(ChainState) /\ w \in Seq(ChainState) /\ Len(v) = Len(t) + 1 /\ Len(w) = Len(u) + 1
      /\ v[Len(t) + 1] = st /\ w[Len(u) + 1] = st /\ (\A i \in 1..Len(t) : v[i] = t[i])
      /\ (\A i \in 1..Len(u) : w[i] = u[i])
  BY <1>1
<1> HIDE DEF v, w
<1>4. Len(v) \in 1..Len(w) /\ (Len(v) = Len(w) \/ Len(v) >= m)
  BY <1>1, <1>2, <1>3
<1>5. ASSUME NEW i \in 1..Len(v) PROVE v[i] = w[i + (Len(w) - Len(v))]
  <2>1. CASE i = Len(t) + 1
    <3>1. i + (Len(w) - Len(v)) = Len(u) + 1
      BY <2>1, <1>2, <1>3
    <3> QED BY <2>1, <3>1, <1>3
  <2>2. CASE i \in 1..Len(t)
    <3>1. i + (Len(w) - Len(v)) = i + (Len(u) - Len(t)) /\ i + (Len(u) - Len(t)) \in 1..Len(u)
      BY <2>2, <1>1, <1>2, <1>3
    <3> QED BY <2>2, <3>1, <1>1, <1>3
  <2> QED BY <2>1, <2>2, <1>2, <1>3
<1>6. Suffix(v, w, m)
  BY <1>3, <1>4, <1>5 DEF Suffix
<1> QED BY <1>6 DEF v, w, t, Opened

(* Sequences with an element appended.                                     *)
LEMMA AppendFacts ==
  ASSUME NEW S, NEW q \in Seq(S), NEW e \in S
  PROVE  /\ Append(q, e) \in Seq(S) /\ Append(q, e) # <<>> /\ Len(Append(q, e)) = Len(q) + 1
         /\ Last(Append(q, e)) = e /\ Front(Append(q, e)) = q
         /\ Append(q, e)[Len(q) + 1] = e /\ \A i \in 1..Len(q) : Append(q, e)[i] = q[i]
<1>1. Len(q) \in Nat /\ Append(q, e) \in Seq(S) /\ Len(Append(q, e)) = Len(q) + 1
      /\ Append(q, e)[Len(q) + 1] = e /\ \A i \in 1..Len(q) : Append(q, e)[i] = q[i]
  OBVIOUS
<1> DEFINE a == Append(q, e)
<1>2. SubSeq(a, 1, Len(q)) = q
  <2> DEFINE f == SubSeq(a, 1, Len(q))
  <2>1. \A i \in 1..Len(q) : a[i] \in S
    BY <1>1
  <2>2. f \in Seq(S) /\ Len(f) = Len(q) /\ \A i \in 1..Len(q) : f[i] = a[i]
    BY <2>1, <1>1
  <2> HIDE DEF f, a
  <2>3. \A i \in 1..Len(q) : f[i] = q[i]
    BY <2>2, <1>1 DEF a
  <2>4. f = q
    BY <2>2, <2>3, SeqEqual
  <2> QED BY <2>4 DEF f
<1>3. Len(a) - 1 = Len(q)
  BY <1>1
<1>4. a # <<>>
  BY <1>1
<1> HIDE DEF a
<1> QED BY <1>1, <1>2, <1>3, <1>4 DEF Front, Last, a

(* Sequences without their last element.                                   *)
LEMMA FrontFacts ==
  ASSUME NEW S, NEW q \in Seq(S), q # <<>>
  PROVE  /\ Front(q) \in Seq(S) /\ Len(Front(q)) = Len(q) - 1
         /\ \A i \in 1..(Len(q) - 1) : Front(q)[i] = q[i]
         /\ Last(q) \in S
         /\ Append(Front(q), Last(q)) = q
<1> DEFINE f == Front(q)
           a == Append(f, Last(q))
<1>1. Len(q) \in Nat /\ Len(q) >= 1 /\ \A i \in 1..Len(q) : q[i] \in S
  OBVIOUS
<1>2. f \in Seq(S) /\ Len(f) = Len(q) - 1 /\ \A i \in 1..(Len(q) - 1) : f[i] = q[i]
  <2> DEFINE n == Len(q) - 1
  <2>1. n \in Int /\ \A i \in 1..n : q[i] \in S
    BY <1>1
  <2>2. n >= 0
    BY <1>1
  <2>3. f = SubSeq(q, 1, n)
    BY DEF Front
  <2> HIDE DEF n, f
  <2>4. f \in Seq(S) /\ Len(f) = n /\ \A i \in 1..n : f[i] = q[i]
    BY <2>1, <2>2, <2>3
  <2> QED BY <2>4 DEF n
<1>3. Last(q) \in S
  BY <1>1 DEF Last
<1> HIDE DEF f
<1>4. a \in Seq(S) /\ Len(a) = Len(q) /\ a[Len(q)] = Last(q) /\ \A i \in 1..(Len(q) - 1) : a[i] = f[i]
  BY <1>1, <1>2, <1>3
<1> HIDE DEF a
<1>5. \A i \in 1..Len(q) : i = Len(q) \/ i \in 1..(Len(q) - 1)
  BY <1>1
<1>6. \A i \in 1..Len(q) : a[i] = q[i]
  BY <1>2, <1>4, <1>5 DEF Last
<1>7. a = q
  BY <1>4, <1>6, SeqEqual
<1> QED BY <1>2, <1>3, <1>7 DEF f, a

(* The types that go with a good history.                                  *)
LEMMA TrailTypes ==
  ASSUME NEW tr, GoodTrail(tr)
  PROVE  /\ tr \in Seq(ChainState) /\ tr # <<>> /\ Len(tr) \in Nat /\ Len(tr) >= 1
         /\ \A i \in 1..Len(tr) : Counted(tr[i]) /\ tr[i].head \in Node /\ Num[tr[i].head] \in Nat
         /\ Last(tr) = tr[Len(tr)] /\ Len(tr) \in 1..Len(tr)
<1>1. tr \in Seq(ChainState) /\ tr # <<>>
  BY DEF GoodTrail
<1>2. Len(tr) \in Nat /\ Len(tr) >= 1
  BY <1>1
<1>3. \A i \in 1..Len(tr) : Counted(tr[i])
  BY DEF GoodTrail
<1> QED BY <1>1, <1>2, <1>3, CountedNotNone DEF Last

(* The end of a good history is good.                                      *)
LEMMA SuffixGood ==
  ASSUME NEW tr, GoodTrail(tr), NEW m \in Int, NEW u, Suffix(u, tr, m)
  PROVE  GoodTrail(u)
<1>1. /\ u \in Seq(ChainState) /\ Len(u) \in 1..Len(tr)
      /\ \A i \in 1..Len(u) : u[i] = tr[i + (Len(tr) - Len(u))]
  BY DEF Suffix
<1>2. Len(tr) \in Nat
  BY TrailTypes
<1> DEFINE d == Len(tr) - Len(u)
<1>3. d \in Nat /\ Len(u) \in Nat /\ Len(u) + d = Len(tr) /\ Len(u) >= 1
  BY <1>1, <1>2
<1>4. \A i \in 1..Len(u) : u[i] = tr[i + d]
  BY <1>1
<1> HIDE DEF d
<1>5. ASSUME NEW i \in 1..Len(u) PROVE Counted(u[i]) /\ u[i] = Replay[u[i].head]
  <2>1. i + d \in 1..Len(tr)
    BY <1>3
  <2> QED BY <2>1, <1>4 DEF GoodTrail
<1>6. ASSUME NEW i \in 1..(Len(u) - 1)
      PROVE  u[i + 1] = u[i] \/ (u[i + 1].head \in Block /\ u[i].head = Prev[u[i + 1].head])
  <2> DEFINE j == i + d
  <2>1. j \in 1..(Len(tr) - 1) /\ i \in 1..Len(u) /\ i + 1 \in 1..Len(u) /\ (i + 1) + d = j + 1
    BY <1>3
  <2>2. u[i] = tr[j] /\ u[i + 1] = tr[j + 1]
    BY <2>1, <1>4
  <2> HIDE DEF j
  <2> QED BY <2>1, <2>2 DEF GoodTrail
<1>7. ASSUME NEW i \in 1..Len(u), NEW j \in 1..Len(u), i < j
      PROVE  u[i] = u[j] \/ Num[u[i].head] < Num[u[j].head]
  <2>1. i + d \in 1..Len(tr) /\ j + d \in 1..Len(tr) /\ i + d < j + d
    BY <1>3, <1>7
  <2> QED BY <2>1, <1>4 DEF GoodTrail
<1>8. u # <<>>
  BY <1>1, <1>3
<1> QED BY <1>1, <1>5, <1>6, <1>7, <1>8 DEF GoodTrail

(* The end of a history is as good as the history, when it is long enough  *)
(* for the blocks above n.                                                 *)
LEMMA SuffixTrail ==
  ASSUME NEW tr, NEW n \in Nat, TrailInv(tr, n), NEW m \in Int,
         Proposes = {} => m >= Num[Last(tr).head] - n + 1,
         NEW u, Suffix(u, tr, m)
  PROVE  TrailInv(u, n) /\ Last(u) = Last(tr) /\ ToSet(u) \subseteq ToSet(tr)
<1>1. GoodTrail(tr) /\ LibUpTo(tr, n) /\ (Proposes = {} => Indexed(tr, n))
  BY DEF TrailInv
<1>2. GoodTrail(u)
  BY <1>1, SuffixGood
<1>3. Last(u) = Last(tr) /\ ToSet(u) \subseteq ToSet(tr)
  BY SuffixFacts
<1>4. /\ Len(u) \in 1..Len(tr) /\ (Len(u) = Len(tr) \/ Len(u) >= m)
      /\ \A i \in 1..Len(u) : u[i] = tr[i + (Len(tr) - Len(u))]
  BY DEF Suffix
<1>5. Len(tr) \in Nat /\ Len(u) \in Nat /\ Last(tr) = tr[Len(tr)] /\ Last(u) = u[Len(u)]
      /\ Num[Last(tr).head] \in Nat /\ Last(tr).head \in Node
  BY <1>1, <1>2, TrailTypes
<1>6. LibUpTo(u, n)
  <2> SUFFICES ASSUME NEW i \in 1..Len(u) PROVE u[i].lib <= n
    BY DEF LibUpTo
  <2>1. i + (Len(tr) - Len(u)) \in 1..Len(tr)
    BY <1>4, <1>5
  <2> QED BY <2>1, <1>1, <1>4 DEF LibUpTo
<1>7. ASSUME Proposes = {} PROVE Indexed(u, n)
  <2> DEFINE h == Last(tr).head
  <2> SUFFICES ASSUME NEW b \in OnChain(h), Num[b] >= n
               PROVE  Num[h] - Num[b] < Len(u) /\ u[Len(u) - (Num[h] - Num[b])].head = b
    BY <1>3, <1>5 DEF Indexed
  <2>1. Num[h] - Num[b] < Len(tr) /\ tr[Len(tr) - (Num[h] - Num[b])].head = b
    BY <1>1, <1>5, <1>7 DEF Indexed
  <2>2. Num[b] \in Nat /\ Num[h] \in Nat /\ Num[b] <= Num[h]
    BY <1>5, OnChainNum, OnChainFacts, NumFacts
  <2>3. m >= Num[h] - n + 1
    BY <1>7
  <2> HIDE DEF h
  <2> DEFINE k == Num[h] - Num[b]
             i == Len(u) - k
  <2>4. k \in Nat /\ k < Len(u)
    BY SMTT(30), <2>1, <2>2, <2>3, <1>4, <1>5
  <2>5. i \in 1..Len(u) /\ i + (Len(tr) - Len(u)) = Len(tr) - k
    <3> HIDE DEF k
    <3> QED BY <2>4, <1>5
  <2>6. u[i] = tr[Len(tr) - k]
    <3> HIDE DEF i, k
    <3> QED BY <2>5, <1>4
  <2> QED BY <2>1, <2>4, <2>6
<1> QED BY <1>2, <1>3, <1>6, <1>7 DEF TrailInv

(* undo() on a single state leaves a copy of it.                           *)
LEMMA Twice ==
  ASSUME NEW tr \in Seq(ChainState), NEW x \in ChainState, Len(tr) + 1 = 2
  PROVE  LET w == Append(tr, x)
         IN  w \in Seq(ChainState) /\ Len(w) = 2 /\ w[1] = tr[1] /\ w[2] = x /\ w # <<>>
<1> DEFINE w == Append(tr, x)
<1>1. w \in Seq(ChainState) /\ Len(w) = Len(tr) + 1 /\ w[Len(tr) + 1] = x /\ w # <<>>
      /\ \A i \in 1..Len(tr) : w[i] = tr[i]
  BY AppendFacts
<1>2. 1 \in 1..Len(tr)
  OBVIOUS
<1> HIDE DEF w
<1> QED BY <1>1, <1>2 DEF w

(* A state saved a second time does no harm: undo() leaves a copy on a     *)
(* stack of one entry.                                                     *)
LEMMA TwiceTrail ==
  ASSUME NEW tr, NEW n \in Nat, TrailInv(tr, n), Len(tr) = 1
  PROVE  LET w == Append(tr, Last(tr))
         IN  TrailInv(w, n) /\ Last(w) = Last(tr) /\ ToSet(w) \subseteq ToSet(tr)
<1> DEFINE x == Last(tr)
           w == Append(tr, x)
<1>1. GoodTrail(tr) /\ LibUpTo(tr, n) /\ (Proposes = {} => Indexed(tr, n))
  BY DEF TrailInv
<1>2. tr \in Seq(ChainState) /\ Counted(x) /\ x.head \in Node /\ Num[x.head] \in Nat /\ x = tr[1]
      /\ x \in ChainState
  BY <1>1, TrailTypes, CountedNotNone
<1>3. x = Replay[x.head] /\ x.lib <= n
  BY <1>1, <1>2 DEF GoodTrail, LibUpTo
<1> HIDE DEF x
<1>4. w \in Seq(ChainState) /\ Len(w) = 2 /\ w[1] = x /\ w[2] = x /\ w # <<>>
  <2>1. Len(tr) + 1 = 2
    OBVIOUS
  <2> QED BY <2>1, <1>2, Twice
<1> HIDE DEF w
<1>5. \A i \in 1..Len(w) : w[i] = x
  BY <1>4
<1>6. GoodTrail(w)
  <2>1. \A i \in 1..(Len(w) - 1) : w[i + 1] = w[i]
    <3>1. \A i \in 1..(Len(w) - 1) : i = 1
      BY <1>4
    <3> QED BY <3>1, <1>4
  <2> QED BY <2>1, <1>2, <1>3, <1>4, <1>5 DEF GoodTrail
<1>7. LibUpTo(w, n)
  BY <1>3, <1>5 DEF LibUpTo
<1>8. ASSUME Proposes = {} PROVE Indexed(w, n)
  <2> SUFFICES ASSUME NEW b \in OnChain(x.head), Num[b] >= n
               PROVE  Num[x.head] - Num[b] < Len(w) /\ w[Len(w) - (Num[x.head] - Num[b])].head = b
    BY <1>4 DEF Indexed
  <2>1. Num[x.head] - Num[b] < 1
    BY <1>1, <1>2, <1>8 DEF Indexed
  <2>2. Num[b] < Num[x.head] \/ b = x.head
    BY <1>2, OnChainNum
  <2>3. Num[b] \in Nat
    BY <1>2, OnChainFacts, NumFacts
  <2>4. b = x.head /\ Num[x.head] - Num[b] = 0
    BY <2>1, <2>2, <2>3, <1>2
  <2> QED BY <2>4, <1>4
<1>9. Last(w) = x
  BY <1>4 DEF Last
<1>10. ToSet(w) \subseteq ToSet(tr)
  <2>1. x \in ToSet(tr)
    BY <1>2 DEF ToSet
  <2>2. ToSet(w) = ToSet(tr) \cup {x}
    BY <1>2, ToSetFacts DEF w
  <2> QED BY <2>1, <2>2
<1> QED BY <1>6, <1>7, <1>8, <1>9, <1>10 DEF TrailInv, w, x

(* An undone session and the state it leaves.                              *)
LEMMA UndoneTrail ==
  ASSUME NEW w, NEW n \in Nat, TrailInv(w, n)
  PROVE  LET v == Append(Undone(w), Last(w))
         IN  /\ Undone(w) \in Seq(ChainState)
             /\ TrailInv(v, n) /\ Last(v) = Last(w) /\ ToSet(v) \subseteq ToSet(w)
<1>1. w \in Seq(ChainState) /\ w # <<>> /\ Len(w) \in Nat /\ Len(w) >= 1
  BY TrailTypes DEF TrailInv
<1>2. CASE Len(w) = 1
  <2>1. Undone(w) = w
    BY <1>2 DEF Undone
  <2> QED BY <2>1, <1>1, <1>2, TwiceTrail
<1>3. CASE Len(w) # 1
  <2>1. Undone(w) = Front(w)
    BY <1>3 DEF Undone
  <2>2. Front(w) \in Seq(ChainState) /\ Append(Front(w), Last(w)) = w
    BY <1>1, FrontFacts
  <2> QED BY <2>1, <2>2
<1> QED BY <1>2, <1>3

(* pop_block takes the newest state off.                                   *)
LEMMA FrontTrail ==
  ASSUME NEW tr, NEW n \in Nat, TrailInv(tr, n), Len(tr) # 1
  PROVE  LET f == Front(tr)
         IN  /\ TrailInv(f, n) /\ ToSet(f) \subseteq ToSet(tr)
             /\ Last(f) = Last(tr) \/ Extends(Last(tr), Last(f), Last(tr).head)
<1>1. GoodTrail(tr) /\ LibUpTo(tr, n) /\ (Proposes = {} => Indexed(tr, n))
  BY DEF TrailInv
<1>2. tr \in Seq(ChainState) /\ tr # <<>> /\ Len(tr) \in Nat /\ Len(tr) >= 2
      /\ Last(tr) = tr[Len(tr)]
      /\ \A i \in 1..Len(tr) : Counted(tr[i]) /\ tr[i].head \in Node /\ Num[tr[i].head] \in Nat
  <2>1. Len(tr) \in Nat /\ Len(tr) >= 1
    BY <1>1, TrailTypes
  <2>2. Len(tr) >= 2
    <3> DEFINE L == Len(tr)
    <3>1. L \in Nat /\ L >= 1 /\ L # 1
      BY <2>1
    <3> HIDE DEF L
    <3>2. L >= 2
      BY <3>1
    <3> QED BY <3>2 DEF L
  <2> QED BY <1>1, <2>2, TrailTypes
<1> DEFINE f == Front(tr)
           k == Len(tr) - 1
<1>3. f \in Seq(ChainState) /\ Len(f) = k /\ (\A i \in 1..k : f[i] = tr[i])
      /\ k \in Nat /\ k >= 1 /\ k + 1 = Len(tr)
  BY <1>2, FrontFacts
<1> HIDE DEF f, k
<1>4. f # <<>> /\ Last(f) = tr[k] /\ k \in 1..k /\ \A i \in 1..k : i \in 1..Len(tr)
  BY <1>2, <1>3 DEF Last
<1>5. GoodTrail(f)
  <2>1. ASSUME NEW i \in 1..(k - 1) PROVE i \in 1..k /\ i + 1 \in 1..k /\ i \in 1..(Len(tr) - 1)
    BY <1>2, <1>3
  <2>2. \A i \in 1..(k - 1) : f[i + 1] = f[i] \/ (f[i + 1].head \in Block /\ f[i].head = Prev[f[i + 1].head])
    BY <2>1, <1>1, <1>3 DEF GoodTrail
  <2>3. \A i \in 1..k : Counted(f[i]) /\ f[i] = Replay[f[i].head]
    BY <1>1, <1>3, <1>4 DEF GoodTrail
  <2>4. \A i, j \in 1..k : i < j => f[i] = f[j] \/ Num[f[i].head] < Num[f[j].head]
    BY <1>1, <1>3, <1>4 DEF GoodTrail
  <2> QED BY <2>2, <2>3, <2>4, <1>3, <1>4 DEF GoodTrail
<1>6. LibUpTo(f, n)
  BY <1>1, <1>3, <1>4 DEF LibUpTo
<1>7. ToSet(f) \subseteq ToSet(tr)
  BY <1>2, <1>3, <1>4 DEF ToSet
<1> DEFINE y == tr[Len(tr)]
           x == tr[k]
<1>8. x = y \/ (y.head \in Block /\ x.head = Prev[y.head])
  <2>1. k \in 1..(Len(tr) - 1) /\ k + 1 = Len(tr)
    BY <1>2, <1>3
  <2> QED BY <2>1, <1>1 DEF GoodTrail
<1>9. Counted(x) /\ Counted(y) /\ x = Replay[x.head] /\ y = Replay[y.head]
      /\ x.head \in Node /\ y.head \in Node /\ Num[x.head] \in Nat /\ Num[y.head] \in Nat
  <2>1. k \in 1..Len(tr) /\ Len(tr) \in 1..Len(tr)
    BY <1>2, <1>3
  <2> QED BY <2>1, <1>1, <1>2 DEF GoodTrail
<1> HIDE DEF x, y
<1>10. x = y \/ Extends(y, x, y.head)
  BY <1>8, <1>9, ReplayParent
<1>11. ASSUME Proposes = {} PROVE Indexed(f, n)
  <2> SUFFICES ASSUME NEW b \in OnChain(x.head), Num[b] >= n
               PROVE  Num[x.head] - Num[b] < k /\ f[k - (Num[x.head] - Num[b])].head = b
    BY <1>3, <1>4 DEF Indexed, x
  <2>1. Num[b] \in Nat /\ (Num[b] < Num[x.head] \/ b = x.head)
    BY <1>9, OnChainNum, OnChainFacts, NumFacts
  <2> DEFINE e == Num[x.head] - Num[b]
  <2>2. CASE b = x.head
    <3>1. e = 0 /\ k - e = k
      BY <2>2, <1>9, <1>3
    <3> HIDE DEF e
    <3>2. f[k].head = b
      BY <2>2, <1>3, <1>4 DEF x
    <3>3. e < k /\ f[k - e].head = b
      BY <3>1, <3>2, <1>3
    <3> QED BY <3>3 DEF e
  <2>3. CASE b # x.head
    <3>1. b \in OnChain(y.head)
      BY <1>8, OnChainFacts
    <3>2. Num[y.head] - Num[b] < Len(tr) /\ tr[Len(tr) - (Num[y.head] - Num[b])].head = b
      BY <3>1, <1>1, <1>11 DEF Indexed, y
    <3>3. CASE x = y
      <4> DEFINE p == Prev[x.head]
      <4>1. x.head \in Block
        BY <2>3, <1>9, OnChainFacts DEF Node
      <4>2. p \in OnChain(x.head) /\ Num[x.head] = Num[p] + 1 /\ Num[p] \in Nat
        BY <4>1, OnChainFacts, NumFacts
      <4>3. Num[p] >= n /\ Num[x.head] - Num[p] = 1 /\ Len(tr) - 1 = k
        BY <4>2, <2>1, <2>3, <1>9, <1>3
      <4>4. tr[Len(tr) - (Num[x.head] - Num[p])].head = p
        BY <4>2, <4>3, <3>3, <1>1, <1>11 DEF Indexed, y
      <4>5. x.head = p
        BY <4>3, <4>4 DEF x
      <4> QED BY <4>2, <4>5
    <3>4. CASE y.head \in Block /\ x.head = Prev[y.head]
      <4>1. Num[y.head] = Num[x.head] + 1
        BY <3>4, NumFacts
      <4>2. e < k /\ Len(tr) - (Num[y.head] - Num[b]) = k - e
        <5> DEFINE L == Len(tr)
                   ny == Num[y.head]
                   nx == Num[x.head]
                   nb == Num[b]
        <5>1. ny = nx + 1 /\ L = k + 1 /\ ny - nb < L /\ nx \in Nat /\ nb \in Nat /\ k \in Nat
          BY <4>1, <3>2, <1>3, <1>9, <2>1
        <5> HIDE DEF L, ny, nx, nb
        <5>2. nx - nb < k /\ L - (ny - nb) = k - (nx - nb)
          BY <5>1
        <5> QED BY <5>2 DEF L, ny, nx, nb
      <4>3. k - e \in 1..k
        BY <4>2, <1>3, <1>9, <2>1, <2>3
      <4>4. f[k - e].head = b
        <5> HIDE DEF e
        <5> QED BY <4>2, <4>3, <3>2, <1>3
      <4> QED BY <4>2, <4>4
    <3> QED BY <3>3, <3>4, <1>8
  <2> QED BY <2>2, <2>3
<1> QED BY <1>4, <1>5, <1>6, <1>7, <1>10, <1>11, <1>2 DEF TrailInv, f, x, y

(* A block adds its state.                                                 *)
LEMMA ExtendTrail ==
  ASSUME NEW tr, NEW n \in Nat, TrailInv(tr, n), NEW b, ApplyBlock(Last(tr), b) # None,
         NEW k \in Nat, k >= n, ApplyBlock(Last(tr), b).lib <= k
  PROVE  LET y == ApplyBlock(Last(tr), b)
         IN  TrailInv(Append(tr, y), k) /\ Extends(y, Last(tr), b)
<1> DEFINE x == Last(tr)
           y == ApplyBlock(x, b)
           w == Append(tr, y)
           L == Len(tr)
<1>1. GoodTrail(tr) /\ LibUpTo(tr, n) /\ (Proposes = {} => Indexed(tr, n))
  BY DEF TrailInv
<1>2. tr \in Seq(ChainState) /\ L \in Nat /\ L >= 1 /\ x = tr[L] /\ L \in 1..L
      /\ \A i \in 1..L : Counted(tr[i]) /\ tr[i].head \in Node /\ Num[tr[i].head] \in Nat
  BY <1>1, TrailTypes
<1>3. Counted(x) /\ x = Replay[x.head] /\ x.head \in Node /\ Num[x.head] \in Nat
  BY <1>1, <1>2 DEF GoodTrail
<1>4. y = Replay[b] /\ Extends(y, x, b)
  BY <1>3, ReplayNext
<1> HIDE DEF x, y
<1>5. b \in Block /\ Prev[b] = x.head /\ y \in ChainState /\ y.head = b /\ Counted(y) /\ y.lib <= k
  BY <1>4 DEF Extends, x, y
<1>6. Num[b] = Num[x.head] + 1 /\ Num[b] \in Nat
  BY <1>5, NumFacts DEF Node
<1>7. w \in Seq(ChainState) /\ w # <<>> /\ Len(w) = L + 1 /\ w[L + 1] = y /\ \A i \in 1..L : w[i] = tr[i]
  BY <1>2, <1>5, AppendFacts
<1> HIDE DEF w, L
<1>8. \A i \in 1..(L + 1) : i \in 1..L \/ i = L + 1
  BY <1>2
<1>9. GoodTrail(w)
  <2>1. \A i \in 1..Len(w) : Counted(w[i]) /\ w[i] = Replay[w[i].head]
    BY <1>1, <1>4, <1>5, <1>7, <1>8 DEF GoodTrail, L
  <2>2. ASSUME NEW i \in 1..(Len(w) - 1)
        PROVE  w[i + 1] = w[i] \/ (w[i + 1].head \in Block /\ w[i].head = Prev[w[i + 1].head])
    <3>1. CASE i = L
      BY <3>1, <1>2, <1>5, <1>7
    <3>2. CASE i \in 1..(L - 1)
      <4>1. i \in 1..L /\ i + 1 \in 1..L
        BY <3>2, <1>2
      <4> QED BY <3>2, <4>1, <1>1, <1>7 DEF GoodTrail, L
    <3>3. i = L \/ i \in 1..(L - 1)
      BY <1>2, <1>7
    <3> QED BY <3>1, <3>2, <3>3
  <2>3. ASSUME NEW i \in 1..Len(w), NEW j \in 1..Len(w), i < j
        PROVE  w[i] = w[j] \/ Num[w[i].head] < Num[w[j].head]
    <3>1. i \in 1..L
      BY <2>3, <1>2, <1>7
    <3>2. CASE j \in 1..L
      BY <2>3, <3>1, <3>2, <1>1, <1>7 DEF GoodTrail, L
    <3>3. CASE j = L + 1
      <4>1. tr[i] = x \/ Num[tr[i].head] < Num[x.head]
        <5>1. i = L \/ i < L
          BY <3>1, <1>2
        <5> QED BY <5>1, <3>1, <1>1, <1>2 DEF GoodTrail, L
      <4>2. Num[tr[i].head] \in Nat
        BY <3>1, <1>2
      <4>3. Num[tr[i].head] < Num[b]
        BY <4>1, <4>2, <1>3, <1>6
      <4> QED BY <4>3, <3>1, <3>3, <1>5, <1>7
    <3> QED BY <3>2, <3>3, <1>7, <1>8
  <2> QED BY <2>1, <2>2, <2>3, <1>7 DEF GoodTrail
<1>10. LibUpTo(w, k)
  <2> SUFFICES ASSUME NEW i \in 1..(L + 1) PROVE w[i].lib <= k
    BY <1>7 DEF LibUpTo
  <2>1. CASE i = L + 1
    BY <2>1, <1>5, <1>7
  <2>2. CASE i \in 1..L
    <3>1. tr[i].lib <= n
      BY <2>2, <1>1 DEF LibUpTo, L
    <3>2. tr[i].lib \in Nat
      BY <2>2, <1>2, CountedNotNone
    <3>3. tr[i].lib <= k
      BY <3>1, <3>2
    <3> QED BY <2>2, <3>3, <1>7
  <2> QED BY <2>1, <2>2, <1>8
<1>11. ASSUME Proposes = {} PROVE Indexed(w, k)
  <2> SUFFICES ASSUME NEW c \in OnChain(b), Num[c] >= k
               PROVE  Num[b] - Num[c] < L + 1 /\ w[(L + 1) - (Num[b] - Num[c])].head = c
    BY <1>5, <1>7 DEF Indexed
  <2>1. CASE c = b
    <3>1. Num[b] - Num[c] = 0 /\ (L + 1) - (Num[b] - Num[c]) = L + 1
      BY <2>1, <1>6, <1>2
    <3> QED BY <2>1, <3>1, <1>2, <1>5, <1>7
  <2>2. CASE c # b
    <3>1. c \in OnChain(x.head)
      BY <2>2, <1>5, OnChainFacts
    <3>2. Num[c] \in Nat /\ Num[c] <= Num[x.head]
      BY <3>1, <1>3, OnChainNum, OnChainFacts, NumFacts
    <3>3. Num[c] >= n
      BY <3>2
    <3>4. Num[x.head] - Num[c] < L /\ tr[L - (Num[x.head] - Num[c])].head = c
      BY <3>1, <3>3, <1>1, <1>2, <1>11 DEF Indexed, L
    <3> DEFINE nx == Num[x.head]
               nb == Num[b]
               nc == Num[c]
    <3>5. nb = nx + 1 /\ nx - nc < L /\ nc <= nx /\ nc \in Nat /\ nx \in Nat
      BY <3>2, <3>4, <1>3, <1>6
    <3> HIDE DEF nx, nb, nc
    <3>6. nb - nc < L + 1 /\ (L + 1) - (nb - nc) = L - (nx - nc) /\ L - (nx - nc) \in 1..L
      BY SMTT(30), <3>5, <1>2
    <3>7. w[L - (nx - nc)].head = c
      BY <3>4, <3>6, <1>7 DEF nx, nc
    <3> QED BY <3>6, <3>7 DEF nx, nb, nc
  <2> QED BY <2>1, <2>2
<1> QED BY <1>4, <1>9, <1>10, <1>11 DEF TrailInv, w, x, y

-----------------------------------------------------------------------------
(* Sessions for transactions                                               *)

(* A session inside a session costs the oldest state.                      *)
LEMMA NestedSuffix ==
  ASSUME NEW q \in Seq(ChainState), q # <<>>, NEW n \in Nat, n >= 2, Len(q) <= n, NEW st \in ChainState
  PROVE  LET r == Trim(Append(q, st), n)
         IN  r \in Seq(ChainState) /\ r # <<>> /\ Len(r) >= 2 /\ Suffix(Front(r), q, n - 1)
<1> DEFINE inner == Append(q, st)
           r == Trim(inner, n)
           f == Front(r)
<1>1. Len(q) \in Nat /\ Len(q) >= 1
  OBVIOUS
<1>2. inner \in Seq(ChainState) /\ Len(inner) = Len(q) + 1 /\ \A i \in 1..Len(q) : inner[i] = q[i]
  BY AppendFacts
<1> HIDE DEF inner
<1>3. /\ r \in Seq(ChainState)
      /\ Len(r) = IF Len(inner) <= n THEN Len(inner) ELSE n
      /\ \A i \in 1..Len(r) : r[i] = inner[i + (Len(inner) - Len(r))]
  BY <1>2, TrimFacts
<1> HIDE DEF r
<1>4. Len(r) \in Nat /\ Len(r) >= 2
  BY <1>1, <1>2, <1>3
<1>5. r # <<>>
  BY <1>4
<1>6. f \in Seq(ChainState) /\ Len(f) = Len(r) - 1 /\ \A i \in 1..(Len(r) - 1) : f[i] = r[i]
  BY <1>3, <1>5, FrontFacts
<1> HIDE DEF f
<1>7. Len(f) \in 1..Len(q) /\ (Len(f) = Len(q) \/ Len(f) >= n - 1)
  BY <1>1, <1>2, <1>3, <1>4, <1>6
<1>8. ASSUME NEW i \in 1..Len(f) PROVE f[i] = q[i + (Len(q) - Len(f))]
  <2>1. i \in 1..(Len(r) - 1) /\ i \in 1..Len(r)
        /\ i + (Len(inner) - Len(r)) = i + (Len(q) - Len(f))
        /\ i + (Len(q) - Len(f)) \in 1..Len(q)
    BY <1>1, <1>2, <1>4, <1>6, <1>7
  <2>2. f[i] = inner[i + (Len(q) - Len(f))]
    BY <2>1, <1>3, <1>6
  <2> QED BY <2>1, <2>2, <1>2
<1>9. Suffix(f, q, n - 1)
  BY <1>6, <1>7, <1>8 DEF Suffix
<1> QED BY <1>3, <1>4, <1>5, <1>9 DEF r, f, inner

(* A transaction only drops old states.                                    *)
LEMMA PushTxHistory ==
  ASSUME TypeInv, s \in ChainState, NEW t \in Tx, PushTx(t)
  PROVE  /\ psess' = TRUE /\ undo' \in Seq(ChainState)
         /\ Suffix(undo', Trail, usize - 1)
         /\ Proposes = {} => Suffix(undo', Trail, usize)
<1> DEFINE base  == IF psess THEN undo ELSE Opened(undo, usize, s)
           q     == Trim(base, usize)
           inner == Opened(base, usize, s)
           deep  == IF t \in Proposes THEN Opened(inner, usize, s) ELSE inner
           drop  == IF t \in Proposes THEN 2 ELSE 1
<1>1. undo \in Seq(ChainState) /\ psess \in BOOLEAN /\ (psess => undo # <<>>)
      /\ usize \in Nat /\ usize >= 2 /\ usize - 1 \in Nat
  BY DEF TypeInv, Places
<1>2. psess' = TRUE /\ (undo' = Front(inner) \/ undo' = SubSeq(deep, 1, Len(deep) - drop))
  BY DEF PushTx
<1>3. \A m \in Int : m <= usize => Suffix(base, Trail, m)
  <2> SUFFICES ASSUME NEW m \in Int, m <= usize PROVE Suffix(base, Trail, m)
    OBVIOUS
  <2>1. CASE psess
    BY <2>1, <1>1, SuffixRefl DEF Trail
  <2>2. CASE ~psess
    <3>1. m <= usize + 1
      BY <1>1
    <3>2. Suffix(Opened(undo, usize, s), Append(undo, s), m)
      BY <3>1, <1>1, OpenedSuffix
    <3> QED BY <3>2, <2>2 DEF Trail
  <2> QED BY <2>1, <2>2, <1>1
<1>4. base \in Seq(ChainState) /\ base # <<>>
  <2>1. Suffix(base, Trail, usize)
    BY <1>1, <1>3
  <2> HIDE DEF base
  <2> QED BY <2>1, <1>1, SuffixFacts
<1> HIDE DEF base
<1>5. \A m \in Int : m <= usize => Suffix(q, base, m)
  BY <1>1, <1>4, TrimSuffix
<1>6. q \in Seq(ChainState) /\ q # <<>>
  <2>1. Suffix(q, base, usize)
    BY <1>1, <1>5
  <2> HIDE DEF q
  <2> QED BY <2>1, <1>1, SuffixFacts
<1>7. Len(q) <= usize /\ Len(q) \in Nat
  BY <1>1, <1>4, <1>6, TrimFacts
<1> HIDE DEF q
<1>8. inner = Append(q, s) /\ Front(inner) = q /\ inner \in Seq(ChainState) /\ Len(inner) = Len(q) + 1
      /\ inner # <<>>
  BY <1>6, AppendFacts DEF Opened, q
<1>9. \A m \in Int : m <= usize => Suffix(q, Trail, m)
  BY <1>3, <1>5, SuffixTrans
<1>10. CASE undo' = q
  <2>1. Suffix(q, Trail, usize - 1) /\ Suffix(q, Trail, usize)
    BY <1>1, <1>9
  <2> QED BY <2>1, <1>2, <1>6, <1>10
<1>11. CASE t \notin Proposes
  <2>1. SubSeq(deep, 1, Len(deep) - drop) = Front(inner)
    BY <1>11 DEF Front
  <2> HIDE DEF inner, deep, drop
  <2>2. undo' = q
    BY <2>1, <1>2, <1>8
  <2> QED BY <2>2, <1>10
<1>12. CASE t \in Proposes /\ undo' = SubSeq(deep, 1, Len(deep) - drop)
  <2> DEFINE r == Trim(inner, usize)
             f == Front(r)
  <2> HIDE DEF inner
  <2>1. deep = Append(r, s) /\ drop = 2
    BY <1>12 DEF Opened
  <2>2. r \in Seq(ChainState) /\ r # <<>> /\ Len(r) >= 2 /\ Suffix(f, q, usize - 1)
    BY <1>1, <1>6, <1>7, <1>8, NestedSuffix
  <2> HIDE DEF r
  <2>3. Len(r) \in Nat /\ Len(r) >= 2
    BY <2>2
  <2>5. SubSeq(deep, 1, Len(deep) - drop) = f
    <3>1. Append(r, s) \in Seq(ChainState) /\ Len(Append(r, s)) = Len(r) + 1
          /\ \A i \in 1..Len(r) : Append(r, s)[i] = r[i]
      BY <2>2, AppendFacts
    <3> DEFINE g == SubSeq(Append(r, s), 1, Len(r) - 1)
               k == Len(r) - 1
    <3>2. k \in Nat /\ (Len(r) + 1) - 2 = k /\ \A i \in 1..k : i \in 1..Len(r)
      BY <2>3
    <3>3. \A i \in 1..k : Append(r, s)[i] \in ChainState
      BY <3>1, <3>2, <2>2
    <3>4. g \in Seq(ChainState) /\ Len(g) = k /\ \A i \in 1..k : g[i] = Append(r, s)[i]
      <4> DEFINE ap == Append(r, s)
      <4>1. g = SubSeq(ap, 1, k) /\ \A i \in 1..k : ap[i] \in ChainState
        BY <3>3
      <4> HIDE DEF ap, g, k
      <4>2. g \in Seq(ChainState) /\ Len(g) = k /\ \A i \in 1..k : g[i] = ap[i]
        BY <4>1, <3>2
      <4> QED BY <4>2 DEF ap
    <3>5. f \in Seq(ChainState) /\ Len(f) = k /\ \A i \in 1..k : f[i] = r[i]
      BY <2>2, FrontFacts
    <3> HIDE DEF f, g, k
    <3>6. \A i \in 1..k : f[i] = g[i]
      BY <3>1, <3>2, <3>4, <3>5
    <3>7. f = g
      BY <3>4, <3>5, <3>6, SeqEqual
    <3> QED BY <3>7, <3>1, <3>2, <2>1 DEF g, k
  <2>7. Suffix(q, Trail, usize - 1)
    BY <1>1, <1>9
  <2>8. Suffix(f, Trail, usize - 1)
    BY <1>1, <2>2, <2>7, SuffixTrans
  <2>9. f \in Seq(ChainState)
    BY <1>1, <2>8, SuffixFacts
  <2> QED BY <1>2, <1>12, <2>5, <2>8, <2>9
<1> QED BY <1>2, <1>8, <1>10, <1>11, <1>12

(* The state and the history once the pending session is gone.             *)
LEMMA BaseTrail ==
  ASSUME TypeInv, HistoryInv
  PROVE  /\ BaseUndo \in Seq(ChainState) /\ BaseState = Last(Trail)
         /\ BaseState \in ChainState /\ Counted(BaseState)
         /\ TrailInv(Append(BaseUndo, BaseState), irr)
         /\ Last(Append(BaseUndo, BaseState)) = BaseState
         /\ ToSet(Append(BaseUndo, BaseState)) \subseteq ToSet(Trail)
<1>1. undo \in Seq(ChainState) /\ psess \in BOOLEAN /\ irr \in Nat
  BY DEF TypeInv, Places
<1>2. TrailInv(Trail, irr) /\ GoodTrail(Trail)
  BY DEF HistoryInv, TrailInv
<1>3. Counted(Last(Trail)) /\ Last(Trail) \in ChainState
  BY <1>2, TrailTypes, CountedNotNone
<1>4. CASE psess
  <2>1. Trail = undo /\ BaseState = Last(undo) /\ BaseUndo = Undone(undo)
    BY <1>4 DEF Trail, BaseState, BaseUndo
  <2> QED BY <2>1, <1>1, <1>2, <1>3, UndoneTrail
<1>5. CASE ~psess
  <2>1. Trail = Append(undo, s) /\ BaseState = s /\ BaseUndo = undo
    BY <1>5 DEF Trail, BaseState, BaseUndo
  <2>2. Last(Trail) = s
    <3>1. Trail \in Seq(ChainState) /\ Trail # <<>> /\ Last(Trail) = Trail[Len(Trail)]
      BY <1>2, TrailTypes
    <3>2. Len(Trail) = Len(undo) + 1 /\ Trail[Len(undo) + 1] = s
      BY <2>1, <1>1
    <3> QED BY <3>1, <3>2
  <2> QED BY <2>1, <2>2, <1>1, <1>2, <1>3
<1> QED BY <1>1, <1>4, <1>5

(* The sessions of _generate_block.                                        *)
LEMMA GenerateSuffix ==
  ASSUME TypeInv, BaseUndo \in Seq(ChainState), BaseState \in ChainState
  PROVE  \E w : /\ GenerateUndo = Undone(w)
                /\ Suffix(w, Append(BaseUndo, BaseState), usize - 1)
                /\ Proposes = {} => Suffix(w, Append(BaseUndo, BaseState), usize)
<1> DEFINE B == BaseState
           T == Append(BaseUndo, B)
           u == Opened(BaseUndo, usize, B)
           v == IF pending = <<>> THEN u ELSE Front(Opened(u, usize, B))
           P == \E i \in 1..Len(pending) : pending[i] \in Proposes
           w == IF P THEN Front(Front(Opened(Opened(v, usize, B), usize, B))) ELSE v
<1>1. usize \in Nat /\ usize >= 2 /\ irr \in Nat /\ usize - 1 \in Nat /\ usize - 1 >= 1
  BY DEF TypeInv, Places
<1>2. BaseUndo \in Seq(ChainState) /\ B \in ChainState
  OBVIOUS
<1>4. \A m \in Int : m <= usize => Suffix(u, T, m)
  <2>1. \A m \in Int : m <= usize => m <= usize + 1
    BY <1>1
  <2> QED BY <1>1, <1>2, <2>1, OpenedSuffix
<1> HIDE DEF B, T
<1>5. u \in Seq(ChainState) /\ u # <<>>
  <2> HIDE DEF u
  <2> QED BY <1>1, <1>4, SuffixFacts
<1> HIDE DEF u
<1>6. \A m \in Int : m <= usize => Suffix(v, u, m)
  <2>1. CASE pending = <<>>
    BY <2>1, <1>5, SuffixRefl
  <2>2. CASE pending # <<>>
    <3> DEFINE q == Trim(u, usize)
    <3>1. \A m \in Int : m <= usize => Suffix(q, u, m)
      BY <1>1, <1>5, TrimSuffix
    <3>2. q \in Seq(ChainState)
      BY <1>1, <1>5, TrimFacts
    <3> HIDE DEF q
    <3>3. Front(Append(q, B)) = q
      BY <3>2, <1>2, AppendFacts
    <3>4. v = q
      BY <3>3, <2>2 DEF Opened, q
    <3> QED BY <3>1, <3>4
  <2> QED BY <2>1, <2>2
<1> HIDE DEF v
<1>7. v \in Seq(ChainState) /\ v # <<>>
  BY <1>1, <1>6, SuffixFacts
<1>8. Suffix(w, v, usize - 1) /\ (Proposes = {} => Suffix(w, v, usize))
  <2>1. CASE ~P
    <3>1. w = v
      BY <2>1
    <3> QED BY <3>1, <1>1, <1>7, SuffixRefl
  <2>2. CASE P
    <3> DEFINE q == Trim(v, usize)
               r == Trim(Append(q, B), usize)
    <3>0. Proposes # {}
      BY <2>2
    <3> HIDE DEF P
    <3>1. usize - 1 <= usize
      BY <1>1
    <3>2. Suffix(q, v, usize - 1)
      BY <1>1, <1>7, <3>1, TrimSuffix
    <3>3. q \in Seq(ChainState) /\ Len(q) <= usize
      BY <1>1, <1>7, TrimFacts
    <3>4. q # <<>>
      BY <1>1, <3>2, SuffixFacts
    <3> HIDE DEF q
    <3>5. r \in Seq(ChainState) /\ Suffix(Front(r), q, usize - 1)
      BY <1>1, <1>2, <3>3, <3>4, NestedSuffix
    <3>6. Front(Append(r, B)) = r
      BY <3>5, <1>2, AppendFacts
    <3>7. w = Front(r)
      BY <3>6, <2>2 DEF Opened, q
    <3>8. Suffix(w, v, usize - 1)
      BY <1>1, <3>2, <3>5, <3>7, SuffixTrans
    <3> QED BY <3>0, <3>8
  <2> QED BY <2>1, <2>2
<1> HIDE DEF w
<1>9. Proposes = {} => Suffix(w, T, usize)
  <2> SUFFICES ASSUME Proposes = {} PROVE Suffix(w, T, usize)
    OBVIOUS
  <2>1. Suffix(w, v, usize) /\ Suffix(v, u, usize) /\ Suffix(u, T, usize)
    BY <1>1, <1>4, <1>6, <1>8
  <2> QED BY <2>1, <1>1, SuffixTrans
<1>10. Suffix(w, T, usize - 1)
  <2>1. Suffix(w, v, usize - 1) /\ Suffix(v, u, usize - 1) /\ Suffix(u, T, usize - 1)
    BY <1>1, <1>4, <1>6, <1>8
  <2> QED BY <2>1, <1>1, SuffixTrans
<1>11. GenerateUndo = Undone(w)
  BY DEF GenerateUndo, B, u, v, w, P
<1> QED BY <1>9, <1>10, <1>11 DEF T, B

(* They leave the history as it was, or shorter.                           *)
LEMMA GenerateTrail ==
  ASSUME TypeInv, HistoryInv
  PROVE  /\ GenerateUndo \in Seq(ChainState)
         /\ TrailInv(Append(GenerateUndo, BaseState), irr)
         /\ Last(Append(GenerateUndo, BaseState)) = BaseState
<1> DEFINE B == BaseState
           T == Append(BaseUndo, B)
<1>1. usize \in Nat /\ usize >= 2 /\ irr \in Nat /\ usize - 1 \in Nat
  BY DEF TypeInv, Places
<1>2. BaseUndo \in Seq(ChainState) /\ B \in ChainState /\ TrailInv(T, irr) /\ Last(T) = B
      /\ B = Last(Trail)
  BY BaseTrail
<1>3. usize >= Num[B.head] - irr + 1
  BY <1>2 DEF HistoryInv
<1>4. PICK w : GenerateUndo = Undone(w) /\ Suffix(w, T, usize - 1) /\ (Proposes = {} => Suffix(w, T, usize))
  BY <1>2, GenerateSuffix
<1> HIDE DEF B, T
<1>5. TrailInv(w, irr) /\ Last(w) = B
  <2>1. CASE Proposes = {}
    BY <2>1, <1>1, <1>2, <1>3, <1>4, SuffixTrail
  <2>2. CASE Proposes # {}
    BY <2>2, <1>1, <1>2, <1>4, SuffixTrail
  <2> QED BY <2>1, <2>2
<1>6. Undone(w) \in Seq(ChainState) /\ TrailInv(Append(Undone(w), B), irr)
       /\ Last(Append(Undone(w), B)) = B
  BY <1>1, <1>5, UndoneTrail
<1> QED BY <1>4, <1>6 DEF B

(* Ends of a history that goes on.                                         *)
LEMMA SuffixAppend ==
  ASSUME NEW u, NEW tr, NEW m \in Int, Suffix(u, tr, m), NEW y \in ChainState
  PROVE  Suffix(Append(u, y), Append(tr, y), m + 1)
<1> DEFINE v == Append(u, y)
           w == Append(tr, y)
<1>1. /\ u \in Seq(ChainState) /\ tr \in Seq(ChainState)
      /\ Len(u) \in 1..Len(tr) /\ (Len(u) = Len(tr) \/ Len(u) >= m)
      /\ \A i \in 1..Len(u) : u[i] = tr[i + (Len(tr) - Len(u))]
  BY DEF Suffix
<1>2. Len(u) \in Nat /\ Len(tr) \in Nat
  BY <1>1
<1>3. v \in Seq(ChainState) /\ w \in Seq(ChainState) /\ Len(v) = Len(u) + 1 /\ Len(w) = Len(tr) + 1
      /\ v[Len(u) + 1] = y /\ w[Len(tr) + 1] = y /\ (\A i \in 1..Len(u) : v[i] = u[i])
      /\ (\A i \in 1..Len(tr) : w[i] = tr[i])
  BY <1>1, AppendFacts
<1> HIDE DEF v, w
<1>4. Len(v) \in 1..Len(w) /\ (Len(v) = Len(w) \/ Len(v) >= m + 1)
  BY <1>1, <1>2, <1>3
<1>5. ASSUME NEW i \in 1..Len(v) PROVE v[i] = w[i + (Len(w) - Len(v))]
  <2>1. CASE i = Len(u) + 1
    <3>1. i + (Len(w) - Len(v)) = Len(tr) + 1
      BY <2>1, <1>2, <1>3
    <3> QED BY <2>1, <3>1, <1>3
  <2>2. CASE i \in 1..Len(u)
    <3>1. i + (Len(w) - Len(v)) = i + (Len(tr) - Len(u)) /\ i + (Len(tr) - Len(u)) \in 1..Len(tr)
      BY <2>2, <1>1, <1>2, <1>3
    <3> QED BY <2>2, <3>1, <1>1, <1>3
  <2> QED BY <2>1, <2>2, <1>2, <1>3
<1>6. Suffix(v, w, m + 1)
  BY <1>3, <1>4, <1>5 DEF Suffix
<1> QED BY <1>6 DEF v, w

-----------------------------------------------------------------------------
(* Blocks and the history                                                  *)

(* Without a pending session the history ends with the state itself.       *)
LEMMA PlainTrail ==
  ASSUME TypeInv, HistoryInv, ~psess
  PROVE  Trail = Append(undo, s) /\ Last(Trail) = s /\ Counted(s) /\ s \in ChainState
         /\ undo \in Seq(ChainState) /\ s = Replay[s.head] /\ Num[s.head] \in Nat /\ s.lib <= irr
         /\ s \in ToSet(Trail)
<1>1. Trail = Append(undo, s) /\ BaseState = s
  BY DEF Trail, BaseState
<1>2. Last(Trail) = s /\ Counted(s) /\ s \in ChainState
  BY <1>1, BaseTrail
<1>3. GoodTrail(Trail) /\ LibUpTo(Trail, irr)
  BY DEF HistoryInv, TrailInv
<1>4. s = Replay[s.head] /\ s.lib <= irr
  BY <1>2, <1>3, TrailTypes DEF GoodTrail, LibUpTo
<1>5. undo \in Seq(ChainState)
  BY DEF TypeInv, Places
<1>6. s \in ToSet(Trail)
  BY <1>1, <1>2, <1>5, ToSetFacts
<1> QED BY <1>1, <1>2, <1>4, <1>5, <1>6, CountedNotNone

(* What a block that applies does to state and history.                    *)
BlockApplied(b) ==
  /\ undo' \in Seq(ChainState)
  /\ usize' \in Nat /\ usize' >= 2 /\ irr' \in Nat
  /\ HistoryInv'
  /\ Counted(s') /\ Extends(s', s, b)
  /\ Last(Trail') = s' /\ ToSet(Trail') \subseteq ToSet(Trail) \cup {s'}

(* _apply_block in its session, whether apply_block's observers get a      *)
(* second one (a block on top of the head) or not (a branch).              *)
LEMMA ApplyHistory ==
  ASSUME TypeInv, HistoryInv, ~psess, psess' = psess, NEW b,
         ApplyBlock(s, b) # None, s' = ApplyBlock(s, b), usize' = Num[b] - s.lib + 1,
         NoteLib(ApplyBlock(s, b)),
         \/ undo' = Opened(undo, usize, s)
         \/ undo' = Trim(Opened(undo, usize, s), Num[b] - s.lib + 1)
  PROVE  BlockApplied(b)
<1> DEFINE y == ApplyBlock(s, b)
           o == Opened(undo, usize, s)
           n == Num[b] - s.lib + 1
<1>1. usize \in Nat /\ usize >= 2 /\ irr \in Nat
  BY DEF TypeInv, Places
<1>2. Trail = Append(undo, s) /\ Last(Trail) = s /\ Counted(s) /\ s \in ChainState
      /\ undo \in Seq(ChainState) /\ s = Replay[s.head] /\ Num[s.head] \in Nat /\ s.lib <= irr
  BY PlainTrail
<1>3. TrailInv(Trail, irr) /\ usize >= Num[s.head] - irr + 1
  BY <1>2 DEF HistoryInv
<1>4. Extends(y, s, b)
  BY <1>2, ReplayNext
<1> HIDE DEF y
<1>5. b \in Block /\ Prev[b] = s.head /\ y \in ChainState /\ y.head = b /\ Counted(y)
  BY <1>4 DEF Extends
<1>6. Num[b] = Num[s.head] + 1 /\ Num[b] \in Nat
  BY <1>2, <1>5, NumFacts DEF Node
<1>7. s.lib \in Nat /\ s.lib <= Num[s.head] /\ y.lib \in Nat
  BY <1>2, <1>5, CountedNotNone
<1>8. irr' = (IF y.lib > irr THEN y.lib ELSE irr)
  BY DEF NoteLib, y
<1>9. irr' \in Nat /\ irr' >= irr /\ irr' >= y.lib
  BY <1>1, <1>7, <1>8
<1>10. usize' = n /\ n \in Nat /\ n >= 2
  BY SMTT(30), <1>6, <1>7, <1>2
<1> DEFINE m == Num[b] - irr'
<1>11. n >= Num[b] - irr' + 1 /\ m \in Int /\ m <= usize + 1 /\ m <= n
  <2> DEFINE nb == Num[b]
             nh == Num[s.head]
             lb == s.lib
             k == irr'
  <2>1. nb = nh + 1 /\ nh \in Nat /\ lb \in Nat /\ k \in Nat /\ k >= irr /\ lb <= irr
        /\ usize >= nh - irr + 1
    BY <1>2, <1>3, <1>6, <1>7, <1>9
  <2> HIDE DEF nb, nh, lb, k
  <2>2. nb - lb + 1 >= nb - k + 1 /\ nb - k \in Int /\ nb - k <= usize + 1 /\ nb - k <= nb - lb + 1
    BY <2>1, <1>1
  <2> QED BY <2>2 DEF nb, nh, lb, k
<1>12. m \in Int /\ m <= usize + 1 /\ m <= n
  BY <1>11
<1> HIDE DEF m, n
<1>13. Suffix(o, Trail, m)
  BY <1>1, <1>2, <1>12, OpenedSuffix
<1>14. Suffix(undo', Trail, m)
  <2>1. CASE undo' = o
    BY <2>1, <1>13
  <2>2. CASE undo' = Trim(o, n)
    <3> HIDE DEF o
    <3>1. o \in Seq(ChainState) /\ o # <<>>
      BY <1>12, <1>13, SuffixFacts
    <3>2. n >= 1
      BY <1>10
    <3>3. Suffix(Trim(o, n), o, m)
      BY <3>1, <3>2, <1>10, <1>12, TrimSuffix
    <3>4. Suffix(Trim(o, n), Trail, m)
      BY <3>3, <1>12, <1>13, SuffixTrans
    <3> QED BY <2>2, <3>4
  <2> QED BY <2>1, <2>2 DEF n
<1>15. undo' \in Seq(ChainState)
  BY <1>12, <1>14, SuffixFacts
<1>16. Trail' = Append(undo', y)
  BY DEF Trail, y
<1>17. TrailInv(Append(Trail, y), irr')
  <2>1. irr' >= irr /\ ApplyBlock(Last(Trail), b).lib <= irr' /\ ApplyBlock(Last(Trail), b) # None
    BY <1>2, <1>9, <1>7 DEF y
  <2>2. TrailInv(Append(Trail, ApplyBlock(Last(Trail), b)), irr')
    BY <2>1, <1>1, <1>3, <1>9, ExtendTrail
  <2> QED BY <2>2, <1>2 DEF y
<1>18. Suffix(Append(undo', y), Append(Trail, y), m + 1)
  BY <1>5, <1>12, <1>14, SuffixAppend
<1>19. Last(Append(Trail, y)) = y /\ ToSet(Append(Trail, y)) = ToSet(Trail) \cup {y}
  <2>1. Trail \in Seq(ChainState)
    BY <1>3, TrailTypes DEF TrailInv
  <2> QED BY <2>1, <1>5, AppendFacts, ToSetFacts
<1>20. m + 1 \in Int /\ m + 1 >= Num[Last(Append(Trail, y)).head] - irr' + 1
  BY <1>5, <1>6, <1>9, <1>19 DEF m
<1>21. TrailInv(Trail', irr') /\ Last(Trail') = y /\ ToSet(Trail') \subseteq ToSet(Trail) \cup {y}
  BY <1>9, <1>16, <1>17, <1>18, <1>19, <1>20, SuffixTrail
<1>22. HistoryInv'
  BY <1>5, <1>10, <1>11, <1>21 DEF HistoryInv
<1> QED BY <1>4, <1>5, <1>9, <1>10, <1>15, <1>21, <1>22 DEF BlockApplied, y

(* A block that throws is undone.                                          *)
LEMMA FailedHistory ==
  ASSUME TypeInv, HistoryInv, ~psess, psess' = psess, UNCHANGED <<s, usize, irr>>,
         undo' = Undone(Opened(undo, usize, s))
  PROVE  /\ undo' \in Seq(ChainState) /\ HistoryInv'
         /\ Last(Trail') = s /\ ToSet(Trail') \subseteq ToSet(Trail)
<1> DEFINE o == Opened(undo, usize, s)
<1>1. usize \in Nat /\ irr \in Nat
  BY DEF TypeInv, Places
<1>2. Trail = Append(undo, s) /\ Last(Trail) = s /\ s \in ChainState /\ undo \in Seq(ChainState)
      /\ Num[s.head] \in Nat
  BY PlainTrail
<1>3. TrailInv(Trail, irr) /\ usize >= Num[s.head] - irr + 1
  BY <1>2 DEF HistoryInv
<1>4. usize <= usize + 1
  BY <1>1
<1>5. Suffix(o, Trail, usize)
  BY <1>1, <1>2, <1>4, OpenedSuffix
<1> HIDE DEF o
<1>6. TrailInv(o, irr) /\ Last(o) = s /\ ToSet(o) \subseteq ToSet(Trail)
  <2>1. usize \in Int /\ usize >= Num[Last(Trail).head] - irr + 1
    BY <1>1, <1>2, <1>3
  <2>2. TrailInv(o, irr) /\ Last(o) = Last(Trail) /\ ToSet(o) \subseteq ToSet(Trail)
    BY <2>1, <1>1, <1>3, <1>5, SuffixTrail
  <2> QED BY <2>2, <1>2
<1>7. /\ Undone(o) \in Seq(ChainState) /\ TrailInv(Append(Undone(o), s), irr)
      /\ Last(Append(Undone(o), s)) = s /\ ToSet(Append(Undone(o), s)) \subseteq ToSet(o)
  BY <1>1, <1>6, UndoneTrail
<1>8. Trail' = Append(Undone(o), s)
  BY DEF Trail, o
<1>9. HistoryInv'
  BY <1>3, <1>7, <1>8 DEF HistoryInv
<1> QED BY <1>6, <1>7, <1>8, <1>9 DEF o

(* pop_undo goes back to the state before the last block.                  *)
LEMMA PopHistory ==
  ASSUME TypeInv, HistoryInv, ~psess, psess' = psess, UNCHANGED <<usize, irr>>,
         undo # <<>>, s' = Last(undo), undo' = Front(undo)
  PROVE  /\ undo' \in Seq(ChainState) /\ HistoryInv'
         /\ Last(Trail') = s' /\ ToSet(Trail') \subseteq ToSet(Trail) /\ Counted(s')
         /\ s' = s \/ Extends(s, s', s.head)
<1>1. usize \in Nat /\ irr \in Nat
  BY DEF TypeInv, Places
<1>2. Trail = Append(undo, s) /\ Last(Trail) = s /\ s \in ChainState /\ undo \in Seq(ChainState)
      /\ Num[s.head] \in Nat
  BY PlainTrail
<1>3. TrailInv(Trail, irr) /\ usize >= Num[s.head] - irr + 1
  BY <1>2 DEF HistoryInv
<1>4. Front(undo) \in Seq(ChainState) /\ Append(Front(undo), Last(undo)) = undo
  BY <1>2, FrontFacts
<1>5. Trail' = undo
  BY <1>4 DEF Trail
<1>6. Front(Trail) = undo
  BY <1>2, AppendFacts
<1>7. Len(Trail) # 1
  <2>1. Len(Trail) = Len(undo) + 1 /\ Len(undo) \in Nat /\ Len(undo) >= 1
    BY <1>2, AppendFacts
  <2> QED BY <2>1
<1>8. /\ TrailInv(undo, irr) /\ ToSet(undo) \subseteq ToSet(Trail)
      /\ Last(undo) = s \/ Extends(s, Last(undo), s.head)
  BY <1>1, <1>2, <1>3, <1>6, <1>7, FrontTrail
<1>9. Counted(Last(undo))
  BY <1>8, TrailTypes DEF TrailInv
<1>10. Num[Last(undo).head] \in Nat /\ Num[Last(undo).head] <= Num[s.head]
  <2>1. Num[Last(undo).head] \in Nat
    BY <1>9, CountedNotNone
  <2>2. CASE Last(undo) = s
    BY <2>1, <2>2
  <2>3. CASE Extends(s, Last(undo), s.head)
    <3>1. s.head \in Block /\ Prev[s.head] = Last(undo).head
      BY <2>3 DEF Extends
    <3> QED BY <3>1, <2>1, NumFacts
  <2> QED BY <2>2, <2>3, <1>8
<1>11. usize >= Num[Last(undo).head] - irr + 1
  BY <1>1, <1>2, <1>3, <1>10
<1>12. HistoryInv'
  BY <1>5, <1>8, <1>11 DEF HistoryInv
<1> QED BY <1>4, <1>5, <1>8, <1>9, <1>12

-----------------------------------------------------------------------------
(* The locals of push_block                                                *)

(* The locals of push_block that an assignment leaves alone.               *)
LEMMA OpUpdates ==
  ASSUME NEW r, OpFields \subseteq DOMAIN r, NEW x, NEW z
  PROVE  /\ \A q \in {[r EXCEPT !.threw = x], [r EXCEPT !.left = x],
                      [r EXCEPT !.threw = x, !.left = z]} :
              /\ DOMAIN q = DOMAIN r
              /\ q.kept = r.kept /\ q.was = r.was /\ q.second = r.second
         /\ LET q == [r EXCEPT !.kept = x]
            IN  DOMAIN q = DOMAIN r /\ q.kept = x /\ q.was = r.was /\ q.second = r.second
BY DEF OpFields

-----------------------------------------------------------------------------
(* Pushing a transaction                                                   *)

(* Applying a transaction enables no other.                                *)
LEMMA StillFails ==
  ASSUME NEW st \in ChainState, NEW t \in Tx, NEW u \in Tx, ~TxApplies(st, u)
  PROVE  ~TxApplies(ApplyTx(st, t), u)
<1> DEFINE a == ApplyTx(st, t)
<1>1. /\ a.head = st.head /\ a.seen = st.seen \cup {t}
      /\ a.done = [st.done EXCEPT ![t] = IF @ < 2 THEN @ + 1 ELSE @]
  BY ApplyTxFacts
<1> HIDE DEF a
<1>2. st.done \in [Tx -> 0..2]
  BY DEF ChainState
<1>3. ASSUME NEW c \in Tx, a.done[c] = 0 PROVE st.done[c] = 0
  <2>1. CASE c = t
    <3>1. st.done[t] \in 0..2
      BY <1>2
    <3>2. a.done[t] = IF st.done[t] < 2 THEN st.done[t] + 1 ELSE st.done[t]
      BY <1>1, <1>2
    <3>3. a.done[t] # 0
      BY <3>1, <3>2
    <3> QED BY <3>3, <2>1, <1>3
  <2>2. CASE c # t
    BY <2>2, <1>1, <1>2, <1>3
  <2> QED BY <2>1, <2>2
<1>4. Conflicts[u] \subseteq Tx
  BY TxAssumption
<1>5. ASSUME TxApplies(a, u) PROVE FALSE
  <2>1. u \notin a.seen /\ (\A c \in Conflicts[u] : a.done[c] = 0)
        /\ (Num[a.head] > 0 => /\ RefBlock[u] \in OnChain(a.head)
                               /\ Time[a.head] <= Expiration[u]
                               /\ Expiration[u] <= Time[a.head] + MaxLifetime)
    BY <1>5 DEF TxApplies
  <2>2. u \notin st.seen /\ \A c \in Conflicts[u] : st.done[c] = 0
    BY <2>1, <1>1, <1>3, <1>4
  <2>3. TxApplies(st, u)
    BY <2>1, <2>2, <1>1 DEF TxApplies
  <2> QED BY <2>3
<1> QED BY <1>5 DEF a

(* A transaction is not applied twice in a row.                            *)
LEMMA AppliedFails ==
  ASSUME NEW st \in ChainState, NEW t \in Tx
  PROVE  ~TxApplies(ApplyTx(st, t), t)
BY ApplyTxFacts DEF TxApplies

(* What _push_transaction does, whether the transaction applies or throws. *)
TxPushed(t) ==
  /\ psess' = TRUE /\ undo' \in Seq(ChainState) /\ undo' # <<>>
  /\ pending' \in Seq(Tx)
  /\ HistoryInv' /\ StateInv' /\ PendingInv'
  /\ ~TxApplies(s', t)
  /\ \A u \in Tx : ~TxApplies(s, u) => ~TxApplies(s', u)

(* _push_transaction preserves the invariant.                              *)
LEMMA PushTxInv ==
  ASSUME TypeInv, HistoryInv, StateInv, PendingInv, NEW t \in Tx, PushTx(t),
         UNCHANGED <<usize, irr>>
  PROVE  TxPushed(t)
<1> DEFINE B == Last(Trail)
<1>1. usize \in Nat /\ irr \in Nat /\ usize - 1 \in Int /\ pending \in Seq(Tx)
      /\ undo \in Seq(ChainState) /\ psess \in BOOLEAN
  BY DEF TypeInv, Places
<1>2. Counted(s) /\ s \in ChainState /\ s.head = B.head /\ s.seen \subseteq B.seen \cup ToSet(pending)
  BY CountedNotNone DEF StateInv
<1>3. TrailInv(Trail, irr) /\ usize >= Num[B.head] - irr + 1
  BY DEF HistoryInv
<1>4. /\ psess' = TRUE /\ undo' \in Seq(ChainState)
      /\ Suffix(undo', Trail, usize - 1)
      /\ Proposes = {} => Suffix(undo', Trail, usize)
  BY <1>2, PushTxHistory
<1>5. Trail' = undo'
  BY <1>4 DEF Trail
<1>6. TrailInv(undo', irr) /\ Last(undo') = B /\ undo' # <<>>
  <2>1. undo' # <<>>
    BY <1>1, <1>4, SuffixFacts
  <2>2. CASE Proposes = {}
    BY <2>1, <2>2, <1>1, <1>3, <1>4, SuffixTrail
  <2>3. CASE Proposes # {}
    BY <2>1, <2>3, <1>1, <1>3, <1>4, SuffixTrail
  <2> QED BY <2>2, <2>3
<1>7. B \in ChainState /\ B # None
  BY <1>3, TrailTypes, CountedNotNone DEF TrailInv
<1>8. Last(Trail') = B
  BY <1>5, <1>6
<1>9. ASSUME Grows = {} PROVE s = ApplyTxs(B, pending)
  <2>1. CASE psess
    BY <2>1, <1>9 DEF PendingInv, Trail
  <2>2. CASE ~psess
    <3>1. pending = <<>>
      BY <2>2, <1>9 DEF PendingInv
    <3>2. B = s
      BY <2>2, PlainTrail
    <3> QED BY <3>1, <3>2, <1>7, ApplyTxsEmpty
  <2> QED BY <2>1, <2>2, <1>1
<1> HIDE DEF B
<1>10. HistoryInv'
  BY <1>3, <1>5, <1>6, <1>8 DEF HistoryInv
<1>11. CASE TxApplies(s, t)
  <2>1. s' = ApplyTx(s, t) /\ pending' = Append(pending, t)
    BY <1>11 DEF PushTx
  <2>2. s' \in ChainState /\ s'.head = s.head /\ s'.seen = s.seen \cup {t}
    BY <2>1, <1>2, ApplyTxFacts
  <2>3. Counted(s')
    BY <2>1, <1>2, <1>11, CountedTx
  <2>4. pending' \in Seq(Tx) /\ ToSet(pending') = ToSet(pending) \cup {t}
    BY <2>1, <1>1, AppendFacts, ToSetFacts
  <2>5. StateInv'
    BY <2>2, <2>3, <2>4, <1>2, <1>8 DEF StateInv
  <2>6. PendingInv'
    <3>1. ASSUME Grows = {} PROVE s' = ApplyTxs(B, pending')
      <4>1. ApplyTxs(B, Append(pending, t)) = TxsStep(ApplyTxs(B, pending), t)
        BY <1>1, <1>7, ApplyTxsAppend
      <4>2. s = ApplyTxs(B, pending) /\ s # None
        BY <1>2, <1>9, <3>1, CountedNotNone
      <4> QED BY <4>1, <4>2, <2>1, <1>11 DEF TxsStep
    <3> QED BY <3>1, <1>4, <1>6 DEF PendingInv
  <2>7. ~TxApplies(s', t) /\ \A u \in Tx : ~TxApplies(s, u) => ~TxApplies(s', u)
    BY <2>1, <1>2, StillFails, AppliedFails
  <2> QED BY <2>4, <2>5, <2>6, <2>7, <1>4, <1>6, <1>10 DEF TxPushed
<1>12. CASE ~TxApplies(s, t)
  <2>1. s' = s /\ pending' = pending
    BY <1>12 DEF PushTx
  <2>2. StateInv'
    BY <2>1, <1>2, <1>8 DEF StateInv
  <2>3. PendingInv'
    BY <2>1, <1>4, <1>6, <1>9 DEF PendingInv
  <2> QED BY <2>1, <2>2, <2>3, <1>1, <1>4, <1>6, <1>10, <1>12 DEF TxPushed
<1> QED BY <1>11, <1>12

-----------------------------------------------------------------------------
(* The steps                                                               *)

(* A transaction that is known or has expired is not applied again.        *)
LEMMA HeldFails ==
  ASSUME NEW st \in ChainState, NEW t \in Tx, t \in st.seen \/ Expired(st, t)
  PROVE  ~TxApplies(st, t)
<1>1. CASE t \in st.seen
  BY <1>1 DEF TxApplies
<1>2. CASE Expired(st, t)
  <2>1. Time[st.head] \in Nat /\ Expiration[t] \in Nat
    BY BlockAssumption, TxAssumption DEF ChainState
  <2> QED BY <1>2, <2>1 DEF Expired, TxApplies
<1> QED BY <1>1, <1>2

(* The locals that push_block starts with.                                 *)
LEMMA PushOp ==
  ASSUME NEW b, NEW u, Push(b, u)
  PROVE  /\ op'.kept = pending /\ op'.was = s.seen /\ OpFields \subseteq DOMAIN op'
         /\ pc' \in {"requeue", "direct", "pop"}
<1> DEFINE o == [IdleOp EXCEPT !.new = b, !.kept = pending, !.base = BaseState, !.was = s.seen]
<1>1. o.kept = pending /\ o.was = s.seen /\ OpFields \subseteq DOMAIN o
  BY DEF IdleOp, OpFields
<1> HIDE DEF o
<1>2. /\ op' \in {[o EXCEPT !.threw = TRUE], o}
         \/ \E x, y : op' = [o EXCEPT !.first = x, !.left = x, !.second = y]
      /\ pc' \in {"requeue", "direct", "pop"}
  BY DEF Push, o
<1> QED BY <1>1, <1>2 DEF OpFields

(* push_block up to the answer of the fork database.                       *)
LEMMA PushInv ==
  ASSUME Inv, NEW b, NEW u \in Seq(ChainState), TrailInv(Append(u, BaseState), irr),
         Last(Append(u, BaseState)) = BaseState, Push(b, u)
  PROVE  Inv'
<1> USE DEF Inv
<1>1. /\ s' = BaseState /\ undo' = u /\ psess' = FALSE /\ pending' = <<>>
      /\ usize' = usize /\ irr' = irr /\ popped' = popped
  BY DEF Push, ClearPending
<1>2. op'.kept = pending /\ op'.was = s.seen /\ OpFields \subseteq DOMAIN op'
      /\ pc' \in {"requeue", "direct", "pop"}
  BY PushOp
<1>3. BaseState \in ChainState /\ Counted(BaseState) /\ BaseState = Last(Trail)
  BY BaseTrail
<1>4. s \in ChainState /\ s.seen \in SUBSET Tx /\ s.seen \subseteq BaseState.seen \cup ToSet(pending)
  <2>1. s \in ChainState /\ s.seen \subseteq BaseState.seen \cup ToSet(pending)
    BY <1>3, CountedNotNone DEF StateInv
  <2> QED BY <2>1 DEF ChainState
<1>5. TypeInv'
  <2>1. usize \in Nat /\ usize >= 2 /\ irr \in Nat /\ pending \in Seq(Tx) /\ popped \in Seq(Tx)
    BY DEF TypeInv, Places
  <2>2. op'.kept \in Seq(Tx) /\ op'.was \in SUBSET Tx
    BY <2>1, <1>2, <1>4
  <2>3. pending' \in Seq(Tx)
    BY <1>1, EmptySeq
  <2>4. psess' \in BOOLEAN /\ ~psess'
    BY <1>1, Zenon
  <2> QED BY <2>1, <2>2, <2>3, <2>4, <1>1, <1>2 DEF TypeInv, Places
<1>6. Trail' = Append(u, BaseState)
  BY <1>1 DEF Trail
<1>7. HistoryInv'
  BY <1>1, <1>3, <1>6 DEF HistoryInv
<1>8. StateInv'
  BY <1>1, <1>3, <1>6 DEF StateInv
<1>9. KeptInv'
  <2>1. op'.was \subseteq Waiting' \cup s'.seen
    BY <1>1, <1>2, <1>4 DEF Waiting
  <2>2. Held(s)'
    BY <2>1 DEF Held
  <2>3. \A t \in op'.was : t \in Waiting' \/ ~TxApplies(s', t)
    BY <2>1, <1>1, <1>2, <1>3, <1>4, HeldFails
  <2>4. (\A t \in op.was : t \in Waiting \/ ~TxApplies(s, t))'
    BY <2>3
  <2> QED BY <2>1, <2>2, <2>4, <1>2 DEF KeptInv
<1>10. PendingInv'
  BY <1>1 DEF PendingInv
<1> QED BY <1>5, <1>7, <1>8, <1>9, <1>10

(* push_transaction.                                                       *)
LEMMA PushTransactionInv ==
  ASSUME Inv, NEW t \in Tx, PushTransaction(t)
  PROVE  Inv'
<1> USE DEF Inv
<1>1. PushTx(t) /\ UNCHANGED <<usize, irr, popped, pc, op>> /\ pc = "idle"
  BY DEF PushTransaction
<1>2. TxPushed(t)
  BY <1>1, PushTxInv
<1>3. TypeInv'
  BY <1>1, <1>2 DEF TypeInv, Places, TxPushed
<1>4. KeptInv'
  BY <1>1 DEF KeptInv
<1> QED BY <1>2, <1>3, <1>4 DEF TxPushed

(* generate_block whose block gets too big.                                *)
LEMMA GenerateTooBigInv ==
  ASSUME Inv, GenerateTooBig
  PROVE  Inv'
<1> USE DEF Inv
<1>1. /\ s' = BaseState /\ undo' = GenerateUndo /\ psess' = FALSE /\ pc = "idle"
      /\ UNCHANGED <<usize, irr, pending, popped, pc, op>> /\ Grows # {}
  BY DEF GenerateTooBig, TooBig
<1>2. /\ GenerateUndo \in Seq(ChainState) /\ TrailInv(Append(GenerateUndo, BaseState), irr)
      /\ Last(Append(GenerateUndo, BaseState)) = BaseState
  BY GenerateTrail
<1>3. BaseState \in ChainState /\ Counted(BaseState) /\ BaseState = Last(Trail)
  BY BaseTrail
<1>4. TypeInv'
  BY <1>1, <1>2 DEF TypeInv, Places
<1>5. Trail' = Append(GenerateUndo, BaseState)
  BY <1>1 DEF Trail
<1>6. HistoryInv'
  BY <1>1, <1>2, <1>3, <1>5 DEF HistoryInv
<1>7. StateInv'
  BY <1>1, <1>2, <1>3, <1>5 DEF StateInv
<1>8. KeptInv'
  BY <1>1 DEF KeptInv
<1>9. PendingInv'
  BY <1>1 DEF PendingInv
<1> QED BY <1>4, <1>6, <1>7, <1>8, <1>9

(* What a step of push_block on the state without pending transactions has *)
(* to provide for the parts of the invariant that do not look at `pc'.     *)
LEMMA PlainStep ==
  ASSUME TypeInv, PendingInv, ~psess, UNCHANGED <<psess, pending>>,
         undo' \in Seq(ChainState), usize' \in Nat, usize' >= 2, irr' \in Nat,
         popped' \in Seq(Tx), op'.kept = op.kept, op'.was = op.was,
         OpFields \subseteq DOMAIN op',
         pc' \in {"direct", "pop", "apply", "unwind", "restore", "requeue"},
         HistoryInv', Counted(s'), Last(Trail') = s'
  PROVE  TypeInv' /\ HistoryInv' /\ StateInv' /\ PendingInv'
<1>1. pending \in Seq(Tx) /\ op.kept \in Seq(Tx) /\ op.was \in SUBSET Tx
  BY DEF TypeInv, Places
<1>2. TypeInv'
  BY <1>1 DEF TypeInv, Places
<1>3. StateInv'
  BY DEF StateInv
<1>4. PendingInv'
  BY DEF PendingInv
<1> QED BY <1>2, <1>3, <1>4

(* A block takes no transaction away.                                      *)
LEMMA StillHeld ==
  ASSUME NEW st \in ChainState, NEW y, NEW b, Extends(y, st, b), NEW t \in Tx,
         t \in st.seen \/ Expired(st, t)
  PROVE  t \in y.seen \/ Expired(y, t)
<1>1. /\ b \in Block /\ Prev[b] = st.head /\ Time[st.head] < Time[b] /\ y.head = b
      /\ \A x \in st.seen : x \in y.seen \/ Expired(y, x)
  BY DEF Extends
<1>2. CASE t \in st.seen
  BY <1>1, <1>2
<1>3. CASE Expired(st, t)
  <2>1. Time[st.head] \in Nat /\ Expiration[t] \in Nat /\ Time[b] \in Nat /\ st.head \in Node
    BY <1>1, BlockAssumption, TxAssumption DEF ChainState, Node
  <2>2. Num[b] = Num[st.head] + 1 /\ Num[st.head] \in Nat
    BY <1>1, <2>1, NumFacts
  <2>3. Expired(y, t)
    BY <1>1, <1>3, <2>1, <2>2 DEF Expired
  <2> QED BY <2>3
<1> QED BY <1>2, <1>3

(* What is held stays so while the state is kept or a block is applied.    *)
LEMMA HeldStep ==
  ASSUME TypeInv, s \in ChainState, s' \in ChainState, Held(s), Waiting \subseteq Waiting',
         op'.was = op.was, NEW b, s' = s \/ Extends(s', s, b)
  PROVE  /\ Held(s)'
         /\ (\A t \in op.was : t \in Waiting \/ ~TxApplies(s, t))'
<1>1. op.was \subseteq Tx
  BY DEF TypeInv, Places
<1>2. ASSUME NEW t \in op.was, t \notin Waiting' PROVE t \in s'.seen \/ Expired(s', t)
  <2>1. t \in s.seen \/ Expired(s, t)
    BY <1>2 DEF Held
  <2>2. CASE s' = s
    BY <2>1, <2>2
  <2>3. CASE Extends(s', s, b)
    BY <2>1, <2>3, <1>1, StillHeld
  <2> QED BY <2>2, <2>3
<1>3. Held(s)'
  BY <1>2 DEF Held
<1>4. \A t \in op'.was : t \in Waiting' \/ ~TxApplies(s', t)
  BY <1>1, <1>2, HeldFails
<1> QED BY <1>3, <1>4

(* The block on top of the head.                                           *)
LEMMA ApplyDirectInv ==
  ASSUME Inv, ApplyDirect
  PROVE  Inv'
<1> USE DEF Inv
<1> DEFINE b == op.new
<1>1. pc = "direct" /\ pc' = "requeue" /\ UNCHANGED <<psess, pending, popped>>
  BY DEF ApplyDirect
<1>2. ~psess /\ usize \in Nat /\ usize >= 2 /\ irr \in Nat /\ popped \in Seq(Tx)
      /\ OpFields \subseteq DOMAIN op
  BY <1>1 DEF TypeInv, Places
<1>3. s \in ChainState /\ Counted(s)
  BY <1>2, PlainTrail
<1>4. Held(s)
  BY <1>1 DEF KeptInv
<1>5. /\ undo' \in Seq(ChainState) /\ usize' \in Nat /\ usize' >= 2 /\ irr' \in Nat
      /\ HistoryInv' /\ Counted(s') /\ Last(Trail') = s' /\ (s' = s \/ Extends(s', s, b))
      /\ op'.kept = op.kept /\ op'.was = op.was /\ OpFields \subseteq DOMAIN op'
  <2>1. CASE ApplyBlock(s, b) # None
    <3>1. /\ s' = ApplyBlock(s, b) /\ SetSizes(Num[b] - s.lib + 1) /\ NoteLib(ApplyBlock(s, b))
          /\ undo' = Trim(Opened(undo, usize, s), Num[b] - s.lib + 1) /\ op' = op
      BY <2>1 DEF ApplyDirect
    <3>2. usize' = Num[b] - s.lib + 1
      BY <3>1 DEF SetSizes
    <3> HIDE DEF b
    <3>3. BlockApplied(b)
      BY <2>1, <3>1, <3>2, <1>1, <1>2, ApplyHistory
    <3> QED BY <3>1, <3>3, <1>2 DEF BlockApplied
  <2>2. CASE ApplyBlock(s, b) = None
    <3>1. /\ undo' = Undone(Opened(undo, usize, s)) /\ op' = [op EXCEPT !.threw = TRUE]
          /\ UNCHANGED <<s, usize, irr>>
      BY <2>2 DEF ApplyDirect
    <3>2. op'.kept = op.kept /\ op'.was = op.was /\ OpFields \subseteq DOMAIN op'
      BY <3>1, <1>2, OpUpdates
    <3> QED BY <3>1, <3>2, <1>1, <1>2, <1>3, FailedHistory
  <2> QED BY <2>1, <2>2
<1> HIDE DEF b
<1>6. TypeInv' /\ HistoryInv' /\ StateInv' /\ PendingInv'
  BY <1>1, <1>2, <1>5, PlainStep
<1>7. KeptInv'
  <2>1. Waiting' = Waiting /\ s' \in ChainState
    BY <1>1, <1>5, CountedNotNone DEF Waiting
  <2>2. (\A t \in op.was : t \in Waiting \/ ~TxApplies(s, t))'
    BY <2>1, <1>3, <1>4, <1>5, HeldStep
  <2> QED BY <2>2, <1>1 DEF KeptInv
<1> QED BY <1>6, <1>7

(* The elements of a sequence put in front of another.                     *)
LEMMA ConcatSet ==
  ASSUME NEW S, NEW p \in Seq(S), NEW q \in Seq(S)
  PROVE  p \o q \in Seq(S) /\ ToSet(p \o q) = ToSet(p) \cup ToSet(q)
<1>1. p \o q \in Seq(S) /\ Range(p \o q) = Range(p) \cup Range(q)
  BY ConcatProperties, RangeConcatenation
<1>2. \A r \in Seq(S) : ToSet(r) = Range(r)
  BY DEF ToSet, Range
<1> QED BY <1>1, <1>2

(* Taking the first element off.                                           *)
LEMMA HeadTailSet ==
  ASSUME NEW S, NEW q \in Seq(S), q # <<>>
  PROVE  Head(q) \in S /\ Tail(q) \in Seq(S) /\ ToSet(q) \subseteq {Head(q)} \cup ToSet(Tail(q))
<1>1. Head(q) \in S /\ Tail(q) \in Seq(S) /\ Len(q) \in Nat /\ Len(q) >= 1 /\ Head(q) = q[1]
      /\ Len(Tail(q)) = Len(q) - 1 /\ \A i \in 1..(Len(q) - 1) : Tail(q)[i] = q[i + 1]
  BY HeadTailProperties
<1>2. ASSUME NEW x \in ToSet(q) PROVE x \in {Head(q)} \cup ToSet(Tail(q))
  <2>1. PICK i \in 1..Len(q) : x = q[i]
    BY DEF ToSet
  <2>2. CASE i = 1
    BY <2>1, <2>2, <1>1
  <2>3. CASE i # 1
    <3>1. i - 1 \in 1..(Len(q) - 1) /\ (i - 1) + 1 = i
      BY <2>3, <1>1
    <3>2. x = Tail(q)[i - 1] /\ i - 1 \in 1..Len(Tail(q))
      BY <2>1, <3>1, <1>1
    <3> DEFINE u == Tail(q)
               k == i - 1
    <3>3. x = u[k] /\ k \in 1..Len(u) /\ u \in Seq(S)
      BY <3>2, <1>1
    <3> HIDE DEF u, k
    <3>4. x \in ToSet(u)
      BY <3>3 DEF ToSet
    <3> QED BY <3>4 DEF u
  <2> QED BY <2>2, <2>3
<1> QED BY <1>1, <1>2

(* What pop_block does, whether it throws or not.                          *)
BlockPopped(next, thrown) ==
  /\ TypeInv' /\ HistoryInv' /\ StateInv' /\ PendingInv'
  /\ s' \in ChainState /\ ToSet(Trail') \subseteq ToSet(Trail)
  /\ op'.was = op.was /\ op'.second = op.second /\ Waiting \subseteq Waiting'
  /\ \/ pc' = thrown /\ s' = s
     \/ /\ pc' = next /\ (s' = s \/ Extends(s, s', s.head))
        /\ s.seen \subseteq s'.seen \cup Waiting'

(* pop_block preserves the invariant.                                      *)
LEMMA PopBlockInv ==
  ASSUME TypeInv, HistoryInv, StateInv, PendingInv, ~psess, UNCHANGED <<psess, pending, usize, irr>>,
         NEW next \in {"pop", "unwind"}, NEW thrown \in {"requeue"}, PopBlock(next, thrown)
  PROVE  BlockPopped(next, thrown)
<1>1. usize \in Nat /\ usize >= 2 /\ irr \in Nat /\ popped \in Seq(Tx) /\ op.kept \in Seq(Tx)
      /\ OpFields \subseteq DOMAIN op /\ undo \in Seq(ChainState)
  BY DEF TypeInv, Places
<1>2. Trail = Append(undo, s) /\ Last(Trail) = s /\ Counted(s) /\ s \in ChainState
  BY PlainTrail
<1>3. \/ UNCHANGED <<s, undo, popped>> /\ op' = [op EXCEPT !.threw = TRUE] /\ pc' = thrown
      \/ /\ undo # <<>> /\ s' = Last(undo) /\ undo' = Front(undo)
         /\ popped' = Txs[s.head] \o popped /\ op' = op /\ pc' = next
  BY DEF PopBlock, KeepPopped
<1>4. CASE UNCHANGED <<s, undo, popped>> /\ op' = [op EXCEPT !.threw = TRUE] /\ pc' = thrown
  <2>1. /\ op'.kept = op.kept /\ op'.was = op.was /\ op'.second = op.second
        /\ OpFields \subseteq DOMAIN op'
    BY <1>1, <1>4, OpUpdates
  <2>2. Trail' = Trail
    BY <1>4 DEF Trail
  <2>3. HistoryInv'
    BY <1>4, <2>2 DEF HistoryInv
  <2>4. pc' \in {"direct", "pop", "apply", "unwind", "restore", "requeue"}
    BY <1>4
  <2>5. TypeInv' /\ HistoryInv' /\ StateInv' /\ PendingInv'
    BY <1>1, <1>2, <1>4, <2>1, <2>2, <2>3, <2>4, PlainStep
  <2>6. Waiting' = Waiting
    BY <1>4, <2>1 DEF Waiting
  <2> QED BY <1>2, <1>4, <2>1, <2>2, <2>5, <2>6 DEF BlockPopped
<1>5. CASE /\ undo # <<>> /\ s' = Last(undo) /\ undo' = Front(undo)
           /\ popped' = Txs[s.head] \o popped /\ op' = op /\ pc' = next
  <2>1. /\ undo' \in Seq(ChainState) /\ HistoryInv'
        /\ Last(Trail') = s' /\ ToSet(Trail') \subseteq ToSet(Trail) /\ Counted(s')
        /\ s' = s \/ Extends(s, s', s.head)
    BY <1>5, PopHistory
  <2>2. Txs[s.head] \in Seq(Tx)
    BY <1>2, BlockAssumption DEF ChainState
  <2>3. popped' \in Seq(Tx) /\ ToSet(popped') = ToSet(Txs[s.head]) \cup ToSet(popped)
    BY <1>1, <1>5, <2>2, ConcatSet
  <2>4. pc' \in {"direct", "pop", "apply", "unwind", "restore", "requeue"}
    BY <1>5
  <2>5. TypeInv' /\ HistoryInv' /\ StateInv' /\ PendingInv'
    BY <1>1, <1>5, <2>1, <2>3, <2>4, PlainStep
  <2>6. Waiting' = Waiting \cup ToSet(Txs[s.head])
    BY <1>5, <2>3 DEF Waiting
  <2>7. s.seen \subseteq s'.seen \cup Waiting'
    BY <2>1, <2>6 DEF Extends
  <2>8. s' \in ChainState
    BY <2>1, CountedNotNone
  <2> QED BY <1>5, <2>1, <2>5, <2>6, <2>7, <2>8 DEF BlockPopped
<1> QED BY <1>3, <1>4, <1>5

(* A step that only moves on to another part of push_block.                *)
LEMMA MoveOn ==
  ASSUME TypeInv, HistoryInv, StateInv, PendingInv, ~psess,
         UNCHANGED <<dbvars, psess, pending, popped, op>>,
         pc' \in {"direct", "pop", "apply", "unwind", "restore", "requeue"}
  PROVE  /\ TypeInv' /\ HistoryInv' /\ StateInv' /\ PendingInv'
         /\ Trail' = Trail /\ Waiting' = Waiting /\ s' = s /\ op' = op
<1>1. /\ s' = s /\ undo' = undo /\ usize' = usize /\ irr' = irr /\ psess' = psess
      /\ pending' = pending /\ popped' = popped /\ op' = op
  BY DEF dbvars
<1>2. Trail' = Trail /\ Waiting' = Waiting
  BY <1>1 DEF Trail, Waiting
<1>3. HistoryInv'
  BY <1>1, <1>2 DEF HistoryInv
<1>4. undo \in Seq(ChainState) /\ usize \in Nat /\ usize >= 2 /\ irr \in Nat /\ popped \in Seq(Tx)
      /\ OpFields \subseteq DOMAIN op
  BY DEF TypeInv, Places
<1>5. Counted(s) /\ Last(Trail) = s
  BY PlainTrail
<1>6. TypeInv' /\ HistoryInv' /\ StateInv' /\ PendingInv'
  BY <1>1, <1>2, <1>3, <1>4, <1>5, PlainStep
<1> QED BY <1>1, <1>2, <1>6

(* pop_block until the common parent of the two branches is the head.      *)
LEMMA PopForSwitchInv ==
  ASSUME Inv, PopForSwitch
  PROVE  Inv'
<1> USE DEF Inv
<1>1. pc = "pop" /\ ~psess /\ op.was \subseteq Waiting \cup s.seen /\ op.was \subseteq Tx
  BY DEF PopForSwitch, TypeInv, Places, KeptInv
<1>2. s \in ChainState /\ s \in ToSet(Trail) /\ Last(Trail) = s /\ Trail = Append(undo, s)
  BY <1>1, PlainTrail
<1>3. CASE s.head # ForkParent
  <2>1. PopBlock("pop", "requeue") /\ UNCHANGED <<usize, irr, psess, pending>>
    BY <1>3 DEF PopForSwitch
  <2>2. BlockPopped("pop", "requeue")
    BY <2>1, <1>1, PopBlockInv
  <2>3. KeptInv'
    <3>1. CASE pc' = "requeue" /\ s' = s
      <4>1. \A t \in op'.was : t \in Waiting' \/ ~TxApplies(s', t)
        BY <3>1, <2>2, <1>1, <1>2, HeldFails DEF BlockPopped
      <4> QED BY <3>1, <4>1 DEF KeptInv
    <3>2. CASE pc' = "pop" /\ s.seen \subseteq s'.seen \cup Waiting'
      <4>1. op'.was \subseteq Waiting' \cup s'.seen
        BY <3>2, <2>2, <1>1 DEF BlockPopped
      <4> QED BY <3>2, <4>1 DEF KeptInv
    <3> QED BY <2>2, <3>1, <3>2 DEF BlockPopped
  <2> QED BY <2>2, <2>3 DEF BlockPopped
<1>4. CASE s.head = ForkParent
  <2>1. pc' = "apply" /\ UNCHANGED <<dbvars, psess, pending, popped, op>>
    BY <1>4 DEF PopForSwitch
  <2>2. /\ TypeInv' /\ HistoryInv' /\ StateInv' /\ PendingInv'
        /\ Trail' = Trail /\ Waiting' = Waiting /\ s' = s /\ op' = op
    BY <2>1, <1>1, MoveOn
  <2>3. GoodTrail(Trail) /\ s.head \in Node /\ Num[s.head] \in Nat
    BY <1>2, NumFacts DEF HistoryInv, TrailInv, ChainState
  <2>4. ASSUME NEW e \in ToSet(Trail), Num[e.head] >= Num[s.head] PROVE e = s
    <3>1. Trail \in Seq(ChainState) /\ s = Trail[Len(Trail)] /\ Len(Trail) \in 1..Len(Trail)
      BY <1>2, <2>3, TrailTypes
    <3>2. PICK i \in 1..Len(Trail) : e = Trail[i]
      BY <3>1 DEF ToSet
    <3>3. Num[e.head] \in Nat
      BY <2>3, <3>2, TrailTypes
    <3>4. CASE i = Len(Trail)
      BY <3>1, <3>2, <3>4
    <3>5. CASE i # Len(Trail)
      <4>1. i < Len(Trail)
        BY <3>1, <3>5
      <4>2. e = s \/ Num[e.head] < Num[s.head]
        BY <4>1, <3>1, <3>2, <2>3 DEF GoodTrail
      <4> QED BY <4>2, <2>3, <2>4, <3>3
    <3> QED BY <3>4, <3>5
  <2>5. Held(s)
    BY <1>1 DEF Held
  <2>6. /\ ForkParent \in Node
        /\ Num[s.head] >= Num[ForkParent]
        /\ \A e \in ToSet(Trail) :
             Num[e.head] >= Num[ForkParent] =>
               Held(e) /\ (Num[e.head] = Num[ForkParent] => e.head = ForkParent)
    BY <1>4, <2>3, <2>4, <2>5
  <2>7. KeptInv'
    BY <2>1, <2>2, <2>6 DEF KeptInv, ForkParent, Held
  <2> QED BY <2>2, <2>7
<1> QED BY <1>3, <1>4

(* One of the states the history leads back to from push_block's branch.   *)
LEMMA BranchState ==
  ASSUME TypeInv, HistoryInv, KeptInv, pc \in {"apply", "unwind"}
  PROVE  /\ ~psess /\ s \in ChainState /\ Counted(s) /\ s \in ToSet(Trail) /\ Held(s)
         /\ ForkParent \in Node /\ Num[s.head] \in Nat /\ Num[ForkParent] \in Nat
         /\ Num[s.head] >= Num[ForkParent]
         /\ (Num[s.head] = Num[ForkParent] => s.head = ForkParent)
<1>1. ~psess
  BY DEF TypeInv, Places
<1>2. s \in ChainState /\ s \in ToSet(Trail) /\ Counted(s) /\ Num[s.head] \in Nat
  BY <1>1, PlainTrail
<1>3. ForkParent \in Node /\ Num[s.head] >= Num[ForkParent]
  BY DEF KeptInv
<1> QED BY <1>1, <1>2, <1>3, NumFacts DEF KeptInv

(* What KeptInv says while a branch is applied or popped again.            *)
LEMMA BranchKept ==
  ASSUME KeptInv, pc \in {"apply", "unwind"}, pc' \in {"apply", "unwind"},
         op'.was = op.was, op'.second = op.second, Waiting \subseteq Waiting',
         Num[s'.head] >= Num[ForkParent],
         \/ ToSet(Trail') \subseteq ToSet(Trail)
         \/ /\ ToSet(Trail') \subseteq ToSet(Trail) \cup {s'} /\ Held(s)'
            /\ Num[s'.head] # Num[ForkParent]
  PROVE  KeptInv'
<1>1. ForkParent' = ForkParent
  BY DEF ForkParent
<1>2. /\ ForkParent \in Node
      /\ \A e \in ToSet(Trail) :
           Num[e.head] >= Num[ForkParent] =>
             Held(e) /\ (Num[e.head] = Num[ForkParent] => e.head = ForkParent)
  BY DEF KeptInv
<1>3. \A e : Held(e) => \A t \in op'.was : t \in Waiting' \cup e.seen \/ Expired(e, t)
  BY DEF Held
<1>4. ASSUME NEW e \in ToSet(Trail'), Num[e.head] >= Num[ForkParent]
      PROVE  /\ \A t \in op'.was : t \in Waiting' \cup e.seen \/ Expired(e, t)
             /\ Num[e.head] = Num[ForkParent] => e.head = ForkParent
  <2>1. CASE e \in ToSet(Trail)
    BY <2>1, <1>2, <1>3, <1>4
  <2>2. CASE e \notin ToSet(Trail)
    <3>1. e = s' /\ Held(s)' /\ Num[s'.head] # Num[ForkParent]
      BY <2>2, <1>4
    <3> QED BY <3>1 DEF Held
  <2> QED BY <2>1, <2>2
<1>5. \A e \in ToSet(Trail') :
        Num[e.head] >= Num[ForkParent'] =>
          /\ \A t \in op'.was : t \in Waiting' \cup e.seen \/ Expired(e, t)
          /\ Num[e.head] = Num[ForkParent'] => e.head = ForkParent'
  BY <1>1, <1>4
<1>6. (/\ ForkParent \in Node
       /\ Num[s.head] >= Num[ForkParent]
       /\ \A e \in ToSet(Trail) :
            Num[e.head] >= Num[ForkParent] =>
              Held(e) /\ (Num[e.head] = Num[ForkParent] => e.head = ForkParent))'
  BY <1>1, <1>2, <1>5 DEF Held
<1> QED BY <1>6 DEF KeptInv

(* pop_block until what was applied of a bad branch is gone.               *)
LEMMA UnwindInv ==
  ASSUME Inv, Unwind
  PROVE  Inv'
<1> USE DEF Inv
<1>1. pc = "unwind"
  BY DEF Unwind
<1>2. /\ ~psess /\ s \in ChainState /\ Counted(s) /\ s \in ToSet(Trail) /\ Held(s)
      /\ ForkParent \in Node /\ Num[s.head] \in Nat /\ Num[ForkParent] \in Nat
      /\ Num[s.head] >= Num[ForkParent]
      /\ (Num[s.head] = Num[ForkParent] => s.head = ForkParent)
  BY <1>1, BranchState
<1>3. CASE s.head # ForkParent
  <2>1. PopBlock("unwind", "requeue") /\ UNCHANGED <<usize, irr, psess, pending>>
    BY <1>3 DEF Unwind
  <2>2. BlockPopped("unwind", "requeue")
    BY <2>1, <1>2, PopBlockInv
  <2>3. /\ s' \in ChainState /\ ToSet(Trail') \subseteq ToSet(Trail)
        /\ op'.was = op.was /\ op'.second = op.second /\ Waiting \subseteq Waiting'
    BY <2>2 DEF BlockPopped
  <2>4. CASE pc' = "requeue" /\ s' = s
    <3>1. (\A t \in op.was : t \in Waiting \/ ~TxApplies(s, t))'
      BY <2>3, <2>4, <1>2, HeldStep
    <3>2. KeptInv'
      BY <3>1, <2>4 DEF KeptInv
    <3> QED BY <2>2, <3>2 DEF BlockPopped
  <2>5. CASE pc' = "unwind" /\ (s' = s \/ Extends(s, s', s.head))
    <3>1. Num[s'.head] >= Num[ForkParent]
      <4>1. CASE s' = s
        BY <4>1, <1>2
      <4>2. CASE Extends(s, s', s.head)
        <5> DEFINE n == Num[s.head]
                   m == Num[s'.head]
                   k == Num[ForkParent]
        <5>1. s.head \in Block /\ Prev[s.head] = s'.head /\ s'.head \in Node
          BY <4>2, <2>3 DEF Extends, ChainState
        <5>2. n = m + 1 /\ m \in Nat
          BY <5>1, NumFacts
        <5>3. n >= k /\ n # k /\ n \in Nat /\ k \in Nat
          BY <1>2, <1>3
        <5> HIDE DEF n, m, k
        <5>4. m >= k
          BY <5>2, <5>3
        <5> QED BY <5>4 DEF m, k
      <4> QED BY <2>5, <4>1, <4>2
    <3>2. KeptInv'
      BY <3>1, <2>3, <2>5, <1>1, BranchKept
    <3> QED BY <2>2, <3>2 DEF BlockPopped
  <2> QED BY <2>2, <2>4, <2>5 DEF BlockPopped
<1>4. CASE s.head = ForkParent
  <2>1. pc' = "restore" /\ UNCHANGED <<dbvars, psess, pending, popped, op>>
    BY <1>4 DEF Unwind
  <2>2. /\ TypeInv' /\ HistoryInv' /\ StateInv' /\ PendingInv'
        /\ Trail' = Trail /\ Waiting' = Waiting /\ s' = s /\ op' = op
    BY <2>1, <1>2, MoveOn
  <2>3. Held(s)'
    BY <2>2, <1>2, HeldStep
  <2>4. KeptInv'
    BY <2>1, <2>3 DEF KeptInv
  <2> QED BY <2>2, <2>4
<1> QED BY <1>3, <1>4

(* What applying a block of a branch does when it succeeds.                *)
LEMMA BranchBlock ==
  ASSUME Inv, ~psess, UNCHANGED <<psess, pending, popped>>, NEW b, ApplyBlock(s, b) # None,
         s' = ApplyBlock(s, b), SetSizes(Num[b] - s.lib + 1), NoteLib(ApplyBlock(s, b)),
         undo' = Opened(undo, usize, s), op' = [op EXCEPT !.left = Tail(@)],
         pc' \in {"apply", "restore"}
  PROVE  /\ TypeInv' /\ HistoryInv' /\ StateInv' /\ PendingInv'
         /\ BlockApplied(b) /\ Waiting' = Waiting
         /\ op'.was = op.was /\ op'.second = op.second
<1> USE DEF Inv
<1>1. OpFields \subseteq DOMAIN op /\ popped \in Seq(Tx)
  BY DEF TypeInv, Places
<1>2. op'.kept = op.kept /\ op'.was = op.was /\ op'.second = op.second /\ OpFields \subseteq DOMAIN op'
  <2>1. op' = [op EXCEPT !.left = Tail(op.left)]
    OBVIOUS
  <2> QED BY <2>1, <1>1, OpUpdates
<1>3. usize' = Num[b] - s.lib + 1
  BY DEF SetSizes
<1>4. BlockApplied(b)
  BY <1>3, ApplyHistory
<1>5. TypeInv' /\ HistoryInv' /\ StateInv' /\ PendingInv'
  BY <1>1, <1>2, <1>4, PlainStep DEF BlockApplied
<1> QED BY <1>2, <1>4, <1>5 DEF Waiting

(* The blocks of the longer branch.                                        *)
LEMMA ApplyBranchInv ==
  ASSUME Inv, ApplyBranch
  PROVE  Inv'
<1> USE DEF Inv
<1> DEFINE b == Head(op.left)
<1>1. pc = "apply" /\ UNCHANGED <<psess, pending, popped>>
  BY DEF ApplyBranch
<1>2. /\ ~psess /\ s \in ChainState /\ Counted(s) /\ s \in ToSet(Trail) /\ Held(s)
      /\ ForkParent \in Node /\ Num[s.head] \in Nat /\ Num[ForkParent] \in Nat
      /\ Num[s.head] >= Num[ForkParent]
  BY <1>1, BranchState
<1>3. CASE op.left = <<>>
  <2>1. pc' = "requeue" /\ UNCHANGED <<dbvars, op>>
    BY <1>3 DEF ApplyBranch
  <2>2. /\ TypeInv' /\ HistoryInv' /\ StateInv' /\ PendingInv'
        /\ Trail' = Trail /\ Waiting' = Waiting /\ s' = s /\ op' = op
    BY <2>1, <1>1, <1>2, MoveOn
  <2>3. (\A t \in op.was : t \in Waiting \/ ~TxApplies(s, t))'
    BY <2>2, <1>2, HeldStep
  <2>4. KeptInv'
    BY <2>1, <2>3 DEF KeptInv
  <2> QED BY <2>2, <2>4
<1>4. CASE op.left # <<>> /\ ApplyBlock(s, b) # None
  <2>1. /\ s' = ApplyBlock(s, b) /\ SetSizes(Num[b] - s.lib + 1) /\ NoteLib(ApplyBlock(s, b))
        /\ undo' = Opened(undo, usize, s) /\ op' = [op EXCEPT !.left = Tail(@)] /\ pc' = pc
    BY <1>4 DEF ApplyBranch
  <2> HIDE DEF b
  <2>2. pc' \in {"apply", "restore"}
    BY <2>1, <1>1
  <2>3. /\ TypeInv' /\ HistoryInv' /\ StateInv' /\ PendingInv'
        /\ BlockApplied(b) /\ Waiting' = Waiting
        /\ op'.was = op.was /\ op'.second = op.second
    BY <2>1, <2>2, <1>1, <1>2, <1>4, BranchBlock
  <2>4. Extends(s', s, b) /\ ToSet(Trail') \subseteq ToSet(Trail) \cup {s'} /\ s' \in ChainState
    BY <2>3, CountedNotNone DEF BlockApplied
  <2>5. Held(s)'
    BY <2>3, <2>4, <1>2, HeldStep
  <2>6. Num[s'.head] = Num[s.head] + 1
    BY <2>4, <1>2, NumFacts DEF Extends
  <2>7. Num[s'.head] >= Num[ForkParent] /\ Num[s'.head] # Num[ForkParent]
    <3> DEFINE n == Num[s.head]
               m == Num[s'.head]
               k == Num[ForkParent]
    <3>1. m = n + 1 /\ n \in Nat /\ k \in Nat /\ n >= k
      BY <2>6, <1>2
    <3> HIDE DEF n, m, k
    <3>2. m >= k /\ m # k
      BY <3>1
    <3> QED BY <3>2 DEF m, k
  <2>8. KeptInv'
    BY <2>1, <2>3, <2>4, <2>5, <2>7, <1>1, BranchKept
  <2> QED BY <2>3, <2>8
<1>5. CASE op.left # <<>> /\ ApplyBlock(s, b) = None
  <2>1. /\ undo' = Undone(Opened(undo, usize, s)) /\ pc' = "unwind"
        /\ op' = [op EXCEPT !.threw = TRUE, !.left = op.second]
        /\ s' = s /\ usize' = usize /\ irr' = irr
    BY <1>5 DEF ApplyBranch
  <2>2. /\ usize \in Nat /\ usize >= 2 /\ irr \in Nat /\ popped \in Seq(Tx)
        /\ OpFields \subseteq DOMAIN op
    BY DEF TypeInv, Places
  <2>3. op'.kept = op.kept /\ op'.was = op.was /\ op'.second = op.second /\ OpFields \subseteq DOMAIN op'
    BY <2>1, <2>2, OpUpdates
  <2>4. /\ undo' \in Seq(ChainState) /\ HistoryInv'
        /\ Last(Trail') = s /\ ToSet(Trail') \subseteq ToSet(Trail)
    BY <2>1, <1>1, <1>2, FailedHistory
  <2>5. TypeInv' /\ HistoryInv' /\ StateInv' /\ PendingInv'
    BY <2>1, <2>2, <2>3, <2>4, <1>1, <1>2, PlainStep
  <2>6. Waiting' = Waiting
    BY <2>3, <1>1 DEF Waiting
  <2>7. KeptInv'
    BY <2>1, <2>3, <2>4, <2>6, <1>1, <1>2, BranchKept
  <2> QED BY <2>5, <2>7
<1> QED BY <1>3, <1>4, <1>5

(* The blocks of the old branch once more.                                 *)
LEMMA RestoreInv ==
  ASSUME Inv, Restore
  PROVE  Inv'
<1> USE DEF Inv
<1> DEFINE b == Head(op.left)
<1>1. pc = "restore" /\ UNCHANGED <<psess, pending, popped>>
  BY DEF Restore
<1>2. ~psess /\ Held(s)
  BY <1>1 DEF TypeInv, Places, KeptInv
<1>3. s \in ChainState /\ Counted(s)
  BY <1>2, PlainTrail
<1>4. CASE op.left = <<>> \/ ApplyBlock(s, b) = None
  <2>1. pc' = "requeue" /\ UNCHANGED <<dbvars, op>>
    BY <1>4 DEF Restore
  <2>2. /\ TypeInv' /\ HistoryInv' /\ StateInv' /\ PendingInv'
        /\ Trail' = Trail /\ Waiting' = Waiting /\ s' = s /\ op' = op
    BY <2>1, <1>1, <1>2, MoveOn
  <2>3. (\A t \in op.was : t \in Waiting \/ ~TxApplies(s, t))'
    BY <2>2, <1>2, <1>3, HeldStep
  <2>4. KeptInv'
    BY <2>1, <2>3 DEF KeptInv
  <2> QED BY <2>2, <2>4
<1>5. CASE ~(op.left = <<>> \/ ApplyBlock(s, b) = None)
  <2>1. /\ s' = ApplyBlock(s, b) /\ SetSizes(Num[b] - s.lib + 1) /\ NoteLib(ApplyBlock(s, b))
        /\ undo' = Opened(undo, usize, s) /\ op' = [op EXCEPT !.left = Tail(@)] /\ pc' = pc
    BY <1>5 DEF Restore
  <2>2. ApplyBlock(s, b) # None /\ pc' \in {"apply", "restore"}
    BY <2>1, <1>1, <1>5
  <2> HIDE DEF b
  <2>3. /\ TypeInv' /\ HistoryInv' /\ StateInv' /\ PendingInv'
        /\ BlockApplied(b) /\ Waiting' = Waiting /\ op'.was = op.was
    BY <2>1, <2>2, <1>1, <1>2, BranchBlock
  <2>4. Extends(s', s, b) /\ s' \in ChainState
    BY <2>3, CountedNotNone DEF BlockApplied
  <2>5. Held(s)'
    BY <2>3, <2>4, <1>2, <1>3, HeldStep
  <2>6. KeptInv'
    BY <2>1, <2>5, <1>1 DEF KeptInv
  <2> QED BY <2>3, <2>6
<1> QED BY <1>4, <1>5

(* The next transaction to bring back is taken off its queue.              *)
LEMMA TakeNextFacts ==
  ASSUME TypeInv, ToRequeue # <<>>, TakeNext
  PROVE  /\ Head(ToRequeue) \in Tx
         /\ popped' \in Seq(Tx) /\ op'.kept \in Seq(Tx) /\ op'.was = op.was
         /\ OpFields \subseteq DOMAIN op'
         /\ Waiting \subseteq {Head(ToRequeue)} \cup Waiting'
<1>1. popped \in Seq(Tx) /\ op.kept \in Seq(Tx) /\ OpFields \subseteq DOMAIN op
  BY DEF TypeInv, Places
<1>2. CASE popped # <<>>
  <2>1. popped' = Tail(popped) /\ op' = op
    BY <1>2 DEF TakeNext
  <2>2. Head(popped) \in Tx /\ Tail(popped) \in Seq(Tx)
        /\ ToSet(popped) \subseteq {Head(popped)} \cup ToSet(Tail(popped))
    BY <1>1, <1>2, HeadTailSet
  <2>3. Head(ToRequeue) = Head(popped)
    BY <1>1, <1>2 DEF ToRequeue
  <2> QED BY <1>1, <2>1, <2>2, <2>3 DEF Waiting
<1>3. CASE popped = <<>>
  <2>1. popped' = <<>> /\ op' = [op EXCEPT !.kept = Tail(op.kept)]
    BY <1>3 DEF TakeNext
  <2>2. ToRequeue = op.kept
    BY <1>1, <1>3, ConcatEmptySeq DEF ToRequeue
  <2>3. Head(op.kept) \in Tx /\ Tail(op.kept) \in Seq(Tx)
        /\ ToSet(op.kept) \subseteq {Head(op.kept)} \cup ToSet(Tail(op.kept))
    BY <1>1, <2>2, HeadTailSet
  <2>4. op'.kept = Tail(op.kept) /\ op'.was = op.was /\ OpFields \subseteq DOMAIN op'
    BY <1>1, <2>1, OpUpdates
  <2>5. popped' = popped
    BY <1>3, <2>1
  <2> QED BY <1>1, <2>2, <2>3, <2>4, <2>5 DEF Waiting
<1> QED BY <1>2, <1>3

(* ~pending_transactions_restorer.                                         *)
LEMMA RequeueInv ==
  ASSUME Inv, Requeue
  PROVE  Inv'
<1> USE DEF Inv
<1> DEFINE x == Head(ToRequeue)
<1>1. pc = "requeue" /\ UNCHANGED <<usize, irr>> /\ op.was \subseteq Tx
      /\ \A t \in op.was : t \in Waiting \/ ~TxApplies(s, t)
  BY DEF Requeue, TypeInv, Places, KeptInv
<1>2. CASE ToRequeue = <<>>
  <2>1. pc' = "idle" /\ op' = IdleOp /\ UNCHANGED <<s, undo, psess, pending, popped, usize, irr>>
    BY <1>1, <1>2 DEF Requeue
  <2>2. op'.kept = <<>> /\ op'.was = {} /\ OpFields \subseteq DOMAIN op'
    BY <2>1 DEF IdleOp, OpFields
  <2>3. <<>> \in Seq(Tx)
    BY EmptySeq
  <2>4. TypeInv'
    BY <2>1, <2>2, <2>3 DEF TypeInv, Places
  <2>5. Trail' = Trail
    BY <2>1 DEF Trail
  <2>6. HistoryInv' /\ StateInv' /\ PendingInv'
    BY <2>1, <2>5 DEF HistoryInv, StateInv, PendingInv
  <2>7. KeptInv'
    BY <2>1 DEF KeptInv
  <2> QED BY <2>4, <2>6, <2>7
<1>3. CASE ToRequeue # <<>>
  <2>1. pc' = pc /\ TakeNext
    BY <1>3 DEF Requeue
  <2>2. /\ x \in Tx /\ popped' \in Seq(Tx) /\ op'.kept \in Seq(Tx) /\ op'.was = op.was
        /\ OpFields \subseteq DOMAIN op' /\ Waiting \subseteq {x} \cup Waiting'
    BY <1>3, <2>1, TakeNextFacts
  <2>3. CASE x \in s.seen
    <3>1. UNCHANGED <<s, undo, psess, pending, usize, irr>>
      BY <2>3, <1>1, <1>3 DEF Requeue
    <3>2. TypeInv'
      BY <3>1, <2>1, <2>2, <1>1 DEF TypeInv, Places
    <3>3. Trail' = Trail
      BY <3>1 DEF Trail
    <3>4. HistoryInv' /\ StateInv' /\ PendingInv'
      BY <3>1, <3>3 DEF HistoryInv, StateInv, PendingInv
    <3>5. ~TxApplies(s, x)
      BY <2>3 DEF TxApplies
    <3> HIDE DEF x
    <3>6. \A t \in op'.was : t \in Waiting' \/ ~TxApplies(s', t)
      BY <3>1, <3>5, <2>2, <1>1
    <3>7. KeptInv'
      BY <3>6, <2>1, <1>1 DEF KeptInv
    <3> QED BY <3>2, <3>4, <3>7
  <2>4. CASE x \notin s.seen
    <3>1. PushTx(x)
      BY <2>4, <1>3 DEF Requeue
    <3> HIDE DEF x
    <3>2. TxPushed(x)
      BY <3>1, <2>2, <1>1, PushTxInv
    <3>3. TypeInv'
      BY <3>2, <2>1, <2>2, <1>1 DEF TypeInv, Places, TxPushed
    <3>4. \A t \in op'.was : t \in Waiting' \/ ~TxApplies(s', t)
      BY <3>2, <2>2, <1>1 DEF TxPushed
    <3>5. KeptInv'
      BY <3>4, <2>1, <1>1 DEF KeptInv
    <3> QED BY <3>2, <3>3, <3>5 DEF TxPushed
  <2> QED BY <2>3, <2>4
<1> QED BY <1>2, <1>3

(* A node that has just opened.                                            *)
LEMMA InitInv == Init => Inv
<1> SUFFICES ASSUME Init PROVE Inv
  OBVIOUS
<1> USE DEF Init
<1>1. Counted(RootState) /\ RootState.head = Root /\ RootState.lib = RootNum /\ RootState \in ChainState
      /\ RootState = Replay[Root] /\ Num[Root] = RootNum /\ RootNum \in Nat
  BY RootCounted, CountedNotNone, ReplayFacts, NumFacts, BlockAssumption
<1> HIDE DEF RootState
<1>2. Trail = <<RootState>>
  BY DEF Trail
<1> DEFINE tr == <<RootState>>
<1>3. /\ tr \in Seq(ChainState) /\ tr # <<>> /\ Len(tr) = 1 /\ tr[1] = RootState /\ Last(tr) = RootState
      /\ \A i \in 1..Len(tr) : i = 1
  BY <1>1 DEF Last
<1> HIDE DEF tr
<1>4. GoodTrail(tr)
  <2>1. \A i \in 1..Len(tr) : tr[i] = RootState
    BY <1>3
  <2>2. 1..(Len(tr) - 1) = {}
    BY <1>3
  <2> QED BY <2>1, <2>2, <1>1, <1>3 DEF GoodTrail
<1>5. LibUpTo(tr, RootNum)
  BY <1>1, <1>3 DEF LibUpTo
<1>6. Indexed(tr, RootNum)
  BY <1>1, <1>3, OnChainFacts DEF Indexed
<1>7. HistoryInv
  BY <1>1, <1>2, <1>3, <1>4, <1>5, <1>6, UndoAssumption DEF HistoryInv, TrailInv, tr
<1>8. /\ op.kept = <<>> /\ op.was = {} /\ OpFields \subseteq DOMAIN op
  BY DEF IdleOp, OpFields
<1>9. <<>> \in Seq(Tx) /\ <<>> \in Seq(ChainState)
  BY EmptySeq
<1>10. TypeInv
  BY <1>1, <1>8, <1>9, UndoAssumption DEF TypeInv, Places
<1>11. StateInv
  BY <1>1, <1>2, <1>3 DEF StateInv, tr
<1>12. KeptInv
  BY DEF KeptInv
<1>13. PendingInv
  BY DEF PendingInv
<1> QED BY <1>7, <1>10, <1>11, <1>12, <1>13 DEF Inv

(* Every step preserves the invariant.                                     *)
LEMMA NextInv == Inv /\ [Next]_vars => Inv'
<1> SUFFICES ASSUME Inv, [Next]_vars PROVE Inv'
  OBVIOUS
<1>1. ASSUME NEW b \in Block, PushBlock(b) PROVE Inv'
  <2>1. Push(b, BaseUndo)
    BY <1>1 DEF PushBlock
  <2> QED BY <2>1, BaseTrail, PushInv DEF Inv
<1>2. ASSUME NEW t \in Tx, PushTransaction(t) PROVE Inv'
  BY <1>2, PushTransactionInv
<1>3. ASSUME NEW b \in Block, GenerateBlock(b) PROVE Inv'
  <2>1. Push(b, GenerateUndo)
    BY <1>3 DEF GenerateBlock
  <2> QED BY <2>1, GenerateTrail, PushInv DEF Inv
<1>4. CASE GenerateTooBig
  BY <1>4, GenerateTooBigInv
<1>5. CASE Step
  BY <1>5, ApplyDirectInv, PopForSwitchInv, ApplyBranchInv, UnwindInv, RestoreInv, RequeueInv DEF Step
<1>6. CASE UNCHANGED vars
  <2>1. UNCHANGED <<s, undo, usize, irr, psess, pending, popped, pc, op>>
    BY <1>6 DEF vars
  <2>2. Trail' = Trail /\ Waiting' = Waiting /\ ForkParent' = ForkParent
    BY <2>1 DEF Trail, Waiting, ForkParent
  <2>3. TypeInv' /\ HistoryInv' /\ StateInv' /\ PendingInv'
    BY <2>1, <2>2 DEF Inv, TypeInv, Places, HistoryInv, StateInv, PendingInv
  <2>4. KeptInv'
    BY <2>1, <2>2 DEF Inv, KeptInv, Held
  <2> QED BY <2>3, <2>4 DEF Inv
<1> QED BY <1>1, <1>2, <1>3, <1>4, <1>5, <1>6 DEF Next

-----------------------------------------------------------------------------
(* Theorems                                                                *)

(* The invariant holds in every reachable state.                           *)
THEOREM Invariance == Spec => []Inv
<1> QED BY InitInv, NextInv, PTL DEF Spec

(* The state without the pending transactions is the replay of the head's  *)
(* chain, whichever way push_block, pop_block and the undo sessions of     *)
(* _push_transaction and _generate_block took to it.                       *)
THEOREM ReplayedState == Spec => []StateIsReplay
<1>1. Inv => StateIsReplay
  <2> SUFFICES ASSUME Inv PROVE BaseState = Replay[BaseState.head]
    BY DEF StateIsReplay
  <2>1. BaseState = Last(Trail) /\ GoodTrail(Trail)
    BY BaseTrail DEF Inv, HistoryInv, TrailInv
  <2>2. Last(Trail) = Trail[Len(Trail)] /\ Len(Trail) \in 1..Len(Trail)
    BY <2>1, TrailTypes
  <2> QED BY <2>1, <2>2 DEF GoodTrail
<1> QED BY <1>1, Invariance, PTL

(* No transaction is evaluated twice on one chain: what                    *)
(* clear_expired_transactions forgets, _apply_transaction rejects.         *)
THEOREM AppliedOnce == Spec => []NoDoubleApply
<1>1. Inv => NoDoubleApply
  <2> SUFFICES ASSUME Inv, NEW t \in Tx PROVE s.done[t] <= 1
    BY DEF NoDoubleApply
  <2>1. s.done[t] = 0 \/ s.done[t] = 1
    BY DEF Inv, StateInv, Counted
  <2> QED BY <2>1
<1> QED BY <1>1, Invariance, PTL

(* The pending state is _pending_tx applied in order to the head state, as *)
(* long as no generated block outgrows the size it was estimated at (then  *)
(* _generate_block leaves _pending_tx without its session).                *)
THEOREM PendingApplied ==
  ASSUME Grows = {}
  PROVE  Spec => []PendingIsApplied
<1>1. Inv => PendingIsApplied
  <2> SUFFICES ASSUME Inv PROVE s = ApplyTxs(BaseState, pending)
    BY DEF PendingIsApplied
  <2>1. CASE psess
    BY <2>1 DEF Inv, PendingInv, BaseState
  <2>2. CASE ~psess
    <3>1. pending = <<>> /\ BaseState = s
      BY <2>2 DEF Inv, PendingInv, BaseState
    <3>2. s \in ChainState
      BY CountedNotNone DEF Inv, StateInv
    <3> QED BY <3>1, <3>2, ApplyTxsEmpty
  <2> QED BY <2>1, <2>2
<1> QED BY <1>1, Invariance, PTL

(* Every block above the highest one that was ever irreversible can be     *)
(* undone, while no transaction executes a proposal: its extra undo        *)
(* session can push the oldest state out of a history that is full.        *)
THEOREM UndoReachesBack ==
  ASSUME Proposes = {}
  PROVE  Spec => []ReversibleUndoable
<1>1. Inv => ReversibleUndoable
  <2> SUFFICES ASSUME Inv, NEW b \in OnChain(BaseState.head), b # BaseState.head, Num[b] >= irr
               PROVE  \E i \in 1..Len(BaseUndo) : BaseUndo[i] = Replay[b]
    BY DEF ReversibleUndoable
  <2> DEFINE tr == Append(BaseUndo, BaseState)
             h == BaseState.head
  <2>1. BaseUndo \in Seq(ChainState) /\ BaseState \in ChainState /\ TrailInv(tr, irr)
    BY BaseTrail DEF Inv
  <2>2. /\ Len(tr) = Len(BaseUndo) + 1 /\ tr[Len(BaseUndo) + 1] = BaseState /\ Len(BaseUndo) \in Nat
        /\ \A i \in 1..Len(BaseUndo) : tr[i] = BaseUndo[i]
    BY <2>1, AppendFacts
  <2> HIDE DEF tr
  <2>3. tr[Len(tr)].head = h
    BY <2>2
  <2>4. h \in Node /\ b \in Node
    BY <2>1, OnChainFacts DEF ChainState
  <2>5. Num[h] \in Nat /\ Num[b] \in Nat /\ Num[b] < Num[h]
    BY <2>4, NumFacts, OnChainNum
  <2>6. Num[h] - Num[b] < Len(tr) /\ tr[Len(tr) - (Num[h] - Num[b])].head = b
    BY <2>1, <2>3 DEF TrailInv, Indexed
  <2> DEFINE i == Len(tr) - (Num[h] - Num[b])
  <2>7. i \in 1..Len(BaseUndo) /\ i \in 1..Len(tr)
    <3> DEFINE n == Num[h]
               m == Num[b]
               k == Len(BaseUndo)
               l == Len(tr)
    <3>1. n \in Nat /\ m \in Nat /\ m < n /\ k \in Nat /\ l = k + 1 /\ n - m < l
      BY <2>2, <2>5, <2>6
    <3> HIDE DEF n, m, k, l
    <3>2. l - (n - m) \in 1..k /\ l - (n - m) \in 1..l
      BY <3>1
    <3> QED BY <3>2 DEF n, m, k, l
  <2>8. tr[i].head = b
    BY <2>6
  <2> HIDE DEF i
  <2>9. tr[i] = Replay[b]
    BY <2>1, <2>7, <2>8 DEF TrailInv, GoodTrail
  <2> QED BY <2>2, <2>7, <2>9
<1> QED BY <1>1, Invariance, PTL

(* When push_block has brought back what it had to, every transaction the  *)
(* node knew before is known again or does not apply any more.             *)
THEOREM TransactionsNotLost == Spec => []TransactionsKept
<1>1. Inv => TransactionsKept
  <2> SUFFICES ASSUME Inv, pc = "requeue", popped = <<>>, op.kept = <<>>, NEW t \in op.was
               PROVE  ~TxApplies(s, t)
    BY DEF TransactionsKept
  <2>1. t \in Waiting \/ ~TxApplies(s, t)
    BY DEF Inv, KeptInv
  <2>2. ToSet(<<>>) = {}
    BY DEF ToSet
  <2>3. Waiting = {}
    BY <2>2 DEF Waiting
  <2> QED BY <2>1, <2>3
<1> QED BY <1>1, Invariance, PTL

-----------------------------------------------------------------------------
(* Across restarts                                                         *)

(* No confirmation is above the head.                                      *)
Level(st) == st.lib <= Num[st.head] /\ \A m \in Miner : st.conf[m] <= Num[st.head]

(* Two states that differ in the deduplication index only.                 *)
Same(a, c) == a.head = c.head /\ a.lib = c.lib /\ a.conf = c.conf /\ a.done = c.done

(* What _apply_block does after the transactions.                          *)
Finish(a, b) == ClearExpired(UpdateLib(AdvanceHead(a, b)))

(* The fields of a block's state, from those after its transactions.       *)
LEMMA FinishFacts ==
  ASSUME NEW a \in ChainState, Level(a), NEW b \in Block, Prev[b] = a.head
  PROVE  LET y  == Finish(a, b)
             cf == [a.conf EXCEPT ![Signer[b]] = Num[b]]
         IN  /\ y \in ChainState /\ Level(y)
             /\ y.head = b /\ y.conf = cf /\ y.done = a.done /\ y.seen \subseteq a.seen
             /\ y.lib = (IF NthConfirmed(cf) > a.lib THEN NthConfirmed(cf) ELSE a.lib)
<1> DEFINE h == AdvanceHead(a, b)
           l == UpdateLib(h)
           y == ClearExpired(l)
           cf == [a.conf EXCEPT ![Signer[b]] = Num[b]]
<1>1. b \in Node /\ a.head \in Node /\ Signer[b] \in Miner
  BY BlockAssumption DEF ChainState, Node
<1>2. a.conf \in [Miner -> Nat] /\ a.lib \in Nat /\ a.seen \in SUBSET Tx /\ a.done \in [Tx -> 0..2]
  BY DEF ChainState
<1>3. Num[b] \in Nat /\ Num[a.head] \in Nat /\ Num[b] = Num[a.head] + 1
  BY <1>1, NumFacts
<1>4. cf \in [Miner -> Nat]
  BY <1>1, <1>2, <1>3
<1>5. h = [a EXCEPT !.head = b, !.conf = cf]
  BY DEF AdvanceHead, ChainState
<1>6. \A m \in Miner : cf[m] <= Num[b]
  <2> SUFFICES ASSUME NEW m \in Miner PROVE cf[m] <= Num[b]
    OBVIOUS
  <2>1. a.conf[m] <= Num[a.head] /\ a.conf[m] \in Nat
    BY <1>2 DEF Level
  <2>2. cf[m] = Num[b] \/ cf[m] = a.conf[m]
    BY <1>2
  <2> QED BY <2>1, <2>2, <1>3
<1> HIDE DEF h, cf
<1>7. h \in ChainState /\ h.head = b /\ h.lib = a.lib /\ h.conf = cf /\ h.seen = a.seen /\ h.done = a.done
  BY <1>1, <1>4, <1>5 DEF ChainState
<1> DEFINE nth == NthConfirmed(cf)
           lb == IF nth > a.lib THEN nth ELSE a.lib
<1>8. nth \in Nat /\ nth <= Num[b]
  BY <1>3, <1>4, <1>6, NthConfirmedFacts
<1> HIDE DEF nth
<1>9. lb \in Nat /\ lb <= Num[b]
  <2>1. a.lib <= Num[a.head]
    BY DEF Level
  <2> QED BY <2>1, <1>2, <1>3, <1>8
<1>10. l = [h EXCEPT !.lib = lb]
  BY <1>7 DEF UpdateLib, ChainState, nth
<1> HIDE DEF l, lb
<1>11. l \in ChainState /\ l.head = b /\ l.lib = lb /\ l.conf = cf /\ l.seen = a.seen /\ l.done = a.done
  BY <1>7, <1>9, <1>10 DEF ChainState
<1> DEFINE sn == IF \E t \in a.seen : Expiration[t] >= Time[b] THEN a.seen ELSE {}
<1>12. sn \in SUBSET Tx /\ sn \subseteq a.seen
  BY <1>2
<1>13. y = [l EXCEPT !.seen = sn]
  BY <1>11 DEF ClearExpired, ChainState
<1> HIDE DEF y, sn
<1>14. y \in ChainState /\ y.head = b /\ y.lib = lb /\ y.conf = cf /\ y.seen = sn /\ y.done = a.done
  BY <1>11, <1>12, <1>13 DEF ChainState
<1>15. Level(y)
  BY <1>6, <1>9, <1>14 DEF Level
<1>16. y = Finish(a, b)
  BY DEF Finish, y, l, h
<1> QED BY <1>12, <1>14, <1>15, <1>16 DEF lb, nth, cf

(* The ledger after a block depends on the ledger before.                  *)
LEMMA SameFinish ==
  ASSUME NEW a \in ChainState, Level(a), NEW c \in ChainState, Same(a, c),
         NEW b \in Block, Prev[b] = a.head
  PROVE  Same(Finish(a, b), Finish(c, b))
<1>1. a.head = c.head /\ a.lib = c.lib /\ a.conf = c.conf /\ a.done = c.done
  BY DEF Same
<1>2. Level(c)
  BY <1>1 DEF Level
<1> DEFINE y == Finish(a, b)
           z == Finish(c, b)
           cf == [a.conf EXCEPT ![Signer[b]] = Num[b]]
           lb == IF NthConfirmed(cf) > a.lib THEN NthConfirmed(cf) ELSE a.lib
<1>3. y.head = b /\ y.conf = cf /\ y.done = a.done /\ y.lib = lb
  BY FinishFacts
<1>4. z.head = b /\ z.conf = cf /\ z.done = a.done /\ z.lib = lb
  BY <1>1, <1>2, FinishFacts
<1> HIDE DEF y, z, cf, lb
<1> QED BY <1>3, <1>4 DEF Same, y, z

(* And so after a transaction.                                             *)
LEMMA SameTx ==
  ASSUME NEW a \in ChainState, NEW c \in ChainState, Same(a, c), NEW t \in Tx
  PROVE  Same(ApplyTx(a, t), ApplyTx(c, t))
<1>1. a.head = c.head /\ a.lib = c.lib /\ a.conf = c.conf /\ a.done = c.done
  BY DEF Same
<1> DEFINE d == [a.done EXCEPT ![t] = IF @ < 2 THEN @ + 1 ELSE @]
           x == ApplyTx(a, t)
           z == ApplyTx(c, t)
<1>2. x.head = a.head /\ x.lib = a.lib /\ x.conf = a.conf /\ x.done = d
  BY ApplyTxFacts
<1>3. z.head = a.head /\ z.lib = a.lib /\ z.conf = a.conf /\ z.done = d
  BY <1>1, ApplyTxFacts
<1> HIDE DEF d, x, z
<1> QED BY <1>2, <1>3 DEF Same, x, z

(* The transactions of a block and what precedes them in it.               *)
LEMMA TxsLoop ==
  ASSUME NEW st \in ChainState, NEW ts \in Seq(Tx), ApplyTxs(st, ts) # None
  PROVE  \E g : /\ g[0] = st /\ g[Len(ts)] = ApplyTxs(st, ts)
                /\ \A i \in 0..Len(ts) : g[i] \in ChainState /\ g[i].head = st.head
                                         /\ g[i].lib = st.lib /\ g[i].conf = st.conf
                /\ \A i \in 1..Len(ts) : ts[i] \in Tx /\ TxApplies(g[i - 1], ts[i])
                                         /\ g[i] = ApplyTx(g[i - 1], ts[i])
<1> DEFINE n == Len(ts)
<1>1. PICK g : After(g, st, ts) /\ ApplyTxs(st, ts) = g[n]
  BY ApplyTxsIs
<1>2. n \in Nat /\ \A i \in 1..n : ts[i] \in Tx
  OBVIOUS
<1>3. g[0] = st /\ \A i \in 1..n : g[i] = TxsStep(g[i - 1], ts[i])
  BY <1>1, <1>2, AfterEquations
<1> HIDE DEF n
<1>4. ASSUME NEW i \in 0..n PROVE g[i] # None
  <2> DEFINE U == {k \in 0..n : i <= k /\ g[k] # None}
  <2>1. SUFFICES ASSUME g[i] = None PROVE FALSE
    OBVIOUS
  <2>2. U \in SUBSET Nat /\ n \in U
    BY <1>1, <1>2 DEF n
  <2>3. PICK m \in U : \A k \in U : m <= k
    <3> HIDE DEF U
    <3> QED BY <2>2, LeastNatural
  <2>4. m # i /\ m \in 1..n /\ m - 1 \in 0..n /\ i <= m - 1 /\ m \in Nat
    BY <2>1, <2>3, <1>2
  <2>5. m - 1 \notin U
    BY <2>3, <2>4
  <2>6. g[m - 1] = None
    BY <2>4, <2>5
  <2>7. g[m] = None
    BY <2>4, <2>6, <1>3 DEF TxsStep
  <2> QED BY <2>3, <2>7
<1>5. ASSUME NEW i \in 1..n PROVE ts[i] \in Tx /\ TxApplies(g[i - 1], ts[i]) /\ g[i] = ApplyTx(g[i - 1], ts[i])
  <2>1. i \in 0..n /\ i - 1 \in 0..n
    BY <1>2
  <2>2. g[i] # None /\ g[i] = TxsStep(g[i - 1], ts[i])
    BY <2>1, <1>3, <1>4
  <2> QED BY <2>2, <1>2 DEF TxsStep
<1> DEFINE Ok(x) == x \in ChainState /\ x.head = st.head /\ x.lib = st.lib /\ x.conf = st.conf
<1>6. ASSUME NEW i \in 0..n PROVE Ok(g[i])
  <2> DEFINE S == {k \in 0..n : ~Ok(g[k])}
  <2>1. SUFFICES ASSUME S # {} PROVE FALSE
    OBVIOUS
  <2>2. S \in SUBSET Nat
    BY <1>2
  <2>3. PICK m \in S : \A k \in S : m <= k
    <3> HIDE DEF S
    <3> QED BY <2>1, <2>2, LeastNatural
  <2>4. m # 0
    BY <2>3, <1>3
  <2>5. m \in 1..n /\ m - 1 \in 0..n /\ m \in Nat
    BY <2>3, <2>4, <1>2
  <2>6. m - 1 \notin S
    BY <2>3, <2>5
  <2>7. Ok(g[m - 1])
    <3> HIDE DEF Ok
    <3> QED BY <2>5, <2>6
  <2>8. g[m] = ApplyTx(g[m - 1], ts[m]) /\ ts[m] \in Tx
    BY <2>5, <1>5
  <2>9. Ok(g[m])
    <3> DEFINE z == ApplyTx(g[m - 1], ts[m])
    <3>1. z \in ChainState /\ z.head = g[m - 1].head /\ z.lib = g[m - 1].lib /\ z.conf = g[m - 1].conf
      BY <2>7, <2>8, ApplyTxFacts
    <3> HIDE DEF z
    <3>2. g[m] = z
      BY <2>8 DEF z
    <3> QED BY <3>1, <3>2, <2>7
  <2> QED BY <2>3, <2>9
<1> QED BY <1>1, <1>3, <1>5, <1>6 DEF n

(* What _apply_block does to a state, whatever it has seen.                *)
LEMMA ApplyBlockLevel ==
  ASSUME NEW st \in ChainState, Level(st), NEW b, ApplyBlock(st, b) # None
  PROVE  LET y == ApplyBlock(st, b)
             a == ApplyTxs(st, Txs[b])
         IN  /\ b \in Block /\ Prev[b] = st.head /\ Txs[b] \in Seq(Tx) /\ Num[b] = Num[st.head] + 1
             /\ a # None /\ a \in ChainState /\ a.head = st.head /\ Level(a) /\ y = Finish(a, b)
             /\ y \in ChainState /\ Level(y) /\ y.head = b
             /\ b \in Valid /\ ~(Time[st.head] >= Time[b]) /\ ~(Num[b] - st.lib >= MaxUndo)
<1> DEFINE y == ApplyBlock(st, b)
           a == ApplyTxs(st, Txs[b])
<1>1. b \in Valid /\ Prev[b] = st.head /\ ~(Time[st.head] >= Time[b]) /\ ~(Num[b] - st.lib >= MaxUndo)
      /\ a # None /\ y = Finish(a, b)
  BY DEF ApplyBlock, Finish
<1>2. b \in Block /\ Txs[b] \in Seq(Tx)
  BY <1>1, BlockAssumption DEF Node
<1>3. Num[b] = Num[st.head] + 1
  BY <1>1, <1>2, NumFacts
<1>4. a = None \/ OnTop(a, st, ToSet(Txs[b]))
  BY <1>2, ApplyTxsFacts
<1> HIDE DEF a, y
<1>5. a \in ChainState /\ a.head = st.head /\ a.lib = st.lib /\ a.conf = st.conf
  BY <1>1, <1>4 DEF OnTop
<1>6. Level(a)
  BY <1>5 DEF Level
<1>7. y \in ChainState /\ Level(y) /\ y.head = b
  BY <1>1, <1>2, <1>5, <1>6, FinishFacts
<1> QED BY <1>1, <1>2, <1>3, <1>5, <1>6, <1>7 DEF a, y

-----------------------------------------------------------------------------
(* The ledger is determined by the chain                                   *)

(* A block repeats no transaction of its chain, unless its evaluation      *)
(* fails the second time.                                                  *)
Unrepeated ==
  \A b \in Block : \A i \in 1..Len(Txs[b]) :
    Txs[b][i] \notin Conflicts[Txs[b][i]] =>
      /\ \A j \in 1..(i - 1) : Txs[b][j] # Txs[b][i]
      /\ \A c \in OnChain(Prev[b]) : Txs[b][i] \notin ToSet(Txs[c])

(* What the deduplication index holds comes from the chain, and counts.    *)
Traced(st) ==
  \A t \in st.seen : st.done[t] # 0 /\ \E c \in OnChain(st.head) : t \in ToSet(Txs[c])

(* A transaction counts at least one more.                                 *)
LEMMA DoneGrows ==
  ASSUME NEW a \in ChainState, NEW t \in Tx
  PROVE  /\ ApplyTx(a, t).done[t] # 0
         /\ \A u \in Tx : a.done[u] # 0 => ApplyTx(a, t).done[u] # 0
<1> DEFINE d == [a.done EXCEPT ![t] = IF @ < 2 THEN @ + 1 ELSE @]
<1>1. ApplyTx(a, t).done = d
  BY ApplyTxFacts
<1>2. a.done \in [Tx -> 0..2]
  BY DEF ChainState
<1>3. d[t] # 0 /\ \A u \in Tx : a.done[u] # 0 => d[u] # 0
  <2>1. a.done[t] \in 0..2 /\ d[t] = (IF a.done[t] < 2 THEN a.done[t] + 1 ELSE a.done[t])
    BY <1>2
  <2>2. d[t] # 0
    BY <2>1
  <2>3. \A u \in Tx : u # t => d[u] = a.done[u]
    BY <1>2
  <2> QED BY <2>2, <2>3
<1> QED BY <1>1, <1>3

(* The first i transactions of a block's applied to a traced state: what   *)
(* has been seen counts and is of the chain or of those i.                 *)
LEMMA TracedLoop ==
  ASSUME NEW st \in ChainState, Traced(st), NEW ts \in Seq(Tx), NEW g, g[0] = st,
         NEW n \in 0..Len(ts),
         \A i \in 0..n : g[i] \in ChainState,
         \A i \in 1..n : g[i] = ApplyTx(g[i - 1], ts[i])
  PROVE  \A t \in g[n].seen : g[n].done[t] # 0 /\ (t \in st.seen \/ \E j \in 1..n : ts[j] = t)
<1>0. Len(ts) \in Nat /\ n \in Nat /\ \A i \in 1..n : ts[i] \in Tx
  <2>1. Len(ts) \in Nat /\ \A i \in 1..Len(ts) : ts[i] \in Tx
    OBVIOUS
  <2> QED BY <2>1
<1> DEFINE Ok(k) == \A t \in g[k].seen : g[k].done[t] # 0 /\ (t \in st.seen \/ \E j \in 1..k : ts[j] = t)
           S == {k \in 0..n : ~Ok(k)}
<1>1. SUFFICES ASSUME S # {} PROVE FALSE
  BY <1>0
<1>2. S \in SUBSET Nat
  BY <1>0
<1>3. PICK m \in S : \A k \in S : m <= k
  <2> HIDE DEF S
  <2> QED BY <1>1, <1>2, LeastNatural
<1>4. m # 0
  <2>1. Ok(0)
    BY DEF Traced
  <2> QED BY <2>1, <1>3
<1>5. m \in 1..n /\ m - 1 \in 0..n /\ m \in Nat
  BY <1>3, <1>4, <1>0
<1>6. m - 1 \notin S
  BY <1>3, <1>5
<1>7. Ok(m - 1)
  <2> HIDE DEF Ok
  <2> QED BY <1>5, <1>6
<1> DEFINE x == g[m - 1]
<1>8. x \in ChainState /\ ts[m] \in Tx /\ g[m] = ApplyTx(x, ts[m]) /\ x.seen \in SUBSET Tx
  BY <1>5, <1>0 DEF ChainState
<1>9. g[m].seen = x.seen \cup {ts[m]}
  <2> HIDE DEF x
  <2>1. ApplyTx(x, ts[m]).seen = x.seen \cup {ts[m]}
    BY ZenonT(60), <1>8, ApplyTxFacts
  <2> QED BY <2>1, <1>8
<1>10. g[m].done[ts[m]] # 0 /\ \A u \in Tx : x.done[u] # 0 => g[m].done[u] # 0
  BY <1>8, DoneGrows
<1>11. ASSUME NEW t \in g[m].seen PROVE g[m].done[t] # 0 /\ (t \in st.seen \/ \E j \in 1..m : ts[j] = t)
  <2>1. CASE t = ts[m]
    <3>1. m \in 1..m
      BY <1>5
    <3> QED BY <2>1, <3>1, <1>10
  <2>2. CASE t \in x.seen
    <3>1. x.done[t] # 0 /\ (t \in st.seen \/ \E j \in 1..(m - 1) : ts[j] = t)
      BY <2>2, <1>7
    <3>2. \A j \in 1..(m - 1) : j \in 1..m
      BY <1>5
    <3> QED BY <2>2, <3>1, <3>2, <1>8, <1>10
  <2> QED BY <2>1, <2>2, <1>9
<1>12. Ok(m)
  BY <1>11
<1> QED BY <1>3, <1>12

(* A replayed state: level and traced.                                     *)
LEMMA ReplayTraced ==
  ASSUME NEW b \in Node, Replay[b] # None
  PROVE  Replay[b] \in ChainState /\ Level(Replay[b]) /\ Traced(Replay[b]) /\ Replay[b].head = b
<1> DEFINE Ok(c) == Replay[c] # None =>
                      /\ Replay[c] \in ChainState /\ Level(Replay[c]) /\ Traced(Replay[c])
                      /\ Replay[c].head = c
           Bad == {c \in Block : ~Ok(c)}
<1>1. Ok(Root)
  <2>1. Replay[Root] = RootState /\ RootState \in ChainState /\ RootState.head = Root
        /\ Counted(RootState) /\ RootState.seen = {}
    BY ReplayFacts, RootCounted, CountedNotNone DEF RootState
  <2> HIDE DEF RootState
  <2>2. Level(RootState) /\ Traced(RootState)
    BY <2>1 DEF Counted, Level, Traced
  <2> QED BY <2>1, <2>2
<1>2. SUFFICES ASSUME Bad # {} PROVE FALSE
  <2> HIDE DEF Ok
  <2>1. \A c \in Block : Ok(c)
    BY <1>2
  <2>2. Ok(b)
    BY <2>1, <1>1 DEF Node
  <2> QED BY <2>2 DEF Ok
<1>3. PICK c \in Bad : Prev[c] \notin Bad
  <2>1. Bad \in SUBSET Block
    OBVIOUS
  <2> HIDE DEF Bad
  <2> QED BY <1>2, <2>1, TreeAssumption
<1>4. c \in Block /\ ~Ok(c) /\ Prev[c] \in Node
  BY <1>3, NumFacts
<1>5. Ok(Prev[c])
  <2> HIDE DEF Ok
  <2> QED BY <1>1, <1>3, <1>4 DEF Node
<1> DEFINE x == Replay[Prev[c]]
           y == Replay[c]
           a == ApplyTxs(x, Txs[c])
<1>6. y # None /\ x # None /\ y = ApplyBlock(x, c)
  BY <1>4, ReplayFacts
<1>7. x \in ChainState /\ Level(x) /\ Traced(x) /\ x.head = Prev[c]
  BY <1>5, <1>6
<1> HIDE DEF x, y
<1>8. /\ Txs[c] \in Seq(Tx) /\ a # None /\ a \in ChainState /\ a.head = x.head /\ Level(a) /\ y = Finish(a, c)
      /\ y \in ChainState /\ Level(y) /\ y.head = c
  BY <1>6, <1>7, ApplyBlockLevel
<1>9. y.done = a.done /\ y.seen \subseteq a.seen
  BY <1>4, <1>7, <1>8, FinishFacts
<1> DEFINE ts == Txs[c]
           n == Len(ts)
<1>10. PICK g : /\ g[0] = x /\ g[n] = a
                /\ \A i \in 0..n : g[i] \in ChainState
                /\ \A i \in 1..n : g[i] = ApplyTx(g[i - 1], ts[i])
  <2>1. ts \in Seq(Tx) /\ a = ApplyTxs(x, ts) /\ a # None
    BY <1>8
  <2> HIDE DEF ts, a
  <2>2. PICK g : /\ g[0] = x /\ g[Len(ts)] = ApplyTxs(x, ts)
                 /\ \A i \in 0..Len(ts) : g[i] \in ChainState /\ g[i].head = x.head
                                         /\ g[i].lib = x.lib /\ g[i].conf = x.conf
                 /\ \A i \in 1..Len(ts) : ts[i] \in Tx /\ TxApplies(g[i - 1], ts[i])
                                         /\ g[i] = ApplyTx(g[i - 1], ts[i])
    BY <2>1, <1>7, TxsLoop
  <2> QED BY <2>1, <2>2
<1> HIDE DEF a
<1>11. \A t \in a.seen : a.done[t] # 0 /\ (t \in x.seen \/ \E j \in 1..n : ts[j] = t)
  <2>1. n \in 0..Len(ts) /\ ts \in Seq(Tx) /\ n = Len(ts)
    BY <1>8
  <2> HIDE DEF ts, n
  <2>2. \A t \in g[n].seen : g[n].done[t] # 0 /\ (t \in x.seen \/ \E j \in 1..n : ts[j] = t)
    BY SMTT(30), <2>1, <1>7, <1>10, TracedLoop
  <2> QED BY <2>2, <1>10
<1>12. \A j \in 1..n : Txs[c][j] \in ToSet(Txs[c])
  BY <1>8 DEF ToSet
<1>13. Traced(y)
  <2> SUFFICES ASSUME NEW t \in y.seen
               PROVE  y.done[t] # 0 /\ \E d \in OnChain(c) : t \in ToSet(Txs[d])
    BY <1>8 DEF Traced
  <2>1. a.done[t] # 0 /\ (t \in x.seen \/ t \in ToSet(Txs[c]))
    BY <1>9, <1>11, <1>12
  <2>2. OnChain(c) = OnChain(Prev[c]) \cup {c}
    BY <1>4, OnChainFacts
  <2>3. CASE t \in x.seen
    <3>1. \E d \in OnChain(Prev[c]) : t \in ToSet(Txs[d])
      BY <2>3, <1>7 DEF Traced
    <3> QED BY <3>1, <2>1, <2>2, <1>9
  <2>4. CASE t \in ToSet(Txs[c])
    BY <2>4, <2>1, <2>2, <1>9
  <2> QED BY <2>1, <2>3, <2>4
<1> QED BY <1>4, <1>8, <1>13 DEF y

(* With no transaction repeated, a block leads from the ledger of its      *)
(* parent to its own, whatever the deduplication index has forgotten.      *)
LEMMA LedgerNext ==
  ASSUME Unrepeated, NEW st \in ChainState, Level(st), Replay[st.head] # None,
         Same(st, Replay[st.head]), NEW b, ApplyBlock(st, b) # None
  PROVE  Replay[b] # None /\ Same(ApplyBlock(st, b), Replay[b])
<1> DEFINE rp == Replay[st.head]
           ts == Txs[b]
           n == Len(ts)
<1>1. /\ b \in Block /\ Prev[b] = st.head /\ ts \in Seq(Tx)
      /\ ApplyTxs(st, ts) # None /\ ApplyTxs(st, ts) \in ChainState /\ ApplyTxs(st, ts).head = st.head
      /\ Level(ApplyTxs(st, ts)) /\ ApplyBlock(st, b) = Finish(ApplyTxs(st, ts), b)
      /\ b \in Valid /\ ~(Time[st.head] >= Time[b]) /\ ~(Num[b] - st.lib >= MaxUndo)
  BY ApplyBlockLevel
<1>2. rp \in ChainState /\ Level(rp) /\ Traced(rp) /\ rp.head = st.head
  <2>1. st.head \in Node
    BY DEF ChainState
  <2> QED BY <2>1, ReplayTraced
<1>3. Same(st, rp) /\ rp # None
  OBVIOUS
<1> HIDE DEF rp
<1>4. n \in Nat /\ \A i \in 1..n : ts[i] \in Tx
  BY <1>1
<1> HIDE DEF n
<1>5. PICK g : /\ g[0] = st /\ g[n] = ApplyTxs(st, ts)
               /\ \A i \in 0..n : g[i] \in ChainState
               /\ \A i \in 1..n : TxApplies(g[i - 1], ts[i]) /\ g[i] = ApplyTx(g[i - 1], ts[i])
  <2> HIDE DEF ts
  <2>1. PICK g : /\ g[0] = st /\ g[Len(ts)] = ApplyTxs(st, ts)
                 /\ \A i \in 0..Len(ts) : g[i] \in ChainState /\ g[i].head = st.head
                                         /\ g[i].lib = st.lib /\ g[i].conf = st.conf
                 /\ \A i \in 1..Len(ts) : ts[i] \in Tx /\ TxApplies(g[i - 1], ts[i])
                                         /\ g[i] = ApplyTx(g[i - 1], ts[i])
    BY <1>1, TxsLoop
  <2> QED BY <2>1 DEF n
<1>6. PICK h : h[0] = rp /\ h[n] = ApplyTxs(rp, ts) /\ \A i \in 1..n : h[i] = TxsStep(h[i - 1], ts[i])
  <2> HIDE DEF ts
  <2>1. PICK h : After(h, rp, ts) /\ ApplyTxs(rp, ts) = h[Len(ts)]
    BY <1>1, <1>2, ApplyTxsIs
  <2>2. Len(ts) \in Nat
    BY <1>4 DEF n
  <2>3. h[0] = rp /\ \A i \in 1..Len(ts) : h[i] = TxsStep(h[i - 1], ts[i])
    BY <2>1, <2>2, AfterEquations
  <2> QED BY <2>1, <2>3 DEF n
<1> DEFINE Ok(k) == /\ h[k] \in ChainState /\ Same(g[k], h[k])
                    /\ k # 0 => h[k] = ApplyTx(h[k - 1], ts[k])
           S == {k \in 0..n : ~Ok(k)}
<1>7. S = {}
  <2>1. SUFFICES ASSUME S # {} PROVE FALSE
    OBVIOUS
  <2>2. S \in SUBSET Nat
    BY <1>4
  <2>3. PICK m \in S : \A k \in S : m <= k
    <3> HIDE DEF S
    <3> QED BY <2>1, <2>2, LeastNatural
  <2>4. m # 0
    BY <2>3, <1>2, <1>3, <1>5, <1>6
  <2>5. m \in 1..n /\ m - 1 \in 0..n /\ m \in Nat /\ m \in 0..n
    BY <2>3, <2>4, <1>4
  <2>6. ASSUME NEW k \in 0..(m - 1) PROVE Ok(k)
    <3>1. k \in 0..n /\ ~(m <= k)
      BY <2>5, <1>4
    <3>2. k \notin S
      BY <3>1, <2>3
    <3> HIDE DEF Ok
    <3> QED BY <3>1, <3>2
  <2> DEFINE t == ts[m]
             x == h[m - 1]
             y == g[m - 1]
  <2>7. x \in ChainState /\ Same(y, x) /\ y \in ChainState /\ t \in Tx
    <3>1. m - 1 \in 0..(m - 1)
      BY <2>5
    <3> QED BY <3>1, <2>5, <2>6, <1>4, <1>5
  <2>8. TxApplies(y, t) /\ g[m] = ApplyTx(y, t) /\ h[m] = TxsStep(x, t)
    BY <2>5, <1>5, <1>6
  <2>9. \A u \in x.seen : x.done[u] # 0 /\ (u \in rp.seen \/ \E j \in 1..(m - 1) : ts[j] = u)
    <3>1. (m - 1) \in 0..Len(ts)
      BY <2>5 DEF n
    <3>2. \A i \in 0..(m - 1) : h[i] \in ChainState
      BY <2>6
    <3>3. \A i \in 1..(m - 1) : h[i] = ApplyTx(h[i - 1], ts[i])
      <4>1. \A i \in 1..(m - 1) : i \in 0..(m - 1) /\ i # 0
        BY <2>5
      <4> QED BY <4>1, <2>6
    <3>4. rp \in ChainState /\ Traced(rp) /\ ts \in Seq(Tx) /\ h[0] = rp
      BY <1>1, <1>2, <1>6
    <3> DEFINE k == m - 1
    <3>5. \A u \in h[k].seen : h[k].done[u] # 0 /\ (u \in rp.seen \/ \E j \in 1..k : ts[j] = u)
      <4> HIDE DEF k, ts
      <4>1. k \in 0..Len(ts) /\ (\A i \in 0..k : h[i] \in ChainState)
            /\ \A i \in 1..k : h[i] = ApplyTx(h[i - 1], ts[i])
        BY <3>1, <3>2, <3>3 DEF k
      <4> QED BY <4>1, <3>4, TracedLoop
    <3> QED BY <3>5
  <2>10. t \notin x.seen
    <3>1. SUFFICES ASSUME t \in x.seen PROVE FALSE
      OBVIOUS
    <3>2. x.done[t] # 0 /\ (t \in rp.seen \/ \E j \in 1..(m - 1) : ts[j] = t)
      <4> HIDE DEF t, x
      <4> QED BY <3>1, <2>9
    <3>3. y.done = x.done
      BY <2>7 DEF Same
    <3>4. t \notin Conflicts[t]
      BY <2>8, <3>2, <3>3 DEF TxApplies
    <3>5. /\ \A j \in 1..(m - 1) : ts[j] # t
          /\ \A c \in OnChain(Prev[b]) : t \notin ToSet(Txs[c])
      BY <3>4, <2>5, <1>1 DEF Unrepeated, n
    <3>6. PICK c \in OnChain(rp.head) : t \in ToSet(Txs[c])
      BY <3>2, <3>5, <1>2 DEF Traced
    <3> QED BY <3>5, <3>6, <1>1, <1>2
  <2>11. TxApplies(x, t)
    BY <2>7, <2>8, <2>10 DEF Same, TxApplies
  <2>12. x # None
    BY <2>7, NoneAssumption
  <2>13. h[m] = ApplyTx(x, t)
    BY <2>8, <2>11, <2>12 DEF TxsStep
  <2>14. h[m] \in ChainState
    <3> HIDE DEF x, t
    <3>1. ApplyTx(x, t) \in ChainState
      BY <2>7, ApplyTxFacts
    <3> QED BY <3>1, <2>13
  <2>15. Same(g[m], h[m])
    <3> HIDE DEF x, y, t
    <3> QED BY <2>7, <2>8, <2>13, SameTx
  <2>16. Ok(m)
    BY <2>13, <2>14, <2>15
  <2> QED BY <2>3, <2>16
<1>8. h[n] \in ChainState /\ Same(g[n], h[n])
  <2>1. n \in 0..n
    BY <1>4
  <2>2. Ok(n)
    <3> HIDE DEF Ok
    <3> QED BY <2>1, <1>7
  <2> QED BY <2>2
<1> DEFINE a == g[n]
           c == h[n]
<1>9. a \in ChainState /\ a.head = st.head /\ Level(a) /\ ApplyBlock(st, b) = Finish(a, b)
  BY <1>1, <1>5
<1>10. c # None /\ c = ApplyTxs(rp, ts)
  BY <1>6, <1>8, NoneAssumption
<1>11. rp.lib = st.lib
  BY <1>3 DEF Same
<1>12. ApplyBlock(rp, b) = Finish(c, b)
  BY <1>1, <1>2, <1>10, <1>11 DEF ApplyBlock, Finish
<1>13. Replay[b] = ApplyBlock(rp, b)
  BY <1>1, <1>3, ReplayFacts DEF rp
<1>14. Same(Finish(a, b), Finish(c, b))
  <2> HIDE DEF a, c
  <2>1. Same(a, c) /\ c \in ChainState
    BY <1>8 DEF a, c
  <2>2. Prev[b] = a.head /\ b \in Block
    BY <1>1, <1>9
  <2> QED BY <2>1, <2>2, <1>9, SameFinish
<1>15. Finish(c, b) # None
  <2> HIDE DEF a, c
  <2>1. Same(a, c) /\ c \in ChainState
    BY <1>8 DEF a, c
  <2>2. Prev[b] = c.head /\ b \in Block /\ Level(c)
    BY <2>1, <1>1, <1>9 DEF Same, Level
  <2>3. Finish(c, b) \in ChainState
    BY <2>1, <2>2, FinishFacts
  <2> QED BY <2>3, NoneAssumption
<1> QED BY <1>9, <1>12, <1>13, <1>14, <1>15

-----------------------------------------------------------------------------
(* reindex                                                                 *)

(* A replayed transaction counts like an applied one.                      *)
LEMMA ReplayTxFacts ==
  ASSUME NEW a \in ChainState \cup {None}, NEW t \in Tx
  PROVE  /\ ReplayTx(a, t) \in ChainState \cup {None}
         /\ ReplayTx(a, t) # None => a \in ChainState /\ Same(ReplayTx(a, t), ApplyTx(a, t))
<1>1. CASE ReplayTx(a, t) = None
  BY <1>1
<1>2. CASE ReplayTx(a, t) # None
  <2>1. a # None /\ ReplayTx(a, t) = [ApplyTx(a, t) EXCEPT !.seen = a.seen]
    BY <1>2 DEF ReplayTx
  <2>2. a \in ChainState /\ ApplyTx(a, t) \in ChainState
    BY <2>1, ApplyTxFacts
  <2>3. a.seen \in SUBSET Tx
    BY <2>2 DEF ChainState
  <2> DEFINE x == ApplyTx(a, t)
  <2> HIDE DEF x
  <2>4. x \in ChainState /\ ReplayTx(a, t) = [x EXCEPT !.seen = a.seen]
    BY <2>1, <2>2 DEF x
  <2>5. [x EXCEPT !.seen = a.seen] \in ChainState
    BY <2>3, <2>4 DEF ChainState
  <2>6. Same([x EXCEPT !.seen = a.seen], x)
    BY <2>4 DEF ChainState, Same
  <2> QED BY <2>2, <2>4, <2>5, <2>6 DEF x
<1> QED BY <1>1, <1>2

(* g[i] is the state after the first i replayed transactions.              *)
Again(g, st, ts) == g = [i \in 0..Len(ts) |-> IF i = 0 THEN st ELSE ReplayTx(g[i - 1], ts[i])]

(* The transactions of a block replayed, one after the other.              *)
LEMMA ReplayTxsIs ==
  ASSUME NEW st \in ChainState, NEW ts \in Seq(Tx)
  PROVE  \E g : /\ g[0] = st /\ ReplayTxs(st, ts) = g[Len(ts)]
                /\ \A i \in 1..Len(ts) : g[i] = ReplayTx(g[i - 1], ts[i])
                /\ \A i \in 0..Len(ts) : g[i] \in ChainState \cup {None}
<1> DEFINE n == Len(ts)
           A == 1..n
           V == ChainState \cup {None}
           H == [x \in A \X V |-> ReplayTx(x[2], ts[x[1]])]
<1>1. n \in Nat /\ \A i \in A : ts[i] \in Tx
  OBVIOUS
<1>4. H \in [A \X V -> V]
  <2> SUFFICES ASSUME NEW x \in A \X V PROVE ReplayTx(x[2], ts[x[1]]) \in V
    OBVIOUS
  <2>1. x[1] \in A /\ x[2] \in V
    OBVIOUS
  <2> HIDE DEF A, V
  <2>2. ts[x[1]] \in Tx
    BY <2>1, <1>1
  <2> QED BY <2>1, <2>2, ReplayTxFacts DEF V
<1>5. st \in V
  OBVIOUS
<1>6. PICK f \in [0..n -> V] : f[0] = st /\ \A i \in A : f[i] = H[<<i, f[i - 1]>>]
  <2>1. \E f : LoopOf(f, n, V, st, H)
    <3> HIDE DEF H, V, n
    <3> QED BY <1>1, <1>4, <1>5, LoopExists
  <2> HIDE DEF H, V, n
  <2> QED BY <2>1 DEF LoopOf
<1>7. Again(f, st, ts)
  <2>1. \A i \in A : i - 1 \in 0..n /\ i \in 0..n
    BY <1>1
  <2>3. \A i \in A : H[<<i, f[i - 1]>>] = ReplayTx(f[i - 1], ts[i])
    BY <2>1, <1>6
  <2>4. \A i \in 0..n : f[i] = IF i = 0 THEN st ELSE ReplayTx(f[i - 1], ts[i])
    <3>1. \A i \in A : f[i] = ReplayTx(f[i - 1], ts[i])
      BY <1>6, <2>3
    <3>2. \A i \in 0..n : i = 0 \/ (i # 0 /\ i \in A)
      BY <1>1
    <3> HIDE DEF A, H, V, n
    <3> QED BY <1>6, <3>1, <3>2
  <2>5. f = [i \in 0..n |-> f[i]]
    BY <1>6
  <2> HIDE DEF H, V
  <2> QED BY <2>4, <2>5 DEF Again
<1>8. ReplayTxs(st, ts) = (CHOOSE g : Again(g, st, ts))[Len(ts)]
  BY DEF ReplayTxs, Again
<1> HIDE DEF H, V
<1>9. PICK g : Again(g, st, ts) /\ ReplayTxs(st, ts) = g[n]
  BY <1>7, <1>8
<1>10. g[0] = st /\ \A i \in A : g[i] = ReplayTx(g[i - 1], ts[i])
  BY <1>1, <1>9 DEF Again
<1> HIDE DEF n
<1>11. ASSUME NEW i \in 0..n PROVE g[i] \in V
  <2> DEFINE S == {k \in 0..n : g[k] \notin V}
  <2>1. SUFFICES ASSUME S # {} PROVE FALSE
    OBVIOUS
  <2>2. S \in SUBSET Nat
    BY <1>1
  <2>3. PICK m \in S : \A k \in S : m <= k
    <3> HIDE DEF S
    <3> QED BY <2>1, <2>2, LeastNatural
  <2>4. m # 0
    BY <2>3, <1>5, <1>10
  <2>5. m \in 1..n /\ m - 1 \in 0..n /\ m \in Nat
    BY <2>3, <2>4, <1>1
  <2>6. m - 1 \notin S
    BY <2>3, <2>5
  <2>7. g[m - 1] \in V /\ ts[m] \in Tx
    BY <2>5, <2>6, <1>1
  <2>8. g[m] \in V
    BY <2>5, <2>7, <1>10, ReplayTxFacts DEF V
  <2> QED BY <2>3, <2>8
<1> QED BY <1>9, <1>10, <1>11 DEF n, V

(* They keep head and confirmations, and the ledger follows the one of a   *)
(* state they are applied to with all the checks.                          *)
LEMMA ReplayTxsFacts ==
  ASSUME NEW st \in ChainState, NEW ts \in Seq(Tx), ReplayTxs(st, ts) # None
  PROVE  /\ ReplayTxs(st, ts) \in ChainState
         /\ ReplayTxs(st, ts).head = st.head /\ ReplayTxs(st, ts).lib = st.lib
         /\ ReplayTxs(st, ts).conf = st.conf
         /\ \A rp \in ChainState : Same(st, rp) /\ ApplyTxs(rp, ts) # None
                                     => Same(ReplayTxs(st, ts), ApplyTxs(rp, ts))
<1> DEFINE n == Len(ts)
<1>1. n \in Nat /\ \A i \in 1..n : ts[i] \in Tx
  OBVIOUS
<1>2. PICK g : /\ g[0] = st /\ ReplayTxs(st, ts) = g[n]
               /\ \A i \in 1..n : g[i] = ReplayTx(g[i - 1], ts[i])
               /\ \A i \in 0..n : g[i] \in ChainState \cup {None}
  BY ReplayTxsIs
<1> HIDE DEF n
<1>3. ASSUME NEW i \in 1..n, g[i] # None
      PROVE  g[i - 1] \in ChainState /\ Same(g[i], ApplyTx(g[i - 1], ts[i])) /\ g[i - 1] # None
  <2>1. i - 1 \in 0..n /\ ts[i] \in Tx
    BY <1>1
  <2>2. g[i - 1] \in ChainState /\ Same(ReplayTx(g[i - 1], ts[i]), ApplyTx(g[i - 1], ts[i]))
    BY <2>1, <1>2, <1>3, ReplayTxFacts
  <2> QED BY <2>2, <1>2, NoneAssumption
<1>4. ASSUME NEW i \in 0..n PROVE g[i] \in ChainState
  <2> DEFINE U == {k \in 0..n : i <= k /\ g[k] # None}
  <2>1. SUFFICES ASSUME g[i] = None PROVE FALSE
    BY <1>2
  <2>2. U \in SUBSET Nat /\ n \in U
    BY <1>1, <1>2
  <2>3. PICK m \in U : \A k \in U : m <= k
    <3> HIDE DEF U
    <3> QED BY <2>2, LeastNatural
  <2>4. m # i /\ m \in 1..n /\ m - 1 \in 0..n /\ i <= m - 1 /\ m \in Nat
    BY <2>1, <2>3, <1>1
  <2>5. m - 1 \notin U
    BY <2>3, <2>4
  <2>6. g[m - 1] = None
    BY <2>4, <2>5
  <2>7. g[m] = None
    BY <2>4, <2>6, <1>3
  <2> QED BY <2>3, <2>7
<1>5. \A i \in 1..n : /\ ts[i] \in Tx /\ g[i - 1] \in ChainState /\ g[i] \in ChainState
                      /\ Same(g[i], ApplyTx(g[i - 1], ts[i]))
  <2> SUFFICES ASSUME NEW i \in 1..n
               PROVE  /\ ts[i] \in Tx /\ g[i - 1] \in ChainState /\ g[i] \in ChainState
                      /\ Same(g[i], ApplyTx(g[i - 1], ts[i]))
    OBVIOUS
  <2>1. i \in 0..n
    BY <1>1
  <2>2. g[i] \in ChainState /\ g[i] # None
    BY <2>1, <1>4, NoneAssumption
  <2> QED BY <2>2, <1>1, <1>3
<1>6. ASSUME NEW i \in 0..n PROVE g[i].head = st.head /\ g[i].lib = st.lib /\ g[i].conf = st.conf
  <2> DEFINE Ok(k) == g[k].head = st.head /\ g[k].lib = st.lib /\ g[k].conf = st.conf
             S == {k \in 0..n : ~Ok(k)}
  <2>1. SUFFICES ASSUME S # {} PROVE FALSE
    OBVIOUS
  <2>2. S \in SUBSET Nat
    BY <1>1
  <2>3. PICK m \in S : \A k \in S : m <= k
    <3> HIDE DEF S
    <3> QED BY <2>1, <2>2, LeastNatural
  <2>4. m # 0
    BY <2>3, <1>2
  <2>5. m \in 1..n /\ m - 1 \in 0..n /\ m \in Nat
    BY <2>3, <2>4, <1>1
  <2>6. m - 1 \notin S
    BY <2>3, <2>5
  <2>7. Ok(m - 1)
    <3> HIDE DEF Ok
    <3> QED BY <2>5, <2>6
  <2> DEFINE x == g[m - 1]
             z == ApplyTx(x, ts[m])
  <2>8. x \in ChainState /\ ts[m] \in Tx /\ Same(g[m], z)
    BY <2>5, <1>5
  <2>9. z.head = x.head /\ z.lib = x.lib /\ z.conf = x.conf
    <3> HIDE DEF x
    <3> QED BY <2>8, ApplyTxFacts
  <2> HIDE DEF z
  <2>10. Ok(m)
    BY <2>7, <2>8, <2>9 DEF Same
  <2> QED BY <2>3, <2>10
<1>7. ASSUME NEW rp \in ChainState, Same(st, rp), ApplyTxs(rp, ts) # None
      PROVE  Same(ReplayTxs(st, ts), ApplyTxs(rp, ts))
  <2>1. PICK h : /\ h[0] = rp /\ h[Len(ts)] = ApplyTxs(rp, ts)
                 /\ \A i \in 0..Len(ts) : h[i] \in ChainState /\ h[i].head = rp.head
                                         /\ h[i].lib = rp.lib /\ h[i].conf = rp.conf
                 /\ \A i \in 1..Len(ts) : ts[i] \in Tx /\ TxApplies(h[i - 1], ts[i])
                                         /\ h[i] = ApplyTx(h[i - 1], ts[i])
    BY <1>7, TxsLoop
  <2>2. h[n] = ApplyTxs(rp, ts) /\ (\A i \in 0..n : h[i] \in ChainState)
        /\ \A i \in 1..n : h[i] = ApplyTx(h[i - 1], ts[i])
    BY <2>1 DEF n
  <2> DEFINE S == {k \in 0..n : ~Same(g[k], h[k])}
  <2>3. S = {}
    <3>1. SUFFICES ASSUME S # {} PROVE FALSE
      OBVIOUS
    <3>2. S \in SUBSET Nat
      BY <1>1
    <3>3. PICK m \in S : \A k \in S : m <= k
      <4> HIDE DEF S
      <4> QED BY <3>1, <3>2, LeastNatural
    <3>4. m # 0
      BY <3>3, <1>2, <1>7, <2>1
    <3>5. m \in 1..n /\ m - 1 \in 0..n /\ m \in Nat
      BY <3>3, <3>4, <1>1
    <3>6. m - 1 \notin S
      BY <3>3, <3>5
    <3> DEFINE x == g[m - 1]
               z == h[m - 1]
               t == ts[m]
    <3>7. Same(x, z) /\ x \in ChainState /\ z \in ChainState /\ t \in Tx
          /\ Same(g[m], ApplyTx(x, t)) /\ h[m] = ApplyTx(z, t)
      BY <3>5, <3>6, <2>2, <1>5
    <3> HIDE DEF x, z, t
    <3>8. Same(ApplyTx(x, t), ApplyTx(z, t))
      BY <3>7, SameTx
    <3>9. Same(g[m], h[m])
      <4> DEFINE p == ApplyTx(x, t)
                 q == ApplyTx(z, t)
      <4>1. Same(g[m], p) /\ Same(p, q) /\ h[m] = q
        BY <3>7, <3>8
      <4> HIDE DEF p, q
      <4> QED BY <4>1 DEF Same
    <3> QED BY <3>3, <3>9
  <2>4. n \in 0..n
    BY <1>1
  <2>5. Same(g[n], h[n])
    BY <2>3, <2>4
  <2> QED BY <2>2, <2>5, <1>2
<1>8. n \in 0..n
  BY <1>1
<1> QED BY <1>2, <1>4, <1>6, <1>7, <1>8

(* apply_block as reindex calls it.                                        *)
LEMMA ReplayBlockFacts ==
  ASSUME NEW st \in ChainState, Level(st), NEW b, ReplayBlock(st, b) # None
  PROVE  LET y == ReplayBlock(st, b)
         IN  /\ b \in Block /\ Prev[b] = st.head /\ Num[b] = Num[st.head] + 1
             /\ y \in ChainState /\ Level(y) /\ y.head = b
             /\ Replay[b] # None /\ Same(st, Replay[st.head]) => Same(y, Replay[b])
<1> DEFINE y == ReplayBlock(st, b)
           a == ReplayTxs(st, Txs[b])
<1>1. b \in Valid /\ Prev[b] = st.head /\ a # None /\ y = Finish(a, b)
  BY DEF ReplayBlock, Finish
<1>2. b \in Block /\ Txs[b] \in Seq(Tx)
  BY <1>1, BlockAssumption DEF Node
<1>3. Num[b] = Num[st.head] + 1 /\ st.head \in Node
  BY <1>1, <1>2, NumFacts DEF ChainState
<1>4. /\ a \in ChainState /\ a.head = st.head /\ a.lib = st.lib /\ a.conf = st.conf
      /\ \A rp \in ChainState : Same(st, rp) /\ ApplyTxs(rp, Txs[b]) # None
                                  => Same(a, ApplyTxs(rp, Txs[b]))
  <2>1. ReplayTxs(st, Txs[b]) # None
    BY <1>1
  <2> QED BY <2>1, <1>2, ReplayTxsFacts
<1> HIDE DEF a, y
<1>5. Level(a)
  BY <1>4 DEF Level
<1>6. y \in ChainState /\ Level(y) /\ y.head = b
  BY ZenonT(60), <1>1, <1>2, <1>4, <1>5, FinishFacts
<1>7. ASSUME Replay[b] # None, Same(st, Replay[st.head]) PROVE Same(y, Replay[b])
  <2> DEFINE rp == Replay[st.head]
             c == ApplyTxs(rp, Txs[b])
  <2>1. rp # None /\ Replay[b] = ApplyBlock(rp, b)
    BY <1>1, <1>2, <1>7, ReplayFacts
  <2>2. rp \in ChainState /\ Level(rp) /\ rp.head = st.head
    BY <2>1, <1>3, ReplayTraced
  <2> HIDE DEF rp
  <2>3. c # None /\ c \in ChainState /\ Replay[b] = Finish(c, b)
    BY <2>1, <2>2, <1>7, ApplyBlockLevel
  <2>4. Same(a, c)
    BY <2>2, <2>3, <1>4, <1>7 DEF rp
  <2> HIDE DEF c
  <2>5. Same(Finish(a, b), Finish(c, b))
    BY <2>3, <2>4, <1>1, <1>2, <1>4, <1>5, SameFinish
  <2> QED BY <2>3, <2>5, <1>1
<1> QED BY <1>1, <1>2, <1>3, <1>6, <1>7 DEF y

-----------------------------------------------------------------------------
(* The history across restarts                                             *)

(* A state the node may be in: level and, as long as no transaction is     *)
(* repeated, with the ledger of its head's chain.                          *)
Fit(st) ==
  /\ st \in ChainState /\ Level(st)
  /\ Unrepeated => Replay[st.head] # None /\ Same(st, Replay[st.head])

(* A history of such states, each at most one block above the one before.  *)
FitTrail(tr) ==
  /\ tr \in Seq(ChainState) /\ tr # <<>>
  /\ \A i \in 1..Len(tr) : Fit(tr[i])
  /\ \A i \in 1..(Len(tr) - 1) : Num[tr[i + 1].head] <= Num[tr[i].head] + 1

(* The types that go with a fit state.                                     *)
LEMMA FitTypes ==
  ASSUME NEW st, Fit(st)
  PROVE  st # None /\ st \in ChainState /\ st.head \in Node /\ st.lib \in Nat /\ Num[st.head] \in Nat
         /\ st.lib <= Num[st.head] /\ Level(st)
<1>1. st \in ChainState /\ Level(st)
  BY DEF Fit
<1>2. st.head \in Node /\ st.lib \in Nat
  BY <1>1 DEF ChainState
<1> QED BY <1>1, <1>2, NoneAssumption, NumFacts DEF Level

(* Genesis is fit.                                                         *)
LEMMA RootFit == Fit(RootState) /\ RootState.head = Root
<1>1. Counted(RootState) /\ RootState.head = Root /\ RootState \in ChainState /\ RootState # None
  BY RootCounted, CountedNotNone
<1>2. Replay[Root] = RootState
  BY ReplayFacts
<1> HIDE DEF RootState
<1>3. Level(RootState) /\ Same(RootState, RootState)
  BY <1>1 DEF Counted, Level, Same
<1> QED BY <1>1, <1>2, <1>3 DEF Fit

(* A block leads from a fit state to a fit state.                          *)
LEMMA FitNext ==
  ASSUME NEW st, Fit(st), NEW b, ApplyBlock(st, b) # None
  PROVE  /\ Fit(ApplyBlock(st, b)) /\ ApplyBlock(st, b).head = b
         /\ b \in Block /\ Num[b] = Num[st.head] + 1
         /\ Unrepeated => Replay[b] # None
<1>1. st \in ChainState /\ Level(st)
  BY FitTypes
<1> DEFINE y == ApplyBlock(st, b)
<1>2. b \in Block /\ Num[b] = Num[st.head] + 1 /\ y \in ChainState /\ Level(y) /\ y.head = b
  BY <1>1, ApplyBlockLevel
<1>3. Unrepeated => Replay[b] # None /\ Same(y, Replay[b])
  BY <1>1, LedgerNext DEF Fit
<1> HIDE DEF y
<1>4. Fit(y)
  BY <1>2, <1>3 DEF Fit
<1> QED BY <1>2, <1>3, <1>4 DEF y

(* The last state of a fit history.                                        *)
LEMMA FitTrailTypes ==
  ASSUME NEW tr, FitTrail(tr)
  PROVE  /\ tr \in Seq(ChainState) /\ tr # <<>> /\ Len(tr) \in Nat /\ Len(tr) >= 1
         /\ Last(tr) = tr[Len(tr)] /\ Len(tr) \in 1..Len(tr) /\ Fit(Last(tr))
<1>1. tr \in Seq(ChainState) /\ tr # <<>> /\ \A i \in 1..Len(tr) : Fit(tr[i])
  BY DEF FitTrail
<1>2. Len(tr) \in Nat /\ Len(tr) >= 1
  BY <1>1
<1>3. Last(tr) = tr[Len(tr)] /\ Len(tr) \in 1..Len(tr)
  BY <1>2 DEF Last
<1> QED BY <1>1, <1>2, <1>3

(* Its ends are fit.                                                       *)
LEMMA FitSuffix ==
  ASSUME NEW tr, FitTrail(tr), NEW m \in Int, NEW u, Suffix(u, tr, m)
  PROVE  FitTrail(u) /\ Last(u) = Last(tr)
<1>1. /\ u \in Seq(ChainState) /\ Len(u) \in 1..Len(tr)
      /\ \A i \in 1..Len(u) : u[i] = tr[i + (Len(tr) - Len(u))]
  BY DEF Suffix
<1>2. Len(tr) \in Nat
  BY FitTrailTypes
<1> DEFINE d == Len(tr) - Len(u)
<1>3. d \in Nat /\ Len(u) \in Nat /\ Len(u) + d = Len(tr) /\ Len(u) >= 1
  BY <1>1, <1>2
<1>4. \A i \in 1..Len(u) : u[i] = tr[i + d]
  BY <1>1
<1> HIDE DEF d
<1>5. ASSUME NEW i \in 1..Len(u) PROVE Fit(u[i])
  <2>1. i + d \in 1..Len(tr)
    BY <1>3
  <2> QED BY <2>1, <1>4 DEF FitTrail
<1>6. ASSUME NEW i \in 1..(Len(u) - 1) PROVE Num[u[i + 1].head] <= Num[u[i].head] + 1
  <2> DEFINE j == i + d
  <2>1. j \in 1..(Len(tr) - 1) /\ i \in 1..Len(u) /\ i + 1 \in 1..Len(u) /\ (i + 1) + d = j + 1
    BY <1>3
  <2>2. u[i] = tr[j] /\ u[i + 1] = tr[j + 1]
    BY <2>1, <1>4
  <2> HIDE DEF j
  <2> QED BY <2>1, <2>2 DEF FitTrail
<1>7. u # <<>> /\ Last(u) = Last(tr)
  BY SuffixFacts
<1> QED BY <1>1, <1>5, <1>6, <1>7 DEF FitTrail

(* A state that is at most one block higher can follow.                    *)
LEMMA FitExtend ==
  ASSUME NEW tr, FitTrail(tr), NEW y, Fit(y), Num[y.head] <= Num[Last(tr).head] + 1
  PROVE  FitTrail(Append(tr, y)) /\ Last(Append(tr, y)) = y
<1> DEFINE w == Append(tr, y)
           L == Len(tr)
<1>1. tr \in Seq(ChainState) /\ L \in Nat /\ L >= 1 /\ Last(tr) = tr[L]
      /\ (\A i \in 1..L : Fit(tr[i])) /\ \A i \in 1..(L - 1) : Num[tr[i + 1].head] <= Num[tr[i].head] + 1
  BY FitTrailTypes DEF FitTrail
<1>2. y \in ChainState
  BY FitTypes
<1>3. w \in Seq(ChainState) /\ w # <<>> /\ Len(w) = L + 1 /\ w[L + 1] = y /\ Last(w) = y
      /\ \A i \in 1..L : w[i] = tr[i]
  BY <1>1, <1>2, AppendFacts
<1> HIDE DEF w, L
<1>4. \A i \in 1..(L + 1) : i \in 1..L \/ i = L + 1
  BY <1>1
<1>5. \A i \in 1..Len(w) : Fit(w[i])
  BY <1>1, <1>3, <1>4
<1>6. ASSUME NEW i \in 1..(Len(w) - 1) PROVE Num[w[i + 1].head] <= Num[w[i].head] + 1
  <2>1. CASE i = L
    <3>1. w[i + 1] = y /\ w[i] = Last(tr)
      BY <2>1, <1>1, <1>3
    <3> QED BY <3>1
  <2>2. CASE i # L
    <3>1. i \in 1..(L - 1) /\ i \in 1..L /\ i + 1 \in 1..L
      BY <2>2, <1>1, <1>3
    <3> QED BY <3>1, <1>1, <1>3
  <2> QED BY <2>1, <2>2
<1>7. FitTrail(w)
  BY <1>3, <1>5, <1>6 DEF FitTrail
<1> QED BY <1>3, <1>7 DEF w

(* An undone session and the state it leaves.                              *)
LEMMA FitUndone ==
  ASSUME NEW w, FitTrail(w)
  PROVE  /\ Undone(w) \in Seq(ChainState)
         /\ FitTrail(Append(Undone(w), Last(w))) /\ Last(Append(Undone(w), Last(w))) = Last(w)
<1>1. w \in Seq(ChainState) /\ w # <<>> /\ Len(w) \in Nat /\ Len(w) >= 1 /\ Fit(Last(w))
  BY FitTrailTypes
<1>2. CASE Len(w) = 1
  <2>1. Undone(w) = w
    BY <1>2 DEF Undone
  <2>2. Num[Last(w).head] \in Nat
    BY <1>1, FitTypes
  <2>3. Num[Last(w).head] <= Num[Last(w).head] + 1
    BY <2>2
  <2> QED BY <2>1, <2>3, <1>1, FitExtend
<1>3. CASE Len(w) # 1
  <2>1. Undone(w) = Front(w)
    BY <1>3 DEF Undone
  <2>2. Front(w) \in Seq(ChainState) /\ Append(Front(w), Last(w)) = w
    BY <1>1, FrontFacts
  <2> QED BY <2>1, <2>2
<1> QED BY <1>2, <1>3

(* pop_block takes the newest state off.                                   *)
LEMMA FitFront ==
  ASSUME NEW u \in Seq(ChainState), u # <<>>, NEW st \in ChainState, FitTrail(Append(u, st))
  PROVE  /\ FitTrail(u) /\ Front(u) \in Seq(ChainState) /\ Append(Front(u), Last(u)) = u
         /\ Num[st.head] <= Num[Last(u).head] + 1
<1> DEFINE w == Append(u, st)
           L == Len(u)
<1>1. w \in Seq(ChainState) /\ Len(w) = L + 1 /\ w[L + 1] = st /\ \A i \in 1..L : w[i] = u[i]
  BY AppendFacts
<1>2. L \in Nat /\ L >= 1 /\ Last(u) = u[L]
  BY DEF Last
<1>3. FitTrail(w)
  OBVIOUS
<1> HIDE DEF w, L
<1>4. \A i \in 1..L : i \in 1..Len(w)
  BY <1>1, <1>2
<1>5. \A i \in 1..L : Fit(u[i])
  BY <1>1, <1>3, <1>4 DEF FitTrail
<1>6. ASSUME NEW i \in 1..(L - 1) PROVE Num[u[i + 1].head] <= Num[u[i].head] + 1
  <2>1. i \in 1..(Len(w) - 1) /\ i \in 1..L /\ i + 1 \in 1..L
    BY <1>1, <1>2
  <2> QED BY <2>1, <1>1, <1>3 DEF FitTrail
<1>7. Num[st.head] <= Num[Last(u).head] + 1
  <2>1. L \in 1..(Len(w) - 1) /\ L \in 1..L
    BY <1>1, <1>2
  <2>2. Num[w[L + 1].head] <= Num[w[L].head] + 1
    BY <2>1, <1>3 DEF FitTrail
  <2> QED BY <2>1, <2>2, <1>1, <1>2
<1>8. FitTrail(u)
  BY <1>5, <1>6 DEF FitTrail, L
<1> QED BY <1>7, <1>8, FrontFacts

(* The node's part of the invariant across restarts.                       *)
NodeInv == TypeInv /\ s \in ChainState /\ FitTrail(Trail)

(* Every stored block was applied once.                                    *)
BlocksOk(f) ==
  /\ DOMAIN f = 0..MaxNum
  /\ \A n \in 0..MaxNum :
       /\ "data" \in DOMAIN f[n]
       /\ f[n].data # None => (Unrepeated => Replay[f[n].data] # None)

(* Storing a block that was applied.                                       *)
LEMMA StoreOk ==
  ASSUME BlocksOk(bdb), NEW b, Unrepeated => Replay[b] # None, NEW id
  PROVE  BlocksOk(Store(id, b))
<1> DEFINE r == [id |-> id, data |-> b]
           f == Store(id, b)
<1>1. "data" \in DOMAIN r /\ r.data = b
  OBVIOUS
<1> HIDE DEF r
<1>2. DOMAIN bdb = 0..MaxNum /\ f = [bdb EXCEPT ![Num[id]] = r]
  BY DEF BlocksOk, Store, r
<1>3. DOMAIN f = 0..MaxNum /\ \A n \in 0..MaxNum : f[n] = r \/ f[n] = bdb[n]
  BY <1>2
<1> HIDE DEF f
<1>4. BlocksOk(f)
  BY <1>1, <1>3 DEF BlocksOk
<1> QED BY <1>4 DEF f

(* Removing one.                                                           *)
LEMMA RemovedOk ==
  ASSUME BlocksOk(bdb), NEW id
  PROVE  BlocksOk(Removed(id))
<1>1. CASE bdb[Num[id]].id # id
  BY <1>1 DEF Removed
<1>2. CASE bdb[Num[id]].id = id
  <2> DEFINE k == Num[id]
             r == [bdb[k] EXCEPT !.data = None]
             f == Removed(id)
  <2>1. DOMAIN bdb = 0..MaxNum /\ \A n \in 0..MaxNum : "data" \in DOMAIN bdb[n]
    BY DEF BlocksOk
  <2>2. f = [bdb EXCEPT ![k] = r]
    BY <1>2 DEF Removed
  <2>3. k \in 0..MaxNum => "data" \in DOMAIN r /\ r.data = None
    <3> HIDE DEF k
    <3> SUFFICES ASSUME k \in 0..MaxNum PROVE "data" \in DOMAIN r /\ r.data = None
      OBVIOUS
    <3>1. "data" \in DOMAIN bdb[k]
      BY <2>1
    <3> QED BY <3>1
  <2> HIDE DEF r, k
  <2>4. DOMAIN f = 0..MaxNum /\ \A n \in 0..MaxNum : (f[n] = r /\ n = k) \/ f[n] = bdb[n]
    BY <2>1, <2>2
  <2> HIDE DEF f
  <2>5. BlocksOk(f)
    BY <2>3, <2>4 DEF BlocksOk
  <2> QED BY <2>5 DEF f
<1> QED BY <1>1, <1>2

(* The state and the history once the pending session is gone.             *)
LEMMA FitBase ==
  ASSUME NodeInv
  PROVE  /\ BaseUndo \in Seq(ChainState) /\ BaseState = Last(Trail)
         /\ BaseState \in ChainState /\ Fit(BaseState)
         /\ FitTrail(Append(BaseUndo, BaseState))
         /\ Last(Append(BaseUndo, BaseState)) = BaseState
<1>1. undo \in Seq(ChainState) /\ psess \in BOOLEAN /\ s \in ChainState /\ FitTrail(Trail)
  BY DEF NodeInv, TypeInv
<1>2. Fit(Last(Trail)) /\ Last(Trail) \in ChainState
  BY <1>1, FitTrailTypes, FitTypes
<1>3. CASE psess
  <2>1. Trail = undo /\ BaseState = Last(undo) /\ BaseUndo = Undone(undo)
    BY <1>3 DEF Trail, BaseState, BaseUndo
  <2> QED BY <2>1, <1>1, <1>2, FitUndone
<1>4. CASE ~psess
  <2>1. Trail = Append(undo, s) /\ BaseState = s /\ BaseUndo = undo
    BY <1>4 DEF Trail, BaseState, BaseUndo
  <2>2. Last(Trail) = s
    BY <2>1, <1>1, AppendFacts
  <2> QED BY <2>1, <2>2, <1>1, <1>2
<1> QED BY <1>1, <1>3, <1>4

(* The sessions of _generate_block.                                        *)
LEMMA FitGenerate ==
  ASSUME NodeInv
  PROVE  /\ GenerateUndo \in Seq(ChainState)
         /\ FitTrail(Append(GenerateUndo, BaseState))
<1> DEFINE B == BaseState
           T == Append(BaseUndo, B)
<1>1. BaseUndo \in Seq(ChainState) /\ B \in ChainState /\ FitTrail(T) /\ Last(T) = B /\ TypeInv
  BY FitBase DEF NodeInv
<1>2. usize - 1 \in Int
  BY <1>1 DEF TypeInv
<1>3. PICK w : GenerateUndo = Undone(w) /\ Suffix(w, T, usize - 1)
  BY <1>1, GenerateSuffix
<1> HIDE DEF B, T
<1>4. FitTrail(w) /\ Last(w) = B
  BY <1>1, <1>2, <1>3, FitSuffix
<1>5. Undone(w) \in Seq(ChainState) /\ FitTrail(Append(Undone(w), B))
  BY <1>4, FitUndone
<1> QED BY <1>3, <1>5 DEF B

(* push_block up to the answer of the fork database.                       *)
LEMMA FitPush ==
  ASSUME NodeInv, NEW b, NEW u \in Seq(ChainState), FitTrail(Append(u, BaseState)), Push(b, u)
  PROVE  NodeInv' /\ bdb' = bdb /\ pc' \notin {"closing", "flush"}
<1>1. /\ s' = BaseState /\ undo' = u /\ psess' = FALSE /\ pending' = <<>>
      /\ usize' = usize /\ irr' = irr /\ popped' = popped /\ bdb' = bdb
  BY DEF Push, ClearPending
<1>2. op'.kept = pending /\ op'.was = s.seen /\ OpFields \subseteq DOMAIN op'
      /\ pc' \in {"requeue", "direct", "pop"}
  BY PushOp
<1>3. BaseState \in ChainState
  BY FitBase
<1>4. s.seen \in SUBSET Tx
  BY DEF NodeInv, ChainState
<1>5. TypeInv'
  <2>1. usize \in Nat /\ usize >= 2 /\ irr \in Nat /\ pending \in Seq(Tx) /\ popped \in Seq(Tx)
    BY DEF NodeInv, TypeInv
  <2>2. op'.kept \in Seq(Tx) /\ op'.was \in SUBSET Tx
    BY <2>1, <1>2, <1>4
  <2>3. pending' \in Seq(Tx)
    BY <1>1, EmptySeq
  <2>4. psess' \in BOOLEAN /\ ~psess'
    BY <1>1, Zenon
  <2> QED BY <2>1, <2>2, <2>3, <2>4, <1>1, <1>2 DEF TypeInv, Places
<1>6. Trail' = Append(u, BaseState)
  BY <1>1 DEF Trail
<1> QED BY <1>1, <1>2, <1>3, <1>5, <1>6 DEF NodeInv

(* _push_transaction.                                                      *)
LEMMA FitPushTx ==
  ASSUME NodeInv, NEW t \in Tx, PushTx(t)
  PROVE  /\ psess' = TRUE /\ undo' \in Seq(ChainState) /\ undo' # <<>>
         /\ pending' \in Seq(Tx) /\ s' \in ChainState /\ FitTrail(Trail')
<1>1. TypeInv /\ s \in ChainState /\ FitTrail(Trail)
  BY DEF NodeInv
<1>2. usize - 1 \in Int /\ pending \in Seq(Tx)
  BY <1>1 DEF TypeInv
<1>3. psess' = TRUE /\ undo' \in Seq(ChainState) /\ Suffix(undo', Trail, usize - 1)
  BY <1>1, PushTxHistory
<1>4. FitTrail(undo') /\ undo' # <<>>
  BY <1>1, <1>2, <1>3, FitSuffix, SuffixFacts
<1>5. Trail' = undo'
  BY <1>3 DEF Trail
<1>6. CASE TxApplies(s, t)
  <2>1. s' = ApplyTx(s, t) /\ pending' = Append(pending, t)
    BY <1>6 DEF PushTx
  <2>2. ApplyTx(s, t) \in ChainState /\ Append(pending, t) \in Seq(Tx)
    BY <1>1, <1>2, ApplyTxFacts, AppendFacts
  <2> QED BY <2>1, <2>2, <1>3, <1>4, <1>5
<1>7. CASE ~TxApplies(s, t)
  <2>1. s' = s /\ pending' = pending
    BY <1>7 DEF PushTx
  <2> QED BY <2>1, <1>1, <1>2, <1>3, <1>4, <1>5
<1> QED BY <1>6, <1>7

(* The state while blocks are applied.                                     *)
LEMMA FitPlain ==
  ASSUME NodeInv, ~psess
  PROVE  Trail = Append(undo, s) /\ Last(Trail) = s /\ Fit(s) /\ undo \in Seq(ChainState) /\ s \in ChainState
<1>1. Trail = Append(undo, s) /\ BaseState = s
  BY DEF Trail, BaseState
<1>2. undo \in Seq(ChainState)
  BY DEF NodeInv, TypeInv
<1> QED BY <1>1, <1>2, FitBase DEF NodeInv

(* What a step of push_block without pending transactions has to provide.  *)
LEMMA FitStep ==
  ASSUME NodeInv, ~psess, UNCHANGED <<psess, pending>>,
         undo' \in Seq(ChainState), usize' \in Nat, usize' >= 2, irr' \in Nat,
         popped' \in Seq(Tx), op'.kept = op.kept, op'.was = op.was, OpFields \subseteq DOMAIN op',
         pc' \in Places, s' \in ChainState, FitTrail(Append(undo', s'))
  PROVE  NodeInv'
<1>1. pending \in Seq(Tx) /\ op.kept \in Seq(Tx) /\ op.was \in SUBSET Tx /\ psess \in BOOLEAN
  BY DEF NodeInv, TypeInv
<1>2. TypeInv'
  BY <1>1 DEF TypeInv
<1>3. Trail' = Append(undo', s')
  BY DEF Trail
<1> QED BY <1>2, <1>3 DEF NodeInv

(* A block that applies.                                                   *)
LEMMA FitApply ==
  ASSUME NodeInv, ~psess, NEW b, ApplyBlock(s, b) # None, s' = ApplyBlock(s, b),
         usize' = Num[b] - s.lib + 1, NoteLib(ApplyBlock(s, b)),
         \/ undo' = Opened(undo, usize, s)
         \/ undo' = Trim(Opened(undo, usize, s), Num[b] - s.lib + 1)
  PROVE  /\ undo' \in Seq(ChainState) /\ usize' \in Nat /\ usize' >= 2 /\ irr' \in Nat
         /\ s' \in ChainState /\ FitTrail(Append(undo', s'))
         /\ Unrepeated => Replay[b] # None
<1> DEFINE y == ApplyBlock(s, b)
           o == Opened(undo, usize, s)
           n == Num[b] - s.lib + 1
<1>1. usize \in Nat /\ usize >= 2 /\ irr \in Nat /\ FitTrail(Trail)
  BY DEF NodeInv, TypeInv
<1>2. Trail = Append(undo, s) /\ Last(Trail) = s /\ Fit(s) /\ s \in ChainState /\ undo \in Seq(ChainState)
  BY FitPlain
<1>3. Fit(y) /\ y.head = b /\ b \in Block /\ Num[b] = Num[s.head] + 1 /\ (Unrepeated => Replay[b] # None)
  BY <1>2, FitNext
<1> HIDE DEF y
<1>4. y \in ChainState /\ y.lib \in Nat /\ s.lib \in Nat /\ Num[s.head] \in Nat /\ s.lib <= Num[s.head]
  BY <1>2, <1>3, FitTypes
<1>5. n \in Nat /\ n >= 2 /\ usize' = n
  BY <1>3, <1>4
<1> HIDE DEF n
<1>6. irr' \in Nat
  BY <1>1, <1>4 DEF NoteLib, y
<1>7. Suffix(o, Trail, 0)
  <2>1. 0 <= usize + 1
    BY <1>1
  <2> QED BY <2>1, <1>1, <1>2, OpenedSuffix
<1> HIDE DEF o
<1>8. Suffix(undo', Trail, 0)
  <2>1. CASE undo' = o
    BY <2>1, <1>7
  <2>2. CASE undo' = Trim(o, n)
    <3>1. o \in Seq(ChainState) /\ o # <<>>
      BY <1>7, SuffixFacts
    <3>2. n >= 1 /\ 0 <= n
      BY <1>5
    <3>3. Suffix(Trim(o, n), o, 0)
      BY <3>1, <3>2, <1>5, TrimSuffix
    <3>4. Suffix(Trim(o, n), Trail, 0)
      BY <3>3, <1>7, SuffixTrans
    <3> QED BY <2>2, <3>4
  <2> QED BY <2>1, <2>2 DEF n, o
<1>9. FitTrail(undo') /\ Last(undo') = s /\ undo' \in Seq(ChainState)
  BY <1>1, <1>2, <1>8, FitSuffix, SuffixFacts
<1>10. Num[y.head] <= Num[Last(undo').head] + 1
  BY <1>3, <1>4, <1>9
<1>11. FitTrail(Append(undo', y))
  BY <1>3, <1>9, <1>10, FitExtend
<1> QED BY <1>3, <1>4, <1>5, <1>6, <1>9, <1>11 DEF y

(* A block that throws.                                                    *)
LEMMA FitFailed ==
  ASSUME NodeInv, ~psess, s' = s, undo' = Undone(Opened(undo, usize, s))
  PROVE  undo' \in Seq(ChainState) /\ FitTrail(Append(undo', s'))
<1> DEFINE o == Opened(undo, usize, s)
<1>1. usize \in Nat /\ FitTrail(Trail)
  BY DEF NodeInv, TypeInv
<1>2. Trail = Append(undo, s) /\ Last(Trail) = s /\ s \in ChainState /\ undo \in Seq(ChainState)
  BY FitPlain
<1>3. Suffix(o, Trail, 0)
  <2>1. 0 <= usize + 1
    BY <1>1
  <2> QED BY <2>1, <1>1, <1>2, OpenedSuffix
<1> HIDE DEF o
<1>4. FitTrail(o) /\ Last(o) = s
  BY <1>1, <1>2, <1>3, FitSuffix
<1>5. Undone(o) \in Seq(ChainState) /\ FitTrail(Append(Undone(o), s))
  BY <1>4, FitUndone
<1> QED BY <1>5 DEF o

(* pop_block, whether it throws or not.                                    *)
LEMMA FitPop ==
  ASSUME NodeInv, BlocksOk(bdb), ~psess, UNCHANGED <<psess, pending, usize, irr>>,
         NEW next \in Places, NEW thrown \in Places, PopBlock(next, thrown)
  PROVE  /\ NodeInv' /\ BlocksOk(bdb') /\ pc' \in {next, thrown}
         /\ s' = s \/ Num[s.head] <= Num[s'.head] + 1
         /\ op' = op \/ op' = [op EXCEPT !.threw = TRUE]
<1>1. usize \in Nat /\ usize >= 2 /\ irr \in Nat /\ popped \in Seq(Tx) /\ OpFields \subseteq DOMAIN op
  BY DEF NodeInv, TypeInv
<1>2. Trail = Append(undo, s) /\ s \in ChainState /\ undo \in Seq(ChainState) /\ FitTrail(Append(undo, s))
  BY FitPlain DEF NodeInv
<1>3. BlocksOk(bdb')
  <2>1. bdb' = bdb \/ bdb' = Removed(s.head)
    BY DEF PopBlock
  <2> QED BY <2>1, RemovedOk
<1>4. \/ UNCHANGED <<s, undo, popped>> /\ op' = [op EXCEPT !.threw = TRUE] /\ pc' = thrown
      \/ /\ undo # <<>> /\ s' = Last(undo) /\ undo' = Front(undo)
         /\ popped' = Txs[s.head] \o popped /\ op' = op /\ pc' = next
  BY DEF PopBlock, KeepPopped
<1>5. CASE UNCHANGED <<s, undo, popped>> /\ op' = [op EXCEPT !.threw = TRUE] /\ pc' = thrown
  <2>1. op'.kept = op.kept /\ op'.was = op.was /\ OpFields \subseteq DOMAIN op'
    BY <1>1, <1>5, OpUpdates
  <2>2. NodeInv'
    BY <2>1, <1>1, <1>2, <1>5, FitStep
  <2> QED BY <2>2, <1>3, <1>5
<1>6. CASE /\ undo # <<>> /\ s' = Last(undo) /\ undo' = Front(undo)
           /\ popped' = Txs[s.head] \o popped /\ op' = op /\ pc' = next
  <2>1. FitTrail(undo) /\ Front(undo) \in Seq(ChainState) /\ Append(Front(undo), Last(undo)) = undo
        /\ Num[s.head] <= Num[Last(undo).head] + 1
    BY <1>2, <1>6, FitFront
  <2>2. Last(undo) \in ChainState
    BY <2>1, FitTrailTypes, FitTypes
  <2>3. Txs[s.head] \in Seq(Tx)
    BY <1>2, BlockAssumption DEF ChainState
  <2>4. popped' \in Seq(Tx)
    BY <2>3, <1>1, <1>6, ConcatSet
  <2>5. FitTrail(Append(undo', s')) /\ undo' \in Seq(ChainState) /\ s' \in ChainState
    BY <2>1, <2>2, <1>6
  <2>6. NodeInv'
    BY <2>4, <2>5, <1>1, <1>6, FitStep
  <2> QED BY <2>1, <2>6, <1>3, <1>6
<1> QED BY <1>4, <1>5, <1>6

(* Steps that change neither state nor history.                            *)
LEMMA FitMoveOn ==
  ASSUME NodeInv, ~psess, UNCHANGED <<dbvars, psess, pending, popped, op>>, pc' \in Places
  PROVE  NodeInv'
<1>1. s' = s /\ undo' = undo /\ usize' = usize /\ irr' = irr /\ popped' = popped /\ op' = op
      /\ psess' = psess /\ pending' = pending
  BY DEF dbvars
<1>2. undo \in Seq(ChainState) /\ usize \in Nat /\ usize >= 2 /\ irr \in Nat /\ popped \in Seq(Tx)
      /\ OpFields \subseteq DOMAIN op /\ s \in ChainState
  BY DEF NodeInv, TypeInv
<1>3. FitTrail(Append(undo, s))
  BY FitPlain DEF NodeInv
<1> QED BY <1>1, <1>2, <1>3, FitStep

(* What the steps of push_block keep.                                      *)
StepKeeps == NodeInv' /\ BlocksOk(bdb') /\ pc' \notin {"closing", "flush"}

(* A block applied, and stored under some id.                              *)
LEMMA FitBlock ==
  ASSUME NodeInv, BlocksOk(bdb), ~psess, UNCHANGED <<psess, pending, popped>>,
         NEW b, NEW id, ApplyBlock(s, b) # None, s' = ApplyBlock(s, b),
         SetSizes(Num[b] - s.lib + 1), NoteLib(ApplyBlock(s, b)), bdb' = Store(id, b),
         \/ undo' = Opened(undo, usize, s)
         \/ undo' = Trim(Opened(undo, usize, s), Num[b] - s.lib + 1),
         op'.kept = op.kept, op'.was = op.was, OpFields \subseteq DOMAIN op',
         pc' \in {"requeue", "apply", "restore"}
  PROVE  StepKeeps
<1>1. usize' = Num[b] - s.lib + 1
  BY DEF SetSizes
<1>2. /\ undo' \in Seq(ChainState) /\ usize' \in Nat /\ usize' >= 2 /\ irr' \in Nat
      /\ s' \in ChainState /\ FitTrail(Append(undo', s'))
      /\ Unrepeated => Replay[b] # None
  BY <1>1, FitApply
<1>3. BlocksOk(bdb')
  BY <1>2, StoreOk
<1>4. popped' \in Seq(Tx) /\ pc' \in Places
  BY DEF NodeInv, TypeInv, Places
<1>5. NodeInv'
  BY <1>2, <1>4, FitStep
<1> QED BY <1>3, <1>5 DEF StepKeeps

(* Steps of push_block: the block on top of the head.                      *)
LEMMA FitDirect ==
  ASSUME NodeInv, BlocksOk(bdb), ApplyDirect
  PROVE  StepKeeps
<1> DEFINE b == op.new
<1>1. pc = "direct" /\ pc' = "requeue" /\ UNCHANGED <<psess, pending, popped>>
  BY DEF ApplyDirect
<1>2. ~psess /\ usize \in Nat /\ usize >= 2 /\ irr \in Nat /\ popped \in Seq(Tx)
      /\ OpFields \subseteq DOMAIN op /\ s \in ChainState
  BY <1>1 DEF NodeInv, TypeInv
<1>3. CASE ApplyBlock(s, b) # None
  <2>1. /\ s' = ApplyBlock(s, b) /\ SetSizes(Num[b] - s.lib + 1) /\ NoteLib(ApplyBlock(s, b))
        /\ undo' = Trim(Opened(undo, usize, s), Num[b] - s.lib + 1) /\ op' = op
        /\ bdb' = Store(b, b)
    BY <1>3 DEF ApplyDirect
  <2> HIDE DEF b
  <2> QED BY <2>1, <1>1, <1>2, <1>3, FitBlock
<1>4. CASE ApplyBlock(s, b) = None
  <2>1. /\ undo' = Undone(Opened(undo, usize, s)) /\ op' = [op EXCEPT !.threw = TRUE]
        /\ UNCHANGED <<s, usize, irr>> /\ bdb' = bdb
    BY <1>4 DEF ApplyDirect
  <2>2. op'.kept = op.kept /\ op'.was = op.was /\ OpFields \subseteq DOMAIN op'
    BY <2>1, <1>2, OpUpdates
  <2>3. undo' \in Seq(ChainState) /\ FitTrail(Append(undo', s'))
    BY <2>1, <1>2, FitFailed
  <2>4. pc' \in Places
    BY <1>1 DEF Places
  <2>5. NodeInv'
    BY <2>1, <2>2, <2>3, <2>4, <1>1, <1>2, FitStep
  <2> QED BY <2>1, <2>5, <1>1 DEF StepKeeps
<1> QED BY <1>3, <1>4

(* Popping down to the common parent, for a switch or to unwind one.       *)
LEMMA FitPopping ==
  ASSUME NodeInv, BlocksOk(bdb), PopForSwitch \/ Unwind
  PROVE  StepKeeps
<1>1. pc \in {"pop", "unwind"} /\ ~psess
  BY DEF PopForSwitch, Unwind, NodeInv, TypeInv
<1>2. \/ /\ PopBlock("pop", "requeue") \/ PopBlock("unwind", "requeue")
         /\ UNCHANGED <<psess, pending, usize, irr>>
      \/ /\ pc' \in {"apply", "restore"} /\ bdb' = bdb
         /\ UNCHANGED <<dbvars, psess, pending, popped, op>>
  BY DEF PopForSwitch, Unwind
<1>3. {"pop", "unwind", "requeue", "apply", "restore"} \subseteq Places
  BY DEF Places
<1>4. CASE PopBlock("pop", "requeue") /\ UNCHANGED <<psess, pending, usize, irr>>
  <2>1. "pop" \in Places /\ "requeue" \in Places
    BY <1>3
  <2>2. NodeInv' /\ BlocksOk(bdb') /\ pc' \in {"pop", "requeue"}
    BY <2>1, <1>1, <1>4, FitPop
  <2> QED BY <2>2 DEF StepKeeps
<1>5. CASE PopBlock("unwind", "requeue") /\ UNCHANGED <<psess, pending, usize, irr>>
  <2>1. "unwind" \in Places /\ "requeue" \in Places
    BY <1>3
  <2>2. NodeInv' /\ BlocksOk(bdb') /\ pc' \in {"unwind", "requeue"}
    BY <2>1, <1>1, <1>5, FitPop
  <2> QED BY <2>2 DEF StepKeeps
<1>6. CASE /\ pc' \in {"apply", "restore"} /\ bdb' = bdb
           /\ UNCHANGED <<dbvars, psess, pending, popped, op>>
  <2>1. pc' \in Places
    BY <1>3, <1>6
  <2>2. NodeInv'
    BY <2>1, <1>1, <1>6, FitMoveOn
  <2> QED BY <2>2, <1>6 DEF StepKeeps
<1> QED BY <1>2, <1>4, <1>5, <1>6

(* The blocks of a branch.                                                 *)
LEMMA FitBranch ==
  ASSUME NodeInv, BlocksOk(bdb), ApplyBranch
  PROVE  StepKeeps
<1> DEFINE b == Head(op.left)
<1>1. pc = "apply" /\ UNCHANGED <<psess, pending, popped>>
  BY DEF ApplyBranch
<1>2. ~psess /\ usize \in Nat /\ usize >= 2 /\ irr \in Nat /\ popped \in Seq(Tx)
      /\ OpFields \subseteq DOMAIN op /\ s \in ChainState
  BY <1>1 DEF NodeInv, TypeInv
<1>3. CASE op.left = <<>>
  <2>1. pc' = "requeue" /\ UNCHANGED <<dbvars, op>> /\ bdb' = bdb
    BY <1>3 DEF ApplyBranch
  <2>2. pc' \in Places
    BY <2>1 DEF Places
  <2>3. NodeInv'
    BY <2>1, <2>2, <1>1, <1>2, FitMoveOn
  <2> QED BY <2>1, <2>3 DEF StepKeeps
<1>4. CASE op.left # <<>> /\ ApplyBlock(s, b) # None
  <2>1. /\ s' = ApplyBlock(s, b) /\ SetSizes(Num[b] - s.lib + 1) /\ NoteLib(ApplyBlock(s, b))
        /\ undo' = Opened(undo, usize, s) /\ op' = [op EXCEPT !.left = Tail(op.left)] /\ pc' = pc
        /\ bdb' = Store(b, b)
    BY <1>4 DEF ApplyBranch
  <2>2. op'.kept = op.kept /\ op'.was = op.was /\ OpFields \subseteq DOMAIN op'
    BY <2>1, <1>2, OpUpdates
  <2> HIDE DEF b
  <2> QED BY <2>1, <2>2, <1>1, <1>2, <1>4, FitBlock
<1>5. CASE op.left # <<>> /\ ApplyBlock(s, b) = None
  <2>1. /\ undo' = Undone(Opened(undo, usize, s)) /\ pc' = "unwind"
        /\ op' = [op EXCEPT !.threw = TRUE, !.left = op.second]
        /\ s' = s /\ usize' = usize /\ irr' = irr /\ bdb' = bdb
    BY <1>5 DEF ApplyBranch
  <2>2. op'.kept = op.kept /\ op'.was = op.was /\ OpFields \subseteq DOMAIN op'
    BY <2>1, <1>2, OpUpdates
  <2>3. undo' \in Seq(ChainState) /\ FitTrail(Append(undo', s'))
    BY <2>1, <1>2, FitFailed
  <2>4. pc' \in Places
    BY <2>1 DEF Places
  <2>5. NodeInv'
    BY <2>1, <2>2, <2>3, <2>4, <1>1, <1>2, FitStep
  <2> QED BY <2>1, <2>5 DEF StepKeeps
<1> QED BY <1>3, <1>4, <1>5

(* The blocks of the old branch once more.                                 *)
LEMMA FitRestore ==
  ASSUME NodeInv, BlocksOk(bdb), Restore
  PROVE  StepKeeps
<1> DEFINE b == Head(op.left)
<1>1. pc = "restore" /\ UNCHANGED <<psess, pending, popped>>
  BY DEF Restore
<1>2. ~psess /\ OpFields \subseteq DOMAIN op
  BY <1>1 DEF NodeInv, TypeInv
<1>3. CASE op.left = <<>> \/ ApplyBlock(s, b) = None
  <2>1. pc' = "requeue" /\ UNCHANGED <<dbvars, op>> /\ bdb' = bdb
    BY <1>3 DEF Restore
  <2>2. pc' \in Places
    BY <2>1 DEF Places
  <2>3. NodeInv'
    BY <2>1, <2>2, <1>1, <1>2, FitMoveOn
  <2> QED BY <2>1, <2>3 DEF StepKeeps
<1>4. CASE ~(op.left = <<>> \/ ApplyBlock(s, b) = None)
  <2>1. /\ s' = ApplyBlock(s, b) /\ SetSizes(Num[b] - s.lib + 1) /\ NoteLib(ApplyBlock(s, b))
        /\ undo' = Opened(undo, usize, s) /\ op' = [op EXCEPT !.left = Tail(op.left)] /\ pc' = pc
        /\ bdb' = Store(op.new, b)
    BY <1>4 DEF Restore
  <2>2. op'.kept = op.kept /\ op'.was = op.was /\ OpFields \subseteq DOMAIN op'
    BY <2>1, <1>2, OpUpdates
  <2> HIDE DEF b
  <2> QED BY <2>1, <2>2, <1>1, <1>2, <1>4, FitBlock
<1> QED BY <1>3, <1>4

(* ~pending_transactions_restorer.                                         *)
LEMMA FitRequeue ==
  ASSUME NodeInv, BlocksOk(bdb), Requeue
  PROVE  StepKeeps
<1> DEFINE x == Head(ToRequeue)
<1>0. TypeInv
  BY DEF NodeInv
<1>1. pc = "requeue" /\ UNCHANGED <<usize, irr, bdb>>
  BY DEF Requeue
<1>2. CASE ToRequeue = <<>>
  <2>1. pc' = "idle" /\ op' = IdleOp /\ UNCHANGED <<s, undo, psess, pending, popped>>
    BY <1>2 DEF Requeue
  <2>2. op'.kept = <<>> /\ op'.was = {} /\ OpFields \subseteq DOMAIN op'
    BY <2>1 DEF IdleOp, OpFields
  <2>3. <<>> \in Seq(Tx)
    BY EmptySeq
  <2>4. TypeInv'
    BY <2>1, <2>2, <2>3, <1>0, <1>1 DEF TypeInv, Places
  <2>5. Trail' = Trail
    BY <2>1 DEF Trail
  <2> QED BY <2>1, <2>4, <2>5, <1>1 DEF NodeInv, StepKeeps
<1>3. CASE ToRequeue # <<>>
  <2>1. pc' = pc /\ TakeNext
    BY <1>3 DEF Requeue
  <2>2. /\ x \in Tx /\ popped' \in Seq(Tx) /\ op'.kept \in Seq(Tx) /\ op'.was = op.was
        /\ OpFields \subseteq DOMAIN op'
    BY <1>0, <1>3, <2>1, TakeNextFacts
  <2>3. CASE x \in s.seen
    <3>1. UNCHANGED <<s, undo, psess, pending>>
      BY <2>3, <1>3 DEF Requeue
    <3>2. TypeInv'
      BY <3>1, <2>1, <2>2, <1>0, <1>1 DEF TypeInv
    <3>3. Trail' = Trail
      BY <3>1 DEF Trail
    <3> QED BY <3>1, <3>2, <3>3, <2>1, <1>1 DEF NodeInv, StepKeeps
  <2>4. CASE x \notin s.seen
    <3>1. PushTx(x)
      BY <2>4, <1>3 DEF Requeue
    <3> HIDE DEF x
    <3>2. /\ psess' = TRUE /\ undo' \in Seq(ChainState) /\ undo' # <<>>
          /\ pending' \in Seq(Tx) /\ s' \in ChainState /\ FitTrail(Trail')
      BY <3>1, <2>2, FitPushTx
    <3>3. TypeInv'
      BY <3>2, <2>1, <2>2, <1>0, <1>1 DEF TypeInv
    <3> QED BY <3>2, <3>3, <2>1, <1>1 DEF NodeInv, StepKeeps
  <2> QED BY <2>3, <2>4
<1> QED BY <1>2, <1>3

(* Every step of the running node.                                         *)
LEMMA FitRunning ==
  ASSUME NodeInv, BlocksOk(bdb), Next
  PROVE  StepKeeps
<1>1. ASSUME NEW b \in Block, PushBlock(b) PROVE StepKeeps
  <2>1. Push(b, BaseUndo)
    BY <1>1 DEF PushBlock
  <2> QED BY <2>1, FitBase, FitPush DEF StepKeeps
<1>2. ASSUME NEW t \in Tx, PushTransaction(t) PROVE StepKeeps
  <2>1. PushTx(t) /\ UNCHANGED <<usize, irr, popped, bdb, pc, op>> /\ pc = "idle"
    BY <1>2 DEF PushTransaction
  <2>2. /\ psess' = TRUE /\ undo' \in Seq(ChainState) /\ undo' # <<>>
        /\ pending' \in Seq(Tx) /\ s' \in ChainState /\ FitTrail(Trail')
    BY <2>1, FitPushTx
  <2>3. TypeInv'
    BY <2>1, <2>2 DEF NodeInv, TypeInv
  <2> QED BY <2>1, <2>2, <2>3 DEF NodeInv, StepKeeps
<1>3. ASSUME NEW b \in Block, GenerateBlock(b) PROVE StepKeeps
  <2>1. Push(b, GenerateUndo)
    BY <1>3 DEF GenerateBlock
  <2> QED BY <2>1, FitGenerate, FitPush DEF StepKeeps
<1>4. CASE GenerateTooBig
  <2>1. /\ s' = BaseState /\ undo' = GenerateUndo /\ psess' = FALSE /\ pc = "idle"
        /\ UNCHANGED <<usize, irr, pending, popped, bdb, pc, op>>
    BY <1>4 DEF GenerateTooBig
  <2>2. GenerateUndo \in Seq(ChainState) /\ FitTrail(Append(GenerateUndo, BaseState)) /\ BaseState \in ChainState
    BY FitGenerate, FitBase
  <2>3. TypeInv'
    BY <2>1, <2>2 DEF NodeInv, TypeInv
  <2>4. Trail' = Append(GenerateUndo, BaseState)
    BY <2>1 DEF Trail
  <2> QED BY <2>1, <2>2, <2>3, <2>4 DEF NodeInv, StepKeeps
<1>5. CASE Step
  BY <1>5, FitDirect, FitPopping, FitBranch, FitRestore, FitRequeue DEF Step
<1> QED BY <1>1, <1>2, <1>3, <1>4, <1>5 DEF Next

-----------------------------------------------------------------------------
(* Opening and reindexing                                                  *)

(* The node starts at genesis, and block numbers are bounded.              *)
Genesis == RootNum = 0 /\ \E h \in Nat : \A b \in Node : Num[b] <= h

(* The highest block number there is.                                      *)
LEMMA MaxNumFacts ==
  ASSUME Genesis
  PROVE  MaxNum \in Nat /\ \A b \in Node : Num[b] <= MaxNum
<1> DEFINE S == {Num[b] : b \in Node}
<1>1. S \in SUBSET Nat /\ S # {}
  BY NumFacts DEF Node
<1>2. PICK h \in Nat : \A x \in S : x <= h
  BY DEF Genesis
<1>3. PICK n \in S : \A x \in S : x <= n
  <2> HIDE DEF S
  <2> QED BY <1>1, <1>2, GreatestBelow
<1>4. \A b \in Node : Num[b] <= n
  BY <1>3
<1>5. \E m \in S : \A b \in Node : Num[b] <= m
  BY <1>4
<1>6. MaxNum \in S /\ \A b \in Node : Num[b] <= MaxNum
  BY <1>5 DEF MaxNum
<1> QED BY <1>1, <1>6

(* A replayed block leads from a fit state to a fit state.                 *)
LEMMA FitReplayed ==
  ASSUME BlocksOk(bdb), NEW n \in 0..MaxNum, NEW st, Fit(st), ReplayBlock(st, FetchByNum(n)) # None
  PROVE  LET y == ReplayBlock(st, FetchByNum(n)) IN Fit(y) /\ Num[y.head] = Num[st.head] + 1
<1> DEFINE b == FetchByNum(n)
           y == ReplayBlock(st, b)
<1>1. st \in ChainState /\ Level(st)
  BY FitTypes
<1>2. /\ b \in Block /\ Prev[b] = st.head /\ Num[b] = Num[st.head] + 1
      /\ y \in ChainState /\ Level(y) /\ y.head = b
      /\ Replay[b] # None /\ Same(st, Replay[st.head]) => Same(y, Replay[b])
  BY <1>1, ReplayBlockFacts
<1>3. b # None
  BY <1>2, TreeAssumption DEF Node
<1>4. b = bdb[n].data
  BY <1>3 DEF FetchByNum
<1>5. Unrepeated => Replay[b] # None
  BY <1>3, <1>4 DEF BlocksOk
<1>6. Unrepeated => Same(st, Replay[st.head])
  BY DEF Fit
<1> HIDE DEF b, y
<1>7. Fit(y) /\ Num[y.head] = Num[st.head] + 1
  BY <1>2, <1>5, <1>6 DEF Fit
<1> QED BY <1>7 DEF y, b

(* What Replayed is, as an equation.                                       *)
ReplayedBy(g) ==
  g = [n \in 0..MaxNum |-> IF n = 0 THEN RootState ELSE ReplayBlock(g[n - 1], FetchByNum(n))]

(* The replay of the stored blocks: fit states, one block after the other. *)
LEMMA ReplayedFacts ==
  ASSUME Genesis, BlocksOk(bdb)
  PROVE  \A n \in 0..MaxNum :
           /\ Replayed[n] # None => Fit(Replayed[n]) /\ Num[Replayed[n].head] = n
           /\ n # 0 /\ Replayed[n] # None => Replayed[n - 1] # None
<1> DEFINE V == {x \in ChainState : Fit(x)} \cup {None}
           R(x, i) == ReplayBlock(x, FetchByNum(i))
           H == [x \in (1..MaxNum) \X V |-> R(x[2], x[1])]
<1>1. MaxNum \in Nat
  BY MaxNumFacts
<1>2. RootState \in V /\ RootState # None /\ Num[RootState.head] = 0 /\ Fit(RootState)
  BY RootFit, FitTypes, NumFacts DEF Genesis
<1>3. ASSUME NEW i \in 1..MaxNum, NEW x, x = None PROVE R(x, i) = None
  BY <1>3 DEF ReplayBlock
<1>4. ASSUME NEW i \in 1..MaxNum, NEW x \in V PROVE R(x, i) \in V
  <2>1. CASE x = None \/ R(x, i) = None
    BY <2>1, <1>3
  <2>2. CASE x # None /\ R(x, i) # None
    <3>1. Fit(x) /\ i \in 0..MaxNum
      BY <2>2, <1>1
    <3>2. Fit(R(x, i))
      BY <3>1, <2>2, FitReplayed
    <3> QED BY <3>2, FitTypes
  <2> QED BY <2>1, <2>2
<1> HIDE DEF R
<1>5. H \in [(1..MaxNum) \X V -> V]
  <2> HIDE DEF V
  <2>1. \A x \in (1..MaxNum) \X V : x[1] \in 1..MaxNum /\ x[2] \in V
    OBVIOUS
  <2> QED BY <2>1, <1>4
<1>6. PICK f : LoopOf(f, MaxNum, V, RootState, H)
  <2> HIDE DEF H, V
  <2> QED BY <1>1, <1>2, <1>5, LoopExists
<1>7. ReplayedBy(f)
  <2> HIDE DEF V
  <2>1. f \in [0..MaxNum -> V] /\ f[0] = RootState /\ \A i \in 1..MaxNum : f[i] = H[<<i, f[i - 1]>>]
    <3> HIDE DEF H
    <3> QED BY <1>6 DEF LoopOf
  <2>2. \A i \in 1..MaxNum : i - 1 \in 0..MaxNum
    BY <1>1
  <2>3. \A i \in 1..MaxNum : H[<<i, f[i - 1]>>] = R(f[i - 1], i)
    BY <2>1, <2>2
  <2> HIDE DEF H
  <2>4. \A i \in 0..MaxNum : i = 0 \/ (i # 0 /\ i \in 1..MaxNum)
    BY <1>1
  <2>5. \A i \in 0..MaxNum : f[i] = IF i = 0 THEN RootState ELSE R(f[i - 1], i)
    BY <2>1, <2>3, <2>4
  <2>6. f = [i \in 0..MaxNum |-> f[i]]
    BY <2>1
  <2> QED BY <2>5, <2>6 DEF ReplayedBy, R
<1>8. Replayed = CHOOSE g : ReplayedBy(g)
  BY DEF Replayed, ReplayedBy
<1>9. ReplayedBy(Replayed)
  BY <1>7, <1>8
<1> DEFINE g == Replayed
<1> HIDE DEF g, H, V
<1>10. g[0] = RootState /\ \A i \in 1..MaxNum : g[i] = R(g[i - 1], i)
  BY <1>1, <1>9 DEF ReplayedBy, R, g
<1> DEFINE S == {i \in 0..MaxNum : g[i] # None => Fit(g[i]) /\ Num[g[i].head] = i}
<1>11. ASSUME NEW i \in 1..MaxNum, i - 1 \in S PROVE i \in S
  <2>1. i \in 0..MaxNum /\ i - 1 \in 0..MaxNum /\ g[i] = R(g[i - 1], i) /\ i \in Nat
    BY <1>1, <1>10
  <2>2. CASE g[i] = None
    BY <2>1, <2>2
  <2>3. CASE g[i] # None
    <3>1. g[i - 1] # None
      BY <2>1, <2>3, <1>3
    <3>2. Fit(g[i - 1]) /\ Num[g[i - 1].head] = i - 1
      BY <3>1, <1>11
    <3>3. Fit(g[i]) /\ Num[g[i].head] = Num[g[i - 1].head] + 1
      BY <3>2, <2>1, <2>3, FitReplayed DEF R
    <3> QED BY <3>2, <3>3, <2>1
  <2> QED BY <2>2, <2>3
<1>12. 0 \in S
  BY <1>1, <1>2, <1>10
<1>13. \A i \in 0..MaxNum : i \in S
  <2> HIDE DEF S
  <2> QED BY <1>1, <1>11, <1>12, UpTo
<1>14. ASSUME NEW n \in 0..MaxNum, n # 0, g[n] # None PROVE g[n - 1] # None
  <2>1. n \in 1..MaxNum
    BY <1>14, <1>1
  <2> QED BY <2>1, <1>3, <1>10, <1>14
<1> QED BY <1>13, <1>14 DEF g

(* How far the stored blocks reach.                                        *)
LEMMA ReachFacts ==
  ASSUME Genesis
  PROVE  Reach \in 0..MaxNum
<1> DEFINE S == {n \in 0..MaxNum : \A i \in 1..n : FetchByNum(i) # None}
<1>1. MaxNum \in Nat
  BY MaxNumFacts
<1>2. S \in SUBSET Nat /\ 0 \in S /\ \A x \in S : x <= MaxNum
  BY <1>1
<1>3. PICK n \in S : \A x \in S : x <= n
  <2> HIDE DEF S
  <2> QED BY <1>1, <1>2, GreatestBelow
<1>4. n \in 0..MaxNum /\ n \in Nat /\ \A i \in 1..n : FetchByNum(i) # None
  BY <1>3, <1>1
<1>5. ASSUME n < MaxNum PROVE FetchByNum(n + 1) = None
  <2>1. n + 1 \in 0..MaxNum /\ ~(n + 1 <= n)
    BY <1>1, <1>4, <1>5
  <2>2. n + 1 \notin S
    BY <2>1, <1>3
  <2>3. \A i \in 1..(n + 1) : i \in 1..n \/ i = n + 1
    BY <1>4
  <2> QED BY <2>1, <2>2, <2>3, <1>4
<1> DEFINE P(m) == /\ \A i \in 1..m : FetchByNum(i) # None
                   /\ m < MaxNum => FetchByNum(m + 1) = None
<1>6. P(n)
  BY <1>4, <1>5
<1>7. Reach = CHOOSE m \in 0..MaxNum : P(m)
  BY DEF Reach
<1> HIDE DEF P
<1> QED BY <1>4, <1>6, <1>7

(* A history of one state.                                                 *)
LEMMA FitSingle ==
  ASSUME NEW st, Fit(st), NEW e, e = <<>>
  PROVE  FitTrail(Append(e, st))
<1> DEFINE w == Append(e, st)
<1>1. st \in ChainState
  BY FitTypes
<1>2. e \in Seq(ChainState) /\ Len(e) = 0
  OBVIOUS
<1>3. w \in Seq(ChainState) /\ w # <<>> /\ Len(w) = Len(e) + 1 /\ w[Len(e) + 1] = st
  BY <1>1, <1>2, AppendFacts
<1> HIDE DEF w
<1>4. Len(w) = 1 /\ w[1] = st
  BY <1>2, <1>3
<1>5. (\A i \in 1..Len(w) : w[i] = st) /\ 1..(Len(w) - 1) = {}
  BY <1>4
<1>6. FitTrail(w)
  BY <1>3, <1>5 DEF FitTrail
<1> QED BY <1>6 DEF w

(* A process that starts on a fit state.                                   *)
LEMMA FreshOk ==
  ASSUME NEW st, Fit(st), NEW f, NEW n \in Nat, n >= 2, Fresh(st, f, n), pc' \in {"idle", "down"}
  PROVE  NodeInv'
<1>1. /\ s' = st /\ undo' = <<>> /\ usize' = n /\ irr' = st.lib /\ psess' = FALSE
      /\ pending' = <<>> /\ popped' = <<>> /\ op' = IdleOp
  BY DEF Fresh
<1>2. st \in ChainState /\ st.lib \in Nat
  BY FitTypes
<1>3. <<>> \in Seq(Tx) /\ <<>> \in Seq(ChainState)
  BY EmptySeq
<1>4. op'.kept = <<>> /\ op'.was = {} /\ OpFields \subseteq DOMAIN op'
  BY <1>1 DEF IdleOp, OpFields
<1>5. pc' \in Places
  BY DEF Places
<1>6. TypeInv'
  BY <1>1, <1>2, <1>3, <1>4, <1>5 DEF TypeInv
<1>7. Trail' = Append(<<>>, st)
  BY <1>1 DEF Trail
<1>8. FitTrail(Append(<<>>, st))
  BY FitSingle
<1> QED BY <1>1, <1>2, <1>6, <1>7, <1>8 DEF NodeInv

(* The block database keeps what it had before its last write.             *)
LEMMA WrittenOk ==
  ASSUME BlocksOk(bdb), BlocksOk(before), Written
  PROVE  BlocksOk(before')
<1>1. before' = before \/ before' = bdb
  BY DEF Written
<1> QED BY <1>1

-----------------------------------------------------------------------------
(* The invariant across restarts                                           *)

(* While close() pops blocks, the head stays at or above the block that    *)
(* was irreversible when it began.                                         *)
ClosingInv ==
  pc \in {"closing", "flush"} =>
    "base" \in DOMAIN op /\ op.base.lib \in Nat /\ Num[s.head] >= op.base.lib

RestartInv ==
  /\ NodeInv /\ ClosingInv
  /\ disk = None \/ Fit(disk)
  /\ BlocksOk(bdb) /\ BlocksOk(before)

(* The initial states.                                                     *)
LEMMA RestartStart ==
  ASSUME Genesis, RInit
  PROVE  RestartInv
<1>1. /\ s = RootState /\ undo = <<>> /\ usize = MinUndo /\ irr = RootNum /\ psess = FALSE
      /\ pending = <<>> /\ popped = <<>> /\ op = IdleOp /\ pc = "idle" /\ disk = None /\ before = bdb
      /\ bdb = [n \in 0..MaxNum |-> IF n = RootNum /\ n > 0 THEN [id |-> Root, data |-> Root]
                                    ELSE EmptySlot]
  BY DEF RInit, Init
<1>2. Fit(RootState) /\ RootState \in ChainState
  BY RootFit, FitTypes
<1>3. <<>> \in Seq(Tx) /\ <<>> \in Seq(ChainState)
  BY EmptySeq
<1>4. op.kept = <<>> /\ op.was = {} /\ OpFields \subseteq DOMAIN op
  BY <1>1 DEF IdleOp, OpFields
<1>5. TypeInv
  BY <1>1, <1>3, <1>4, UndoAssumption, BlockAssumption DEF TypeInv, Places
<1> HIDE DEF RootState
<1>6. Trail = Append(<<>>, RootState)
  BY <1>1 DEF Trail
<1>7. FitTrail(Append(<<>>, RootState))
  BY <1>2, FitSingle
<1>8. BlocksOk(bdb)
  <2>1. "data" \in DOMAIN EmptySlot /\ EmptySlot.data = None
    BY DEF EmptySlot
  <2> HIDE DEF EmptySlot
  <2>2. MaxNum \in Nat
    BY MaxNumFacts
  <2>3. DOMAIN bdb = 0..MaxNum /\ \A n \in 0..MaxNum : bdb[n] = EmptySlot
    BY <2>2, <1>1 DEF Genesis
  <2> QED BY <2>1, <2>3 DEF BlocksOk
<1>9. NodeInv
  BY <1>1, <1>2, <1>5, <1>6, <1>7 DEF NodeInv
<1> QED BY <1>1, <1>8, <1>9 DEF RestartInv, ClosingInv

(* Steps of the running node.                                              *)
LEMMA RestartRunning ==
  ASSUME RestartInv, Next, Written, UNCHANGED disk
  PROVE  RestartInv'
<1>1. StepKeeps
  BY FitRunning DEF RestartInv
<1>2. BlocksOk(before')
  BY WrittenOk DEF RestartInv
<1> QED BY <1>1, <1>2 DEF RestartInv, StepKeeps, ClosingInv

(* close() begins.                                                         *)
LEMMA RestartClose ==
  ASSUME RestartInv, Close
  PROVE  RestartInv'
<1> DEFINE B == BaseState
<1>1. /\ s' = B /\ undo' = BaseUndo /\ psess' = FALSE /\ pending' = <<>>
      /\ op' = [IdleOp EXCEPT !.base = B] /\ pc' = "closing"
      /\ UNCHANGED <<usize, irr, popped, bdb, disk, before>>
  BY DEF Close, ClearPending
<1>2. NodeInv /\ TypeInv
  BY DEF RestartInv, NodeInv
<1>3. BaseUndo \in Seq(ChainState) /\ B \in ChainState /\ Fit(B) /\ FitTrail(Append(BaseUndo, B))
  BY <1>2, FitBase
<1> HIDE DEF B
<1>4. op'.kept = <<>> /\ op'.was = {} /\ OpFields \subseteq DOMAIN op' /\ "base" \in DOMAIN op' /\ op'.base = B
  BY <1>1 DEF IdleOp, OpFields
<1>5. <<>> \in Seq(Tx)
  BY EmptySeq
<1>6. TypeInv'
  BY <1>1, <1>2, <1>3, <1>4, <1>5 DEF TypeInv, Places
<1>7. Trail' = Append(BaseUndo, B)
  BY <1>1 DEF Trail
<1>8. NodeInv'
  BY <1>1, <1>3, <1>6, <1>7 DEF NodeInv
<1>9. B.lib \in Nat /\ Num[B.head] \in Nat /\ B.lib <= Num[B.head]
  BY <1>3, FitTypes
<1>10. ClosingInv'
  <2>1. op'.base.lib = B.lib /\ s'.head = B.head
    BY <1>1, <1>4
  <2>2. Num[s'.head] >= op'.base.lib
    BY <2>1, <1>9
  <2> QED BY <2>1, <2>2, <1>4, <1>9 DEF ClosingInv
<1> QED BY <1>1, <1>8, <1>10 DEF RestartInv

(* close() pops a block, or cannot.                                        *)
LEMMA RestartRewind ==
  ASSUME RestartInv, Rewind
  PROVE  RestartInv'
<1>1. /\ pc = "closing" /\ Num[s.head] > op.base.lib /\ PopBlock("closing", "flush")
      /\ Written /\ UNCHANGED <<psess, pending, usize, irr, disk>>
  BY DEF Rewind
<1>2. NodeInv /\ BlocksOk(bdb) /\ ~psess /\ "base" \in DOMAIN op /\ op.base.lib \in Nat
  BY <1>1 DEF RestartInv, NodeInv, TypeInv, ClosingInv
<1>3. "closing" \in Places /\ "flush" \in Places
  BY DEF Places
<1>4. /\ NodeInv' /\ BlocksOk(bdb')
      /\ s' = s \/ Num[s.head] <= Num[s'.head] + 1
      /\ op' = op \/ op' = [op EXCEPT !.threw = TRUE]
  BY <1>1, <1>2, <1>3, FitPop
<1>5. "base" \in DOMAIN op' /\ op'.base = op.base
  BY <1>2, <1>4
<1>6. s.head \in Node /\ s'.head \in Node
  BY <1>2, <1>4 DEF NodeInv, ChainState
<1>7. Num[s.head] \in Nat /\ Num[s'.head] \in Nat
  BY <1>6, NumFacts
<1>8. Num[s'.head] >= op.base.lib
  BY <1>1, <1>2, <1>4, <1>7
<1>9. ClosingInv'
  BY <1>2, <1>5, <1>8 DEF ClosingInv
<1>10. BlocksOk(before')
  BY <1>1, WrittenOk DEF RestartInv
<1> QED BY <1>1, <1>4, <1>9, <1>10 DEF RestartInv

(* The state is saved.                                                     *)
LEMMA RestartFlush ==
  ASSUME RestartInv, Flush
  PROVE  RestartInv'
<1>1. /\ pc \in {"closing", "flush"} /\ disk' = s /\ Fresh(RootState, None, MinUndo)
      /\ pc' = "down" /\ before' = bdb /\ bdb' = bdb
  BY DEF Flush
<1>2. NodeInv /\ ~psess
  BY <1>1 DEF RestartInv, NodeInv, TypeInv
<1>3. Fit(s)
  BY <1>2, FitPlain
<1>4. NodeInv'
  BY <1>1, RootFit, FreshOk, UndoAssumption
<1>5. Fit(disk')
  BY <1>1, <1>3
<1> QED BY <1>1, <1>4, <1>5 DEF RestartInv, ClosingInv

(* A crash.                                                                *)
LEMMA RestartCrash ==
  ASSUME RestartInv, Crash
  PROVE  RestartInv'
<1>1. /\ bdb' \in {bdb, before} /\ before' = bdb' /\ Fresh(RootState, None, MinUndo)
      /\ pc' = "down" /\ disk' = disk
  BY DEF Crash
<1>2. NodeInv'
  BY <1>1, RootFit, FreshOk, UndoAssumption
<1>3. BlocksOk(bdb') /\ BlocksOk(before')
  BY <1>1 DEF RestartInv
<1> QED BY <1>1, <1>2, <1>3 DEF RestartInv, ClosingInv

(* open() on the saved state.                                              *)
LEMMA RestartOpen ==
  ASSUME RestartInv, Open
  PROVE  RestartInv'
<1>1. Fresh(Loaded, LastBlock, MinUndo) /\ pc' = "idle" /\ UNCHANGED <<bdb, disk, before>>
  BY DEF Open
<1>2. Fit(Loaded)
  BY RootFit DEF Loaded, RestartInv
<1>3. NodeInv'
  BY <1>1, <1>2, FreshOk, UndoAssumption
<1> QED BY <1>1, <1>3 DEF RestartInv, ClosingInv

(* reindex().                                                              *)
LEMMA RestartReindex ==
  ASSUME Genesis, RestartInv, Reindex
  PROVE  RestartInv'
<1> DEFINE r == Reach
           lib == IF r = 0 THEN 0 ELSE Replayed[r - 1].lib
           n == IF r = 0 THEN MinUndo ELSE r - lib + 1
<1>1. /\ Replayed[r] # None /\ Fresh(Replayed[r], LastBlock, n)
      /\ bdb' = [k \in 0..MaxNum |-> IF k > r + 1 THEN [bdb[k] EXCEPT !.data = None] ELSE bdb[k]]
      /\ disk' = None /\ pc' = "idle" /\ Written
  BY DEF Reindex
<1>2. r \in 0..MaxNum /\ MaxNum \in Nat
  BY ReachFacts, MaxNumFacts
<1>3. BlocksOk(bdb) /\ BlocksOk(before)
  BY DEF RestartInv
<1> HIDE DEF r
<1>4. Fit(Replayed[r]) /\ (r # 0 => Replayed[r - 1] # None)
  BY <1>1, <1>2, <1>3, ReplayedFacts
<1>5. n \in Nat /\ n >= 2
  <2>1. CASE r = 0
    BY <2>1, UndoAssumption
  <2>2. CASE r # 0
    <3> DEFINE q == Replayed[r - 1]
    <3>1. r - 1 \in 0..MaxNum /\ r \in Nat
      BY <2>2, <1>2
    <3>2. Fit(q) /\ Num[q.head] = r - 1
      BY <3>1, <2>2, <1>3, <1>4, ReplayedFacts
    <3> HIDE DEF q
    <3>3. q.lib \in Nat /\ q.lib <= r - 1
      BY <3>2, FitTypes
    <3>4. n = r - q.lib + 1
      BY <2>2 DEF q
    <3> QED BY <3>1, <3>3, <3>4
  <2> QED BY <2>1, <2>2
<1> HIDE DEF n
<1>6. NodeInv'
  BY <1>1, <1>4, <1>5, FreshOk
<1>7. BlocksOk(bdb')
  <2>1. DOMAIN bdb' = 0..MaxNum
    BY <1>1
  <2>2. ASSUME NEW k \in 0..MaxNum
        PROVE  /\ "data" \in DOMAIN bdb'[k]
               /\ bdb'[k].data # None => (Unrepeated => Replay[bdb'[k].data] # None)
    <3>1. "data" \in DOMAIN bdb[k] /\ (bdb[k].data # None => (Unrepeated => Replay[bdb[k].data] # None))
      BY <1>3 DEF BlocksOk
    <3>2. bdb'[k] = [bdb[k] EXCEPT !.data = None] \/ bdb'[k] = bdb[k]
      BY <1>1
    <3>3. CASE bdb'[k] = [bdb[k] EXCEPT !.data = None]
      <4>1. "data" \in DOMAIN bdb'[k] /\ bdb'[k].data = None
        BY <3>1, <3>3
      <4> QED BY <4>1
    <3>4. CASE bdb'[k] = bdb[k]
      BY <3>1, <3>4
    <3> QED BY <3>2, <3>3, <3>4
  <2> QED BY <2>1, <2>2 DEF BlocksOk
<1>8. BlocksOk(before')
  BY <1>1, <1>3, WrittenOk
<1> QED BY <1>1, <1>6, <1>7, <1>8 DEF RestartInv, ClosingInv

(* Every step keeps the invariant.                                         *)
LEMMA RestartStep ==
  ASSUME Genesis, RestartInv, [RNext]_rvars
  PROVE  RestartInv'
<1>1. CASE UNCHANGED rvars
  <2>1. UNCHANGED <<s, undo, usize, irr, psess, pending, popped, bdb, pc, op, disk, before>>
    BY <1>1 DEF rvars, vars
  <2>2. TypeInv'
    BY <2>1 DEF RestartInv, NodeInv, TypeInv
  <2>3. Trail' = Trail
    BY <2>1 DEF Trail
  <2>4. NodeInv'
    BY <2>1, <2>2, <2>3 DEF RestartInv, NodeInv
  <2> QED BY <2>1, <2>4 DEF RestartInv, ClosingInv
<1>2. CASE RNext
  BY <1>2, RestartRunning, RestartClose, RestartRewind, RestartFlush, RestartCrash, RestartOpen,
     RestartReindex DEF RNext
<1> QED BY <1>1, <1>2

(* close() keeps every irreversible block: the rewind of a node that is    *)
(* being closed, with its pops of any number of blocks and the one that    *)
(* may fail for lack of undo history, never takes the head below the block *)
(* that was the last irreversible one when close() began.                  *)
THEOREM CloseKeepsIrreversible ==
  ASSUME Genesis
  PROVE  RSpec => []IrreversibleSaved
<1>1. RInit => RestartInv
  BY RestartStart
<1>2. RestartInv /\ [RNext]_rvars => RestartInv'
  BY RestartStep
<1>3. RestartInv => IrreversibleSaved
  BY DEF RestartInv, ClosingInv, IrreversibleSaved
<1> QED BY <1>1, <1>2, <1>3, PTL DEF RSpec

(* Whatever sequence of pushes, fork switches, closes, crashes, opens and  *)
(* reindexes led to it, the state of a running node apart from the         *)
(* deduplication index is the one that the blocks of its chain lead to,    *)
(* when no block repeats a transaction of its chain: reindex() skips the   *)
(* check that would refuse it.                                             *)
THEOREM RestartsKeepLedger ==
  ASSUME Genesis, Unrepeated
  PROVE  RSpec => []LedgerIsReplay
<1>1. RInit => RestartInv
  BY RestartStart
<1>2. RestartInv /\ [RNext]_rvars => RestartInv'
  BY RestartStep
<1>3. RestartInv => LedgerIsReplay
  <2> SUFFICES ASSUME RestartInv PROVE Ledger(BaseState) = Ledger(Replay[BaseState.head])
    BY DEF LedgerIsReplay
  <2>1. Fit(BaseState)
    BY FitBase DEF RestartInv
  <2>2. Same(BaseState, Replay[BaseState.head])
    BY <2>1 DEF Fit
  <2> QED BY <2>2 DEF Same, Ledger
<1> QED BY <1>1, <1>2, <1>3, PTL DEF RSpec
=============================================================================
