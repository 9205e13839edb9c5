--------------------------- MODULE SeedingProofs ---------------------------
(***************************************************************************)
(* Proofs about the seeding plugin: its objects never outlive the contents *)
(* they are for, so that generate_pors always goes on, and the space it    *)
(* offers never exceeds its option.                                        *)
(***************************************************************************)
EXTENDS Seeding, FiniteSetTheorems, SequenceTheorems, TLAPS

-----------------------------------------------------------------------------
(* The inductive invariant                                                 *)

(* Seeding objects belong to contents; a content expired at the head has   *)
(* expired by the wall clock.                                              *)
Sound(C, late) == C \in ChainType /\ C.past \subseteq C.content \cap late /\ C.mine \subseteq C.content

(* Every snapshot is sound, and later ones have more seeding objects: an   *)
(* undo only takes some away.                                              *)
Snapshots(S, C, late) ==
  /\ S \in Seq(ChainType)
  /\ \A i \in 1..Len(S) : Sound(S[i], late) /\ S[i].mine \subseteq C.mine
  /\ \A i, j \in 1..Len(S) : i <= j => S[i].mine \subseteq S[j].mine

(* The database and its undo history: an undo may go back to any of the    *)
(* snapshots, so each of them has to be sound.                             *)
DbInv == Sound(chain, over) /\ Snapshots(stack, chain, over)

(* The inductive invariant.                                                *)
Inv == TypeOK /\ DbInv /\ SpaceOffered

-----------------------------------------------------------------------------
(* Snapshots                                                               *)

(* The fields of the database.                                             *)
LEMMA ChainFields ==
  ASSUME NEW C \in ChainType
  PROVE  /\ C.content \subseteq URI /\ C.past \subseteq URI /\ C.requested \subseteq URI
         /\ C.answered \subseteq URI /\ C.mine \subseteq URI /\ C.downloaded \subseteq URI
         /\ C.deleted \subseteq URI
BY DEF ChainType

(* Operations of a block or of pending transactions.                       *)
LEMMA ApplyFacts ==
  ASSUME NEW C \in ChainType, NEW ops
  PROVE  /\ Apply(C, ops) \in ChainType /\ Apply(C, ops).past = C.past
         /\ Apply(C, ops).mine = C.mine /\ Apply(C, ops).content = C.content \cup UrisOf("submit", ops)
<1>1. UrisOf("submit", ops) \subseteq URI /\ UrisOf("buy", ops) \subseteq URI
      /\ UrisOf("deliver", ops) \subseteq URI
  BY DEF UrisOf
<1> QED BY <1>1 DEF Apply, ChainType

(* Operations keep the database sound.                                     *)
LEMMA ApplySound ==
  ASSUME NEW C, NEW late, Sound(C, late), NEW ops
  PROVE  Sound(Apply(C, ops), late)
BY ApplyFacts DEF Sound

(* Seeding objects that are added to the database keep its snapshots below *)
(* it.                                                                     *)
LEMMA SnapshotsMore ==
  ASSUME NEW S, NEW C, NEW late, Snapshots(S, C, late), NEW D, C.mine \subseteq D.mine
  PROVE  Snapshots(S, D, late)
BY DEF Snapshots

(* A session that is opened takes one snapshot more.                       *)
LEMMA SnapshotsAppend ==
  ASSUME NEW S, NEW C, NEW late, Snapshots(S, C, late), Sound(C, late), NEW D, C.mine \subseteq D.mine
  PROVE  Snapshots(Append(S, C), D, late) /\ Append(S, C) # <<>>
<1> DEFINE A == Append(S, C)
<1>1. S \in Seq(ChainType) /\ C \in ChainType /\ Len(S) \in Nat
  BY DEF Snapshots, Sound
<1>2. /\ A \in Seq(ChainType) /\ Len(A) = Len(S) + 1 /\ A[Len(S) + 1] = C /\ A # <<>>
      /\ \A i \in 1..Len(S) : A[i] = S[i]
  BY <1>1
<1> HIDE DEF A
<1>3. \A i \in 1..Len(A) : i \in 1..Len(S) \/ i = Len(S) + 1
  BY <1>1, <1>2
<1>4. ASSUME NEW i \in 1..Len(A) PROVE Sound(A[i], late) /\ A[i].mine \subseteq C.mine
  BY <1>2, <1>3 DEF Snapshots
<1>5. ASSUME NEW i \in 1..Len(A), NEW j \in 1..Len(A), i <= j PROVE A[i].mine \subseteq A[j].mine
  <2>1. CASE j = Len(S) + 1
    BY <2>1, <1>2, <1>4
  <2>2. CASE j \in 1..Len(S)
    <3>1. i \in 1..Len(S)
      BY <2>2, <1>1, <1>5
    <3> QED BY <3>1, <2>2, <1>2, <1>5 DEF Snapshots
  <2> QED BY <2>1, <2>2, <1>3
<1>6. Snapshots(A, D, late)
  BY <1>2, <1>4, <1>5 DEF Snapshots
<1> QED BY <1>2, <1>6 DEF A

(* The first k snapshots, seen from the last of them.                      *)
LEMMA SnapshotsPrefix ==
  ASSUME NEW S, NEW C, NEW late, Snapshots(S, C, late), NEW k \in 1..Len(S)
  PROVE  /\ Snapshots(SubSeq(S, 1, k), S[k], late) /\ Snapshots(SubSeq(S, 1, k - 1), S[k], late)
         /\ Sound(S[k], late) /\ S[k].mine \subseteq C.mine
<1>1. S \in Seq(ChainType) /\ Len(S) \in Nat /\ k \in Nat /\ k <= Len(S)
  BY DEF Snapshots
<1>2. Sound(S[k], late) /\ S[k].mine \subseteq C.mine
  BY DEF Snapshots
<1>3. ASSUME NEW n \in {k - 1, k} PROVE Snapshots(SubSeq(S, 1, n), S[k], late)
  <2> DEFINE A == SubSeq(S, 1, n)
  <2>1. n \in Nat /\ n <= k /\ n <= Len(S)
    BY <1>1
  <2>2. A \in Seq(ChainType) /\ Len(A) = n /\ \A i \in 1..n : A[i] = S[i]
    BY <1>1, <2>1
  <2> HIDE DEF A
  <2>3. \A i \in 1..n : i \in 1..Len(S) /\ i <= k
    BY <2>1, <1>1
  <2>4. Snapshots(A, S[k], late)
    BY <2>2, <2>3, <1>1 DEF Snapshots
  <2> QED BY <2>4 DEF A
<1> QED BY <1>2, <1>3

(* What there is without the pending session.                              *)
LEMMA CommittedFacts ==
  ASSUME TypeOK, DbInv
  PROVE  /\ Sound(Committed, over) /\ Snapshots(BlockStack, Committed, over)
         /\ Committed.mine \subseteq chain.mine
<1>1. CASE session
  <2> DEFINE n == Len(stack)
  <2>1. stack \in Seq(ChainType) /\ stack # <<>> /\ n \in Nat /\ n \in 1..Len(stack)
    BY <1>1 DEF TypeOK
  <2>2. Committed = stack[n] /\ BlockStack = SubSeq(stack, 1, n - 1)
    BY <1>1, <2>1 DEF Committed, BlockStack, Undone, Last, Front
  <2> HIDE DEF n
  <2> QED BY <2>1, <2>2, SnapshotsPrefix DEF DbInv
<1>2. CASE ~session
  BY <1>2 DEF Committed, BlockStack, DbInv
<1> QED BY <1>1, <1>2 DEF TypeOK

(* The history keeps its limit by dropping the oldest snapshot.            *)
LEMMA SnapshotsTrimmed ==
  ASSUME NEW S, NEW C, NEW late, Snapshots(S, C, late)
  PROVE  Snapshots(Trimmed(S), C, late) /\ (S # <<>> => Trimmed(S) # <<>>)
<1>1. CASE ~(Len(S) > MaxUndo)
  BY <1>1 DEF Trimmed
<1>2. CASE Len(S) > MaxUndo
  <2> DEFINE A == Tail(S)
  <2>1. S \in Seq(ChainType) /\ Len(S) \in Nat /\ MaxUndo \in Nat /\ MaxUndo >= 1
    BY BoundAssumption DEF Snapshots
  <2>2. Len(S) >= 2 /\ S # <<>>
    BY <1>2, <2>1
  <2>3. A \in Seq(ChainType) /\ Len(A) = Len(S) - 1 /\ \A i \in 1..Len(A) : A[i] = S[i + 1]
    BY <2>1, <2>2, HeadTailProperties
  <2>4. Len(A) >= 1
    BY <2>1, <2>2, <2>3
  <2> HIDE DEF A
  <2>5. A # <<>>
    BY <2>3, <2>4
  <2>6. \A i \in 1..Len(A) : i + 1 \in 1..Len(S) /\ i \in Int
    BY <2>1, <2>3
  <2>7. Snapshots(A, C, late)
    <3>1. \A i \in 1..Len(A) : Sound(A[i], late) /\ A[i].mine \subseteq C.mine
      BY <2>3, <2>6 DEF Snapshots
    <3>2. ASSUME NEW i \in 1..Len(A), NEW j \in 1..Len(A), i <= j PROVE A[i].mine \subseteq A[j].mine
      <4>1. i + 1 <= j + 1
        BY <3>2, <2>6
      <4> QED BY <4>1, <2>3, <2>6 DEF Snapshots
    <3> QED BY <3>1, <3>2, <2>3 DEF Snapshots
  <2>8. Trimmed(S) = A
    BY <1>2 DEF Trimmed, A
  <2> QED BY <2>5, <2>7, <2>8
<1> QED BY <1>1, <1>2

(* The snapshots of the blocks of another fork.                            *)
LEMMA SnapshotsFork ==
  ASSUME NEW S, NEW C, NEW late, Snapshots(S, C, late), NEW n \in Nat,
         NEW D, Sound(D, late), C.mine \subseteq D.mine
  PROVE  Snapshots(S \o [i \in 1..n |-> D], D, late)
<1> DEFINE R == [i \in 1..n |-> D]
           A == S \o R
<1>1. S \in Seq(ChainType) /\ Len(S) \in Nat /\ D \in ChainType
  BY DEF Snapshots, Sound
<1>2. R \in Seq(ChainType) /\ Len(R) = n /\ \A i \in 1..n : R[i] = D
  BY <1>1
<1> HIDE DEF R
<1>3. /\ A \in Seq(ChainType) /\ Len(A) = Len(S) + n /\ \A i \in 1..Len(S) : A[i] = S[i]
      /\ \A i \in 1..Len(A) : i > Len(S) => A[i] = D
  <2>1. A \in Seq(ChainType) /\ Len(A) = Len(S) + n
    BY <1>1, <1>2
  <2>2. \A i \in 1..(Len(S) + n) : A[i] = IF i <= Len(S) THEN S[i] ELSE R[i - Len(S)]
    BY <1>1, <1>2
  <2>3. \A i \in 1..(Len(S) + n) : i > Len(S) => i - Len(S) \in 1..n
    BY <1>1
  <2>4. \A i \in 1..Len(S) : i \in 1..(Len(S) + n) /\ i <= Len(S)
    BY <1>1
  <2>5. \A i \in 1..(Len(S) + n) : i > Len(S) => ~(i <= Len(S))
    BY <1>1
  <2> HIDE DEF A
  <2> QED BY <1>2, <2>1, <2>2, <2>3, <2>4, <2>5
<1> HIDE DEF A
<1>4. ASSUME NEW i \in 1..Len(A) PROVE (i \in 1..Len(S) /\ A[i] = S[i]) \/ (i > Len(S) /\ A[i] = D)
  <2>1. i \in 1..Len(S) \/ i > Len(S)
    BY <1>1
  <2> QED BY <2>1, <1>3
<1>5. ASSUME NEW i \in 1..Len(A) PROVE Sound(A[i], late) /\ A[i].mine \subseteq D.mine
  BY <1>4 DEF Snapshots
<1>6. ASSUME NEW i \in 1..Len(A), NEW j \in 1..Len(A), i <= j PROVE A[i].mine \subseteq A[j].mine
  <2>1. CASE j > Len(S) /\ A[j] = D
    BY <2>1, <1>5
  <2>2. CASE j \in 1..Len(S) /\ A[j] = S[j]
    <3>1. i \in 1..Len(S)
      BY <2>2, <1>1, <1>6
    <3> QED BY <3>1, <2>2, <1>3, <1>6 DEF Snapshots
  <2> QED BY <2>1, <2>2, <1>4
<1>7. Snapshots(A, D, late)
  BY <1>3, <1>5, <1>6 DEF Snapshots
<1> QED BY <1>7 DEF A, R

-----------------------------------------------------------------------------
(* Transactions                                                            *)

(* There are finitely many operations.                                     *)
LEMMA OpsFinite == IsFiniteSet(Ops \cup {Other})
<1> DEFINE T == {"submit", "buy", "deliver"}
           F == [x \in T \X URI |-> [type |-> x[1], uri |-> x[2]]]
<1>1. IsFiniteSet({"submit"} \cup {"buy"} \cup {"deliver"})
  BY FS_Singleton, FS_Union
<1>2. {"submit"} \cup {"buy"} \cup {"deliver"} = T
  OBVIOUS
<1>3. IsFiniteSet(T)
  BY <1>1, <1>2
<1>4. IsFiniteSet(T \X URI)
  BY <1>3, UriAssumption, FS_Product
<1>5. Ops = {F[x] : x \in T \X URI}
  <2>1. ASSUME NEW o \in Ops PROVE o \in {F[x] : x \in T \X URI}
    <3>1. o.type \in T /\ o.uri \in URI /\ o = [type |-> o.type, uri |-> o.uri]
      BY DEF Ops
    <3>2. F[<<o.type, o.uri>>] = o /\ <<o.type, o.uri>> \in T \X URI
      BY <3>1
    <3> HIDE DEF F, T
    <3> QED BY <3>2
  <2>2. ASSUME NEW x \in T \X URI PROVE F[x] \in Ops
    BY DEF Ops
  <2> QED BY <2>1, <2>2
<1> HIDE DEF F, T
<1>6. IsFiniteSet(Ops)
  <2> DEFINE D == T \X URI
  <2>1. IsFiniteSet(D) /\ Ops = {F[x] : x \in D} /\ F \in [D -> Ops]
    <3>1. F \in [D -> Ops]
      BY DEF F, T, Ops
    <3> QED BY <3>1, <1>4, <1>5
  <2> HIDE DEF D
  <2>2. F \in Surjection(D, Ops)
    BY <2>1 DEF Surjection
  <2> QED BY <2>1, <2>2, FS_Surjection
<1> QED BY <1>6, FS_Singleton, FS_Union

(* What is pushed again are operations.                                    *)
LEMMA StillValidOps ==
  ASSUME NEW C, NEW ops
  PROVE  StillValid(C, ops) \subseteq Ops
<1>1. ASSUME NEW type \in {"submit", "buy", "deliver"}, NEW S \in SUBSET URI
      PROVE  Of(type, S) \subseteq Ops
  BY DEF Of, Ops
<1>2. \A type : UrisOf(type, ops) \subseteq URI
  BY DEF UrisOf
<1> DEFINE submit  == UrisOf("submit", ops) \ C.past
           buy     == (UrisOf("buy", ops) \cap (C.content \cup submit)) \ (C.past \cup C.requested)
           deliver == UrisOf("deliver", ops) \cap (C.requested \cup buy)
<1>3. submit \in SUBSET URI /\ buy \in SUBSET URI /\ deliver \in SUBSET URI
  BY <1>2
<1>4. StillValid(C, ops) = Of("submit", submit) \cup Of("buy", buy) \cup Of("deliver", deliver)
  BY DEF StillValid
<1> HIDE DEF submit, buy, deliver
<1> QED BY <1>1, <1>3, <1>4

(* What pushing transactions does to the database.                         *)
DbPushed(C) ==
  /\ DbInv' /\ chain'.mine = C.mine /\ chain'.past = C.past
  /\ session' \in BOOLEAN /\ (session' => stack' # <<>>)
  /\ pending' \subseteq Ops \cup {Other}

(* Pending transactions that are pushed again leave the database sound;    *)
(* none of the plugin's objects vanishes.                                  *)
LEMMA PushAllFacts ==
  ASSUME NEW C, NEW S, Sound(C, over), Snapshots(S, C, over), over' = over,
         NEW on \in BOOLEAN, on => S # <<>>, NEW ops, NEW known \in SUBSET (Ops \cup {Other}),
         PushAll(C, S, on, ops, known)
  PROVE  DbPushed(C)
<1> DEFINE ok == StillValid(C, ops)
<1>1. /\ chain' = Apply(C, ok)
      /\ stack' = IF on \/ ops = {} THEN S ELSE Append(S, C)
      /\ session' = (on \/ ops # {})
      /\ pending' = known \cup ok
  BY DEF PushAll
<1>2. ok \subseteq Ops
  BY StillValidOps
<1> HIDE DEF ok
<1>3. C \in ChainType
  BY DEF Sound
<1>4. chain'.mine = C.mine /\ chain'.past = C.past
  BY <1>1, <1>3, ApplyFacts
<1>5. Sound(chain', over)
  BY <1>1, ApplySound
<1>6. Snapshots(stack', chain', over) /\ (session' => stack' # <<>>)
  <2>1. CASE on \/ ops = {}
    <3>1. stack' = S
      BY <1>1, <2>1
    <3> QED BY <3>1, <1>1, <1>4, <2>1, SnapshotsMore
  <2>2. CASE ~(on \/ ops = {})
    <3>1. stack' = Append(S, C)
      BY <1>1, <2>2
    <3>2. C.mine \subseteq chain'.mine
      BY <1>4
    <3> QED BY <3>1, <3>2, SnapshotsAppend
  <2> QED BY <2>1, <2>2
<1>7. session' \in BOOLEAN
  BY <1>1
<1> QED BY <1>1, <1>2, <1>4, <1>5, <1>6, <1>7 DEF DbPushed, DbInv

-----------------------------------------------------------------------------
(* Space                                                                   *)

(* Seeding objects that vanish or run out leave room.                      *)
LEMMA SpaceKept ==
  ASSUME TypeOK, SpaceOffered, phase' = phase, free_space' = free_space,
         chain'.mine \ over' \subseteq chain.mine \ over
  PROVE  SpaceOffered'
<1> DEFINE M == chain.mine \ over
           N == chain'.mine \ over'
<1>1. IsFiniteSet(M)
  <2>1. M \subseteq URI
    BY ChainFields DEF TypeOK
  <2> QED BY <2>1, UriAssumption, FS_Subset
<1>2. Cardinality(N) <= Cardinality(M) /\ Cardinality(N) \in Nat /\ Cardinality(M) \in Nat
  BY <1>1, FS_Subset, FS_CardinalityType
<1>3. free_space \in Nat /\ Space \in Nat
  BY BoundAssumption DEF TypeOK
<1> HIDE DEF M, N
<1>4. phase # "starting" => free_space = 0 \/ free_space + Cardinality(M) <= Space
  BY DEF SpaceOffered, M
<1>5. phase' # "starting" => free_space' = 0 \/ free_space' + Cardinality(N) <= Space
  <2> DEFINE m == Cardinality(M)
             n == Cardinality(N)
  <2>1. n <= m /\ n \in Nat /\ m \in Nat /\ (phase # "starting" => free_space = 0 \/ free_space + m <= Space)
    BY <1>2, <1>4
  <2> HIDE DEF m, n
  <2>2. phase # "starting" => free_space = 0 \/ free_space + n <= Space
    BY <2>1, <1>3
  <2> QED BY <2>2 DEF n
<1> QED BY <1>5 DEF SpaceOffered, N

(* Space that is taken for n contents.                                     *)
LEMMA SpaceTaken ==
  ASSUME NEW f \in 0..Space, NEW new \in SUBSET URI, NEW old \in SUBSET URI,
         NEW all \in SUBSET (old \cup new),
         f = 0 \/ f + Cardinality(old) <= Space
  PROVE  /\ Allocated(f, Cardinality(new)) \in 0..Space
         /\ \/ Allocated(f, Cardinality(new)) = 0
            \/ Allocated(f, Cardinality(new)) + Cardinality(all) <= Space
<1>1. IsFiniteSet(new) /\ IsFiniteSet(old)
  BY UriAssumption, FS_Subset
<1>2. IsFiniteSet(old \cup new) /\ Cardinality(old \cup new) <= Cardinality(old) + Cardinality(new)
  <2>1. /\ IsFiniteSet(old \cup new) /\ IsFiniteSet(old \cap new)
        /\ Cardinality(old \cup new) = Cardinality(old) + Cardinality(new) - Cardinality(old \cap new)
    BY <1>1, FS_Union, FS_Intersection
  <2>2. Cardinality(old) \in Nat /\ Cardinality(new) \in Nat /\ Cardinality(old \cap new) \in Nat
    BY <1>1, <2>1, FS_CardinalityType
  <2> QED BY <2>1, <2>2
<1>3. Cardinality(all) <= Cardinality(old \cup new)
  BY <1>2, FS_Subset
<1> DEFINE a == Cardinality(all)
           u == Cardinality(old \cup new)
           o == Cardinality(old)
           n == Cardinality(new)
<1>4. a \in Nat /\ u \in Nat /\ o \in Nat /\ n \in Nat
  <2>1. IsFiniteSet(all)
    BY <1>2, FS_Subset
  <2> QED BY <1>1, <1>2, <2>1, FS_CardinalityType
<1>5. u <= o + n /\ a <= u /\ (f = 0 \/ f + o <= Space) /\ Space \in Nat
  BY <1>2, <1>3, BoundAssumption
<1> HIDE DEF a, u, o, n
<1>6. Allocated(f, n) \in 0..Space /\ (Allocated(f, n) = 0 \/ Allocated(f, n) + a <= Space)
  BY <1>4, <1>5 DEF Allocated
<1> QED BY <1>6 DEF a, n

-----------------------------------------------------------------------------
(* The steps                                                               *)

(* The rest of the type invariant.                                         *)
DbTypes ==
  session \in BOOLEAN /\ (session => stack # <<>>) /\ pending \subseteq Ops \cup {Other}

(* The plugin's part of it: generate_pors is scheduled once restore_state  *)
(* has come to its end.                                                    *)
PluginTypes ==
  /\ fraud \subseteq URI /\ virtual \subseteq URI /\ over \subseteq URI /\ disk \subseteq URI
  /\ downloads \in [URI -> Seq(0..(Attempts - 1))] /\ releasing \subseteq fraud
  /\ free_space \in 0..Space /\ phase \in {"starting", "running", "partial"}
  /\ rtp \in BOOLEAN /\ por \in BOOLEAN /\ faults \in 0..MaxFaults
  /\ phase = "running" => por

(* Its parts.                                                              *)
LEMMA TypeParts ==
  ASSUME TypeOK
  PROVE  DbTypes /\ PluginTypes
BY DEF TypeOK, DbTypes, PluginTypes

(* And back.                                                               *)
LEMMA TypeAgain ==
  ASSUME DbInv', DbTypes', PluginTypes'
  PROVE  TypeOK'
BY DEF TypeOK, DbInv, DbTypes, PluginTypes, Sound, Snapshots

(* Downloads that are started.                                             *)
LEMMA QueuedType ==
  ASSUME downloads \in [URI -> Seq(0..(Attempts - 1))], NEW S
  PROVE  Queued(S) \in [URI -> Seq(0..(Attempts - 1))]
<1>1. 0 \in 0..(Attempts - 1)
  BY BoundAssumption
<1> DEFINE N == 0..(Attempts - 1)
<1> HIDE DEF N
<1>2. ASSUME NEW u \in URI PROVE Append(downloads[u], 0) \in Seq(N) /\ downloads[u] \in Seq(N)
  BY <1>1 DEF N
<1> QED BY <1>2 DEF Queued, N

(* push_block on top of the head.                                          *)
LEMMA PushBlockInv ==
  ASSUME Inv, NEW ops, NEW past \in SUBSET URI, NEW sync_mode \in BOOLEAN,
         PushBlock(ops, past, sync_mode)
  PROVE  Inv'
<1> USE DEF Inv
<1> DEFINE C0 == Committed
           A  == Apply(C0, ops)
           C1 == [A EXCEPT !.past = past]
           new == NewContent(C1, ops)
           C2 == WithSeedings(C1, new)
           keys == IF sync_mode THEN {} ELSE KeysFor(C2, UrisOf("buy", ops))
           S0 == Append(BlockStack, C0)
           S1 == Trimmed(S0)
           sent == Of("deliver", keys)
           left == pending \ (ops \cup {Other})
<1>1. /\ past \subseteq over \cap C1.content
      /\ free_space' = Allocated(free_space, Cardinality(new))
      /\ \E none \in SUBSET (new \cap disk) : downloads' = Queued(new \ (virtual \cup none))
      /\ UNCHANGED <<over, disk, releasing, threads>>
  BY DEF PushBlock
<1>2. PICK lost \in SUBSET left :
        /\ faults' = faults + Cardinality(lost) /\ faults' <= MaxFaults
        /\ IF keys = {} THEN PushAll(C2, S1, FALSE, left \ lost, {})
           ELSE PushAll(Apply(C2, sent), Append(S1, C1), TRUE, left \ lost, sent)
  BY DEF PushBlock
<1>3. DbTypes /\ PluginTypes
  BY TypeParts
<1>4. Sound(C0, over) /\ Snapshots(BlockStack, C0, over) /\ C0.mine \subseteq chain.mine
  BY CommittedFacts
<1> HIDE DEF C0
<1>5. /\ A \in ChainType /\ A.past = C0.past /\ A.mine = C0.mine
      /\ A.content = C0.content \cup UrisOf("submit", ops)
  BY <1>4, ApplyFacts DEF Sound
<1> HIDE DEF A
<1>6. /\ C1 \in ChainType /\ C1.past = past /\ C1.mine = C0.mine
      /\ C1.content = C0.content \cup UrisOf("submit", ops)
  BY <1>5 DEF ChainType
<1> HIDE DEF C1
<1>7. Sound(C1, over)
  BY <1>1, <1>4, <1>6 DEF Sound
<1>8. new \subseteq URI /\ new \subseteq UrisOf("submit", ops) /\ new \cap over = {}
  BY DEF NewContent, UrisOf
<1> HIDE DEF new
<1>9. /\ C2 \in ChainType /\ C2.past = past /\ C2.mine = C0.mine \cup new
      /\ C2.content = C0.content \cup UrisOf("submit", ops)
  <2>1. C1.mine \cup new \in SUBSET URI
    BY <1>6, <1>8, ChainFields
  <2> QED BY <2>1, <1>6 DEF WithSeedings, ChainType
<1> HIDE DEF C2
<1>10. Sound(C2, over)
  BY <1>6, <1>7, <1>8, <1>9 DEF Sound
<1>11. Snapshots(S1, C1, over) /\ Snapshots(S1, C2, over)
  <2>1. C0.mine \subseteq C1.mine /\ C0.mine \subseteq C2.mine
    BY <1>6, <1>9
  <2>2. Snapshots(S0, C1, over) /\ Snapshots(S0, C2, over)
    BY <2>1, <1>4, SnapshotsAppend
  <2> HIDE DEF S0
  <2> QED BY <2>2, SnapshotsTrimmed
<1> HIDE DEF S1
<1>12. keys \subseteq URI
  BY DEF KeysFor, UrisOf
<1> HIDE DEF keys
<1>13. sent \subseteq Ops
  BY <1>12 DEF Of, Ops
<1> HIDE DEF sent
<1>14. over' = over
  BY <1>1
<1>15. DbInv' /\ DbTypes' /\ chain'.mine = C0.mine \cup new
  <2>1. CASE keys = {}
    <3>1. PushAll(C2, S1, FALSE, left \ lost, {})
      BY <1>2, <2>1
    <3> DEFINE on == FALSE
               known == {}
               again == left \ lost
    <3>2. PushAll(C2, S1, on, again, known) /\ on \in BOOLEAN /\ (on => S1 # <<>>)
          /\ known \in SUBSET (Ops \cup {Other})
      BY <3>1
    <3> HIDE DEF on, known, again
    <3>3. DbPushed(C2)
      BY <3>2, <1>10, <1>11, <1>14, PushAllFacts
    <3> QED BY <3>3, <1>9 DEF DbPushed, DbTypes
  <2>2. CASE keys # {}
    <3> DEFINE D == Apply(C2, sent)
               S2 == Append(S1, C1)
               known == sent
    <3>1. PushAll(D, S2, TRUE, left \ lost, known)
      BY <1>2, <2>2
    <3>2. Sound(D, over) /\ D.mine = C2.mine
      BY <1>9, <1>10, ApplySound, ApplyFacts
    <3>3. Snapshots(S2, D, over) /\ S2 # <<>>
      <4>1. C1.mine \subseteq D.mine
        BY <3>2, <1>6, <1>9
      <4> HIDE DEF D
      <4> QED BY <4>1, <1>7, <1>11, SnapshotsAppend
    <3>4. known \in SUBSET (Ops \cup {Other})
      BY <1>13
    <3> HIDE DEF D, S2, left, known
    <3>5. DbPushed(D)
      BY <3>1, <3>2, <3>3, <3>4, <1>14, PushAllFacts
    <3> QED BY <3>2, <3>5, <1>9 DEF DbPushed, DbTypes
  <2> QED BY <2>1, <2>2
<1>16. faults' \in 0..MaxFaults
  <2>1. IsFiniteSet(lost)
    <3>1. lost \subseteq Ops \cup {Other}
      BY <1>3 DEF DbTypes
    <3> QED BY <3>1, OpsFinite, FS_Subset
  <2>2. Cardinality(lost) \in Nat
    BY <2>1, FS_CardinalityType
  <2> QED BY <2>2, <1>2, <1>3, BoundAssumption DEF PluginTypes
<1>17. free_space' \in 0..Space /\ SpaceOffered'
  <2> DEFINE old == chain.mine \ over
             all == chain'.mine \ over'
  <2>1. old \in SUBSET URI /\ all \in SUBSET (old \cup new) /\ free_space \in 0..Space
    <3>1. chain.mine \subseteq URI
      BY ChainFields DEF DbInv, Sound
    <3> QED BY <3>1, <1>3, <1>4, <1>8, <1>14, <1>15 DEF PluginTypes
  <2>2. phase' = phase
    BY <1>1 DEF threads
  <2>3. phase # "starting" => free_space = 0 \/ free_space + Cardinality(old) <= Space
    BY DEF SpaceOffered
  <2> HIDE DEF old, all
  <2>4. CASE phase # "starting"
    <3>1. /\ Allocated(free_space, Cardinality(new)) \in 0..Space
          /\ \/ Allocated(free_space, Cardinality(new)) = 0
             \/ Allocated(free_space, Cardinality(new)) + Cardinality(all) <= Space
      BY <2>1, <2>3, <2>4, <1>8, SpaceTaken
    <3> QED BY <3>1, <1>1 DEF SpaceOffered, all
  <2>5. CASE phase = "starting"
    <3> DEFINE none == {}
    <3>1. none \in SUBSET URI /\ new \in SUBSET (none \cup new) /\ new \in SUBSET URI
      BY <1>8
    <3>2. free_space + Cardinality(none) <= Space
      BY <2>1, BoundAssumption, FS_EmptySet
    <3> HIDE DEF none
    <3>3. Allocated(free_space, Cardinality(new)) \in 0..Space
      BY <3>1, <3>2, <2>1, SpaceTaken
    <3> QED BY <3>3, <2>2, <2>5, <1>1 DEF SpaceOffered
  <2> QED BY <2>4, <2>5
<1>18. downloads' \in [URI -> Seq(0..(Attempts - 1))]
  BY <1>1, <1>3, QueuedType DEF PluginTypes
<1>19. PluginTypes'
  BY <1>1, <1>3, <1>16, <1>17, <1>18 DEF PluginTypes, threads, kinds
<1>20. TypeOK'
  BY <1>15, <1>19, TypeAgain
<1> QED BY <1>15, <1>17, <1>20

(* A switch to another fork.                                               *)
LEMMA SwitchForkInv ==
  ASSUME Inv, NEW depth \in 1..Len(BlockStack), NEW ops, SwitchFork(depth, ops)
  PROVE  Inv'
<1> USE DEF Inv
<1> DEFINE B  == BlockStack
           k  == (Len(B) - depth) + 1
           C0 == B[k]
           A  == Apply(C0, ops)
           past == Committed.past \cap (C0.content \cup UrisOf("submit", ops))
           C1 == [A EXCEPT !.past = past]
           popped == Of("submit", Committed.content \ C0.content)
                       \cup Of("buy", Committed.requested \ C0.requested)
                       \cup Of("deliver", Committed.answered \ C0.answered)
           again == (popped \cup pending) \ (ops \cup {Other})
           P0 == SubSeq(B, 1, k)
           S1 == P0 \o [i \in 1..depth |-> C1]
           on == FALSE
           known == {}
<1>1. /\ PushAll(C1, Trimmed(S1), on, again, known)
      /\ faults < MaxFaults /\ faults' = faults + 1 /\ UNCHANGED <<over, plugin, threads>>
  BY DEF SwitchFork, Undone
<1>2. DbTypes /\ PluginTypes
  BY TypeParts
<1>3. Sound(Committed, over) /\ Snapshots(B, Committed, over) /\ Committed.mine \subseteq chain.mine
  BY CommittedFacts
<1>4. k \in 1..Len(B) /\ depth \in Nat
  <2>1. Len(B) \in Nat
    BY <1>3 DEF Snapshots
  <2> QED BY <2>1
<1> HIDE DEF B, k
<1>5. /\ Snapshots(P0, C0, over) /\ Sound(C0, over) /\ C0.mine \subseteq Committed.mine
  BY <1>3, <1>4, SnapshotsPrefix
<1> HIDE DEF C0, P0
<1>6. /\ A \in ChainType /\ A.past = C0.past /\ A.mine = C0.mine
      /\ A.content = C0.content \cup UrisOf("submit", ops)
  BY <1>5, ApplyFacts DEF Sound
<1> HIDE DEF A
<1>7. past \in SUBSET URI /\ past \subseteq over /\ past \subseteq A.content
  <2>1. A.content \subseteq URI
    BY <1>6, ChainFields
  <2> QED BY <2>1, <1>3, <1>6 DEF Sound
<1> HIDE DEF past
<1>8. C1 \in ChainType /\ C1.past = past /\ C1.mine = C0.mine /\ C1.content = A.content
  BY <1>6, <1>7 DEF ChainType
<1> HIDE DEF C1
<1>9. Sound(C1, over)
  BY <1>5, <1>6, <1>7, <1>8 DEF Sound
<1>10. Snapshots(S1, C1, over)
  <2>1. C0.mine \subseteq C1.mine
    BY <1>8
  <2> QED BY <2>1, <1>4, <1>5, <1>9, SnapshotsFork
<1> HIDE DEF S1
<1>11. Snapshots(Trimmed(S1), C1, over)
  BY <1>10, SnapshotsTrimmed
<1>12. on \in BOOLEAN /\ (on => Trimmed(S1) # <<>>) /\ known \in SUBSET (Ops \cup {Other}) /\ over' = over
  BY <1>1
<1> HIDE DEF again, on, known
<1>13. DbPushed(C1)
  BY <1>1, <1>9, <1>11, <1>12, PushAllFacts
<1>14. DbInv' /\ DbTypes' /\ chain'.mine = C0.mine
  BY <1>8, <1>13 DEF DbPushed, DbTypes
<1>15. phase' = phase /\ free_space' = free_space
  BY <1>1 DEF threads, plugin
<1>16. SpaceOffered'
  BY <1>3, <1>5, <1>12, <1>14, <1>15, SpaceKept
<1>17. PluginTypes'
  <2>1. faults' \in 0..MaxFaults
    BY <1>1, <1>2, BoundAssumption DEF PluginTypes
  <2> QED BY <2>1, <1>1, <1>2 DEF PluginTypes, threads, kinds, plugin
<1>18. TypeOK'
  BY <1>14, <1>17, TypeAgain
<1> QED BY <1>14, <1>16, <1>18

(* A transaction of somebody else.                                         *)
LEMMA PushTransactionInv ==
  ASSUME Inv, PushTransaction
  PROVE  Inv'
<1> USE DEF Inv
<1>1. /\ pending' = pending \cup {Other} /\ session' = TRUE /\ chain' = chain
      /\ stack' = (IF session THEN stack ELSE Append(stack, chain))
      /\ UNCHANGED <<over, plugin, threads, faults>>
  BY DEF PushTransaction
<1>2. DbTypes /\ PluginTypes
  BY TypeParts
<1>3. DbInv' /\ stack' # <<>>
  <2>1. CASE session
    BY <2>1, <1>1, <1>2 DEF DbInv, DbTypes
  <2>2. CASE ~session
    <3>1. Snapshots(Append(stack, chain), chain, over) /\ Append(stack, chain) # <<>>
      BY SnapshotsAppend DEF DbInv
    <3> QED BY <3>1, <2>2, <1>1 DEF DbInv
  <2> QED BY <2>1, <2>2
<1>4. DbTypes'
  BY <1>1, <1>2, <1>3 DEF DbTypes
<1>5. PluginTypes'
  BY <1>1, <1>2 DEF PluginTypes, threads, kinds, plugin
<1>6. SpaceOffered'
  BY <1>1 DEF SpaceOffered, threads, plugin
<1>7. TypeOK'
  BY <1>3, <1>4, <1>5, TypeAgain
<1> QED BY <1>3, <1>6, <1>7

(* Time passes.                                                            *)
LEMMA ExpireInv ==
  ASSUME Inv, NEW u \in URI, Expire(u)
  PROVE  Inv'
<1> USE DEF Inv
<1>1. over' = over \cup {u} /\ UNCHANGED <<db, plugin, threads, faults>>
  BY DEF Expire
<1>2. DbTypes /\ PluginTypes
  BY TypeParts
<1>3. chain' = chain /\ stack' = stack /\ session' = session /\ pending' = pending
      /\ free_space' = free_space /\ phase' = phase
  BY <1>1 DEF db, plugin, threads
<1>4. \A C : Sound(C, over) => Sound(C, over')
  BY <1>1 DEF Sound
<1>5. DbInv'
  BY <1>3, <1>4 DEF DbInv, Snapshots
<1>6. DbTypes'
  BY <1>2, <1>3 DEF DbTypes
<1>7. PluginTypes'
  BY <1>1, <1>2 DEF PluginTypes, threads, kinds, plugin
<1>8. SpaceOffered'
  BY <1>1, <1>3, SpaceKept
<1>9. TypeOK'
  BY <1>5, <1>6, <1>7, TypeAgain
<1> QED BY <1>5, <1>8, <1>9

(* The node starts again, from a database that is sound.                   *)
LEMMA StartAgain ==
  ASSUME Inv, Sound(chain', over), stack' = <<>>, session' = FALSE, pending' = {},
         downloads' = [u \in URI |-> <<>>], releasing' = {}, free_space' = Space,
         phase' = "starting", rtp' = TRUE, por' = FALSE, faults < MaxFaults, faults' = faults + 1,
         over' = over, kinds' = kinds, disk' \subseteq URI
  PROVE  Inv'
<1> USE DEF Inv
<1>1. DbTypes /\ PluginTypes
  BY TypeParts
<1>2. DbInv'
  <2>1. stack' \in Seq(ChainType) /\ 1..Len(stack') = {}
    BY EmptySeq
  <2> QED BY <2>1 DEF DbInv, Snapshots
<1>3. DbTypes'
  BY DEF DbTypes
<1>4. PluginTypes'
  <2>1. downloads' \in [URI -> Seq(0..(Attempts - 1))]
    <3> DEFINE N == 0..(Attempts - 1)
    <3>1. <<>> \in Seq(N)
      BY EmptySeq
    <3> HIDE DEF N
    <3>2. downloads' \in [URI -> Seq(N)]
      BY <3>1
    <3> QED BY <3>2 DEF N
  <2>2. faults' \in 0..MaxFaults /\ free_space' \in 0..Space
    BY <1>1, BoundAssumption DEF PluginTypes
  <2>3. rtp' \in BOOLEAN /\ por' \in BOOLEAN
    BY Zenon
  <2>4. /\ fraud' \subseteq URI /\ virtual' \subseteq URI /\ over' \subseteq URI
        /\ releasing' \subseteq fraud'
    BY <1>1 DEF PluginTypes, kinds
  <2>5. phase' \in {"starting", "running", "partial"} /\ phase' # "running"
    OBVIOUS
  <2> QED BY <2>1, <2>2, <2>3, <2>4, <2>5 DEF PluginTypes
<1>5. SpaceOffered'
  BY DEF SpaceOffered
<1>6. TypeOK'
  BY <1>2, <1>3, <1>4, TypeAgain
<1> QED BY <1>2, <1>5, <1>6

(* The node stops without closing its database.                            *)
LEMMA CrashedInv ==
  ASSUME Inv, Crashed, faults < MaxFaults, over' = over, kinds' = kinds, disk' \subseteq URI
  PROVE  Inv'
<1> DEFINE C0 == Committed
<1>1. Sound(C0, over)
  BY CommittedFacts DEF Inv
<1>2. chain' = [C0 EXCEPT !.mine = {}, !.downloaded = {}, !.deleted = {}]
  BY DEF Crashed
<1> HIDE DEF C0
<1>3. chain' \in ChainType /\ chain'.past = C0.past /\ chain'.content = C0.content /\ chain'.mine = {}
  BY <1>1, <1>2 DEF Sound, ChainType
<1>4. Sound(chain', over)
  BY <1>1, <1>3 DEF Sound
<1> QED BY <1>4, StartAgain DEF Crashed

(* database::close undoes every block that can be undone.                  *)
LEMMA RestartInv ==
  ASSUME Inv, Restart
  PROVE  Inv'
<1>1. Sound(chain', over)
  <2>1. CASE stack = <<>>
    BY <2>1 DEF Restart, Inv, DbInv
  <2>2. CASE stack # <<>>
    <3>1. stack \in Seq(ChainType)
      BY DEF Inv, DbInv, Snapshots
    <3>2. 1 \in 1..Len(stack)
      BY <3>1, <2>2
    <3>3. chain' = stack[1]
      BY <2>2 DEF Restart, Undone
    <3> QED BY <3>2, <3>3 DEF Inv, DbInv, Snapshots
  <2> QED BY <2>1, <2>2
<1>2. disk' \subseteq URI
  BY DEF Restart, Inv, TypeOK
<1> QED BY <1>1, <1>2, StartAgain DEF Restart

(* What the listeners and generate_pors do to the database: they set flags *)
(* of seeding objects.                                                     *)
LEMMA FlagStep ==
  ASSUME Inv, Sound(chain', over), chain'.mine = chain.mine,
         UNCHANGED <<stack, session, pending, over, free_space, phase>>, PluginTypes'
  PROVE  Inv'
<1> USE DEF Inv
<1>1. DbInv'
  <2>1. Snapshots(stack, chain', over)
    BY SnapshotsMore DEF DbInv
  <2> QED BY <2>1 DEF DbInv
<1>2. DbTypes'
  BY TypeParts DEF DbTypes
<1>3. SpaceOffered'
  BY DEF SpaceOffered
<1>4. TypeOK'
  BY <1>1, <1>2, TypeAgain
<1> QED BY <1>1, <1>3, <1>4

(* One download less.                                                      *)
LEMMA RemoveType ==
  ASSUME NEW N, NEW f \in [URI -> Seq(N)], NEW u \in URI, NEW i \in DOMAIN f[u]
  PROVE  [f EXCEPT ![u] = RemoveAt(@, i)] \in [URI -> Seq(N)]
<1> DEFINE q == f[u]
<1>1. q \in Seq(N) /\ Len(q) \in Nat /\ i \in 1..Len(q)
  OBVIOUS
<1> HIDE DEF q
<1>2. SubSeq(q, 1, i - 1) \in Seq(N)
  BY <1>1
<1>3. SubSeq(q, i + 1, Len(q)) \in Seq(N)
  BY <1>1
<1>4. RemoveAt(q, i) \in Seq(N)
  BY <1>2, <1>3 DEF RemoveAt
<1> QED BY <1>4 DEF q

(* Flags of one object or of several.                                      *)
LEMMA FlagSound ==
  ASSUME NEW C, NEW late, Sound(C, late), NEW S \in SUBSET URI
  PROVE  /\ Sound(release_package(C, S), late) /\ release_package(C, S).mine = C.mine
         /\ Sound([C EXCEPT !.downloaded = @ \cup S], late)
         /\ [C EXCEPT !.downloaded = @ \cup S].mine = C.mine
<1> DEFINE D == [C EXCEPT !.downloaded = @ \cup S]
           E == [C EXCEPT !.deleted = @ \cup S]
<1>0. C \in ChainType
  BY DEF Sound
<1>1. D \in ChainType /\ D.past = C.past /\ D.mine = C.mine /\ D.content = C.content
  BY <1>0 DEF ChainType
<1>2. E \in ChainType /\ E.past = C.past /\ E.mine = C.mine /\ E.content = C.content
  BY <1>0 DEF ChainType
<1>3. release_package(C, S) = E
  BY DEF release_package
<1> HIDE DEF D, E
<1>4. Sound(D, late) /\ Sound(E, late)
  BY <1>1, <1>2 DEF Sound
<1> QED BY <1>1, <1>2, <1>3, <1>4 DEF D

(* package_download_complete.                                              *)
LEMMA CompleteInv ==
  ASSUME Inv, NEW u \in URI, NEW i \in DOMAIN downloads[u], package_download_complete(u, i)
  PROVE  Inv'
<1>1. disk' = disk \cup {u} /\ over' = over
  BY DEF package_download_complete, Fetched
<1>2. DbTypes /\ PluginTypes
  BY TypeParts DEF Inv
<1>3. disk' \subseteq URI
  BY <1>1, <1>2 DEF PluginTypes
<1>4. CASE NoSeeding(u)
  BY <1>1, <1>3, <1>4, CrashedInv DEF NoSeeding
<1>5. CASE ~NoSeeding(u)
  <2>1. /\ downloads' = [downloads EXCEPT ![u] = RemoveAt(@, i)]
        /\ IF u \in fraud
           THEN releasing' = releasing \cup {u} /\ chain' = chain
           ELSE chain' = [chain EXCEPT !.downloaded = @ \cup {u}] /\ releasing' = releasing
        /\ UNCHANGED <<stack, session, pending, free_space, threads, faults>>
    BY <1>5 DEF package_download_complete
  <2>2. downloads' \in [URI -> Seq(0..(Attempts - 1))]
    <3> DEFINE N == 0..(Attempts - 1)
    <3>1. downloads \in [URI -> Seq(N)]
      BY <1>2 DEF PluginTypes
    <3> HIDE DEF N
    <3>2. downloads' \in [URI -> Seq(N)]
      BY <3>1, <2>1, RemoveType
    <3> QED BY <3>2 DEF N
  <2>3. Sound(chain', over) /\ chain'.mine = chain.mine
    <3>1. Sound(chain, over) /\ {u} \in SUBSET URI
      BY DEF Inv, DbInv
    <3>2. CASE u \in fraud
      BY <3>1, <3>2, <2>1
    <3>3. CASE u \notin fraud
      <4>1. chain' = [chain EXCEPT !.downloaded = @ \cup {u}]
        BY <3>3, <2>1
      <4> QED BY <4>1, <3>1, FlagSound
    <3> QED BY <3>2, <3>3
  <2>4. releasing' \subseteq fraud
    BY <1>2, <2>1 DEF PluginTypes
  <2>5. PluginTypes'
    BY <1>1, <1>2, <1>3, <2>1, <2>2, <2>4 DEF PluginTypes, threads, kinds
  <2> QED BY <1>1, <2>1, <2>3, <2>5, FlagStep DEF threads
<1> QED BY <1>4, <1>5

(* package_download_error.                                                 *)
LEMMA ErrorInv ==
  ASSUME Inv, NEW u \in URI, NEW i \in DOMAIN downloads[u], package_download_error(u, i)
  PROVE  Inv'
<1> DEFINE failed == downloads[u][i] + 1
<1>1. over' = over /\ faults < MaxFaults
  BY DEF package_download_error
<1>2. DbTypes /\ PluginTypes
  BY TypeParts DEF Inv
<1>3. Sound(chain, over) /\ {u} \in SUBSET URI
  BY DEF Inv, DbInv
<1>4. CASE NoSeeding(u) /\ disk' = disk
  BY <1>1, <1>2, <1>4, CrashedInv DEF NoSeeding, PluginTypes
<1>5. CASE ~(NoSeeding(u) /\ disk' = disk)
  <2>1. /\ faults' = faults + 1
        /\ IF failed < Attempts
           THEN downloads' = [downloads EXCEPT ![u][i] = failed] /\ UNCHANGED <<chain, disk>>
           ELSE /\ downloads' = [downloads EXCEPT ![u] = RemoveAt(@, i)]
                /\ chain' = release_package(chain, {u}) /\ disk' = Removed(disk, {u})
        /\ UNCHANGED <<stack, session, pending, releasing, free_space, threads>>
    BY <1>5 DEF package_download_error
  <2>2. faults' \in 0..MaxFaults
    BY SMTT(30), <1>1, <1>2, <2>1, BoundAssumption DEF PluginTypes
  <2> DEFINE N == 0..(Attempts - 1)
  <2>3. downloads \in [URI -> Seq(N)] /\ Attempts \in Nat
    BY <1>2, BoundAssumption DEF PluginTypes
  <2>4. CASE failed < Attempts
    <3>1. downloads' = [downloads EXCEPT ![u][i] = failed] /\ chain' = chain /\ disk' = disk
      BY <2>1, <2>4
    <3>2. failed \in N
      <4>1. downloads[u][i] \in N
        BY <2>3
      <4> QED BY <4>1, <2>3, <2>4
    <3> HIDE DEF N, failed
    <3>3. [downloads[u] EXCEPT ![i] = failed] \in Seq(N)
      BY <3>2, <2>3
    <3>4. downloads' \in [URI -> Seq(N)]
      BY <3>1, <3>3, <2>3
    <3>5. PluginTypes'
      BY <1>1, <1>2, <2>1, <2>2, <3>1, <3>4 DEF PluginTypes, threads, kinds, N
    <3> QED BY <1>1, <1>3, <2>1, <3>1, <3>5, FlagStep DEF threads
  <2>5. CASE ~(failed < Attempts)
    <3>1. /\ downloads' = [downloads EXCEPT ![u] = RemoveAt(@, i)]
          /\ chain' = release_package(chain, {u}) /\ disk' = disk \ {u}
      BY <2>1, <2>5 DEF Removed
    <3> HIDE DEF N
    <3>2. downloads' \in [URI -> Seq(N)]
      BY <3>1, <2>3, RemoveType
    <3>3. Sound(chain', over) /\ chain'.mine = chain.mine
      BY <1>3, <3>1, FlagSound
    <3>4. PluginTypes'
      BY <1>1, <1>2, <2>1, <2>2, <3>1, <3>2 DEF PluginTypes, threads, kinds, N
    <3> QED BY <1>1, <2>1, <3>3, <3>4, FlagStep DEF threads
  <2> QED BY <2>4, <2>5
<1> QED BY <1>4, <1>5

(* A package that is larger than it should be.                             *)
LEMMA ReleaseFraudInv ==
  ASSUME Inv, NEW u \in URI, ReleaseFraud(u)
  PROVE  Inv'
<1>1. over' = over
  BY DEF ReleaseFraud
<1>2. DbTypes /\ PluginTypes
  BY TypeParts DEF Inv
<1>3. Sound(chain, over) /\ {u} \in SUBSET URI
  BY DEF Inv, DbInv
<1>4. CASE NoSeeding(u) /\ disk' = disk
  BY <1>1, <1>2, <1>4, CrashedInv DEF NoSeeding, PluginTypes
<1>5. CASE ~(NoSeeding(u) /\ disk' = disk)
  <2>1. /\ releasing' = releasing \ {u}
        /\ chain' = release_package(chain, {u}) /\ disk' = disk \ {u}
        /\ UNCHANGED <<stack, session, pending, downloads, free_space, threads, faults>>
    BY <1>5 DEF ReleaseFraud, Removed
  <2>2. Sound(chain', over) /\ chain'.mine = chain.mine
    BY <1>3, <2>1, FlagSound
  <2>3. PluginTypes'
    BY <1>1, <1>2, <2>1 DEF PluginTypes, threads, kinds
  <2> QED BY <1>1, <2>1, <2>2, <2>3, FlagStep DEF threads
<1> QED BY <1>4, <1>5

(* generate_pors does not end at the assertion in get_content.             *)
LEMMA PorsFacts ==
  ASSUME NEW C, Sound(C, over), NEW D \in SUBSET URI, Pors(C, D)
  PROVE  por' = TRUE /\ Sound(chain', over) /\ chain'.mine = C.mine /\ disk' \subseteq URI
<1> DEFINE held    == (C.mine \cap C.downloaded) \ C.deleted
           expired == held \cap over
<1>1. held \subseteq C.content /\ held \subseteq URI
  BY ChainFields DEF Sound
<1>2. por' = TRUE /\ chain' = release_package(C, expired)
      /\ \E got \in SUBSET ((held \ over) \ D) : disk' = Fetched(Removed(D, expired), got)
  BY <1>1 DEF Pors
<1>3. expired \in SUBSET URI
  BY <1>1
<1>4. disk' \subseteq URI
  BY <1>1, <1>2 DEF Fetched, Removed
<1> HIDE DEF expired
<1> QED BY <1>2, <1>3, <1>4, FlagSound

(* generate_pors.                                                          *)
LEMMA GeneratePorsInv ==
  ASSUME Inv, generate_pors
  PROVE  Inv'
<1>1. /\ Pors(chain, disk)
      /\ UNCHANGED <<stack, session, pending, over, downloads, releasing, free_space, phase, rtp, kinds,
                     faults>>
  BY DEF generate_pors
<1>2. DbTypes /\ PluginTypes
  BY TypeParts DEF Inv
<1>3. Sound(chain, over) /\ disk \in SUBSET URI
  BY <1>2 DEF Inv, DbInv, PluginTypes
<1>4. por' = TRUE /\ Sound(chain', over) /\ chain'.mine = chain.mine /\ disk' \subseteq URI
  BY <1>1, <1>3, PorsFacts
<1>5. PluginTypes'
  BY <1>1, <1>2, <1>4 DEF PluginTypes, kinds
<1> QED BY <1>1, <1>4, <1>5, FlagStep

(* send_ready_to_publish with the keys it sends again.                     *)
LEMMA SendInv ==
  ASSUME Inv, NEW ok \in BOOLEAN, send_ready_to_publish(ok)
  PROVE  Inv'
<1> USE DEF Inv
<1>1. rtp' = ok /\ UNCHANGED <<over, plugin, phase, por, kinds, faults>>
  BY DEF send_ready_to_publish
<1>2. DbTypes /\ PluginTypes
  BY TypeParts
<1>3. PluginTypes'
  BY <1>1, <1>2 DEF PluginTypes, plugin, kinds
<1>4. DbInv' /\ DbTypes' /\ chain'.mine = chain.mine
  <2>1. CASE ok
    <3> DEFINE again == Of("deliver", ResendKeys(chain))
               C == chain
               S == stack
               on == session
               known == pending
    <3>1. PushAll(C, S, on, again, known)
      BY <2>1 DEF send_ready_to_publish
    <3>2. /\ Sound(C, over) /\ Snapshots(S, C, over) /\ on \in BOOLEAN /\ (on => S # <<>>)
          /\ known \in SUBSET (Ops \cup {Other}) /\ over' = over
      BY <1>1, <1>2 DEF DbTypes, DbInv
    <3> HIDE DEF again, C, S, on, known
    <3>3. DbPushed(C)
      BY <3>1, <3>2, PushAllFacts
    <3> QED BY <3>3 DEF DbPushed, DbTypes, C
  <2>2. CASE ~ok
    <3>1. UNCHANGED db
      BY <2>2 DEF send_ready_to_publish
    <3> QED BY <3>1, <1>1, <1>2 DEF db, DbInv, DbTypes
  <2> QED BY <2>1, <2>2
<1>5. SpaceOffered'
  BY <1>1, <1>4 DEF SpaceOffered, plugin
<1>6. TypeOK'
  BY <1>3, <1>4, TypeAgain
<1> QED BY <1>4, <1>5, <1>6

(* restore_state at the start of the plugin.                               *)
LEMMA RestoreInv ==
  ASSUME Inv, restore_state
  PROVE  Inv'
<1> USE DEF Inv
<1> DEFINE run == chain.content \ chain.past
           C1  == WithSeedings(chain, run)
           again == (C1.mine \ disk) \cap C1.past
           throws == again \cap virtual
           Marked(S) == [C1 EXCEPT !.downloaded = @ \cup (S \cap disk)]
<1>1. /\ free_space' = Allocated(free_space, Cardinality(run))
      /\ UNCHANGED <<stack, session, pending, over, releasing, rtp, kinds, faults>>
      /\ \/ /\ phase' = "running" /\ downloads' = Queued(again) /\ Pors(Marked(C1.mine), disk)
         \/ /\ \E S \in SUBSET (C1.mine \ throws) :
                 downloads' = Queued(S \cap again) /\ chain' = Marked(S)
            /\ phase' = "partial" /\ por' = FALSE /\ UNCHANGED disk
  BY DEF restore_state, SpaceRestored
<1>2. DbTypes /\ PluginTypes
  BY TypeParts
<1>3. Sound(chain, over) /\ Snapshots(stack, chain, over) /\ disk \in SUBSET URI
  BY <1>2 DEF DbInv, PluginTypes
<1>4. run \in SUBSET URI /\ run \subseteq chain.content /\ chain \in ChainType
  BY <1>3, ChainFields DEF Sound
<1>5. /\ C1 \in ChainType /\ C1.past = chain.past /\ C1.content = chain.content
      /\ C1.mine = chain.mine \cup run
  <2>1. chain.mine \cup run \in SUBSET URI
    BY <1>4, ChainFields
  <2> HIDE DEF run
  <2> QED BY <2>1, <1>4 DEF WithSeedings, ChainType
<1>6. \A u \in (chain.mine \cup run) \ over : u \in run
  BY <1>3 DEF Sound
<1> HIDE DEF C1, run
<1>7. Sound(C1, over)
  BY <1>3, <1>4, <1>5 DEF Sound
<1>8. ASSUME NEW S PROVE Sound(Marked(S), over) /\ Marked(S).mine = C1.mine
  <2> DEFINE T == S \cap disk
  <2>1. T \in SUBSET URI
    BY <1>3
  <2> HIDE DEF T
  <2>2. Sound([C1 EXCEPT !.downloaded = @ \cup T], over) /\ [C1 EXCEPT !.downloaded = @ \cup T].mine = C1.mine
    BY <2>1, <1>7, FlagSound
  <2> QED BY <2>2 DEF T
<1> HIDE DEF Marked, again, throws
<1>9. /\ Sound(chain', over) /\ chain'.mine = C1.mine /\ disk' \subseteq URI
      /\ phase' \in {"starting", "running", "partial"} /\ por' \in BOOLEAN /\ (phase' = "running" => por')
  <2>1. CASE phase' = "running" /\ Pors(Marked(C1.mine), disk)
    <3> DEFINE C2 == Marked(C1.mine)
    <3>1. Sound(C2, over) /\ C2.mine = C1.mine
      BY <1>8
    <3> HIDE DEF C2
    <3>2. Pors(C2, disk)
      BY <2>1 DEF C2
    <3>3. por' = TRUE /\ Sound(chain', over) /\ chain'.mine = C2.mine /\ disk' \subseteq URI
      BY <3>1, <3>2, <1>3, PorsFacts
    <3> QED BY <2>1, <3>1, <3>3
  <2>2. CASE phase' = "partial" /\ por' = FALSE /\ disk' = disk /\ \E S : chain' = Marked(S)
    <3>1. PICK S : chain' = Marked(S)
      BY <2>2
    <3>2. Sound(chain', over) /\ chain'.mine = C1.mine
      BY <3>1, <1>8
    <3> QED BY <2>2, <3>2, <1>3
  <2> QED BY <2>1, <2>2, <1>1
<1>10. DbInv'
  <2>1. chain.mine \subseteq chain'.mine
    BY <1>5, <1>9
  <2>2. Snapshots(stack, chain', over)
    BY <2>1, <1>3, SnapshotsMore
  <2> QED BY <2>2, <1>1, <1>9 DEF DbInv
<1>11. DbTypes'
  BY <1>1, <1>2 DEF DbTypes
<1>12. free_space' \in 0..Space /\ SpaceOffered'
  <2> DEFINE none == {}
             all == chain'.mine \ over'
  <2>1. none \in SUBSET URI /\ all \in SUBSET (none \cup run)
    BY <1>1, <1>5, <1>6, <1>9
  <2>2. free_space \in 0..Space /\ free_space + Cardinality(none) <= Space
    BY <1>2, BoundAssumption, FS_EmptySet DEF PluginTypes
  <2> HIDE DEF none, all
  <2>3. /\ Allocated(free_space, Cardinality(run)) \in 0..Space
        /\ \/ Allocated(free_space, Cardinality(run)) = 0
           \/ Allocated(free_space, Cardinality(run)) + Cardinality(all) <= Space
    BY <2>1, <2>2, <1>4, SpaceTaken
  <2> QED BY <2>3, <1>1 DEF SpaceOffered, all
<1>13. PluginTypes'
  <2>1. downloads' \in [URI -> Seq(0..(Attempts - 1))]
    BY <1>1, <1>2, QueuedType DEF PluginTypes
  <2> QED BY <2>1, <1>1, <1>2, <1>9, <1>12 DEF PluginTypes, kinds
<1>14. TypeOK'
  BY <1>10, <1>11, <1>13, TypeAgain
<1> QED BY <1>10, <1>12, <1>14

(* The node before it has run.                                             *)
LEMMA InitInv == Init => Inv
<1> SUFFICES ASSUME Init PROVE Inv
  OBVIOUS
<1> DEFINE c0 == CHOOSE c \in ChainType : TRUE
           Z == [content |-> {}, past |-> {}, requested |-> {}, answered |-> {},
                 mine |-> {}, downloaded |-> {}, deleted |-> {}]
<1>1. Z \in ChainType
  BY DEF ChainType
<1> HIDE DEF Z
<1>2. c0 \in ChainType
  BY <1>1
<1> HIDE DEF c0
<1>3. DOMAIN c0 = {"content", "past", "requested", "answered", "mine", "downloaded", "deleted"}
  BY <1>2 DEF ChainType
<1>4. chain = [f \in DOMAIN c0 |-> {}]
  BY DEF Init, c0
<1>5. chain \in ChainType
  BY <1>3, <1>4 DEF ChainType
<1>6. chain.past = {} /\ chain.mine = {}
  BY <1>3, <1>4
<1>7. Sound(chain, over)
  BY <1>5, <1>6 DEF Sound
<1>8. DbInv
  <2>1. stack \in Seq(ChainType) /\ 1..Len(stack) = {}
    BY EmptySeq DEF Init
  <2> QED BY <2>1, <1>7 DEF DbInv, Snapshots
<1>9. downloads \in [URI -> Seq(0..(Attempts - 1))]
  <2> DEFINE N == 0..(Attempts - 1)
  <2>1. <<>> \in Seq(N)
    BY EmptySeq
  <2> HIDE DEF N
  <2>2. downloads \in [URI -> Seq(N)]
    BY <2>1 DEF Init
  <2> QED BY <2>2 DEF N
<1>10. rtp \in BOOLEAN /\ por \in BOOLEAN /\ session \in BOOLEAN
  BY Zenon DEF Init
<1>11. TypeOK
  <2>1. faults \in 0..MaxFaults /\ free_space \in 0..Space
    BY BoundAssumption DEF Init
  <2> QED BY <2>1, <1>5, <1>6, <1>8, <1>9, <1>10 DEF Init, TypeOK, DbInv, Snapshots
<1>12. SpaceOffered
  BY DEF Init, SpaceOffered
<1> QED BY <1>8, <1>11, <1>12 DEF Inv

(* Every step preserves the invariant.                                     *)
LEMMA NextInv == Inv /\ [Next]_vars => Inv'
<1> SUFFICES ASSUME Inv, [Next]_vars PROVE Inv'
  OBVIOUS
<1>1. ASSUME NEW ops \in Blocks, NEW past \in SUBSET URI, NEW sync_mode \in BOOLEAN,
             PushBlock(ops, past, sync_mode)
      PROVE  Inv'
  BY <1>1, PushBlockInv
<1>2. ASSUME NEW depth \in 1..Len(BlockStack), NEW ops \in Blocks, SwitchFork(depth, ops) PROVE Inv'
  BY <1>2, SwitchForkInv
<1>3. CASE PushTransaction
  BY <1>3, PushTransactionInv
<1>4. ASSUME NEW u \in URI, Expire(u) \/ ReleaseFraud(u) PROVE Inv'
  BY <1>4, ExpireInv, ReleaseFraudInv
<1>5. ASSUME NEW u \in URI, NEW i \in DOMAIN downloads[u],
             package_download_complete(u, i) \/ package_download_error(u, i)
      PROVE  Inv'
  BY <1>5, CompleteInv, ErrorInv
<1>6. CASE generate_pors
  BY <1>6, GeneratePorsInv
<1>7. ASSUME NEW ok \in BOOLEAN, send_ready_to_publish(ok) PROVE Inv'
  BY <1>7, SendInv
<1>8. CASE Crash
  <2>1. disk' \subseteq URI
    BY <1>8 DEF Crash, Inv, TypeOK
  <2> QED BY <2>1, <1>8, CrashedInv DEF Crash
<1>9. CASE Restart
  BY <1>9, RestartInv
<1>10. CASE restore_state
  BY <1>10, RestoreInv
<1>11. CASE UNCHANGED vars
  BY <1>11 DEF vars, Inv, TypeOK, DbInv, SpaceOffered
<1> QED BY <1>1, <1>2, <1>3, <1>4, <1>5, <1>6, <1>7, <1>8, <1>9, <1>10, <1>11 DEF Next

-----------------------------------------------------------------------------
(* Theorems                                                                *)

(* The invariant holds in every reachable state.                           *)
THEOREM Invariance == Spec => []Inv
<1> QED BY InitInv, NextInv, PTL DEF Spec

(* The plugin's seeding objects are always for contents of the chain, so   *)
(* that get_content does not end generate_pors: once restore_state has     *)
(* come to its end, the loop goes on.                                      *)
THEOREM TypeCorrect == Spec => []TypeOK
<1>1. Inv => TypeOK
  BY DEF Inv
<1> QED BY <1>1, Invariance, PTL

(* The space offered in ready_to_publish is within the option, through     *)
(* fork switches, crashes and restarts.                                    *)
THEOREM SpaceWithinOption == Spec => []SpaceOffered
<1>1. Inv => SpaceOffered
  BY DEF Inv
<1> QED BY <1>1, Invariance, PTL
=============================================================================
