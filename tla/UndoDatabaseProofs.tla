------------------------- MODULE UndoDatabaseProofs -------------------------
(***************************************************************************)
(* Machine-checked proofs about UndoDatabase, for any number of objects,   *)
(* any values, any depth of sessions and any limit on the history.         *)
(*                                                                         *)
(* The inductive invariant is                                              *)
(*   TypeOK /\ SessionsHaveStates /\ NextIdFresh /\ HistoryFaithful.       *)
(* HistoryFaithful alone is not inductive: merge() needs that an id is     *)
(* never handed out twice, and undo() that the newest state is the one of  *)
(* the session being undone.                                               *)
(***************************************************************************)
EXTENDS UndoDatabase, SequenceTheorems, TLAPS

-----------------------------------------------------------------------------
(* The hooks and merge() on single undo states                             *)

(* A fresh undo state describes "nothing happened".                        *)
LEMMA EmptyDescribes ==
  ASSUME NEW s \in Snapshot
  PROVE  /\ EmptyState \in UndoState
         /\ Describes(EmptyState, s, s)
<1>1. EmptyState \in UndoState
  BY BoundAssumption DEF EmptyState, UndoState, MaybeVal
<1>2. Describes(EmptyState, s, s)
  BY BoundAssumption DEF EmptyState, Describes, ObjectDescribed, Snapshot
<1>. QED  BY <1>1, <1>2

(* on_create keeps the way back.                                           *)
LEMMA CreateDescribes ==
  ASSUME NEW st \in UndoState, NEW b \in Snapshot, NEW a \in Snapshot, NEW v \in Value,
         Describes(st, b, a), IdsBelowNext(b), IdsBelowNext(a), a.next < MaxObjects
  PROVE  /\ OnCreate(st, a.next) \in UndoState
         /\ Describes(OnCreate(st, a.next), b,
                      [objs |-> [a.objs EXCEPT ![a.next] = v], next |-> a.next + 1])
<1>. DEFINE st2 == OnCreate(st, a.next)
            a2  == [objs |-> [a.objs EXCEPT ![a.next] = v], next |-> a.next + 1]
<1>0. a.next \in Ids /\ a.next \in Nat /\ b.next \in Nat /\ v # NoObj
  BY BoundAssumption, ValueAssumption DEF Snapshot, Ids
<1>1. st2 \in UndoState
  <2>1. a.next \in -1..MaxObjects
    BY <1>0, BoundAssumption
  <2>2. (IF st.old_next = -1 THEN a.next ELSE st.old_next) \in -1..MaxObjects
    BY <2>1 DEF UndoState
  <2>3. st.new_ids \cup {a.next} \in SUBSET Ids
    BY <1>0 DEF UndoState
  <2>. QED  BY <2>2, <2>3 DEF OnCreate, UndoState
<1>2. ASSUME NEW id \in Ids PROVE ObjectDescribed(st2, b, a2, id)
  <2>1. CASE id = a.next
    <3>1. a.objs[id] = NoObj
      BY <2>1, <1>0 DEF IdsBelowNext, Snapshot
    <3>2. b.next <= a.next /\ (b.objs[id] # NoObj => id < b.next)
      BY DEF Describes, IdsBelowNext
    <3>3. b.objs[id] = NoObj
      BY <3>2, <2>1, <1>0
    <3>4. st.removed[id] = NoObj /\ st.old_values[id] = NoObj
      BY <3>1, <3>3 DEF Describes, ObjectDescribed
    <3>5. a2.objs[id] = v
      BY <2>1, <1>0 DEF Snapshot
    <3>6. st2.old_values = st.old_values /\ st2.removed = st.removed /\ id \in st2.new_ids
      BY <2>1 DEF OnCreate, UndoState
    <3>7. b.next <= id
      BY <3>2, <2>1
    <3>. QED  BY <3>3, <3>4, <3>5, <3>6, <3>7, <1>0 DEF ObjectDescribed
  <2>2. CASE id # a.next
    <3>1. a2.objs[id] = a.objs[id]
      BY <2>2, <1>0 DEF Snapshot
    <3>2. /\ st2.old_values = st.old_values /\ st2.removed = st.removed
          /\ id \in st2.new_ids <=> id \in st.new_ids
      BY <2>2 DEF OnCreate, UndoState
    <3>3. ObjectDescribed(st, b, a, id)
      BY DEF Describes
    <3>. QED  BY <3>1, <3>2, <3>3 DEF ObjectDescribed
  <2>. QED  BY <2>1, <2>2
<1>3. /\ st2.old_next = -1 => b.next = a2.next
      /\ st2.old_next # -1 => b.next = st2.old_next
      /\ b.next <= a2.next
  BY <1>0 DEF Describes, OnCreate, UndoState
<1>4. Describes(st2, b, a2)
  BY <1>2, <1>3 DEF Describes
<1>. QED  BY <1>1, <1>4

(* on_modify keeps the way back.                                           *)
LEMMA ModifyDescribes ==
  ASSUME NEW st \in UndoState, NEW b \in Snapshot, NEW a \in Snapshot, NEW v \in Value,
         NEW x \in Ids, Describes(st, b, a), a.objs[x] # NoObj
  PROVE  /\ OnModify(st, x, a.objs[x]) \in UndoState
         /\ Describes(OnModify(st, x, a.objs[x]), b,
                      [objs |-> [a.objs EXCEPT ![x] = v], next |-> a.next])
<1>. DEFINE st2 == OnModify(st, x, a.objs[x])
            a2  == [objs |-> [a.objs EXCEPT ![x] = v], next |-> a.next]
<1>0. v # NoObj /\ a.objs[x] \in MaybeVal
  BY ValueAssumption DEF Snapshot
<1>1. st2 \in UndoState
  BY <1>0 DEF OnModify, UndoState
<1>2. st2.new_ids = st.new_ids /\ st2.removed = st.removed /\ st2.old_next = st.old_next
  BY DEF OnModify, UndoState
<1>3. ASSUME NEW id \in Ids PROVE ObjectDescribed(st2, b, a2, id)
  <2>0. ObjectDescribed(st, b, a, id)
    BY DEF Describes
  <2>1. CASE id # x
    <3>1. a2.objs[id] = a.objs[id] /\ st2.old_values[id] = st.old_values[id]
      BY <2>1 DEF Snapshot, OnModify, UndoState
    <3>. QED  BY <2>0, <3>1, <1>2 DEF ObjectDescribed
  <2>2. CASE id = x
    <3>1. a2.objs[id] = v
      BY <2>2 DEF Snapshot
    <3>2. st2.old_values[id] = IF id \in st.new_ids \/ st.old_values[id] # NoObj
                               THEN st.old_values[id] ELSE a.objs[id]
      BY <2>2 DEF OnModify, UndoState
    <3>. QED  BY <2>0, <2>2, <3>1, <3>2, <1>0, <1>2 DEF ObjectDescribed
  <2>. QED  BY <2>1, <2>2
<1>4. Describes(st2, b, a2)
  BY <1>2, <1>3 DEF Describes
<1>. QED  BY <1>1, <1>4

(* on_remove keeps the way back.                                           *)
LEMMA RemoveDescribes ==
  ASSUME NEW st \in UndoState, NEW b \in Snapshot, NEW a \in Snapshot,
         NEW x \in Ids, Describes(st, b, a), a.objs[x] # NoObj
  PROVE  /\ OnRemove(st, x, a.objs[x]) \in UndoState
         /\ Describes(OnRemove(st, x, a.objs[x]), b,
                      [objs |-> [a.objs EXCEPT ![x] = NoObj], next |-> a.next])
<1>. DEFINE st2 == OnRemove(st, x, a.objs[x])
            a2  == [objs |-> [a.objs EXCEPT ![x] = NoObj], next |-> a.next]
<1>0. a.objs[x] \in MaybeVal /\ NoObj \in MaybeVal
  BY DEF Snapshot, MaybeVal
<1>1. st2 \in UndoState
  BY <1>0 DEF OnRemove, UndoState
<1>2. st2.old_next = st.old_next
  BY DEF OnRemove, UndoState
<1>3. ASSUME NEW id \in Ids PROVE ObjectDescribed(st2, b, a2, id)
  <2>0. ObjectDescribed(st, b, a, id)
    BY DEF Describes
  <2>1. CASE id # x
    <3>1. /\ a2.objs[id] = a.objs[id] /\ st2.old_values[id] = st.old_values[id]
          /\ st2.removed[id] = st.removed[id] /\ (id \in st2.new_ids <=> id \in st.new_ids)
      BY <2>1 DEF Snapshot, OnRemove, UndoState
    <3>. QED  BY <2>0, <3>1 DEF ObjectDescribed
  <2>2. CASE id = x
    <3>1. a2.objs[id] = NoObj
      BY <2>2 DEF Snapshot
    <3>2. CASE id \in st.new_ids
      <4>1. /\ id \notin st2.new_ids /\ st2.removed[id] = st.removed[id]
            /\ st2.old_values[id] = st.old_values[id]
        BY <2>2, <3>2 DEF OnRemove, UndoState
      <4>. QED  BY <2>0, <3>1, <3>2, <4>1 DEF ObjectDescribed
    <3>3. CASE id \notin st.new_ids /\ st.old_values[id] # NoObj
      <4>1. /\ st2.new_ids = st.new_ids /\ st2.removed[id] = st.old_values[id]
            /\ st2.old_values[id] = NoObj
        BY <2>2, <3>3 DEF OnRemove, UndoState
      <4>. QED  BY <2>0, <3>1, <3>3, <4>1 DEF ObjectDescribed
    <3>4. CASE id \notin st.new_ids /\ st.old_values[id] = NoObj
      <4>1. st.removed[id] = NoObj
        BY <2>0, <2>2 DEF ObjectDescribed
      <4>2. /\ st2.new_ids = st.new_ids /\ st2.removed[id] = a.objs[id]
            /\ st2.old_values[id] = NoObj
        BY <2>2, <3>4, <4>1 DEF OnRemove, UndoState
      <4>. QED  BY <2>0, <2>2, <3>1, <3>4, <4>1, <4>2 DEF ObjectDescribed
    <3>. QED  BY <3>2, <3>3, <3>4
  <2>. QED  BY <2>1, <2>2
<1>4. Describes(st2, b, a2)
  BY <1>2, <1>3 DEF Describes
<1>. QED  BY <1>1, <1>4

(* In a causal history an object created in the later state was never in   *)
(* the earlier one, and a removed object stays removed: the N/A cells.     *)
LEMMA NoAcausalCell ==
  ASSUME NEW A \in UndoState, NEW B \in UndoState,
         NEW b \in Snapshot, NEW m \in Snapshot, NEW a \in Snapshot,
         Describes(A, b, m), Describes(B, m, a),
         IdsBelowNext(b), IdsBelowNext(m), NEW id \in Ids
  PROVE  /\ id \in B.new_ids => /\ id \notin A.new_ids
                                /\ A.old_values[id] = NoObj /\ A.removed[id] = NoObj
         /\ A.removed[id] # NoObj => B.old_values[id] = NoObj /\ B.removed[id] = NoObj
<1>0. ObjectDescribed(A, b, m, id) /\ ObjectDescribed(B, m, a, id)
  BY DEF Describes
<1>1. b.next \in Nat /\ m.next \in Nat /\ id \in Nat /\ b.next <= m.next
  BY BoundAssumption DEF Snapshot, Ids, Describes
<1>2. (b.objs[id] # NoObj => id < b.next) /\ (m.objs[id] # NoObj => id < m.next)
  BY DEF IdsBelowNext
<1>. QED  BY <1>0, <1>1, <1>2 DEF ObjectDescribed

(* merge() composes the ways back of the two states.                       *)
LEMMA MergeDescribes ==
  ASSUME NEW A \in UndoState, NEW B \in UndoState,
         NEW b \in Snapshot, NEW m \in Snapshot, NEW a \in Snapshot,
         Describes(A, b, m), Describes(B, m, a),
         IdsBelowNext(b), IdsBelowNext(m)
  PROVE  /\ MergeStates(A, B) \in UndoState
         /\ Describes(MergeStates(A, B), b, a)
<1>. DEFINE M == MergeStates(A, B)
<1>1. M \in UndoState
  BY DEF MergeStates, MergedNew, MergedOld, MergedRemoved, MergedNext, UndoState, MaybeVal
<1>2. ASSUME NEW id \in Ids PROVE ObjectDescribed(M, b, a, id)
  <2>1. ObjectDescribed(A, b, m, id) /\ ObjectDescribed(B, m, a, id)
    BY DEF Describes
  <2>2. /\ id \in B.new_ids => /\ id \notin A.new_ids
                               /\ A.old_values[id] = NoObj /\ A.removed[id] = NoObj
        /\ A.removed[id] # NoObj => B.old_values[id] = NoObj /\ B.removed[id] = NoObj
    BY NoAcausalCell
  <2>3. id \in M.new_ids <=> /\ id \in A.new_ids \/ id \in B.new_ids
                             /\ ~(id \in A.new_ids /\ B.removed[id] # NoObj)
    BY DEF MergeStates, MergedNew, UndoState
  <2>4. M.old_values[id] = IF A.old_values[id] # NoObj
                           THEN IF B.removed[id] # NoObj THEN NoObj ELSE A.old_values[id]
                           ELSE IF id \in A.new_ids THEN NoObj ELSE B.old_values[id]
    BY DEF MergeStates, MergedOld
  <2>5. M.removed[id] = IF B.removed[id] = NoObj \/ id \in A.new_ids THEN A.removed[id]
                        ELSE IF A.old_values[id] # NoObj THEN A.old_values[id]
                        ELSE B.removed[id]
    BY DEF MergeStates, MergedRemoved
  <2>6. b.next \in Nat /\ m.next \in Nat /\ id \in Nat /\ b.next <= m.next
    BY BoundAssumption DEF Snapshot, Ids, Describes
  <2>. QED  BY <2>1, <2>2, <2>3, <2>4, <2>5, <2>6 DEF ObjectDescribed
<1>3. /\ M.old_next = -1 => b.next = a.next
      /\ M.old_next # -1 => b.next = M.old_next
      /\ b.next <= a.next
  BY BoundAssumption DEF Describes, MergeStates, MergedNext, UndoState, Snapshot
<1>4. Describes(M, b, a)
  BY <1>2, <1>3 DEF Describes
<1>. QED  BY <1>1, <1>4

(* undo() and pop_commit() meet no missing object and no id in use, and    *)
(* put back exactly the database the state was opened on.                  *)
LEMMA RevertRestores ==
  ASSUME NEW st \in UndoState, NEW b \in Snapshot, TypeOK, Describes(st, b, Current)
  PROVE  /\ Revertible(st)
         /\ Revert(st) => /\ objs' = b.objs
                          /\ next_id' = b.next
                          /\ Current' = b
<1>0. Current.objs = objs /\ Current.next = next_id
  BY DEF Current
<1>1. \A id \in Ids : ObjectDescribed(st, b, Current, id)
  BY DEF Describes
<1>2. Revertible(st)
  BY <1>0, <1>1 DEF ObjectDescribed, Revertible, Exists
<1>3. ASSUME Revert(st) PROVE objs' = b.objs /\ next_id' = b.next
  <2>1. ASSUME NEW id \in Ids PROVE objs'[id] = b.objs[id]
    BY <1>0, <1>1, <1>3 DEF Revert, ObjectDescribed
  <2>2. objs' = [id \in Ids |-> objs'[id]] /\ b.objs = [id \in Ids |-> b.objs[id]]
    BY <1>3 DEF Revert, Snapshot
  <2>3. objs' = b.objs
    BY <2>1, <2>2
  <2>4. next_id' = b.next
    BY <1>0, <1>3 DEF Revert, Describes
  <2>. QED  BY <2>3, <2>4
<1>4. b = [objs |-> b.objs, next |-> b.next]
  BY DEF Snapshot
<1>. QED  BY <1>2, <1>3, <1>4 DEF Current

-----------------------------------------------------------------------------
(* The same on whole histories                                             *)

Snapshots0 == Snapshot \cup {Lost}

(* The marker is no snapshot.                                              *)
LEMMA LostIsNoSnapshot == Lost \notin Snapshot
  BY ValueAssumption DEF Snapshot, Ids, MaybeVal

(* What pop_front leaves of a deque.                                       *)
LEMMA NewestnProperties ==
  ASSUME NEW S, NEW s \in Seq(S), NEW n \in Nat
  PROVE  /\ Newestn(s, n) \in Seq(S)
         /\ Len(Newestn(s, n)) = IF Len(s) <= n THEN Len(s) ELSE n
         /\ \A i \in 1..Len(Newestn(s, n)) :
              Newestn(s, n)[i] = s[Len(s) - Len(Newestn(s, n)) + i]
<1>1. CASE Len(s) <= n
  BY <1>1, LenProperties DEF Newestn
<1>2. CASE ~(Len(s) <= n)
  <2>. DEFINE k == Len(s) - n + 1
  <2>1. Len(s) \in Nat /\ k \in Int /\ k <= Len(s) + 1 /\ 1 <= k
    BY <1>2, LenProperties
  <2>2. \A i \in k..Len(s) : s[i] \in S
    BY <2>1, ElementOfSeq
  <2>3. /\ SubSeq(s, k, Len(s)) \in Seq(S)
        /\ Len(SubSeq(s, k, Len(s))) = IF k <= Len(s) THEN Len(s) - k + 1 ELSE 0
        /\ \A i \in 1..(Len(s) - k + 1) : SubSeq(s, k, Len(s))[i] = s[k + i - 1]
    BY <2>1, <2>2, SubSeqProperties
  <2>4. Newestn(s, n) = SubSeq(s, k, Len(s))
    BY <1>2 DEF Newestn
  <2>. QED  BY <2>1, <2>3, <2>4
<1>. QED  BY <1>1, <1>2

(* All but the last element.                                               *)
LEMMA FrontProperties ==
  ASSUME NEW S, NEW s \in Seq(S), Len(s) >= 1
  PROVE  /\ SubSeq(s, 1, Len(s) - 1) \in Seq(S)
         /\ Len(SubSeq(s, 1, Len(s) - 1)) = Len(s) - 1
         /\ \A i \in 1..(Len(s) - 1) : SubSeq(s, 1, Len(s) - 1)[i] = s[i]
<1>1. Len(s) \in Nat /\ \A i \in 1..(Len(s) - 1) : s[i] \in S
  BY LenProperties, ElementOfSeq
<1>. DEFINE n == Len(s) - 1
<1>2. n \in Int /\ 1 \in Int /\ n >= 0
  BY <1>1
<1>3. \A i \in 1..n : s[i] \in S
  BY <1>1
<1>. HIDE DEF n
<1>4. /\ SubSeq(s, 1, n) \in Seq(S)
      /\ Len(SubSeq(s, 1, n)) = IF 1 <= n THEN n - 1 + 1 ELSE 0
      /\ \A i \in 1..(n - 1 + 1) : SubSeq(s, 1, n)[i] = s[1 + i - 1]
  BY <1>2, <1>3, SubSeqProperties
<1>5. /\ SubSeq(s, 1, n) \in Seq(S)
      /\ Len(SubSeq(s, 1, n)) = n
      /\ \A i \in 1..n : SubSeq(s, 1, n)[i] = s[i]
  BY <1>2, <1>4
<1>. QED  BY <1>5 DEF n

(* Replacing the newest undo state by one that leads to the new database.  *)
LEMMA LinkedRecord ==
  ASSUME NEW stk \in Seq(UndoState), NEW svd \in Seq(Snapshots0),
         Len(stk) = Len(svd), Len(svd) >= 1,
         NEW c, NEW d \in Snapshot, NEW st \in UndoState,
         Linked(stk, svd, c),
         svd[Len(svd)] # Lost => Describes(st, svd[Len(svd)], d)
  PROVE  /\ [stk EXCEPT ![Len(stk)] = st] \in Seq(UndoState)
         /\ Len([stk EXCEPT ![Len(stk)] = st]) = Len(stk)
         /\ Linked([stk EXCEPT ![Len(stk)] = st], svd, d)
<1>. DEFINE stk2 == [stk EXCEPT ![Len(stk)] = st]
<1>0. Len(svd) \in Nat
  BY LenProperties
<1>1. /\ stk2 \in Seq(UndoState) /\ Len(stk2) = Len(stk)
      /\ \A j \in 1..Len(stk) : stk2[j] = IF j = Len(stk) THEN st ELSE stk[j]
  BY <1>0, ExceptSeq
<1>. HIDE DEF stk2
<1>2. Linked(stk2, svd, d)
  BY <1>0, <1>1, LostIsNoSnapshot DEF Linked
<1>. QED  BY <1>1, <1>2 DEF stk2

(* start_undo_session: trimming the old end and adding an empty state.     *)
LEMMA LinkedOpen ==
  ASSUME NEW stk \in Seq(UndoState), NEW svd \in Seq(Snapshots0), Len(stk) = Len(svd),
         NEW n \in Nat, NEW c \in Snapshot, Linked(stk, svd, c)
  PROVE  Linked(Append(Newestn(stk, n), EmptyState), Append(Newestn(svd, n), c), c)
<1>. DEFINE a == Newestn(stk, n)
            b == Newestn(svd, n)
<1>0. Len(stk) \in Nat
  BY LenProperties
<1>1. /\ a \in Seq(UndoState) /\ b \in Seq(Snapshots0) /\ Len(a) = Len(b) /\ Len(a) \in Nat
      /\ Len(b) <= Len(svd)
      /\ \A i \in 1..Len(b) : /\ a[i] = stk[Len(svd) - Len(b) + i]
                              /\ b[i] = svd[Len(svd) - Len(b) + i]
  <2>1. /\ a \in Seq(UndoState) /\ Len(a) = IF Len(stk) <= n THEN Len(stk) ELSE n
        /\ \A i \in 1..Len(a) : a[i] = stk[Len(stk) - Len(a) + i]
    BY NewestnProperties
  <2>2. /\ b \in Seq(Snapshots0) /\ Len(b) = IF Len(svd) <= n THEN Len(svd) ELSE n
        /\ \A i \in 1..Len(b) : b[i] = svd[Len(svd) - Len(b) + i]
    BY NewestnProperties
  <2>. HIDE DEF a, b
  <2>3. Len(a) = Len(b) /\ Len(a) \in Nat /\ Len(b) <= Len(svd)
    BY <1>0, <2>1, <2>2
  <2>. QED  BY <2>1, <2>2, <2>3
<1>2. EmptyState \in UndoState /\ Describes(EmptyState, c, c)
  BY EmptyDescribes
<1>. HIDE DEF a, b
<1>3. /\ Len(Append(b, c)) = Len(b) + 1
      /\ \A i \in 1..Len(b) : /\ Append(a, EmptyState)[i] = a[i]
                              /\ Append(b, c)[i] = b[i]
      /\ Append(a, EmptyState)[Len(b) + 1] = EmptyState
      /\ Append(b, c)[Len(b) + 1] = c
  BY <1>1
<1>4. ASSUME NEW i \in 1..(Len(b) + 1), Append(b, c)[i] # Lost
      PROVE LET after == IF i = Len(b) + 1 THEN c ELSE Append(b, c)[i + 1]
            IN after # Lost /\ Describes(Append(a, EmptyState)[i], Append(b, c)[i], after)
  <2>1. CASE i = Len(b) + 1
    BY <2>1, <1>2, <1>3, LostIsNoSnapshot
  <2>2. CASE i = Len(b) /\ Len(b) >= 1
    <3>1. a[i] = stk[Len(svd)] /\ b[i] = svd[Len(svd)] /\ Len(svd) \in 1..Len(svd)
      BY SMTT(30), <2>2, <1>0, <1>1
    <3>2. Describes(stk[Len(svd)], svd[Len(svd)], c)
      BY <3>1, <2>2, <1>1, <1>3, <1>4 DEF Linked
    <3>. QED  BY <2>2, <3>1, <3>2, <1>1, <1>3, LostIsNoSnapshot
  <2>3. CASE i < Len(b)
    <3>. DEFINE j == Len(svd) - Len(b) + i
    <3>1. j \in 1..Len(svd) /\ j # Len(svd) /\ i + 1 \in 1..Len(b) /\ i \in 1..Len(b)
      BY <2>3, <1>0, <1>1
    <3>2. a[i] = stk[j] /\ b[i] = svd[j] /\ b[i + 1] = svd[j + 1]
      BY <3>1, <1>0, <1>1
    <3>3. svd[j + 1] # Lost /\ Describes(stk[j], svd[j], svd[j + 1])
      BY <3>1, <3>2, <1>3, <1>4 DEF Linked
    <3>. QED  BY <2>3, <3>1, <3>2, <3>3, <1>1, <1>3
  <2>. QED  BY <2>1, <2>2, <2>3, <1>1
<1>5. Linked(Append(a, EmptyState), Append(b, c), c)
  BY <1>3, <1>4 DEF Linked
<1>. QED  BY <1>5 DEF a, b

(* Dropping the newest state leaves the way back from where it was opened. *)
LEMMA LinkedDrop ==
  ASSUME NEW stk \in Seq(UndoState), NEW svd \in Seq(Snapshots0), Len(stk) = Len(svd),
         Len(svd) >= 1, NEW c, Linked(stk, svd, c), svd[Len(svd)] # Lost
  PROVE  Linked(SubSeq(stk, 1, Len(stk) - 1), SubSeq(svd, 1, Len(svd) - 1), svd[Len(svd)])
<1>. DEFINE a == SubSeq(stk, 1, Len(stk) - 1)
            b == SubSeq(svd, 1, Len(svd) - 1)
<1>1. /\ Len(b) = Len(svd) - 1 /\ Len(svd) \in Nat
      /\ \A i \in 1..(Len(svd) - 1) : a[i] = stk[i] /\ b[i] = svd[i]
  BY FrontProperties, LenProperties
<1>. HIDE DEF a, b
<1>2. Linked(a, b, svd[Len(svd)])
  BY <1>1 DEF Linked
<1>. QED  BY <1>2 DEF a, b

(* merge(): the last two states become one.                                *)
LEMMA LinkedMerge ==
  ASSUME NEW stk \in Seq(UndoState), NEW svd \in Seq(Snapshots0), Len(stk) = Len(svd),
         Len(svd) >= 2, NEW c \in Snapshot, Linked(stk, svd, c), AllFresh(svd),
         svd[Len(svd)] # Lost,
         NEW t, t = [SubSeq(stk, 1, Len(stk) - 1) EXCEPT
                       ![Len(stk) - 1] = MergeStates(stk[Len(stk) - 1], stk[Len(stk)])]
  PROVE  /\ t \in Seq(UndoState)
         /\ Len(t) = Len(stk) - 1
         /\ Linked(t, SubSeq(svd, 1, Len(svd) - 1), c)
<1>. DEFINE n == Len(svd)
            a == SubSeq(stk, 1, n - 1)
            b == SubSeq(svd, 1, n - 1)
            M == MergeStates(stk[n - 1], stk[n])
<1>1. /\ n \in Nat /\ Len(a) = n - 1 /\ Len(b) = n - 1 /\ a \in Seq(UndoState)
      /\ \A i \in 1..(n - 1) : a[i] = stk[i] /\ b[i] = svd[i]
  BY FrontProperties, LenProperties
<1>2. /\ stk[n - 1] \in UndoState /\ stk[n] \in UndoState
      /\ svd[n - 1] \in Snapshots0 /\ svd[n] \in Snapshot
  BY <1>1, ElementOfSeq DEF Snapshots0
<1>3. M \in UndoState
  BY <1>2 DEF MergeStates, MergedNew, MergedOld, MergedRemoved, MergedNext, UndoState, MaybeVal
<1>4. svd[n - 1] # Lost => Describes(M, svd[n - 1], c)
  <2>. SUFFICES ASSUME svd[n - 1] # Lost PROVE Describes(M, svd[n - 1], c)
    OBVIOUS
  <2>1. n - 1 \in 1..n /\ n \in 1..n /\ n - 1 # n /\ (n - 1) + 1 = n
    BY <1>1
  <2>2. Describes(stk[n - 1], svd[n - 1], svd[n]) /\ Describes(stk[n], svd[n], c)
    BY <2>1 DEF Linked
  <2>3. IdsBelowNext(svd[n - 1]) /\ IdsBelowNext(svd[n])
    BY <2>1 DEF AllFresh
  <2>4. svd[n - 1] \in Snapshot
    BY <1>2 DEF Snapshots0
  <2>. QED  BY <1>2, <2>2, <2>3, <2>4, MergeDescribes
<1>5. /\ t \in Seq(UndoState) /\ Len(t) = n - 1
      /\ \A j \in 1..(n - 1) : t[j] = IF j = n - 1 THEN M ELSE stk[j]
  <2>1. n - 1 \in 1..Len(a)
    BY <1>1
  <2>2. t = [a EXCEPT ![n - 1] = M]
    OBVIOUS
  <2>3. /\ t \in Seq(UndoState) /\ Len(t) = Len(a)
        /\ \A j \in 1..Len(a) : t[j] = IF j = n - 1 THEN M ELSE a[j]
    <3>. HIDE DEF a, M, n
    <3>1. /\ [a EXCEPT ![n - 1] = M] \in Seq(UndoState)
          /\ Len([a EXCEPT ![n - 1] = M]) = Len(a)
          /\ \A j \in 1..Len(a) : [a EXCEPT ![n - 1] = M][j] = IF j = n - 1 THEN M ELSE a[j]
      BY <2>1, <1>1, <1>3, ExceptSeq
    <3>. QED  BY <2>2, <3>1
  <2>. QED  BY <2>3, <1>1
<1>. HIDE DEF a, b, M
<1>6. Linked(t, b, c)
  BY <1>1, <1>4, <1>5, LostIsNoSnapshot DEF Linked
<1>. QED  BY <1>5, <1>6 DEF b

-----------------------------------------------------------------------------
(* The inductive invariant                                                 *)

IndInv == TypeOK /\ SessionsHaveStates /\ NextIdFresh /\ HistoryFaithful

(* The current database is a snapshot.                                     *)
LEMMA CurrentIsSnapshot == ASSUME TypeOK PROVE Current \in Snapshot
  BY DEF TypeOK, Current, Snapshot

(* The history a hook extends, emplaced if there is none.                  *)
LEMMA RecordingLinked ==
  ASSUME IndInv
  PROVE  /\ Recording \in Seq(UndoState) /\ RecordingSaved \in Seq(Snapshots0)
         /\ Len(Recording) = Len(RecordingSaved) /\ Len(Recording) \in Nat /\ Len(Recording) >= 1
         /\ Len(stack) <= Len(Recording) /\ (stack # <<>> => RecordingSaved = saved)
         /\ Linked(Recording, RecordingSaved, Current) /\ AllFresh(RecordingSaved)
         /\ Newest \in UndoState
         /\ LET b == RecordingSaved[Len(RecordingSaved)]
            IN b # Lost => b \in Snapshot /\ IdsBelowNext(b) /\ Describes(Newest, b, Current)
<1>1. /\ Recording \in Seq(UndoState) /\ RecordingSaved \in Seq(Snapshots0)
      /\ Len(Recording) = Len(RecordingSaved) /\ Len(Recording) \in Nat /\ Len(Recording) >= 1
      /\ Len(stack) <= Len(Recording) /\ (stack # <<>> => RecordingSaved = saved)
      /\ Linked(Recording, RecordingSaved, Current) /\ AllFresh(RecordingSaved)
  <2>1. CASE stack = <<>>
    <3>1. Recording = <<EmptyState>> /\ RecordingSaved = <<Current>>
      BY <2>1 DEF Recording, RecordingSaved
    <3>2. Current \in Snapshot /\ EmptyState \in UndoState /\ Describes(EmptyState, Current, Current)
      BY CurrentIsSnapshot, EmptyDescribes DEF IndInv
    <3>3. Current # Lost
      BY <3>2, LostIsNoSnapshot
    <3>4. IdsBelowNext(Current)
      BY DEF IndInv, NextIdFresh
    <3>5. Len(<<Current>>) = 1 /\ <<Current>>[1] = Current /\ <<EmptyState>>[1] = EmptyState
          /\ <<EmptyState>> \in Seq(UndoState) /\ <<Current>> \in Seq(Snapshots0)
          /\ Len(<<EmptyState>>) = 1 /\ Len(stack) = 0
      BY <2>1, <3>2 DEF Snapshots0
    <3>6. Linked(<<EmptyState>>, <<Current>>, Current)
      BY <3>2, <3>3, <3>5 DEF Linked
    <3>7. AllFresh(<<Current>>)
      BY <3>4, <3>5 DEF AllFresh
    <3>. QED  BY <2>1, <3>1, <3>5, <3>6, <3>7
  <2>2. CASE stack # <<>>
    <3>1. Recording = stack /\ RecordingSaved = saved
      BY <2>2 DEF Recording, RecordingSaved
    <3>2. stack \in Seq(UndoState) /\ saved \in Seq(Snapshots0) /\ Len(saved) = Len(stack)
      BY DEF IndInv, TypeOK, SessionsHaveStates, Snapshots0
    <3>3. Len(stack) \in Nat /\ Len(stack) >= 1
      BY <2>2, <3>2, EmptySeq
    <3>. QED  BY <3>1, <3>2, <3>3 DEF IndInv, HistoryFaithful, NextIdFresh
  <2>. QED  BY <2>1, <2>2
<1>2. Newest \in UndoState
  BY <1>1, ElementOfSeq DEF Newest
<1>3. LET b == RecordingSaved[Len(RecordingSaved)]
      IN b # Lost => b \in Snapshot /\ IdsBelowNext(b) /\ Describes(Newest, b, Current)
  <2>. DEFINE n == Len(RecordingSaved)
  <2>1. n \in 1..n /\ RecordingSaved[n] \in Snapshots0
    BY <1>1, ElementOfSeq
  <2>2. RecordingSaved[n] # Lost => RecordingSaved[n] \in Snapshot
    BY <2>1 DEF Snapshots0
  <2>3. RecordingSaved[n] # Lost => IdsBelowNext(RecordingSaved[n])
    BY <1>1, <2>1 DEF AllFresh
  <2>4. RecordingSaved[n] # Lost => Describes(Newest, RecordingSaved[n], Current)
    BY <1>1, <2>1 DEF Linked, Newest
  <2>. QED  BY <2>2, <2>3, <2>4
<1>. QED  BY <1>1, <1>2, <1>3

(* A recorded or unrecorded change keeps the invariant, given that the     *)
(* hook's new state leads back from the changed database.                  *)
LEMMA RecordStep ==
  ASSUME IndInv,
         objs' \in [Ids -> MaybeVal], next_id' \in 0..MaxObjects, sindex' \subseteq Ids,
         UNCHANGED <<sessions, disabled, max_size>>, IdsBelowNext(Current'),
         \E st \in UndoState :
           /\ Record(st)
           /\ RecordingSaved[Len(RecordingSaved)] # Lost =>
                Describes(st, RecordingSaved[Len(RecordingSaved)], Current')
  PROVE  IndInv'
<1>0. PICK st \in UndoState :
        /\ Record(st)
        /\ RecordingSaved[Len(RecordingSaved)] # Lost =>
             Describes(st, RecordingSaved[Len(RecordingSaved)], Current')
  OBVIOUS
<1>1. Current' \in Snapshot
  BY DEF Current, Snapshot
<1>2. TypeOK /\ SessionsHaveStates /\ Len(saved) \in Nat /\ Len(saved) = Len(stack)
  BY LenProperties DEF IndInv, TypeOK, SessionsHaveStates
<1>3. CASE disabled
  <2>1. stack' = stack /\ saved' = [i \in 1..Len(saved) |-> Lost]
    BY <1>0, <1>3 DEF Record
  <2>2. /\ saved' \in Seq(Snapshots0) /\ Len(saved') = Len(saved)
        /\ \A i \in 1..Len(saved') : saved'[i] = Lost
    BY <2>1, <1>2 DEF Snapshots0
  <2>3. sessions = <<>>
    BY <1>3 DEF IndInv, SessionsHaveStates
  <2>4. TypeOK'
    BY <2>1, <2>2, <1>2 DEF TypeOK, Snapshots0
  <2>5. SessionsHaveStates'
    BY <2>1, <2>2, <2>3, <1>2 DEF SessionsHaveStates
  <2>6. NextIdFresh' /\ HistoryFaithful'
    BY <2>2 DEF NextIdFresh, HistoryFaithful, AllFresh, Linked
  <2>. QED  BY <2>4, <2>5, <2>6 DEF IndInv
<1>4. CASE ~disabled
  <2>1. stack' = [Recording EXCEPT ![Len(Recording)] = st] /\ saved' = RecordingSaved
    BY <1>0, <1>4 DEF Record
  <2>2. /\ Recording \in Seq(UndoState) /\ RecordingSaved \in Seq(Snapshots0)
        /\ Len(Recording) = Len(RecordingSaved) /\ Len(Recording) \in Nat /\ Len(Recording) >= 1
        /\ Len(stack) <= Len(Recording) /\ (stack # <<>> => RecordingSaved = saved)
        /\ Linked(Recording, RecordingSaved, Current) /\ AllFresh(RecordingSaved)
    BY RecordingLinked
  <2>3. /\ stack' \in Seq(UndoState) /\ Len(stack') = Len(Recording)
        /\ Linked(stack', saved', Current')
    <3>. DEFINE stk == Recording
                svd == RecordingSaved
                d   == Current'
    <3>1. /\ stk \in Seq(UndoState) /\ svd \in Seq(Snapshots0) /\ Len(stk) = Len(svd)
          /\ Len(svd) >= 1 /\ d \in Snapshot /\ Linked(stk, svd, Current)
          /\ svd[Len(svd)] # Lost => Describes(st, svd[Len(svd)], d)
      BY <1>0, <1>1, <2>2
    <3>. HIDE DEF stk, svd, d
    <3>2. /\ [stk EXCEPT ![Len(stk)] = st] \in Seq(UndoState)
          /\ Len([stk EXCEPT ![Len(stk)] = st]) = Len(stk)
          /\ Linked([stk EXCEPT ![Len(stk)] = st], svd, d)
      BY <3>1, LinkedRecord
    <3>. QED  BY <2>1, <3>2 DEF stk, svd, d
  <2>4. TypeOK'
    BY <2>1, <2>2, <2>3, <1>2 DEF TypeOK, Snapshots0
  <2>5. SessionsHaveStates'
    <3>1. CASE stack = <<>>
      BY <3>1, <2>1, <2>2, <2>3, <1>2, EmptySeq DEF SessionsHaveStates, TypeOK
    <3>2. CASE stack # <<>>
      BY <3>2, <2>1, <2>2, <2>3, <1>2, <1>4 DEF SessionsHaveStates
    <3>. QED  BY <3>1, <3>2
  <2>6. NextIdFresh' /\ HistoryFaithful'
    BY <2>1, <2>2, <2>3 DEF NextIdFresh, HistoryFaithful
  <2>. QED  BY <2>4, <2>5, <2>6 DEF IndInv
<1>. QED  BY <1>3, <1>4

(* The facts every step starts from.                                       *)
LEMMA Basics ==
  ASSUME IndInv
  PROVE  /\ Current \in Snapshot /\ Current.objs = objs /\ Current.next = next_id
         /\ stack \in Seq(UndoState) /\ saved \in Seq(Snapshots0) /\ sessions \in Seq(BOOLEAN)
         /\ Len(stack) \in Nat /\ Len(saved) = Len(stack) /\ Len(sessions) \in Nat
         /\ Len(sessions) <= Len(stack) /\ max_size \in Nat /\ max_size >= MinHistory
         /\ (sessions # <<>> => Len(sessions) >= 1)
         /\ IdsBelowNext(Current) /\ AllFresh(saved) /\ Linked(stack, saved, Current)
<1>1. Current \in Snapshot /\ Current.objs = objs /\ Current.next = next_id
  BY CurrentIsSnapshot DEF IndInv, Current
<1>2. stack \in Seq(UndoState) /\ saved \in Seq(Snapshots0) /\ sessions \in Seq(BOOLEAN)
  BY DEF IndInv, TypeOK, Snapshots0
<1>3. Len(stack) \in Nat /\ Len(sessions) \in Nat /\ (sessions # <<>> => Len(sessions) >= 1)
  BY <1>2, EmptySeq, LenProperties
<1>4. max_size \in Nat /\ max_size >= MinHistory
  BY HistoryAssumption DEF IndInv, TypeOK
<1>. QED  BY <1>1, <1>2, <1>3, <1>4 DEF IndInv, SessionsHaveStates, NextIdFresh, HistoryFaithful

(* Creating an object keeps the invariant.                                 *)
LEMMA CreateStep == ASSUME IndInv, NEW v \in Value, Create(v) PROVE IndInv'
<1>0. /\ Current \in Snapshot /\ Current.objs = objs /\ Current.next = next_id
      /\ IdsBelowNext(Current) /\ TypeOK
  BY Basics DEF IndInv
<1>. DEFINE b == RecordingSaved[Len(RecordingSaved)]
            d == [objs |-> [Current.objs EXCEPT ![Current.next] = v], next |-> Current.next + 1]
<1>1. /\ Newest \in UndoState
      /\ b # Lost => b \in Snapshot /\ IdsBelowNext(b) /\ Describes(Newest, b, Current)
  BY RecordingLinked
<1>2. next_id \in Ids /\ next_id < MaxObjects /\ next_id \in Nat
  BY <1>0, BoundAssumption DEF Create, TypeOK, Ids
<1>3. Current' = d
  BY <1>0 DEF Create, Current
<1>4. /\ objs' \in [Ids -> MaybeVal] /\ next_id' \in 0..MaxObjects /\ sindex' \subseteq Ids
      /\ UNCHANGED <<sessions, disabled, max_size>>
  <2>1. next_id + 1 \in 0..MaxObjects
    BY <1>2, BoundAssumption
  <2>2. sindex' \subseteq Ids
    BY <1>0, <1>2 DEF Create, TypeOK
  <2>. QED  BY <1>0, <2>1, <2>2 DEF Create, TypeOK, MaybeVal
<1>5. IdsBelowNext(Current')
  <2>1. \A id \in Ids : objs'[id] # NoObj => id = next_id \/ objs[id] # NoObj
    BY <1>0 DEF Create, TypeOK
  <2>2. \A id \in Ids : objs[id] # NoObj => id < next_id
    BY <1>0 DEF IdsBelowNext
  <2>3. \A id \in Ids : id \in Int
    BY BoundAssumption DEF Ids
  <2>4. next_id' = next_id + 1 /\ Current'.objs = objs' /\ Current'.next = next_id'
    BY DEF Create, Current
  <2>. QED  BY <2>1, <2>2, <2>3, <2>4, <1>2 DEF IdsBelowNext
<1>6. /\ OnCreate(Newest, next_id) \in UndoState
      /\ b # Lost => Describes(OnCreate(Newest, next_id), b, Current')
  <2>1. OnCreate(Newest, next_id) \in UndoState
    <3>1. next_id \in -1..MaxObjects
      BY <1>2, BoundAssumption
    <3>2. (IF Newest.old_next = -1 THEN next_id ELSE Newest.old_next) \in -1..MaxObjects
      BY <1>1, <3>1 DEF UndoState
    <3>3. Newest.new_ids \cup {next_id} \in SUBSET Ids
      BY <1>1, <1>2 DEF UndoState
    <3>. QED  BY <1>1, <3>2, <3>3 DEF OnCreate, UndoState
  <2>2. ASSUME b # Lost PROVE Describes(OnCreate(Newest, Current.next), b, d)
    <3>. HIDE DEF b
    <3>. QED  BY <1>0, <1>1, <1>2, <2>2, CreateDescribes
  <2>. QED  BY <2>1, <2>2, <1>0, <1>3
<1>7. Record(OnCreate(Newest, next_id))
  BY DEF Create
<1>. QED  BY <1>4, <1>5, <1>6, <1>7, RecordStep

(* Modifying an object keeps the invariant.                                *)
LEMMA ModifyStep ==
  ASSUME IndInv, NEW x \in Ids, NEW v \in Value, Modify(x, v) PROVE IndInv'
<1>0. /\ Current \in Snapshot /\ Current.objs = objs /\ Current.next = next_id
      /\ IdsBelowNext(Current) /\ TypeOK
  BY Basics DEF IndInv
<1>. DEFINE b == RecordingSaved[Len(RecordingSaved)]
            d == [objs |-> [Current.objs EXCEPT ![x] = v], next |-> Current.next]
            t == OnModify(Newest, x, Current.objs[x])
<1>1. /\ Newest \in UndoState
      /\ b # Lost => b \in Snapshot /\ IdsBelowNext(b) /\ Describes(Newest, b, Current)
  BY RecordingLinked
<1>2. Current.objs[x] # NoObj /\ Current.objs[x] \in MaybeVal
  BY <1>0 DEF Modify, Exists, TypeOK
<1>3. Current' = d
  BY <1>0 DEF Modify, Current
<1>4. /\ objs' \in [Ids -> MaybeVal] /\ next_id' \in 0..MaxObjects /\ sindex' \subseteq Ids
      /\ UNCHANGED <<sessions, disabled, max_size>>
  BY <1>0 DEF Modify, TypeOK, MaybeVal
<1>5. IdsBelowNext(Current')
  BY <1>0, <1>2 DEF Modify, Current, IdsBelowNext, TypeOK
<1>6. t \in UndoState
  BY <1>1, <1>2 DEF OnModify, UndoState
<1>7. b # Lost => Describes(t, b, Current')
  <2>1. ASSUME b # Lost PROVE Describes(t, b, d)
    <3>. HIDE DEF b
    <3>. QED  BY <1>0, <1>1, <1>2, <2>1, ModifyDescribes
  <2>. QED  BY <2>1, <1>3
<1>8. Record(t)
  BY <1>0 DEF Modify
<1>. QED  BY <1>4, <1>5, <1>6, <1>7, <1>8, RecordStep

(* Removing an object keeps the invariant.                                 *)
LEMMA RemoveStep == ASSUME IndInv, NEW x \in Ids, Remove(x) PROVE IndInv'
<1>0. /\ Current \in Snapshot /\ Current.objs = objs /\ Current.next = next_id
      /\ IdsBelowNext(Current) /\ TypeOK
  BY Basics DEF IndInv
<1>. DEFINE b == RecordingSaved[Len(RecordingSaved)]
            d == [objs |-> [Current.objs EXCEPT ![x] = NoObj], next |-> Current.next]
            t == OnRemove(Newest, x, Current.objs[x])
<1>1. /\ Newest \in UndoState
      /\ b # Lost => b \in Snapshot /\ IdsBelowNext(b) /\ Describes(Newest, b, Current)
  BY RecordingLinked
<1>2. Current.objs[x] # NoObj /\ Current.objs[x] \in MaybeVal /\ NoObj \in MaybeVal
  BY <1>0 DEF Remove, Exists, TypeOK, MaybeVal
<1>3. Current' = d
  BY <1>0 DEF Remove, Current
<1>4. /\ objs' \in [Ids -> MaybeVal] /\ next_id' \in 0..MaxObjects /\ sindex' \subseteq Ids
      /\ UNCHANGED <<sessions, disabled, max_size>>
  BY <1>0, <1>2 DEF Remove, TypeOK
<1>5. IdsBelowNext(Current')
  BY <1>0, <1>2 DEF Remove, Current, IdsBelowNext, TypeOK
<1>6. t \in UndoState
  BY <1>1, <1>2 DEF OnRemove, UndoState
<1>7. b # Lost => Describes(t, b, Current')
  <2>1. ASSUME b # Lost PROVE Describes(t, b, d)
    <3>. HIDE DEF b
    <3>. QED  BY <1>0, <1>1, <1>2, <2>1, RemoveDescribes
  <2>. QED  BY <2>1, <1>3
<1>8. Record(t)
  BY <1>0 DEF Remove
<1>. QED  BY <1>4, <1>5, <1>6, <1>7, <1>8, RecordStep

(* Opening a session keeps the invariant: the limit is never below the     *)
(* number of sessions already open.                                        *)
LEMMA StartStep == ASSUME IndInv, NEW f \in BOOLEAN, StartUndoSession(f) PROVE IndInv'
<1>0. /\ Current \in Snapshot
      /\ stack \in Seq(UndoState) /\ saved \in Seq(Snapshots0) /\ sessions \in Seq(BOOLEAN)
      /\ Len(stack) \in Nat /\ Len(saved) = Len(stack) /\ Len(sessions) \in Nat
      /\ Len(sessions) <= Len(stack) /\ max_size \in Nat /\ max_size >= MinHistory
      /\ IdsBelowNext(Current) /\ AllFresh(saved) /\ Linked(stack, saved, Current)
  BY Basics
<1>1. /\ stack' = Append(Newestn(stack, max_size), EmptyState)
      /\ saved' = Append(Newestn(saved, max_size), Current)
      /\ sessions' = Append(sessions, disabled /\ f) /\ disabled' = FALSE
      /\ Len(sessions) < MaxSessions /\ Current' = Current
      /\ UNCHANGED <<objs, next_id, sindex, max_size>>
  BY DEF StartUndoSession, Current
<1>2. /\ Newestn(stack, max_size) \in Seq(UndoState)
      /\ Len(Newestn(stack, max_size)) = IF Len(stack) <= max_size THEN Len(stack) ELSE max_size
  BY <1>0, NewestnProperties
<1>3. /\ Newestn(saved, max_size) \in Seq(Snapshots0)
      /\ Len(Newestn(saved, max_size)) = IF Len(saved) <= max_size THEN Len(saved) ELSE max_size
      /\ \A i \in 1..Len(Newestn(saved, max_size)) :
           Newestn(saved, max_size)[i] = saved[Len(saved) - Len(Newestn(saved, max_size)) + i]
  BY <1>0, NewestnProperties
<1>. DEFINE a == Newestn(stack, max_size)
            b == Newestn(saved, max_size)
            n == Len(b)
<1>4. /\ Len(a) = n /\ n \in Nat /\ n <= Len(saved) /\ Len(sessions) <= n
      /\ \A i \in 1..n : b[i] = saved[Len(saved) - n + i]
  <2>1. Len(sessions) <= MinHistory
    BY <1>0, <1>1, HistoryAssumption
  <2>2. /\ Len(a) = IF Len(stack) <= max_size THEN Len(stack) ELSE max_size
        /\ n = IF Len(saved) <= max_size THEN Len(saved) ELSE max_size
    BY <1>2, <1>3
  <2>3. \A i \in 1..n : b[i] = saved[Len(saved) - n + i]
    BY <1>3
  <2>. HIDE DEF a, b, n
  <2>4. Len(a) = n /\ n \in Nat /\ n <= Len(saved) /\ Len(sessions) <= n
    BY <2>1, <2>2, <1>0, HistoryAssumption
  <2>. QED  BY <2>3, <2>4
<1>5. EmptyState \in UndoState /\ Current \in Snapshots0
  BY <1>0, EmptyDescribes DEF Snapshots0
<1>6. /\ stack' \in Seq(UndoState) /\ Len(stack') = n + 1
      /\ saved' \in Seq(Snapshots0) /\ Len(saved') = n + 1
      /\ saved'[n + 1] = Current
      /\ \A i \in 1..n : saved'[i] = saved[Len(saved) - n + i]
  <2>1. stack' = Append(a, EmptyState) /\ saved' = Append(b, Current)
        /\ a \in Seq(UndoState) /\ b \in Seq(Snapshots0)
    BY <1>1, <1>2, <1>3
  <2>2. Len(a) = n /\ n = Len(b) /\ n \in Nat /\ \A i \in 1..n : b[i] = saved[Len(saved) - n + i]
    BY <1>4
  <2>. HIDE DEF a, b, n
  <2>3. /\ Append(a, EmptyState) \in Seq(UndoState) /\ Len(Append(a, EmptyState)) = n + 1
        /\ Append(b, Current) \in Seq(Snapshots0) /\ Len(Append(b, Current)) = n + 1
        /\ Append(b, Current)[n + 1] = Current
        /\ \A i \in 1..n : Append(b, Current)[i] = b[i]
    BY <2>1, <2>2, <1>5
  <2>. QED  BY <2>1, <2>2, <2>3
<1>7. /\ sessions' \in Seq(BOOLEAN) /\ Len(sessions') = Len(sessions) + 1
      /\ \A i \in 1..Len(sessions') : i > 1 => ~sessions'[i]
  <2>. DEFINE q == disabled /\ f
  <2>1. q \in BOOLEAN
    OBVIOUS
  <2>2. Len(sessions) >= 1 => ~q
    BY <1>0 DEF IndInv, SessionsHaveStates
  <2>3. sessions' = Append(sessions, q)
    BY <1>1
  <2>4. \A i \in 1..Len(sessions) : i > 1 => ~sessions[i]
    BY DEF IndInv, SessionsHaveStates
  <2>. HIDE DEF q
  <2>5. /\ sessions' \in Seq(BOOLEAN) /\ Len(sessions') = Len(sessions) + 1
        /\ \A i \in 1..Len(sessions) : sessions'[i] = sessions[i]
        /\ sessions'[Len(sessions) + 1] = q
    BY <2>1, <2>3, <1>0
  <2>. QED  BY <2>2, <2>4, <2>5, <1>0
<1>8. TypeOK'
  BY <1>1, <1>6, <1>7 DEF IndInv, TypeOK, Snapshots0
<1>. HIDE DEF n
<1>9. SessionsHaveStates'
  <2>1. ASSUME NEW i \in 1..(n + 1), i > n + 1 - (Len(sessions) + 1) PROVE saved'[i] # Lost
    <3>1. CASE i = n + 1
      BY <3>1, <1>0, <1>6, LostIsNoSnapshot
    <3>2. CASE i \in 1..n
      <4>. DEFINE j == Len(saved) - n + i
      <4>1. j \in 1..Len(stack) /\ j > Len(stack) - Len(sessions)
        BY <3>2, <2>1, <1>0, <1>4
      <4>2. saved[j] # Lost
        BY <4>1 DEF IndInv, SessionsHaveStates
      <4>. QED  BY <3>2, <4>2, <1>6
    <3>. QED  BY <3>1, <3>2, <1>4
  <2>2. sessions' # <<>> => ~disabled'
    BY <1>1
  <2>3. Len(sessions') <= MaxSessions /\ Len(sessions') <= Len(stack')
    BY <1>0, <1>1, <1>4, <1>6, <1>7, HistoryAssumption
  <2>4. Len(saved') = Len(stack')
    BY <1>6
  <2>5. \A i \in 1..Len(sessions') : i > 1 => ~sessions'[i]
    BY <1>7
  <2>6. \A i \in 1..Len(stack') : i > Len(stack') - Len(sessions') => saved'[i] # Lost
    <3>1. Len(stack') = n + 1 /\ Len(sessions') = Len(sessions) + 1
      BY <1>6, <1>7
    <3>2. \A i \in 1..(n + 1) : i > n + 1 - (Len(sessions) + 1) => saved'[i] # Lost
      BY <2>1
    <3>. QED  BY <3>1, <3>2, <1>0, <1>4
  <2>. QED  BY <2>2, <2>3, <2>4, <2>5, <2>6 DEF SessionsHaveStates
<1>10. NextIdFresh'
  <2>1. IdsBelowNext(Current')
    BY <1>0, <1>1
  <2>2. ASSUME NEW i \in 1..(n + 1), saved'[i] # Lost PROVE IdsBelowNext(saved'[i])
    <3>1. CASE i = n + 1
      BY <3>1, <1>0, <1>6
    <3>2. CASE i \in 1..n
      <4>1. Len(saved) - n + i \in 1..Len(saved)
        BY <3>2, <1>0, <1>4
      <4>. QED  BY <3>2, <4>1, <2>2, <1>0, <1>6 DEF AllFresh
    <3>. QED  BY <3>1, <3>2, <1>4
  <2>. QED  BY <2>1, <2>2, <1>6 DEF NextIdFresh, AllFresh
<1>11. HistoryFaithful'
  BY <1>0, <1>1, LinkedOpen DEF HistoryFaithful
<1>. QED  BY <1>8, <1>9, <1>10, <1>11 DEF IndInv

(* The end of a session: the sequence of open sessions loses its last.     *)
LEMMA EndSessionProperties ==
  ASSUME IndInv, sessions # <<>>, EndSession
  PROVE  /\ sessions' \in Seq(BOOLEAN) /\ Len(sessions') = Len(sessions) - 1
         /\ disabled' \in BOOLEAN /\ Len(sessions) >= 1 /\ saved[Len(saved)] \in Snapshot
         /\ sessions' # <<>> => ~disabled'
         /\ \A i \in 1..Len(sessions') : i > 1 => ~sessions'[i]
<1>0. /\ saved \in Seq(Snapshots0) /\ sessions \in Seq(BOOLEAN) /\ Len(sessions) >= 1
      /\ Len(sessions) \in Nat /\ Len(stack) \in Nat /\ Len(saved) = Len(stack)
      /\ Len(sessions) <= Len(stack)
  BY Basics
<1>1. /\ sessions' \in Seq(BOOLEAN) /\ Len(sessions') = Len(sessions) - 1
      /\ \A i \in 1..(Len(sessions) - 1) : sessions'[i] = sessions[i]
  BY <1>0, FrontProperties DEF EndSession
<1>2. disabled' = sessions[Len(sessions)] /\ disabled' \in BOOLEAN
  BY <1>0, ElementOfSeq DEF EndSession
<1>3. saved[Len(saved)] \in Snapshot
  <2>1. Len(saved) \in 1..Len(saved) /\ Len(saved) > Len(stack) - Len(sessions)
    BY <1>0
  <2>2. saved[Len(saved)] \in Snapshots0
    BY <2>1, <1>0, ElementOfSeq
  <2>3. saved[Len(saved)] # Lost
    BY <2>1, <1>0 DEF IndInv, SessionsHaveStates
  <2>. QED  BY <2>2, <2>3 DEF Snapshots0
<1>4. sessions' # <<>> => Len(sessions) > 1
  BY <1>0, <1>1, EmptySeq
<1>5. \A i \in 1..Len(sessions) : i > 1 => ~sessions[i]
  BY DEF IndInv, SessionsHaveStates
<1>6. sessions' # <<>> => ~disabled'
  BY <1>0, <1>2, <1>4, <1>5
<1>7. \A i \in 1..Len(sessions') : i > 1 => ~sessions'[i]
  BY <1>0, <1>1, <1>5
<1>. QED  BY <1>0, <1>1, <1>2, <1>3, <1>6, <1>7

(* Undoing an open session puts back the database it was opened on.        *)
LEMMA UndoRestores ==
  ASSUME IndInv, Undo
  PROVE  /\ Current' = saved[Len(saved)] /\ objs' = Current'.objs /\ next_id' = Current'.next
         /\ Current' \in Snapshot /\ Revertible(stack[Len(stack)])
         /\ IdsBelowNext(Current') /\ sindex' \subseteq Ids
<1>0. /\ sessions # <<>> /\ EndSession /\ Revert(stack[Len(stack)])
  BY DEF Undo
<1>1. /\ Len(sessions) >= 1 /\ saved[Len(saved)] \in Snapshot
  BY <1>0, EndSessionProperties
<1>2. /\ stack \in Seq(UndoState) /\ Len(stack) \in Nat /\ Len(saved) = Len(stack)
      /\ Len(sessions) \in Nat /\ Len(sessions) <= Len(stack)
      /\ Linked(stack, saved, Current) /\ AllFresh(saved)
  BY Basics
<1>3. Len(stack) \in 1..Len(stack) /\ stack[Len(stack)] \in UndoState /\ saved[Len(saved)] # Lost
  BY <1>1, <1>2, ElementOfSeq, LostIsNoSnapshot
<1>4. Describes(stack[Len(stack)], saved[Len(saved)], Current) /\ IdsBelowNext(saved[Len(saved)])
  BY <1>2, <1>3 DEF Linked, AllFresh
<1>5. TypeOK
  BY DEF IndInv
<1>6. /\ Revertible(stack[Len(stack)]) /\ Current' = saved[Len(saved)]
  BY <1>0, <1>1, <1>3, <1>4, <1>5, RevertRestores
<1>7. sindex' \subseteq Ids
  BY <1>0, <1>5 DEF Revert, TypeOK
<1>. QED  BY <1>1, <1>4, <1>6, <1>7 DEF Current

(* undo() keeps the invariant.                                             *)
LEMMA UndoStep == ASSUME IndInv, Undo PROVE IndInv'
<1>0. /\ sessions # <<>> /\ EndSession /\ UNCHANGED max_size
      /\ LET below == SubSeq(stack, 1, Len(stack) - 1)
         IN IF below = <<>>
            THEN stack' = <<EmptyState>> /\ saved' = <<[objs |-> objs', next |-> next_id']>>
            ELSE stack' = below /\ saved' = SubSeq(saved, 1, Len(saved) - 1)
  BY DEF Undo
<1>1. /\ sessions' \in Seq(BOOLEAN) /\ Len(sessions') = Len(sessions) - 1
      /\ disabled' \in BOOLEAN /\ Len(sessions) >= 1 /\ saved[Len(saved)] \in Snapshot
      /\ sessions' # <<>> => ~disabled'
      /\ \A i \in 1..Len(sessions') : i > 1 => ~sessions'[i]
  BY <1>0, EndSessionProperties
<1>2. /\ Current' = saved[Len(saved)] /\ objs' = Current'.objs /\ next_id' = Current'.next
      /\ Current' \in Snapshot /\ IdsBelowNext(Current') /\ sindex' \subseteq Ids
  BY UndoRestores
<1>3. /\ stack \in Seq(UndoState) /\ saved \in Seq(Snapshots0) /\ Len(sessions) \in Nat
      /\ Len(stack) \in Nat /\ Len(saved) = Len(stack) /\ Len(sessions) <= Len(stack)
      /\ AllFresh(saved) /\ Linked(stack, saved, Current) /\ Len(stack) >= 1
  BY <1>1, Basics
<1>4. saved[Len(saved)] # Lost
  BY <1>1, LostIsNoSnapshot
<1>5. /\ objs' \in [Ids -> MaybeVal] /\ next_id' \in 0..MaxObjects
      /\ max_size' \in MinHistory..MaxHistory
  BY <1>0, <1>2 DEF Snapshot, IndInv, TypeOK
<1>6. Len(sessions') <= MaxSessions
  BY <1>1, <1>3, HistoryAssumption DEF IndInv, SessionsHaveStates
<1>7. /\ SubSeq(stack, 1, Len(stack) - 1) \in Seq(UndoState)
      /\ Len(SubSeq(stack, 1, Len(stack) - 1)) = Len(stack) - 1
      /\ SubSeq(saved, 1, Len(saved) - 1) \in Seq(Snapshots0)
      /\ Len(SubSeq(saved, 1, Len(saved) - 1)) = Len(saved) - 1
      /\ \A i \in 1..(Len(saved) - 1) : SubSeq(saved, 1, Len(saved) - 1)[i] = saved[i]
  BY <1>3, FrontProperties
<1>8. CASE SubSeq(stack, 1, Len(stack) - 1) = <<>>
  <2>1. stack' = <<EmptyState>> /\ saved' = <<Current'>>
    BY <1>0, <1>8 DEF Current
  <2>2. Len(stack) = 1 /\ Len(sessions) = 1
    <3>. DEFINE below == SubSeq(stack, 1, Len(stack) - 1)
    <3>1. below = <<>> /\ Len(below) = Len(stack) - 1
      BY <1>7, <1>8
    <3>. HIDE DEF below
    <3>2. Len(below) = 0
      BY <3>1
    <3>. QED  BY <3>1, <3>2, <1>1, <1>3
  <2>3. EmptyState \in UndoState /\ Describes(EmptyState, Current', Current')
    BY <1>2, EmptyDescribes
  <2>4. /\ stack' \in Seq(UndoState) /\ saved' \in Seq(Snapshots0)
        /\ Len(stack') = 1 /\ Len(saved') = 1 /\ saved'[1] = Current' /\ stack'[1] = EmptyState
    BY <1>2, <2>1, <2>3 DEF Snapshots0
  <2>5. TypeOK'
    BY <1>1, <1>2, <1>5, <2>4 DEF TypeOK, Snapshots0
  <2>6. SessionsHaveStates'
    BY <1>1, <1>2, <1>6, <2>2, <2>4, LostIsNoSnapshot DEF SessionsHaveStates
  <2>7. NextIdFresh' /\ HistoryFaithful'
    BY <1>2, <2>3, <2>4, LostIsNoSnapshot DEF NextIdFresh, AllFresh, HistoryFaithful, Linked
  <2>. QED  BY <2>5, <2>6, <2>7 DEF IndInv
<1>9. CASE SubSeq(stack, 1, Len(stack) - 1) # <<>>
  <2>1. stack' = SubSeq(stack, 1, Len(stack) - 1) /\ saved' = SubSeq(saved, 1, Len(saved) - 1)
    BY <1>0, <1>9
  <2>2. TypeOK'
    BY <1>1, <1>2, <1>5, <1>7, <2>1 DEF TypeOK, Snapshots0
  <2>3. SessionsHaveStates'
    <3>1. /\ Len(stack') = Len(stack) - 1 /\ Len(saved') = Len(stack')
          /\ \A i \in 1..Len(saved') : saved'[i] = saved[i]
      BY <1>3, <1>7, <2>1
    <3>2. ASSUME NEW i \in 1..Len(stack'), i > Len(stack') - Len(sessions')
          PROVE saved'[i] # Lost
      <4>1. i \in 1..Len(stack) /\ i > Len(stack) - Len(sessions)
        BY <3>1, <3>2, <1>1, <1>3
      <4>. QED  BY <4>1, <3>1 DEF IndInv, SessionsHaveStates
    <3>3. Len(sessions') <= Len(stack')
      BY <3>1, <1>1, <1>3
    <3>. QED  BY <3>1, <3>2, <3>3, <1>1, <1>6 DEF SessionsHaveStates
  <2>4. NextIdFresh'
    <3>1. ASSUME NEW i \in 1..Len(saved'), saved'[i] # Lost PROVE IdsBelowNext(saved'[i])
      <4>1. i \in 1..Len(saved) /\ saved'[i] = saved[i]
        BY <1>3, <1>7, <2>1
      <4>. QED  BY <3>1, <4>1, <1>3 DEF AllFresh
    <3>. QED  BY <3>1, <1>2 DEF NextIdFresh, AllFresh
  <2>5. HistoryFaithful'
    <3>1. Linked(SubSeq(stack, 1, Len(stack) - 1), SubSeq(saved, 1, Len(saved) - 1), saved[Len(saved)])
      BY <1>3, <1>4, LinkedDrop
    <3>. QED  BY <3>1, <2>1, <1>2 DEF HistoryFaithful
  <2>. QED  BY <2>2, <2>3, <2>4, <2>5 DEF IndInv
<1>. QED  BY <1>8, <1>9

(* merge() keeps the invariant.                                            *)
LEMMA MergeStep == ASSUME IndInv, Merge PROVE IndInv'
<1>0. /\ sessions # <<>> /\ EndSession /\ Len(stack) >= 2
      /\ UNCHANGED <<objs, next_id, sindex, max_size>> /\ Current' = Current
      /\ saved' = SubSeq(saved, 1, Len(saved) - 1)
      /\ stack' = [SubSeq(stack, 1, Len(stack) - 1) EXCEPT
                     ![Len(stack) - 1] = MergeStates(stack[Len(stack) - 1], stack[Len(stack)])]
  BY DEF Merge, Current
<1>1. /\ sessions' \in Seq(BOOLEAN) /\ Len(sessions') = Len(sessions) - 1
      /\ disabled' \in BOOLEAN /\ Len(sessions) >= 1 /\ saved[Len(saved)] \in Snapshot
      /\ sessions' # <<>> => ~disabled'
      /\ \A i \in 1..Len(sessions') : i > 1 => ~sessions'[i]
  BY <1>0, EndSessionProperties
<1>2. /\ stack \in Seq(UndoState) /\ saved \in Seq(Snapshots0) /\ Len(sessions) \in Nat
      /\ Len(stack) \in Nat /\ Len(saved) = Len(stack) /\ Len(sessions) <= Len(stack)
      /\ IdsBelowNext(Current) /\ AllFresh(saved) /\ Linked(stack, saved, Current)
      /\ Current \in Snapshot
  BY Basics
<1>3. saved[Len(saved)] # Lost
  BY <1>1, LostIsNoSnapshot
<1>4. /\ stack' \in Seq(UndoState) /\ Len(stack') = Len(stack) - 1
      /\ Linked(stack', saved', Current')
  <2>. DEFINE t == stack'
  <2>1. t = [SubSeq(stack, 1, Len(stack) - 1) EXCEPT
               ![Len(stack) - 1] = MergeStates(stack[Len(stack) - 1], stack[Len(stack)])]
    BY <1>0
  <2>. HIDE DEF t
  <2>2. /\ t \in Seq(UndoState) /\ Len(t) = Len(stack) - 1
        /\ Linked(t, SubSeq(saved, 1, Len(saved) - 1), Current)
    BY <2>1, <1>0, <1>2, <1>3, LinkedMerge
  <2>. QED  BY <2>2, <1>0 DEF t
<1>5. /\ saved' \in Seq(Snapshots0) /\ Len(saved') = Len(saved) - 1
      /\ \A i \in 1..Len(saved') : i \in 1..Len(saved) /\ saved'[i] = saved[i]
  <2>1. /\ SubSeq(saved, 1, Len(saved) - 1) \in Seq(Snapshots0)
        /\ Len(SubSeq(saved, 1, Len(saved) - 1)) = Len(saved) - 1
        /\ \A i \in 1..(Len(saved) - 1) : SubSeq(saved, 1, Len(saved) - 1)[i] = saved[i]
    BY <1>0, <1>2, FrontProperties
  <2>. QED  BY <2>1, <1>0, <1>2
<1>6. TypeOK'
  BY <1>0, <1>1, <1>4, <1>5 DEF IndInv, TypeOK, Snapshots0
<1>7. SessionsHaveStates'
  <2>1. ASSUME NEW i \in 1..Len(stack'), i > Len(stack') - Len(sessions') PROVE saved'[i] # Lost
    <3>1. i \in 1..Len(stack) /\ i > Len(stack) - Len(sessions) /\ i \in 1..Len(saved')
      BY <2>1, <1>1, <1>2, <1>4, <1>5
    <3>. QED  BY <3>1, <1>5 DEF IndInv, SessionsHaveStates
  <2>2. /\ Len(sessions') <= Len(stack') /\ Len(sessions') <= MaxSessions
        /\ Len(saved') = Len(stack')
    BY <1>1, <1>2, <1>4, <1>5, HistoryAssumption DEF IndInv, SessionsHaveStates
  <2>. QED  BY <2>1, <2>2, <1>1 DEF SessionsHaveStates
<1>8. NextIdFresh'
  BY <1>0, <1>2, <1>5 DEF NextIdFresh, AllFresh
<1>9. HistoryFaithful'
  BY <1>4 DEF HistoryFaithful
<1>. QED  BY <1>6, <1>7, <1>8, <1>9 DEF IndInv

(* commit() keeps the invariant.                                           *)
LEMMA CommitStep == ASSUME IndInv, Commit PROVE IndInv'
<1>0. /\ sessions # <<>> /\ EndSession
      /\ UNCHANGED <<objs, next_id, sindex, stack, max_size, saved>> /\ Current' = Current
  BY DEF Commit, Current
<1>1. /\ sessions' \in Seq(BOOLEAN) /\ Len(sessions') = Len(sessions) - 1
      /\ disabled' \in BOOLEAN /\ Len(sessions) >= 1
      /\ sessions' # <<>> => ~disabled'
      /\ \A i \in 1..Len(sessions') : i > 1 => ~sessions'[i]
  BY <1>0, EndSessionProperties
<1>2. Len(sessions) \in Nat /\ Len(stack) \in Nat
  BY Basics
<1>3. TypeOK'
  BY <1>0, <1>1 DEF IndInv, TypeOK
<1>4. SessionsHaveStates'
  BY <1>0, <1>1, <1>2, HistoryAssumption DEF IndInv, SessionsHaveStates
<1>5. NextIdFresh' /\ HistoryFaithful'
  BY <1>0 DEF IndInv, NextIdFresh, HistoryFaithful
<1>. QED  BY <1>3, <1>4, <1>5 DEF IndInv

(* pop_commit() puts back the database from before the popped state and    *)
(* keeps the invariant.                                                    *)
LEMMA PopCommitStep ==
  ASSUME IndInv, PopCommit PROVE IndInv' /\ Current' = saved[Len(saved)]
<1>0. /\ sessions = <<>> /\ stack # <<>> /\ saved[Len(saved)] # Lost
      /\ Revert(stack[Len(stack)])
      /\ stack' = SubSeq(stack, 1, Len(stack) - 1)
      /\ saved' = SubSeq(saved, 1, Len(saved) - 1)
      /\ UNCHANGED <<sessions, disabled, max_size>>
  BY DEF PopCommit
<1>1. /\ stack \in Seq(UndoState) /\ saved \in Seq(Snapshots0)
      /\ Len(stack) \in Nat /\ Len(saved) = Len(stack)
      /\ AllFresh(saved) /\ Linked(stack, saved, Current)
  BY Basics
<1>2. Len(stack) >= 1 /\ Len(sessions) = 0
  BY <1>0, <1>1, EmptySeq
<1>3. Len(stack) \in 1..Len(stack) /\ stack[Len(stack)] \in UndoState /\ saved[Len(saved)] \in Snapshot
  BY <1>0, <1>1, <1>2, ElementOfSeq DEF Snapshots0
<1>4. Describes(stack[Len(stack)], saved[Len(saved)], Current) /\ IdsBelowNext(saved[Len(saved)])
  BY <1>0, <1>1, <1>3 DEF Linked, AllFresh
<1>5. TypeOK
  BY DEF IndInv
<1>6. Current' = saved[Len(saved)]
  BY <1>0, <1>3, <1>4, <1>5, RevertRestores
<1>7. /\ stack' \in Seq(UndoState) /\ Len(stack') = Len(stack) - 1
      /\ saved' \in Seq(Snapshots0) /\ Len(saved') = Len(stack')
      /\ \A i \in 1..Len(saved') : i \in 1..Len(saved) /\ saved'[i] = saved[i]
  <2>1. /\ SubSeq(saved, 1, Len(saved) - 1) \in Seq(Snapshots0)
        /\ Len(SubSeq(saved, 1, Len(saved) - 1)) = Len(saved) - 1
        /\ \A i \in 1..(Len(saved) - 1) : SubSeq(saved, 1, Len(saved) - 1)[i] = saved[i]
    BY <1>1, <1>2, FrontProperties
  <2>2. /\ SubSeq(stack, 1, Len(stack) - 1) \in Seq(UndoState)
        /\ Len(SubSeq(stack, 1, Len(stack) - 1)) = Len(stack) - 1
    BY <1>1, <1>2, FrontProperties
  <2>. QED  BY <2>1, <2>2, <1>0, <1>1
<1>8. TypeOK'
  <2>1. objs' \in [Ids -> MaybeVal] /\ next_id' \in 0..MaxObjects
    BY <1>3, <1>6 DEF Current, Snapshot
  <2>2. sindex' \subseteq Ids
    BY <1>0, <1>5 DEF Revert, TypeOK
  <2>. QED  BY <2>1, <2>2, <1>0, <1>5, <1>7 DEF TypeOK, Snapshots0
<1>9. SessionsHaveStates'
  BY <1>0, <1>1, <1>2, <1>7, HistoryAssumption DEF SessionsHaveStates
<1>10. NextIdFresh'
  BY <1>1, <1>4, <1>6, <1>7 DEF NextIdFresh, AllFresh
<1>11. HistoryFaithful'
  <2>1. Linked(SubSeq(stack, 1, Len(stack) - 1), SubSeq(saved, 1, Len(saved) - 1), saved[Len(saved)])
    BY <1>0, <1>1, <1>2, LinkedDrop
  <2>. QED  BY <2>1, <1>0, <1>6 DEF HistoryFaithful
<1>. QED  BY <1>6, <1>8, <1>9, <1>10, <1>11 DEF IndInv

(* The invariant is inductive.                                             *)
THEOREM Invariance == Spec => []IndInv
<1>1. Init => IndInv
  <2>. SUFFICES ASSUME Init PROVE IndInv
    OBVIOUS
  <2>1. TypeOK
    BY BoundAssumption DEF Init, TypeOK, MaybeVal
  <2>2. Len(stack) = 0 /\ Len(saved) = 0 /\ Len(sessions) = 0
    BY DEF Init
  <2>3. SessionsHaveStates
    BY <2>2, HistoryAssumption DEF Init, SessionsHaveStates
  <2>4. NextIdFresh /\ HistoryFaithful
    BY <2>2 DEF Init, NextIdFresh, HistoryFaithful, IdsBelowNext, AllFresh, Linked, Current
  <2>. QED  BY <2>1, <2>3, <2>4 DEF IndInv
<1>2. IndInv /\ [Next]_vars => IndInv'
  <2>. SUFFICES ASSUME IndInv, [Next]_vars PROVE IndInv'
    OBVIOUS
  <2>1. ASSUME NEW v \in Value, Create(v) PROVE IndInv'
    BY <2>1, CreateStep
  <2>2. ASSUME NEW id \in Ids, NEW v \in Value, Modify(id, v) PROVE IndInv'
    BY <2>2, ModifyStep
  <2>3. ASSUME NEW id \in Ids, Remove(id) PROVE IndInv'
    BY <2>3, RemoveStep
  <2>4. ASSUME NEW f \in BOOLEAN, StartUndoSession(f) PROVE IndInv'
    BY <2>4, StartStep
  <2>5. CASE Undo
    BY <2>5, UndoStep
  <2>6. CASE Merge
    BY <2>6, MergeStep
  <2>7. CASE Commit
    BY <2>7, CommitStep
  <2>8. CASE PopCommit
    BY <2>8, PopCommitStep
  <2>9. ASSUME NEW n \in MinHistory..MaxHistory, SetMaxSize(n) PROVE IndInv'
    BY <2>9 DEF SetMaxSize, IndInv, TypeOK, SessionsHaveStates, NextIdFresh, HistoryFaithful, Current
  <2>10. CASE Enable
    BY <2>10 DEF Enable, IndInv, TypeOK, SessionsHaveStates, NextIdFresh, HistoryFaithful, Current
  <2>11. CASE UNCHANGED vars
    BY <2>11 DEF vars, IndInv, TypeOK, SessionsHaveStates, NextIdFresh, HistoryFaithful, Current
  <2>. QED  BY <2>1, <2>2, <2>3, <2>4, <2>5, <2>6, <2>7, <2>8, <2>9, <2>10, <2>11 DEF Next
<1>. QED  BY <1>1, <1>2, PTL DEF Spec

(* The variables keep their types.                                         *)
THEOREM TypeCorrect == Spec => []TypeOK
<1>1. IndInv => TypeOK
  BY DEF IndInv
<1>. QED  BY <1>1, Invariance, PTL

(* Every undo state kept is exactly the way back to where it was opened.   *)
THEOREM HistoryIsFaithful == Spec => []HistoryFaithful
<1>1. IndInv => HistoryFaithful
  BY DEF IndInv
<1>. QED  BY <1>1, Invariance, PTL

(* No id is handed out while an object bears it.                           *)
THEOREM IdsAreFresh == Spec => []NextIdFresh
<1>1. IndInv => NextIdFresh
  BY DEF IndInv
<1>. QED  BY <1>1, Invariance, PTL

(* ~session never throws: its undo() finds every object it needs.          *)
THEOREM UndoIsSafe == Spec => []UndoNeverThrows
<1>1. IndInv => UndoNeverThrows
  <2>. SUFFICES ASSUME IndInv, sessions # <<>> PROVE Revertible(stack[Len(stack)])
    BY DEF UndoNeverThrows
  <2>1. /\ stack \in Seq(UndoState) /\ saved \in Seq(Snapshots0)
        /\ Len(stack) \in Nat /\ Len(saved) = Len(stack) /\ Len(sessions) >= 1
        /\ Len(sessions) \in Nat /\ Len(sessions) <= Len(stack) /\ Linked(stack, saved, Current)
    BY Basics
  <2>2. Len(stack) \in 1..Len(stack) /\ Len(stack) > Len(stack) - Len(sessions)
    BY <2>1
  <2>3. stack[Len(stack)] \in UndoState /\ saved[Len(saved)] # Lost /\ saved[Len(saved)] \in Snapshots0
    BY <2>1, <2>2, ElementOfSeq DEF IndInv, SessionsHaveStates
  <2>4. Describes(stack[Len(stack)], saved[Len(saved)], Current) /\ saved[Len(saved)] \in Snapshot
    BY <2>1, <2>2, <2>3 DEF Linked, Snapshots0
  <2>. QED  BY <2>3, <2>4, RevertRestores DEF IndInv
<1>. QED  BY <1>1, Invariance, PTL

(* merge() never meets an N/A cell of its table.                           *)
THEOREM MergeIsCausal == Spec => []MergeCausal
<1>1. IndInv => MergeCausal
  <2>. SUFFICES ASSUME IndInv, sessions # <<>>, Len(stack) >= 2, saved[Len(stack) - 1] # Lost,
                       NEW id \in Ids
                PROVE  LET A == stack[Len(stack) - 1]
                           B == stack[Len(stack)]
                       IN /\ id \in B.new_ids => id \notin A.new_ids /\ A.old_values[id] = NoObj
                                                 /\ A.removed[id] = NoObj
                          /\ A.removed[id] # NoObj => B.old_values[id] = NoObj /\ B.removed[id] = NoObj
    BY DEF MergeCausal
  <2>. DEFINE n == Len(stack)
  <2>1. /\ stack \in Seq(UndoState) /\ saved \in Seq(Snapshots0) /\ Current \in Snapshot
        /\ n \in Nat /\ Len(saved) = n /\ Linked(stack, saved, Current) /\ AllFresh(saved)
    BY Basics
  <2>2. n - 1 \in 1..n /\ n \in 1..n /\ n - 1 # n /\ (n - 1) + 1 = n
    BY <2>1
  <2>3. saved[n] # Lost /\ Describes(stack[n - 1], saved[n - 1], saved[n])
    BY <2>1, <2>2 DEF Linked
  <2>4. Describes(stack[n], saved[n], Current)
    BY <2>1, <2>2, <2>3 DEF Linked
  <2>5. IdsBelowNext(saved[n - 1]) /\ IdsBelowNext(saved[n])
    BY <2>1, <2>2, <2>3 DEF AllFresh
  <2>6. /\ stack[n - 1] \in UndoState /\ stack[n] \in UndoState
        /\ saved[n - 1] \in Snapshot /\ saved[n] \in Snapshot
    BY <2>1, <2>2, <2>3, ElementOfSeq DEF Snapshots0
  <2>. QED  BY <2>1, <2>3, <2>4, <2>5, <2>6, NoAcausalCell
<1>. QED  BY <1>1, Invariance, PTL

-----------------------------------------------------------------------------
(* Refinement: undo states implement whole snapshots                       *)

(* A hooked change is a change of the abstract database.                   *)
LEMMA RecordRefines ==
  ASSUME IndInv, objs' \in [Ids -> MaybeVal], next_id' \in 0..MaxObjects,
         UNCHANGED <<sessions, disabled, max_size>>, \E st \in UndoState : Record(st)
  PROVE  Snapshots!Next
<1>0. Current' \in Snapshot /\ (saved = <<>> <=> stack = <<>>)
  <2>1. Current' \in Snapshot
    BY DEF Current, Snapshot
  <2>2. stack \in Seq(UndoState) /\ saved \in Seq(Snapshots0) /\ Len(saved) = Len(stack)
    BY Basics
  <2>3. (Len(saved) = 0 <=> saved = <<>>) /\ (Len(stack) = 0 <=> stack = <<>>)
    BY <2>2, EmptySeq
  <2>. QED  BY <2>1, <2>2, <2>3
<1>1. CASE disabled
  BY <1>0, <1>1 DEF Record, Snapshots!Next, Snapshots!ChangeUnrecorded
<1>2. CASE ~disabled
  BY <1>0, <1>2 DEF Record, RecordingSaved, Snapshots!Next, Snapshots!Change
<1>. QED  BY <1>1, <1>2

(* The end of a session closes the abstract one.                           *)
LEMMA EndSessionRefines ==
  ASSUME IndInv, sessions # <<>>, EndSession
  PROVE  Snapshots!Close
<1>1. /\ Len(sessions') = Len(sessions) - 1 /\ Len(sessions) >= 1
      /\ sessions' # <<>> => ~disabled'
  BY EndSessionProperties
<1>2. Len(sessions) \in Nat
  BY Basics
<1>3. Len(sessions') > 0 => sessions' # <<>>
  OBVIOUS
<1>. QED  BY <1>1, <1>2, <1>3 DEF Snapshots!Close

(* Undo states, hooks and merges implement the snapshot stack: undoing or  *)
(* popping puts back whole databases, whatever happened in between.        *)
THEOREM Refinement == Spec => ImplementsSnapshots
<1>1. Init => Snapshots!Init
  <2>. SUFFICES ASSUME Init PROVE Snapshots!Init
    OBVIOUS
  <2>1. Current \in Snapshot
    BY BoundAssumption DEF Init, Current, Snapshot, MaybeVal
  <2>. QED  BY <2>1 DEF Init, Snapshots!Init
<1>2. IndInv /\ IndInv' /\ [Next]_vars => [Snapshots!Next]_(Snapshots!svars)
  <2>. SUFFICES ASSUME IndInv, IndInv', [Next]_vars PROVE [Snapshots!Next]_(Snapshots!svars)
    OBVIOUS
  <2>0. objs' \in [Ids -> MaybeVal] /\ next_id' \in 0..MaxObjects
    BY DEF IndInv, TypeOK
  <2>. DEFINE goal == Snapshots!Next
  <2>1. ASSUME NEW v \in Value, Create(v) PROVE goal
    <3>1. OnCreate(Newest, next_id) \in UndoState
      <4>1. Newest \in UndoState
        BY RecordingLinked
      <4>2. next_id \in Ids /\ next_id \in -1..MaxObjects
        BY <2>1, BoundAssumption DEF Create, IndInv, TypeOK, Ids
      <4>3. (IF Newest.old_next = -1 THEN next_id ELSE Newest.old_next) \in -1..MaxObjects
        BY <4>1, <4>2 DEF UndoState
      <4>. QED  BY <4>1, <4>2, <4>3 DEF OnCreate, UndoState
    <3>. QED  BY <2>0, <2>1, <3>1, RecordRefines DEF Create
  <2>2. ASSUME NEW id \in Ids, NEW v \in Value, Modify(id, v) PROVE goal
    <3>1. Newest \in UndoState /\ objs[id] \in MaybeVal
      BY RecordingLinked DEF IndInv, TypeOK
    <3>2. OnModify(Newest, id, objs[id]) \in UndoState
      BY <3>1 DEF OnModify, UndoState
    <3>. QED  BY <2>0, <2>2, <3>2, RecordRefines DEF Modify
  <2>3. ASSUME NEW id \in Ids, Remove(id) PROVE goal
    <3>1. Newest \in UndoState /\ objs[id] \in MaybeVal /\ NoObj \in MaybeVal
      BY RecordingLinked DEF IndInv, TypeOK, MaybeVal
    <3>2. OnRemove(Newest, id, objs[id]) \in UndoState
      BY <3>1 DEF OnRemove, UndoState
    <3>. QED  BY <2>0, <2>3, <3>2, RecordRefines DEF Remove
  <2>4. ASSUME NEW f \in BOOLEAN, StartUndoSession(f) PROVE goal
    <3>1. Len(sessions') = Len(sessions) + 1
      BY <2>4, Basics DEF StartUndoSession
    <3>. QED  BY <2>4, <3>1 DEF StartUndoSession, Newestn, Current, Snapshots!Next, Snapshots!Open
  <2>5. ASSUME Undo PROVE goal
    <3>1. Snapshots!Close
      BY <2>5, EndSessionRefines DEF Undo
    <3>2. Current' = saved[Len(saved)] /\ saved[Len(saved)] # Lost
      BY <2>5, UndoRestores, LostIsNoSnapshot
    <3>3. /\ stack \in Seq(UndoState) /\ Len(saved) = Len(stack) /\ Len(stack) >= 1
          /\ Len(stack) \in Nat
      BY <2>5, Basics DEF Undo
    <3>4. /\ SubSeq(stack, 1, Len(stack) - 1) \in Seq(UndoState)
          /\ Len(SubSeq(stack, 1, Len(stack) - 1)) = Len(stack) - 1
      BY <3>3, FrontProperties
    <3>5. SubSeq(stack, 1, Len(stack) - 1) = <<>> <=> Len(saved) = 1
      <4>. DEFINE below == SubSeq(stack, 1, Len(stack) - 1)
      <4>1. below \in Seq(UndoState) /\ Len(below) = Len(stack) - 1
        BY <3>4
      <4>. HIDE DEF below
      <4>2. below = <<>> <=> Len(below) = 0
        BY <4>1, EmptySeq
      <4>. QED  BY <4>1, <4>2, <3>3 DEF below
    <3>6. saved' = IF Len(saved) = 1 THEN <<saved[Len(saved)]>> ELSE SubSeq(saved, 1, Len(saved) - 1)
      BY <2>5, <3>2, <3>5 DEF Undo, Current
    <3>. QED  BY <2>5, <3>1, <3>2, <3>6
              DEF Undo, Snapshots!Next, Snapshots!Undo, Snapshots!Last1, Snapshots!Front1
  <2>6. ASSUME Merge PROVE goal
    <3>1. Snapshots!Close
      BY <2>6, EndSessionRefines DEF Merge
    <3>2. Len(saved) = Len(stack)
      BY Basics
    <3>. QED  BY <2>6, <3>1, <3>2 DEF Merge, Current, Snapshots!Next, Snapshots!Merge, Snapshots!Front1
  <2>7. ASSUME Commit PROVE goal
    <3>1. Snapshots!Close
      BY <2>7, EndSessionRefines DEF Commit
    <3>. QED  BY <2>7, <3>1 DEF Commit, Current, Snapshots!Next, Snapshots!Commit
  <2>8. ASSUME PopCommit PROVE goal
    <3>1. Current' = saved[Len(saved)]
      BY <2>8, PopCommitStep
    <3>2. Len(sessions) = 0 /\ saved # <<>>
      <4>1. stack \in Seq(UndoState) /\ Len(saved) = Len(stack)
        BY Basics
      <4>2. Len(stack) # 0
        BY <2>8, <4>1, EmptySeq DEF PopCommit
      <4>. QED  BY <2>8, <4>1, <4>2 DEF PopCommit
    <3>. QED  BY <2>8, <3>1, <3>2
              DEF PopCommit, Snapshots!Next, Snapshots!PopCommit, Snapshots!Last1, Snapshots!Front1
  <2>9. ASSUME NEW n \in MinHistory..MaxHistory, SetMaxSize(n) PROVE goal
    BY <2>9 DEF SetMaxSize, Current, Snapshots!Next, Snapshots!SetLimit
  <2>10. ASSUME Enable PROVE goal
    BY <2>10 DEF Enable, Current, Snapshots!Next, Snapshots!SwitchOn
  <2>11. ASSUME UNCHANGED vars PROVE UNCHANGED Snapshots!svars
    BY <2>11 DEF vars, Current, Snapshots!svars
  <2>. QED  BY <2>1, <2>2, <2>3, <2>4, <2>5, <2>6, <2>7, <2>8, <2>9, <2>10, <2>11 DEF Next
<1>. QED  BY <1>1, <1>2, Invariance, PTL DEF Spec, ImplementsSnapshots, Snapshots!Spec
=============================================================================
