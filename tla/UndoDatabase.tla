---------------------------- MODULE UndoDatabase ----------------------------
(***************************************************************************)
(* The object database with its undo history: libraries/db.  One index of  *)
(* objects (primary_index over generic_index), the secondary index hooked  *)
(* to it, and undo_database: a deque of undo states, the sessions that are *)
(* open on top of it, and the size limit.                                  *)
(*                                                                         *)
(* The history variable `saved' is not in the program: saved[i] is the     *)
(* database as it was when undo state i was opened (Lost once a change has *)
(* been made with recording switched off).  It states what undo promises.  *)
(***************************************************************************)
EXTENDS Integers, Sequences

CONSTANTS
  MaxObjects,   \* bound: number of object ids the model can hand out
  Value,        \* contents an object may have
  NoObj,        \* "there is no such object / no such entry"
  MaxSessions,  \* bound: depth of nested undo sessions
  MinHistory,   \* least max_size the chain ever sets (head - irreversible + 1)
  MaxHistory,   \* bound: largest max_size
  Lost          \* a snapshot that no longer describes anything

(* Object values and the two markers are distinct.                         *)
ASSUME ValueAssumption ==
  /\ NoObj \notin Value
  /\ Lost \notin [objs : [0..(MaxObjects - 1) -> Value \cup {NoObj}], next : 0..MaxObjects]

ASSUME BoundAssumption == MaxObjects \in Nat

(* max_size is set only by update_global_dynamic_data, to                  *)
(* head - last_irreversible + 1 with last_irreversible < head, so it is at *)
(* least 2; a pending session, a transaction session and a proposal        *)
(* session are at most three.                                              *)
ASSUME HistoryAssumption ==
  /\ MinHistory \in Nat \ {0}
  /\ MaxHistory \in Nat
  /\ MinHistory <= MaxHistory
  /\ MaxSessions \in Nat
  /\ MaxSessions <= MinHistory + 1

VARIABLES
  objs,      \* the index: object id -> value, NoObj if absent
  next_id,   \* primary_index::_next_id
  sindex,    \* ids the secondary index knows
  stack,     \* undo_database::_stack, oldest first
  sessions,  \* the open sessions, outermost first: their _disable_on_exit
  disabled,  \* undo_database::_disabled
  max_size,  \* undo_database::_max_size
  saved      \* history: the database when each undo state was opened

vars == <<objs, next_id, sindex, stack, sessions, disabled, max_size, saved>>

Ids      == 0..(MaxObjects - 1)
MaybeVal == Value \cup {NoObj}
Snapshot == [objs : [Ids -> MaybeVal], next : 0..MaxObjects]

(* struct undo_state: maps are total functions, NoObj where there is no    *)
(* entry; old_next is the only entry of old_index_next_ids (-1: none).     *)
UndoState == [old_values : [Ids -> MaybeVal], old_next : -1..MaxObjects,
              new_ids : SUBSET Ids, removed : [Ids -> MaybeVal]]

EmptyState == [old_values |-> [id \in Ids |-> NoObj], old_next |-> -1,
               new_ids |-> {}, removed |-> [id \in Ids |-> NoObj]]

Current   == [objs |-> objs, next |-> next_id]
Exists(id) == objs[id] # NoObj

-----------------------------------------------------------------------------
(* The hooks that record a change in the newest undo state                 *)

(* Faulty: keeps the id of the index (instance 0), not the object's.       *)
OnCreateIndexId(st, id) ==
  [st EXCEPT !.old_next = IF @ = -1 THEN 0 ELSE @,
             !.new_ids  = @ \cup {id}]

(* undo_database::on_create, called with the new object's id.              *)
OnCreate(st, id) ==
  [st EXCEPT !.old_next = IF @ = -1 THEN id ELSE @,
             !.new_ids  = @ \cup {id}]

(* Faulty: stores a value for an object that is new, too.                  *)
OnModifyNew(st, id, obj) ==
  IF st.old_values[id] # NoObj THEN st ELSE [st EXCEPT !.old_values[id] = obj]

(* undo_database::on_modify: only the first modification of an object that *)
(* is older than the state stores its value.                               *)
OnModify(st, id, obj) ==
  IF id \in st.new_ids \/ st.old_values[id] # NoObj THEN st
  ELSE [st EXCEPT !.old_values[id] = obj]

(* Faulty: a removed new object stays in new_ids.                          *)
OnRemoveKeepsNew(st, id, obj) ==
  IF id \in st.new_ids THEN st
  ELSE IF st.old_values[id] # NoObj
       THEN [st EXCEPT !.removed[id] = st.old_values[id], !.old_values[id] = NoObj]
  ELSE IF st.removed[id] # NoObj THEN st
  ELSE [st EXCEPT !.removed[id] = obj]

(* undo_database::on_remove: a new object is forgotten, a modified one     *)
(* moves its original value to removed.                                    *)
OnRemove(st, id, obj) ==
  IF id \in st.new_ids THEN [st EXCEPT !.new_ids = @ \ {id}]
  ELSE IF st.old_values[id] # NoObj
       THEN [st EXCEPT !.removed[id] = st.old_values[id], !.old_values[id] = NoObj]
  ELSE IF st.removed[id] # NoObj THEN st
  ELSE [st EXCEPT !.removed[id] = obj]

(* What a hook sees: `if( _stack.empty() ) _stack.emplace_back()'.         *)
Recording      == IF stack = <<>> THEN <<EmptyState>> ELSE stack
RecordingSaved == IF stack = <<>> THEN <<Current>> ELSE saved

(* A hook's effect on the undo data: the newest state is replaced by st;   *)
(* with recording off nothing is noted and no snapshot holds any more.     *)
Record(st) ==
  IF disabled
  THEN /\ stack' = stack
       /\ saved' = [i \in 1..Len(saved) |-> Lost]
  ELSE /\ stack' = [Recording EXCEPT ![Len(Recording)] = st]
       /\ saved' = RecordingSaved

Newest == Recording[Len(Recording)]

-----------------------------------------------------------------------------
(* Changes to the database                                                 *)

(* primary_index::create: the object gets the next id, the secondary       *)
(* indexes are told, then the undo database.                               *)
Create(v) ==
  /\ next_id < MaxObjects
  /\ objs' = [objs EXCEPT ![next_id] = v]
  /\ next_id' = next_id + 1
  /\ sindex' = sindex \cup {next_id}
  /\ Record(OnCreate(Newest, next_id))
  /\ UNCHANGED <<sessions, disabled, max_size>>

(* primary_index::modify                                                   *)
Modify(id, v) ==
  /\ Exists(id)
  /\ objs' = [objs EXCEPT ![id] = v]
  /\ Record(OnModify(Newest, id, objs[id]))
  /\ UNCHANGED <<next_id, sindex, sessions, disabled, max_size>>

(* primary_index::remove                                                   *)
Remove(id) ==
  /\ Exists(id)
  /\ objs' = [objs EXCEPT ![id] = NoObj]
  /\ sindex' = sindex \ {id}
  /\ Record(OnRemove(Newest, id, objs[id]))
  /\ UNCHANGED <<next_id, sessions, disabled, max_size>>

-----------------------------------------------------------------------------
(* Sessions                                                                *)

(* Faulty: `>=' for `>' in the loop that trims the history.                *)
NewestLess(s, n) == IF Len(s) < n THEN s ELSE SubSeq(s, Len(s) - n + 2, Len(s))

(* The newest n elements of a deque: what pop_front leaves.                *)
Newestn(s, n) == IF Len(s) <= n THEN s ELSE SubSeq(s, Len(s) - n + 1, Len(s))

(* undo_database::start_undo_session.  Without force_enable it is called   *)
(* only while recording is on (push_block, push_transaction).              *)
StartUndoSession(force) ==
  /\ Len(sessions) < MaxSessions
  /\ disabled => force
  /\ sessions' = Append(sessions, disabled /\ force)
  /\ disabled' = FALSE
  /\ stack' = Append(Newestn(stack, max_size), EmptyState)
  /\ saved' = Append(Newestn(saved, max_size), Current)
  /\ UNCHANGED <<objs, next_id, sindex, max_size>>

(* The session on top is destroyed: ~session disables recording again when *)
(* it had been switched on for this session only.                          *)
EndSession ==
  /\ sessions' = SubSeq(sessions, 1, Len(sessions) - 1)
  /\ disabled' = sessions[Len(sessions)]

(* get_object and insert inside undo()/pop_commit() succeed.               *)
Revertible(st) ==
  \A id \in Ids :
    /\ (st.old_values[id] # NoObj \/ id \in st.new_ids) => Exists(id)
    /\ st.removed[id] # NoObj => (~Exists(id) \/ id \in st.new_ids)

(* Faulty: next ids are not restored.                                      *)
RevertObjects(st) ==
  /\ objs' = [id \in Ids |->
                IF st.removed[id] # NoObj THEN st.removed[id]
                ELSE IF id \in st.new_ids THEN NoObj
                ELSE IF st.old_values[id] # NoObj THEN st.old_values[id]
                ELSE objs[id]]
  /\ next_id' = next_id
  /\ sindex' = sindex \ st.new_ids

(* The loops of undo() and pop_commit(), in their order: old values put    *)
(* back, new objects removed, next ids restored, removed objects inserted. *)
(* insert() is generic_index::insert: no secondary index hears of it.      *)
Revert(st) ==
  /\ objs' = [id \in Ids |->
                IF st.removed[id] # NoObj THEN st.removed[id]
                ELSE IF id \in st.new_ids THEN NoObj
                ELSE IF st.old_values[id] # NoObj THEN st.old_values[id]
                ELSE objs[id]]
  /\ next_id' = IF st.old_next # -1 THEN st.old_next ELSE next_id
  /\ sindex' = sindex \ st.new_ids

(* session::undo or ~session without commit or merge: undo_database::undo. *)
Undo ==
  /\ sessions # <<>>
  /\ ~disabled
  /\ Revertible(stack[Len(stack)])
  /\ Revert(stack[Len(stack)])
  /\ LET below == SubSeq(stack, 1, Len(stack) - 1)
     IN IF below = <<>>
        THEN /\ stack' = <<EmptyState>>
             /\ saved' = <<[objs |-> objs', next |-> next_id']>>
        ELSE /\ stack' = below
             /\ saved' = SubSeq(saved, 1, Len(saved) - 1)
  /\ EndSession
  /\ UNCHANGED max_size

(* undo_database::merge on states A (older) and B: the 4x4 table.          *)
MergedNew(A, B)     == (A.new_ids \cup B.new_ids) \ {id \in A.new_ids : B.removed[id] # NoObj}
MergedOld(A, B)     == [id \in Ids |->
                          IF A.old_values[id] # NoObj
                          THEN IF B.removed[id] # NoObj THEN NoObj ELSE A.old_values[id]
                          ELSE IF id \in A.new_ids THEN NoObj ELSE B.old_values[id]]
MergedRemoved(A, B) == [id \in Ids |->
                          IF B.removed[id] = NoObj \/ id \in A.new_ids THEN A.removed[id]
                          ELSE IF A.old_values[id] # NoObj THEN A.old_values[id]
                          ELSE B.removed[id]]
MergedNext(A, B)    == IF A.old_next = -1 THEN B.old_next ELSE A.old_next

MergeStates(A, B) ==
  [old_values |-> MergedOld(A, B), old_next |-> MergedNext(A, B),
   new_ids |-> MergedNew(A, B), removed |-> MergedRemoved(A, B)]

(* session::merge of a session that did not switch recording on.  When the *)
(* FC_ASSERT on the size fails, the exception destroys the session, which  *)
(* is Undo.                                                                *)
Merge ==
  /\ sessions # <<>>
  /\ ~sessions[Len(sessions)]
  /\ Len(stack) >= 2
  /\ stack' = [SubSeq(stack, 1, Len(stack) - 1) EXCEPT
                 ![Len(stack) - 1] = MergeStates(stack[Len(stack) - 1], stack[Len(stack)])]
  /\ saved' = SubSeq(saved, 1, Len(saved) - 1)
  /\ EndSession
  /\ UNCHANGED <<objs, next_id, sindex, max_size>>

(* session::commit, and session::merge of a session opened with recording  *)
(* off: the undo state stays as history.                                   *)
Commit ==
  /\ sessions # <<>>
  /\ EndSession
  /\ UNCHANGED <<objs, next_id, sindex, stack, max_size, saved>>

(* object_database::pop_undo -> undo_database::pop_commit.  The caller is  *)
(* database::pop_block, which never gets here for a block replayed with    *)
(* recording off: fork_database::pop_block refuses it first.               *)
PopCommit ==
  /\ sessions = <<>>
  /\ ~disabled
  /\ stack # <<>>
  /\ saved[Len(saved)] # Lost
  /\ Revertible(stack[Len(stack)])
  /\ Revert(stack[Len(stack)])
  /\ stack' = SubSeq(stack, 1, Len(stack) - 1)
  /\ saved' = SubSeq(saved, 1, Len(saved) - 1)
  /\ UNCHANGED <<sessions, disabled, max_size>>

(* Faulty: head - last_irreversible, without the + 1.                      *)
SetMaxSizeShort(n) ==
  /\ max_size' = n - 1
  /\ UNCHANGED <<objs, next_id, sindex, stack, sessions, disabled, saved>>

(* set_max_size, called by update_global_dynamic_data for every block.     *)
SetMaxSize(n) ==
  /\ max_size' = n
  /\ UNCHANGED <<objs, next_id, sindex, stack, sessions, disabled, saved>>

(* reindex: enable() once the blocks have been replayed.                   *)
Enable ==
  /\ disabled
  /\ disabled' = FALSE
  /\ UNCHANGED <<objs, next_id, sindex, stack, sessions, max_size, saved>>

-----------------------------------------------------------------------------
(* An empty index; recording is on for a node that starts on a saved state *)
(* and off for one that replays its blocks (database::reindex).            *)
Init ==
  /\ objs = [id \in Ids |-> NoObj]
  /\ next_id = 0
  /\ sindex = {}
  /\ stack = <<>>
  /\ sessions = <<>>
  /\ disabled \in BOOLEAN
  /\ max_size \in MinHistory..MaxHistory
  /\ saved = <<>>

Next ==
  \/ \E v \in Value : Create(v)
  \/ \E id \in Ids, v \in Value : Modify(id, v)
  \/ \E id \in Ids : Remove(id)
  \/ \E force \in BOOLEAN : StartUndoSession(force)
  \/ Undo
  \/ Merge
  \/ Commit
  \/ PopCommit
  \/ \E n \in MinHistory..MaxHistory : SetMaxSize(n)
  \/ Enable

Spec == Init /\ [][Next]_vars

-----------------------------------------------------------------------------
(* Properties                                                              *)

(* The fields of the object database and of undo_database hold what they   *)
(* are declared to hold (undo_database.hpp).                               *)
TypeOK ==
  /\ objs \in [Ids -> MaybeVal]
  /\ next_id \in 0..MaxObjects
  /\ sindex \subseteq Ids
  /\ stack \in Seq(UndoState)
  /\ sessions \in Seq(BOOLEAN)
  /\ disabled \in BOOLEAN
  /\ max_size \in MinHistory..MaxHistory
  /\ saved \in Seq(Snapshot \cup {Lost})

(* Undo state st leads from the database `after' back to `before': every   *)
(* object is new, updated, removed or untouched, and st says which.        *)
ObjectDescribed(st, before, after, id) ==
  /\ id \in st.new_ids =>
       /\ before.objs[id] = NoObj /\ after.objs[id] # NoObj
       /\ st.old_values[id] = NoObj /\ st.removed[id] = NoObj
       /\ before.next <= id
  /\ st.old_values[id] # NoObj =>
       /\ before.objs[id] = st.old_values[id] /\ after.objs[id] # NoObj
       /\ st.removed[id] = NoObj
  /\ st.removed[id] # NoObj => before.objs[id] = st.removed[id] /\ after.objs[id] = NoObj
  /\ (id \notin st.new_ids /\ st.old_values[id] = NoObj /\ st.removed[id] = NoObj)
       => before.objs[id] = after.objs[id]

Describes(st, before, after) ==
  /\ \A id \in Ids : ObjectDescribed(st, before, after, id)
  /\ st.old_next = -1 => before.next = after.next
  /\ st.old_next # -1 => before.next = st.old_next
  /\ before.next <= after.next

(* Undo states stk, opened on the databases svd, lead from database c back *)
(* to each of them in turn; a spoilt snapshot is owed nothing.             *)
Linked(stk, svd, c) ==
  \A i \in 1..Len(svd) :
    svd[i] # Lost =>
      LET after == IF i = Len(svd) THEN c ELSE svd[i + 1]
      IN after # Lost /\ Describes(stk[i], svd[i], after)

(* The promise of undo_database: through every interleaving of changes,    *)
(* sessions, merges, commits, undos and trimmed history, each undo state   *)
(* kept still holds exactly the way back to where it was opened.           *)
HistoryFaithful == Linked(stack, saved, Current)

(* Ids are handed out in order and never one in use: generic_index::create *)
(* asserts that the insertion succeeds, also after undo() reset next ids.  *)
IdsBelowNext(s) == \A id \in Ids : s.objs[id] # NoObj => id < s.next
AllFresh(svd)   == \A i \in 1..Len(svd) : svd[i] # Lost => IdsBelowNext(svd[i])

NextIdFresh == IdsBelowNext(Current) /\ AllFresh(saved)

(* Every open session has its own undo state, made while recording was on: *)
(* the limit never drops the state of an open session, so undo() and       *)
(* merge() act on the state of the session they are called for.            *)
SessionsHaveStates ==
  /\ Len(saved) = Len(stack)
  /\ Len(sessions) <= Len(stack)
  /\ Len(sessions) <= MaxSessions
  /\ sessions # <<>> => ~disabled
  /\ \A i \in 1..Len(sessions) : i > 1 => ~sessions[i]
  /\ \A i \in 1..Len(stack) : i > Len(stack) - Len(sessions) => saved[i] # Lost

(* undo() of an open session meets no missing object and no id in use: the *)
(* destructor ~session rethrows, which "maybe crash"es.                    *)
UndoNeverThrows == sessions # <<>> => Revertible(stack[Len(stack)])

(* The N/A cells of merge()'s table ("a serious logic error which should   *)
(* never happen") never occur between a session's state and the one below. *)
MergeCausal ==
  (sessions # <<>> /\ Len(stack) >= 2 /\ saved[Len(stack) - 1] # Lost) =>
    LET A == stack[Len(stack) - 1]
        B == stack[Len(stack)]
    IN \A id \in Ids :
         /\ id \in B.new_ids => id \notin A.new_ids /\ A.old_values[id] = NoObj
                                /\ A.removed[id] = NoObj
         /\ A.removed[id] # NoObj => B.old_values[id] = NoObj /\ B.removed[id] = NoObj

(* Secondary indexes track the objects of the primary index: "tracks all   *)
(* of the proposal objects that requrie approval of an individual account" *)
(* (proposal_object.hpp).                                                  *)
SecondaryIndexComplete == \A id \in Ids : Exists(id) => id \in sindex

(* What the database promises its callers: whole snapshots, taken when a   *)
(* session opens and put back when it is undone.                           *)
Snapshots == INSTANCE SnapshotStack WITH
  State <- Snapshot, cur <- Current, open <- Len(sessions), limit <- max_size,
  Limit <- MinHistory..MaxHistory, off <- disabled

ImplementsSnapshots == Snapshots!Spec
=============================================================================
