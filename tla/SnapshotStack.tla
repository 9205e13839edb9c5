--------------------------- MODULE SnapshotStack ---------------------------
(***************************************************************************)
(* What undo_database promises, without saying how: a database value, a    *)
(* bounded history of whole earlier values, and sessions.  Undoing puts    *)
(* back the value a session started from; merging forgets where the inner  *)
(* session started; committing keeps it as history that can be popped.     *)
(***************************************************************************)
EXTENDS Naturals, Sequences

CONSTANTS
  State,  \* values of the database
  Limit,  \* history lengths that may be asked for
  Lost    \* a snapshot spoilt by a change made with recording off

VARIABLES cur, saved, open, limit, off

svars == <<cur, saved, open, limit, off>>

Front1(s) == SubSeq(s, 1, Len(s) - 1)
Last1(s)  == s[Len(s)]

(* A change of the database; the first one ever opens a history entry.     *)
Change ==
  /\ ~off
  /\ cur' \in State
  /\ saved' = IF saved = <<>> THEN <<cur>> ELSE saved
  /\ UNCHANGED <<open, limit, off>>

ChangeUnrecorded ==
  /\ off
  /\ cur' \in State
  /\ saved' = [i \in 1..Len(saved) |-> Lost]
  /\ UNCHANGED <<open, limit, off>>

(* Opening a session keeps the newest `limit' entries and adds one.        *)
Open ==
  /\ open' = open + 1
  /\ off' = FALSE
  /\ saved' = Append(IF Len(saved) <= limit THEN saved
                     ELSE SubSeq(saved, Len(saved) - limit + 1, Len(saved)), cur)
  /\ UNCHANGED <<cur, limit>>

(* A session that switched recording on switches it off when it ends.      *)
Close == open > 0 /\ open' = open - 1 /\ (open' > 0 => ~off')

Undo ==
  /\ Close
  /\ Last1(saved) # Lost
  /\ cur' = Last1(saved)
  /\ saved' = IF Len(saved) = 1 THEN <<Last1(saved)>> ELSE Front1(saved)
  /\ UNCHANGED limit

Merge ==
  /\ Close
  /\ Len(saved) >= 2
  /\ saved' = Front1(saved)
  /\ UNCHANGED <<cur, limit>>

Commit ==
  /\ Close
  /\ UNCHANGED <<cur, saved, limit>>

PopCommit ==
  /\ open = 0
  /\ saved # <<>>
  /\ Last1(saved) # Lost
  /\ cur' = Last1(saved)
  /\ saved' = Front1(saved)
  /\ UNCHANGED <<open, limit, off>>

SetLimit ==
  /\ limit' \in Limit
  /\ UNCHANGED <<cur, saved, open, off>>

SwitchOn ==
  /\ off
  /\ off' = FALSE
  /\ UNCHANGED <<cur, saved, open, limit>>

Init ==
  /\ cur \in State
  /\ saved = <<>>
  /\ open = 0
  /\ limit \in Limit
  /\ off \in BOOLEAN

Next ==
  \/ Change \/ ChangeUnrecorded \/ Open \/ Undo \/ Merge \/ Commit \/ PopCommit
  \/ SetLimit \/ SwitchOn

Spec == Init /\ [][Next]_svars
=============================================================================
