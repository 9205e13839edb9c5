------------------------------- MODULE Seeding -------------------------------
(***************************************************************************)
(* The seeding plugin (seeding.cpp) with the packages it downloads         *)
(* (package.cpp, ipfs_transfer.cpp), on the chain database that notifies   *)
(* it of operations and whose undo history its own objects are part of     *)
(* (database::_push_block, _push_transaction, pop_block).                  *)
(*                                                                         *)
(* One seeder that every content names; at most one request for a content, *)
(* which runs out with it; every content takes one unit of space.  A       *)
(* proof of custody and a ready_to_publish change nothing that is          *)
(* modelled: each is an "other" transaction, which the next block holds;   *)
(* other transactions are pending only after a switch of forks.            *)
(***************************************************************************)
EXTENDS Integers, FiniteSets, Sequences, SequencesExt

CONSTANTS
  URI,
  Space,        \* free-space option
  Attempts,     \* failed downloads after which a package is given up; 5 in the code
  MaxOps,       \* bound: operations in a block
  MaxUndo,      \* bound: blocks that can be undone
  MaxFaults     \* bound: fork switches, restarts, crashes, failed downloads
                \* and pending transactions that expire

ASSUME UriAssumption == IsFiniteSet(URI)
ASSUME BoundAssumption ==
  /\ Space \in Nat /\ {Attempts, MaxOps, MaxUndo} \subseteq Nat \ {0}
  /\ MaxFaults \in Nat

VARIABLES
  chain,      \* the objects of the database, see ChainType
  stack,      \* snapshots that the undo sessions go back to, oldest first
  session,    \* _pending_tx_session is valid; its snapshot is the last one
  pending,    \* _pending_tx
  fraud,      \* contents that are larger than their submission says
  virtual,    \* contents whose URI is not one of IPFS
  over,       \* contents that are expired by the wall clock
  disk,       \* contents whose package is complete on disk
  downloads,  \* for each content its downloads, each as the number of failures
  releasing,  \* frauds whose release waits for the main thread
  free_space,
  phase,      \* "starting" until restore_state has run, "partial" if it threw
  rtp,        \* send_ready_to_publish is scheduled
  por,        \* generate_pors is scheduled
  faults      \* number of faults so far

vars == <<chain, stack, session, pending, fraud, virtual, over, disk, downloads,
          releasing, free_space, phase, rtp, por, faults>>

db      == <<chain, stack, session, pending>>
plugin  == <<disk, downloads, releasing, free_space>>
kinds   == <<fraud, virtual>>
threads == <<phase, rtp, por, kinds>>

ChainType ==
  [content    : SUBSET URI,   \* content_index
   past       : SUBSET URI,   \* expired at head_block_time
   requested  : SUBSET URI,   \* buying_index
   answered   : SUBSET URI,   \* our key is among the answers
   mine       : SUBSET URI,   \* seeding_index
   downloaded : SUBSET URI, deleted : SUBSET URI]  \* its flags

Ops == [type : {"submit", "buy", "deliver"}, uri : URI]
Other == [type |-> "other"]
Of(type, S) == {[type |-> type, uri |-> u] : u \in S}
Blocks == {ops \in SUBSET Ops : Cardinality(ops) <= MaxOps}
UrisOf(type, ops) == {u \in URI : [type |-> type, uri |-> u] \in ops}

-----------------------------------------------------------------------------
(* The chain database                                                      *)

(* Operations are valid and applied in the order submit, buy, deliver.     *)
Valid(C, ops) ==
  /\ UrisOf("submit", ops) \cap C.past = {}
  /\ UrisOf("buy", ops) \subseteq
       (C.content \cup UrisOf("submit", ops)) \ (C.past \cup C.requested)
  /\ UrisOf("deliver", ops) \subseteq C.requested \cup UrisOf("buy", ops)

Apply(C, ops) ==
  [C EXCEPT !.content   = @ \cup UrisOf("submit", ops),
            !.requested = @ \cup UrisOf("buy", ops),
            !.answered  = @ \cup UrisOf("deliver", ops)]

(* The largest part of a set of transactions that is valid.                *)
StillValid(C, ops) ==
  LET submit  == UrisOf("submit", ops) \ C.past
      buy     == (UrisOf("buy", ops) \cap (C.content \cup submit)) \ (C.past \cup C.requested)
      deliver == UrisOf("deliver", ops) \cap (C.requested \cup buy)
  IN Of("submit", submit) \cup Of("buy", buy) \cup Of("deliver", deliver)

(* Faulty: the plugin's objects are no part of the undo history.           *)
UndoneSharedOnly(C) ==
  [C EXCEPT !.mine = chain.mine, !.downloaded = chain.downloaded, !.deleted = chain.deleted]
(* undo_database::undo back to a snapshot.                                 *)
Undone(C) == C

(* The database without its pending transactions.                          *)
Committed == IF session THEN Undone(Last(stack)) ELSE chain
BlockStack == IF session THEN Front(stack) ELSE stack

Trimmed(S) == IF Len(S) > MaxUndo THEN Tail(S) ELSE S

(* _push_transaction of each of a set, where those in known are pending: a *)
(* session is started if there is none, and what fails leaves nothing.     *)
PushAll(C, S, on, ops, known) ==
  LET ok == StillValid(C, ops)
  IN /\ chain' = Apply(C, ok)
     /\ stack' = IF on \/ ops = {} THEN S ELSE Append(S, C)
     /\ session' = (on \/ ops # {})
     /\ pending' = known \cup ok

-----------------------------------------------------------------------------
(* Handlers of committed operations                                        *)

(* handle_content_submit: contents that are new to the plugin.             *)
NewContent(C, ops) == UrisOf("submit", ops) \ (over \cup C.mine)

(* handle_new_content.  The download is started on the service thread:     *)
(* download() throws for a package that has no download task, as its       *)
(* engine "local" is not registered.  Content that is not on IPFS never    *)
(* has one, and a package on disk has none if it was found there at the    *)
(* start.                                                                  *)
Allocated(space, n) == IF space > n THEN space - n ELSE 0
WithSeedings(C, S) == [C EXCEPT !.mine = @ \cup S]
Queued(S) == [u \in URI |-> IF u \in S THEN Append(downloads[u], 0) ELSE downloads[u]]

(* handle_request_to_buy sends a key for these.                            *)
KeysFor(C, requests) == (requests \cap C.mine \cap C.content) \ over

-----------------------------------------------------------------------------
(* A block on top of the head.  The handlers run in a session of their     *)
(* own; the session of the pending transactions is started inside it, and  *)
(* merge() then takes the top of the stack, which is that one's: what the  *)
(* handlers did is undone with the pending transactions.  At the end what  *)
(* was pending is pushed again, unless it has expired.                     *)
PushBlock(ops, past, sync_mode) ==
  LET C0  == Committed
      C1  == [Apply(C0, ops) EXCEPT !.past = past]
      new == NewContent(C1, ops)
      C2  == WithSeedings(C1, new)
      keys == IF sync_mode THEN {} ELSE KeysFor(C2, UrisOf("buy", ops))
      S1  == Trimmed(Append(BlockStack, C0))
      sent == Of("deliver", keys)
      left == pending \ (ops \cup {Other})
  IN /\ Valid(C0, ops) /\ C0.past \subseteq past /\ past \subseteq over \cap C1.content
     /\ UrisOf("deliver", ops) \subseteq UrisOf("deliver", pending)
     /\ free_space' = Allocated(free_space, Cardinality(new))
     /\ \E none \in SUBSET (new \cap disk) : downloads' = Queued(new \ (virtual \cup none))
     /\ \E lost \in SUBSET left :
          /\ faults' = faults + Cardinality(lost) /\ faults' <= MaxFaults
          /\ IF keys = {} THEN PushAll(C2, S1, FALSE, left \ lost, {})
             ELSE PushAll(Apply(C2, sent), Append(S1, C1), TRUE, left \ lost, sent)
     /\ UNCHANGED <<over, disk, releasing, threads>>

(* A switch to another fork: its blocks are applied, nobody is notified,   *)
(* and the transactions of the blocks that were popped are pending again.  *)
(* The operations of the new branch are taken to be in its first block,    *)
(* and its head to be as late as the old one.                              *)
SwitchFork(depth, ops) ==
  LET base   == Len(BlockStack) - depth
      C0     == Undone(BlockStack[base + 1])
      C1     == [Apply(C0, ops) EXCEPT
                   !.past = Committed.past \cap (C0.content \cup UrisOf("submit", ops))]
      popped == Of("submit", Committed.content \ C0.content)
                  \cup Of("buy", Committed.requested \ C0.requested)
                  \cup Of("deliver", Committed.answered \ C0.answered)
      S1     == SubSeq(BlockStack, 1, base + 1) \o [i \in 1..depth |-> C1]
  IN /\ faults < MaxFaults /\ Valid(C0, ops) /\ UrisOf("deliver", ops) = {}
     /\ PushAll(C1, Trimmed(S1), FALSE, (popped \cup pending) \ (ops \cup {Other}), {})
     /\ faults' = faults + 1
     /\ UNCHANGED <<over, plugin, threads>>

(* A transaction that touches nothing of ours.                             *)
PushTransaction ==
  /\ Other \notin pending
  /\ pending' = pending \cup {Other} /\ session' = TRUE /\ chain' = chain
  /\ stack' = IF session THEN stack ELSE Append(stack, chain)
  /\ UNCHANGED <<over, plugin, threads, faults>>

(* Time passes the expiration of a content.                                *)
Expire(u) ==
  /\ u \in chain.content \ over
  /\ over' = over \cup {u}
  /\ UNCHANGED <<db, plugin, threads, faults>>

-----------------------------------------------------------------------------
(* Downloads                                                               *)

(* A download is moved to the package's directory when it is complete; a   *)
(* removal deletes the directory.                                          *)
Fetched(D, S) == D \cup S
Removed(D, S) == D \ S

release_package(C, S) == [C EXCEPT !.deleted = @ \cup S]

(* The node stops without closing its database: a replay of the blocks     *)
(* brings back what the chain holds, nothing that the plugin holds.        *)
Crashed ==
  /\ chain' = [Committed EXCEPT !.mine = {}, !.downloaded = {}, !.deleted = {}]
  /\ stack' = <<>> /\ session' = FALSE /\ pending' = {}
  /\ downloads' = [u \in URI |-> <<>>] /\ releasing' = {}
  /\ free_space' = Space /\ phase' = "starting" /\ rtp' = TRUE /\ por' = FALSE
  /\ faults' = faults + 1

Crash == faults < MaxFaults /\ Crashed /\ UNCHANGED <<over, disk, kinds>>

(* The listener uses the seeding object it finds; if there is none, it     *)
(* uses the end of the index, which is taken to stop the node.             *)
NoSeeding(u) == /\ u \notin chain.mine /\ UNCHANGED kinds
                /\ faults < MaxFaults /\ Crashed

package_download_complete(u, i) ==
  /\ i \in DOMAIN downloads[u] /\ disk' = Fetched(disk, {u}) /\ UNCHANGED over
  /\ \/ NoSeeding(u)
     \/ /\ u \in chain.mine
        /\ downloads' = [downloads EXCEPT ![u] = RemoveAt(@, i)]
        /\ IF u \in fraud
           THEN releasing' = releasing \cup {u} /\ UNCHANGED chain
           ELSE /\ chain' = [chain EXCEPT !.downloaded = @ \cup {u}]
                /\ UNCHANGED releasing
        /\ UNCHANGED <<stack, session, pending, free_space, threads, faults>>

package_download_error(u, i) ==
  LET failed == downloads[u][i] + 1
  IN /\ i \in DOMAIN downloads[u] /\ faults < MaxFaults /\ UNCHANGED over
     /\ \/ /\ failed = Attempts /\ NoSeeding(u) /\ UNCHANGED disk
        \/ /\ failed < Attempts \/ u \in chain.mine
           /\ faults' = faults + 1
           /\ IF failed < Attempts
              THEN downloads' = [downloads EXCEPT ![u][i] = failed] /\ UNCHANGED <<chain, disk>>
              ELSE /\ downloads' = [downloads EXCEPT ![u] = RemoveAt(@, i)]
                   /\ chain' = release_package(chain, {u}) /\ disk' = Removed(disk, {u})
           /\ UNCHANGED <<stack, session, pending, releasing, free_space, threads>>

(* The main thread releases a package that is larger than it should be.    *)
ReleaseFraud(u) ==
  /\ u \in releasing /\ UNCHANGED over
  /\ \/ NoSeeding(u) /\ UNCHANGED disk
     \/ /\ u \in chain.mine
        /\ releasing' = releasing \ {u}
        /\ chain' = release_package(chain, {u}) /\ disk' = Removed(disk, {u})
        /\ UNCHANGED <<stack, session, pending, downloads, free_space, threads, faults>>

-----------------------------------------------------------------------------
(* The service thread                                                      *)

(* generate_pors on a database and a disk: packages of expired contents    *)
(* are released, those of the others are fetched if they are missing; get_ *)
(* content throws when there is no content and the loop is not scheduled   *)
(* again.                                                                  *)
Pors(C, D) ==
  LET held    == (C.mine \cap C.downloaded) \ C.deleted
      expired == held \cap over
  IN IF held \subseteq C.content
     THEN /\ por' = TRUE
          /\ chain' = release_package(C, expired)
          /\ \E got \in SUBSET ((held \ over) \ D) : disk' = Fetched(Removed(D, expired), got)
     ELSE por' = FALSE /\ chain' = C /\ disk' = D

generate_pors ==
  /\ por /\ Pors(chain, disk)
  /\ UNCHANGED <<stack, session, pending, over, downloads, releasing, free_space, phase, rtp, kinds,
                 faults>>

(* Faulty: keys are sent only when a request comes in.                     *)
ResendNone(C) == {}
(* resend_keys                                                             *)
ResendKeys(C) == KeysFor(C, (C.requested \ C.answered) \ C.past)

(* Without IPFS, or with a price above the limit, it throws before it has  *)
(* scheduled itself again.  Its own transaction is given to the main       *)
(* thread, the keys are pushed at once.                                    *)
send_ready_to_publish(ok) ==
  /\ phase # "starting" /\ rtp
  /\ rtp' = ok
  /\ IF ok THEN PushAll(chain, stack, session, Of("deliver", ResendKeys(chain)), pending)
     ELSE UNCHANGED db
  /\ UNCHANGED <<over, plugin, phase, por, kinds, faults>>

-----------------------------------------------------------------------------
(* Start and stop                                                          *)

(* database::close undoes every block that can be undone.                  *)
Restart ==
  /\ faults < MaxFaults
  /\ faults' = faults + 1
  /\ chain' = IF stack = <<>> THEN chain ELSE Undone(stack[1])
  /\ stack' = <<>> /\ session' = FALSE /\ pending' = {}
  /\ downloads' = [u \in URI |-> <<>>] /\ releasing' = {}
  /\ free_space' = Space /\ phase' = "starting" /\ rtp' = TRUE /\ por' = FALSE
  /\ UNCHANGED <<over, disk, kinds>>

(* Faulty: space is taken only for the objects that are created.           *)
SpaceForMissing(C) == Allocated(free_space, Cardinality(C.content \ (C.past \cup C.mine)))
(* The space that is left for what is submitted and not expired.           *)
SpaceRestored(C) == Allocated(free_space, Cardinality(C.content \ C.past))

(* Only an expired content is downloaded again, and download() throws for  *)
(* one that is not on IPFS: what comes after it in the order of URIs,      *)
(* which is left open, is not restored, and generate_pors is not called.   *)
restore_state ==
  /\ phase = "starting"
  /\ free_space' = SpaceRestored(chain)
  /\ LET C1      == WithSeedings(chain, chain.content \ chain.past)
         again   == (C1.mine \ disk) \cap C1.past
         throws  == again \cap virtual
         Marked(S) == [C1 EXCEPT !.downloaded = @ \cup (S \cap disk)]
     IN \/ /\ throws = {}
           /\ phase' = "running" /\ downloads' = Queued(again) /\ Pors(Marked(C1.mine), disk)
        \/ /\ throws # {}
           /\ \E S \in SUBSET (C1.mine \ throws) :
                downloads' = Queued(S \cap again) /\ chain' = Marked(S)
           /\ phase' = "partial" /\ por' = FALSE /\ UNCHANGED disk
  /\ UNCHANGED <<stack, session, pending, over, releasing, rtp, kinds, faults>>

Init ==
  /\ chain = [f \in DOMAIN (CHOOSE c \in ChainType : TRUE) |-> {}]
  /\ stack = <<>> /\ session = FALSE /\ pending = {}
  /\ virtual \in SUBSET URI /\ fraud \in SUBSET (URI \ virtual)
  /\ over = {} /\ disk = {} /\ downloads = [u \in URI |-> <<>>] /\ releasing = {}
  /\ free_space = Space /\ phase = "starting" /\ rtp = TRUE /\ por = FALSE
  /\ faults = 0

Next ==
  \/ \E ops \in Blocks, past \in SUBSET URI, sync_mode \in BOOLEAN :
       PushBlock(ops, past, sync_mode)
  \/ \E depth \in 1..Len(BlockStack), ops \in Blocks : SwitchFork(depth, ops)
  \/ PushTransaction
  \/ \E u \in URI : Expire(u) \/ ReleaseFraud(u)
  \/ \E u \in URI : \E i \in DOMAIN downloads[u] :
       package_download_complete(u, i) \/ package_download_error(u, i)
  \/ generate_pors
  \/ \E ok \in BOOLEAN : send_ready_to_publish(ok)
  \/ Crash \/ Restart \/ restore_state

(* Miners put a key that is pending into a block at last.                  *)
IncludeKey ==
  \E ops \in Blocks, sync_mode \in BOOLEAN :
    UrisOf("deliver", ops) # {} /\ PushBlock(ops, Committed.past, sync_mode)

Fairness == WF_vars(send_ready_to_publish(TRUE)) /\ WF_vars(IncludeKey)

Spec == Init /\ [][Next]_vars /\ Fairness

-----------------------------------------------------------------------------
(* Properties                                                              *)

(* A seeding object never outlives its content, so that generate_pors      *)
(* never ends at the assertion in get_content: once restore_state has come *)
(* to its end, the loop is always scheduled.                               *)
TypeOK ==
  /\ chain \in ChainType /\ stack \in Seq(ChainType) /\ session \in BOOLEAN
  /\ pending \subseteq Ops \cup {Other} /\ fraud \subseteq URI /\ virtual \subseteq URI
  /\ over \subseteq URI /\ disk \subseteq URI
  /\ downloads \in [URI -> Seq(0..(Attempts - 1))] /\ releasing \subseteq fraud
  /\ free_space \in 0..Space /\ phase \in {"starting", "running", "partial"}
  /\ rtp \in BOOLEAN /\ por \in BOOLEAN /\ faults \in 0..MaxFaults
  /\ session => stack # <<>>
  /\ chain.past \subseteq chain.content \cap over
  /\ chain.mine \subseteq chain.content
  /\ phase = "running" => por

(* Not met by the code.  The proofs of the contents that the plugin seeds  *)
(* are made for as long as it runs ("Restarts all downloads and seeding    *)
(* upon application start").                                               *)
ProofsRestarted == phase # "starting" => por

(* The space offered in ready_to_publish, with what the running contents   *)
(* of the plugin take, is never more than the option allows, whatever was  *)
(* undone and however often the node was restarted.                        *)
SpaceOffered ==
  phase # "starting" =>
    free_space = 0 \/ free_space + Cardinality(chain.mine \ over) <= Space

(* The plugin has a key to deliver that it knows of.                       *)
Owed(u) ==
  /\ phase # "starting" /\ rtp /\ u \in chain.mine \ over
  /\ u \in Committed.requested \ Committed.answered

(* A request does not stay unanswered ("Resend all possibly missed keys"): *)
(* one that came during sync, on a fork, before a restart or whose answer  *)
(* was lost is answered by a later run of send_ready_to_publish.           *)
KeyAnswered == \A u \in URI : []<>~Owed(u)

(* Not met by the code.  A package is complete or on its way for every     *)
(* running content of the plugin ("Restarts all downloads and seeding upon *)
(* application start").                                                    *)
DownloadsRestarted ==
  phase # "starting" =>
    \A u \in chain.mine \ (over \cup chain.deleted) :
      u \in disk \cup releasing \/ downloads[u] # <<>>
=============================================================================
