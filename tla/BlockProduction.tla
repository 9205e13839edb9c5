-------------------------- MODULE BlockProduction --------------------------
(***************************************************************************)
(* Block production: the slots of the chain, who is scheduled for them,    *)
(* what a block changes in the global properties, maintenance with its     *)
(* budget, and the production loop of the nodes that mine                  *)
(* (db_miner_schedule.cpp, db_update.cpp, db_maint.cpp, plugins/miner).    *)
(*                                                                         *)
(* All blocks are made by the production loops of Nodes and reach every    *)
(* node at once, so one record, db, stands for the database of each.       *)
(* Time is in seconds; clock, the nodes' common NTP time, counts half      *)
(* seconds, because the loop rounds to the nearest second.                 *)
(***************************************************************************)
EXTENDS Integers, FiniteSets, Sequences

CONSTANTS
  Nodes, Miners,
  Controls,      \* [Nodes -> SUBSET Miners]: miner-id and miner-private-key
  Stale,         \* the nodes started with enable-stale-production
  Required,      \* required-miners-participation, in 1/100 of a percent
  Window,        \* bits of recent_slots_filled
  Genesis,       \* initial_timestamp
  Initial,       \* initial_parameters: [interval, maint, skip]
  Proposed,      \* parameters that miners may agree on
  InitialMiners, \* initial_active_miners, in their order
  Elections,     \* the sets of miners a vote may make active
  Rekeying,      \* the miners that may change their signing key (miner_update)
  Fees,          \* fees that the transactions of a block may pay
  Reward,        \* Reward[k]: what a block mints in the k-th era of the chain
  Era,           \* number of blocks of an era
  Wealth,        \* initial supply of the core asset
  MaxLate,       \* bound: half seconds a wake-up of the loop may be late
  MaxTime,       \* bound on the clock, in seconds
  None

(* chain_parameters::validate.                                             *)
ValidParameters(p) ==
  /\ p.interval \in Nat \ {0}
  /\ p.skip \in Nat
  /\ p.maint \in Nat
  /\ p.maint > p.interval
  /\ p.maint % p.interval = 0

(* The orders of a set of miners.                                          *)
Shuffles(S) ==
  {f \in [1..Cardinality(S) -> S] :
     \A i, j \in 1..Cardinality(S) : f[i] = f[j] => i = j}

ASSUME ParameterAssumption == \A p \in Proposed \cup {Initial} : ValidParameters(p)
ASSUME MinerAssumption ==
  /\ IsFiniteSet(Miners) /\ Rekeying \subseteq Miners
  /\ Elections \subseteq SUBSET Miners /\ {} \notin Elections
  /\ \E s \in Elections : InitialMiners \in Shuffles(s)
  /\ Controls \in [Nodes -> SUBSET Miners]
ASSUME AmountAssumption ==
  /\ Fees \subseteq Nat /\ Wealth \in Nat
  /\ Len(Reward) > 0 /\ Reward \in Seq(Nat) /\ Era \in Nat \ {0}
ASSUME GenesisAssumption == Genesis \in Nat /\ Genesis % Initial.interval = 0
ASSUME NoneAssumption == None \notin Proposed

VARIABLES
  clock,     \* graphene::utilities::now(), in half seconds
  db,        \* what the chain database keeps for production, see DbType
  up,        \* the nodes that run
  enabled,   \* _production_enabled of the nodes
  wake,      \* next_wakeup of the nodes, in half seconds
  good       \* history: half seconds the production has been Healthy, capped

vars == <<clock, db, up, enabled, wake, good>>

-----------------------------------------------------------------------------
(* Slots and the schedule (db_miner_schedule.cpp)                          *)

(* Faulty: slots count from the head block's own.                          *)
SlotTimeFromHead(d, slot) ==
  LET i == d.params.interval
      skip == IF d.flag THEN d.params.skip ELSE 0
  IN CASE slot = 0  -> 0
       [] slot # 0 /\ d.num = 0 -> d.time + slot * i
       [] OTHER     -> (d.time \div i) * i + (slot - 1 + skip) * i

SlotTime(d, slot) ==
  LET i == d.params.interval
      skip == IF d.flag THEN d.params.skip ELSE 0
  IN CASE slot = 0  -> 0
       [] slot # 0 /\ d.num = 0 -> d.time + slot * i
       [] OTHER     -> (d.time \div i) * i + (slot + skip) * i

(* Faulty: a slot is open only after its time.                             *)
SlotAtTimeLate(d, when) ==
  LET first == SlotTime(d, 1)
  IN IF when <= first THEN 0 ELSE (when - first) \div d.params.interval + 1

SlotAtTime(d, when) ==
  LET first == SlotTime(d, 1)
  IN IF when < first THEN 0 ELSE (when - first) \div d.params.interval + 1

ScheduledMiner(d, slot) == d.schedule[((d.aslot + slot) % Len(d.schedule)) + 1]

(* recent_slots_filled is the set of its one bits.                         *)
ParticipationRate(d) == (10000 * Cardinality(d.filled)) \div Window

(* Faulty: the size of the old schedule decides when a new one is made.    *)
UpdateMinerScheduleOld(d, order) ==
  IF d.num % Len(d.schedule) = 0 THEN [d EXCEPT !.schedule = order] ELSE d

(* The order comes from a xorshift generator seeded with the head block's  *)
(* time: any permutation of the active miners.                             *)
UpdateMinerSchedule(d, order) ==
  IF d.num % Cardinality(d.active) = 0 THEN [d EXCEPT !.schedule = order] ELSE d

-----------------------------------------------------------------------------
(* Applying a block (db_update.cpp, db_maint.cpp)                          *)

(* The operations of a block that matter here: fees into the core asset's  *)
(* pool, a proposal of the miners that sets pending_parameters, a miner    *)
(* that changes its signing key.                                           *)
ApplyTransactions(d, fee, params, rekeyed) ==
  [d EXCEPT !.real = @ - fee, !.pool = @ + fee,
            !.pending = IF params = None THEN @ ELSE params,
            !.rekeyed = @ \cup rekeyed]

(* Faulty: the bitmap is not cut to its width.                             *)
UpdateGlobalDynamicDataWide(d, when) ==
  LET missed == SlotAtTime(d, when) - 1
  IN [d EXCEPT !.num = @ + 1, !.time = when, !.aslot = @ + missed + 1,
               !.filled = {b + missed + 1 : b \in @} \cup {missed}]

UpdateGlobalDynamicData(d, when) ==
  LET missed == SlotAtTime(d, when) - 1
  IN [d EXCEPT !.num = @ + 1, !.time = when, !.aslot = @ + missed + 1,
               !.filled = ({b + missed + 1 : b \in @} \cup {missed}) \cap 0..(Window - 1)]

(* get_asset_per_block_by_block_num.                                       *)
NewAssetPerBlock(d) ==
  LET era == d.num \div Era + 1
  IN IF era > Len(Reward) THEN Reward[Len(Reward)] ELSE Reward[era]

(* Faulty: the number of blocks to maintenance is rounded down.            *)
MinerPayFromFeesDown(d) ==
  LET i == d.params.interval
      blocks == (d.nextMaint - d.lastBudget) \div i
  IN IF blocks <= 0 THEN 0
     ELSE IF d.budget >= 0 THEN d.budget \div blocks ELSE -((-d.budget) \div blocks)

(* What update_signing_miner takes from the fees, before it replaces a     *)
(* negative amount by zero; C++ division rounds towards zero.              *)
MinerPayFromFees(d) ==
  LET i == d.params.interval
      blocks == (d.nextMaint - d.lastBudget + i - 1) \div i
  IN IF blocks <= 0 THEN 0
     ELSE IF d.budget >= 0 THEN d.budget \div blocks ELSE -((-d.budget) \div blocks)

UpdateSigningMiner(d) ==
  LET fromFees == IF MinerPayFromFees(d) < 0 THEN 0 ELSE MinerPayFromFees(d)
      reward == NewAssetPerBlock(d)
  IN [d EXCEPT !.mined = @ + reward, !.unspent = @ - fromFees,
               !.real = @ + fromFees + reward]

NextMaintenanceTime(d) ==
  LET m == d.params.maint
  IN IF d.num = 1 THEN (d.time \div m + 1) * m
     ELSE d.nextMaint + ((d.time - d.nextMaint) \div m + 1) * m

(* Faulty: what was mined is not reset.                                    *)
ProcessBudgetKeepMined(d) ==
  LET fees == d.pool + d.unspent
      generated == d.mined + d.budget - d.unspent
  IN [d EXCEPT !.supply = @ + generated - d.pool, !.pool = 0,
               !.budget = fees, !.unspent = fees, !.lastBudget = d.time]

ProcessBudget(d) ==
  LET fees == d.pool + d.unspent
      generated == d.mined + d.budget - d.unspent
  IN [d EXCEPT !.supply = @ + generated - d.pool, !.pool = 0,
               !.budget = fees, !.unspent = fees, !.mined = 0,
               !.lastBudget = d.time]

(* perform_chain_maintenance: the vote, the pending parameters, the next   *)
(* maintenance time, and the budget last because it needs that time.       *)
Maintenance(d, elected) ==
  LET voted == [d EXCEPT !.active = elected, !.maintNum = d.num,
                         !.params = IF d.pending = None THEN @ ELSE d.pending,
                         !.pending = None]
  IN ProcessBudget([voted EXCEPT !.nextMaint = NextMaintenanceTime(voted)])

(* _apply_block.  due is read before anything is changed.                  *)
ApplyBlock(d, when, tx, elected, order) ==
  LET due == d.nextMaint <= when
      paid == UpdateSigningMiner(UpdateGlobalDynamicData(
                ApplyTransactions(d, tx.fee, tx.params, tx.rekeyed), when))
      kept == IF due THEN Maintenance(paid, elected) ELSE paid
  IN UpdateMinerSchedule([kept EXCEPT !.flag = due], order)

-----------------------------------------------------------------------------
(* The production loop of a node (plugins/miner/miner.cpp)                 *)

(* maybe_produce_block looks half a second ahead and drops the fraction.   *)
Now == (clock + 1) \div 2

Synced(n) == enabled[n] \/ SlotTime(db, 1) >= Now

(* maybe_produce_block goes on to generate_block: every other              *)
(* block_production_condition is the failure of one of these tests.        *)
Willing(n) ==
  LET slot == SlotAtTime(db, Now)
      miner == ScheduledMiner(db, slot)
  IN /\ Synced(n)                               \* not_synced
     /\ slot # 0                                \* not_time_yet
     /\ miner \in Controls[n]                   \* not_my_turn
     /\ miner \notin db.rekeyed                 \* no_private_key
     /\ ParticipationRate(db) >= Required       \* low_participation
     /\ SlotTime(db, slot) = Now                \* lag: both are whole seconds

(* The assertions of _generate_block and of validate_block_header on the   *)
(* block made for the slot; a failure is exception_producing_block.        *)
Accepted ==
  LET slot == SlotAtTime(db, Now)
      when == SlotTime(db, slot)
      again == SlotAtTime(db, when)
  IN /\ db.time < when
     /\ again > 0
     /\ ScheduledMiner(db, again) = ScheduledMiner(db, slot)

(* schedule_production_loop: the next whole second.                        *)
NextSecond(c) == (c \div 2 + 1) * 2

AtWork(n) == n \in up /\ clock >= wake[n]

(* block_production_loop when no block comes of it.                        *)
Idle(n) ==
  /\ AtWork(n)
  /\ ~(Willing(n) /\ Accepted)
  /\ enabled' = [enabled EXCEPT ![n] = Synced(n)]
  /\ wake' = [wake EXCEPT ![n] = NextSecond(clock)]
  /\ UNCHANGED <<clock, db, up>>

(* block_production_loop when it generates a block.                        *)
Produce(n) ==
  /\ AtWork(n)
  /\ Willing(n) /\ Accepted
  /\ LET due == db.nextMaint <= Now
         signer == ScheduledMiner(db, SlotAtTime(db, Now))
     IN \E fee \in {f \in Fees : f <= db.real}, params \in Proposed \cup {None},
           rekeyed \in {{}, {signer} \cap Rekeying},
           elected \in IF due THEN Elections ELSE {db.active} :
        \E order \in Shuffles(elected) :
          db' = ApplyBlock(db, Now, [fee |-> fee, params |-> params, rekeyed |-> rekeyed],
                           elected, order)
  /\ enabled' = [enabled EXCEPT ![n] = TRUE]
  /\ wake' = [wake EXCEPT ![n] = NextSecond(clock)]
  /\ UNCHANGED <<clock, up>>

(* A node is stopped and forgets _production_enabled, and started again:    *)
(* plugin_initialize reads the options, plugin_startup schedules the loop.  *)
Stop(n) ==
  /\ n \in up
  /\ up' = up \ {n}
  /\ enabled' = [enabled EXCEPT ![n] = FALSE]
  /\ wake' = [wake EXCEPT ![n] = 0]
  /\ UNCHANGED <<clock, db>>

Start(n) ==
  /\ n \notin up
  /\ up' = up \cup {n}
  /\ enabled' = [enabled EXCEPT ![n] = n \in Stale]
  /\ wake' = [wake EXCEPT ![n] = NextSecond(clock)]
  /\ UNCHANGED <<clock, db>>

(* Time passes, but no loop is kept waiting for more than MaxLate.         *)
Tick ==
  /\ clock < 2 * MaxTime
  /\ \A n \in up : clock < wake[n] + MaxLate
  /\ clock' = clock + 1
  /\ UNCHANGED <<db, up, enabled, wake>>

-----------------------------------------------------------------------------

(* Production can go on: whoever is scheduled is up, synced, has its key   *)
(* and is not late, and enough slots have been filled.                     *)
Healthy ==
  /\ \A i \in DOMAIN db.schedule :
        /\ db.schedule[i] \notin db.rekeyed
        /\ \E n \in up : enabled[n] /\ db.schedule[i] \in Controls[n]
  /\ \A n \in up : clock <= wake[n]
  /\ ParticipationRate(db) >= Required

MaxGood == 2 * (CHOOSE i \in {p.interval : p \in Proposed \cup {Initial}} :
                  \A p \in Proposed \cup {Initial} : p.interval <= i) + 1

Observe ==
  good' = IF ~Healthy' THEN 0
          ELSE IF clock' > clock /\ good < MaxGood THEN good + 1 ELSE good

(* init_genesis.  next_maintenance_time and last_budget_time are the epoch. *)
Init ==
  /\ clock = 2 * Genesis
  /\ db = [num |-> 0, time |-> Genesis, aslot |-> 0, filled |-> 0..(Window - 1),
           flag |-> FALSE, nextMaint |-> 0, lastBudget |-> 0, maintNum |-> 0,
           budget |-> 0, unspent |-> 0, mined |-> 0, pool |-> 0,
           supply |-> Wealth, real |-> Wealth,
           params |-> Initial, pending |-> None, rekeyed |-> {},
           active |-> {InitialMiners[i] : i \in DOMAIN InitialMiners},
           schedule |-> InitialMiners]
  /\ up = Nodes
  /\ enabled = [n \in Nodes |-> n \in Stale]
  /\ wake = [n \in Nodes |-> NextSecond(2 * Genesis)]
  /\ good = 0

Next ==
  /\ \/ Tick
     \/ \E n \in Nodes : Idle(n) \/ Produce(n) \/ Stop(n) \/ Start(n)
  /\ Observe

Spec == Init /\ [][Next]_vars

-----------------------------------------------------------------------------
(* Properties                                                              *)

Bitmaps == SUBSET (0..(Window - 1))
Schedules == UNION {[1..k -> Miners] : k \in 1..Cardinality(Miners)}

DbType ==
  [num: Nat, time: Nat, aslot: Nat, filled: Bitmaps, flag: BOOLEAN,
   nextMaint: Nat, lastBudget: Nat, maintNum: Nat,
   budget: Int, unspent: Int, mined: Nat, pool: Nat, supply: Int, real: Int,
   params: Proposed \cup {Initial}, pending: Proposed \cup {None},
   rekeyed: SUBSET Miners, active: Elections, schedule: Schedules]

(* Every variable has the type of the code's.                              *)
TypeOK ==
  /\ clock \in Nat
  /\ db \in DbType
  /\ up \subseteq Nodes
  /\ enabled \in [Nodes -> BOOLEAN]
  /\ wake \in [Nodes -> Nat]
  /\ good \in Nat

(* The first slot open to the next block lies after the head block, also   *)
(* when maintenance has just changed the block interval: the assertion     *)
(* now > head_block_time of maybe_produce_block.                           *)
SlotAfterHead == SlotTime(db, 1) > db.time

(* current_supply, what was mined and paid from fees since the last        *)
(* maintenance and what the fees took out account for every core asset in  *)
(* somebody's balance: process_budget's assertion that current_supply is   *)
(* get_real_supply().total() holds whenever maintenance comes.             *)
SupplyMatches ==
  db.real = db.supply + db.mined + (db.budget - db.unspent) - db.pool

(* Miners are paid no more fees than there were at the last maintenance.   *)
FeesNotOverspent == db.unspent >= 0

(* update_signing_miner's "this should never happen": the pay from fees is *)
(* not negative.                                                           *)
PayNeverNegative == MinerPayFromFees(db) >= 0

(* A vote takes effect: from the |active|-1st block after a maintenance,   *)
(* exactly the active miners are scheduled, each once.                     *)
ScheduleFollowsVote ==
  \/ db.num - db.maintNum < Cardinality(db.active) - 1
  \/ db.schedule \in Shuffles(db.active)

(* When production has been healthy for a block interval, no slot is left  *)
(* unused: the head block fills the last slot that has come.               *)
NoSlotWasted ==
  good > 2 * db.params.interval => clock <= 2 * SlotTime(db, 1)

=============================================================================
