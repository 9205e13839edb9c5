----------------------- MODULE BlockProductionProofs -----------------------
(***************************************************************************)
(* Proofs about BlockProduction, for every number of nodes and miners,     *)
(* every fee, reward and late wake-up, and every sequence of proposed      *)
(* parameters that chain_parameters::validate accepts.                     *)
(*                                                                         *)
(* A block is applied by a chain of functions on the database record, so   *)
(* there is one lemma per function: it keeps the record's type and         *)
(* balance, and says which fields it leaves alone.  The schedule needs a   *)
(* strengthening, NoMultipleYet: update_miner_schedule looks at the block  *)
(* number only, so what matters after a vote is whether a number divisible *)
(* by the new number of active miners has gone by.                         *)
(***************************************************************************)
EXTENDS BlockProduction, FiniteSetTheorems, TLAPS

(* SupplyMatches of a database record.                                     *)
Balanced(d) == d.real = d.supply + d.mined + (d.budget - d.unspent) - d.pool

(* What the proofs need to know of integer division.                       *)
LEMMA Division ==
  ASSUME NEW a \in Int, NEW b \in Nat \ {0}
  PROVE  /\ a \div b \in Int
         /\ (a \div b) * b <= a
         /\ a < (a \div b) * b + b
         /\ a >= 0 => a \div b >= 0
  BY SMT

(* chain_parameters::validate lets no interval of zero through.            *)
LEMMA ParameterFacts ==
  ASSUME NEW p \in Proposed \cup {Initial}
  PROVE  /\ p.interval \in Nat \ {0} /\ p.maint \in Nat \ {0} /\ p.skip \in Nat
  BY ParameterAssumption DEF ValidParameters

(* A time rounded down to the interval, plus at least one interval, is     *)
(* later.                                                                  *)
LEMMA SlotArithmetic ==
  ASSUME NEW t \in Nat, NEW i \in Nat \ {0}, NEW s \in Nat
  PROVE  /\ (t \div i) * i + (1 + s) * i \in Nat
         /\ (t \div i) * i + (1 + s) * i > t
<1>1. PICK q \in Int : q = t \div i /\ q * i <= t /\ t < q * i + i /\ q >= 0
  BY Division
<1>2. (1 + s) * i = i + s * i /\ s * i \in Nat /\ q * i \in Nat
  BY <1>1
<1>3. q * i + (1 + s) * i > t /\ q * i + (1 + s) * i \in Nat
  BY <1>1, <1>2
<1> QED  BY <1>1, <1>3

(* get_slot_time(1) lies after the head block's time, whatever the         *)
(* parameters are.                                                         *)
LEMMA SlotTimeAhead ==
  ASSUME NEW d \in DbType
  PROVE  SlotTime(d, 1) \in Nat /\ SlotTime(d, 1) > d.time
<1>1. d.time \in Nat /\ d.num \in Nat /\ d.params \in Proposed \cup {Initial}
  BY DEF DbType
<1>2. d.params.interval \in Nat \ {0} /\ d.params.skip \in Nat
  BY <1>1, ParameterFacts
<1>3. CASE d.num = 0
  <2>1. SlotTime(d, 1) = d.time + 1 * d.params.interval
    BY <1>3 DEF SlotTime
  <2> QED  BY <2>1, <1>1, <1>2
<1>4. CASE d.num # 0
  <2>1. PICK s \in Nat : s = IF d.flag THEN d.params.skip ELSE 0
    BY <1>2
  <2>2. SlotTime(d, 1) = (d.time \div d.params.interval) * d.params.interval
                           + (1 + s) * d.params.interval
    BY <2>1, <1>4 DEF SlotTime
  <2> QED  BY ZenonT(60), <2>2, <1>1, <1>2, SlotArithmetic
<1> QED  BY <1>3, <1>4

(* get_slot_at_time never goes below zero.                                 *)
LEMMA SlotAtTimeType ==
  ASSUME NEW d \in DbType, NEW when \in Nat
  PROVE  SlotAtTime(d, when) \in Nat
<1>1. SlotTime(d, 1) \in Nat
  BY SlotTimeAhead
<1>2. d.params.interval \in Nat \ {0}
  BY ParameterFacts DEF DbType
<1>3. CASE when < SlotTime(d, 1)
  BY <1>3 DEF SlotAtTime
<1>4. CASE ~(when < SlotTime(d, 1))
  <2>1. PICK x \in Int : x = when - SlotTime(d, 1) /\ x >= 0
    BY <1>1, <1>4
  <2>2. x \div d.params.interval \in Int /\ x \div d.params.interval >= 0
    BY <2>1, <1>2, Division
  <2>3. SlotAtTime(d, when) = x \div d.params.interval + 1
    BY <1>4, <2>1 DEF SlotAtTime
  <2> QED  BY <2>2, <2>3
<1> QED  BY <1>3, <1>4

(* The fields that paying for a block leaves alone.                        *)
SameSchedule(e, d) ==
  e.active = d.active /\ e.schedule = d.schedule /\ e.maintNum = d.maintNum /\ e.flag = d.flag

SameTimes(e, d) ==
  e.time = d.time /\ e.nextMaint = d.nextMaint /\ e.num = d.num /\ e.lastBudget = d.lastBudget

(* Fees move from balances to the fee pool.                                *)
LEMMA TransactionsKeep ==
  ASSUME NEW d \in DbType, Balanced(d),
         NEW fee \in Nat, NEW params \in Proposed \cup {None}, NEW rekeyed \in SUBSET Miners
  PROVE  LET e == ApplyTransactions(d, fee, params, rekeyed)
         IN e \in DbType /\ Balanced(e) /\ SameSchedule(e, d) /\ SameTimes(e, d)
<1> DEFINE e == ApplyTransactions(d, fee, params, rekeyed)
<1> DEFINE p == IF params = None THEN d.pending ELSE params
<1>0. d.real - fee \in Int /\ d.pool + fee \in Nat
  BY DEF DbType
<1>1. e \in DbType
  <2>1. p \in Proposed \cup {None} /\ d.rekeyed \cup rekeyed \in SUBSET Miners
    BY DEF DbType
  <2>2. e = [d EXCEPT !.real = d.real - fee, !.pool = d.pool + fee, !.pending = p,
                      !.rekeyed = d.rekeyed \cup rekeyed]
    BY DEF ApplyTransactions, DbType
  <2> HIDE DEF e, p
  <2> QED  BY <1>0, <2>1, <2>2, Zenon DEF DbType
<1>2. SameSchedule(e, d) /\ SameTimes(e, d)
  BY DEF ApplyTransactions, DbType, SameSchedule, SameTimes
<1>3. Balanced(e)
  BY DEF ApplyTransactions, DbType, Balanced
<1> QED  BY <1>1, <1>2, <1>3

(* update_global_dynamic_data moves the head and touches no amount.        *)
LEMMA DynamicDataKeeps ==
  ASSUME NEW d \in DbType, Balanced(d), NEW when \in Nat
  PROVE  LET e == UpdateGlobalDynamicData(d, when)
         IN /\ e \in DbType /\ Balanced(e) /\ SameSchedule(e, d)
            /\ e.num = d.num + 1 /\ e.time = when /\ e.nextMaint = d.nextMaint
<1> DEFINE e == UpdateGlobalDynamicData(d, when)
<1>1. PICK slot \in Nat : slot = SlotAtTime(d, when)
  BY SlotAtTimeType
<1>2. d.aslot + (slot - 1) + 1 \in Nat
  BY DEF DbType
<1>3. e = [d EXCEPT !.num = d.num + 1, !.time = when, !.aslot = d.aslot + (slot - 1) + 1,
             !.filled = ({b + (slot - 1) + 1 : b \in d.filled} \cup {slot - 1}) \cap 0..(Window - 1)]
  BY <1>1 DEF UpdateGlobalDynamicData, DbType
<1>4. ({b + (slot - 1) + 1 : b \in d.filled} \cup {slot - 1}) \cap 0..(Window - 1) \in Bitmaps
  BY DEF Bitmaps
<1>5. e \in DbType
  <2>1. d.num + 1 \in Nat
    BY DEF DbType
  <2> HIDE DEF e
  <2> QED  BY <2>1, <1>2, <1>3, <1>4, Zenon DEF DbType
<1>6. SameSchedule(e, d) /\ e.num = d.num + 1 /\ e.time = when /\ e.nextMaint = d.nextMaint
  BY <1>3 DEF DbType, SameSchedule
<1>7. Balanced(e)
  BY <1>3 DEF DbType, Balanced
<1> QED  BY <1>5, <1>6, <1>7

(* get_asset_per_block_by_block_num finds a reward for every block number. *)
LEMMA RewardType ==
  ASSUME NEW d \in DbType
  PROVE  NewAssetPerBlock(d) \in Nat
<1>1. PICK era \in Nat : era = d.num \div Era + 1 /\ era >= 1
  BY SMTT(30), Division, AmountAssumption DEF DbType
<1>2. Len(Reward) \in Nat /\ Len(Reward) >= 1 /\ \A k \in 1..Len(Reward) : Reward[k] \in Nat
  BY AmountAssumption
<1>3. NewAssetPerBlock(d) = IF era > Len(Reward) THEN Reward[Len(Reward)] ELSE Reward[era]
  BY <1>1 DEF NewAssetPerBlock
<1> QED  BY <1>1, <1>2, <1>3

(* The pay from fees is a whole number, also when there is no block to     *)
(* divide by.                                                              *)
LEMMA PayType ==
  ASSUME NEW d \in DbType
  PROVE  MinerPayFromFees(d) \in Int
<1>1. d.params.interval \in Nat \ {0} /\ d.nextMaint \in Nat /\ d.lastBudget \in Nat /\ d.budget \in Int
  BY ParameterFacts DEF DbType
<1>2. PICK blocks \in Int : blocks = (d.nextMaint - d.lastBudget + d.params.interval - 1) \div d.params.interval
  BY <1>1, Division
<1>3. MinerPayFromFees(d) = IF blocks <= 0 THEN 0
        ELSE IF d.budget >= 0 THEN d.budget \div blocks ELSE -((-d.budget) \div blocks)
  BY <1>2 DEF MinerPayFromFees
<1>4. CASE blocks <= 0
  BY <1>3, <1>4
<1>5. CASE ~(blocks <= 0)
  <2>1. blocks \in Nat \ {0}
    BY <1>5
  <2>2. d.budget \div blocks \in Int /\ (-d.budget) \div blocks \in Int
    BY <2>1, <1>1, Division
  <2> QED  BY <1>3, <1>5, <2>2
<1> QED  BY <1>4, <1>5

(* update_signing_miner pays what it books as mined or as spent from the   *)
(* fees.                                                                   *)
LEMMA SigningMinerKeeps ==
  ASSUME NEW d \in DbType, Balanced(d)
  PROVE  LET e == UpdateSigningMiner(d)
         IN e \in DbType /\ Balanced(e) /\ SameSchedule(e, d) /\ SameTimes(e, d)
<1> DEFINE e == UpdateSigningMiner(d)
<1>1. PICK pay \in Int : pay = IF MinerPayFromFees(d) < 0 THEN 0 ELSE MinerPayFromFees(d)
  BY PayType
<1>2. PICK reward \in Nat : reward = NewAssetPerBlock(d)
  BY RewardType
<1>3. e = [d EXCEPT !.mined = d.mined + reward, !.unspent = d.unspent - pay,
                    !.real = d.real + pay + reward]
  BY <1>1, <1>2 DEF UpdateSigningMiner, DbType
<1>4. e \in DbType
  <2>1. d.mined + reward \in Nat /\ d.unspent - pay \in Int /\ d.real + pay + reward \in Int
    BY DEF DbType
  <2> HIDE DEF e
  <2> QED  BY <2>1, <1>3, Zenon DEF DbType
<1>5. SameSchedule(e, d) /\ SameTimes(e, d)
  BY <1>3 DEF DbType, SameSchedule, SameTimes
<1>6. Balanced(e)
  BY <1>3 DEF DbType, Balanced
<1> QED  BY <1>4, <1>5, <1>6

(* The next maintenance time is a time when maintenance is due.            *)
LEMMA MaintenanceTimeType ==
  ASSUME NEW d \in DbType, d.nextMaint <= d.time
  PROVE  NextMaintenanceTime(d) \in Nat
<1>1. d.params.maint \in Nat \ {0} /\ d.time \in Nat /\ d.nextMaint \in Nat
  BY ParameterFacts DEF DbType
<1>2. CASE d.num = 1
  <2>1. d.time \div d.params.maint \in Int /\ d.time \div d.params.maint >= 0
    BY <1>1, Division
  <2>2. NextMaintenanceTime(d) = (d.time \div d.params.maint + 1) * d.params.maint
    BY <1>2 DEF NextMaintenanceTime
  <2> QED  BY <2>1, <2>2, <1>1
<1>3. CASE d.num # 1
  <2>1. PICK x \in Int : x = d.time - d.nextMaint /\ x >= 0
    BY <1>1
  <2>2. x \div d.params.maint \in Int /\ x \div d.params.maint >= 0
    BY <1>1, <2>1, Division
  <2>3. NextMaintenanceTime(d) = d.nextMaint + (x \div d.params.maint + 1) * d.params.maint
    BY <1>3, <2>1 DEF NextMaintenanceTime
  <2>4. (x \div d.params.maint + 1) * d.params.maint \in Nat
    BY <2>2, <1>1
  <2> QED  BY <2>3, <2>4, <1>1
<1> QED  BY <1>2, <1>3

(* process_budget moves what was mined, paid and collected into            *)
(* current_supply.                                                         *)
LEMMA BudgetKeeps ==
  ASSUME NEW d \in DbType, Balanced(d)
  PROVE  LET e == ProcessBudget(d)
         IN /\ e \in DbType /\ Balanced(e) /\ SameSchedule(e, d)
            /\ e.time = d.time /\ e.num = d.num
<1> DEFINE e == ProcessBudget(d)
           fees == d.pool + d.unspent
           supply == d.supply + (d.mined + d.budget - d.unspent) - d.pool
<1>1. fees \in Int /\ supply \in Int /\ d.time \in Nat /\ 0 \in Nat
  BY DEF DbType
<1>2. e = [d EXCEPT !.supply = supply, !.pool = 0, !.budget = fees, !.unspent = fees,
                    !.mined = 0, !.lastBudget = d.time]
  BY DEF ProcessBudget, DbType
<1>3. e \in DbType
  <2> HIDE DEF e, fees, supply
  <2> QED  BY <1>1, <1>2, Zenon DEF DbType
<1>4. SameSchedule(e, d) /\ e.time = d.time /\ e.num = d.num
  BY <1>2 DEF DbType, SameSchedule
<1>5. Balanced(e)
  <2>1. e.real = d.real /\ e.supply = supply /\ e.pool = 0 /\ e.budget = fees /\ e.unspent = fees /\ e.mined = 0
    BY <1>2 DEF DbType
  <2> QED  BY <2>1, <1>1 DEF DbType, Balanced
<1> QED  BY <1>3, <1>4, <1>5

(* perform_chain_maintenance keeps the balance; the vote becomes the active*)
(* miners.                                                                 *)
LEMMA MaintenanceKeeps ==
  ASSUME NEW d \in DbType, Balanced(d), d.nextMaint <= d.time, NEW elected \in Elections
  PROVE  LET e == Maintenance(d, elected)
         IN /\ e \in DbType /\ Balanced(e) /\ e.time = d.time
            /\ e.num = d.num /\ e.maintNum = d.num /\ e.active = elected /\ e.schedule = d.schedule
<1> DEFINE p == IF d.pending = None THEN d.params ELSE d.pending
           v == [d EXCEPT !.active = elected, !.maintNum = d.num, !.params = p, !.pending = None]
           w == [v EXCEPT !.nextMaint = NextMaintenanceTime(v)]
<1>1. p \in Proposed \cup {Initial} /\ None \in Proposed \cup {None} /\ d.num \in Nat
  BY DEF DbType
<1>2. v \in DbType
  <2> HIDE DEF p
  <2> QED  BY <1>1, Zenon DEF DbType
<1>3. /\ v.time = d.time /\ v.num = d.num /\ v.maintNum = d.num /\ v.nextMaint = d.nextMaint
      /\ v.active = elected /\ v.schedule = d.schedule
  BY DEF DbType
<1>4. Balanced(v)
  BY DEF Balanced, DbType
<1>5. NextMaintenanceTime(v) \in Nat
  <2> HIDE DEF v
  <2> QED  BY <1>2, <1>3, MaintenanceTimeType
<1>6. w \in DbType
  <2> HIDE DEF v
  <2> QED  BY <1>2, <1>5, Zenon DEF DbType
<1>7. /\ w.time = d.time /\ w.num = d.num /\ w.maintNum = d.num
      /\ w.active = elected /\ w.schedule = d.schedule
  <2> HIDE DEF v
  <2> QED  BY <1>2, <1>3 DEF DbType
<1>8. Balanced(w)
  <2> HIDE DEF v
  <2> QED  BY <1>2, <1>4 DEF DbType, Balanced
<1>9. Maintenance(d, elected) = ProcessBudget(w)
  BY Zenon DEF Maintenance, DbType
<1> HIDE DEF w
<1> QED  BY <1>6, <1>7, <1>8, <1>9, BudgetKeeps DEF SameSchedule

(* What the schedule needs to be inductive: as long as it does not follow  *)
(* the vote, no block since the maintenance had a number divisible by the  *)
(* number of active miners.                                                *)
NoMultipleYet(d) ==
  LET k == Cardinality(d.active)
  IN d.maintNum % k >= 1 /\ (d.maintNum % k) + (d.num - d.maintNum) < k

ScheduleInv(d) ==
  /\ d.maintNum <= d.num
  /\ d.schedule \in Shuffles(d.active) \/ NoMultipleYet(d)

(* A set of active miners is finite and not empty, and its orders are      *)
(* schedules.                                                              *)
LEMMA ElectionFacts ==
  ASSUME NEW s \in Elections
  PROVE  /\ s \in SUBSET Miners /\ IsFiniteSet(s)
         /\ Cardinality(s) \in 1..Cardinality(Miners)
         /\ Shuffles(s) \subseteq Schedules
<1>1. s \in SUBSET Miners /\ s # {} /\ IsFiniteSet(Miners)
  BY MinerAssumption
<1>2. IsFiniteSet(s) /\ Cardinality(s) <= Cardinality(Miners)
  BY <1>1, FS_Subset
<1>3. Cardinality(s) \in Nat /\ Cardinality(s) # 0 /\ Cardinality(Miners) \in Nat
  BY <1>1, <1>2, FS_CardinalityType, FS_EmptySet
<1>4. Cardinality(s) \in 1..Cardinality(Miners)
  BY <1>2, <1>3
<1>5. Shuffles(s) \subseteq [1..Cardinality(s) -> Miners]
  BY <1>1, Zenon DEF Shuffles
<1> QED  BY <1>1, <1>2, <1>4, <1>5, Zenon DEF Schedules

(* A run of block numbers without a multiple of k goes on without one as   *)
(* long as the next number is none.                                        *)
LEMMA NextMultiple ==
  ASSUME NEW k \in Nat \ {0}, NEW m \in Nat, NEW n \in Nat, m <= n,
         m % k >= 1, (m % k) + (n - m) < k, (n + 1) % k # 0
  PROVE  (m % k) + (n + 1 - m) < k
<1>1. PICK q \in Int : q = m \div k /\ m = q * k + (m % k)
  BY SMT
<1>2. (m % k) + (n + 1 - m) # k
  <2> SUFFICES ASSUME (m % k) + (n + 1 - m) = k PROVE FALSE
    OBVIOUS
  <2>1. n + 1 = (q + 1) * k
    BY <1>1
  <2>2. ((q + 1) * k) % k = 0
    BY SMT
  <2> QED  BY <2>1, <2>2
<1>3. m % k \in Int
  OBVIOUS
<1> QED  BY <1>2, <1>3

(* The same of the blocks before the head block.                           *)
NoMultipleBefore(d) ==
  LET k == Cardinality(d.active)
  IN /\ d.maintNum <= d.num - 1 /\ d.maintNum % k >= 1
     /\ (d.maintNum % k) + (d.num - 1 - d.maintNum) < k

(* Both when the vote was just counted (m = n) and later, a block either   *)
(* makes a new schedule or is not a multiple.                              *)
LEMMA ScheduleKeeps ==
  ASSUME NEW d \in DbType, NEW order \in Shuffles(d.active), d.maintNum <= d.num,
         \/ d.maintNum = d.num
         \/ d.schedule \in Shuffles(d.active)
         \/ NoMultipleBefore(d)
  PROVE  LET e == UpdateMinerSchedule(d, order)
         IN /\ e \in DbType /\ ScheduleInv(e) /\ e.time = d.time
            /\ Balanced(d) => Balanced(e)
<1> DEFINE e == UpdateMinerSchedule(d, order)
           k == Cardinality(d.active)
<1>1. /\ d.active \in Elections /\ d.num \in Nat /\ d.maintNum \in Nat
  BY DEF DbType
<1>2. k \in Nat \ {0} /\ order \in Schedules
  BY <1>1, ElectionFacts
<1>3. CASE d.num % k = 0
  <2>1. e = [d EXCEPT !.schedule = order]
    BY <1>3 DEF UpdateMinerSchedule
  <2>2. e \in DbType
    <3> HIDE DEF e
    <3> QED  BY <1>2, <2>1, Zenon DEF DbType
  <2>3. /\ e.schedule = order /\ e.active = d.active /\ e.num = d.num /\ e.maintNum = d.maintNum
        /\ e.real = d.real /\ e.supply = d.supply /\ e.mined = d.mined /\ e.budget = d.budget
        /\ e.unspent = d.unspent /\ e.pool = d.pool /\ e.time = d.time
    BY <2>1 DEF DbType
  <2>4. ScheduleInv(e) /\ (Balanced(d) => Balanced(e))
    <3> HIDE DEF e
    <3> QED  BY <2>3 DEF ScheduleInv, Balanced
  <2> QED  BY <2>2, <2>3, <2>4
<1>4. CASE d.num % k # 0
  <2>1. e = d
    BY <1>4 DEF UpdateMinerSchedule
  <2>2. d.schedule \in Shuffles(d.active) \/ (d.maintNum % k >= 1 /\ (d.maintNum % k) + (d.num - d.maintNum) < k)
    <3>1. CASE d.maintNum = d.num
      <4>1. d.num % k \in 0..(k - 1)
        BY <1>1, <1>2
      <4> HIDE DEF k
      <4> QED  BY <3>1, <4>1, <1>1, <1>2, <1>4
    <3>2. CASE NoMultipleBefore(d)
      <4>0. d.maintNum <= d.num - 1 /\ d.maintNum % k >= 1
            /\ (d.maintNum % k) + (d.num - 1 - d.maintNum) < k
        BY <3>2 DEF NoMultipleBefore
      <4>1. PICK n \in Nat : d.num = n + 1
        BY <1>1, <4>0
      <4>2. (d.maintNum % k) + (n - d.maintNum) < k /\ d.maintNum <= n
        BY <4>1, <4>0, <1>1
      <4> HIDE DEF k
      <4>3. (d.maintNum % k) + (n + 1 - d.maintNum) < k
        BY <4>1, <4>2, <4>0, <1>1, <1>2, <1>4, NextMultiple
      <4> QED  BY <4>1, <4>3, <4>0, <1>1, <1>2
    <3>3. CASE d.schedule \in Shuffles(d.active)
      BY <3>3
    <3> QED  BY <3>1, <3>2, <3>3, Zenon
  <2>3. ScheduleInv(d)
    BY <2>2 DEF ScheduleInv, NoMultipleYet
  <2> QED  BY <2>1, <2>3
<1> QED  BY <1>1, <1>2, <1>3, <1>4

(* _apply_block keeps type, balance and schedule; the head is the block.   *)
LEMMA BlockKeeps ==
  ASSUME NEW d \in DbType, Balanced(d), ScheduleInv(d), NEW when \in Nat,
         NEW fee \in Nat, NEW params \in Proposed \cup {None}, NEW rekeyed \in SUBSET Miners,
         NEW elected \in IF d.nextMaint <= when THEN Elections ELSE {d.active},
         NEW order \in Shuffles(elected)
  PROVE  LET e == ApplyBlock(d, when, [fee |-> fee, params |-> params, rekeyed |-> rekeyed],
                             elected, order)
         IN e \in DbType /\ Balanced(e) /\ ScheduleInv(e) /\ e.time = when
<1> DEFINE due == d.nextMaint <= when
           tx == [fee |-> fee, params |-> params, rekeyed |-> rekeyed]
           a == ApplyTransactions(d, fee, params, rekeyed)
           b == UpdateGlobalDynamicData(a, when)
           paid == UpdateSigningMiner(b)
           kept == IF due THEN Maintenance(paid, elected) ELSE paid
           f == [kept EXCEPT !.flag = due]
<1>0. due \in BOOLEAN /\ d.num \in Nat /\ d.maintNum \in Nat
  BY DEF DbType
<1>1. a \in DbType /\ Balanced(a) /\ SameSchedule(a, d) /\ SameTimes(a, d)
  BY TransactionsKeep
<1>2. /\ b \in DbType /\ Balanced(b) /\ SameSchedule(b, a)
      /\ b.num = a.num + 1 /\ b.time = when /\ b.nextMaint = a.nextMaint
  <2> HIDE DEF a
  <2> QED  BY <1>1, DynamicDataKeeps
<1>3. /\ paid \in DbType /\ Balanced(paid) /\ SameSchedule(paid, b) /\ SameTimes(paid, b)
  <2> HIDE DEF b
  <2> QED  BY <1>2, SigningMinerKeeps
<1>4. /\ paid.num = d.num + 1 /\ paid.time = when /\ paid.nextMaint = d.nextMaint
      /\ paid.active = d.active /\ paid.schedule = d.schedule /\ paid.maintNum = d.maintNum
  <2> HIDE DEF a, b, paid
  <2> QED  BY <1>1, <1>2, <1>3 DEF SameSchedule, SameTimes
<1>5. /\ kept \in DbType /\ Balanced(kept)
      /\ kept.time = when /\ kept.num = d.num + 1 /\ kept.schedule = d.schedule /\ kept.active = elected
      /\ kept.maintNum = IF due THEN d.num + 1 ELSE d.maintNum
  <2>1. CASE due
    <3>1. paid.nextMaint <= paid.time /\ elected \in Elections
      BY <1>4, <2>1
    <3> HIDE DEF paid
    <3>2. /\ Maintenance(paid, elected) \in DbType /\ Balanced(Maintenance(paid, elected))
          /\ Maintenance(paid, elected).num = paid.num
          /\ Maintenance(paid, elected).time = paid.time
          /\ Maintenance(paid, elected).maintNum = paid.num
          /\ Maintenance(paid, elected).active = elected
          /\ Maintenance(paid, elected).schedule = paid.schedule
      BY <1>3, <3>1, MaintenanceKeeps
    <3> QED  BY <3>2, <1>4, <2>1
  <2>2. CASE ~due
    <3>1. elected = d.active
      BY <2>2
    <3> HIDE DEF paid
    <3> QED  BY <3>1, <1>3, <1>4, <2>2
  <2> QED  BY <2>1, <2>2
<1> HIDE DEF kept
<1>6. f \in DbType
  <2> HIDE DEF due
  <2> QED  BY <1>0, <1>5, Zenon DEF DbType
<1>7. /\ f.time = when /\ f.num = d.num + 1 /\ f.schedule = d.schedule /\ f.active = elected
      /\ f.maintNum = IF due THEN d.num + 1 ELSE d.maintNum
      /\ Balanced(f)
  <2> HIDE DEF due
  <2> QED  BY <1>5 DEF DbType, Balanced
<1>8. ApplyBlock(d, when, tx, elected, order) = UpdateMinerSchedule(f, order)
  <2>1. tx.fee = fee /\ tx.params = params /\ tx.rekeyed = rekeyed
    OBVIOUS
  <2> HIDE DEF tx
  <2> QED  BY <2>1, Zenon DEF ApplyBlock, kept
<1>9. /\ f.maintNum <= f.num
      /\ \/ f.maintNum = f.num
         \/ f.schedule \in Shuffles(f.active)
         \/ NoMultipleBefore(f)
  <2> HIDE DEF f
  <2>1. CASE due
    BY <1>0, <1>7, <2>1
  <2>2. CASE ~due
    <3>1. f.maintNum = d.maintNum /\ f.num - 1 = d.num /\ f.active = d.active
      BY <1>0, <1>7, <2>2
    <3> HIDE DEF due
    <3> QED  BY <1>0, <1>7, <3>1 DEF ScheduleInv, NoMultipleYet, NoMultipleBefore
  <2> QED  BY <2>1, <2>2
<1> HIDE DEF f, tx
<1>10. UpdateMinerSchedule(f, order) \in DbType /\ ScheduleInv(UpdateMinerSchedule(f, order))
       /\ Balanced(UpdateMinerSchedule(f, order))
       /\ UpdateMinerSchedule(f, order).time = when
  BY <1>6, <1>7, <1>9, ScheduleKeeps
<1> QED  BY <1>8, <1>10 DEF tx

-----------------------------------------------------------------------------
(* The inductive invariant                                                 *)

IndInv == TypeOK /\ SupplyMatches /\ ScheduleInv(db)

(* The production loop's next wake-up is a time.                           *)
LEMMA NextSecondType ==
  ASSUME NEW c \in Nat
  PROVE  NextSecond(c) \in Nat
<1>1. c \div 2 \in Int /\ c \div 2 >= 0
  BY Division
<1> QED  BY <1>1 DEF NextSecond

(* The miners of the genesis state are exactly those of its schedule.      *)
LEMMA InitialSchedule ==
  /\ {InitialMiners[i] : i \in DOMAIN InitialMiners} \in Elections
  /\ InitialMiners \in Shuffles({InitialMiners[i] : i \in DOMAIN InitialMiners})
<1>1. PICK s \in Elections : InitialMiners \in Shuffles(s)
  BY MinerAssumption
<1> DEFINE n == Cardinality(s)
           R == {InitialMiners[i] : i \in DOMAIN InitialMiners}
<1>2. IsFiniteSet(s) /\ n \in Nat
  BY ElectionFacts, FS_CardinalityType
<1>3. InitialMiners \in [1..n -> s] /\ \A i, j \in 1..n : InitialMiners[i] = InitialMiners[j] => i = j
  BY <1>1 DEF Shuffles
<1>4. R \subseteq s /\ InitialMiners \in Bijection(1..n, R)
  BY <1>3 DEF Bijection, Injection, Surjection, IsInjective
<1>5. IsFiniteSet(1..n) /\ Cardinality(1..n) = n
  <2> HIDE DEF n
  <2> QED  BY <1>2, FS_Interval
<1>6. IsFiniteSet(R) /\ Cardinality(R) = n
  <2>1. ExistsBijection(1..n, R)
    BY <1>4 DEF ExistsBijection
  <2> HIDE DEF n, R
  <2> QED  BY <1>5, <2>1, FS_Bijection
<1>7. R = s
  <2> HIDE DEF R
  <2> QED  BY <1>2, <1>4, <1>6, FS_Subset
<1> QED  BY <1>1, <1>7

(* The genesis state satisfies the inductive invariant.                    *)
LEMMA InitEstablishes == Init => IndInv
<1> SUFFICES ASSUME Init PROVE IndInv
  OBVIOUS
<1> USE DEF Init
<1> DEFINE R == {InitialMiners[i] : i \in DOMAIN InitialMiners}
<1>1. R \in Elections /\ InitialMiners \in Shuffles(R)
  BY InitialSchedule
<1>2. InitialMiners \in Schedules
  <2> HIDE DEF R
  <2> QED  BY <1>1, ElectionFacts
<1>3. Genesis \in Nat /\ Wealth \in Nat
  BY GenesisAssumption, AmountAssumption
<1>4. 0..(Window - 1) \in Bitmaps
  BY DEF Bitmaps
<1>5. db \in DbType
  <2>1. Wealth \in Int /\ 0 \in Nat /\ 0 \in Int
    BY <1>3
  <2>2. {} \in SUBSET Miners /\ None \in Proposed \cup {None} /\ Initial \in Proposed \cup {Initial}
    OBVIOUS
  <2>3. FALSE \in BOOLEAN
    OBVIOUS
  <2> QED  BY <1>1, <1>2, <1>3, <1>4, <2>1, <2>2, <2>3, Zenon DEF DbType
<1>6. clock \in Nat /\ up \subseteq Nodes /\ enabled \in [Nodes -> BOOLEAN] /\ good \in Nat
  BY <1>3
<1>7. wake \in [Nodes -> Nat]
  <2>1. 2 * Genesis \in Nat
    BY <1>3
  <2>2. NextSecond(2 * Genesis) \in Nat
    BY <2>1, NextSecondType
  <2> QED  BY <2>2
<1>8. SupplyMatches
  BY <1>3 DEF SupplyMatches
<1>9. ScheduleInv(db)
  BY <1>1 DEF ScheduleInv
<1> QED  BY <1>5, <1>6, <1>7, <1>8, <1>9 DEF IndInv, TypeOK

(* The time that maybe_produce_block looks at.                             *)
LEMMA NowType ==
  ASSUME clock \in Nat
  PROVE  Now \in Nat /\ clock <= 2 * Now
<1>1. PICK q \in Int : q = (clock + 1) \div 2 /\ q >= 0 /\ clock + 1 < q * 2 + 2
  BY Division
<1> QED  BY <1>1 DEF Now

(* What a produced block leaves.                                           *)
LEMMA ProducedBlock ==
  ASSUME clock \in Nat, db \in DbType, Balanced(db), ScheduleInv(db), NEW n \in Nodes, Produce(n)
  PROVE  db' \in DbType /\ Balanced(db') /\ ScheduleInv(db') /\ db'.time = Now
<1>1. PICK fee \in Fees, params \in Proposed \cup {None},
           rekeyed \in {{}, {ScheduledMiner(db, SlotAtTime(db, Now))} \cap Rekeying},
           elected \in IF db.nextMaint <= Now THEN Elections ELSE {db.active} :
      \E order \in Shuffles(elected) :
        db' = ApplyBlock(db, Now, [fee |-> fee, params |-> params, rekeyed |-> rekeyed],
                         elected, order)
  BY Zenon DEF Produce
<1>2. PICK order \in Shuffles(elected) :
        db' = ApplyBlock(db, Now, [fee |-> fee, params |-> params, rekeyed |-> rekeyed],
                         elected, order)
  BY <1>1
<1>3. fee \in Nat /\ rekeyed \in SUBSET Miners
  BY AmountAssumption, MinerAssumption
<1> QED  BY <1>1, <1>2, <1>3, NowType, BlockKeeps

(* Every step of a production loop, of the clock and of a stop or start    *)
(* keeps the inductive invariant.                                          *)
LEMMA NextPreserves == IndInv /\ [Next]_vars => IndInv'
<1> SUFFICES ASSUME IndInv, [Next]_vars PROVE IndInv'
  OBVIOUS
<1>1. /\ clock \in Nat /\ db \in DbType /\ up \subseteq Nodes /\ enabled \in [Nodes -> BOOLEAN]
      /\ wake \in [Nodes -> Nat] /\ good \in Nat /\ SupplyMatches /\ ScheduleInv(db)
  BY DEF IndInv, TypeOK
<1>2. NextSecond(clock) \in Nat
  BY <1>1, NextSecondType
<1>3. SUFFICES /\ clock' \in Nat /\ up' \subseteq Nodes /\ enabled' \in [Nodes -> BOOLEAN]
               /\ wake' \in [Nodes -> Nat] /\ good' \in Nat
               /\ db' \in DbType /\ Balanced(db') /\ ScheduleInv(db')
  BY DEF IndInv, TypeOK, SupplyMatches, Balanced
<1>4. Balanced(db)
  BY <1>1 DEF SupplyMatches, Balanced
<1>5. CASE UNCHANGED vars
  BY <1>1, <1>4, <1>5 DEF vars
<1>6. ASSUME Next PROVE good' \in Nat
  BY <1>1, <1>6 DEF Next, Observe
<1>7. CASE Tick /\ Observe
  BY <1>1, <1>4, <1>6, <1>7 DEF Tick, Next
<1>8. ASSUME NEW n \in Nodes, Idle(n), Observe
      PROVE  /\ clock' \in Nat /\ up' \subseteq Nodes /\ enabled' \in [Nodes -> BOOLEAN]
             /\ wake' \in [Nodes -> Nat]
             /\ db' \in DbType /\ Balanced(db') /\ ScheduleInv(db')
  <2>1. Synced(n) \in BOOLEAN
    BY <1>1 DEF Synced
  <2> QED  BY <1>1, <1>2, <1>4, <1>8, <2>1 DEF Idle
<1>9. ASSUME NEW n \in Nodes, Produce(n), Observe
      PROVE  /\ clock' \in Nat /\ up' \subseteq Nodes /\ enabled' \in [Nodes -> BOOLEAN]
             /\ wake' \in [Nodes -> Nat]
             /\ db' \in DbType /\ Balanced(db') /\ ScheduleInv(db')
  <2>1. /\ clock' \in Nat /\ up' \subseteq Nodes /\ enabled' \in [Nodes -> BOOLEAN]
        /\ wake' \in [Nodes -> Nat]
    BY <1>1, <1>2, <1>9 DEF Produce
  <2> QED  BY <1>1, <1>4, <1>9, <2>1, ProducedBlock
<1>10. ASSUME NEW n \in Nodes, Stop(n), Observe
       PROVE  /\ clock' \in Nat /\ up' \subseteq Nodes /\ enabled' \in [Nodes -> BOOLEAN]
              /\ wake' \in [Nodes -> Nat]
              /\ db' \in DbType /\ Balanced(db') /\ ScheduleInv(db')
  BY <1>1, <1>4, <1>10 DEF Stop
<1>11. ASSUME NEW n \in Nodes, Start(n), Observe
       PROVE  /\ clock' \in Nat /\ up' \subseteq Nodes /\ enabled' \in [Nodes -> BOOLEAN]
              /\ wake' \in [Nodes -> Nat]
              /\ db' \in DbType /\ Balanced(db') /\ ScheduleInv(db')
  BY <1>1, <1>2, <1>4, <1>11 DEF Start
<1> QED  BY <1>5, <1>6, <1>7, <1>8, <1>9, <1>10, <1>11 DEF Next

(* The inductive invariant of block production holds in every reachable    *)
(* state.                                                                  *)
THEOREM Invariance == Spec => []IndInv
<1> QED  BY InitEstablishes, NextPreserves, PTL DEF Spec

(* Type correctness: among others, recent_slots_filled stays within its    *)
(* width, the fee pool is never negative and the next maintenance time never*)
(* runs backwards below the epoch.                                         *)
THEOREM TypeCorrect == Spec => []TypeOK
<1>1. IndInv => TypeOK
  BY DEF IndInv
<1> QED  BY <1>1, Invariance, PTL

(* process_budget's assertion that current_supply equals                   *)
(* get_real_supply().total() can never fail, whatever fees are paid, slots *)
(* missed, parameters changed and maintenances skipped.                    *)
THEOREM SupplyIsMatched == Spec => []SupplyMatches
<1>1. IndInv => SupplyMatches
  BY DEF IndInv
<1> QED  BY <1>1, Invariance, PTL

(* The next slot is after the head block in every reachable state:         *)
(* maybe_produce_block's assertion now > head_block_time holds also right  *)
(* after maintenance has changed the block interval.                       *)
THEOREM SlotIsAhead == Spec => []SlotAfterHead
<1>1. IndInv => SlotAfterHead
  BY SlotTimeAhead DEF IndInv, TypeOK, SlotAfterHead
<1> QED  BY <1>1, Invariance, PTL

(* A vote counted in maintenance is in the schedule by the |active|-1st    *)
(* block after it, also when the vote changes the number of miners.        *)
THEOREM VoteReachesSchedule == Spec => []ScheduleFollowsVote
<1>1. IndInv => ScheduleFollowsVote
  <2> SUFFICES ASSUME IndInv PROVE ScheduleFollowsVote
    OBVIOUS
  <2>1. CASE db.schedule \in Shuffles(db.active)
    BY <2>1 DEF ScheduleFollowsVote
  <2>2. CASE NoMultipleYet(db)
    <3>1. db.num \in Nat /\ db.maintNum \in Nat /\ db.active \in Elections
      BY DEF IndInv, TypeOK, DbType
    <3>2. PICK k \in Nat \ {0} : k = Cardinality(db.active)
      BY <3>1, ElectionFacts
    <3>3. db.maintNum % k \in Int /\ db.maintNum % k >= 1
          /\ (db.maintNum % k) + (db.num - db.maintNum) < k
      BY <2>2, <3>1, <3>2 DEF NoMultipleYet
    <3>4. db.num - db.maintNum < k - 1
      BY <3>1, <3>2, <3>3
    <3> QED  BY <3>2, <3>4 DEF ScheduleFollowsVote
  <2> QED  BY <2>1, <2>2 DEF IndInv, ScheduleInv
<1> QED  BY <1>1, Invariance, PTL

-----------------------------------------------------------------------------
(* No slot is wasted                                                       *)

(* Every miner's key is held by one node.  Otherwise two nodes may take    *)
(* turns in being up, each just after the other's last wake-up, and a slot *)
(* passes although a node was up for it all the time.                      *)
OneNodePerMiner ==
  \A m, n \in Nodes : m # n => Controls[m] \cap Controls[n] = {}

(* The clock at the k-th slot after the first that is open.                *)
SlotClock(d, k) == 2 * (SlotTime(d, 1) + k * d.params.interval)

(* Wake-ups are on whole seconds, at most one ahead.                       *)
WakesInTime == \A n \in up : wake[n] <= clock + 2 /\ \E q \in Nat : wake[n] = 2 * q

(* The history variable counts healthy time only.                          *)
GoodIsHealthy == good > 0 => Healthy

(* A slot that passed unused passed before production became healthy.      *)
UnusedBefore == \A k \in Nat : SlotClock(db, k) < clock => good <= clock - SlotClock(db, k)

(* At the time of an unused slot, in a healthy time that has begun before  *)
(* it, the loop of the node that is to fill it has still to run.           *)
StillToRun ==
  \A k \in Nat :
    (good > 0 /\ clock = SlotClock(db, k)) =>
       \A n \in up : ScheduledMiner(db, k + 1) \in Controls[n] => wake[n] = clock

(* The inductive invariant for this.                                       *)
SlotInv == WakesInTime /\ GoodIsHealthy /\ UnusedBefore /\ StillToRun

(* A product divided by one of its factors.                                *)
LEMMA ExactDivision ==
  ASSUME NEW k \in Nat, NEW i \in Nat \ {0}
  PROVE  (k * i) \div i = k
<1> DEFINE a == k * i
<1>1. a \in Int
  OBVIOUS
<1>2. PICK q \in Int : q = a \div i /\ q * i <= a /\ a < q * i + i
  <2> HIDE DEF a
  <2> QED  BY <1>1, Division
<1>3. q <= k
  <2>1. SUFFICES ASSUME q >= k + 1 PROVE FALSE
    OBVIOUS
  <2>2. q * i >= (k + 1) * i
    BY <2>1
  <2>3. (k + 1) * i = k * i + i
    OBVIOUS
  <2> QED  BY <2>2, <2>3, <1>2
<1>4. q >= k
  <2>1. SUFFICES ASSUME q + 1 <= k PROVE FALSE
    OBVIOUS
  <2>2. (q + 1) * i <= k * i
    BY <2>1
  <2>3. (q + 1) * i = q * i + i
    OBVIOUS
  <2> QED  BY <2>2, <2>3, <1>2
<1> QED  BY <1>2, <1>3, <1>4

(* get_slot_time and get_slot_at_time are inverse to each other on the     *)
(* slots that are open.                                                    *)
LEMMA SlotsAreRegular ==
  ASSUME NEW d \in DbType, NEW k \in Nat
  PROVE  /\ SlotTime(d, k + 1) = SlotTime(d, 1) + k * d.params.interval
         /\ SlotAtTime(d, SlotTime(d, 1) + k * d.params.interval) = k + 1
<1>1. d.time \in Nat /\ d.num \in Nat /\ d.params \in Proposed \cup {Initial}
  BY DEF DbType
<1>2. PICK i \in Nat \ {0} : i = d.params.interval
  BY <1>1, ParameterFacts
<1>3. PICK first \in Nat : first = SlotTime(d, 1)
  BY SlotTimeAhead
<1>4. SlotTime(d, k + 1) = first + k * i
  <2>1. k + 1 # 0 /\ 1 # 0
    OBVIOUS
  <2>2. CASE d.num = 0
    <3>1. SlotTime(d, k + 1) = d.time + (k + 1) * i /\ first = d.time + 1 * i
      BY <2>1, <2>2, <1>2, <1>3 DEF SlotTime
    <3>2. (k + 1) * i = k * i + i
      OBVIOUS
    <3> QED  BY <3>1, <3>2, <1>1
  <2>3. CASE d.num # 0
    <3>1. PICK s \in Nat : s = IF d.flag THEN d.params.skip ELSE 0
      BY <1>1, ParameterFacts
    <3>2. PICK r \in Int : r = (d.time \div i) * i
      BY <1>1, Division
    <3>3. SlotTime(d, k + 1) = r + (k + 1 + s) * i /\ first = r + (1 + s) * i
      BY <2>1, <2>3, <1>2, <1>3, <3>1, <3>2 DEF SlotTime
    <3>4. (k + 1 + s) * i = k * i + (1 + s) * i
      OBVIOUS
    <3> QED  BY <3>2, <3>3, <3>4
  <2> QED  BY <2>2, <2>3
<1>5. SlotAtTime(d, first + k * i) = k + 1
  <2>1. PICK a \in Nat : a = k * i
    OBVIOUS
  <2>2. a \div i = k
    BY <2>1, ExactDivision
  <2>3. ~(first + a < first) /\ first + a - first = a
    OBVIOUS
  <2>4. SlotAtTime(d, first + a) = a \div i + 1
    BY <2>3, <1>2, <1>3 DEF SlotAtTime
  <2> QED  BY <2>1, <2>2, <2>4
<1> QED  BY <1>2, <1>3, <1>4, <1>5

(* The scheduled miner is one of the schedule's.                           *)
LEMMA ScheduledIsInSchedule ==
  ASSUME NEW d \in DbType, NEW slot \in Nat
  PROVE  \E j \in DOMAIN d.schedule : ScheduledMiner(d, slot) = d.schedule[j]
<1>1. d.aslot \in Nat /\ d.schedule \in Schedules
  BY DEF DbType
<1>2. PICK k \in 1..Cardinality(Miners) : d.schedule \in [1..k -> Miners]
  BY <1>1 DEF Schedules
<1>3. k \in Nat /\ k >= 1
  <2>1. Cardinality(Miners) \in Nat
    BY MinerAssumption, FS_CardinalityType
  <2> QED  BY <2>1
<1>4. Len(d.schedule) = k
  BY <1>2, <1>3
<1>5. ((d.aslot + slot) % k) + 1 \in 1..k
  BY <1>1, <1>3
<1> QED  BY <1>2, <1>4, <1>5 DEF ScheduledMiner

(* maybe_produce_block at the time of an unused slot, while production is  *)
(* healthy: every test succeeds, and so do the assertions on the block.    *)
LEMMA HealthyProduces ==
  ASSUME IndInv, Healthy, OneNodePerMiner, NEW k \in Nat, clock = SlotClock(db, k),
         NEW n \in up, ScheduledMiner(db, k + 1) \in Controls[n]
  PROVE  Willing(n) /\ Accepted
<1>1. clock \in Nat /\ db \in DbType /\ up \subseteq Nodes
  BY DEF IndInv, TypeOK
<1>2. PICK x \in Nat : x = SlotTime(db, 1) + k * db.params.interval
  <2>1. SlotTime(db, 1) \in Nat
    BY <1>1, SlotTimeAhead
  <2>2. db.params.interval \in Nat
    BY <1>1, ParameterFacts DEF DbType
  <2> QED  BY <2>1, <2>2
<1>3. SlotTime(db, k + 1) = x /\ SlotAtTime(db, x) = k + 1
  BY <1>1, <1>2, SlotsAreRegular
<1>4. Now = x
  <2>1. clock = 2 * x
    BY <1>2 DEF SlotClock
  <2>2. (2 * x + 1) \div 2 = x
    OBVIOUS
  <2> QED  BY <2>1, <2>2 DEF Now
<1>5. PICK j \in DOMAIN db.schedule : ScheduledMiner(db, k + 1) = db.schedule[j]
  BY <1>1, ScheduledIsInSchedule
<1>6. /\ db.schedule[j] \notin db.rekeyed
      /\ \E m \in up : enabled[m] /\ db.schedule[j] \in Controls[m]
      /\ ParticipationRate(db) >= Required
  BY <1>5 DEF Healthy
<1>7. enabled[n]
  BY <1>1, <1>5, <1>6 DEF OneNodePerMiner
<1>8. Willing(n)
  <2>1. k + 1 # 0
    OBVIOUS
  <2> QED  BY <1>3, <1>4, <1>5, <1>6, <1>7, <2>1 DEF Willing, Synced
<1>9. Accepted
  <2>1. db.time < x
    <3>1. SlotTime(db, 1) \in Nat /\ SlotTime(db, 1) > db.time /\ db.time \in Nat
      BY <1>1, SlotTimeAhead DEF DbType
    <3>2. k * db.params.interval \in Nat
      BY <1>1, ParameterFacts DEF DbType
    <3> QED  BY <1>2, <3>1, <3>2
  <2>2. k + 1 > 0
    OBVIOUS
  <2> QED  BY <1>3, <1>4, <2>1, <2>2 DEF Accepted
<1> QED  BY <1>8, <1>9

(* The next whole second.                                                  *)
LEMMA NextSecondFacts ==
  ASSUME NEW c \in Nat
  PROVE  \E q \in Nat : NextSecond(c) = 2 * q /\ 2 * q <= c + 2 /\ c < 2 * q
<1>1. PICK q \in Int : q = c \div 2 /\ q * 2 <= c /\ c < q * 2 + 2 /\ q >= 0
  BY Division
<1>2. NextSecond(c) = 2 * (q + 1) /\ q + 1 \in Nat
  BY <1>1 DEF NextSecond
<1> QED  BY <1>1, <1>2

(* Where the clock is against the slots, before and after a step that      *)
(* leaves both alone.                                                      *)
LEMMA SlotClockType ==
  ASSUME NEW d \in DbType, NEW k \in Nat
  PROVE  \E x \in Nat : x > d.time /\ SlotClock(d, k) = 2 * x
<1>1. SlotTime(d, 1) \in Nat /\ SlotTime(d, 1) > d.time /\ d.time \in Nat
  BY SlotTimeAhead DEF DbType
<1>2. k * d.params.interval \in Nat
  BY ParameterFacts DEF DbType
<1>3. PICK y \in Nat : y = k * d.params.interval
  BY <1>2
<1>4. SlotTime(d, 1) + y \in Nat /\ SlotTime(d, 1) + y > d.time
  BY <1>1
<1> QED  BY <1>3, <1>4 DEF SlotClock

(* Of a healthy time that a step begins, nothing is counted yet.           *)
LEMMA ObserveFacts ==
  ASSUME good \in Nat, clock \in Nat, clock' \in Nat, Observe
  PROVE  /\ good' \in Nat
         /\ good' > 0 => Healthy'
         /\ good' <= good + 1
         /\ clock' = clock => good' <= good
  BY DEF Observe

(* The clock ticks.                                                        *)
LEMMA TickSlots ==
  ASSUME IndInv, SlotInv, Tick, Observe
  PROVE  SlotInv'
<1>1. /\ clock \in Nat /\ db \in DbType /\ up \subseteq Nodes /\ wake \in [Nodes -> Nat] /\ good \in Nat
      /\ enabled \in [Nodes -> BOOLEAN]
  BY DEF IndInv, TypeOK
<1>2. clock' = clock + 1 /\ db' = db /\ up' = up /\ enabled' = enabled /\ wake' = wake
  BY DEF Tick
<1>3. good' \in Nat /\ (good' > 0 => Healthy') /\ good' <= good + 1
  BY <1>1, <1>2, ObserveFacts
<1>4. \A n \in up : wake[n] \in Nat
  BY <1>1
<1>5. WakesInTime'
  BY <1>1, <1>2, <1>4 DEF SlotInv, WakesInTime
<1>6. ASSUME Healthy' PROVE \A n \in up : clock + 1 <= wake[n]
  BY <1>2, <1>6 DEF Healthy
<1>7. ASSUME NEW k \in Nat, clock = SlotClock(db, k), Healthy' PROVE good = 0
  <2>1. SUFFICES ASSUME good > 0 PROVE FALSE
    BY <1>1
  <2>2. PICK j \in DOMAIN db.schedule : ScheduledMiner(db, k + 1) = db.schedule[j]
    BY <1>1, ScheduledIsInSchedule
  <2>3. Healthy
    BY <2>1 DEF SlotInv, GoodIsHealthy
  <2>4. PICK n \in up : ScheduledMiner(db, k + 1) \in Controls[n]
    BY <2>2, <2>3 DEF Healthy
  <2>5. wake[n] = clock
    BY <2>1, <2>4, <1>7 DEF SlotInv, StillToRun
  <2>6. clock + 1 <= wake[n]
    BY <1>6, <1>7
  <2> QED  BY <2>5, <2>6, <1>1
<1>8. ASSUME NEW k \in Nat, SlotClock(db, k) < clock + 1
      PROVE  good' <= clock + 1 - SlotClock(db, k)
  <2>1. PICK x \in Nat : SlotClock(db, k) = 2 * x
    BY <1>1, SlotClockType
  <2>2. CASE SlotClock(db, k) < clock
    <3>1. good <= clock - SlotClock(db, k)
      BY <2>2 DEF SlotInv, UnusedBefore
    <3> QED  BY <1>1, <1>3, <2>1, <3>1
  <2>3. CASE SlotClock(db, k) = clock
    <3>1. good' = 0 \/ good' <= 1
      BY <1>1, <1>3, <1>7, <2>3
    <3> QED  BY <1>1, <1>3, <2>3, <3>1
  <2> QED  BY <1>1, <1>8, <2>1, <2>2, <2>3
<1>9. UnusedBefore'
  <2>1. PICK c \in Nat : c = clock + 1
    BY <1>1
  <2>2. ASSUME NEW k \in Nat, SlotClock(db, k) < c PROVE good' <= c - SlotClock(db, k)
    <3>1. PICK x \in Nat : SlotClock(db, k) = x
      BY <1>1, SlotClockType
    <3>2. good' <= clock + 1 - x
      BY <1>8, <2>1, <2>2, <3>1
    <3> QED  BY <1>1, <1>3, <2>1, <3>1, <3>2
  <2>3. clock' = c
    BY <1>2, <2>1
  <2> QED  BY <1>2, <2>2, <2>3 DEF UnusedBefore, SlotClock
<1>10. ASSUME NEW k \in Nat, good' > 0, clock + 1 = SlotClock(db, k), NEW n \in up
       PROVE  wake[n] = clock + 1
  <2>1. PICK x \in Nat : SlotClock(db, k) = 2 * x
    BY <1>1, SlotClockType
  <2>2. PICK q \in Nat : wake[n] = 2 * q /\ 2 * q <= clock + 2
    BY DEF SlotInv, WakesInTime
  <2>3. clock + 1 <= 2 * q
    BY <1>3, <1>6, <1>10, <2>2
  <2> QED  BY <1>1, <1>10, <2>1, <2>2, <2>3
<1>11. StillToRun'
  BY <1>2, <1>10 DEF StillToRun, SlotClock
<1> QED  BY <1>3, <1>5, <1>9, <1>11 DEF SlotInv, GoodIsHealthy

(* A loop that makes no block.  At the time of an unused slot that cannot  *)
(* be the loop of the node that is to fill it.                             *)
LEMMA IdleSlots ==
  ASSUME IndInv, SlotInv, OneNodePerMiner, NEW n \in Nodes, Idle(n), Observe
  PROVE  SlotInv'
<1>1. /\ clock \in Nat /\ db \in DbType /\ up \subseteq Nodes /\ wake \in [Nodes -> Nat] /\ good \in Nat
  BY DEF IndInv, TypeOK
<1>2. /\ clock' = clock /\ db' = db /\ up' = up /\ wake' = [wake EXCEPT ![n] = NextSecond(clock)]
      /\ n \in up /\ ~(Willing(n) /\ Accepted)
  BY DEF Idle, AtWork
<1>3. good' \in Nat /\ (good' > 0 => Healthy') /\ good' <= good
  BY <1>1, <1>2, ObserveFacts
<1>4. \E q \in Nat : NextSecond(clock) = 2 * q /\ 2 * q <= clock + 2
  BY <1>1, NextSecondFacts
<1>5. WakesInTime'
  <2> SUFFICES ASSUME NEW m \in up
               PROVE  wake'[m] <= clock + 2 /\ \E q \in Nat : wake'[m] = 2 * q
    BY <1>2 DEF WakesInTime
  <2>1. CASE m = n
    BY <2>1, <1>1, <1>2, <1>4
  <2>2. CASE m # n
    BY <2>2, <1>1, <1>2 DEF SlotInv, WakesInTime
  <2> QED  BY <2>1, <2>2
<1>6. UnusedBefore'
  <2> SUFFICES ASSUME NEW k \in Nat, SlotClock(db, k) < clock PROVE good' <= clock - SlotClock(db, k)
    BY <1>2 DEF UnusedBefore, SlotClock
  <2>1. good <= clock - SlotClock(db, k)
    BY DEF SlotInv, UnusedBefore
  <2>2. PICK x \in Nat : SlotClock(db, k) = 2 * x
    BY <1>1, SlotClockType
  <2> QED  BY <2>1, <2>2, <1>1, <1>3
<1>7. ASSUME NEW k \in Nat, good' > 0, clock = SlotClock(db, k), NEW m \in up,
             ScheduledMiner(db, k + 1) \in Controls[m]
      PROVE  wake'[m] = clock
  <2>1. good > 0
    BY <1>1, <1>3, <1>7
  <2>2. Healthy
    BY <2>1 DEF SlotInv, GoodIsHealthy
  <2>3. Willing(m) /\ Accepted
    BY <2>2, <1>7, HealthyProduces
  <2>4. m # n
    BY <2>3, <1>2
  <2>5. wake[m] = clock
    BY <2>1, <1>7 DEF SlotInv, StillToRun
  <2> QED  BY <2>4, <2>5, <1>1, <1>2
<1>8. StillToRun'
  BY <1>2, <1>7 DEF StillToRun, SlotClock
<1> QED  BY <1>3, <1>5, <1>6, <1>8 DEF SlotInv, GoodIsHealthy

(* A loop that makes a block.  All open slots are then ahead.              *)
LEMMA ProduceSlots ==
  ASSUME IndInv, SlotInv, NEW n \in Nodes, Produce(n), Observe
  PROVE  SlotInv'
<1>1. /\ clock \in Nat /\ db \in DbType /\ up \subseteq Nodes /\ wake \in [Nodes -> Nat] /\ good \in Nat
      /\ Balanced(db) /\ ScheduleInv(db)
  BY DEF IndInv, TypeOK, SupplyMatches, Balanced
<1>2. clock' = clock /\ up' = up /\ wake' = [wake EXCEPT ![n] = NextSecond(clock)]
  BY DEF Produce
<1>3. good' \in Nat /\ (good' > 0 => Healthy')
  BY <1>1, <1>2, ObserveFacts
<1>4. \E q \in Nat : NextSecond(clock) = 2 * q /\ 2 * q <= clock + 2
  BY <1>1, NextSecondFacts
<1>5. WakesInTime'
  <2> SUFFICES ASSUME NEW m \in up
               PROVE  wake'[m] <= clock + 2 /\ \E q \in Nat : wake'[m] = 2 * q
    BY <1>2 DEF WakesInTime
  <2>1. CASE m = n
    BY <2>1, <1>1, <1>2, <1>4
  <2>2. CASE m # n
    BY <2>2, <1>1, <1>2 DEF SlotInv, WakesInTime
  <2> QED  BY <2>1, <2>2
<1>6. ASSUME NEW k \in Nat PROVE SlotClock(db', k) \in Nat /\ SlotClock(db', k) > clock
  <2>1. db' \in DbType /\ db'.time = Now
    BY <1>1, ProducedBlock
  <2>2. PICK d : d = db'
    OBVIOUS
  <2>3. PICK x \in Nat : x > d.time /\ SlotClock(d, k) = 2 * x
    BY <2>1, <2>2, SlotClockType
  <2>4. PICK now \in Nat : now = Now /\ clock <= 2 * now
    BY <1>1, NowType
  <2>5. x > now
    BY <2>1, <2>2, <2>3, <2>4
  <2>6. 2 * x \in Nat /\ 2 * x > clock
    BY <1>1, <2>4, <2>5
  <2> QED  BY <2>2, <2>3, <2>6
<1>7. UnusedBefore'
  <2> SUFFICES ASSUME NEW k \in Nat, SlotClock(db', k) < clock PROVE FALSE
    BY <1>2 DEF UnusedBefore, SlotClock
  <2> QED  BY <1>1, <1>6
<1>8. StillToRun'
  <2> SUFFICES ASSUME NEW k \in Nat, clock = SlotClock(db', k) PROVE FALSE
    BY <1>2 DEF StillToRun, SlotClock
  <2> QED  BY <1>1, <1>6
<1> QED  BY <1>3, <1>5, <1>7, <1>8 DEF SlotInv, GoodIsHealthy

(* A node stops or starts.  One that starts in a healthy time has no miner *)
(* of the schedule.                                                        *)
LEMMA RestartSlots ==
  ASSUME IndInv, SlotInv, OneNodePerMiner, NEW n \in Nodes, Stop(n) \/ Start(n), Observe
  PROVE  SlotInv'
<1>1. /\ clock \in Nat /\ db \in DbType /\ up \subseteq Nodes /\ wake \in [Nodes -> Nat] /\ good \in Nat
  BY DEF IndInv, TypeOK
<1>2. /\ clock' = clock /\ db' = db
      /\ \/ up' = up \ {n} /\ wake' = [wake EXCEPT ![n] = 0]
         \/ n \notin up /\ up' = up \cup {n} /\ wake' = [wake EXCEPT ![n] = NextSecond(clock)]
  BY DEF Stop, Start
<1>3. good' \in Nat /\ (good' > 0 => Healthy') /\ good' <= good
  BY <1>1, <1>2, ObserveFacts
<1>4. \E q \in Nat : NextSecond(clock) = 2 * q /\ 2 * q <= clock + 2
  BY <1>1, NextSecondFacts
<1>5. ASSUME NEW m \in up' 
      PROVE  \/ m \in up /\ m # n /\ wake'[m] = wake[m]
             \/ n \notin up /\ m = n /\ wake'[m] = NextSecond(clock)
  BY <1>1, <1>2
<1>6. WakesInTime'
  <2> SUFFICES ASSUME NEW m \in up'
               PROVE  wake'[m] <= clock + 2 /\ \E q \in Nat : wake'[m] = 2 * q
    BY <1>2 DEF WakesInTime
  <2>1. CASE m \in up /\ wake'[m] = wake[m]
    BY <2>1 DEF SlotInv, WakesInTime
  <2>2. CASE wake'[m] = NextSecond(clock)
    BY <2>2, <1>4
  <2> QED  BY <1>5, <2>1, <2>2
<1>7. UnusedBefore'
  <2> SUFFICES ASSUME NEW k \in Nat, SlotClock(db, k) < clock PROVE good' <= clock - SlotClock(db, k)
    BY <1>2 DEF UnusedBefore, SlotClock
  <2>1. good <= clock - SlotClock(db, k)
    BY DEF SlotInv, UnusedBefore
  <2>2. PICK x \in Nat : SlotClock(db, k) = 2 * x
    BY <1>1, SlotClockType
  <2> QED  BY <2>1, <2>2, <1>1, <1>3
<1>8. ASSUME NEW k \in Nat, good' > 0, clock = SlotClock(db, k), NEW m \in up',
             ScheduledMiner(db, k + 1) \in Controls[m]
      PROVE  wake'[m] = clock
  <2>1. good > 0
    BY <1>1, <1>3, <1>8
  <2>2. Healthy
    BY <2>1 DEF SlotInv, GoodIsHealthy
  <2>3. PICK j \in DOMAIN db.schedule : ScheduledMiner(db, k + 1) = db.schedule[j]
    BY <1>1, ScheduledIsInSchedule
  <2>4. PICK o \in up : ScheduledMiner(db, k + 1) \in Controls[o]
    BY <2>2, <2>3 DEF Healthy
  <2>5. m \in up /\ wake'[m] = wake[m]
    BY <1>1, <1>5, <1>8, <2>4 DEF OneNodePerMiner
  <2>6. wake[m] = clock
    BY <2>1, <2>5, <1>8 DEF SlotInv, StillToRun
  <2> QED  BY <2>5, <2>6
<1>9. StillToRun'
  BY <1>2, <1>8 DEF StillToRun, SlotClock
<1> QED  BY <1>3, <1>6, <1>7, <1>9 DEF SlotInv, GoodIsHealthy

(* At genesis nothing has been counted.                                    *)
LEMMA InitSlots == Init => SlotInv
<1> SUFFICES ASSUME Init PROVE SlotInv
  OBVIOUS
<1>1. clock \in Nat /\ clock = 2 * Genesis /\ db \in DbType
  BY InitEstablishes DEF Init, IndInv, TypeOK
<1>2. good = 0 /\ up = Nodes /\ wake = [n \in Nodes |-> NextSecond(clock)]
  BY <1>1 DEF Init
<1>3. WakesInTime
  <2>1. PICK q \in Nat : NextSecond(clock) = 2 * q /\ 2 * q <= clock + 2
    BY <1>1, NextSecondFacts
  <2> QED  BY <2>1, <1>2 DEF WakesInTime
<1>4. UnusedBefore
  <2> SUFFICES ASSUME NEW k \in Nat, SlotClock(db, k) < clock PROVE 0 <= clock - SlotClock(db, k)
    BY <1>2 DEF UnusedBefore
  <2>1. PICK x \in Nat : SlotClock(db, k) = 2 * x
    BY <1>1, SlotClockType
  <2> QED  BY <2>1, <1>1
<1> QED  BY <1>2, <1>3, <1>4 DEF SlotInv, GoodIsHealthy, StillToRun

(* Every step keeps it.                                                    *)
LEMMA NextSlots ==
  ASSUME OneNodePerMiner, IndInv, SlotInv, [Next]_vars
  PROVE  SlotInv'
<1>1. CASE UNCHANGED vars
  BY <1>1 DEF vars, SlotInv, WakesInTime, GoodIsHealthy, UnusedBefore, StillToRun, Healthy, SlotClock
<1>2. CASE Next
  BY <1>2, TickSlots, IdleSlots, ProduceSlots, RestartSlots DEF Next
<1> QED  BY <1>1, <1>2

(* When production has been healthy for a block interval, the head block   *)
(* fills the last slot that has come: no wake-up of a production loop that *)
(* is in time misses its slot, whatever the interval, also when            *)
(* maintenance has just changed it or skipped slots, and however nodes     *)
(* stop and start.  Every miner's key is held by one node.                 *)
THEOREM NoSlotIsWasted ==
  ASSUME OneNodePerMiner
  PROVE  Spec => []NoSlotWasted
<1>1. Init => IndInv /\ SlotInv
  BY InitEstablishes, InitSlots
<1>2. (IndInv /\ SlotInv) /\ [Next]_vars => (IndInv /\ SlotInv)'
  BY NextPreserves, NextSlots
<1>3. IndInv /\ SlotInv => NoSlotWasted
  <2> SUFFICES ASSUME IndInv, SlotInv, good > 2 * db.params.interval, ~(clock <= 2 * SlotTime(db, 1))
               PROVE  FALSE
    BY DEF NoSlotWasted
  <2>1. clock \in Nat /\ good \in Nat /\ db \in DbType
    BY DEF IndInv, TypeOK
  <2>2. PICK first \in Nat : first = SlotTime(db, 1)
    BY <2>1, SlotTimeAhead
  <2>3. PICK i \in Nat \ {0} : i = db.params.interval
    BY <2>1, ParameterFacts DEF DbType
  <2>4. PICK a \in Nat : a = clock - 1 - 2 * first
    BY <2>1, <2>2
  <2>5. PICK k \in Nat : k * (2 * i) <= a /\ a < k * (2 * i) + 2 * i
    <3>1. 2 * i \in Nat \ {0} /\ a \in Int
      OBVIOUS
    <3>2. PICK b \in Nat \ {0} : b = 2 * i
      BY <3>1
    <3>3. a \div b \in Nat /\ (a \div b) * b <= a /\ a < (a \div b) * b + b
      BY <3>1, Division
    <3> QED  BY <3>2, <3>3
  <2>6. PICK y \in Nat : y = k * i
    OBVIOUS
  <2>7. 2 * y <= a /\ a < 2 * y + 2 * i
    BY <2>5, <2>6
  <2>8. SlotClock(db, k) = 2 * (first + y)
    BY <2>2, <2>3, <2>6 DEF SlotClock
  <2>9. SlotClock(db, k) < clock /\ clock - SlotClock(db, k) <= 2 * i
    BY <2>1, <2>4, <2>7, <2>8
  <2>10. good <= clock - SlotClock(db, k)
    BY <2>9 DEF SlotInv, UnusedBefore
  <2> QED  BY <2>1, <2>3, <2>8, <2>9, <2>10
<1> QED  BY <1>1, <1>2, <1>3, PTL DEF Spec
=============================================================================
