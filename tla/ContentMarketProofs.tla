------------------------ MODULE ContentMarketProofs ------------------------
(***************************************************************************)
(* Proofs about the content market.                                        *)
(***************************************************************************)
EXTENDS ContentMarket, InductionTheorems, FiniteSetTheorems, TLAPS

(* The maintenance that came last is the latest of the history, and its    *)
(* interval the one in force.  As long as intervals divide the ones before *)
(* them, blocks and maintenances are at multiples of theirs.               *)
Clock ==
  /\ lastBudget <= now
  /\ maints \subseteq [time : Nat, interval : Nat \ {0}]
  /\ [time |-> lastBudget, interval |-> params.interval] \in maints
  /\ \A x \in maints : /\ x.time <= lastBudget
                       /\ x.time = lastBudget => x.interval = params.interval
  /\ IntervalsDivide(maints) =>
       /\ now % params.interval = 0
       /\ \A x \in maints : x.time % x.interval = 0

(* A content keeps what content_submit checked, its proofs were at or      *)
(* before time n, and if it expired by the maintenance at time m it holds  *)
(* nothing or was overlooked.                                              *)
ContentOk(k, n, m, history) ==
  /\ SplitOk(k.author, k.co)
  /\ IF k.parts = {} THEN k.quorum = 0 ELSE k.quorum >= 2
  /\ \A s \in Seeder : k.proof[s] # None => k.proof[s] <= n
  /\ k.exp <= m /\ k.escrow # 0 => Overlooked(k.exp, history)
GoodContents ==
  \A u \in URI : content[u] # None => ContentOk(content[u], now, lastBudget, maints)

(* An open buying that expires at time e after the maintenance at time m   *)
(* does so at a block, and one that expired before was overlooked.         *)
OpenOk(e, m, history) ==
  /\ e <= m => Overlooked(e, history) /\ ~IntervalsDivide(history)
  /\ e > m /\ IntervalsDivide(history) =>
       \A x \in history : x.time = m => e % x.interval = 0

(* A buying of a content with quorum q is settled once.                    *)
BuyingOk(b, q, m, history) ==
  /\ ~(b.delivered /\ b.expired)
  /\ b.escrow = IF b.delivered \/ b.expired THEN 0 ELSE b.paid
  /\ b.delivered => Cardinality(b.answered) >= q
  /\ Cardinality(b.answered) >= q => b.delivered \/ b.expired
  /\ ~b.delivered /\ ~b.expired => OpenOk(b.exp, m, history)
GoodBuyings ==
  \A p \in Consumer \X URI :
    buying[p] # None => BuyingOk(buying[p], content[p[2]].quorum, lastBudget, maints)

Inv == TypeOK /\ Clock /\ GoodContents /\ GoodBuyings

-----------------------------------------------------------------------------
(* Constants and arithmetic                                                *)

(* What the assumptions say of each constant.                              *)
LEMMA Constants ==
  /\ Day \in Nat /\ Day > 0 /\ MaxTime \in Nat
  /\ Size \in Nat /\ Space \in Nat /\ Wealth \in Nat /\ Pool \in Nat
  /\ Rate \in Nat /\ Feed \in Nat /\ Word \in Nat /\ Rate > 0 /\ Feed > 0 /\ Word > 0
BY TimeAssumption, AmountAssumption

(* What chain_parameters::validate requires of parameters.                 *)
LEMMA ValidParameters ==
  ASSUME NEW p \in Parameters
  PROVE  p.interval \in Nat /\ p.interval > 0 /\ p.maint \in Nat /\ p.maint > 0
BY ParameterAssumption

(* A remainder is below the modulus.                                       *)
LEMMA ModRange ==
  ASSUME NEW a \in Int, NEW b \in Nat, b > 0
  PROVE  a % b \in 0..(b - 1)
OBVIOUS

(* Moving on by whole block intervals keeps a time aligned.                *)
LEMMA ModZero ==
  ASSUME NEW b \in Nat, b > 0, NEW x \in Int, NEW y \in Int, x % b = 0, y % b = 0
  PROVE  /\ x > y => x >= y + b
         /\ (x + y) % b = 0
         /\ \A n \in Int : (x + n * b) % b = 0
<1>1. PICK k \in Int : x = b * k
  <2>1. x = b * (x \div b) + (x % b) /\ x \div b \in Int
    OBVIOUS
  <2>2. x = b * (x \div b)
    BY <2>1
  <2> QED BY <2>1, <2>2
<1>2. PICK m \in Int : y = b * m
  <2>1. y = b * (y \div b) + (y % b) /\ y \div b \in Int
    OBVIOUS
  <2>2. y = b * (y \div b)
    BY <2>1
  <2> QED BY <2>1, <2>2
<1>3. ASSUME NEW n \in Int PROVE (b * n) % b = 0
  OBVIOUS
<1>4. ASSUME x > y PROVE x >= y + b
  <2>1. b * k > b * m
    BY <1>1, <1>2, <1>4
  <2>2. k > m
    BY <2>1
  <2>3. k >= m + 1
    BY <2>2
  <2>4. b * k >= b * (m + 1)
    BY <2>3
  <2>5. b * (m + 1) = b * m + b
    OBVIOUS
  <2> QED BY <2>4, <2>5, <1>1, <1>2
<1>5. (x + y) % b = 0
  <2>1. x + y = b * (k + m)
    BY <1>1, <1>2
  <2> QED BY SMTT(30), <2>1, <1>3
<1>6. ASSUME NEW n \in Int PROVE (x + n * b) % b = 0
  <2>1. x + n * b = b * (k + n)
    BY <1>1
  <2> QED BY <2>1, <1>3
<1> QED BY <1>4, <1>5, <1>6

(* Divisibility is transitive.                                             *)
LEMMA ModTrans ==
  ASSUME NEW a \in Int, NEW b \in Nat, b > 0, NEW c \in Nat, c > 0, a % b = 0, b % c = 0
  PROVE  a % c = 0
<1>1. PICK k \in Int : a = b * k
  <2>1. a = b * (a \div b) + (a % b) /\ a \div b \in Int
    OBVIOUS
  <2>2. a = b * (a \div b)
    BY <2>1
  <2> QED BY <2>1, <2>2
<1>2. PICK m \in Int : b = c * m
  <2>1. b = c * (b \div c) + (b % c) /\ b \div c \in Int
    OBVIOUS
  <2>2. b = c * (b \div c)
    BY <2>1
  <2> QED BY <2>1, <2>2
<1>3. ASSUME NEW n \in Int PROVE (c * n) % c = 0
  OBVIOUS
<1>4. m * k \in Int /\ a = c * (m * k)
  BY <1>1, <1>2
<1> QED BY <1>3, <1>4

(* What expires a day or more from now does so after now.                  *)
LEMMA DaysAhead ==
  ASSUME NEW n \in Int, NEW e \in Int, (e - n) \div Day >= 1
  PROVE  e >= n + Day
<1> DEFINE x == e - n
           q == x \div Day
<1>1. x \in Int /\ q \in Int /\ x = Day * q + (x % Day) /\ x % Day >= 0
  <2>1. \A y \in Int, b \in Nat : b > 0 => y \div b \in Int /\ y = b * (y \div b) + (y % b) /\ y % b >= 0
    OBVIOUS
  <2>2. x \in Int
    OBVIOUS
  <2> HIDE DEF x
  <2> QED BY <2>1, <2>2, Constants
<1>2. q >= 1
  OBVIOUS
<1> HIDE DEF q
<1>3. Day * q >= Day
  BY <1>1, <1>2, Constants
<1>4. x >= Day
  <2> DEFINE r == x % Day
             y == Day * q
  <2>1. x = y + r /\ r >= 0 /\ r \in Int /\ y \in Int /\ y >= Day
    <3> HIDE DEF x
    <3> QED BY <1>1, <1>3, Constants
  <2> HIDE DEF r, y, x
  <2> QED BY <2>1, Constants
<1> QED BY <1>4, Constants

-----------------------------------------------------------------------------
(* Objects                                                                 *)

(* An object is never None.                                                *)
LEMMA Objects ==
  /\ \A x \in SeederObject \cup ContentObject \cup BuyingObject : x # None
  /\ \A x \in Nat : x # None
BY NoneAssumption

(* What the actions change in a content_object.                            *)
LEMMA ContentUpdates ==
  ASSUME NEW k \in ContentObject
  PROVE  /\ \A co \in Splits, price \in Prices, exp \in Nat :
              [k EXCEPT !.co = co, !.price = price, !.exp = exp] \in ContentObject
         /\ \A exp \in Nat : [k EXCEPT !.blocked = TRUE, !.exp = exp] \in ContentObject
         /\ \A n \in Nat : [k EXCEPT !.bought = n] \in ContentObject
         /\ \A n \in Nat : [k EXCEPT !.ratings = n] \in ContentObject
         /\ \A f \in [Seeder -> Time \cup {None}] : [k EXCEPT !.proof = f] \in ContentObject
         /\ \A f \in [Seeder -> Time \cup {None}], e \in Money :
              [k EXCEPT !.proof = f, !.escrow = e] \in ContentObject
         /\ \A e \in Money : [k EXCEPT !.escrow = e] \in ContentObject
BY Zenon DEF ContentObject

(* The fields of a content object.                                         *)
LEMMA ContentFields ==
  ASSUME NEW k \in ContentObject
  PROVE  /\ k # None /\ k.author \in Author /\ k.co \in Splits /\ k.price \in Prices
         /\ k.exp \in Nat /\ k.escrow \in Money /\ k.parts \in SUBSET Seeder
         /\ k.quorum \in Nat /\ k.cd \in BOOLEAN /\ k.blocked \in BOOLEAN
         /\ k.proof \in [Seeder -> Time \cup {None}]
         /\ k.sprice \in [Seeder -> Money \cup {None}]
         /\ k.bought \in Nat /\ k.ratings \in Nat
BY Objects DEF ContentObject

(* The fields of a buying object.                                          *)
LEMMA BuyingFields ==
  ASSUME NEW b \in BuyingObject
  PROVE  /\ b # None /\ b.asset \in Asset /\ b.paid \in Money /\ b.escrow \in Money
         /\ b.exp \in Nat /\ b.answered \in SUBSET Seeder /\ b.delivered \in BOOLEAN
         /\ b.expired \in BOOLEAN /\ b.rated \in BOOLEAN
BY Objects DEF BuyingObject

(* The changes the evaluators make to a buying object.                     *)
LEMMA BuyingUpdates ==
  ASSUME NEW b \in BuyingObject
  PROVE  /\ \A s \in Seeder : [b EXCEPT !.answered = @ \cup {s}] \in BuyingObject
         /\ [b EXCEPT !.escrow = 0, !.delivered = TRUE] \in BuyingObject
         /\ [b EXCEPT !.escrow = 0, !.expired = TRUE] \in BuyingObject
         /\ [b EXCEPT !.rated = TRUE] \in BuyingObject
<1>1. 0 \in Money
  BY DEF Money
<1>2. \A S \in SUBSET Seeder : [b EXCEPT !.answered = S] \in BuyingObject
  BY Zenon DEF BuyingObject
<1>3. \A s \in Seeder : b.answered \cup {s} \in SUBSET Seeder
  BY DEF BuyingObject
<1>4. \A s \in Seeder : [b EXCEPT !.answered = @ \cup {s}] \in BuyingObject
  BY <1>2, <1>3
<1> QED BY <1>1, <1>4, Zenon DEF BuyingObject

-----------------------------------------------------------------------------
(* Balances                                                                *)

Balances == [Account -> [Asset -> Money]]

(* What all accounts hold of an asset, in a balance function.              *)
Held(b, y) == SumFunctionOnSet([a \in Account |-> b[a][y]], Account)

(* What all accounts hold of an asset is a number.                         *)
LEMMA HeldIsInt ==
  ASSUME NEW b \in Balances, NEW y \in Asset
  PROVE  Held(b, y) \in Int
<1> DEFINE f == [a \in Account |-> b[a][y]]
<1>1. \A a \in Account : f[a] \in Int
  BY DEF Balances, Money
<1> HIDE DEF f
<1>2. SumFunctionOnSet(f, Account) \in Int
  BY <1>1, SumType, AccountAssumption
<1> QED BY <1>2 DEF f, Held

(* adjust_balance by an amount that the balance covers.                    *)
LEMMA AdjustedType ==
  ASSUME NEW b \in Balances, NEW a \in Account, NEW x \in Asset, NEW d \in Int, b[a][x] + d >= 0
  PROVE  Adjusted(b, a, x, d) \in Balances
<1>1. b[a][x] + d \in Money
  BY DEF Balances, Money
<1> QED BY <1>1 DEF Adjusted, Balances

(* adjust_balance changes what there is of one asset by its amount.        *)
LEMMA AdjustedHeld ==
  ASSUME NEW b \in Balances, NEW a \in Account, NEW x \in Asset, NEW d \in Int, NEW y \in Asset
  PROVE  Held(Adjusted(b, a, x, d), y) = Held(b, y) + (IF y = x THEN d ELSE 0)
<1> DEFINE f == [c \in Account |-> b[c][y]]
           g == [c \in Account |-> Adjusted(b, a, x, d)[c][y]]
<1>1. \A c \in Account : f[c] \in Int
  BY DEF Balances, Money
<1>2. g[a] = f[a] + (IF y = x THEN d ELSE 0)
  <2>1. Adjusted(b, a, x, d)[a] = [b[a] EXCEPT ![x] = @ + d]
    BY DEF Adjusted, Balances
  <2>2. b[a] \in [Asset -> Int]
    BY DEF Balances, Money
  <2>3. [b[a] EXCEPT ![x] = @ + d][y] = b[a][y] + (IF y = x THEN d ELSE 0)
    BY <2>2
  <2> QED BY <2>1, <2>3
<1>3. \A c \in Account \ {a} : g[c] = f[c]
  BY DEF Adjusted, Balances
<1> DEFINE e == IF y = x THEN d ELSE 0
<1>4. e \in Int
  OBVIOUS
<1> HIDE DEF f, g, e
<1>5. g[a] \in Int
  BY <1>1, <1>2, <1>4 DEF e
<1>6. SumFunctionOnSet(g, Account) = SumFunctionOnSet(f, Account) + g[a] - f[a]
  BY <1>1, <1>3, <1>5, SumUpdate, AccountAssumption
<1>7. SumFunctionOnSet(f, Account) \in Int
  BY <1>1, SumType, AccountAssumption
<1>8. SumFunctionOnSet(g, Account) = SumFunctionOnSet(f, Account) + e
  BY <1>1, <1>2, <1>4, <1>6, <1>7 DEF e
<1> QED BY <1>8 DEF Held, f, g, e

(* content_payout pays the whole price, and nobody a negative share.       *)
LEMMA PayoutShares ==
  ASSUME NEW co \in Splits, NEW x \in Nat, NEW au \in Account, SplitOk(au, co)
  PROVE  /\ \A a \in Account : Share(co, a, x) \in Nat
         /\ SumFunction([a \in DOMAIN co |-> Share(co, a, x)]) \in Nat
         /\ SumFunction([a \in DOMAIN co |-> Share(co, a, x)]) <= x
<1> DEFINE S == DOMAIN co
           g == [a \in S |-> Share(co, a, x)]
<1>1. S \subseteq Account /\ IsFiniteSet(S) /\ \A a \in S : co[a] \in Nat
  BY SplitAssumption, AccountAssumption, FS_Subset
<1>2. \A n \in Nat : (x * n) \div 10000 \in Nat /\ 10000 * ((x * n) \div 10000) <= x * n
  <2>1. \A m \in Nat : m \div 10000 \in Nat /\ 10000 * (m \div 10000) <= m
    OBVIOUS
  <2>2. \A n \in Nat : x * n \in Nat
    OBVIOUS
  <2> QED BY <2>1, <2>2
<1>3. \A a \in S : Share(co, a, x) \in Nat /\ 10000 * Share(co, a, x) <= x * co[a]
  BY <1>1, <1>2 DEF Share
<1>4. \A a \in Account : Share(co, a, x) \in Nat
  BY <1>3 DEF Share
<1>5. \A a \in S : g[a] \in Nat /\ g[a] \in Int /\ co[a] \in Int /\ 10000 * g[a] <= x * co[a]
  BY <1>1, <1>3
<1>6. SumFunction(g) = SumFunctionOnSet(g, S)
  BY DEF SumFunction
<1> DEFINE sg == SumFunctionOnSet(g, S)
           sc == SumFunctionOnSet(co, S)
<1> HIDE DEF g
<1>7. sg \in Nat
  BY <1>1, <1>5, SumNat
<1>8. sc \in Nat
  BY <1>1, SumNat
<1>9. 10000 * sg <= x * sc
  <2> HIDE DEF S
  <2> QED BY <1>1, <1>5, SumBound
<1>10. sc <= 10000
  BY <1>8 DEF SplitOk, SplitSum
<1> HIDE DEF sg, sc
<1>11. x * sc <= x * 10000
  BY <1>8, <1>10
<1>12. sg <= x
  BY <1>7, <1>8, <1>9, <1>11
<1>13. SumFunction(g) \in Nat /\ SumFunction(g) <= x
  BY <1>6, <1>7, <1>12 DEF sg
<1> QED BY <1>4, <1>13 DEF g

(* A payout makes no balance negative.                                     *)
LEMMA PayoutType ==
  ASSUME NEW b \in Balances, NEW k \in ContentObject, SplitOk(k.author, k.co),
         NEW y \in Asset, NEW x \in Nat
  PROVE  Payout(b, k, y, x) \in Balances
<1> DEFINE rest == x - SumFunction([a \in DOMAIN k.co |-> Share(k.co, a, x)])
<1>1. k.author \in Account /\ k.co \in Splits
  BY ContentFields, AccountAssumption
<1>2. rest \in Nat /\ \A a \in Account : Share(k.co, a, x) \in Nat
  BY <1>1, PayoutShares
<1> HIDE DEF rest
<1>3. Payout(b, k, y, x) = [a \in Account |-> [b[a] EXCEPT ![y] = @ + Share(k.co, a, x)
                                                  + (IF a = k.author THEN rest ELSE 0)]]
  BY DEF Payout, rest
<1>4. ASSUME NEW a \in Account
      PROVE  [b[a] EXCEPT ![y] = @ + Share(k.co, a, x) + (IF a = k.author THEN rest ELSE 0)]
               \in [Asset -> Money]
  <2>1. b[a] \in [Asset -> Nat]
    BY DEF Balances, Money
  <2>2. b[a][y] + Share(k.co, a, x) + (IF a = k.author THEN rest ELSE 0) \in Nat
    BY <1>2, <2>1
  <2> QED BY <2>1, <2>2 DEF Money
<1> QED BY <1>3, <1>4 DEF Balances

(* A payout hands out exactly the amount, whatever the flooring of the co- *)
(* authors' shares.                                                        *)
LEMMA PayoutHeld ==
  ASSUME NEW b \in Balances, NEW k \in ContentObject, SplitOk(k.author, k.co),
         NEW y \in Asset, NEW x \in Nat, NEW z \in Asset
  PROVE  Held(Payout(b, k, y, x), z) = Held(b, z) + (IF z = y THEN x ELSE 0)
<1> DEFINE S == DOMAIN k.co
           sh == [a \in S |-> Share(k.co, a, x)]
           rest == x - SumFunction(sh)
           f == [a \in Account |-> b[a][z]]
           g == [a \in Account |-> Payout(b, k, y, x)[a][z]]
<1>1. k.author \in Account /\ k.co \in Splits
  BY ContentFields, AccountAssumption
<1>2. rest \in Nat /\ SumFunction(sh) \in Nat /\ \A a \in Account : Share(k.co, a, x) \in Nat
  BY <1>1, PayoutShares
<1>3. \A a \in Account : b[a] \in [Asset -> Int]
  BY DEF Balances, Money
<1>4. \A a \in Account :
        g[a] = IF z = y THEN (f[a] + Share(k.co, a, x)) + (IF a = k.author THEN rest ELSE 0)
               ELSE f[a]
  <2> SUFFICES ASSUME NEW a \in Account
               PROVE  g[a] = IF z = y THEN (f[a] + Share(k.co, a, x))
                                           + (IF a = k.author THEN rest ELSE 0)
                             ELSE f[a]
    OBVIOUS
  <2> HIDE DEF rest
  <2>1. Payout(b, k, y, x)[a] = [b[a] EXCEPT ![y] = @ + Share(k.co, a, x)
                                                  + (IF a = k.author THEN rest ELSE 0)]
    BY DEF Payout, rest
  <2> QED BY <2>1, <1>3
<1>5. \A a \in Account : f[a] \in Int
  BY <1>3
<1>6. CASE z # y
  <2>1. \A a \in Account : f[a] \in Int /\ g[a] = f[a]
    BY <1>4, <1>5, <1>6
  <2> HIDE DEF f, g
  <2>2. SumFunctionOnSet(g, Account) = SumFunctionOnSet(f, Account)
    BY <2>1, SumSame, AccountAssumption
  <2>3. SumFunctionOnSet(f, Account) \in Int
    BY <1>5, SumType, AccountAssumption
  <2> QED BY <2>2, <2>3, <1>6 DEF Held, f, g
<1>7. CASE z = y
  <2> DEFINE share == [a \in Account |-> Share(k.co, a, x)]
             part == [a \in Account |-> f[a] + share[a]]
  <2>1. SumFunctionOnSet(share, Account) = SumFunctionOnSet(sh, S)
    <3>1. S \subseteq Account
      BY <1>1, SplitAssumption
    <3>2. \A a \in S : sh[a] \in Int /\ share[a] = sh[a]
      BY <3>1, <1>2
    <3>3. \A a \in Account \ S : share[a] = 0
      BY DEF Share
    <3> HIDE DEF S, sh, share
    <3> QED BY <3>1, <3>2, <3>3, SumExtend, AccountAssumption
  <2>2. SumFunctionOnSet(part, Account)
          = SumFunctionOnSet(f, Account) + SumFunctionOnSet(share, Account)
    <3>1. \A a \in Account : f[a] \in Int /\ share[a] \in Int /\ part[a] = f[a] + share[a]
      BY <1>2, <1>5
    <3> HIDE DEF f, share, part
    <3> QED BY <3>1, SumPlus, AccountAssumption
  <2>3. SumFunctionOnSet(g, Account) = SumFunctionOnSet(part, Account) + g[k.author] - part[k.author]
    <3>1. \A a \in Account : part[a] \in Int
      BY <1>2, <1>5
    <3>2. \A a \in Account \ {k.author} : g[a] = part[a]
      <4>1. \A a \in Account \ {k.author} : g[a] = (f[a] + Share(k.co, a, x)) + 0
        BY <1>4, <1>7
      <4>2. \A a \in Account : part[a] = f[a] + Share(k.co, a, x)
        OBVIOUS
      <4> HIDE DEF f, g, part
      <4> QED BY <4>1, <4>2, <3>1
    <3>3. g[k.author] \in Int
      <4> HIDE DEF f, g, rest
      <4> QED BY <1>1, <1>2, <1>4, <1>5, <1>7
    <3> HIDE DEF f, g, part
    <3> QED BY <3>1, <3>2, <3>3, <1>1, SumUpdate, AccountAssumption
  <2>4. g[k.author] = part[k.author] + rest /\ part[k.author] \in Int
    <3>1. part[k.author] = f[k.author] + Share(k.co, k.author, x)
      BY <1>1
    <3> HIDE DEF f, g, part, rest
    <3> QED BY <3>1, <1>1, <1>2, <1>4, <1>5, <1>7
  <2>5. SumFunction(sh) = SumFunctionOnSet(sh, S)
    BY DEF SumFunction
  <2>6. SumFunctionOnSet(f, Account) \in Int
    <3> HIDE DEF f
    <3> QED BY <1>5, SumType, AccountAssumption
  <2> DEFINE G == SumFunctionOnSet(g, Account)
             F == SumFunctionOnSet(f, Account)
             W == SumFunction(sh)
  <2>7. G = F + W + rest
    <3> DEFINE P == SumFunctionOnSet(part, Account)
               ga == g[k.author]
               pa == part[k.author]
    <3>1. P = F + W /\ G = P + ga - pa /\ ga = pa + rest /\ pa \in Int
      BY <2>1, <2>2, <2>3, <2>4, <2>5
    <3>2. F \in Int /\ W \in Int /\ rest \in Int
      BY <2>6, <1>2
    <3> HIDE DEF P, F, W, G, ga, pa, rest
    <3> QED BY <3>1, <3>2
  <2>8. G = F + x
    <3>1. rest = x - W /\ W \in Nat /\ F \in Int
      BY <1>2, <2>6
    <3> HIDE DEF F, W, G, rest
    <3> QED BY <2>7, <3>1
  <2> QED BY <2>8, <1>7 DEF Held
<1> QED BY <1>6, <1>7

-----------------------------------------------------------------------------
(* Types                                                                   *)

(* The changes made to a seeder's statistics keep them within a uint32_t.  *)
LEMMA StatsUpdates ==
  /\ NoStats \in StatsObject
  /\ \A n \in Int : [NoStats EXCEPT !.seeded = n % Word] \in StatsObject
  /\ \A x \in StatsObject :
       /\ [x EXCEPT !.requested = (@ + 1) % Word] \in StatsObject
       /\ [x EXCEPT !.missed = (@ + 1) % Word] \in StatsObject
       /\ [x EXCEPT !.missed = (@ - 1) % Word, !.delivered = (@ + 1) % Word] \in StatsObject
       /\ [x EXCEPT !.seeded = (@ + 1) % Word,
                    !.requested = IF @ > 0 THEN @ - 1 ELSE 0] \in StatsObject
<1> DEFINE W == 0..(Word - 1)
<1>1. 0 \in W /\ \A n \in Int : n % Word \in W
  BY Constants, ModRange
<1>2. \A n \in W : n \in Int /\ n + 1 \in Int /\ n - 1 \in Int
                   /\ (IF n > 0 THEN n - 1 ELSE 0) \in W
  BY Constants
<1>3. NoStats \in StatsObject
  BY <1>1 DEF NoStats, StatsObject
<1>4. ASSUME NEW x \in StatsObject
      PROVE  /\ x.missed \in W /\ x.delivered \in W /\ x.seeded \in W /\ x.requested \in W
             /\ \A n \in W : /\ [x EXCEPT !.requested = n] \in StatsObject
                             /\ [x EXCEPT !.missed = n] \in StatsObject
                             /\ [x EXCEPT !.seeded = n] \in StatsObject
             /\ \A m \in W, n \in W :
                             /\ [x EXCEPT !.missed = m, !.delivered = n] \in StatsObject
                             /\ [x EXCEPT !.seeded = m, !.requested = n] \in StatsObject
  BY Zenon DEF StatsObject
<1>5. \A n \in Int : [NoStats EXCEPT !.seeded = n % Word] \in StatsObject
  BY <1>1, <1>3, <1>4
<1> HIDE DEF W
<1>6. ASSUME NEW x \in StatsObject
      PROVE  /\ [x EXCEPT !.requested = (@ + 1) % Word] \in StatsObject
             /\ [x EXCEPT !.missed = (@ + 1) % Word] \in StatsObject
             /\ [x EXCEPT !.missed = (@ - 1) % Word, !.delivered = (@ + 1) % Word] \in StatsObject
             /\ [x EXCEPT !.seeded = (@ + 1) % Word,
                          !.requested = IF @ > 0 THEN @ - 1 ELSE 0] \in StatsObject
  BY <1>1, <1>2, <1>4, Zenon
<1> QED BY <1>3, <1>5, <1>6

(* ready_to_publish keeps the types.                                       *)
LEMMA ReadyToPublishType ==
  ASSUME Inv, NEW s \in Seeder, NEW price \in SeederPrices, ReadyToPublish(s, price)
  PROVE  TypeOK'
<1> USE DEF Inv, TypeOK, ReadyToPublish
<1>1. [price |-> price, free |-> Space] \in SeederObject
  BY AmountAssumption DEF SeederObject, Money
<1>2. seeder' \in [Seeder -> SeederObject \cup {None}]
  BY <1>1
<1>3. stats' \in [Seeder -> StatsObject]
  BY StatsUpdates
<1>4. \A q \in Seeder : seeder[q] # None => seeder'[q] # None
  BY <1>1, Objects
<1>5. \A u \in URI : content'[u] # None =>
         content'[u].parts \subseteq {q \in Seeder : seeder'[q] # None}
  BY <1>4
<1> QED BY <1>2, <1>3, <1>5

(* A new content with a fee in escrow.                                     *)
Submitted(u, fee) ==
  \E k \in ContentObject : content' = [content EXCEPT ![u] = k] /\ k.escrow = fee

(* A first content_submit keeps the types; its fee is covered by the       *)
(* author's balance.                                                       *)
LEMMA ContentSubmitType ==
  ASSUME Inv, NEW u \in URI, NEW a \in Author, NEW co \in Splits, NEW price \in Prices,
         NEW parts \in SUBSET Seeder, NEW quorum \in 0..Cardinality(Seeder), NEW fee \in Fees,
         NEW d \in Durations, NEW cd \in BOOLEAN,
         ContentSubmit(u, a, co, price, parts, quorum, fee, now + d, cd)
  PROVE  TypeOK' /\ Submitted(u, fee)
<1> DEFINE exp == now + d
           k == [author |-> a, co |-> co, price |-> price, exp |-> exp, escrow |-> fee,
                 parts |-> parts, quorum |-> quorum, cd |-> cd, blocked |-> FALSE,
                 proof |-> [s \in Seeder |-> None],
                 sprice |-> [s \in Seeder |-> IF s \in parts THEN seeder[s].price ELSE None],
                 bought |-> 0, ratings |-> 0]
<1>1. /\ Acceptable(a, co, parts, quorum, fee, exp)
      /\ content[u] = None
      /\ content' = [content EXCEPT ![u] = k]
      /\ bal' = Adjusted(bal, a, "DCT", -fee)
      /\ seeder' = [s \in Seeder |-> IF s \in parts THEN [seeder[s] EXCEPT !.free = @ - Size]
                                     ELSE seeder[s]]
      /\ stats' = [s \in Seeder |-> IF s \in parts
                                    THEN [stats[s] EXCEPT !.requested = (@ + 1) % Word]
                                    ELSE stats[s]]
      /\ UNCHANGED <<now, lastBudget, nextMaint, params, maints, pool, buying>>
  BY DEF ContentSubmit
<1> USE DEF Inv, TypeOK
<1>2. now \in Nat /\ d \in Int /\ fee \in Nat /\ quorum \in Nat
  BY AmountAssumption, AccountAssumption, FS_Subset, FS_CardinalityType, Constants DEF Time
<1>3. exp \in Nat
  <2>1. exp \in Int
    BY <1>2
  <2> HIDE DEF exp
  <2>2. exp >= now + Day
    BY <1>1, <1>2, <2>1, DaysAhead DEF Acceptable, Days
  <2> QED BY <2>1, <2>2, <1>2, Constants
<1>4. \A s \in parts : seeder[s] \in SeederObject /\ seeder[s] # None
  BY <1>1 DEF Acceptable
<1>5. k \in ContentObject
  <2>1. \A s \in parts : seeder[s].price \in Money
    BY <1>4 DEF SeederObject
  <2>2. k.sprice \in [Seeder -> Money \cup {None}]
    BY <2>1
  <2>3. k.proof \in [Seeder -> Time \cup {None}]
    OBVIOUS
  <2>4. fee \in Money /\ 0 \in Nat
    BY <1>2 DEF Money
  <2> HIDE DEF exp
  <2> QED BY <2>2, <2>3, <2>4, <1>2, <1>3 DEF ContentObject
<1> HIDE DEF k
<1>6. content' \in [URI -> ContentObject \cup {None}]
  BY <1>1, <1>5
<1>7. bal' \in Balances
  <2>1. bal[a]["DCT"] + (-fee) >= 0 /\ -fee \in Int /\ a \in Account /\ "DCT" \in Asset /\ bal \in Balances
    <3>1. bal[a]["DCT"] \in Nat
      BY AccountAssumption DEF Asset, Money
    <3> QED BY <3>1, <1>1, <1>2, AccountAssumption DEF Acceptable, Asset, Balances
  <2> QED BY <2>1, <1>1, AdjustedType
<1>8. /\ seeder' \in [Seeder -> SeederObject \cup {None}]
      /\ \A s \in Seeder : seeder[s] # None => seeder'[s] # None
  <2>1. \A s \in parts : [seeder[s] EXCEPT !.free = @ - Size] \in SeederObject
    <3> SUFFICES ASSUME NEW s \in parts
                 PROVE  [seeder[s] EXCEPT !.free = @ - Size] \in SeederObject
      OBVIOUS
    <3>1. seeder[s].free > Size
      BY DEF ContentSubmit, Acceptable
    <3>2. Size \in Nat
      BY AmountAssumption
    <3>3. seeder[s].free - Size \in Nat
      BY <1>4, <3>1, <3>2 DEF SeederObject
    <3> QED BY <1>4, <3>3 DEF SeederObject
  <2>2. \A s \in Seeder : seeder'[s] = IF s \in parts THEN [seeder[s] EXCEPT !.free = @ - Size]
                                       ELSE seeder[s]
    BY <1>1
  <2>3. \A s \in Seeder : seeder'[s] \in SeederObject \cup {None}
                          /\ (seeder[s] # None => seeder'[s] # None)
    <3> SUFFICES ASSUME NEW s \in Seeder
                 PROVE  seeder'[s] \in SeederObject \cup {None}
                        /\ (seeder[s] # None => seeder'[s] # None)
      OBVIOUS
    <3>1. CASE s \in parts
      <4>1. seeder'[s] \in SeederObject
        BY <2>1, <2>2, <3>1
      <4> QED BY <4>1, Objects
    <3>2. CASE s \notin parts
      <4>1. seeder'[s] = seeder[s]
        BY <2>2, <3>2
      <4> QED BY <4>1
    <3> QED BY <3>1, <3>2
  <2>4. DOMAIN seeder' = Seeder /\ seeder' = [s \in Seeder |-> seeder'[s]]
    BY <1>1
  <2> QED BY <2>3, <2>4
<1>9. stats' \in [Seeder -> StatsObject]
  BY <1>1, StatsUpdates
<1>10. \A v \in URI : content'[v] # None =>
         /\ content'[v].parts \subseteq {s \in Seeder : seeder'[s] # None}
         /\ content'[v].quorum <= Cardinality(content'[v].parts)
  <2>1. k.parts = parts /\ k.quorum = quorum
    BY DEF k
  <2>2. parts \subseteq {s \in Seeder : seeder'[s] # None}
    BY <1>4, <1>8
  <2>3. quorum <= Cardinality(parts)
    <3>1. parts = {} => Cardinality(parts) = 0
      BY FS_EmptySet
    <3>2. Cardinality(parts) \in Nat
      BY AccountAssumption, FS_Subset, FS_CardinalityType
    <3> QED BY <1>1, <1>2, <3>1, <3>2 DEF Acceptable
  <2>4. \A v \in URI \ {u} : content'[v] = content[v]
    BY <1>1
  <2>5. content'[u] = k
    BY <1>1
  <2> QED BY <2>1, <2>2, <2>3, <2>4, <2>5, <1>8
<1>11. \A p \in Consumer \X URI : buying'[p] # None =>
         /\ content'[p[2]] # None
         /\ buying'[p].answered \subseteq content'[p[2]].parts
  BY <1>1
<1>12. TypeOK'
  BY <1>1, <1>6, <1>7, <1>8, <1>9, <1>10, <1>11 DEF Balances
<1>13. k.escrow = fee
  BY DEF k
<1> QED BY <1>1, <1>5, <1>12, <1>13 DEF Submitted

(* Contents keep the seeders and the quorum they were submitted with.      *)
SameSeeders ==
  /\ content' \in [URI -> ContentObject \cup {None}]
  /\ \A u \in URI : /\ content'[u] = None <=> content[u] = None
                    /\ content[u] # None => /\ content'[u].parts = content[u].parts
                                            /\ content'[u].quorum = content[u].quorum

(* A content object is replaced by one with the same seeders and quorum.   *)
LEMMA ContentChange ==
  ASSUME TypeOK, NEW u \in URI, content[u] # None, NEW k1 \in ContentObject,
         k1.parts = content[u].parts, k1.quorum = content[u].quorum,
         content' = [content EXCEPT ![u] = k1]
  PROVE  SameSeeders
<1>1. content'[u] = k1 /\ (\A v \in URI \ {u} : content'[v] = content[v])
      /\ content' \in [URI -> ContentObject \cup {None}] /\ k1 # None
  BY Objects DEF TypeOK
<1> QED BY <1>1 DEF SameSeeders

(* Seeders, quorums and the existing contents decide what TypeOK says of   *)
(* buyings.                                                                *)
LEMMA SameSeedersType ==
  ASSUME TypeOK, SameSeeders, UNCHANGED seeder
  PROVE  /\ content' \in [URI -> ContentObject \cup {None}]
         /\ \A u \in URI : content'[u] # None =>
              /\ content'[u].parts \subseteq {s \in Seeder : seeder'[s] # None}
              /\ content'[u].quorum <= Cardinality(content'[u].parts)
         /\ \A p \in Consumer \X URI : buying[p] # None =>
              /\ content'[p[2]] # None
              /\ buying[p].answered \subseteq content'[p[2]].parts
BY DEF TypeOK, SameSeeders

(* A further content_submit keeps the types.                               *)
LEMMA ContentResubmitType ==
  ASSUME Inv, NEW u \in URI, NEW co \in Splits, NEW price \in Prices, NEW d \in Durations,
         ContentResubmit(u, co, price, now + d)
  PROVE  TypeOK' /\ now + d \in Nat /\ now + d > now
<1> DEFINE exp == now + d
           k == content[u]
           k1 == [k EXCEPT !.co = co, !.price = price, !.exp = exp]
<1>1. k # None /\ content' = [content EXCEPT ![u] = k1] /\ (exp - now) \div Day >= 1
      /\ UNCHANGED <<now, lastBudget, nextMaint, params, maints, bal, pool, buying, seeder, stats>>
  BY DEF ContentResubmit, Days
<1>2. now \in Nat /\ d \in Int
  BY AmountAssumption DEF Time, Inv, TypeOK
<1>3. exp \in Nat /\ exp > now
  <2>1. exp \in Int
    BY <1>2
  <2> HIDE DEF exp
  <2>2. exp >= now + Day
    BY <1>1, <1>2, <2>1, DaysAhead
  <2> QED BY <2>1, <2>2, <1>2, Constants
<1> HIDE DEF exp
<1>4. k \in ContentObject
  BY <1>1 DEF Inv, TypeOK
<1>5. k1 \in ContentObject /\ k1.parts = k.parts /\ k1.quorum = k.quorum
  BY <1>3, <1>4, ContentUpdates DEF ContentObject
<1> HIDE DEF k1
<1>6. SameSeeders
  BY <1>1, <1>5, ContentChange DEF Inv
<1>7. TypeOK'
  BY <1>1, <1>6, SameSeedersType DEF Inv, TypeOK
<1> QED BY <1>3, <1>7 DEF exp

(* content_cancellation keeps the types.                                   *)
LEMMA ContentCancelType ==
  ASSUME Inv, NEW u \in URI, ContentCancel(u)
  PROVE  TypeOK'
<1> DEFINE k == content[u]
           exp == IF k.exp > now + Day THEN now + Day ELSE k.exp
           k1 == [k EXCEPT !.blocked = TRUE, !.exp = exp]
<1>1. k # None /\ content' = [content EXCEPT ![u] = k1]
      /\ UNCHANGED <<now, lastBudget, nextMaint, params, maints, bal, pool, buying, seeder, stats>>
  BY DEF ContentCancel
<1>2. k \in ContentObject /\ now \in Nat
  BY <1>1 DEF Inv, TypeOK, Time
<1>3. exp \in Nat
  BY <1>2, ContentFields, Constants
<1> HIDE DEF exp
<1>4. k1 \in ContentObject /\ k1.parts = k.parts /\ k1.quorum = k.quorum
  BY <1>2, <1>3, ContentUpdates DEF ContentObject
<1> HIDE DEF k1
<1>5. SameSeeders
  BY <1>1, <1>4, ContentChange DEF Inv
<1> QED BY <1>1, <1>5, SameSeedersType DEF Inv, TypeOK

(* leave_rating_and_comment keeps the types.                               *)
LEMMA LeaveRatingType ==
  ASSUME Inv, NEW c \in Consumer, NEW u \in URI, LeaveRating(c, u)
  PROVE  TypeOK'
<1> DEFINE p == <<c, u>>
           k == content[u]
           b == buying[p]
           k1 == [k EXCEPT !.ratings = @ + 1]
           b1 == [b EXCEPT !.rated = TRUE]
<1>1. /\ b # None /\ content' = [content EXCEPT ![u] = k1]
      /\ buying' = [buying EXCEPT ![p] = b1]
      /\ UNCHANGED <<now, lastBudget, nextMaint, params, maints, bal, pool, seeder, stats>>
  BY DEF LeaveRating
<1>2. p \in Consumer \X URI /\ p[2] = u
  OBVIOUS
<1>3. k # None /\ b \in BuyingObject /\ k \in ContentObject
  BY <1>1, <1>2 DEF Inv, TypeOK
<1>4. k1 \in ContentObject /\ k1.parts = k.parts /\ k1.quorum = k.quorum
  <2>1. k.ratings + 1 \in Nat
    BY <1>3, ContentFields
  <2> QED BY <2>1, <1>3, ContentUpdates DEF ContentObject
<1>5. b1 \in BuyingObject /\ b1.answered = b.answered
  BY <1>3, BuyingUpdates DEF BuyingObject
<1> HIDE DEF k1, b1, p
<1>6. SameSeeders
  BY <1>1, <1>3, <1>4, ContentChange DEF Inv
<1>7. buying' \in [Consumer \X URI -> BuyingObject \cup {None}]
  BY <1>1, <1>5 DEF Inv, TypeOK
<1>8. \A q \in Consumer \X URI : buying'[q] # None => buying[q] # None
                                 /\ buying'[q].answered = buying[q].answered
  BY <1>1, <1>2, <1>5 DEF Inv, TypeOK
<1> QED BY <1>1, <1>6, <1>7, <1>8, SameSeedersType DEF Inv, TypeOK

(* Rounding down leaves a natural number.                                  *)
LEMMA DivNat ==
  ASSUME NEW a \in Nat, NEW b \in Nat, b > 0
  PROVE  a \div b \in Nat
OBVIOUS

(* A later slot is a multiple of the interval.                             *)
LEMMA LaterSlot ==
  ASSUME NEW w \in Nat, NEW i \in Nat, i > 0, NEW n \in Nat, n >= 1
  PROVE  LET t == (w \div i + n) * i
         IN t \in Nat /\ t > w /\ t % i = 0
<1>1. PICK q \in Nat : q = w \div i
  BY DivNat
<1>2. w = i * q + (w % i) /\ w % i \in 0..(i - 1)
  BY <1>1
<1>3. PICK r \in 0..(i - 1) : w = i * q + r
  BY <1>2
<1>4. i * (q + n) \in Nat /\ i * (q + n) >= i * (q + 1)
  OBVIOUS
<1>5. i * (q + 1) = i * q + i /\ i * q \in Nat
  OBVIOUS
<1>6. i * (q + n) > w
  BY <1>3, <1>4, <1>5
<1>7. (i * (q + n)) % i = 0
  OBVIOUS
<1>8. (q + n) * i = i * (q + n)
  OBVIOUS
<1> QED BY <1>1, <1>4, <1>6, <1>7, <1>8

(* asset_object::convert yields an amount that is no debt.                 *)
LEMMA ConvertedType ==
  ASSUME NEW x \in Payments, NEW y \in Asset
  PROVE  /\ x.asset \in Asset /\ x.amount \in Nat
         /\ InCore(x) \in Nat /\ InCore(x) * Rate \in Nat /\ Converted(x, y) \in Nat
<1>1. x.asset \in Asset /\ x.amount \in Nat
  BY AmountAssumption DEF Asset
<1>2. InCore(x) \in Nat
  BY <1>1, DivNat, Constants DEF InCore
<1>3. InCore(x) * Rate \in Nat /\ InCore(x) * Feed \in Nat
  BY <1>2, Constants
<1> QED BY <1>1, <1>2, <1>3 DEF Converted, Asset

(* What a consumer pays for a content, what of it is the author's, and the *)
(* buying_object that request_to_buy creates.                              *)
Free(c, u) == <<c, content[u].author>> \in Subscribed
Paid(c, u, x) == IF Free(c, u) THEN 0 ELSE x.amount
Got(c, u, x) == IF Free(c, u) THEN 0 ELSE Converted(x, content[u].price.asset)
Bought(c, u, x) ==
  [asset |-> content[u].price.asset, paid |-> Got(c, u, x),
   escrow |-> IF content[u].parts = {} THEN 0 ELSE Got(c, u, x),
   exp |-> now + Day, answered |-> {}, delivered |-> content[u].parts = {},
   expired |-> FALSE, rated |-> FALSE]

(* A request_to_buy of a state that has its types, without the LETs.       *)
Request(c, u, x) ==
  /\ content[u] \in ContentObject /\ content[u] # None /\ <<c, u>> \in Consumer \X URI
  /\ c \in Account /\ bal \in Balances /\ content[u].price.asset \in Asset
  /\ buying[<<c, u>>] = None /\ content[u].exp > now
  /\ ~Free(c, u) => /\ PoolAfter(x, content[u].price.asset).core >= 0
                    /\ PoolAfter(x, content[u].price.asset).asset >= 0
                    /\ x.asset # "MIA"
  /\ pool' = IF Free(c, u) THEN pool ELSE PoolAfter(x, content[u].price.asset)
  /\ buying' = [buying EXCEPT ![<<c, u>>] = Bought(c, u, x)]
  /\ bal' = IF content[u].parts = {}
            THEN Payout(Adjusted(bal, c, x.asset, -Paid(c, u, x)), content[u],
                        content[u].price.asset, Got(c, u, x))
            ELSE Adjusted(bal, c, x.asset, -Paid(c, u, x))
  /\ content' = IF content[u].parts = {}
                THEN [content EXCEPT ![u] = [content[u] EXCEPT !.bought = @ + 1]]
                ELSE content
  /\ UNCHANGED <<now, lastBudget, nextMaint, params, maints, seeder>>
  /\ x.asset \in Asset /\ Paid(c, u, x) \in Nat /\ Got(c, u, x) \in Nat
  /\ Adjusted(bal, c, x.asset, -Paid(c, u, x)) \in Balances
  /\ Bought(c, u, x) \in BuyingObject

(* What request_to_buy does, with the types of what it computes.           *)
LEMMA RequestToBuyShape ==
  ASSUME Inv, NEW c \in Consumer, NEW u \in URI, NEW x \in Payments, RequestToBuy(c, u, x)
  PROVE  Request(c, u, x)
<1>1. /\ content[u] \in ContentObject /\ content[u] # None /\ <<c, u>> \in Consumer \X URI
      /\ c \in Account /\ bal \in Balances /\ now \in Nat
  BY AccountAssumption DEF RequestToBuy, Inv, TypeOK, Balances, Time
<1>2. content[u].price.asset \in Asset
  BY <1>1, ContentFields, AmountAssumption DEF Asset
<1>3. x.asset \in Asset /\ x.amount \in Nat /\ Paid(c, u, x) \in Nat /\ Got(c, u, x) \in Nat
  BY <1>2, ConvertedType DEF Paid, Got
<1>4. Adjusted(bal, c, x.asset, -Paid(c, u, x)) \in Balances
  <2>1. x.amount <= bal[c][x.asset]
    BY DEF RequestToBuy
  <2>2. bal[c][x.asset] \in Nat
    BY <1>1, <1>3 DEF Balances, Money
  <2>3. bal[c][x.asset] + (-Paid(c, u, x)) >= 0 /\ -Paid(c, u, x) \in Int
    BY <2>1, <2>2, <1>3 DEF Paid
  <2> QED BY <2>3, <1>1, <1>3, AdjustedType
<1>5. Bought(c, u, x) \in BuyingObject
  <2>1. now + Day \in Nat /\ (IF content[u].parts = {} THEN 0 ELSE Got(c, u, x)) \in Nat
    BY <1>1, <1>3, Constants
  <2>2. {} \in SUBSET Seeder
    OBVIOUS
  <2> QED BY <2>1, <2>2, <1>2, <1>3 DEF Bought, BuyingObject, Money
<1>6. /\ pool' = IF Free(c, u) THEN pool ELSE PoolAfter(x, content[u].price.asset)
      /\ buying' = [buying EXCEPT ![<<c, u>>] = Bought(c, u, x)]
      /\ UNCHANGED <<now, lastBudget, nextMaint, params, maints, seeder>>
      /\ ~Free(c, u) => /\ PoolAfter(x, content[u].price.asset).core >= 0
                        /\ PoolAfter(x, content[u].price.asset).asset >= 0
                        /\ x.asset # "MIA"
      /\ buying[<<c, u>>] = None /\ content[u].exp > now
  BY DEF RequestToBuy, Bought, Free, Got, Paid, Exchangeable
<1>7. /\ bal' = IF content[u].parts = {}
                THEN Payout(Adjusted(bal, c, x.asset, -Paid(c, u, x)), content[u],
                            content[u].price.asset, Got(c, u, x))
                ELSE Adjusted(bal, c, x.asset, -Paid(c, u, x))
      /\ content' = IF content[u].parts = {}
                    THEN [content EXCEPT ![u] = [content[u] EXCEPT !.bought = @ + 1]]
                    ELSE content
  BY DEF RequestToBuy, Bought, Free, Got, Paid
<1> QED BY <1>1, <1>2, <1>3, <1>4, <1>5, <1>6, <1>7 DEF Request

(* request_to_buy keeps the types; balances and pools cover the payment.   *)
LEMMA RequestToBuyType ==
  ASSUME Inv, NEW c \in Consumer, NEW u \in URI, NEW x \in Payments, RequestToBuy(c, u, x)
  PROVE  TypeOK' /\ SameSeeders
<1> DEFINE k == content[u]
           y == k.price.asset
           p == <<c, u>>
           b1 == Adjusted(bal, c, x.asset, -Paid(c, u, x))
<1>0. Request(c, u, x)
  BY RequestToBuyShape
<1>1. k \in ContentObject /\ k # None /\ p \in Consumer \X URI /\ p[2] = u /\ y \in Asset
  BY <1>0 DEF Request
<1>2. SplitOk(k.author, k.co)
  BY <1>1 DEF Inv, GoodContents, ContentOk
<1>3. bal' \in Balances
  <2>1. b1 \in Balances /\ Got(c, u, x) \in Nat
    BY <1>0 DEF Request
  <2>2. bal' = IF k.parts = {} THEN Payout(b1, k, y, Got(c, u, x)) ELSE b1
    BY <1>0 DEF Request
  <2> HIDE DEF b1, y, k
  <2> QED BY <2>1, <2>2, <1>1, <1>2, PayoutType
<1>4. pool' \in [core : Money, asset : Money]
  <2>1. CASE Free(c, u)
    BY <2>1, <1>0 DEF Inv, TypeOK, Request
  <2>2. CASE ~Free(c, u)
    <3> DEFINE q == PoolAfter(x, y)
    <3>1. pool' = q /\ q.core >= 0 /\ q.asset >= 0
      BY <2>2, <1>0 DEF Request
    <3>2. pool \in [core : Nat, asset : Nat]
      BY DEF Inv, TypeOK, Money
    <3>3. x.amount \in Nat /\ InCore(x) \in Nat /\ InCore(x) * Rate \in Nat
      BY <1>1, ConvertedType
    <3>4. q \in [core : Int, asset : Int]
      BY <3>2, <3>3 DEF PoolAfter
    <3> HIDE DEF q
    <3> QED BY <3>1, <3>4 DEF Money
  <2> QED BY <2>1, <2>2
<1>5. SameSeeders
  <2>1. CASE k.parts = {}
    <3> DEFINE k1 == [k EXCEPT !.bought = @ + 1]
    <3>1. content' = [content EXCEPT ![u] = k1]
      BY <2>1, <1>0 DEF Request
    <3>2. k.bought + 1 \in Nat
      BY <1>1, ContentFields
    <3>3. k1 \in ContentObject /\ k1.parts = k.parts /\ k1.quorum = k.quorum
      BY <3>2, <1>1, ContentUpdates DEF ContentObject
    <3> HIDE DEF k1
    <3> QED BY <3>1, <3>3, <1>1, ContentChange DEF Inv
  <2>2. CASE k.parts # {}
    <3>1. content' = content
      BY <2>2, <1>0 DEF Request
    <3> QED BY <3>1 DEF SameSeeders, Inv, TypeOK
  <2> QED BY <2>1, <2>2
<1>6. stats' \in [Seeder -> StatsObject]
  <2>1. stats' = [s \in Seeder |-> IF s \in k.parts THEN [stats[s] EXCEPT !.missed = (@ + 1) % Word]
                                   ELSE stats[s]]
    BY DEF RequestToBuy
  <2>2. stats \in [Seeder -> StatsObject]
    BY DEF Inv, TypeOK
  <2> QED BY <2>1, <2>2, StatsUpdates
<1>7. buying' \in [Consumer \X URI -> BuyingObject \cup {None}]
  BY <1>0 DEF Inv, TypeOK, Request
<1>8. \A q \in Consumer \X URI : buying'[q] # None =>
         /\ content'[q[2]] # None
         /\ buying'[q].answered \subseteq content'[q[2]].parts
  <2>1. \A q \in Consumer \X URI : buying'[q] = IF q = p THEN Bought(c, u, x) ELSE buying[q]
    BY <1>1, <1>0 DEF Inv, TypeOK, Request
  <2>2. Bought(c, u, x).answered = {}
    BY DEF Bought
  <2>3. content'[u] # None
    BY <1>1, <1>5 DEF SameSeeders
  <2>4. \A q \in Consumer \X URI : buying[q] # None => content'[q[2]] # None
                           /\ buying[q].answered \subseteq content'[q[2]].parts
    BY <1>5, SameSeedersType, <1>0 DEF Inv, Request
  <2> HIDE DEF p
  <2> QED BY <2>1, <2>2, <2>3, <2>4, <1>1
<1>9. UNCHANGED <<now, lastBudget, nextMaint, params, maints, seeder>>
  BY <1>0 DEF Request
<1>10. TypeOK'
  BY <1>3, <1>4, <1>5, <1>6, <1>7, <1>8, <1>9, SameSeedersType DEF Inv, TypeOK, Balances
<1> QED BY <1>5, <1>10

(* The buying once seeder s has answered.                                  *)
Answered(s, c, u) == [buying[<<c, u>>] EXCEPT !.answered = @ \cup {s}]
Full(s, c, u) == Cardinality(buying[<<c, u>>].answered \cup {s}) >= content[u].quorum
Late(c, u) == buying[<<c, u>>].exp < now
Counted(u) == [content[u] EXCEPT !.bought = @ + 1]

(* The three outcomes of deliver_keys, without the LETs: the answer is     *)
(* only noted, the author is paid, the consumer is refunded.               *)
Noted(s, c, u) ==
  /\ Closed(buying[<<c, u>>]) \/ (~Full(s, c, u) /\ ~Late(c, u))
  /\ buying' = [buying EXCEPT ![<<c, u>>] = Answered(s, c, u)]
  /\ UNCHANGED <<bal, content>>
Delivered(s, c, u) ==
  /\ ~Closed(buying[<<c, u>>]) /\ Full(s, c, u)
  /\ buying' = [buying EXCEPT ![<<c, u>>] =
                  [Answered(s, c, u) EXCEPT !.escrow = 0, !.delivered = TRUE]]
  /\ bal' = Payout(bal, content[u], buying[<<c, u>>].asset, buying[<<c, u>>].paid)
  /\ content' = [content EXCEPT ![u] = Counted(u)]
GivenBack(s, c, u) ==
  /\ ~Closed(buying[<<c, u>>]) /\ ~Full(s, c, u) /\ Late(c, u)
  /\ buying' = [buying EXCEPT ![<<c, u>>] =
                  [Answered(s, c, u) EXCEPT !.escrow = 0, !.expired = TRUE]]
  /\ bal' = Adjusted(bal, c, buying[<<c, u>>].asset, buying[<<c, u>>].escrow)
  /\ UNCHANGED content

(* What a buying's own objects are.                                        *)
LEMMA BuyingObjects ==
  ASSUME Inv, NEW c \in Consumer, NEW u \in URI, buying[<<c, u>>] # None
  PROVE  /\ <<c, u>> \in Consumer \X URI
         /\ buying[<<c, u>>] \in BuyingObject
         /\ content[u] # None /\ content[u] \in ContentObject
         /\ SplitOk(content[u].author, content[u].co)
         /\ buying[<<c, u>>].answered \subseteq content[u].parts
         /\ IsFiniteSet(content[u].parts) /\ IsFiniteSet(buying[<<c, u>>].answered)
         /\ Counted(u) \in ContentObject /\ Counted(u).parts = content[u].parts
         /\ Counted(u).quorum = content[u].quorum
<1>1. <<c, u>> \in Consumer \X URI /\ <<c, u>>[2] = u
  OBVIOUS
<1>2. /\ buying[<<c, u>>] \in BuyingObject /\ content[u] # None /\ content[u] \in ContentObject
      /\ buying[<<c, u>>].answered \subseteq content[u].parts
  BY <1>1 DEF Inv, TypeOK
<1>3. SplitOk(content[u].author, content[u].co)
  BY <1>2 DEF Inv, GoodContents, ContentOk
<1>4. IsFiniteSet(content[u].parts) /\ IsFiniteSet(buying[<<c, u>>].answered)
  <2>1. content[u].parts \subseteq Account
    BY <1>2, ContentFields, AccountAssumption
  <2> QED BY <2>1, <1>2, FS_Subset, AccountAssumption
<1>5. content[u].bought + 1 \in Nat
  BY <1>2, ContentFields
<1>6. Counted(u) \in ContentObject /\ Counted(u).parts = content[u].parts
      /\ Counted(u).quorum = content[u].quorum
  BY <1>2, <1>5, ContentUpdates DEF Counted, ContentObject
<1> QED BY <1>1, <1>2, <1>3, <1>4, <1>6

(* deliver_keys only notes the answer, pays the author, or gives the       *)
(* escrow back.                                                            *)
LEMMA DeliverKeysShape ==
  ASSUME Inv, NEW s \in Seeder, NEW c \in Consumer, NEW u \in URI, DeliverKeys(s, c, u)
  PROVE  /\ Noted(s, c, u) \/ Delivered(s, c, u) \/ GivenBack(s, c, u)
         /\ buying[<<c, u>>] # None /\ s \in content[u].parts
         /\ UNCHANGED <<now, lastBudget, nextMaint, params, maints, pool, seeder>>
         /\ stats' = IF s \in buying[<<c, u>>].answered THEN stats
                     ELSE [stats EXCEPT ![s] = [stats[s] EXCEPT !.missed = (@ - 1) % Word,
                                                                !.delivered = (@ + 1) % Word]]
<1>1. Answered(s, c, u).answered = buying[<<c, u>>].answered \cup {s}
  <2>1. buying[<<c, u>>] \in BuyingObject
    BY BuyingObjects DEF DeliverKeys
  <2> QED BY <2>1 DEF Answered, BuyingObject
<1> QED BY <1>1 DEF DeliverKeys, Noted, Delivered, GivenBack, Answered, Full, Late, Counted

(* deliver_keys keeps the types.                                           *)
LEMMA DeliverKeysType ==
  ASSUME Inv, NEW s \in Seeder, NEW c \in Consumer, NEW u \in URI, DeliverKeys(s, c, u)
  PROVE  TypeOK' /\ SameSeeders
<1> DEFINE p == <<c, u>>
           b == buying[p]
           k == content[u]
<1>1. /\ b # None /\ s \in k.parts /\ UNCHANGED <<now, lastBudget, nextMaint, params, maints, pool, seeder>>
      /\ Noted(s, c, u) \/ Delivered(s, c, u) \/ GivenBack(s, c, u)
  BY DeliverKeysShape
<1>2. /\ p \in Consumer \X URI /\ p[2] = u /\ b \in BuyingObject /\ k # None /\ k \in ContentObject
      /\ SplitOk(k.author, k.co) /\ b.answered \subseteq k.parts
      /\ Counted(u) \in ContentObject /\ Counted(u).parts = k.parts /\ Counted(u).quorum = k.quorum
  BY <1>1, BuyingObjects
<1>3. SameSeeders
  <2>1. CASE content' = content
    BY <2>1 DEF SameSeeders, Inv, TypeOK
  <2>2. CASE content' = [content EXCEPT ![u] = Counted(u)]
    BY <2>2, <1>2, ContentChange DEF Inv
  <2> QED BY <2>1, <2>2, <1>1 DEF Noted, Delivered, GivenBack
<1>4. bal' \in Balances
  <2>1. bal \in Balances /\ b.asset \in Asset /\ b.paid \in Nat /\ b.escrow \in Nat /\ c \in Account
    BY <1>2, BuyingFields, AccountAssumption DEF Inv, TypeOK, Balances, Money
  <2>2. CASE bal' = bal
    BY <2>1, <2>2
  <2>3. CASE bal' = Payout(bal, k, b.asset, b.paid)
    BY <2>1, <2>3, <1>2, PayoutType
  <2>4. CASE bal' = Adjusted(bal, c, b.asset, b.escrow)
    <3>1. bal[c][b.asset] \in Nat
      BY <2>1 DEF Balances, Money
    <3>2. bal[c][b.asset] + b.escrow >= 0
      BY <2>1, <3>1
    <3> QED BY <2>1, <2>4, <3>2, AdjustedType
  <2> QED BY <2>2, <2>3, <2>4, <1>1 DEF Noted, Delivered, GivenBack
<1>5. PICK b2 \in BuyingObject : buying' = [buying EXCEPT ![p] = b2]
                                 /\ b2.answered = b.answered \cup {s}
  <2> DEFINE b1 == Answered(s, c, u)
  <2>1. b1 \in BuyingObject /\ b1.answered = b.answered \cup {s}
    BY <1>2, BuyingUpdates DEF Answered, BuyingObject
  <2>2. /\ [b1 EXCEPT !.escrow = 0, !.delivered = TRUE] \in BuyingObject
        /\ [b1 EXCEPT !.escrow = 0, !.expired = TRUE] \in BuyingObject
        /\ [b1 EXCEPT !.escrow = 0, !.delivered = TRUE].answered = b1.answered
        /\ [b1 EXCEPT !.escrow = 0, !.expired = TRUE].answered = b1.answered
    <3> HIDE DEF b1
    <3> QED BY <2>1, BuyingUpdates DEF BuyingObject
  <2>3. \/ buying' = [buying EXCEPT ![p] = b1]
        \/ buying' = [buying EXCEPT ![p] = [b1 EXCEPT !.escrow = 0, !.delivered = TRUE]]
        \/ buying' = [buying EXCEPT ![p] = [b1 EXCEPT !.escrow = 0, !.expired = TRUE]]
    BY <1>1 DEF Noted, Delivered, GivenBack
  <2> HIDE DEF b1
  <2> QED BY <2>1, <2>2, <2>3
<1>6. stats' \in [Seeder -> StatsObject]
  <2>1. stats \in [Seeder -> StatsObject]
    BY DEF Inv, TypeOK
  <2>2. stats' = IF s \in b.answered THEN stats
                 ELSE [stats EXCEPT ![s] = [stats[s] EXCEPT !.missed = (@ - 1) % Word,
                                                            !.delivered = (@ + 1) % Word]]
    BY DeliverKeysShape
  <2>3. [stats[s] EXCEPT !.missed = (@ - 1) % Word, !.delivered = (@ + 1) % Word] \in StatsObject
    BY <2>1, StatsUpdates
  <2> QED BY <2>1, <2>2, <2>3
<1> HIDE DEF p
<1>7. /\ buying' \in [Consumer \X URI -> BuyingObject \cup {None}]
      /\ \A q \in Consumer \X URI : buying'[q] = IF q = p THEN b2 ELSE buying[q]
  BY <1>2, <1>5 DEF Inv, TypeOK
<1>8. /\ content' \in [URI -> ContentObject \cup {None}]
      /\ \A v \in URI : content'[v] # None =>
              /\ content'[v].parts \subseteq {q \in Seeder : seeder'[q] # None}
              /\ content'[v].quorum <= Cardinality(content'[v].parts)
      /\ \A q \in Consumer \X URI : buying[q] # None =>
              /\ content'[q[2]] # None
              /\ buying[q].answered \subseteq content'[q[2]].parts
  BY <1>1, <1>3, SameSeedersType DEF Inv
<1>9. \A q \in Consumer \X URI : buying'[q] # None =>
         /\ content'[q[2]] # None
         /\ buying'[q].answered \subseteq content'[q[2]].parts
  <2>1. b2.answered \subseteq content'[u].parts /\ content'[u] # None
    BY <1>1, <1>2, <1>3, <1>5 DEF SameSeeders
  <2> QED BY <2>1, <1>2, <1>7, <1>8
<1>10. TypeOK'
  BY <1>1, <1>4, <1>6, <1>7, <1>8, <1>9 DEF Inv, TypeOK, Balances
<1> QED BY <1>3, <1>10

-----------------------------------------------------------------------------
(* A seeder's reward is never more than the escrow holds.                  *)
LEMMA RewardBounds ==
  ASSUME Inv, NEW u \in URI, content[u] # None, NEW s \in Seeder,
         content[u].proof[s] # None, content[u].sprice[s] # None
  PROVE  /\ Reward(content[u], s) \in Nat
         /\ Reward(content[u], s) <= content[u].escrow
<1> DEFINE k == content[u]
           diff == IF now - k.proof[s] > Day THEN Day ELSE now - k.proof[s]
           ratio == (10000 * diff) \div Day
           loss == (10000 - ratio) \div 4
           full == (ratio * (10000 - loss)) \div 10000
           sum == (k.sprice[s] * full * Size) \div 10000
<1>1. k \in ContentObject
  BY DEF Inv, TypeOK
<1>2. k.proof[s] \in Nat /\ k.sprice[s] \in Nat /\ k.escrow \in Nat /\ now \in Nat
  BY <1>1, ContentFields DEF Time, Money, Inv, TypeOK
<1>3. k.proof[s] <= now
  BY DEF Inv, GoodContents, ContentOk
<1>4. diff \in Nat
  BY <1>2, <1>3, Constants
<1> HIDE DEF diff
<1>5. ratio \in Nat
  BY <1>4, Constants, DivNat
<1> HIDE DEF ratio
<1>6. loss \in Int /\ loss <= 10000
  BY <1>5
<1> HIDE DEF loss
<1>7. full \in Nat
  <2>1. 10000 - loss \in Nat
    BY <1>6
  <2>2. ratio * (10000 - loss) \in Nat
    BY <1>5, <2>1
  <2> QED BY <2>2, DivNat
<1> HIDE DEF full
<1>8. sum \in Nat
  <2>1. k.sprice[s] * full * Size \in Nat
    BY <1>2, <1>7, Constants
  <2> QED BY <2>1, DivNat
<1> HIDE DEF sum
<1>9. Reward(k, s) = IF sum > k.escrow THEN k.escrow ELSE sum
  BY DEF Reward, sum, full, loss, ratio, diff
<1> QED BY <1>2, <1>8, <1>9

(* proof_of_custody keeps the types; the escrow covers the reward.         *)
LEMMA ProofOfCustodyType ==
  ASSUME Inv, NEW s \in Seeder, NEW u \in URI, ProofOfCustody(s, u)
  PROVE  TypeOK' /\ SameSeeders
<1> DEFINE k == content[u]
           f == [k.proof EXCEPT ![s] = now]
<1>1. /\ k # None /\ k.parts # {} /\ k.exp > now /\ seeder[s] # None
      /\ UNCHANGED <<now, lastBudget, nextMaint, params, maints, pool, buying, seeder>>
  BY DEF ProofOfCustody
<1>2. k \in ContentObject /\ now \in Time
  BY <1>1 DEF Inv, TypeOK
<1>3. f \in [Seeder -> Time \cup {None}]
  BY <1>2, ContentFields
<1>4. CASE k.proof[s] = None
  <2> DEFINE k1 == [k EXCEPT !.proof = f]
  <2>1. /\ content' = [content EXCEPT ![u] = k1]
        /\ stats' = [stats EXCEPT ![s] = [stats[s] EXCEPT !.seeded = (@ + 1) % Word,
                                                 !.requested = IF @ > 0 THEN @ - 1 ELSE 0]]
        /\ UNCHANGED bal
    BY <1>4 DEF ProofOfCustody
  <2>2. k1 \in ContentObject /\ k1.parts = k.parts /\ k1.quorum = k.quorum
    <3> HIDE DEF f
    <3> QED BY <1>2, <1>3, ContentUpdates DEF ContentObject
  <2> HIDE DEF k1
  <2>3. SameSeeders
    BY <1>1, <2>1, <2>2, ContentChange DEF Inv
  <2>4. stats' \in [Seeder -> StatsObject]
    <3>1. stats \in [Seeder -> StatsObject]
      BY DEF Inv, TypeOK
    <3>2. [stats[s] EXCEPT !.seeded = (@ + 1) % Word,
                           !.requested = IF @ > 0 THEN @ - 1 ELSE 0] \in StatsObject
      BY <3>1, StatsUpdates
    <3> QED BY <2>1, <3>1, <3>2
  <2> QED BY <1>1, <2>1, <2>3, <2>4, SameSeedersType DEF Inv, TypeOK
<1>5. CASE k.proof[s] # None
  <2> DEFINE r == Reward(k, s)
             k1 == [k EXCEPT !.proof = f, !.escrow = k.escrow - r]
  <2>1. /\ content' = [content EXCEPT ![u] = k1]
        /\ bal' = Adjusted(bal, s, "DCT", r) /\ k.sprice[s] # None
        /\ UNCHANGED stats
    BY <1>5 DEF ProofOfCustody
  <2>2. r \in Nat /\ r <= k.escrow /\ k.escrow \in Nat
    BY <1>1, <1>2, <1>5, <2>1, RewardBounds, ContentFields DEF Money
  <2>3. k.escrow - r \in Money
    BY <2>2 DEF Money
  <2>4. k1 \in ContentObject /\ k1.parts = k.parts /\ k1.quorum = k.quorum
    <3> HIDE DEF f, r
    <3> QED BY <1>2, <1>3, <2>3, ContentUpdates DEF ContentObject
  <2>5. bal' \in Balances
    <3>1. bal \in Balances /\ s \in Account /\ "DCT" \in Asset /\ bal[s]["DCT"] \in Nat
      BY AccountAssumption DEF Inv, TypeOK, Balances, Asset, Money
    <3>2. bal[s]["DCT"] + r >= 0
      BY <2>2, <3>1
    <3> HIDE DEF r
    <3> QED BY <2>1, <2>2, <3>1, <3>2, AdjustedType
  <2> HIDE DEF k1
  <2>6. SameSeeders
    BY <1>1, <2>1, <2>4, ContentChange DEF Inv
  <2> QED BY <1>1, <2>1, <2>5, <2>6, SameSeedersType DEF Inv, TypeOK, Balances
<1> QED BY <1>4, <1>5

-----------------------------------------------------------------------------
(* Housekeeping without the LETs.                                          *)
Out(t) == {u \in URI : content[u] # None /\ Due(content[u].exp, t)}
DueSet(t) == {p \in Consumer \X URI : Refunded(p[1], p[2], t)}
Back(a, t) == SumFunctionOnSet([u \in Out(t) |-> content[u].escrow],
                               {u \in Out(t) : content[u].author = a})
Refund(a, x, t) == SumFunctionOnSet([p \in DueSet(t) |-> buying[p].escrow],
                                    {p \in DueSet(t) : p[1] = a /\ buying[p].asset = x})

Kept(t) ==
  /\ bal' = [a \in Account |-> [x \in Asset |->
               bal[a][x] + Refund(a, x, t) + (IF x = "DCT" THEN Back(a, t) ELSE 0)]]
  /\ content' = [u \in URI |-> IF u \in Out(t) THEN [content[u] EXCEPT !.escrow = 0]
                               ELSE content[u]]
  /\ buying' = [p \in Consumer \X URI |->
                  IF p \in DueSet(t) THEN [buying[p] EXCEPT !.escrow = 0, !.expired = TRUE]
                  ELSE buying[p]]

(* What decent_housekeeping does to balances and objects.                  *)
LEMMA HousekeepingShape ==
  ASSUME NEW t, Housekeeping(t)
  PROVE  Kept(t)
BY DEF Housekeeping, Kept, Out, DueSet, Back, Refund

(* What is due is an object, and there are finitely many.                  *)
LEMMA DueObjects ==
  ASSUME TypeOK, NEW t
  PROVE  /\ IsFiniteSet(Out(t)) /\ IsFiniteSet(DueSet(t))
         /\ \A u \in Out(t) : u \in URI /\ content[u] \in ContentObject
         /\ \A p \in DueSet(t) : p \in Consumer \X URI /\ buying[p] \in BuyingObject
                                 /\ ~buying[p].delivered /\ Due(buying[p].exp, t)
<1>1. IsFiniteSet(Out(t))
  BY AccountAssumption, FS_Subset DEF Out
<1>2. IsFiniteSet(Consumer \X URI)
  BY AccountAssumption, FS_Subset, FS_Product
<1>3. IsFiniteSet(DueSet(t))
  BY <1>2, FS_Subset DEF DueSet
<1>4. \A u \in Out(t) : u \in URI /\ content[u] \in ContentObject
  BY DEF Out, TypeOK
<1>5. ASSUME NEW p \in DueSet(t)
      PROVE  p \in Consumer \X URI /\ buying[p] \in BuyingObject
             /\ ~buying[p].delivered /\ Due(buying[p].exp, t)
  <2>1. p \in Consumer \X URI /\ Refunded(p[1], p[2], t)
    BY DEF DueSet
  <2>2. p = <<p[1], p[2]>>
    BY <2>1
  <2>3. buying[p] # None /\ ~buying[p].delivered /\ Due(buying[p].exp, t)
    BY <2>1, <2>2 DEF Refunded
  <2> QED BY <2>1, <2>3 DEF TypeOK
<1> QED BY <1>1, <1>3, <1>4, <1>5

(* What an account gets back is no debt.                                   *)
LEMMA SharesBack ==
  ASSUME TypeOK, NEW t, NEW a \in Account
  PROVE  Back(a, t) \in Nat /\ \A x \in Asset : Refund(a, x, t) \in Nat
<1>1. Back(a, t) \in Nat
  <2> DEFINE f == [u \in Out(t) |-> content[u].escrow]
             S == {u \in Out(t) : content[u].author = a}
  <2>1. S \subseteq Out(t) /\ IsFiniteSet(S)
    BY DueObjects, FS_Subset
  <2>2. \A u \in S : f[u] \in Nat
    BY DueObjects, ContentFields DEF Money
  <2> HIDE DEF f, S
  <2>3. SumFunctionOnSet(f, S) \in Nat
    BY <2>1, <2>2, SumNat
  <2> QED BY <2>3 DEF Back, f, S
<1>2. ASSUME NEW x \in Asset PROVE Refund(a, x, t) \in Nat
  <2> DEFINE f == [p \in DueSet(t) |-> buying[p].escrow]
             S == {p \in DueSet(t) : p[1] = a /\ buying[p].asset = x}
  <2>1. S \subseteq DueSet(t) /\ IsFiniteSet(S)
    BY DueObjects, FS_Subset
  <2>2. \A p \in S : f[p] \in Nat
    BY DueObjects, BuyingFields DEF Money
  <2> HIDE DEF f, S
  <2>3. SumFunctionOnSet(f, S) \in Nat
    BY <2>1, <2>2, SumNat
  <2> QED BY <2>3 DEF Refund, f, S
<1> QED BY <1>1, <1>2

(* decent_housekeeping keeps the types.                                    *)
LEMMA HousekeepingType ==
  ASSUME Inv, NEW t, Housekeeping(t)
  PROVE  /\ bal' \in Balances
         /\ SameSeeders
         /\ buying' \in [Consumer \X URI -> BuyingObject \cup {None}]
         /\ stats' \in [Seeder -> StatsObject]
         /\ \A p \in Consumer \X URI :
              /\ buying'[p] = None <=> buying[p] = None
              /\ buying[p] # None => buying'[p].answered = buying[p].answered
<1>1. Kept(t)
  BY HousekeepingShape
<1>2. bal' \in Balances
  <2>1. ASSUME NEW a \in Account, NEW x \in Asset
        PROVE  bal[a][x] + Refund(a, x, t) + (IF x = "DCT" THEN Back(a, t) ELSE 0) \in Money
    <3>1. bal[a][x] \in Nat /\ Refund(a, x, t) \in Nat /\ Back(a, t) \in Nat
      BY SharesBack DEF Inv, TypeOK, Money
    <3> QED BY <3>1 DEF Money
  <2> QED BY <1>1, <2>1 DEF Kept, Balances
<1>3. \A u \in URI : content'[u] = IF u \in Out(t) THEN [content[u] EXCEPT !.escrow = 0]
                                   ELSE content[u]
  BY <1>1 DEF Kept
<1>4. ASSUME NEW u \in Out(t)
      PROVE  /\ content[u] # None /\ [content[u] EXCEPT !.escrow = 0] \in ContentObject
             /\ [content[u] EXCEPT !.escrow = 0].parts = content[u].parts
             /\ [content[u] EXCEPT !.escrow = 0].quorum = content[u].quorum
             /\ [content[u] EXCEPT !.escrow = 0] # None
  <2>1. content[u] \in ContentObject /\ 0 \in Money
    BY DueObjects DEF Inv, Money
  <2>2. [content[u] EXCEPT !.escrow = 0] \in ContentObject
    BY <2>1, ContentUpdates
  <2>3. content[u] # None /\ [content[u] EXCEPT !.escrow = 0] # None
    BY <2>1, <2>2, Objects
  <2>4. /\ [content[u] EXCEPT !.escrow = 0].parts = content[u].parts
        /\ [content[u] EXCEPT !.escrow = 0].quorum = content[u].quorum
    BY <2>1 DEF ContentObject
  <2> QED BY <2>2, <2>3, <2>4
<1>5. SameSeeders
  <2>1. content' \in [URI -> ContentObject \cup {None}]
    <3>1. \A u \in URI : content'[u] \in ContentObject \cup {None}
      BY <1>3, <1>4 DEF Inv, TypeOK
    <3>2. content' = [u \in URI |-> content'[u]]
      BY <1>1 DEF Kept
    <3> QED BY <3>1, <3>2
  <2> QED BY <1>3, <1>4, <2>1 DEF SameSeeders
<1>6. \A p \in Consumer \X URI :
         buying'[p] = IF p \in DueSet(t) THEN [buying[p] EXCEPT !.escrow = 0, !.expired = TRUE]
                      ELSE buying[p]
  BY <1>1 DEF Kept
<1>7. ASSUME NEW p \in DueSet(t)
      PROVE  /\ buying[p] # None
             /\ [buying[p] EXCEPT !.escrow = 0, !.expired = TRUE] \in BuyingObject
             /\ [buying[p] EXCEPT !.escrow = 0, !.expired = TRUE] # None
             /\ [buying[p] EXCEPT !.escrow = 0, !.expired = TRUE].answered = buying[p].answered
  <2>1. buying[p] \in BuyingObject
    BY DueObjects DEF Inv
  <2> QED BY <2>1, BuyingUpdates, Objects DEF BuyingObject
<1>8. buying' \in [Consumer \X URI -> BuyingObject \cup {None}]
  <2>1. \A p \in Consumer \X URI : buying'[p] \in BuyingObject \cup {None}
    BY <1>6, <1>7 DEF Inv, TypeOK
  <2>2. buying' = [p \in Consumer \X URI |-> buying'[p]]
    BY <1>1 DEF Kept
  <2> QED BY <2>1, <2>2
<1>9. stats' \in [Seeder -> StatsObject]
  <2> DEFINE Proved(s) == {u \in Out(t) : s \in content[u].parts /\ content[u].proof[s] # None}
  <2>1. stats' = [s \in Seeder |-> [NoStats EXCEPT !.seeded =
                                      (stats[s].seeded - Cardinality(Proved(s))) % Word]]
    BY DEF Housekeeping, Out
  <2>2. ASSUME NEW s \in Seeder PROVE stats[s].seeded - Cardinality(Proved(s)) \in Int
    <3>1. stats[s].seeded \in Int
      BY Constants DEF Inv, TypeOK, StatsObject
    <3>2. IsFiniteSet(Proved(s))
      BY DueObjects, FS_Subset DEF Inv
    <3> QED BY <3>1, <3>2, FS_CardinalityType
  <2> HIDE DEF Proved
  <2> QED BY <2>1, <2>2, StatsUpdates
<1>10. \A p \in Consumer \X URI :
              /\ buying'[p] = None <=> buying[p] = None
              /\ buying[p] # None => buying'[p].answered = buying[p].answered
  BY <1>6, <1>7
<1> QED BY <1>2, <1>5, <1>8, <1>9, <1>10

-----------------------------------------------------------------------------
(* The history of maintenances                                             *)

(* The time of a block that leaves n - 1 slots empty.                      *)
SlotTime(n) == (now \div params.interval + n) * params.interval

(* The history after a maintenance at time t that adopts the interval i.   *)
Longer(t, i) == maints \cup {[time |-> t, interval |-> i]}

(* NextBlock with a maintenance.                                           *)
Maintained(t, pending) ==
  /\ nextMaint <= t /\ Housekeeping(t) /\ lastBudget' = t /\ params' = pending
  /\ maints' = Longer(t, pending.interval)
  /\ nextMaint' = nextMaint + ((t - nextMaint) \div pending.maint + 1) * pending.maint
(* And without.                                                            *)
Passed == UNCHANGED <<bal, content, buying, stats, params, maints, nextMaint, lastBudget>>

(* A block comes with or without a maintenance.                            *)
LEMMA NextBlockShape ==
  ASSUME NEW n, NEW pending, NextBlock(n, pending)
  PROVE  /\ now' = SlotTime(n) /\ SlotTime(n) <= MaxTime /\ UNCHANGED <<pool, seeder>>
         /\ Maintained(SlotTime(n), pending) \/ Passed
BY DEF NextBlock, SlotTime, Longer, Maintained, Passed

(* The next block's time is later, and a multiple of the interval.         *)
LEMMA NextTime ==
  ASSUME Inv, NEW n \in 1..MaxSlots
  PROVE  /\ SlotTime(n) \in Nat /\ SlotTime(n) > now /\ SlotTime(n) % params.interval = 0
         /\ now \in Nat /\ lastBudget \in Nat /\ lastBudget <= now /\ nextMaint \in Nat
         /\ params.interval \in Nat /\ params.interval > 0
<1>1. now \in Nat /\ lastBudget \in Nat /\ lastBudget <= now /\ nextMaint \in Nat
  BY DEF Inv, TypeOK, Time, Clock
<1>2. params.interval \in Nat /\ params.interval > 0
  BY ValidParameters DEF Inv, TypeOK
<1>3. n \in Nat /\ n >= 1
  BY TimeAssumption
<1> QED BY <1>1, <1>2, <1>3, LaterSlot DEF SlotTime

(* What was overlooked stays so; intervals divide each other only if they  *)
(* did before and the new one divides the one in force.                    *)
LEMMA HistoryGrows ==
  ASSUME Inv, NEW t \in Nat, t > lastBudget, NEW i \in Nat \ {0}
  PROVE  /\ \A e : Overlooked(e, maints) => Overlooked(e, Longer(t, i))
         /\ IntervalsDivide(Longer(t, i)) =>
              IntervalsDivide(maints) /\ params.interval % i = 0
         /\ \A x \in Longer(t, i) : x.time = t => x.interval = i
<1> DEFINE last == [time |-> lastBudget, interval |-> params.interval]
           new  == [time |-> t, interval |-> i]
           h    == Longer(t, i)
<1>1. last \in maints /\ maints \subseteq h /\ new \in h
      /\ \A x \in h : x \in maints \/ x = new
  BY DEF Inv, Clock, Longer
<1>2. last.time = lastBudget /\ last.interval = params.interval /\ new.time = t /\ new.interval = i
  OBVIOUS
<1>3. lastBudget \in Nat /\ \A x \in maints : x.time \in Nat /\ x.time <= lastBudget
  BY DEF Inv, TypeOK, Time, Clock
<1> HIDE DEF last, new, h
<1>4. \A e : Overlooked(e, maints) => Overlooked(e, h)
  BY <1>1 DEF Overlooked
<1>5. ASSUME IntervalsDivide(h)
      PROVE  IntervalsDivide(maints) /\ params.interval % i = 0
  <2>1. IntervalsDivide(maints)
    BY <1>1, <1>5 DEF IntervalsDivide
  <2>2. last.time < new.time /\ last \in h
    BY <1>1, <1>2, <1>3
  <2>3. last.interval % new.interval = 0
    BY <1>1, <1>5, <2>2 DEF IntervalsDivide
  <2> QED BY <2>1, <2>3, <1>2
<1>6. ASSUME NEW x \in h, x.time = t PROVE x.interval = i
  BY <1>1, <1>2, <1>3, <1>6
<1> QED BY <1>4, <1>5, <1>6 DEF h

(* What expired since the last maintenance and is not due was overlooked:  *)
(* it expired within an interval of that maintenance.                      *)
LEMMA NotDue ==
  ASSUME Inv, NEW e \in Nat, e > lastBudget, NEW t \in Nat, e <= t, ~Due(e, t)
  PROVE  Overlooked(e, maints) /\ e < lastBudget + params.interval
<1> DEFINE last == [time |-> lastBudget, interval |-> params.interval]
<1>1. last \in maints /\ last.time = lastBudget /\ last.interval = params.interval
  BY DEF Inv, Clock
<1>2. lastBudget \in Nat /\ params.interval \in Nat
  BY ValidParameters DEF Inv, TypeOK, Time
<1>3. e < lastBudget + params.interval
  BY <1>2 DEF Due
<1> HIDE DEF last
<1> QED BY <1>1, <1>3 DEF Overlooked

(* As long as intervals divide each other, what expires at a block's time  *)
(* is due.                                                                 *)
LEMMA NoGap ==
  ASSUME Inv, IntervalsDivide(maints), NEW e \in Nat, e % params.interval = 0,
         e > lastBudget, NEW t \in Nat, e <= t
  PROVE  Due(e, t)
<1> DEFINE last == [time |-> lastBudget, interval |-> params.interval]
<1>1. last \in maints /\ last.time = lastBudget /\ last.interval = params.interval
      /\ \A x \in maints : x.time % x.interval = 0
  BY DEF Inv, Clock
<1>2. lastBudget % params.interval = 0
  <2> HIDE DEF last
  <2> QED BY <1>1
<1>3. lastBudget \in Nat /\ params.interval \in Nat /\ params.interval > 0
  BY ValidParameters DEF Inv, TypeOK, Time
<1>4. e >= lastBudget + params.interval
  <2>1. e \in Int /\ lastBudget \in Int
    BY <1>3
  <2> QED BY <1>2, <1>3, <2>1, ModZero
<1> QED BY <1>3, <1>4 DEF Due

(* An open buying that is not due stays as it should be.                   *)
LEMMA OpenStays ==
  ASSUME Inv, NEW t \in Nat, t > lastBudget, NEW i \in Nat \ {0},
         NEW e \in Nat, OpenOk(e, lastBudget, maints), ~Due(e, t)
  PROVE  OpenOk(e, t, Longer(t, i))
<1> DEFINE h == Longer(t, i)
           last == [time |-> lastBudget, interval |-> params.interval]
<1>1. /\ Overlooked(e, maints) => Overlooked(e, h)
      /\ IntervalsDivide(h) => IntervalsDivide(maints) /\ params.interval % i = 0
      /\ \A x \in h : x.time = t => x.interval = i
  BY HistoryGrows
<1>2. lastBudget \in Nat /\ params.interval \in Nat /\ params.interval > 0
  BY ValidParameters DEF Inv, TypeOK, Time
<1>3. ASSUME e > lastBudget, IntervalsDivide(maints) PROVE e % params.interval = 0
  <2>1. last \in maints /\ last.time = lastBudget /\ last.interval = params.interval
    BY DEF Inv, Clock
  <2> HIDE DEF last
  <2> QED BY <1>3, <2>1 DEF OpenOk
<1> HIDE DEF h, last
<1>4. CASE e <= lastBudget
  BY <1>1, <1>2, <1>4 DEF OpenOk, h
<1>5. CASE e > lastBudget /\ e <= t
  <2>1. Overlooked(e, h)
    BY <1>1, <1>5, NotDue
  <2>2. ~IntervalsDivide(h)
    BY <1>1, <1>3, <1>5, NoGap
  <2> QED BY <1>5, <2>1, <2>2 DEF OpenOk, h
<1>6. CASE e > t
  <2>1. ASSUME IntervalsDivide(h) PROVE e % i = 0
    <3>1. e % params.interval = 0 /\ params.interval % i = 0
      BY <1>1, <1>2, <1>3, <1>6, <2>1
    <3>2. e \in Int /\ i \in Nat /\ i > 0
      OBVIOUS
    <3> QED BY <3>1, <3>2, <1>2, ModTrans
  <2> QED BY <1>1, <1>6, <2>1 DEF OpenOk, h
<1>7. e <= lastBudget \/ (e > lastBudget /\ e <= t) \/ e > t
  BY <1>2
<1> QED BY <1>4, <1>5, <1>6, <1>7 DEF h

(* The clock after a maintenance.                                          *)
LEMMA ClockMaintained ==
  ASSUME Inv, NEW n \in 1..MaxSlots, NEW pending \in Parameters,
         now' = SlotTime(n), Maintained(SlotTime(n), pending)
  PROVE  Clock'
<1> DEFINE t == SlotTime(n)
           i == pending.interval
           new == [time |-> t, interval |-> i]
<1>1. t \in Nat /\ t > now /\ t % params.interval = 0 /\ now \in Nat /\ lastBudget \in Nat
      /\ lastBudget <= now /\ params.interval \in Nat /\ params.interval > 0
  BY NextTime
<1>2. i \in Nat /\ i > 0
  BY ValidParameters
<1>3. now' = t /\ lastBudget' = t /\ params'.interval = i /\ maints' = Longer(t, i)
  BY DEF Maintained
<1> HIDE DEF t, i
<1>4. /\ IntervalsDivide(Longer(t, i)) => IntervalsDivide(maints) /\ params.interval % i = 0
      /\ \A x \in Longer(t, i) : x.time = t => x.interval = i
  BY <1>1, <1>2, HistoryGrows
<1>5. maints \subseteq [time : Nat, interval : Nat \ {0}]
      /\ \A x \in maints : x.time <= lastBudget
  BY DEF Inv, Clock
<1>6. new \in [time : Nat, interval : Nat \ {0}] /\ new.time = t /\ new.interval = i
      /\ new \in Longer(t, i) /\ \A x \in Longer(t, i) : x \in maints \/ x = new
  BY <1>1, <1>2 DEF Longer
<1> HIDE DEF new
<1>7. ASSUME NEW x \in Longer(t, i)
      PROVE  x \in [time : Nat, interval : Nat \ {0}] /\ x.time <= t
  <2>1. CASE x \in maints
    <3>1. x \in [time : Nat, interval : Nat \ {0}] /\ x.time <= lastBudget
      BY <1>5, <2>1
    <3>2. x.time \in Nat
      BY <3>1
    <3> QED BY <3>1, <3>2, <1>1
  <2>2. CASE x = new
    BY <2>2, <1>1, <1>6
  <2> QED BY <1>6, <2>1, <2>2
<1>8. ASSUME IntervalsDivide(Longer(t, i))
      PROVE  t % i = 0 /\ \A x \in Longer(t, i) : x.time % x.interval = 0
  <2>1. IntervalsDivide(maints) /\ params.interval % i = 0
    BY <1>4, <1>8
  <2>2. t % i = 0
    <3>1. t \in Int
      BY <1>1
    <3> QED BY <2>1, <3>1, <1>1, <1>2, ModTrans
  <2>3. \A x \in maints : x.time % x.interval = 0
    BY <2>1 DEF Inv, Clock
  <2> QED BY <2>2, <2>3, <1>6
<1>9. t <= t
  BY <1>1
<1>10. [time |-> t, interval |-> i] \in Longer(t, i)
  BY DEF Longer
<1> QED BY <1>3, <1>4, <1>7, <1>8, <1>9, <1>10 DEF Clock

(* The clock after another block.                                          *)
LEMMA ClockPassed ==
  ASSUME Inv, NEW n \in 1..MaxSlots, now' = SlotTime(n), Passed
  PROVE  Clock'
<1>1. SlotTime(n) \in Nat /\ SlotTime(n) > now /\ SlotTime(n) % params.interval = 0
      /\ now \in Nat /\ lastBudget \in Nat /\ lastBudget <= now
  BY NextTime
<1>2. lastBudget <= SlotTime(n)
  BY <1>1
<1>3. UNCHANGED <<lastBudget, params, maints>>
  BY DEF Passed
<1> QED BY <1>1, <1>2, <1>3 DEF Inv, Clock

(* A block keeps the types and the clock, whose head time grows.           *)
LEMMA NextBlockType ==
  ASSUME Inv, NEW n \in 1..MaxSlots, NEW pending \in Parameters, NextBlock(n, pending)
  PROVE  TypeOK' /\ Clock' /\ now' > now /\ SameSeeders
<1> DEFINE t == SlotTime(n)
<1>1. /\ now' = t /\ t <= MaxTime /\ UNCHANGED <<pool, seeder>>
      /\ Maintained(t, pending) \/ Passed
  BY NextBlockShape
<1>2. now \in Nat /\ lastBudget \in Nat /\ nextMaint \in Nat /\ t \in Nat /\ t > now
  BY NextTime
<1>3. Clock'
  BY <1>1, ClockMaintained, ClockPassed
<1> HIDE DEF t
<1>4. params' \in Parameters
  BY <1>1 DEF Maintained, Passed, Inv, TypeOK
<1>5. now' \in Time /\ lastBudget' \in Time /\ Clock' /\ now' > now /\ params' \in Parameters
  BY <1>1, <1>2, <1>3, <1>4 DEF Inv, TypeOK, Time, Maintained, Passed
<1>6. nextMaint' \in Nat
  <2>1. CASE Maintained(t, pending)
    <3> DEFINE m == pending.maint
               q == (t - nextMaint) \div m
    <3>1. t - nextMaint \in Nat /\ nextMaint' = nextMaint + (q + 1) * m
      BY <2>1, <1>2 DEF Maintained
    <3>2. m \in Nat /\ m > 0
      BY ValidParameters
    <3> HIDE DEF m
    <3>3. q \in Nat
      BY <3>1, <3>2, DivNat
    <3> HIDE DEF q
    <3>4. (q + 1) * m \in Nat
      BY <3>2, <3>3
    <3> QED BY <3>1, <3>4, <1>2
  <2> QED BY <1>1, <1>2, <2>1 DEF Passed
<1>7. CASE Housekeeping(t)
  <2>1. SameSeeders
    BY <1>7, HousekeepingType
  <2>2. /\ content' \in [URI -> ContentObject \cup {None}]
        /\ \A v \in URI : content'[v] # None =>
              /\ content'[v].parts \subseteq {q \in Seeder : seeder'[q] # None}
              /\ content'[v].quorum <= Cardinality(content'[v].parts)
        /\ \A q \in Consumer \X URI : buying[q] # None =>
              /\ content'[q[2]] # None
              /\ buying[q].answered \subseteq content'[q[2]].parts
    BY <2>1, <1>1, SameSeedersType DEF Inv
  <2>3. /\ bal' \in Balances /\ buying' \in [Consumer \X URI -> BuyingObject \cup {None}]
        /\ stats' \in [Seeder -> StatsObject]
        /\ \A p \in Consumer \X URI :
              /\ buying'[p] = None <=> buying[p] = None
              /\ buying[p] # None => buying'[p].answered = buying[p].answered
    BY <1>7, HousekeepingType
  <2> QED BY <1>1, <1>5, <1>6, <2>1, <2>2, <2>3 DEF Inv, TypeOK, Balances
<1>8. CASE Passed
  <2>1. SameSeeders
    BY <1>8 DEF SameSeeders, Inv, TypeOK, Passed
  <2> QED BY <1>1, <1>5, <1>6, <1>8, <2>1 DEF Inv, TypeOK, Passed
<1> QED BY <1>1, <1>7, <1>8 DEF Maintained

-----------------------------------------------------------------------------
(* Contents and buyings stay good                                          *)

(* Only one content changes, into one that satisfies the invariant.        *)
LEMMA OneContent ==
  ASSUME Inv, NEW u \in URI, NEW k1, content' = [content EXCEPT ![u] = k1],
         ContentOk(k1, now, lastBudget, maints), UNCHANGED <<now, lastBudget, maints>>
  PROVE  GoodContents'
<1>1. \A v \in URI : content'[v] = IF v = u THEN k1 ELSE content[v]
  BY DEF Inv, TypeOK
<1> QED BY <1>1 DEF Inv, GoodContents

(* Buyings and the quorums of their contents stay.                         *)
LEMMA BuyingsKept ==
  ASSUME Inv, UNCHANGED <<buying, lastBudget, maints>>,
         \A v \in URI : content[v] # None => content'[v].quorum = content[v].quorum
  PROVE  GoodBuyings'
<1>1. ASSUME NEW p \in Consumer \X URI, buying[p] # None
      PROVE  content'[p[2]].quorum = content[p[2]].quorum
  <2>1. content[p[2]] # None /\ p[2] \in URI
    BY <1>1 DEF Inv, TypeOK
  <2> QED BY <2>1
<1> QED BY <1>1 DEF Inv, GoodBuyings

(* Only one buying changes, into one that satisfies the invariant.         *)
LEMMA OneBuying ==
  ASSUME Inv, NEW c \in Consumer, NEW u \in URI, NEW b1,
         buying' = [buying EXCEPT ![<<c, u>>] = b1],
         BuyingOk(b1, content[u].quorum, lastBudget, maints), content[u] # None,
         UNCHANGED <<lastBudget, maints>>,
         \A v \in URI : content[v] # None => content'[v].quorum = content[v].quorum
  PROVE  GoodBuyings'
<1>1. \A p \in Consumer \X URI : buying'[p] = IF p = <<c, u>> THEN b1 ELSE buying[p]
  BY DEF Inv, TypeOK
<1>2. ASSUME NEW p \in Consumer \X URI, buying[p] # None
      PROVE  content'[p[2]].quorum = content[p[2]].quorum
  <2>1. content[p[2]] # None /\ p[2] \in URI
    BY <1>2 DEF Inv, TypeOK
  <2> QED BY <2>1
<1>3. ASSUME NEW p \in Consumer \X URI, buying'[p] # None
      PROVE  BuyingOk(buying'[p], content'[p[2]].quorum, lastBudget', maints')
  <2>1. CASE p = <<c, u>>
    <3>1. p[2] = u /\ content'[u].quorum = content[u].quorum
      BY <2>1
    <3>2. buying'[p] = b1
      BY <1>1, <2>1
    <3> QED BY <3>1, <3>2
  <2>2. CASE p # <<c, u>>
    <3>1. buying'[p] = buying[p]
      BY <1>1, <2>2
    <3> QED BY <3>1, <1>2, <1>3 DEF Inv, GoodBuyings
  <2> QED BY <2>1, <2>2
<1> QED BY <1>3 DEF GoodBuyings

(* ready_to_publish touches neither contents nor buyings.                  *)
LEMMA ReadyToPublishGood ==
  ASSUME Inv, NEW s, NEW price, ReadyToPublish(s, price)
  PROVE  GoodContents' /\ GoodBuyings'
BY DEF ReadyToPublish, Inv, GoodContents, GoodBuyings

(* New content expires after the head time.                                *)
LEMMA ContentSubmitGood ==
  ASSUME Inv, NEW u \in URI, NEW a \in Author, NEW co \in Splits, NEW price \in Prices,
         NEW parts \in SUBSET Seeder, NEW quorum \in 0..Cardinality(Seeder), NEW fee \in Fees,
         NEW d \in Durations, NEW cd \in BOOLEAN,
         ContentSubmit(u, a, co, price, parts, quorum, fee, now + d, cd)
  PROVE  GoodContents' /\ GoodBuyings'
<1> DEFINE exp == now + d
           k == [author |-> a, co |-> co, price |-> price, exp |-> exp, escrow |-> fee,
                 parts |-> parts, quorum |-> quorum, cd |-> cd, blocked |-> FALSE,
                 proof |-> [s \in Seeder |-> None],
                 sprice |-> [s \in Seeder |-> IF s \in parts THEN seeder[s].price ELSE None],
                 bought |-> 0, ratings |-> 0]
<1>1. /\ Acceptable(a, co, parts, quorum, fee, exp)
      /\ content[u] = None
      /\ content' = [content EXCEPT ![u] = k]
      /\ UNCHANGED <<now, lastBudget, maints, buying>>
  BY DEF ContentSubmit
<1>2. now \in Nat /\ lastBudget \in Nat /\ d \in Int /\ lastBudget <= now
  BY AmountAssumption DEF Inv, TypeOK, Time, Clock
<1>3. exp > lastBudget /\ exp \in Int
  <2>1. exp \in Int
    BY <1>2
  <2> HIDE DEF exp
  <2>2. exp >= now + Day
    BY <1>1, <1>2, <2>1, DaysAhead DEF Acceptable, Days
  <2> QED BY <2>1, <2>2, <1>2, Constants
<1> HIDE DEF exp
<1>4. ContentOk(k, now, lastBudget, maints)
  BY <1>1, <1>2, <1>3 DEF ContentOk, Acceptable
<1> HIDE DEF k
<1>5. GoodContents'
  BY <1>1, <1>4, OneContent
<1>6. \A v \in URI : content[v] # None => content'[v].quorum = content[v].quorum
  BY <1>1 DEF Inv, TypeOK
<1> QED BY <1>1, <1>5, <1>6, BuyingsKept

(* Resubmitted content expires after the head time, so its escrow may      *)
(* stay.                                                                   *)
LEMMA ContentResubmitGood ==
  ASSUME Inv, NEW u \in URI, NEW co \in Splits, NEW price \in Prices, NEW d \in Durations,
         ContentResubmit(u, co, price, now + d)
  PROVE  GoodContents' /\ GoodBuyings'
<1> DEFINE exp == now + d
           k == content[u]
           k1 == [k EXCEPT !.co = co, !.price = price, !.exp = exp]
<1>1. k # None /\ content' = [content EXCEPT ![u] = k1] /\ SplitOk(k.author, co)
      /\ UNCHANGED <<now, lastBudget, maints, buying>>
  BY DEF ContentResubmit
<1>2. exp \in Nat /\ exp > now /\ lastBudget <= now /\ lastBudget \in Nat /\ now \in Nat
  BY ContentResubmitType DEF Inv, TypeOK, Time, Clock
<1> HIDE DEF exp
<1>3. k \in ContentObject /\ ContentOk(k, now, lastBudget, maints)
  BY <1>1 DEF Inv, TypeOK, GoodContents
<1>4. /\ k1.author = k.author /\ k1.co = co /\ k1.exp = exp /\ k1.parts = k.parts
      /\ k1.quorum = k.quorum /\ k1.proof = k.proof
  BY <1>3 DEF ContentObject
<1> HIDE DEF k1
<1>5. ContentOk(k1, now, lastBudget, maints)
  BY <1>1, <1>2, <1>3, <1>4 DEF ContentOk
<1>6. \A v \in URI : content[v] # None => content'[v].quorum = content[v].quorum
  BY <1>1, <1>4 DEF Inv, TypeOK
<1> QED BY <1>1, <1>5, <1>6, OneContent, BuyingsKept

(* Content is cancelled before it expires, and then expires a day from a   *)
(* block's time or as before.                                              *)
LEMMA ContentCancelGood ==
  ASSUME Inv, NEW u \in URI, ContentCancel(u)
  PROVE  GoodContents' /\ GoodBuyings'
<1> DEFINE k == content[u]
           exp == IF k.exp > now + Day THEN now + Day ELSE k.exp
           k1 == [k EXCEPT !.blocked = TRUE, !.exp = exp]
<1>1. k # None /\ content' = [content EXCEPT ![u] = k1] /\ k.exp > now
      /\ UNCHANGED <<now, lastBudget, maints, buying>>
  BY DEF ContentCancel
<1>2. k \in ContentObject /\ ContentOk(k, now, lastBudget, maints)
  BY <1>1 DEF Inv, TypeOK, GoodContents
<1>3. lastBudget <= now /\ lastBudget \in Nat /\ now \in Nat /\ k.exp \in Nat
  BY <1>2, ContentFields DEF Inv, TypeOK, Time, Clock
<1>4. exp \in Nat /\ exp > lastBudget
  BY <1>1, <1>3, Constants
<1> HIDE DEF exp
<1>5. /\ k1.author = k.author /\ k1.co = k.co /\ k1.exp = exp /\ k1.parts = k.parts
      /\ k1.quorum = k.quorum /\ k1.proof = k.proof
  BY <1>2 DEF ContentObject
<1> HIDE DEF k1
<1>6. ContentOk(k1, now, lastBudget, maints)
  BY <1>2, <1>3, <1>4, <1>5 DEF ContentOk
<1>7. \A v \in URI : content[v] # None => content'[v].quorum = content[v].quorum
  BY <1>1, <1>5 DEF Inv, TypeOK
<1> QED BY <1>1, <1>6, <1>7, OneContent, BuyingsKept

(* Counting a purchase or a rating leaves a content good.                  *)
LEMMA CountersOk ==
  ASSUME NEW k \in ContentObject, NEW n, NEW m, NEW h, ContentOk(k, n, m, h)
  PROVE  \A i : ContentOk([k EXCEPT !.bought = i], n, m, h) /\ ContentOk([k EXCEPT !.ratings = i], n, m, h)
<1> SUFFICES ASSUME NEW i
             PROVE  ContentOk([k EXCEPT !.bought = i], n, m, h) /\ ContentOk([k EXCEPT !.ratings = i], n, m, h)
  OBVIOUS
<1> DEFINE k1 == [k EXCEPT !.bought = i]
           k2 == [k EXCEPT !.ratings = i]
<1>1. /\ k1.author = k.author /\ k1.co = k.co /\ k1.exp = k.exp /\ k1.parts = k.parts
      /\ k1.quorum = k.quorum /\ k1.proof = k.proof /\ k1.escrow = k.escrow
  BY DEF ContentObject
<1>2. /\ k2.author = k.author /\ k2.co = k.co /\ k2.exp = k.exp /\ k2.parts = k.parts
      /\ k2.quorum = k.quorum /\ k2.proof = k.proof /\ k2.escrow = k.escrow
  BY DEF ContentObject
<1> HIDE DEF k1, k2
<1>3. ContentOk(k1, n, m, h)
  BY <1>1 DEF ContentOk
<1>4. ContentOk(k2, n, m, h)
  BY <1>2 DEF ContentOk
<1> QED BY <1>3, <1>4 DEF k1, k2

(* A rating touches no escrow.                                             *)
LEMMA LeaveRatingGood ==
  ASSUME Inv, NEW c \in Consumer, NEW u \in URI, LeaveRating(c, u)
  PROVE  GoodContents' /\ GoodBuyings'
<1> DEFINE k == content[u]
           b == buying[<<c, u>>]
           k1 == [k EXCEPT !.ratings = @ + 1]
           b1 == [b EXCEPT !.rated = TRUE]
<1>1. /\ b # None /\ content' = [content EXCEPT ![u] = k1]
      /\ buying' = [buying EXCEPT ![<<c, u>>] = b1]
      /\ UNCHANGED <<now, lastBudget, maints>>
  BY DEF LeaveRating
<1>2. k # None /\ k \in ContentObject /\ b \in BuyingObject /\ <<c, u>> \in Consumer \X URI
  BY <1>1, BuyingObjects
<1>3. ContentOk(k1, now, lastBudget, maints)
  BY <1>2, CountersOk DEF Inv, GoodContents
<1>4. BuyingOk(b, k.quorum, lastBudget, maints)
  <2>1. <<c, u>>[2] = u
    OBVIOUS
  <2> QED BY <1>1, <1>2, <2>1 DEF Inv, GoodBuyings
<1>5. /\ b1.delivered = b.delivered /\ b1.expired = b.expired /\ b1.escrow = b.escrow
      /\ b1.paid = b.paid /\ b1.answered = b.answered /\ b1.exp = b.exp
  BY <1>2 DEF BuyingObject
<1>6. k1.quorum = k.quorum
  BY <1>2 DEF ContentObject
<1> HIDE DEF b1, k1
<1>7. BuyingOk(b1, k.quorum, lastBudget, maints)
  BY <1>4, <1>5 DEF BuyingOk
<1>8. \A v \in URI : content[v] # None => content'[v].quorum = content[v].quorum
  BY <1>1, <1>6 DEF Inv, TypeOK
<1>9. GoodContents'
  BY <1>1, <1>3, OneContent
<1>10. GoodBuyings'
  BY <1>1, <1>2, <1>7, <1>8, OneBuying
<1> QED BY <1>9, <1>10

(* A buying starts with an escrow that expires a day after a block's time. *)
LEMMA RequestToBuyGood ==
  ASSUME Inv, NEW c \in Consumer, NEW u \in URI, NEW x \in Payments, RequestToBuy(c, u, x)
  PROVE  GoodContents' /\ GoodBuyings'
<1> DEFINE k == content[u]
           b1 == Bought(c, u, x)
<1>1. Request(c, u, x)
  BY RequestToBuyShape
<1>2. k \in ContentObject /\ k # None /\ ContentOk(k, now, lastBudget, maints)
  BY <1>1 DEF Request, Inv, GoodContents
<1>3. GoodContents'
  <2>1. CASE k.parts = {}
    <3>1. content' = [content EXCEPT ![u] = [k EXCEPT !.bought = @ + 1]]
          /\ UNCHANGED <<now, lastBudget, maints>>
      BY <1>1, <2>1 DEF Request
    <3>2. ContentOk([k EXCEPT !.bought = @ + 1], now, lastBudget, maints)
      BY <1>2, CountersOk
    <3> QED BY <3>1, <3>2, OneContent
  <2>2. CASE k.parts # {}
    <3>1. UNCHANGED <<content, now, lastBudget, maints>>
      BY <1>1, <2>2 DEF Request
    <3> QED BY <3>1 DEF Inv, GoodContents
  <2> QED BY <2>1, <2>2
<1>4. BuyingOk(b1, k.quorum, lastBudget, maints)
  <2>1. /\ b1.delivered = (k.parts = {}) /\ b1.expired = FALSE /\ b1.answered = {}
        /\ b1.escrow = (IF k.parts = {} THEN 0 ELSE b1.paid) /\ b1.exp = now + Day
    BY DEF Bought
  <2>2. now \in Nat /\ lastBudget \in Nat /\ lastBudget <= now
    BY DEF Inv, TypeOK, Time, Clock
  <2>3. ASSUME IntervalsDivide(maints), NEW y \in maints, y.time = lastBudget
        PROVE  (now + Day) % y.interval = 0
    <3>1. y.interval = params.interval /\ now % params.interval = 0
      BY <2>3 DEF Inv, Clock
    <3>2. Day % y.interval = 0
      BY <2>3 DEF IntervalsDivide
    <3>3. params.interval \in Nat /\ params.interval > 0
      BY ValidParameters DEF Inv, TypeOK
    <3> QED BY <3>1, <3>2, <3>3, <2>2, Constants, ModZero
  <2>4. OpenOk(now + Day, lastBudget, maints)
    BY <2>2, <2>3, Constants DEF OpenOk
  <2>5. Cardinality({}) = 0
    BY FS_EmptySet
  <2>6. k.parts = {} => k.quorum = 0
    BY <1>2 DEF ContentOk
  <2>7. k.parts # {} => k.quorum >= 2 /\ k.quorum \in Nat
    BY <1>2, ContentFields DEF ContentOk
  <2>8. (k.parts = {}) => (Cardinality(b1.answered) >= k.quorum)
    BY <2>1, <2>5, <2>6
  <2>9. (k.parts # {}) => ~(Cardinality(b1.answered) >= k.quorum)
    BY <2>1, <2>5, <2>7
  <2> HIDE DEF b1
  <2> QED BY <2>1, <2>4, <2>8, <2>9 DEF BuyingOk
<1>5. buying' = [buying EXCEPT ![<<c, u>>] = b1] /\ UNCHANGED <<lastBudget, maints>>
  BY <1>1 DEF Request
<1>6. \A v \in URI : content[v] # None => content'[v].quorum = content[v].quorum
  BY RequestToBuyType DEF SameSeeders
<1> HIDE DEF b1
<1>7. GoodBuyings'
  BY <1>2, <1>4, <1>5, <1>6, OneBuying
<1> QED BY <1>3, <1>7

(* A delivery settles a buying that is open, and empties its escrow.       *)
LEMMA DeliverKeysGood ==
  ASSUME Inv, NEW s \in Seeder, NEW c \in Consumer, NEW u \in URI, DeliverKeys(s, c, u)
  PROVE  GoodContents' /\ GoodBuyings'
<1> DEFINE k == content[u]
           b == buying[<<c, u>>]
           b1 == Answered(s, c, u)
           b2 == [b1 EXCEPT !.escrow = 0, !.delivered = TRUE]
           b3 == [b1 EXCEPT !.escrow = 0, !.expired = TRUE]
<1>1. /\ b # None /\ UNCHANGED <<now, lastBudget, maints>>
      /\ Noted(s, c, u) \/ Delivered(s, c, u) \/ GivenBack(s, c, u)
  BY DeliverKeysShape
<1>2. /\ k # None /\ k \in ContentObject /\ b \in BuyingObject /\ <<c, u>> \in Consumer \X URI
      /\ IsFiniteSet(b.answered)
  BY <1>1, BuyingObjects
<1>3. ContentOk(k, now, lastBudget, maints)
  BY <1>2 DEF Inv, GoodContents
<1>4. GoodContents'
  <2>1. CASE UNCHANGED content
    BY <1>1, <2>1 DEF Inv, GoodContents
  <2>2. CASE content' = [content EXCEPT ![u] = Counted(u)]
    <3>1. ContentOk(Counted(u), now, lastBudget, maints)
      BY <1>2, <1>3, CountersOk DEF Counted
    <3> QED BY <2>2, <3>1, <1>1, OneContent
  <2> QED BY <1>1, <2>1, <2>2 DEF Noted, Delivered, GivenBack
<1>5. BuyingOk(b, k.quorum, lastBudget, maints)
  <2>1. <<c, u>>[2] = u
    OBVIOUS
  <2> QED BY <1>1, <1>2, <2>1 DEF Inv, GoodBuyings
<1>6. /\ b1.answered = b.answered \cup {s} /\ b1.escrow = b.escrow /\ b1.paid = b.paid
      /\ b1.exp = b.exp /\ b1.delivered = b.delivered /\ b1.expired = b.expired
      /\ b1 \in BuyingObject
  BY <1>2, BuyingUpdates DEF Answered, BuyingObject
<1>7. /\ b2.answered = b1.answered /\ b2.escrow = 0 /\ b2.paid = b.paid /\ b2.exp = b.exp
      /\ b2.delivered = TRUE /\ b2.expired = b.expired
      /\ b3.answered = b1.answered /\ b3.escrow = 0 /\ b3.paid = b.paid /\ b3.exp = b.exp
      /\ b3.delivered = b.delivered /\ b3.expired = TRUE
  <2> HIDE DEF b1
  <2> QED BY <1>6 DEF BuyingObject
<1>8. /\ Cardinality(b.answered) \in Nat /\ Cardinality(b1.answered) \in Nat
      /\ Cardinality(b1.answered) >= Cardinality(b.answered) /\ k.quorum \in Nat
      /\ Full(s, c, u) <=> Cardinality(b1.answered) >= k.quorum
  <2>1. Cardinality(b.answered \cup {s}) = IF s \in b.answered THEN Cardinality(b.answered)
                                           ELSE Cardinality(b.answered) + 1
    BY <1>2, FS_AddElement
  <2>2. Cardinality(b.answered) \in Nat
    BY <1>2, FS_CardinalityType
  <2>3. k.quorum \in Nat
    BY <1>2, ContentFields
  <2> HIDE DEF b1
  <2> QED BY <2>1, <2>2, <2>3, <1>6 DEF Full
<1>9. b.delivered \in BOOLEAN /\ b.expired \in BOOLEAN
  BY <1>2, BuyingFields
<1> HIDE DEF b1, b2, b3
<1>10. PICK x : BuyingOk(x, k.quorum, lastBudget, maints) /\ buying' = [buying EXCEPT ![<<c, u>>] = x]
  <2>1. CASE Noted(s, c, u)
    <3>1. BuyingOk(b1, k.quorum, lastBudget, maints)
      BY <2>1, <1>5, <1>6, <1>8 DEF Noted, BuyingOk, Closed
    <3> QED BY <2>1, <3>1 DEF Noted, b1
  <2>2. CASE Delivered(s, c, u)
    <3>1. BuyingOk(b2, k.quorum, lastBudget, maints)
      BY <2>2, <1>5, <1>7, <1>8 DEF Delivered, BuyingOk, Closed
    <3> QED BY <2>2, <3>1 DEF Delivered, b2, b1
  <2>3. CASE GivenBack(s, c, u)
    <3>1. BuyingOk(b3, k.quorum, lastBudget, maints)
      BY <2>3, <1>5, <1>7, <1>8 DEF GivenBack, BuyingOk, Closed
    <3> QED BY <2>3, <3>1 DEF GivenBack, b3, b1
  <2> QED BY <1>1, <2>1, <2>2, <2>3
<1>11. \A v \in URI : content[v] # None => content'[v].quorum = content[v].quorum
  BY DeliverKeysType DEF SameSeeders
<1>12. GoodBuyings'
  BY <1>1, <1>2, <1>10, <1>11, OneBuying
<1> QED BY <1>4, <1>12

(* A proof pays from the escrow of content that has not expired.           *)
LEMMA ProofOfCustodyGood ==
  ASSUME Inv, NEW s \in Seeder, NEW u \in URI, ProofOfCustody(s, u)
  PROVE  GoodContents' /\ GoodBuyings'
<1> DEFINE k == content[u]
           f == [k.proof EXCEPT ![s] = now]
<1>1. /\ k # None /\ k.exp > now /\ UNCHANGED <<now, lastBudget, maints, buying>>
  BY DEF ProofOfCustody
<1>2. /\ k \in ContentObject /\ ContentOk(k, now, lastBudget, maints)
      /\ now \in Nat /\ lastBudget \in Nat /\ lastBudget <= now
  BY <1>1 DEF Inv, TypeOK, Time, Clock, GoodContents
<1>3. \A q \in Seeder : f[q] # None => f[q] <= now
  <2>1. k.proof \in [Seeder -> Time \cup {None}]
    BY <1>2, ContentFields
  <2>2. f[s] = now /\ \A q \in Seeder \ {s} : f[q] = k.proof[q]
    BY <2>1
  <2>3. \A q \in Seeder : k.proof[q] # None => k.proof[q] <= now
    BY <1>2 DEF ContentOk
  <2> HIDE DEF f
  <2> QED BY <2>2, <2>3, <1>2
<1>4. PICK k1 : /\ content' = [content EXCEPT ![u] = k1]
                /\ k1.author = k.author /\ k1.co = k.co /\ k1.exp = k.exp /\ k1.parts = k.parts
                /\ k1.quorum = k.quorum /\ k1.proof = f
  <2>1. CASE k.proof[s] = None
    <3> DEFINE k1 == [k EXCEPT !.proof = f]
    <3>1. content' = [content EXCEPT ![u] = k1]
      BY <2>1 DEF ProofOfCustody
    <3>2. /\ k1.author = k.author /\ k1.co = k.co /\ k1.exp = k.exp /\ k1.parts = k.parts
          /\ k1.quorum = k.quorum /\ k1.proof = f
      <4> HIDE DEF f
      <4> QED BY <1>2 DEF ContentObject
    <3> HIDE DEF k1
    <3> QED BY <3>1, <3>2
  <2>2. CASE k.proof[s] # None
    <3> DEFINE k1 == [k EXCEPT !.proof = f, !.escrow = k.escrow - Reward(k, s)]
    <3>1. content' = [content EXCEPT ![u] = k1]
      BY <2>2 DEF ProofOfCustody
    <3>2. /\ k1.author = k.author /\ k1.co = k.co /\ k1.exp = k.exp /\ k1.parts = k.parts
          /\ k1.quorum = k.quorum /\ k1.proof = f
      <4> HIDE DEF f
      <4> QED BY <1>2 DEF ContentObject
    <3> HIDE DEF k1
    <3> QED BY <3>1, <3>2
  <2> QED BY <2>1, <2>2
<1> HIDE DEF f
<1>5. ContentOk(k1, now, lastBudget, maints)
  <2>1. k.exp \in Nat /\ k.exp > lastBudget
    BY <1>1, <1>2, ContentFields
  <2> QED BY <1>2, <1>3, <1>4, <2>1 DEF ContentOk
<1>6. \A v \in URI : content[v] # None => content'[v].quorum = content[v].quorum
  BY ProofOfCustodyType DEF SameSeeders
<1> QED BY <1>1, <1>4, <1>5, <1>6, OneContent, BuyingsKept

(* A block leaves no escrow behind its maintenance, but what it overlooks. *)
LEMMA NextBlockGood ==
  ASSUME Inv, NEW n \in 1..MaxSlots, NEW pending \in Parameters, NextBlock(n, pending)
  PROVE  GoodContents' /\ GoodBuyings'
<1> DEFINE t == SlotTime(n)
           i == pending.interval
           h == Longer(t, i)
<1>1. now' = t /\ (Maintained(t, pending) \/ Passed)
  BY NextBlockShape
<1>2. /\ SameSeeders /\ t > now /\ now \in Nat /\ t \in Nat /\ lastBudget \in Nat
      /\ t > lastBudget /\ i \in Nat \ {0}
  <2>1. SameSeeders
    BY NextBlockType
  <2>2. t > now /\ now \in Nat /\ t \in Nat /\ lastBudget \in Nat /\ lastBudget <= now
    BY NextTime
  <2>3. t > lastBudget
    <3> HIDE DEF t
    <3> QED BY <2>2
  <2> QED BY <2>1, <2>2, <2>3, ValidParameters
<1>0. \A e : Overlooked(e, maints) => Overlooked(e, h)
  BY <1>2, HistoryGrows
<1> HIDE DEF t, i, h
<1>3. \A v \in URI : content[v] # None => content'[v].quorum = content[v].quorum
  BY <1>2 DEF SameSeeders
<1>4. \A u \in URI : content[u] # None =>
        /\ content[u] \in ContentObject /\ ContentOk(content[u], now, lastBudget, maints)
        /\ \A s \in Seeder : content[u].proof[s] # None => content[u].proof[s] <= t
  <2> SUFFICES ASSUME NEW u \in URI, content[u] # None
               PROVE  /\ content[u] \in ContentObject /\ ContentOk(content[u], now, lastBudget, maints)
                      /\ \A s \in Seeder : content[u].proof[s] # None => content[u].proof[s] <= t
    OBVIOUS
  <2>1. content[u] \in ContentObject /\ ContentOk(content[u], now, lastBudget, maints)
    BY DEF Inv, TypeOK, GoodContents
  <2>2. \A s \in Seeder : content[u].proof[s] # None => content[u].proof[s] \in Nat
    BY <2>1, ContentFields DEF Time
  <2> QED BY <2>1, <2>2, <1>2 DEF ContentOk
<1>5. CASE Passed
  <2>1. UNCHANGED <<content, buying, lastBudget, maints>>
    BY <1>5 DEF Passed
  <2>2. GoodContents'
    BY <1>1, <1>4, <2>1 DEF GoodContents, ContentOk
  <2> QED BY <1>3, <2>1, <2>2, BuyingsKept
<1>6. CASE Maintained(t, pending)
  <2>0. Housekeeping(t) /\ lastBudget' = t /\ maints' = h
    BY <1>6 DEF Maintained, h, i
  <2>1. Kept(t)
    BY <2>0, HousekeepingShape
  <2>2. ASSUME NEW u \in URI, content'[u] # None
        PROVE  ContentOk(content'[u], t, t, h)
    <3> DEFINE k == content[u]
    <3>1. k # None /\ k \in ContentObject /\ ContentOk(k, now, lastBudget, maints)
          /\ \A s \in Seeder : k.proof[s] # None => k.proof[s] <= t
      BY <1>2, <1>4, <2>2 DEF SameSeeders
    <3>2. CASE u \in Out(t)
      <4> DEFINE k1 == [k EXCEPT !.escrow = 0]
      <4>1. content'[u] = k1
        BY <2>1, <3>2 DEF Kept
      <4>2. /\ k1.author = k.author /\ k1.co = k.co /\ k1.parts = k.parts
            /\ k1.quorum = k.quorum /\ k1.proof = k.proof /\ k1.escrow = 0
        BY <3>1 DEF ContentObject
      <4> HIDE DEF k1
      <4> QED BY <3>1, <4>1, <4>2 DEF ContentOk
    <3>3. CASE u \notin Out(t)
      <4>1. content'[u] = k
        BY <2>1, <3>3 DEF Kept
      <4>2. ~Due(k.exp, t)
        BY <3>1, <3>3 DEF Out
      <4>3. k.exp <= t /\ k.escrow # 0 => Overlooked(k.exp, h)
        <5>1. k.exp \in Nat
          BY <3>1, ContentFields
        <5>2. k.exp > lastBudget /\ k.exp <= t => Overlooked(k.exp, maints)
          BY <4>2, <5>1, <1>2, NotDue
        <5>3. k.exp <= lastBudget /\ k.escrow # 0 => Overlooked(k.exp, maints)
          BY <3>1 DEF ContentOk
        <5> QED BY <1>0, <1>2, <5>1, <5>2, <5>3
      <4> QED BY <3>1, <4>1, <4>3 DEF ContentOk
    <3> QED BY <3>2, <3>3
  <2>3. ASSUME NEW p \in Consumer \X URI, buying'[p] # None
        PROVE  BuyingOk(buying'[p], content'[p[2]].quorum, t, h)
    <3> DEFINE b == buying[p]
               q == content[p[2]].quorum
    <3>1. b # None
      BY <2>0, <2>3, HousekeepingType
    <3>2. b \in BuyingObject /\ content[p[2]] # None /\ p[2] \in URI
      BY <3>1 DEF Inv, TypeOK
    <3>3. BuyingOk(b, q, lastBudget, maints) /\ content'[p[2]].quorum = q
      BY <1>3, <3>1, <3>2 DEF Inv, GoodBuyings
    <3> HIDE DEF q
    <3>4. CASE p \in DueSet(t)
      <4> DEFINE b1 == [b EXCEPT !.escrow = 0, !.expired = TRUE]
      <4>1. buying'[p] = b1 /\ ~b.delivered
        BY <2>1, <3>4, DueObjects DEF Kept, Inv
      <4>2. /\ b1.answered = b.answered /\ b1.escrow = 0 /\ b1.exp = b.exp
            /\ b1.delivered = b.delivered /\ b1.expired = TRUE
        BY <3>2 DEF BuyingObject
      <4> HIDE DEF b1
      <4> QED BY <3>3, <4>1, <4>2 DEF BuyingOk
    <3>5. CASE p \notin DueSet(t)
      <4>1. buying'[p] = b
        BY <2>1, <3>5 DEF Kept
      <4>2. p = <<p[1], p[2]>>
        OBVIOUS
      <4>3. ~(Due(b.exp, t) /\ ~b.delivered)
        BY <3>1, <3>5, <4>2 DEF DueSet, Refunded
      <4>4. ~b.delivered /\ ~b.expired => OpenOk(b.exp, t, h)
        <5>1. b.exp \in Nat /\ (~b.delivered /\ ~b.expired => OpenOk(b.exp, lastBudget, maints))
          BY <3>2, <3>3, BuyingFields DEF BuyingOk
        <5> QED BY <5>1, <4>3, <1>2, OpenStays DEF h
      <4> QED BY <3>3, <4>1, <4>4 DEF BuyingOk
    <3> QED BY <3>4, <3>5
  <2> QED BY <1>1, <2>0, <2>2, <2>3 DEF GoodContents, GoodBuyings
<1> QED BY <1>1, <1>5, <1>6

-----------------------------------------------------------------------------
(* The invariant                                                           *)

(* The invariant holds at genesis.                                         *)
LEMMA InitInv ==
  Init => Inv
<1> SUFFICES ASSUME Init PROVE Inv
  OBVIOUS
<1>1. now = 0 /\ lastBudget = 0 /\ nextMaint = params.maint /\ params \in Parameters
      /\ maints = {[time |-> 0, interval |-> params.interval]}
      /\ pool = [core |-> Pool, asset |-> Pool] /\ content = [u \in URI |-> None]
      /\ buying = [p \in Consumer \X URI |-> None] /\ seeder = [s \in Seeder |-> None]
      /\ stats = [s \in Seeder |-> NoStats]
  BY DEF Init
<1>2. bal \in [Account -> [Asset -> Money]]
  BY Constants DEF Init, Money
<1>3. TypeOK
  <2>1. 0 \in Time /\ params.maint \in Nat /\ pool \in [core : Money, asset : Money]
    BY <1>1, Constants, ValidParameters DEF Time, Money
  <2>2. stats \in [Seeder -> StatsObject]
    BY <1>1, StatsUpdates
  <2> QED BY <1>1, <1>2, <2>1, <2>2 DEF TypeOK
<1>4. Clock
  <2> DEFINE i == params.interval
  <2>1. i \in Nat /\ i > 0
    BY <1>1, ValidParameters
  <2>2. 0 % i = 0
    <3> HIDE DEF i
    <3> QED BY <2>1
  <2>3. \A x \in maints : x \in [time : Nat, interval : Nat \ {0}] /\ x.time = 0 /\ x.interval = i
    BY <1>1, <2>1
  <2>4. [time |-> lastBudget, interval |-> i] \in maints
    BY <1>1
  <2> QED BY <1>1, <2>2, <2>3, <2>4 DEF Clock
<1>5. GoodContents /\ GoodBuyings
  BY <1>1 DEF GoodContents, GoodBuyings
<1> QED BY <1>3, <1>4, <1>5 DEF Inv

(* Every step keeps the invariant.                                         *)
LEMMA StepInv ==
  Inv /\ [Next]_vars => Inv'
<1> SUFFICES ASSUME Inv, [Next]_vars PROVE Inv'
  OBVIOUS
<1> DEFINE Still == UNCHANGED <<now, lastBudget, params, maints>>
<1>0. Still => Clock'
  BY DEF Inv, Clock
<1>1. ASSUME NEW s \in Seeder, NEW price \in SeederPrices, ReadyToPublish(s, price) PROVE Inv'
  <2>1. Still
    BY <1>1 DEF ReadyToPublish
  <2> QED BY <1>0, <1>1, <2>1, ReadyToPublishType, ReadyToPublishGood DEF Inv
<1>2. ASSUME NEW u \in URI, NEW a \in Author, NEW co \in Splits, NEW price \in Prices,
             NEW parts \in SUBSET Seeder, NEW quorum \in 0..Cardinality(Seeder), NEW fee \in Fees,
             NEW d \in Durations, NEW cd \in BOOLEAN,
             ContentSubmit(u, a, co, price, parts, quorum, fee, now + d, cd)
      PROVE  Inv'
  <2>1. Still
    BY <1>2 DEF ContentSubmit
  <2>2. TypeOK'
    BY <1>2, ContentSubmitType
  <2>3. GoodContents' /\ GoodBuyings'
    BY <1>2, ContentSubmitGood
  <2> QED BY <1>0, <2>1, <2>2, <2>3 DEF Inv
<1>3. ASSUME NEW u \in URI, NEW co \in Splits, NEW price \in Prices, NEW d \in Durations,
             ContentResubmit(u, co, price, now + d)
      PROVE  Inv'
  <2>1. Still
    BY <1>3 DEF ContentResubmit
  <2> QED BY <1>0, <1>3, <2>1, ContentResubmitType, ContentResubmitGood DEF Inv
<1>4. ASSUME NEW u \in URI, ContentCancel(u) PROVE Inv'
  <2>1. Still
    BY <1>4 DEF ContentCancel
  <2> QED BY <1>0, <1>4, <2>1, ContentCancelType, ContentCancelGood DEF Inv
<1>5. ASSUME NEW c \in Consumer, NEW u \in URI, NEW x \in Payments, RequestToBuy(c, u, x) PROVE Inv'
  <2>1. Still
    BY <1>5 DEF RequestToBuy
  <2> QED BY <1>0, <1>5, <2>1, RequestToBuyType, RequestToBuyGood DEF Inv
<1>6. ASSUME NEW s \in Seeder, NEW c \in Consumer, NEW u \in URI, DeliverKeys(s, c, u) PROVE Inv'
  <2>1. Still
    BY <1>6 DEF DeliverKeys
  <2> QED BY <1>0, <1>6, <2>1, DeliverKeysType, DeliverKeysGood DEF Inv
<1>7. ASSUME NEW c \in Consumer, NEW u \in URI, LeaveRating(c, u) PROVE Inv'
  <2>1. Still
    BY <1>7 DEF LeaveRating
  <2> QED BY <1>0, <1>7, <2>1, LeaveRatingType, LeaveRatingGood DEF Inv
<1>8. ASSUME NEW s \in Seeder, NEW u \in URI, ProofOfCustody(s, u) PROVE Inv'
  <2>1. Still
    BY <1>8 DEF ProofOfCustody
  <2> QED BY <1>0, <1>8, <2>1, ProofOfCustodyType, ProofOfCustodyGood DEF Inv
<1>9. ASSUME NEW n \in 1..MaxSlots, NEW pending \in Parameters, NextBlock(n, pending) PROVE Inv'
  BY <1>9, NextBlockType, NextBlockGood DEF Inv
<1>10. CASE UNCHANGED vars
  BY <1>10 DEF vars, Inv, TypeOK, Clock, GoodContents, GoodBuyings
<1> QED BY <1>1, <1>2, <1>3, <1>4, <1>5, <1>6, <1>7, <1>8, <1>9, <1>10 DEF Next

(* The inductive invariant holds in every reachable state.                 *)
THEOREM Invariance == Spec => []Inv
<1>1. Init => Inv
  BY InitInv
<1>2. Inv /\ [Next]_vars => Inv'
  BY StepInv
<1> QED BY <1>1, <1>2, PTL DEF Spec

(* Every value has its type; no balance, escrow or pool is ever negative.  *)
THEOREM TypeCorrect == Spec => []TypeOK
<1>1. Inv => TypeOK
  BY DEF Inv
<1> QED BY <1>1, Invariance, PTL

(* A buying is settled once, by the quorum of keys or by a refund.         *)
THEOREM BuyingSettledOnce == Spec => []SettledOnce
<1>1. Inv => SettledOnce
  BY DEF Inv, GoodBuyings, BuyingOk, SettledOnce
<1> QED BY <1>1, Invariance, PTL

(* A buying that is still open and expired by the last maintenance was     *)
(* overlooked, which takes a change to an interval that does not divide    *)
(* the old one, or an interval that does not divide a day.                 *)
THEOREM BuyingRefundedInTime == Spec => []RefundedInTime
<1>1. ASSUME Inv PROVE RefundedInTime
  <2> SUFFICES ASSUME NEW p \in Consumer \X URI, buying[p] # None, ~Closed(buying[p]),
                      buying[p].exp <= lastBudget
               PROVE  Overlooked(buying[p].exp, maints) /\ ~IntervalsDivide(maints)
    BY DEF RefundedInTime
  <2>1. OpenOk(buying[p].exp, lastBudget, maints)
    BY <1>1 DEF Inv, GoodBuyings, BuyingOk, Closed
  <2> QED BY <2>1 DEF OpenOk
<1> QED BY <1>1, Invariance, PTL

(* Content that has not given its escrow back by the maintenance after it  *)
(* expired was overlooked; as long as intervals divide the ones before     *)
(* them, it did not expire at a block's time.                              *)
THEOREM ContentEscrowReturned == Spec => []AlignedEscrowReturned
<1>1. ASSUME Inv PROVE AlignedEscrowReturned
  <2> SUFFICES ASSUME NEW u \in URI, content[u] # None, content[u].exp <= lastBudget,
                      content[u].escrow # 0
               PROVE  /\ Overlooked(content[u].exp, maints)
                      /\ IntervalsDivide(maints) => \E m \in maints : content[u].exp % m.interval # 0
    BY DEF AlignedEscrowReturned
  <2> DEFINE e == content[u].exp
  <2>1. Overlooked(e, maints)
    BY <1>1 DEF Inv, GoodContents, ContentOk
  <2>2. PICK m \in maints : m.time < e /\ e < m.time + m.interval
    BY <2>1 DEF Overlooked
  <2>3. e \in Nat
    BY <1>1, ContentFields DEF Inv, TypeOK
  <2>4. m \in [time : Nat, interval : Nat \ {0}]
    BY <1>1 DEF Inv, Clock
  <2>5. m.time \in Nat /\ m.interval \in Nat /\ m.interval > 0
    BY <2>4
  <2> HIDE DEF e
  <2>6. ASSUME IntervalsDivide(maints) PROVE e % m.interval # 0
    <3>1. m.time % m.interval = 0
      BY <1>1, <2>6 DEF Inv, Clock
    <3>2. e % m.interval = 0 => e >= m.time + m.interval
      BY <2>2, <2>3, <2>5, <3>1, ModZero
    <3> QED BY <2>2, <2>3, <2>5, <3>2
  <2> QED BY <2>1, <2>6 DEF e
<1> QED BY <1>1, Invariance, PTL

-----------------------------------------------------------------------------
(* Conservation                                                            *)

(* No content is priced in a monitored asset; DCT paid for one is in no    *)
(* balance, escrow or pool afterwards.                                     *)
NoMonitoredPrice == \A x \in Prices : x.asset # "MIA"

(* What an object holds in escrow, given the object.                       *)
HeldBy(b, y) == IF b = None THEN 0 ELSE IF b.asset = y THEN b.escrow ELSE 0
HeldIn(k) == IF k = None THEN 0 ELSE k.escrow

InPool(y) == IF y = "DCT" THEN pool.core ELSE pool.asset

(* All there is of an asset.                                               *)
All(y) == Total(y) + InPool(y)

(* Escrows and their sums are numbers.                                     *)
LEMMA EscrowTypes ==
  ASSUME TypeOK, NEW y \in Asset
  PROVE  /\ \A p \in Consumer \X URI : BuyingHeld(p, y) \in Int
         /\ \A u \in URI : ContentHeld(u) \in Int
         /\ InBuyings(y) \in Int /\ InContents \in Int /\ InBalances(y) \in Int
         /\ InBalances(y) = Held(bal, y)
<1> DEFINE f == [p \in Consumer \X URI |-> BuyingHeld(p, y)]
           g == [u \in URI |-> ContentHeld(u)]
           h == [a \in Account |-> bal[a][y]]
<1>1. \A p \in Consumer \X URI : BuyingHeld(p, y) \in Int
  BY BuyingFields DEF TypeOK, BuyingHeld, Money
<1>2. \A u \in URI : ContentHeld(u) \in Int
  BY ContentFields DEF TypeOK, ContentHeld, Money
<1>3. IsFiniteSet(Consumer \X URI)
  BY AccountAssumption, FS_Subset, FS_Product
<1>4. \A p \in Consumer \X URI : f[p] \in Int
  BY <1>1
<1>5. \A u \in URI : g[u] \in Int
  BY <1>2
<1>6. InBuyings(y) = SumFunctionOnSet(f, Consumer \X URI)
  BY DEF InBuyings, SumFunction
<1>7. InContents = SumFunctionOnSet(g, URI)
  BY DEF InContents, SumFunction
<1>8. InBalances(y) = Held(bal, y)
  BY DEF InBalances, SumFunction, Held
<1>9. Held(bal, y) \in Int
  BY HeldIsInt DEF TypeOK, Balances
<1> HIDE DEF f, g
<1>10. InBuyings(y) \in Int
  BY <1>3, <1>4, <1>6, SumType
<1>11. InContents \in Int
  BY <1>5, <1>7, SumType, AccountAssumption
<1> QED BY <1>1, <1>2, <1>8, <1>9, <1>10, <1>11

(* One buying changes.                                                     *)
LEMMA BuyingEscrow ==
  ASSUME TypeOK, NEW y \in Asset, NEW p \in Consumer \X URI, NEW b1 \in BuyingObject,
         buying' = [buying EXCEPT ![p] = b1]
  PROVE  InBuyings(y)' = InBuyings(y) + HeldBy(b1, y) - HeldBy(buying[p], y)
<1> DEFINE f == [q \in Consumer \X URI |-> BuyingHeld(q, y)]
           g == [q \in Consumer \X URI |-> BuyingHeld(q, y)']
<1>1. \A q \in Consumer \X URI : buying'[q] = IF q = p THEN b1 ELSE buying[q]
  BY DEF TypeOK
<1>2. \A q \in Consumer \X URI : f[q] \in Int
  BY EscrowTypes
<1>3. f[p] = HeldBy(buying[p], y)
  BY DEF BuyingHeld, HeldBy
<1>4. g[p] = HeldBy(b1, y)
  BY <1>1 DEF BuyingHeld, HeldBy
<1>5. \A q \in (Consumer \X URI) \ {p} : g[q] = f[q]
  BY <1>1 DEF BuyingHeld
<1>6. g[p] \in Int
  BY <1>4, BuyingFields DEF HeldBy, Money
<1>7. IsFiniteSet(Consumer \X URI)
  BY AccountAssumption, FS_Subset, FS_Product
<1>8. InBuyings(y) = SumFunctionOnSet(f, Consumer \X URI)
  BY DEF InBuyings, SumFunction
<1>9. InBuyings(y)' = SumFunctionOnSet(g, Consumer \X URI)
  BY DEF InBuyings, SumFunction
<1> HIDE DEF f, g
<1>10. SumFunctionOnSet(g, Consumer \X URI) = SumFunctionOnSet(f, Consumer \X URI) + g[p] - f[p]
  BY <1>2, <1>5, <1>6, <1>7, SumUpdate
<1> QED BY <1>3, <1>4, <1>8, <1>9, <1>10

(* One content changes.                                                    *)
LEMMA ContentEscrow ==
  ASSUME TypeOK, NEW u \in URI, NEW k1 \in ContentObject, content' = [content EXCEPT ![u] = k1]
  PROVE  InContents' = InContents + k1.escrow - HeldIn(content[u])
<1> DEFINE f == [v \in URI |-> ContentHeld(v)]
           g == [v \in URI |-> ContentHeld(v)']
<1>1. \A v \in URI : content'[v] = IF v = u THEN k1 ELSE content[v]
  BY DEF TypeOK
<1>2. \A v \in URI : f[v] \in Int
  BY EscrowTypes DEF Asset
<1>3. f[u] = HeldIn(content[u])
  BY DEF ContentHeld, HeldIn
<1>4. g[u] = k1.escrow
  BY <1>1, ContentFields DEF ContentHeld
<1>5. \A v \in URI \ {u} : g[v] = f[v]
  BY <1>1 DEF ContentHeld
<1>6. g[u] \in Int
  BY <1>4, ContentFields DEF Money
<1>7. InContents = SumFunctionOnSet(f, URI)
  BY DEF InContents, SumFunction
<1>8. InContents' = SumFunctionOnSet(g, URI)
  BY DEF InContents, SumFunction
<1> HIDE DEF f, g
<1>9. SumFunctionOnSet(g, URI) = SumFunctionOnSet(f, URI) + g[u] - f[u]
  BY <1>2, <1>5, <1>6, SumUpdate, AccountAssumption
<1> QED BY <1>3, <1>4, <1>7, <1>8, <1>9

(* What is not touched adds up to the same.                                *)
LEMMA EscrowUnchanged ==
  ASSUME NEW y
  PROVE  /\ UNCHANGED buying => InBuyings(y)' = InBuyings(y)
         /\ UNCHANGED content => InContents' = InContents
         /\ UNCHANGED bal => InBalances(y)' = InBalances(y)
         /\ InBalances(y)' = Held(bal', y)
BY DEF InBuyings, InContents, InBalances, BuyingHeld, ContentHeld, Held, SumFunction

(* It suffices that what one place loses another gets.                     *)
LEMMA AllKept ==
  ASSUME TypeOK, NEW y \in {"DCT", "UIA"}, NEW i \in Int, NEW j \in Int, NEW m \in Int, NEW n \in Int,
         InBalances(y)' = InBalances(y) + i,
         InBuyings(y)' = InBuyings(y) + j,
         InContents' = InContents + m,
         InPool(y)' = InPool(y) + n,
         i + j + n + (IF y = "DCT" THEN m ELSE 0) = 0
  PROVE  All(y)' = All(y)
<1>1. y \in Asset
  BY DEF Asset
<1>2. InBuyings(y) \in Int /\ InContents \in Int /\ InBalances(y) \in Int
  BY <1>1, EscrowTypes
<1>3. InPool(y) \in Int
  BY DEF InPool, TypeOK, Money
<1>4. All(y) = InBalances(y) + InBuyings(y) + (IF y = "DCT" THEN InContents ELSE 0) + InPool(y)
  BY DEF All, Total
<1>5. All(y)' = InBalances(y)' + InBuyings(y)' + (IF y = "DCT" THEN InContents' ELSE 0) + InPool(y)'
  BY DEF All, Total
<1>6. CASE y = "DCT"
  BY <1>2, <1>3, <1>4, <1>5, <1>6
<1>7. CASE y # "DCT"
  BY <1>2, <1>3, <1>4, <1>5, <1>7
<1> QED BY <1>6, <1>7

(* Steps that move nothing.                                                *)
LEMMA NothingMoves ==
  ASSUME TypeOK, NEW y \in {"DCT", "UIA"}, UNCHANGED <<bal, pool>>,
         InBuyings(y)' = InBuyings(y), InContents' = InContents
  PROVE  All(y)' = All(y)
<1>1. y \in Asset
  BY DEF Asset
<1>2. InBuyings(y) \in Int /\ InContents \in Int /\ InBalances(y) \in Int
  BY <1>1, EscrowTypes
<1>3. InPool(y)' = InPool(y) /\ InPool(y) \in Int
  BY DEF InPool, TypeOK, Money
<1>4. InBalances(y)' = InBalances(y)
  BY EscrowUnchanged
<1> QED BY <1>2, <1>3, <1>4 DEF All, Total

(* The publishing fee moves from the author's balance to the content's     *)
(* escrow.                                                                 *)
LEMMA ContentSubmitConserves ==
  ASSUME Inv, NEW y \in {"DCT", "UIA"},
         NEW u \in URI, NEW a \in Author, NEW co \in Splits, NEW price \in Prices,
         NEW parts \in SUBSET Seeder, NEW quorum \in 0..Cardinality(Seeder), NEW fee \in Fees,
         NEW d \in Durations, NEW cd \in BOOLEAN,
         ContentSubmit(u, a, co, price, parts, quorum, fee, now + d, cd)
  PROVE  All(y)' = All(y)
<1>1. TypeOK /\ y \in Asset /\ "DCT" \in Asset /\ a \in Account /\ bal \in Balances /\ fee \in Int
  BY AmountAssumption, AccountAssumption DEF Inv, TypeOK, Asset, Balances
<1>2. Submitted(u, fee)
  BY ContentSubmitType
<1>3. PICK k1 \in ContentObject : content' = [content EXCEPT ![u] = k1] /\ k1.escrow = fee
  BY <1>2 DEF Submitted
<1>4. /\ content[u] = None /\ bal' = Adjusted(bal, a, "DCT", -fee) /\ UNCHANGED <<buying, pool>>
  BY DEF ContentSubmit
<1>5. InContents \in Int /\ InBuyings(y) \in Int /\ InBalances(y) = Held(bal, y)
      /\ InBalances(y)' = Held(bal', y) /\ InBuyings(y)' = InBuyings(y)
  BY <1>1, <1>4, EscrowTypes, EscrowUnchanged
<1>6. InContents' = InContents + fee
  <2>1. InContents' = InContents + k1.escrow - HeldIn(content[u])
    BY <1>1, <1>3, ContentEscrow
  <2>2. HeldIn(content[u]) = 0
    BY <1>4 DEF HeldIn
  <2> QED BY <2>1, <2>2, <1>1, <1>3, <1>5
<1> DEFINE d1 == -fee
           i == IF y = "DCT" THEN d1 ELSE 0
<1>7. d1 \in Int /\ i \in Int
  BY <1>1
<1>8. InBalances(y)' = InBalances(y) + i
  <2>1. bal' = Adjusted(bal, a, "DCT", d1)
    BY <1>4
  <2> HIDE DEF d1
  <2>2. Held(bal', y) = Held(bal, y) + (IF y = "DCT" THEN d1 ELSE 0)
    BY <2>1, <1>1, <1>7, AdjustedHeld
  <2> QED BY <2>2, <1>5
<1>9. InPool(y)' = InPool(y) + 0
  BY <1>1, <1>4 DEF InPool, TypeOK, Money
<1>10. i + 0 + 0 + (IF y = "DCT" THEN fee ELSE 0) = 0
  BY <1>1
<1>11. InBuyings(y)' = InBuyings(y) + 0
  BY <1>5
<1> HIDE DEF i, d1
<1> QED BY <1>1, <1>6, <1>7, <1>8, <1>9, <1>10, <1>11, AllKept

(* The price moves from the consumer through the pools to the escrow or,   *)
(* for simplified content, to the authors.                                 *)
LEMMA RequestToBuyConserves ==
  ASSUME Inv, NoMonitoredPrice, NEW y \in {"DCT", "UIA"},
         NEW c \in Consumer, NEW u \in URI, NEW x \in Payments, RequestToBuy(c, u, x)
  PROVE  All(y)' = All(y)
<1> DEFINE k == content[u]
           z == k.price.asset
           p == <<c, u>>
           got == Got(c, u, x)
           paid == Paid(c, u, x)
           b1 == Adjusted(bal, c, x.asset, -paid)
           new == Bought(c, u, x)
           i == (IF y = x.asset THEN -paid ELSE 0)
                + (IF k.parts = {} THEN (IF y = z THEN got ELSE 0) ELSE 0)
           j == IF k.parts = {} THEN 0 ELSE (IF y = z THEN got ELSE 0)
           n == IF Free(c, u) THEN 0
                ELSE IF x.asset = z THEN 0
                ELSE IF y = "DCT" THEN (IF z = "UIA" THEN InCore(x) ELSE 0)
                                       - (IF x.asset = "UIA" THEN InCore(x) ELSE 0)
                ELSE (IF x.asset = "UIA" THEN x.amount ELSE 0)
                     - (IF z = "UIA" THEN InCore(x) * Rate ELSE 0)
<1>1. Request(c, u, x) /\ TypeOK /\ y \in Asset
  BY RequestToBuyShape DEF Inv, Asset
<1>2. /\ k \in ContentObject /\ k # None /\ p \in Consumer \X URI /\ c \in Account
      /\ bal \in Balances /\ z \in Asset /\ x.asset \in Asset /\ paid \in Nat /\ got \in Nat
      /\ b1 \in Balances /\ new \in BuyingObject /\ buying[p] = None
  BY <1>1 DEF Request
<1>3. SplitOk(k.author, k.co)
  BY <1>2 DEF Inv, GoodContents, ContentOk
<1>4. z # "MIA"
  BY <1>2, ContentFields DEF NoMonitoredPrice
<1>5. x.amount \in Nat /\ InCore(x) \in Nat /\ InCore(x) * Rate \in Nat
  BY <1>2, ConvertedType
<1>6. i \in Int /\ j \in Int /\ n \in Int
  <2> HIDE DEF paid, got, z, k
  <2> QED BY <1>2, <1>5
<1>7. InBalances(y)' = InBalances(y) + i
  <2>1. InBalances(y)' = Held(bal', y) /\ InBalances(y) = Held(bal, y) /\ Held(bal, y) \in Int
    BY <1>1, EscrowUnchanged, EscrowTypes
  <2>2. Held(b1, y) = Held(bal, y) + (IF y = x.asset THEN -paid ELSE 0)
    <3> DEFINE d1 == -paid
    <3>1. d1 \in Int /\ b1 = Adjusted(bal, c, x.asset, d1)
      BY <1>2
    <3> HIDE DEF d1, b1
    <3> DEFINE xa == x.asset
    <3>2. xa \in Asset /\ b1 = Adjusted(bal, c, xa, d1) /\ bal \in Balances /\ c \in Account
      BY <3>1, <1>2
    <3> HIDE DEF xa
    <3>3. Held(Adjusted(bal, c, xa, d1), y) = Held(bal, y) + (IF y = xa THEN d1 ELSE 0)
      BY <1>1, <3>1, <3>2, AdjustedHeld
    <3> QED BY <3>2, <3>3 DEF d1, xa
  <2>3. CASE k.parts = {}
    <3>1. bal' = Payout(b1, k, z, got)
      BY <1>1, <2>3 DEF Request
    <3>2. Held(bal', y) = Held(b1, y) + (IF y = z THEN got ELSE 0)
      <4> HIDE DEF b1, z, got, k
      <4> QED BY <3>1, <1>1, <1>2, <1>3, PayoutHeld
    <3> HIDE DEF b1, z, got, paid
    <3> QED BY <2>1, <2>2, <2>3, <3>2, <1>2
  <2>4. CASE k.parts # {}
    <3>1. bal' = b1
      BY <1>1, <2>4 DEF Request
    <3> HIDE DEF b1, z, got, paid
    <3> QED BY <2>1, <2>2, <2>4, <3>1, <1>2
  <2> QED BY <2>3, <2>4
<1>8. InBuyings(y)' = InBuyings(y) + j
  <2>1. buying' = [buying EXCEPT ![p] = new]
    BY <1>1 DEF Request
  <2>2. InBuyings(y)' = InBuyings(y) + HeldBy(new, y) - HeldBy(buying[p], y)
    <3> HIDE DEF p, new
    <3> QED BY <2>1, <1>1, <1>2, BuyingEscrow
  <2>3. HeldBy(buying[p], y) = 0
    BY <1>2 DEF HeldBy
  <2>4. HeldBy(new, y) = j
    <3>1. new # None
      BY <1>2, Objects
    <3>2. new.asset = z /\ new.escrow = IF k.parts = {} THEN 0 ELSE got
      BY DEF Bought
    <3> HIDE DEF new, z, got
    <3> QED BY <3>1, <3>2 DEF HeldBy
  <2>5. InBuyings(y) \in Int
    BY <1>1, EscrowTypes
  <2> HIDE DEF j, new, p
  <2> QED BY <2>2, <2>3, <2>4, <2>5, <1>6
<1>9. InContents' = InContents + 0
  <2>1. InContents \in Int
    BY <1>1, EscrowTypes
  <2>2. CASE k.parts = {}
    <3> DEFINE k1 == Counted(u)
    <3>1. content' = [content EXCEPT ![u] = k1]
      BY <1>1, <2>2 DEF Request, Counted
    <3>2. k.bought + 1 \in Nat
      BY <1>2, ContentFields
    <3>3. k1 \in ContentObject /\ k1.escrow = k.escrow /\ k.escrow \in Int
      <4>1. k1 \in ContentObject
        BY <3>2, <1>2, ContentUpdates DEF Counted
      <4>2. k1.escrow = k.escrow
        BY <1>2 DEF ContentObject, Counted
      <4>3. k.escrow \in Int
        BY <1>2, ContentFields DEF Money
      <4> QED BY <4>1, <4>2, <4>3
    <3>4. HeldIn(k) = k.escrow
      BY <1>2 DEF HeldIn
    <3> HIDE DEF k1
    <3>5. InContents' = InContents + k1.escrow - HeldIn(k)
      BY <3>1, <3>3, <1>1, ContentEscrow
    <3> QED BY <2>1, <3>3, <3>4, <3>5
  <2>3. CASE k.parts # {}
    BY <2>1, <2>3, <1>1, EscrowUnchanged DEF Request
  <2> QED BY <2>2, <2>3
<1>10. InPool(y)' = InPool(y) + n
  <2>1. pool \in [core : Nat, asset : Nat]
    BY <1>1 DEF TypeOK, Money
  <2>2. pool' = IF Free(c, u) THEN pool ELSE PoolAfter(x, z)
    BY <1>1 DEF Request
  <2> HIDE DEF z
  <2> QED BY <2>1, <2>2, <1>5, <1>2 DEF InPool, PoolAfter
<1>11. i + j + n = 0
  <2>1. CASE Free(c, u)
    <3>1. paid = 0 /\ got = 0 /\ n = 0
      BY <2>1 DEF Paid, Got
    <3> HIDE DEF paid, got, n, z, k
    <3>2. -paid = 0
      <4> DEFINE m == -paid
      <4>1. m = 0 - paid
        BY <1>2
      <4> HIDE DEF m
      <4>2. m = 0
        BY <4>1, <3>1
      <4> QED BY <4>2 DEF m
    <3>3. i = 0 /\ j = 0
      BY <3>1, <3>2
    <3> HIDE DEF i, j
    <3> QED BY <3>1, <3>3
  <2>2. CASE ~Free(c, u)
    <3>1. paid = x.amount /\ got = Converted(x, z) /\ x.asset # "MIA"
      BY <2>2, <1>1 DEF Paid, Got, Request
    <3>2. x.asset \in {"DCT", "UIA"} /\ z \in {"DCT", "UIA"}
      BY <3>1, <1>2, <1>4 DEF Asset
    <3>3. i + j = (IF y = x.asset THEN -paid ELSE 0) + (IF y = z THEN got ELSE 0)
      <4> HIDE DEF paid, got, z
      <4> QED BY <1>2
    <3>4. CASE x.asset = z
      <4>1. n = 0 /\ got = paid
        BY <3>1, <3>4, <2>2 DEF Converted
      <4> HIDE DEF paid, got, z, i, j, n
      <4> QED BY <3>3, <3>4, <4>1, <1>2, <1>6
    <3>5. CASE x.asset = "DCT" /\ z = "UIA"
      <4>1. got = InCore(x) * Rate /\ InCore(x) = x.amount
        BY <3>1, <3>5 DEF Converted, InCore
      <4>2. n = IF y = "DCT" THEN InCore(x) ELSE - (InCore(x) * Rate)
        BY <2>2, <3>5, <1>5
      <4> HIDE DEF paid, got, z, i, j, n
      <4> QED BY <3>1, <3>3, <3>5, <4>1, <4>2, <1>2, <1>5, <1>6
    <3>6. CASE x.asset = "UIA" /\ z = "DCT"
      <4>1. got = InCore(x)
        BY <3>1, <3>6 DEF Converted
      <4>2. n = IF y = "DCT" THEN - InCore(x) ELSE x.amount
        BY <2>2, <3>6, <1>5
      <4> HIDE DEF paid, got, z, i, j, n
      <4> QED BY <3>1, <3>3, <3>6, <4>1, <4>2, <1>2, <1>5, <1>6
    <3> QED BY <3>2, <3>4, <3>5, <3>6
  <2> QED BY <2>1, <2>2
<1> HIDE DEF i, j, n
<1>12. i + j + n + (IF y = "DCT" THEN 0 ELSE 0) = 0
  BY <1>6, <1>11
<1> QED BY <1>1, <1>6, <1>7, <1>8, <1>9, <1>10, <1>12, AllKept

(* A delivery moves the escrow to the authors, or back to the consumer.    *)
LEMMA DeliverKeysConserves ==
  ASSUME Inv, NEW y \in {"DCT", "UIA"},
         NEW s \in Seeder, NEW c \in Consumer, NEW u \in URI, DeliverKeys(s, c, u)
  PROVE  All(y)' = All(y)
<1> DEFINE k == content[u]
           p == <<c, u>>
           b == buying[p]
           b1 == Answered(s, c, u)
           e == IF y = b.asset THEN b.escrow ELSE 0
<1>1. /\ TypeOK /\ y \in Asset /\ b # None /\ UNCHANGED pool
      /\ Noted(s, c, u) \/ Delivered(s, c, u) \/ GivenBack(s, c, u)
  BY DeliverKeysShape DEF Inv, Asset
<1>2. /\ p \in Consumer \X URI /\ b \in BuyingObject /\ k \in ContentObject /\ k # None
      /\ SplitOk(k.author, k.co) /\ Counted(u) \in ContentObject
  BY <1>1, BuyingObjects
<1>3. /\ b.asset \in Asset /\ b.paid \in Nat /\ b.escrow \in Nat /\ c \in Account
      /\ bal \in Balances /\ e \in Int
  BY <1>1, <1>2, BuyingFields, AccountAssumption DEF TypeOK, Balances, Money
<1>4. /\ InContents \in Int /\ InBuyings(y) \in Int /\ InBalances(y) = Held(bal, y)
      /\ InBalances(y)' = Held(bal', y) /\ Held(bal, y) \in Int
  BY <1>1, EscrowTypes, EscrowUnchanged
<1>5. ~Closed(b) => b.escrow = b.paid
  <2>1. BuyingOk(b, content[p[2]].quorum, lastBudget, maints)
    BY <1>1, <1>2 DEF Inv, GoodBuyings
  <2> QED BY <2>1 DEF BuyingOk, Closed
<1>6. b1 \in BuyingObject /\ b1.asset = b.asset /\ b1.escrow = b.escrow
  BY <1>2, BuyingUpdates DEF Answered, BuyingObject
<1>7. HeldBy(b, y) = e
  BY <1>1 DEF HeldBy
<1> HIDE DEF b1
<1>8. InContents' = InContents + 0
  <2>1. CASE UNCHANGED content
    BY <1>4, <2>1, EscrowUnchanged
  <2>2. CASE content' = [content EXCEPT ![u] = Counted(u)]
    <3>1. InContents' = InContents + Counted(u).escrow - HeldIn(k)
      BY <2>2, <1>1, <1>2, ContentEscrow
    <3>2. Counted(u).escrow = k.escrow
      BY <1>2 DEF Counted, ContentObject
    <3>3. HeldIn(k) = k.escrow /\ k.escrow \in Int
      BY <1>2, ContentFields DEF HeldIn, Money
    <3> QED BY <3>1, <3>2, <3>3, <1>4
  <2> QED BY <1>1, <2>1, <2>2 DEF Noted, Delivered, GivenBack
<1>9. InPool(y)' = InPool(y) + 0
  BY <1>1 DEF InPool, TypeOK, Money
<1>10. CASE Noted(s, c, u)
  <2>1. buying' = [buying EXCEPT ![p] = b1] /\ UNCHANGED bal
    BY <1>10 DEF Noted, b1
  <2>2. InBuyings(y)' = InBuyings(y) + HeldBy(b1, y) - HeldBy(b, y)
    <3> HIDE DEF p
    <3> QED BY <2>1, <1>1, <1>2, <1>6, BuyingEscrow
  <2>3. HeldBy(b1, y) = e
    BY <1>6, Objects DEF HeldBy
  <2> HIDE DEF e
  <2>4. InBuyings(y)' = InBuyings(y) /\ InContents' = InContents
    BY <2>2, <2>3, <1>3, <1>4, <1>7, <1>8
  <2> QED BY <1>1, <2>1, <2>4, NothingMoves
<1>11. ASSUME NEW b2 \in BuyingObject, b2.escrow = 0, b2.asset = b.asset,
              buying' = [buying EXCEPT ![p] = b2],
              Held(bal', y) = Held(bal, y) + e
       PROVE  All(y)' = All(y)
  <2>1. InBuyings(y)' = InBuyings(y) + HeldBy(b2, y) - HeldBy(b, y)
    <3> HIDE DEF p
    <3> QED BY <1>11, <1>1, <1>2, BuyingEscrow
  <2>2. HeldBy(b2, y) = 0
    BY <1>11 DEF HeldBy
  <2> DEFINE j == 0 - e
  <2> HIDE DEF e
  <2>3. InBuyings(y)' = InBuyings(y) + j /\ j \in Int /\ e + j + 0 + (IF y = "DCT" THEN 0 ELSE 0) = 0
    BY <2>1, <2>2, <1>3, <1>4, <1>7
  <2>4. InBalances(y)' = InBalances(y) + e
    BY <1>4, <1>11
  <2> HIDE DEF j
  <2>5. InPool(y) \in Int
    BY <1>1 DEF InPool, TypeOK, Money
  <2>6. InContents' = InContents /\ InPool(y)' = InPool(y) /\ j = 0 - e
    BY <1>4, <1>8, <1>9, <2>5 DEF j
  <2> QED BY <1>3, <1>4, <2>3, <2>4, <2>5, <2>6 DEF All, Total
<1>12. CASE Delivered(s, c, u)
  <2> DEFINE b2 == [b1 EXCEPT !.escrow = 0, !.delivered = TRUE]
  <2>1. /\ buying' = [buying EXCEPT ![p] = b2] /\ ~Closed(b)
        /\ bal' = Payout(bal, k, b.asset, b.paid)
    BY <1>12 DEF Delivered, b1
  <2>2. b2 \in BuyingObject /\ b2.escrow = 0 /\ b2.asset = b.asset
    BY <1>6, BuyingUpdates DEF BuyingObject
  <2>3. Held(bal', y) = Held(bal, y) + e
    <3> DEFINE z == b.asset
               x == b.paid
    <3>1. Held(Payout(bal, k, z, x), y) = Held(bal, y) + (IF y = z THEN x ELSE 0)
      <4>1. z \in Asset /\ x \in Nat
        BY <1>3
      <4> HIDE DEF z, x, k
      <4> QED BY <4>1, <1>1, <1>2, <1>3, PayoutHeld
    <3> QED BY <3>1, <2>1, <1>5
  <2> HIDE DEF b2
  <2> QED BY <2>1, <2>2, <2>3, <1>11
<1>13. CASE GivenBack(s, c, u)
  <2> DEFINE b2 == [b1 EXCEPT !.escrow = 0, !.expired = TRUE]
  <2>1. /\ buying' = [buying EXCEPT ![p] = b2]
        /\ bal' = Adjusted(bal, c, b.asset, b.escrow)
    BY <1>13 DEF GivenBack, b1
  <2>2. b2 \in BuyingObject /\ b2.escrow = 0 /\ b2.asset = b.asset
    BY <1>6, BuyingUpdates DEF BuyingObject
  <2>3. Held(bal', y) = Held(bal, y) + e
    <3> DEFINE z == b.asset
               x == b.escrow
    <3>1. Held(Adjusted(bal, c, z, x), y) = Held(bal, y) + (IF y = z THEN x ELSE 0)
      <4>1. z \in Asset /\ x \in Int
        BY <1>3
      <4> HIDE DEF z, x
      <4> QED BY <4>1, <1>1, <1>3, AdjustedHeld
    <3> QED BY <3>1, <2>1
  <2> HIDE DEF b2
  <2> QED BY <2>1, <2>2, <2>3, <1>11
<1> QED BY <1>1, <1>10, <1>12, <1>13

(* A content changes and keeps its escrow.                                 *)
LEMMA EscrowKept ==
  ASSUME TypeOK, NEW u \in URI, content[u] # None, NEW k1 \in ContentObject,
         content' = [content EXCEPT ![u] = k1], k1.escrow = content[u].escrow
  PROVE  InContents' = InContents
<1>1. InContents' = InContents + k1.escrow - HeldIn(content[u])
  BY ContentEscrow
<1>2. HeldIn(content[u]) = k1.escrow /\ k1.escrow \in Int
  BY ContentFields DEF HeldIn, Money
<1>3. InContents \in Int
  BY EscrowTypes DEF Asset
<1> QED BY <1>1, <1>2, <1>3

(* Resubmitting moves nothing.                                             *)
LEMMA ContentResubmitConserves ==
  ASSUME Inv, NEW y \in {"DCT", "UIA"},
         NEW u \in URI, NEW co \in Splits, NEW price \in Prices, NEW d \in Durations,
         ContentResubmit(u, co, price, now + d)
  PROVE  All(y)' = All(y)
<1> DEFINE exp == now + d
           k1 == [content[u] EXCEPT !.co = co, !.price = price, !.exp = exp]
<1>1. content[u] # None /\ content' = [content EXCEPT ![u] = k1] /\ UNCHANGED <<bal, pool, buying>>
  BY DEF ContentResubmit
<1>2. TypeOK /\ content[u] \in ContentObject
  BY <1>1 DEF Inv, TypeOK
<1>3. exp \in Nat
  BY ContentResubmitType
<1> HIDE DEF exp
<1>4. k1 \in ContentObject /\ k1.escrow = content[u].escrow
  BY <1>2, <1>3, ContentUpdates DEF ContentObject
<1> HIDE DEF k1
<1>5. InContents' = InContents
  BY <1>1, <1>2, <1>4, EscrowKept
<1> QED BY <1>1, <1>2, <1>5, EscrowUnchanged, NothingMoves

(* Cancelling moves nothing.                                               *)
LEMMA ContentCancelConserves ==
  ASSUME Inv, NEW y \in {"DCT", "UIA"}, NEW u \in URI, ContentCancel(u)
  PROVE  All(y)' = All(y)
<1> DEFINE k == content[u]
           exp == IF k.exp > now + Day THEN now + Day ELSE k.exp
           k1 == [k EXCEPT !.blocked = TRUE, !.exp = exp]
<1>1. k # None /\ content' = [content EXCEPT ![u] = k1] /\ UNCHANGED <<bal, pool, buying>>
  BY DEF ContentCancel
<1>2. TypeOK /\ k \in ContentObject /\ now \in Nat
  BY <1>1 DEF Inv, TypeOK, Time
<1>3. exp \in Nat
  BY <1>2, ContentFields, Constants
<1> HIDE DEF exp
<1>4. k1 \in ContentObject /\ k1.escrow = k.escrow
  BY <1>2, <1>3, ContentUpdates DEF ContentObject
<1> HIDE DEF k1
<1>5. InContents' = InContents
  BY <1>1, <1>2, <1>4, EscrowKept
<1> QED BY <1>1, <1>2, <1>5, EscrowUnchanged, NothingMoves

(* A rating moves nothing.                                                 *)
LEMMA LeaveRatingConserves ==
  ASSUME Inv, NEW y \in {"DCT", "UIA"}, NEW c \in Consumer, NEW u \in URI, LeaveRating(c, u)
  PROVE  All(y)' = All(y)
<1> DEFINE p == <<c, u>>
           k == content[u]
           b == buying[p]
           k1 == [k EXCEPT !.ratings = @ + 1]
           b1 == [b EXCEPT !.rated = TRUE]
<1>1. /\ b # None /\ content' = [content EXCEPT ![u] = k1]
      /\ buying' = [buying EXCEPT ![p] = b1] /\ UNCHANGED <<bal, pool>>
  BY DEF LeaveRating
<1>2. TypeOK /\ p \in Consumer \X URI /\ k # None /\ b \in BuyingObject /\ k \in ContentObject
  BY <1>1, BuyingObjects DEF Inv
<1>3. k1 \in ContentObject /\ k1.escrow = k.escrow
  <2>1. k.ratings + 1 \in Nat
    BY <1>2, ContentFields
  <2> QED BY <2>1, <1>2, ContentUpdates DEF ContentObject
<1>4. b1 \in BuyingObject /\ b1.asset = b.asset /\ b1.escrow = b.escrow
  BY <1>2, BuyingUpdates DEF BuyingObject
<1> HIDE DEF k1, b1, p
<1>5. InContents' = InContents
  BY <1>1, <1>2, <1>3, EscrowKept
<1>6. InBuyings(y)' = InBuyings(y)
  <2>1. y \in Asset
    BY DEF Asset
  <2>2. InBuyings(y)' = InBuyings(y) + HeldBy(b1, y) - HeldBy(b, y)
    BY <1>1, <1>2, <1>4, <2>1, BuyingEscrow
  <2>3. HeldBy(b1, y) = HeldBy(b, y) /\ HeldBy(b, y) \in Int
    BY <1>1, <1>2, <1>4, BuyingFields DEF HeldBy, Money
  <2>4. InBuyings(y) \in Int
    BY <1>2, <2>1, EscrowTypes
  <2> QED BY <2>2, <2>3, <2>4
<1> QED BY <1>1, <1>2, <1>5, <1>6, NothingMoves

(* A reward moves from the content's escrow to the seeder.                 *)
LEMMA ProofOfCustodyConserves ==
  ASSUME Inv, NEW y \in {"DCT", "UIA"}, NEW s \in Seeder, NEW u \in URI, ProofOfCustody(s, u)
  PROVE  All(y)' = All(y)
<1> DEFINE k == content[u]
           f == [k.proof EXCEPT ![s] = now]
<1>1. TypeOK /\ y \in Asset /\ k # None /\ UNCHANGED <<pool, buying>>
  BY DEF ProofOfCustody, Inv, Asset
<1>2. k \in ContentObject /\ now \in Time
  BY <1>1 DEF TypeOK
<1>3. f \in [Seeder -> Time \cup {None}]
  BY <1>2, ContentFields
<1> HIDE DEF f
<1>4. CASE k.proof[s] = None
  <2> DEFINE k1 == [k EXCEPT !.proof = f]
  <2>1. content' = [content EXCEPT ![u] = k1] /\ UNCHANGED bal
    BY <1>4 DEF ProofOfCustody, f
  <2>2. k1 \in ContentObject /\ k1.escrow = k.escrow
    BY <1>2, <1>3, ContentUpdates DEF ContentObject
  <2> HIDE DEF k1
  <2>3. InContents' = InContents
    BY <1>1, <2>1, <2>2, EscrowKept
  <2> QED BY <1>1, <2>1, <2>3, EscrowUnchanged, NothingMoves
<1>5. CASE k.proof[s] # None
  <2> DEFINE r == Reward(k, s)
             k1 == [k EXCEPT !.proof = f, !.escrow = k.escrow - r]
             i == IF y = "DCT" THEN r ELSE 0
             m == 0 - r
  <2>1. /\ content' = [content EXCEPT ![u] = k1]
        /\ bal' = Adjusted(bal, s, "DCT", r) /\ k.sprice[s] # None
    BY <1>5 DEF ProofOfCustody, f
  <2>2. r \in Nat /\ r <= k.escrow /\ k.escrow \in Nat
    BY <1>1, <1>2, <1>5, <2>1, RewardBounds, ContentFields DEF Money
  <2> HIDE DEF r
  <2>3. k1 \in ContentObject /\ k1.escrow = k.escrow - r
    <3>1. k.escrow - r \in Money
      BY <2>2 DEF Money
    <3> QED BY <1>2, <1>3, <3>1, ContentUpdates DEF ContentObject
  <2>4. /\ InContents \in Int /\ InBuyings(y) \in Int /\ InBalances(y) = Held(bal, y)
        /\ InBalances(y)' = Held(bal', y) /\ InBuyings(y)' = InBuyings(y) + 0
    BY <1>1, EscrowTypes, EscrowUnchanged
  <2> HIDE DEF k1
  <2>5. InContents' = InContents + m
    <3>1. InContents' = InContents + k1.escrow - HeldIn(k)
      BY <1>1, <2>1, <2>3, ContentEscrow
    <3>2. HeldIn(k) = k.escrow
      BY <1>1 DEF HeldIn
    <3> QED BY <3>1, <3>2, <2>2, <2>3, <2>4
  <2>6. InBalances(y)' = InBalances(y) + i
    <3>1. bal \in Balances /\ s \in Account /\ "DCT" \in Asset
      BY <1>1, AccountAssumption DEF TypeOK, Balances, Asset
    <3>2. Held(bal', y) = Held(bal, y) + (IF y = "DCT" THEN r ELSE 0)
      BY <1>1, <2>1, <2>2, <3>1, AdjustedHeld
    <3> QED BY <3>2, <2>4
  <2>7. InPool(y)' = InPool(y) + 0
    BY <1>1 DEF InPool, TypeOK, Money
  <2>8. i \in Int /\ m \in Int /\ i + 0 + 0 + (IF y = "DCT" THEN m ELSE 0) = 0
    BY <2>2
  <2> HIDE DEF i, m
  <2> QED BY <1>1, <2>4, <2>5, <2>6, <2>7, <2>8, AllKept
<1> QED BY <1>4, <1>5

(* Every balance gets back what its owner's buyings and contents held.     *)
LEMMA HeldAfterHousekeeping ==
  ASSUME TypeOK, NEW t, Kept(t), NEW y \in Asset
  PROVE  LET r == [a \in Account |-> Refund(a, y, t)]
             k == [a \in Account |-> IF y = "DCT" THEN Back(a, t) ELSE 0]
         IN  /\ SumFunctionOnSet(r, Account) \in Int /\ SumFunctionOnSet(k, Account) \in Int
             /\ InBalances(y)' = InBalances(y) + SumFunctionOnSet(r, Account)
                                               + SumFunctionOnSet(k, Account)
<1> DEFINE r == [a \in Account |-> Refund(a, y, t)]
           k == [a \in Account |-> IF y = "DCT" THEN Back(a, t) ELSE 0]
           f == [a \in Account |-> bal[a][y]]
           g == [a \in Account |-> bal[a][y] + Refund(a, y, t)]
           h == [a \in Account |-> bal'[a][y]]
<1>1. /\ IsFiniteSet(Account)
      /\ \A a \in Account : bal[a][y] \in Int /\ Refund(a, y, t) \in Int /\ Back(a, t) \in Int
  <2>1. \A a \in Account : bal[a][y] \in Nat
    BY DEF TypeOK, Money
  <2>2. \A a \in Account : Refund(a, y, t) \in Nat /\ Back(a, t) \in Nat
    BY SharesBack
  <2> QED BY <2>1, <2>2, AccountAssumption
<1>2. \A a \in Account : f[a] \in Int /\ r[a] \in Int /\ k[a] \in Int /\ g[a] = f[a] + r[a]
  BY <1>1
<1>3. \A a \in Account : h[a] = g[a] + k[a]
  BY DEF Kept
<1>4. InBalances(y) = SumFunctionOnSet(f, Account) /\ InBalances(y)' = SumFunctionOnSet(h, Account)
  BY DEF InBalances, SumFunction
<1> HIDE DEF f, g, h, r, k
<1>5. SumFunctionOnSet(g, Account) = SumFunctionOnSet(f, Account) + SumFunctionOnSet(r, Account)
  BY <1>1, <1>2, SumPlus
<1>6. \A a \in Account : g[a] \in Int
  BY <1>2
<1>7. SumFunctionOnSet(h, Account) = SumFunctionOnSet(g, Account) + SumFunctionOnSet(k, Account)
  BY <1>1, <1>2, <1>3, <1>6, SumPlus
<1>8. SumFunctionOnSet(r, Account) \in Int /\ SumFunctionOnSet(k, Account) \in Int
      /\ SumFunctionOnSet(f, Account) \in Int
  BY <1>1, <1>2, SumType
<1>9. InBalances(y)' = InBalances(y) + SumFunctionOnSet(r, Account) + SumFunctionOnSet(k, Account)
  BY <1>4, <1>5, <1>7, <1>8
<1> QED BY <1>8, <1>9 DEF r, k

(* The refunds are what the refunded buyings held.                         *)
LEMMA RefundsAddUp ==
  ASSUME TypeOK, NEW t, Kept(t), NEW y \in Asset
  PROVE  /\ InBuyings(y)' \in Int
         /\ InBuyings(y) = InBuyings(y)'
                           + SumFunctionOnSet([a \in Account |-> Refund(a, y, t)], Account)
<1> DEFINE D == DueSet(t)
           S == {p \in D : buying[p].asset = y}
           P == Consumer \X URI
           e == [p \in D |-> buying[p].escrow]
           key == [p \in S |-> p[1]]
           f == [p \in P |-> BuyingHeld(p, y)]
           g == [p \in P |-> BuyingHeld(p, y)']
           x == [p \in P |-> IF p \in S THEN e[p] ELSE 0]
           c == [a \in Account |-> SumFunctionOnSet(e, {p \in S : key[p] = a})]
<1>1. /\ IsFiniteSet(P) /\ IsFiniteSet(D) /\ IsFiniteSet(Account) /\ Consumer \subseteq Account
      /\ \A p \in D : p \in P /\ buying[p] \in BuyingObject
  BY DueObjects, AccountAssumption, FS_Subset, FS_Product
<1>2. IsFiniteSet(S) /\ S \subseteq P
  BY <1>1, FS_Subset
<1>3. \A p \in S : e[p] \in Int /\ key[p] \in Account
  BY <1>1, BuyingFields DEF Money
<1>4. [a \in Account |-> Refund(a, y, t)] = c
  <2>1. ASSUME NEW a \in Account PROVE Refund(a, y, t) = c[a]
    <3>1. {p \in D : p[1] = a /\ buying[p].asset = y} = {p \in S : key[p] = a}
      OBVIOUS
    <3> QED BY <3>1 DEF Refund
  <2> QED BY <2>1
<1>5. \A p \in P : g[p] \in Int /\ x[p] \in Int /\ f[p] = g[p] + x[p]
  <2> SUFFICES ASSUME NEW p \in P PROVE g[p] \in Int /\ x[p] \in Int /\ f[p] = g[p] + x[p]
    OBVIOUS
  <2>1. f[p] = HeldBy(buying[p], y) /\ g[p] = HeldBy(buying'[p], y) /\ f[p] \in Int
    BY EscrowTypes DEF BuyingHeld, HeldBy
  <2>2. CASE p \in D
    <3> DEFINE b == buying[p]
               b1 == [b EXCEPT !.escrow = 0, !.expired = TRUE]
    <3>1. buying'[p] = b1
      BY <2>2 DEF Kept
    <3>2. b \in BuyingObject /\ b # None /\ b1 \in BuyingObject /\ b1 # None
      BY <1>1, <2>2, BuyingUpdates, Objects
    <3>3. b1.escrow = 0 /\ b1.asset = b.asset /\ b.escrow \in Int
      BY <3>2, BuyingFields DEF BuyingObject, Money
    <3>4. x[p] = IF b.asset = y THEN b.escrow ELSE 0
      BY <2>2
    <3> HIDE DEF b1, x, f, g, S
    <3>5. f[p] = (IF b.asset = y THEN b.escrow ELSE 0) /\ g[p] = 0
      BY <2>1, <3>1, <3>2, <3>3 DEF HeldBy
    <3> QED BY <3>3, <3>4, <3>5
  <2>3. CASE p \notin D
    <3>1. buying'[p] = buying[p] /\ x[p] = 0
      BY <2>3 DEF Kept
    <3> HIDE DEF x, f, g, S
    <3> QED BY <2>1, <3>1
  <2> QED BY <2>2, <2>3
<1>6. InBuyings(y) = SumFunctionOnSet(f, P) /\ InBuyings(y)' = SumFunctionOnSet(g, P)
  BY DEF InBuyings, SumFunction
<1>7. \A p \in S : x[p] = e[p]
  BY <1>2
<1>8. \A p \in P \ S : x[p] = 0
  OBVIOUS
<1> HIDE DEF D, S, P, e, key, f, g, x
<1>9. SumFunctionOnSet(c, Account) = SumFunctionOnSet(e, S)
  BY <1>1, <1>2, <1>3, SumClasses
<1>10. SumFunctionOnSet(x, P) = SumFunctionOnSet(e, S)
  BY <1>1, <1>2, <1>3, <1>7, <1>8, SumExtend
<1>11. SumFunctionOnSet(f, P) = SumFunctionOnSet(g, P) + SumFunctionOnSet(x, P)
  BY <1>1, <1>5, SumPlus
<1>12. SumFunctionOnSet(g, P) \in Int
  BY <1>1, <1>5, SumType
<1> QED BY <1>4, <1>6, <1>9, <1>10, <1>11, <1>12

(* What the authors get back is what the expired contents held.            *)
LEMMA ReturnsAddUp ==
  ASSUME TypeOK, NEW t, Kept(t)
  PROVE  /\ InContents' \in Int
         /\ InContents = InContents' + SumFunctionOnSet([a \in Account |-> Back(a, t)], Account)
<1> DEFINE S == Out(t)
           e == [u \in S |-> content[u].escrow]
           key == [u \in S |-> content[u].author]
           f == [u \in URI |-> ContentHeld(u)]
           g == [u \in URI |-> ContentHeld(u)']
           x == [u \in URI |-> IF u \in S THEN e[u] ELSE 0]
           c == [a \in Account |-> SumFunctionOnSet(e, {u \in S : key[u] = a})]
<1>1. /\ IsFiniteSet(URI) /\ IsFiniteSet(S) /\ IsFiniteSet(Account) /\ Author \subseteq Account
      /\ \A u \in S : u \in URI /\ content[u] \in ContentObject
  BY DueObjects, AccountAssumption
<1>2. S \subseteq URI
  BY <1>1
<1>3. \A u \in S : e[u] \in Int /\ key[u] \in Account
  BY <1>1, ContentFields DEF Money
<1>4. [a \in Account |-> Back(a, t)] = c
  <2>1. ASSUME NEW a \in Account PROVE Back(a, t) = c[a]
    <3>1. {u \in S : content[u].author = a} = {u \in S : key[u] = a}
      OBVIOUS
    <3> QED BY <3>1 DEF Back
  <2> QED BY <2>1
<1>5. \A u \in URI : g[u] \in Int /\ x[u] \in Int /\ f[u] = g[u] + x[u]
  <2> SUFFICES ASSUME NEW u \in URI PROVE g[u] \in Int /\ x[u] \in Int /\ f[u] = g[u] + x[u]
    OBVIOUS
  <2>1. f[u] = HeldIn(content[u]) /\ g[u] = HeldIn(content'[u]) /\ f[u] \in Int
    BY EscrowTypes DEF ContentHeld, HeldIn, Asset
  <2>2. CASE u \in S
    <3> DEFINE k == content[u]
               k1 == [k EXCEPT !.escrow = 0]
    <3>1. content'[u] = k1
      BY <2>2 DEF Kept
    <3>2. k \in ContentObject /\ k # None /\ k1 \in ContentObject /\ k1 # None
      <4>1. 0 \in Money
        BY DEF Money
      <4> QED BY <1>1, <2>2, <4>1, ContentUpdates, Objects
    <3>3. k1.escrow = 0 /\ k.escrow \in Int
      BY <3>2, ContentFields DEF ContentObject, Money
    <3>4. x[u] = k.escrow
      BY <2>2
    <3> HIDE DEF k1, x, f, g, S
    <3>5. f[u] = k.escrow /\ g[u] = 0
      BY <2>1, <3>1, <3>2, <3>3 DEF HeldIn
    <3> QED BY <3>3, <3>4, <3>5
  <2>3. CASE u \notin S
    <3>1. content'[u] = content[u] /\ x[u] = 0
      BY <2>3 DEF Kept
    <3> HIDE DEF x, f, g, S
    <3> QED BY <2>1, <3>1
  <2> QED BY <2>2, <2>3
<1>6. InContents = SumFunctionOnSet(f, URI) /\ InContents' = SumFunctionOnSet(g, URI)
  BY DEF InContents, SumFunction
<1>7. \A u \in S : x[u] = e[u]
  BY <1>2
<1>8. \A u \in URI \ S : x[u] = 0
  OBVIOUS
<1> HIDE DEF S, e, key, f, g, x
<1>9. SumFunctionOnSet(c, Account) = SumFunctionOnSet(e, S)
  BY <1>1, <1>3, SumClasses
<1>10. SumFunctionOnSet(x, URI) = SumFunctionOnSet(e, S)
  BY <1>1, <1>2, <1>3, <1>7, <1>8, SumExtend
<1>11. SumFunctionOnSet(f, URI) = SumFunctionOnSet(g, URI) + SumFunctionOnSet(x, URI)
  BY <1>1, <1>5, SumPlus
<1>12. SumFunctionOnSet(g, URI) \in Int
  BY <1>1, <1>5, SumType
<1> QED BY <1>4, <1>6, <1>9, <1>10, <1>11, <1>12

(* Maintenance moves escrows to the balances they are owed to.             *)
LEMMA NextBlockConserves ==
  ASSUME Inv, NEW y \in {"DCT", "UIA"}, NEW n \in 1..MaxSlots,
         NEW pending \in Parameters, NextBlock(n, pending)
  PROVE  All(y)' = All(y)
<1> DEFINE t == SlotTime(n)
<1>1. /\ UNCHANGED pool /\ TypeOK /\ TypeOK' /\ y \in Asset
      /\ Housekeeping(t) \/ UNCHANGED <<bal, content, buying>>
  BY NextBlockType, NextBlockShape DEF Maintained, Passed, Inv, Asset
<1>2. CASE UNCHANGED <<bal, content, buying>>
  BY <1>1, <1>2, EscrowUnchanged, NothingMoves
<1>3. CASE Housekeeping(t)
  <2> HIDE DEF t
  <2>1. Kept(t)
    BY <1>3, HousekeepingShape
  <2> DEFINE i == SumFunctionOnSet([a \in Account |-> Refund(a, y, t)], Account)
             k == SumFunctionOnSet([a \in Account |-> IF y = "DCT" THEN Back(a, t) ELSE 0], Account)
             m == SumFunctionOnSet([a \in Account |-> Back(a, t)], Account)
  <2>2. i \in Int /\ k \in Int /\ InBalances(y)' = InBalances(y) + i + k
    BY <1>1, <2>1, HeldAfterHousekeeping
  <2>3. InBuyings(y) = InBuyings(y)' + i
    BY <1>1, <2>1, RefundsAddUp
  <2>4. InContents = InContents' + m
    BY <1>1, <2>1, ReturnsAddUp
  <2>5. y = "DCT" => k = m
    OBVIOUS
  <2>6. y # "DCT" => k = 0
    <3> DEFINE z == [a \in Account |-> 0]
    <3>1. \A a \in Account : z[a] = 0
      OBVIOUS
    <3>2. y # "DCT" => k = SumFunctionOnSet(z, Account)
      OBVIOUS
    <3> HIDE DEF z
    <3>3. SumFunctionOnSet(z, Account) = 0
      BY <3>1, SumZero, AccountAssumption
    <3> QED BY <3>2, <3>3
  <2> HIDE DEF i, k, m
  <2>7. InBuyings(y) \in Int /\ InContents \in Int /\ InBalances(y) \in Int
    BY <1>1, EscrowTypes
  <2>8. InBuyings(y)' \in Int /\ InContents' \in Int
    BY <1>1, <2>1, RefundsAddUp, ReturnsAddUp
  <2>9. InPool(y)' = InPool(y) /\ InPool(y) \in Int
    BY <1>1 DEF InPool, TypeOK, Money
  <2>10. CASE y = "DCT"
    <3>1. k = m
      BY <2>5, <2>10
    <3> QED BY <3>1, <2>10, <2>2, <2>3, <2>4, <2>7, <2>8, <2>9 DEF All, Total
  <2>11. CASE y # "DCT"
    <3>1. k = 0
      BY <2>6, <2>11
    <3> QED BY <3>1, <2>11, <2>2, <2>3, <2>7, <2>8, <2>9 DEF All, Total
  <2> QED BY <2>10, <2>11
<1> QED BY <1>1, <1>2, <1>3

(* Init hands out the supply.                                              *)
LEMMA InitSupply ==
  ASSUME Init, NEW y \in {"DCT", "UIA"}
  PROVE  All(y) = Supply
<1> DEFINE W == Author \cup Consumer
           f == [a \in Account |-> bal[a][y]]
           w == [a \in W |-> Wealth]
           g == [p \in Consumer \X URI |-> BuyingHeld(p, y)]
           h == [u \in URI |-> ContentHeld(u)]
<1>1. /\ IsFiniteSet(Account) /\ W \subseteq Account /\ IsFiniteSet(W) /\ IsFiniteSet(URI)
      /\ IsFiniteSet(Consumer \X URI) /\ Wealth \in Int /\ Pool \in Int
  <2>1. IsFiniteSet(W) /\ IsFiniteSet(Consumer)
    BY AccountAssumption, FS_Subset
  <2>2. IsFiniteSet(Consumer \X URI)
    BY <2>1, AccountAssumption, FS_Product
  <2> QED BY <2>1, <2>2, AccountAssumption, AmountAssumption
<1>2. InBalances(y) = SumFunctionOnSet(f, Account)
  BY DEF InBalances, SumFunction
<1>3. InBuyings(y) = SumFunctionOnSet(g, Consumer \X URI)
  BY DEF InBuyings, SumFunction
<1>4. InContents = SumFunctionOnSet(h, URI)
  BY DEF InContents, SumFunction
<1>5. \A a \in W : w[a] \in Int /\ w[a] = Wealth /\ f[a] = w[a]
  BY <1>1 DEF Init, Asset
<1>6. \A a \in Account \ W : f[a] = 0
  BY DEF Init, Asset
<1>7. \A p \in Consumer \X URI : g[p] = 0
  BY DEF Init, BuyingHeld
<1>8. \A u \in URI : h[u] = 0
  BY DEF Init, ContentHeld
<1>9. InPool(y) = Pool
  BY DEF Init, InPool
<1> HIDE DEF f, w, g, h, W
<1>10. SumFunctionOnSet(f, Account) = SumFunctionOnSet(w, W)
  BY <1>1, <1>5, <1>6, SumExtend
<1>11. SumFunctionOnSet(w, W) = Wealth * Cardinality(W)
  BY <1>1, <1>5, SumConstant
<1>12. SumFunctionOnSet(g, Consumer \X URI) = 0 /\ SumFunctionOnSet(h, URI) = 0
  BY <1>1, <1>7, <1>8, SumZero
<1>13. Cardinality(W) \in Nat
  BY <1>1, FS_CardinalityType
<1>14. Wealth * Cardinality(W) \in Int
  BY <1>1, <1>13
<1>15. InBalances(y) = Wealth * Cardinality(W) /\ InBuyings(y) = 0 /\ InContents = 0
  BY <1>2, <1>3, <1>4, <1>10, <1>11, <1>12
<1>16. Supply = Wealth * Cardinality(W) + Pool
  BY DEF Supply, W
<1> DEFINE v == Wealth * Cardinality(W)
<1> HIDE DEF v
<1> QED BY <1>1, <1>9, <1>14, <1>15, <1>16 DEF All, Total, v

(* No step creates or destroys a token.                                    *)
LEMMA StepConserves ==
  ASSUME NoMonitoredPrice, Inv, [Next]_vars, NEW y \in {"DCT", "UIA"}
  PROVE  All(y)' = All(y)
<1>1. ASSUME NEW s \in Seeder, NEW price \in SeederPrices, ReadyToPublish(s, price)
      PROVE  All(y)' = All(y)
  <2>1. TypeOK /\ UNCHANGED <<bal, pool>> /\ UNCHANGED buying /\ UNCHANGED content
    BY <1>1 DEF ReadyToPublish, Inv
  <2> QED BY <2>1, EscrowUnchanged, NothingMoves
<1>2. ASSUME NEW u \in URI, NEW a \in Author, NEW co \in Splits, NEW price \in Prices,
             NEW parts \in SUBSET Seeder, NEW quorum \in 0..Cardinality(Seeder), NEW fee \in Fees,
             NEW d \in Durations, NEW cd \in BOOLEAN,
             ContentSubmit(u, a, co, price, parts, quorum, fee, now + d, cd)
      PROVE  All(y)' = All(y)
  BY <1>2, ContentSubmitConserves
<1>3. ASSUME NEW u \in URI, NEW co \in Splits, NEW price \in Prices, NEW d \in Durations,
             ContentResubmit(u, co, price, now + d)
      PROVE  All(y)' = All(y)
  BY <1>3, ContentResubmitConserves
<1>4. ASSUME NEW u \in URI, ContentCancel(u) PROVE All(y)' = All(y)
  BY <1>4, ContentCancelConserves
<1>5. ASSUME NEW c \in Consumer, NEW u \in URI, NEW x \in Payments, RequestToBuy(c, u, x)
      PROVE  All(y)' = All(y)
  BY <1>5, RequestToBuyConserves
<1>6. ASSUME NEW s \in Seeder, NEW c \in Consumer, NEW u \in URI, DeliverKeys(s, c, u)
      PROVE  All(y)' = All(y)
  BY <1>6, DeliverKeysConserves
<1>7. ASSUME NEW c \in Consumer, NEW u \in URI, LeaveRating(c, u) PROVE All(y)' = All(y)
  BY <1>7, LeaveRatingConserves
<1>8. ASSUME NEW s \in Seeder, NEW u \in URI, ProofOfCustody(s, u) PROVE All(y)' = All(y)
  BY <1>8, ProofOfCustodyConserves
<1>9. ASSUME NEW n \in 1..MaxSlots, NEW pending \in Parameters, NextBlock(n, pending)
      PROVE  All(y)' = All(y)
  BY <1>9, NextBlockConserves
<1>10. CASE UNCHANGED vars
  <2>1. TypeOK /\ UNCHANGED <<bal, pool>> /\ UNCHANGED buying /\ UNCHANGED content
    BY <1>10 DEF vars, Inv
  <2> QED BY <2>1, EscrowUnchanged, NothingMoves
<1> QED BY <1>1, <1>2, <1>3, <1>4, <1>5, <1>6, <1>7, <1>8, <1>9, <1>10 DEF Next

(* Conservation in terms of all there is of an asset.                      *)
LEMMA ConservationIsAll ==
  Conservation <=> All("DCT") = Supply /\ All("UIA") = Supply
BY DEF Conservation, All, InPool

(* While no content is priced in a monitored asset, the balances, escrows  *)
(* and pools of DCT and of the user's asset always add up to the supply,   *)
(* whatever is bought, delivered, refunded or paid to seeders.             *)
THEOREM TokensConserved ==
  ASSUME NoMonitoredPrice
  PROVE  Spec => []Conservation
<1>1. Init => Conservation
  BY InitSupply, ConservationIsAll
<1>2. Inv /\ Conservation /\ [Next]_vars => Conservation'
  <2> SUFFICES ASSUME Inv, Conservation, [Next]_vars PROVE Conservation'
    OBVIOUS
  <2>1. All("DCT")' = All("DCT") /\ All("UIA")' = All("UIA")
    BY StepConserves
  <2>2. Supply' = Supply
    BY DEF Supply
  <2>3. Conservation' <=> All("DCT")' = Supply' /\ All("UIA")' = Supply'
    BY DEF Conservation, All, InPool
  <2> QED BY <2>1, <2>2, <2>3, ConservationIsAll
<1> QED BY <1>1, <1>2, Invariance, PTL DEF Spec
=============================================================================
