-------------------------- MODULE MCContentMarket --------------------------
(***************************************************************************)
(* An author ann, a consumer cat, two interchangeable seeders, and bob,     *)
(* who is a co-author, or an author cat is subscribed to.                  *)
(***************************************************************************)
EXTENDS ContentMarket, TLC

CONSTANTS ann, bob, cat, s1, s2

Most    == [x \in {bob} |-> 6000]
All     == [x \in {bob} |-> 10000]
Dct(n)  == [asset |-> "DCT", amount |-> n]
Uia(n)  == [asset |-> "UIA", amount |-> n]
Mia(n)  == [asset |-> "MIA", amount |-> n]

OneSplit == {Most}
TwoSplits == {Most, All}
DctOnly  == {Dct(2)}
UiaOnly  == {Uia(2)}
MiaOnly  == {Mia(2)}
DctUia   == {Dct(1), Uia(2)}
CatFollowsBob == {<<cat, bob>>}
(* Blocks every second or every other, two blocks to a maintenance.        *)
OneTwo == {[interval |-> i, maint |-> 2 * i] : i \in {1, 2}}
Seeders == Permutations({s1, s2})
=============================================================================
