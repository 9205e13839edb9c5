--------------------------- MODULE MCSubscriptions ---------------------------
(* Small instances of Subscriptions.                                       *)
EXTENDS Subscriptions

CONSTANTS n1, n2, ann, bob, cid, dan

Offer(allow, asset, price, period) ==
  [allow |-> allow, asset |-> asset, price |-> price, period |-> period]

(* A price in DCT and one that follows the feed.                           *)
MCTerms == {Offer(TRUE, "DCT", 1, 2), Offer(TRUE, "monitored", 1, 2), Offer(FALSE, "DCT", 1, 2)}
MCTermsDct == {Offer(TRUE, "DCT", 1, 2)}
=============================================================================
