------------------------- MODULE MCBlockProduction -------------------------
(* Two nodes that mine for two or three miners, small intervals.           *)
EXTENDS BlockProduction, TLC

CONSTANTS n1, n2, m1, m2, m3

ControlsDef == (n1 :> {m1, m2}) @@ (n2 :> {m3})
Params(interval, maint, skip) == [interval |-> interval, maint |-> maint, skip |-> skip]
EverySecond == Params(1, 4, 1)
Slower == {Params(2, 4, 0)}
Uneven == {Params(3, 6, 0)}
Rewards == <<2, 1>>
Two == {m1, m3}
Three == {m1, m2, m3}
TwoOrThree == {Two, Three}
OnlyTwo == {Two}
First == <<m1, m3>>
=============================================================================
