---------------------------- MODULE MCOrderFlow ----------------------------
(* Model-checking instances of OrderFlow.                                  *)
EXTENDS OrderFlow
CONSTANTS o1, o2, s1
BuyIds == {o1, o2}
OneBuy == {o1}
SellIds == {s1}
NoIds == {}
Both == {Sched, Oper}
Alone == {Sched}
=============================================================================
