---------------------------- MODULE OrderPromise ----------------------------
(***************************************************************************)
(* What the order flow promises, whatever its threads, its broker and its  *)
(* crashes do.  An order is reserved, sent at most once, and worked by the *)
(* broker one share at a time.  The ledger books what the broker executed, *)
(* late perhaps but never too much, and settles the order once and for     *)
(* all, when nothing more can be executed.  Every booked share reaches the *)
(* position at most once.  One thing is not promised: the answer to the    *)
(* one sending may be taken for a refusal of an order the broker has.  It  *)
(* is then lost: settled at any time, as nothing, and never booked.        *)
(***************************************************************************)
EXTENDS Integers

CONSTANTS
  Orders,        \* client order ids
  SellOrders,    \* those that sell
  Sizes,         \* sizes an order may have
  StartQty       \* shares held at the start

VARIABLES
  row,           \* the ledger's row: "none", "open", "settled"
  size,          \* shares ordered
  sent,          \* times the order has been sent
  work,          \* the broker's work on it: "none", "live", "over"
  lost,          \* the orders lost on their sending
  executed,      \* shares the broker has executed
  booked,        \* shares the row shows as filled
  credited,      \* shares of it the position has seen
  position       \* shares the ledger holds

vars == <<row, size, sent, work, lost, executed, booked, credited, position>>

Init ==
  /\ row = [o \in Orders |-> "none"] /\ size = [o \in Orders |-> 0]
  /\ sent = [o \in Orders |-> 0] /\ work = [o \in Orders |-> "none"]
  /\ executed = [o \in Orders |-> 0] /\ booked = [o \in Orders |-> 0]
  /\ lost = {}
  /\ credited = [o \in Orders |-> 0] /\ position = StartQty

Reserve(o) ==
  /\ row[o] = "none"
  /\ row' = [row EXCEPT ![o] = "open"]
  /\ \E n \in Sizes : size' = [size EXCEPT ![o] = n]
  /\ UNCHANGED <<sent, work, lost, executed, booked, credited, position>>

(* The broker takes the order, which may be lost on it, or never sees it.  *)
Send(o) ==
  /\ row[o] = "open" /\ sent[o] = 0
  /\ sent' = [sent EXCEPT ![o] = 1]
  /\ \/ /\ work' = [work EXCEPT ![o] = "live"]
        /\ lost' \in {lost, lost \cup {o}}
     \/ UNCHANGED <<work, lost>>
  /\ UNCHANGED <<row, size, executed, booked, credited, position>>

Execute(o) ==
  /\ work[o] = "live" /\ executed[o] < size[o]
  /\ executed' = [executed EXCEPT ![o] = @ + 1]
  /\ work' = [work EXCEPT ![o] = IF executed[o] + 1 = size[o] THEN "over" ELSE "live"]
  /\ UNCHANGED <<row, size, sent, lost, booked, credited, position>>

End(o) ==
  /\ work[o] = "live"
  /\ work' = [work EXCEPT ![o] = "over"]
  /\ UNCHANGED <<row, size, sent, lost, executed, booked, credited, position>>

Book(o) ==
  /\ row[o] = "open" /\ o \notin lost
  /\ \E n \in booked[o]..executed[o] : booked' = [booked EXCEPT ![o] = n]
  /\ UNCHANGED <<row, size, sent, work, lost, executed, credited, position>>

Settle(o) ==
  /\ row[o] = "open"
  /\ row' = [row EXCEPT ![o] = "settled"]
  /\ \/ o \in lost /\ UNCHANGED booked
     \/ /\ o \notin lost /\ work[o] # "live"
        /\ booked' = [booked EXCEPT ![o] = executed[o]]
  /\ UNCHANGED <<size, sent, work, lost, executed, credited, position>>

Credit(o) ==
  /\ credited' = [credited EXCEPT ![o] = booked[o]]
  /\ position' = IF o \in SellOrders THEN position - (booked[o] - credited[o])
                                     ELSE position + (booked[o] - credited[o])
  /\ UNCHANGED <<row, size, sent, work, lost, executed, booked>>

Next ==
  \E o \in Orders :
    Reserve(o) \/ Send(o) \/ Execute(o) \/ End(o) \/ Book(o) \/ Settle(o) \/ Credit(o)

Spec == Init /\ [][Next]_vars
=============================================================================
