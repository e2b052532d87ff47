---------------------------- MODULE BoundedFifo ----------------------------
(***************************************************************************)
(* What the keyboard path promises the input loop: scancodes are delivered *)
(* once each and in order, and one is lost only if it arrives when         *)
(* Capacity others are waiting, which is counted.                          *)
(***************************************************************************)
EXTENDS Naturals, Sequences

CONSTANTS Capacity, Item, Nothing

VARIABLES queue, dropped, got

vars == <<queue, dropped, got>>

Init == queue = <<>> /\ dropped = 0 /\ got = Nothing

Arrive(item) ==
  /\ \/ /\ Len(queue) < Capacity
        /\ queue' = Append(queue, item)
        /\ UNCHANGED dropped
     \/ /\ Len(queue) = Capacity
        /\ dropped' = dropped + 1
        /\ UNCHANGED queue
  /\ UNCHANGED got

Take ==
  /\ queue # <<>>
  /\ got' = Head(queue) /\ queue' = Tail(queue)
  /\ UNCHANGED dropped

FindEmpty ==
  /\ queue = <<>>
  /\ got' = Nothing
  /\ UNCHANGED <<queue, dropped>>

Next == \/ \E item \in Item : Arrive(item)
        \/ Take
        \/ FindEmpty

Spec == Init /\ [][Next]_vars
=============================================================================
