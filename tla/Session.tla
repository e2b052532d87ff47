------------------------------ MODULE Session ------------------------------
(***************************************************************************)
(* What a ring 3 session promises the monitor, whatever goes on in it: a   *)
(* launch is refused on the spot, or it takes the processor away and gives *)
(* it back once, with the verdict that belongs to that launch.  A session  *)
(* that uses the syscall instruction may also lose the machine.            *)
(***************************************************************************)
CONSTANTS
  FastKinds,   \* the sessions that report: FastSyscallDemoKind
  PlainKind    \* the one that does not: the int 0x80 demo

VARIABLES
  mode,   \* monitor, ring3 or dead
  kind,   \* of the last launch
  told    \* what the monitor has said of it

vars == <<mode, kind, told>>

Kinds == FastKinds \cup {PlainKind}

Init == mode = "monitor" /\ kind = PlainKind /\ told = "nothing"

Refuse(k) ==
  /\ mode = "monitor"
  /\ kind' = k /\ told' = "refused"
  /\ UNCHANGED mode

Launch(k) ==
  /\ mode = "monitor"
  /\ mode' = "ring3" /\ kind' = k /\ told' = "nothing"

Return ==
  /\ mode = "ring3"
  /\ mode' = "monitor"
  /\ told' = IF kind \in FastKinds THEN "passed" ELSE "returned"
  /\ UNCHANGED kind

Die ==
  /\ mode = "ring3" /\ kind \in FastKinds
  /\ mode' = "dead"
  /\ UNCHANGED <<kind, told>>

Next == \/ \E k \in Kinds : Refuse(k) \/ Launch(k)
        \/ Return
        \/ Die

Spec == Init /\ [][Next]_vars /\ WF_vars(Return \/ Die)
=============================================================================
