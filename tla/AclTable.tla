------------------------------- MODULE AclTable -------------------------------
(***************************************************************************)
(* What the ACL stage promises the packets: there is one current rule set, *)
(* replaced in one step, and every frame is matched from beginning to end  *)
(* against the rule set that was current when the frame began.             *)
(***************************************************************************)
CONSTANTS
  Worker,   \* the packet workers
  RuleSet,  \* the rule sets
  Empty,    \* the rule set that matches nothing
  Idle      \* a worker that is not matching a frame

VARIABLES
  table,    \* the current rule set
  frame     \* frame[w]: the rule set worker w is matching a frame against

Init ==
  /\ table = Empty
  /\ frame = [w \in Worker |-> Idle]

\* A sync puts another rule set in place.
Install ==
  /\ table' \in RuleSet
  /\ UNCHANGED frame

\* A worker starts a frame on the current rule set; there is nothing to match
\* when that is Empty.
Begin(w) ==
  /\ frame[w] = Idle
  /\ frame' = [frame EXCEPT ![w] = table]
  /\ UNCHANGED table

End(w) ==
  /\ frame' = [frame EXCEPT ![w] = Idle]
  /\ UNCHANGED table

\* The data plane restarts with no rules and no frames.
Restart == table' = Empty /\ frame' = [w \in Worker |-> Idle]

Next ==
  \/ Install
  \/ Restart
  \/ \E w \in Worker : Begin(w) \/ End(w)

Spec == Init /\ [][Next]_<<table, frame>>
=============================================================================
