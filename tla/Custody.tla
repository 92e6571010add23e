------------------------------- MODULE Custody -------------------------------
(***************************************************************************)
(* What the run journal promises about the API under test.  A write of the *)
(* run is identified by the id of its request.  "exposed" is the set of    *)
(* writes whose resource exists on the server or may still appear there;   *)
(* "claimed" is the set of writes for which the journal, read back after a *)
(* crash, still answers for a resource.  A resource may appear only for a  *)
(* claimed write, and a claim may be given up only when nothing is exposed.*)
(***************************************************************************)
CONSTANT Id

VARIABLES exposed, claimed

vars == <<exposed, claimed>>

Init == exposed = {} /\ claimed = {}

\* A write is announced before its request leaves.
Claim(id) ==
  /\ id \notin claimed
  /\ claimed' = claimed \cup {id}
  /\ UNCHANGED exposed

\* The server creates, or may be about to create, the resource of the write.
Appear(id) ==
  /\ id \in claimed
  /\ exposed' = exposed \cup {id}
  /\ UNCHANGED claimed

\* The resource is removed, or the delayed creation is given up.
Vanish(id) ==
  /\ exposed' = exposed \ {id}
  /\ UNCHANGED claimed

\* The claim ends: the write created nothing, or its resource is gone.
Release(id) ==
  /\ id \notin exposed
  /\ claimed' = claimed \ {id}
  /\ UNCHANGED exposed

\* Both at once: what is exposed no longer is not answered for any more.
Settle(id) ==
  /\ exposed' = exposed \ {id}
  /\ claimed' = claimed \ {id}

Next == \E id \in Id : Claim(id) \/ Appear(id) \/ Vanish(id) \/ Release(id)
                         \/ Settle(id)

Spec == Init /\ [][Next]_vars

\* Nothing the run created is ever without an entry that answers for it.
NothingLost == exposed \subseteq claimed
==============================================================================
