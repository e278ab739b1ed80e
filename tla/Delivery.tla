------------------------------ MODULE Delivery ------------------------------
(***************************************************************************)
(* What the receiver promises about one container's log, without cursors,  *)
(* stamps, connections or batches: lines are offered to the pipeline in    *)
(* the order they were written, a stamped line that got through is not     *)
(* offered again, and the position from which delivery resumes claims no   *)
(* line that is still to be delivered and never goes back.                 *)
(***************************************************************************)
EXTENDS Naturals

VARIABLES
  written,   \* lines 1..written exist
  stamped,   \* the ones that carry a timestamp of their own
  lost,      \* lines the kubelet no longer serves
  excluded,  \* lines before the place where delivery begins
  offer,     \* what the pipeline is being asked to take
  got,       \* what it took, or refused for good
  claimed    \* lines the position to resume from declares done

vars == <<written, stamped, lost, excluded, offer, got, claimed>>

\* The log may have lines before anybody reads it.
Init ==
  /\ written \in Nat /\ stamped \subseteq 1..written
  /\ lost = {} /\ excluded = {}
  /\ offer = {} /\ got = {} /\ claimed = {}

Write ==
  /\ written' = written + 1
  /\ stamped' \in {stamped, stamped \cup {written'}}
  /\ UNCHANGED <<lost, excluded, offer, got, claimed>>

Lose ==
  /\ lost \subseteq lost' /\ lost' \subseteq 1..written
  /\ UNCHANGED <<written, stamped, excluded, offer, got, claimed>>

\* Where to begin is decided again as long as nothing is claimed.
Begin ==
  /\ claimed = {} /\ offer = {}
  /\ excluded' \subseteq 1..written
  /\ UNCHANGED <<written, stamped, lost, offer, got, claimed>>

Offer ==
  /\ offer \subseteq offer' /\ offer' \subseteq 1..written
  /\ \A i \in offer' \ offer :
       /\ i \in stamped => i \notin got
       /\ \A j \in offer : j < i
  /\ UNCHANGED <<written, stamped, lost, excluded, got, claimed>>

Deliver ==
  /\ got' = got \cup offer /\ offer' = {}
  /\ claimed \subseteq claimed' /\ claimed' \subseteq got' \cup lost \cup excluded
  /\ UNCHANGED <<written, stamped, lost, excluded>>

Refuse ==
  /\ offer' = {}
  /\ UNCHANGED <<written, stamped, lost, excluded, got, claimed>>

Next == Write \/ Lose \/ Begin \/ Offer \/ Deliver \/ Refuse

Spec == Init /\ [][Next]_vars
=============================================================================
