---------------------------- MODULE MCEventCopy -----------------------------
(* One plan applied twice at once, and an edit of either server at any     *)
(* moment: between review and apply, or between apply's read and its write.*)
(* A UUID for the plan and one for each application is all that is minted. *)
EXTENDS EventCopy, TLC

CONSTANTS note, secret, u1, u2, u3, p1, a1, a2

MCFacts     == {note, secret}
MCRemoved   == {note}
MCForbidden == {secret}
MCFresh     == {u1, u2, u3}
MCPlans     == {p1}
MCApplies   == {a1, a2}
Symmetry == Permutations(MCFresh) \cup Permutations(MCApplies)
=============================================================================
