---------------------------- MODULE MCCommitment ----------------------------
(* The commitment guard for TLC: the guest's replies that the detector     *)
(* tells apart, two different offers, two turns of which one may be a      *)
(* burst of two posts, pages of three posts and a memory that folds four   *)
(* entries to two, so that an offer may be off the page or folded away.    *)
EXTENDS Commitment, TLC

Yes == [short |-> TRUE, defers |-> FALSE, affirms |-> TRUE, finalizes |-> FALSE]
YesBook == [Yes EXCEPT !.finalizes = TRUE]
YesLater == [YesBook EXCEPT !.defers = TRUE]

(* A request to book that is no yes is like YesLater to the guard.         *)
GuestReplies == {Yes, YesBook, YesLater}

CONSTANTS t1, t2, h1, offerA, offerB

Symmetry == Permutations({t1, t2}) \cup Permutations({offerA, offerB})
=============================================================================
