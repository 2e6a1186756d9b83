--------------------------- MODULE MCStoreBundle ---------------------------
(* The bundle for TLC, with files or Mongo and with either idempotency     *)
(* store: two deliveries, of one post or of two, so that a post is run     *)
(* again or two runs share the stores, a ring of one entry, so that one is *)
(* evicted, and any two of a fault, a reset and a restart at any moment.   *)
EXTENDS StoreBundle

BundleSymmetry == Permutations(Runs) \cup Permutations(Posts)
=============================================================================
