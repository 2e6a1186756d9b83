--------------------------- MODULE MCConversions ---------------------------
(* Conversion tracking for TLC, on either store: two reservations, two     *)
(* concurrent webhook handlers, three auto-replies and three               *)
(* confirmations, so that a reservation is handled again after its         *)
(* conversion and confirmed more often than there are handlers.            *)
EXTENDS Conversions
=============================================================================
