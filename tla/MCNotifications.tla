-------------------------- MODULE MCNotifications --------------------------
(* Two events, two callbacks that may overlap, batches of one. *)
EXTENDS Notifications

=============================================================================
