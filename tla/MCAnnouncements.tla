-------------------------- MODULE MCAnnouncements --------------------------
(* Announcements of one user who logs in and out on two connections. *)
EXTENDS Announcements
=============================================================================
