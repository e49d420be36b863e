----------------------------- MODULE MCJournal -----------------------------
(* The durability journal: one replica, its disk, crashes.                 *)
EXTENDS Journal
=============================================================================
