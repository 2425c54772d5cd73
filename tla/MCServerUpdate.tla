--------------------------- MODULE MCServerUpdate ---------------------------
(* Three requests and two releases: enough for two updaters at once, for a *)
(* run that starts on what a dead or failed one left behind, and for a     *)
(* third one that starts on what the second left of that.                  *)
EXTENDS ServerUpdate

(* Explore a behaviour up to the first window that lets two updaters run:  *)
(* afterwards the properties of this run promise nothing.  Commands may    *)
(* time out and complete later, all but a pg_restore.                      *)
Guarded == {"race", "reaped", "late"} \cap flaw = {}
=============================================================================
