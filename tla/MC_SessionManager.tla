------------------------- MODULE MC_SessionManager -------------------------
(***************************************************************************)
(* SessionManager with overlapping calls of session.execute.               *)
(*                                                                         *)
(* MC_SessionManager.cfg, whose initial state chooses a scene.             *)
(* "calls": two sessions, so that a call can outlive its own session while *)
(* another is created, one entry, and nobody listening to /events.         *)
(* "audit": one session without a mount, a dashboard on /events that may   *)
(* fail, and two entries, so that one call logs while the other is being   *)
(* answered.                                                               *)
(* Nobody pages in either: MC_Clients has that.                            *)
(***************************************************************************)
EXTENDS SessionManager

CONSTANTS r1, r2

VARIABLE scene

MCSession == 1 .. MaxSessions

MCInit == Init /\ scene \in {"calls", "audit"}

MCNext ==
    /\ Next /\ UNCHANGED scene
    /\ scene = "calls" => listeners' = listeners /\ Len(globalEntries') <= 1
    /\ scene = "audit" =>
        /\ counter' <= 1 /\ creation'[1] # "mounting"
        /\ \A c \in Client : feed'[c].filter \in {1, AnyId}

MCSpec == MCInit /\ [][MCNext]_<<vars, scene>> /\ Fairness
=============================================================================
