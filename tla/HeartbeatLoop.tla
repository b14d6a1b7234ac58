----------------------------- MODULE HeartbeatLoop -----------------------------
(***************************************************************************)
(* The timers that run the heartbeat (src/src/index.ts).  The status of a  *)
(* started router refers to one timer; stop drops the status and clears no *)
(* timer (heartbeatTimer, which it would cancel, is never set), so a timer *)
(* or a heartbeat of an earlier start may meet those of a later one.       *)
(***************************************************************************)
EXTENDS Lifecycle

VARIABLES
  armed,     \* status.heartbeatTimeout is pending
  orphans,   \* pending timers that no status refers to
  running    \* heartbeats that have not ended

loopVars == <<lifeVars, armed, orphans, running>>

LoopsInit == LifeInit /\ armed = FALSE /\ orphans = 0 /\ running = 0

(* The first timer is set with the status. *)
StartsLoop ==
  /\ \/ StartBegins /\ UNCHANGED armed
     \/ Moves("starting", "started") /\ armed' = TRUE
  /\ UNCHANGED <<orphans, running>>

StopsLoop ==
  /\ \/ /\ Moves("started", "stopping")
        /\ armed' = FALSE
        /\ orphans' = IF armed THEN orphans + 1 ELSE orphans
     \/ /\ Moves("stopping", "closing") \/ Moves("closing", "stopped")
        /\ UNCHANGED <<armed, orphans>>
  /\ UNCHANGED running

(* Timing: a heartbeat ends before the timer it competes with is due.      *)
TimerFires ==
  /\ armed /\ running = 0
  /\ armed' = FALSE /\ running' = 1
  /\ UNCHANGED <<lifeVars, orphans>>

OrphanFires ==
  /\ orphans > 0
  /\ orphans' = orphans - 1 /\ running' = running + 1
  /\ UNCHANGED <<lifeVars, armed>>

(* Mutant: the timer that is replaced is not cleared. *)
HeartbeatEndsAndAdds ==
  /\ running > 0
  /\ running' = running - 1
  /\ armed' = (armed \/ Started)
  /\ orphans' = IF armed THEN orphans + 1 ELSE orphans
  /\ UNCHANGED lifeVars

(* The timer of the status is cleared and set anew. *)
HeartbeatEnds ==
  /\ running > 0
  /\ running' = running - 1
  /\ armed' = (armed \/ Started)
  /\ UNCHANGED <<lifeVars, orphans>>

LoopsNext ==
  \/ StartsLoop \/ StopsLoop
  \/ TimerFires \/ OrphanFires \/ HeartbeatEnds

LoopsSpec == LoopsInit /\ [][LoopsNext]_loopVars

(* Timers fire and heartbeats end. *)
LoopsFair ==
  WF_loopVars(TimerFires) /\ WF_loopVars(OrphanFires) /\ WF_loopVars(HeartbeatEnds)

(* ------------------------------ properties ------------------------------ *)

LoopsTypeOK ==
  /\ LifeTypeOK
  /\ armed \in BOOLEAN /\ (armed => Started)
  /\ orphans \in Nat /\ running \in Nat

Loops == orphans + running + (IF armed THEN 1 ELSE 0)

(* Restarts do not multiply heartbeats for good: timers left by stop and   *)
(* heartbeats that outlive it merge with the loop of the last start, or    *)
(* end with it.                                                            *)
LoopsMerge == <>[](Loops <= 1)
===============================================================================
