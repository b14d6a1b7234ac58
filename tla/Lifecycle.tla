------------------------------- MODULE Lifecycle -------------------------------
(* start and stop of the router (src/src/index.ts), cut where they await   *)
(* something.  They are called in turn, each when the other has returned.  *)
EXTENDS Integers, Sequences

CONSTANTS
  MaxSessions   \* bound: starts

ASSUME SessionAssumption == MaxSessions \in Nat

VARIABLES
  life,     \* where the router is between start and stop
  session   \* starts so far

lifeVars == <<life, session>>

Lives == {
  "stopped",
  "starting",   \* start awaits the registrar
  "started",    \* status is started
  "stopping",   \* status is stopped, stop awaits the registrar
  "closing" }   \* stop awaits the closing of the streams

LifeInit == life = "stopped" /\ session = 0

Started == life = "started"

(* The registrar may call back. *)
Registered == life \in {"starting", "started", "stopping"}

StartBegins ==
  /\ life = "stopped" /\ session < MaxSessions
  /\ life' = "starting" /\ session' = session + 1

Moves(from, to) == life = from /\ life' = to /\ UNCHANGED session

LifeTypeOK == life \in Lives /\ session \in 0..MaxSessions
===============================================================================
