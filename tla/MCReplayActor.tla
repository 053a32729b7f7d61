----------------------------- MODULE MCReplayActor -----------------------------
(* Model checking of ReplayActor: two clients and the commands they may send. *)
EXTENDS ReplayActor

CONSTANTS a, b

Shape(type, client, arg) == [type |-> type, client |-> client, arg |-> arg]

\* The owner's commands, and what the other client tries.
MCShapes ==
  {Shape(type, a, 0) : type \in Types \ {"ADVANCE_BY", "SEEK_TO", "SET_SPEED"}}
  \cup {Shape("SET_SPEED", a, 1), Shape("ADVANCE_BY", a, 3), Shape("SEEK_TO", a, 1)}
  \cup {Shape("ACQUIRE_CONTROLLER", b, 0)}

===============================================================================
