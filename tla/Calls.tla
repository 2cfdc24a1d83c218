------------------------------- MODULE Calls --------------------------------
(***************************************************************************)
(* One call of a library operation at a time.  The modules of the pure     *)
(* operations extend this one: a step from Ready records in `call` the     *)
(* inputs of an operation and what the code returns for them, and the next *)
(* step is back at Ready.                                                  *)
(***************************************************************************)
EXTENDS Collections

VARIABLE call

Ready == [op |-> "ready"]

CallsInit == call = Ready
Return == call # Ready /\ call' = Ready
=============================================================================
