------------------------------- MODULE Client -------------------------------
(***************************************************************************)
(* What the screens of the client have in common: one thread that runs     *)
(* handlers to their next await, requests under way whose answers come in  *)
(* any order, and a user who may do MaxSteps things.  Each screen is a     *)
(* module of its own over the same three variables.                        *)
(***************************************************************************)
EXTENDS Integers, FiniteSets, Sequences

CONSTANT MaxSteps      \* bound: what a user does

VARIABLES
  ui,      \* the state of the screen that is open, a record
  calls,   \* requests and timers under way, each a record
  steps

client == <<ui, calls, steps>>

Act == steps < MaxSteps /\ steps' = steps + 1     \* the user does something
Net == UNCHANGED steps                            \* an answer or a timer
Of(kinds) == {c \in calls : c.kind \in kinds}
If(p, S) == IF p THEN S ELSE {}
=============================================================================
