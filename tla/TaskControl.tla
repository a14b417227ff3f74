---------------------------- MODULE TaskControl -----------------------------
(***************************************************************************)
(* What a task of src/code/task promises the one who controls it: a pass   *)
(* of its work begins only while the last call was one to work, and none   *)
(* begins once the task is closed.                                         *)
(***************************************************************************)
VARIABLES wanted,    \* was the last call start or resume?
          working,   \* is a pass of the work under way?
          closed     \* has the destructor begun?

controlVars == <<wanted, working, closed>>

ControlInit == wanted = FALSE /\ working = FALSE /\ closed = FALSE

Tell(b) == /\ ~closed
           /\ wanted' = b
           /\ UNCHANGED <<working, closed>>

Begin == /\ wanted
         /\ ~working
         /\ ~closed
         /\ working' = TRUE
         /\ UNCHANGED <<wanted, closed>>

End == /\ working
       /\ working' = FALSE
       /\ UNCHANGED <<wanted, closed>>

Close == /\ ~closed
         /\ closed' = TRUE
         /\ wanted' = FALSE
         /\ UNCHANGED working

ControlNext == (\E b \in BOOLEAN : Tell(b)) \/ Begin \/ End \/ Close
=============================================================================
