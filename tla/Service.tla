------------------------------- MODULE Service -------------------------------
(***************************************************************************)
(* One container over its life: the start-up sequence, and the logins it   *)
(* serves until the process dies and the sequence begins again. The volume *)
(* keeps the database; the throttle lives in the memory of one process.    *)
(***************************************************************************)
EXTENDS Startup, Login

vars == <<startupVars, loginVars>>

Init == StartupInit /\ LoginInit

Starting == Proceed /\ UNCHANGED loginVars
Serving == stage = "serving" /\ Operate /\ UNCHANGED startupVars
Dying == (SeedDies \/ WorkerDies \/ ContainerDies) /\ Forget

Next == Starting \/ Serving \/ Dying

Spec == Init /\ [][Next]_vars /\ WF_vars(Starting)

TypeOK == StartupTypeOK /\ LoginTypeOK
=============================================================================
