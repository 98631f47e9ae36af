----------------------------- MODULE MCPrograms -----------------------------
(* Two programs for the threads of MCSystemProperties, of which a behaviour   *)
(* follows one: its steps are those of SysSpec, with the calls that begin     *)
(* taken from the program chosen at the start.                                *)
EXTENDS MCSystemProperties

VARIABLE program

Programs == [types |-> TypeProgram, serials |-> SerialProgram]

EitherProgram == [t \in Threads |-> UNION {Programs[q][t] : q \in DOMAIN Programs}]

Follows ==
    \A t \in Threads : call'[t] \in {call[t], NoCall} \cup Programs[program][t]

ProgramInit == PropInit /\ program \in DOMAIN Programs
ProgramNext == SysNext /\ Follows /\ UNCHANGED program
ProgramSpec == ProgramInit /\ [][ProgramNext]_<<apiVars, sysVars, program>>

=============================================================================
