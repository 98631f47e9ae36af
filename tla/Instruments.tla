----------------------------- MODULE Instruments -----------------------------
(***************************************************************************)
(* The log and the trace in one process: a thread is in one call at a      *)
(* time, and when an assertion has aborted the process nothing is written  *)
(* any more.  atrace runs beside them.                                     *)
(***************************************************************************)
EXTENDS LogWrite, Trace

instrumentVars == <<logVars, traceVars>>

InstrumentsInit == LogInit /\ TraceInit

\* A thread traces while it is in no call of the log, and the other way round.
ThreadLogs(t) ==
    /\ t \in Tracers => tpc[t] = "none"
    /\ LogStep(t)
    /\ UNCHANGED traceVars

ThreadTraces(t) ==
    /\ ~aborted
    /\ t \in Threads => lpc[t] = "idle"
    /\ TraceStep(t)
    /\ UNCHANGED logVars

CommandSwitches == ~aborted /\ AtraceNext /\ UNCHANGED logVars

InstrumentsNext ==
    \/ \E t \in Threads : ThreadLogs(t)
    \/ \E t \in Tracers : ThreadTraces(t)
    \/ CommandSwitches

InstrumentsSpec == InstrumentsInit /\ [][InstrumentsNext]_instrumentVars

\* The settings, the places of the threads and the tags of log_write.c and
\* trace.c keep their types, whatever both do to one process.
InstrumentsTypeOK == LogTypeOK /\ TraceTypeOK

=============================================================================
