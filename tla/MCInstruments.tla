---------------------------- MODULE MCInstruments ----------------------------
(***************************************************************************)
(* Two threads log, one of them traces, and atrace switches the tags.      *)
(***************************************************************************)
EXTENDS Instruments

CONSTANTS worker, manager

Write(op, prio) == [op |-> op, prio |-> prio, hook |-> "none"]
Hook(op, hook) == [op |-> op, prio |-> 0, hook |-> hook]

\* The worker writes at the priorities around the minimum, the manager
\* replaces what the worker's calls read and fails an assertion of its own.
WorkerCalls ==
    {Write(op, prio) : op \in {"write", "print", "message"},
                       prio \in {ANDROID_LOG_ERROR, ANDROID_LOG_FATAL}}
ManagerCalls ==
    {Write("min", ANDROID_LOG_SILENT), Write("min", ANDROID_LOG_SILENT + 1),
     Write("restore", 0),
     Write("assert", ANDROID_LOG_FATAL),
     Hook("logger", "stderr"), Hook("logger", "logd"), Hook("logger", "user"),
     Hook("aborter", "user"), Hook("aborter", "default")}

Calls == (worker :> WorkerCalls) @@ (manager :> ManagerCalls)

\* Two categories, and a bit of UINT64_MAX that has no name.
Gfx == "gfx"
Input == "input"
Names == {Gfx, Input}
Bits == Names \cup {"bit63"}
ArgumentLists ==
    {<<Input, Gfx>>, <<"always">>, <<Gfx, "never">>, <<"never", Input>>,
     <<Input, "always">>, <<"always", "unknown">>}

\* The log and the trace share nothing but the end of the process: one of them
\* is explored to its end while the other is as it was at the start, and each
\* state of one is met by the first steps of the other.
OneInstrument == LogInit \/ TraceInit

=============================================================================
