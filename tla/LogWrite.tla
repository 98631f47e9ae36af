------------------------------ MODULE LogWrite ------------------------------
(***************************************************************************)
(* log/log_write.c: the threads of a process write to the log while others *)
(* replace the logger, the aborter and the minimum priority.               *)
(*                                                                         *)
(* These three are read without a lock, more than once in a call: each     *)
(* read is a step.  The text and the tag of a message are left out.        *)
(***************************************************************************)
EXTENDS Integers, Sequences, FiniteSets

CONSTANTS
    Threads,
    LogCalls,   \* the calls that each thread makes
    Unset       \* no ANDROID_LOG_MIN_PRIORITY in the environment

ANDROID_LOG_DEFAULT == 1
ANDROID_LOG_VERBOSE == 2
ANDROID_LOG_ERROR == 6
ANDROID_LOG_FATAL == 7
ANDROID_LOG_SILENT == 8

Priorities == 0 .. ANDROID_LOG_SILENT
Loggers == {"logd", "stderr", "user"}
Aborters == {"default", "user"}

\* write is __android_log_buf_write, print __android_log_buf_vprint, message
\* __android_log_write_log_message by a library that has checked the priority.
NoLogCall == [op |-> "none", prio |-> 0, hook |-> "none"]
Writes == {"write", "print", "message", "assert"}

ASSUME LogAssumption ==
    /\ Unset \notin Priorities
    /\ \A t \in Threads : \A c \in LogCalls[t] :
        /\ c \in [op : Writes \cup {"min", "restore", "logger", "aborter"},
                  prio : Nat, hook : Loggers \cup Aborters \cup {"none"}]
        /\ c.op = "logger" => c.hook \in Loggers
        /\ c.op = "aborter" => c.hook \in Aborters
        /\ c.op = "assert" => c.prio = ANDROID_LOG_FATAL

VARIABLES
    minimum,   \* ANDROID_LOG_MIN_PRIORITY
    logger,    \* g_logger_function
    aborter,   \* g_aborter_function
    lpc,       \* where each thread is
    lcall,     \* the call it is in, or has returned from last
    saved,     \* the minimum it got from __android_log_set_minimum_priority
    aborted,   \* has the process called abort?
    handed,    \* history: the loggers its call has handed the message to
    explained, \* history: has its call set the abort message?
    minima,    \* history: the minima in force since its call began
    hooks,     \* history: the loggers in force since its call began
    before     \* history: the minimum before it saved one, while only it sets any
\* (-1 when it has saved none or another thread has set one since)

logVars == <<minimum, logger, aborter, lpc, lcall, saved, aborted,
             handed, explained, minima, hooks, before>>

LogTypeOK ==
    /\ minimum \in Priorities \cup {Unset} /\ logger \in Loggers /\ aborter \in Aborters
    /\ lpc \in [Threads -> {"idle", "choose", "post", "call", "abort", "spin", "set"}]
    /\ saved \in [Threads -> Priorities]
    /\ aborted \in BOOLEAN /\ explained \in [Threads -> BOOLEAN]

LogInit ==
    /\ minimum = Unset /\ logger = "logd" /\ aborter = "default" /\ aborted = FALSE
    /\ lpc = [t \in Threads |-> "idle"] /\ lcall = [t \in Threads |-> NoLogCall]
    /\ saved = [t \in Threads |-> ANDROID_LOG_DEFAULT]
    /\ handed = [t \in Threads |-> <<>>] /\ explained = [t \in Threads |-> FALSE]
    /\ minima = [t \in Threads |-> {}] /\ hooks = [t \in Threads |-> {}]
    /\ before = [t \in Threads |-> -1]

-----------------------------------------------------------------------------
(* Priorities *)

get_minimum_priority == IF minimum = Unset THEN ANDROID_LOG_DEFAULT ELSE minimum

\* The minimum that __android_log_is_loggable compares with, when its caller
\* gives ANDROID_LOG_VERBOSE for the default.
InForce(m) == IF m = ANDROID_LOG_DEFAULT THEN ANDROID_LOG_VERBOSE ELSE m

is_loggable(prio) == prio >= InForce(get_minimum_priority)

\* __android_log_set_minimum_priority takes what is too high for FATAL.
Clamped_default(prio) ==
    IF prio \in ANDROID_LOG_VERBOSE .. ANDROID_LOG_SILENT THEN prio ELSE ANDROID_LOG_FATAL
Clamped_none(prio) == prio
Clamped(prio) == IF prio > ANDROID_LOG_SILENT THEN ANDROID_LOG_FATAL ELSE prio

-----------------------------------------------------------------------------
(* Writing *)

Prio(t) == lcall[t].prio

\* The message has been handed to l; __android_log_assert goes on to abort.
Hands(t, l) ==
    /\ handed' = [handed EXCEPT ![t] = Append(@, l)]
    /\ lpc' = [lpc EXCEPT ![t] = IF lcall[t].op = "assert" THEN "abort" ELSE "idle"]

\* A write begins with the check of its priority, or without.
BeginWrite(t, c) ==
    /\ lpc[t] = "idle" /\ ~aborted /\ c.op \in Writes
    /\ lcall' = [lcall EXCEPT ![t] = c]
    /\ lpc' = [lpc EXCEPT ![t] =
                  IF c.op = "message" THEN "post"
                  ELSE IF is_loggable(c.prio) THEN IF c.op = "write" THEN "post" ELSE "choose"
                  ELSE IF c.op = "assert" THEN "abort" ELSE "idle"]
    /\ handed' = [handed EXCEPT ![t] = <<>>]
    /\ explained' = [explained EXCEPT ![t] = FALSE]
    /\ minima' = [minima EXCEPT ![t] = {InForce(get_minimum_priority)}]
    /\ hooks' = [hooks EXCEPT ![t] = {logger}]
    /\ UNCHANGED <<minimum, logger, aborter, saved, aborted, before>>

\* __android_log_buf_vprint formats straight into syslog for the default
\* logger, and otherwise makes a message, for whatever the logger is by then.
GoesToSyslog_both(t) ==
    /\ handed' = [handed EXCEPT ![t] = Append(@, "logd")]
    /\ lpc' = [lpc EXCEPT ![t] = "post"]
GoesToSyslog(t) == Hands(t, "logd")

ChooseSink(t) ==
    /\ lpc[t] = "choose" /\ ~aborted
    /\ IF logger = "logd" THEN GoesToSyslog(t)
       ELSE lpc' = [lpc EXCEPT ![t] = "post"] /\ UNCHANGED handed
    /\ UNCHANGED <<minimum, logger, aborter, lcall, saved, aborted,
                   explained, minima, hooks, before>>

\* __android_log_write_log_message sets the abort message of a fatal one, and
Explains_silent(prio) == prio = ANDROID_LOG_SILENT
Explains(prio) == prio = ANDROID_LOG_FATAL

Post(t) ==
    /\ lpc[t] = "post" /\ ~aborted
    /\ explained' = [explained EXCEPT ![t] = Explains(Prio(t))]
    /\ lpc' = [lpc EXCEPT ![t] = "call"]
    /\ UNCHANGED <<minimum, logger, aborter, lcall, saved, aborted,
                   handed, minima, hooks, before>>

\* calls the logger.  __android_log_stderr_logger checks the priority again.
CallLogger(t) ==
    /\ lpc[t] = "call" /\ ~aborted
    /\ Hands(t, IF logger = "stderr" /\ ~is_loggable(Prio(t)) THEN "nobody" ELSE logger)
    /\ UNCHANGED <<minimum, logger, aborter, lcall, saved, aborted,
                   explained, minima, hooks, before>>

\* __android_log_call_aborter: the default one sets the abort message and
\* aborts; after another one that returns, __android_log_assert never does.
CallAborter(t) ==
    /\ lpc[t] = "abort" /\ ~aborted
    /\ lpc' = [lpc EXCEPT ![t] = "spin"]
    /\ aborted' = (aborter = "default")
    /\ explained' = [explained EXCEPT ![t] = @ \/ aborter = "default"]
    /\ UNCHANGED <<minimum, logger, aborter, lcall, saved, handed, minima, hooks, before>>

-----------------------------------------------------------------------------
(* Settings *)

Idle(t, c, op) == lpc[t] = "idle" /\ ~aborted /\ c.op = op

\* The threads in the middle of a write.
Writing == {t \in Threads : lpc[t] \in {"choose", "post", "call"}}

SetLogger(t, c) ==
    /\ Idle(t, c, "logger")
    /\ logger' = c.hook
    /\ hooks' = [u \in Threads |-> IF u \in Writing THEN hooks[u] \cup {c.hook} ELSE hooks[u]]
    /\ UNCHANGED <<minimum, aborter, lpc, lcall, saved, aborted, handed, explained, minima, before>>

SetAborter(t, c) ==
    /\ Idle(t, c, "aborter")
    /\ aborter' = c.hook
    /\ UNCHANGED <<minimum, logger, lpc, lcall, saved, aborted, handed, explained, minima, hooks, before>>

\* __android_log_set_minimum_priority looks at the old minimum; a caller that
\* restores the one it has saved calls it too.
BeginSetMinimum(t, c) ==
    /\ Idle(t, c, "min") \/ Idle(t, c, "restore")
    /\ lcall' = [lcall EXCEPT ![t] =
                    [c EXCEPT !.prio = Clamped(IF c.op = "restore" THEN saved[t] ELSE c.prio)]]
    /\ lpc' = [lpc EXCEPT ![t] = "set"]
    /\ IF c.op = "min"
       THEN /\ saved' = [saved EXCEPT ![t] = get_minimum_priority]
            /\ before' = [before EXCEPT ![t] = InForce(get_minimum_priority)]
       ELSE UNCHANGED <<saved, before>>
    /\ UNCHANGED <<minimum, logger, aborter, aborted, handed, explained, minima, hooks>>

\* and replaces it.  The setting of another thread is then no longer its own.
SetMinimum(t) ==
    /\ lpc[t] = "set" /\ ~aborted
    /\ minimum' = Prio(t)
    /\ lpc' = [lpc EXCEPT ![t] = "idle"]
    /\ minima' = [u \in Threads |->
                     IF u \in Writing THEN minima[u] \cup {InForce(Prio(t))} ELSE minima[u]]
    /\ before' = [u \in Threads |-> IF u = t THEN before[u] ELSE -1]
    /\ UNCHANGED <<logger, aborter, lcall, saved, aborted, handed, explained, hooks>>

LogStep(t) ==
    \/ ChooseSink(t) \/ Post(t) \/ CallLogger(t) \/ CallAborter(t) \/ SetMinimum(t)
    \/ \E c \in LogCalls[t] :
          BeginWrite(t, c) \/ SetLogger(t, c) \/ SetAborter(t, c) \/ BeginSetMinimum(t, c)

LogNext == \E t \in Threads : LogStep(t)
LogSpec == LogInit /\ [][LogNext]_logVars

-----------------------------------------------------------------------------
(* Properties *)

Checked == {"write", "print", "assert"}
Returned(t) == lpc[t] \in {"idle", "abort", "spin"} /\ lcall[t].op \in Writes

\* A call that returns 1 has handed its message to exactly one logger, and to
\* one that was g_logger_function at some time during the call, although the
\* pointer is read twice and may change in between; one that returns -EPERM
\* has handed it to none.  Only stderr may drop it, and only for a minimum
\* above its priority.
DeliveredOnce ==
    \A t \in Threads : Returned(t) =>
        \/ /\ handed[t] = <<>> /\ lcall[t].op \in Checked
           /\ \E m \in minima[t] : Prio(t) < m
        \/ /\ Len(handed[t]) = 1
           /\ \/ handed[t][1] \in hooks[t]
              \/ /\ handed[t][1] = "nobody" /\ "stderr" \in hooks[t]
                 /\ \E m \in minima[t] : Prio(t) < m
           /\ lcall[t].op \in Checked => \E m \in minima[t] : Prio(t) >= m

\* A fatal message reaches a logger that is not logd only after the abort
\* message has been set to it, whichever way the logger was chosen.
FatalExplained ==
    \A t \in Threads :
        (Returned(t) /\ Prio(t) = ANDROID_LOG_FATAL /\ handed[t] \notin {<<>>, <<"logd">>})
            => explained[t]

\* A thread that sets the minimum priority and later sets it back to what the
\* call returned leaves the filter as it was before, if no other thread sets
\* it meanwhile, also when none had been set.
MinimumRestored ==
    \A t \in Threads :
        (lpc[t] = "idle" /\ lcall[t].op = "restore" /\ before[t] # -1) =>
            InForce(get_minimum_priority) = before[t]

=============================================================================
