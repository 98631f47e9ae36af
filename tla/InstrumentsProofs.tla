-------------------------- MODULE InstrumentsProofs --------------------------
(***************************************************************************)
(* What log/log_write.c and trace/ keep true of a process with any number  *)
(* of threads, any calls of the log and any argument lists of atrace.      *)
(*                                                                         *)
(* Each step of the process is a step of the log or of the trace, so each  *)
(* has an inductive invariant of its own.                                  *)
(***************************************************************************)
EXTENDS Instruments, TLAPS

-----------------------------------------------------------------------------
(* The log *)

LogHistory ==
    /\ lcall \in [Threads -> [op : Writes \cup {"none", "min", "restore"}, prio : Nat,
                              hook : Loggers \cup Aborters \cup {"none"}]]
    /\ handed \in [Threads -> Seq(Loggers \cup {"nobody"})]
    /\ minima \in [Threads -> SUBSET Nat] /\ hooks \in [Threads -> SUBSET Loggers]
    /\ before \in [Threads -> Int]

\* A thread in the middle of a write has handed its message to nobody yet, has
\* the settings in force among those it may have met, and has met a minimum
\* that lets the message through if its call has checked the priority.
InTheMiddle(t) ==
    t \in Writing =>
        /\ lcall[t].op \in Writes /\ handed[t] = <<>>
        /\ logger \in hooks[t] /\ InForce(get_minimum_priority) \in minima[t]
        /\ lcall[t].op \in Checked => \E m \in minima[t] : Prio(t) >= m

\* What a thread's place in the code says of its call.
AtItsPlace(t) ==
    /\ lpc[t] = "call" => explained[t] = (Prio(t) = ANDROID_LOG_FATAL)
    /\ lpc[t] \in {"abort", "spin"} => lcall[t].op = "assert"
    /\ lpc[t] = "set" => lcall[t].op \in {"min", "restore"} /\ Prio(t) \in Priorities

\* What a thread has saved is the minimum before its own, as long as it counts,
\* and that is what it is about to set back.
SavedOne(t) ==
    /\ before[t] # -1 => InForce(saved[t]) = before[t]
    /\ lpc[t] = "set" /\ lcall[t].op = "restore" => Prio(t) = saved[t]

\* The three properties, for one thread.
Delivered(t) ==
    Returned(t) =>
        \/ /\ handed[t] = <<>> /\ lcall[t].op \in Checked
           /\ \E m \in minima[t] : Prio(t) < m
        \/ /\ Len(handed[t]) = 1
           /\ \/ handed[t][1] \in hooks[t]
              \/ /\ handed[t][1] = "nobody" /\ "stderr" \in hooks[t]
                 /\ \E m \in minima[t] : Prio(t) < m
           /\ lcall[t].op \in Checked => \E m \in minima[t] : Prio(t) >= m
FatalOne(t) ==
    (Returned(t) /\ Prio(t) = ANDROID_LOG_FATAL /\ handed[t] \notin {<<>>, <<"logd">>})
        => explained[t]
RestoredOne(t) ==
    (lpc[t] = "idle" /\ lcall[t].op = "restore" /\ before[t] # -1) =>
        InForce(get_minimum_priority) = before[t]

ThreadInv(t) ==
    /\ InTheMiddle(t) /\ AtItsPlace(t) /\ SavedOne(t)
    /\ Delivered(t) /\ FatalOne(t) /\ RestoredOne(t)

LogInv == LogTypeOK /\ LogHistory /\ \A t \in Threads : ThreadInv(t)

USE DEF Priorities, ANDROID_LOG_DEFAULT, ANDROID_LOG_VERBOSE, ANDROID_LOG_FATAL,
        ANDROID_LOG_SILENT

\* A call is what its type says, field by field.
LEMMA CallType ==
    ASSUME NEW t \in Threads, NEW c \in LogCalls[t]
    PROVE  /\ c \in [op : Writes \cup {"min", "restore", "logger", "aborter"},
                     prio : Nat, hook : Loggers \cup Aborters \cup {"none"}]
           /\ c.prio \in Nat
           /\ c.op = "logger" => c.hook \in Loggers
           /\ c.op = "aborter" => c.hook \in Aborters
  BY LogAssumption

\* What is set is a priority, and a priority is set as it is.
LEMMA ClampedType ==
    ASSUME NEW q \in Nat
    PROVE  Clamped(q) \in Nat /\ Clamped(q) \in Priorities /\ (q \in Priorities => Clamped(q) = q)
  BY DEF Clamped

\* What the filter compares with is a priority.
LEMMA InForceType ==
    ASSUME LogTypeOK
    PROVE  get_minimum_priority \in Priorities /\ InForce(get_minimum_priority) \in Priorities
  BY DEF LogTypeOK, get_minimum_priority, InForce

LEMMA LogInvInit == LogInit => LogInv
  <1> SUFFICES ASSUME LogInit PROVE LogInv
    OBVIOUS
  <1>1. LogTypeOK /\ LogHistory
    <2>1. NoLogCall \in [op : Writes \cup {"none", "min", "restore"}, prio : Nat,
                         hook : Loggers \cup Aborters \cup {"none"}]
      BY DEF NoLogCall
    <2> QED
      <3>1. LogTypeOK
        <4>1. minimum = Unset /\ logger \in Loggers /\ aborter \in Aborters /\ aborted \in BOOLEAN
          BY DEF LogInit, Loggers, Aborters
        <4>2. saved \in [Threads -> Priorities] /\ explained \in [Threads -> BOOLEAN]
          BY DEF LogInit
        <4> QED
          BY <4>1, <4>2 DEF LogInit, LogTypeOK
      <3>2. lcall \in [Threads -> [op : Writes \cup {"none", "min", "restore"}, prio : Nat,
                                   hook : Loggers \cup Aborters \cup {"none"}]]
        BY <2>1 DEF LogInit
      <3>3. handed \in [Threads -> Seq(Loggers \cup {"nobody"})]
        BY DEF LogInit
      <3>4. minima \in [Threads -> SUBSET Nat] /\ hooks \in [Threads -> SUBSET Loggers]
        BY DEF LogInit
      <3>5. before \in [Threads -> Int]
        BY DEF LogInit
      <3> QED
        BY <3>1, <3>2, <3>3, <3>4, <3>5 DEF LogHistory
  <1>2. ASSUME NEW t \in Threads PROVE ThreadInv(t)
    <2>1. lpc[t] = "idle" /\ lcall[t].op = "none" /\ before[t] = -1
      BY DEF LogInit, NoLogCall
    <2> QED
      BY <2>1 DEF ThreadInv, InTheMiddle, AtItsPlace, SavedOne, Delivered, FatalOne, RestoredOne,
                  Writing, Returned, Writes
  <1> QED
    BY <1>1, <1>2 DEF LogInv

\* What the log keeps for one thread.
Mine(t) ==
    <<lpc[t], lcall[t], saved[t], handed[t], explained[t], minima[t], hooks[t], before[t]>>

\* A thread that a step leaves alone, with the settings, stays as it is.
LEMMA OtherThread ==
    ASSUME NEW u \in Threads, ThreadInv(u), Mine(u)' = Mine(u), UNCHANGED <<minimum, logger>>
    PROVE  ThreadInv(u)'
  BY DEF ThreadInv, InTheMiddle, AtItsPlace, SavedOne, Delivered, FatalOne, RestoredOne, Mine,
         Writing, Returned, Prio, InForce, get_minimum_priority

LEMMA LogTypeStep == LogInv /\ [LogNext]_logVars => (LogTypeOK /\ LogHistory)'
  <1> SUFFICES ASSUME LogInv, [LogNext]_logVars PROVE (LogTypeOK /\ LogHistory)'
    OBVIOUS
  <1> USE DEF LogInv, LogTypeOK, LogHistory
  <1>1. CASE UNCHANGED logVars
    BY <1>1 DEF logVars
  <1>2. ASSUME NEW t \in Threads, LogStep(t) PROVE (LogTypeOK /\ LogHistory)'
    <2>1. CASE ChooseSink(t)
      <3>1. Append(handed[t], "logd") \in Seq(Loggers \cup {"nobody"})
        BY DEF Loggers
      <3>2. handed' \in [Threads -> Seq(Loggers \cup {"nobody"})]
        BY <2>1, <3>1 DEF ChooseSink, GoesToSyslog, Hands
      <3>3. lpc' \in [Threads -> {"idle", "choose", "post", "call", "abort", "spin", "set"}]
        BY <2>1 DEF ChooseSink, GoesToSyslog, Hands
      <3> QED
        BY <2>1, <3>2, <3>3 DEF ChooseSink
    <2>2. CASE Post(t)
      BY <2>2 DEF Post, Explains
    <2>3. CASE CallLogger(t)
      BY <2>3 DEF CallLogger, Hands
    <2>4. CASE CallAborter(t)
      BY <2>4 DEF CallAborter
    <2>5. CASE SetMinimum(t)
      <3>1. Prio(t) \in Priorities /\ InForce(Prio(t)) \in Nat
        BY <2>5 DEF SetMinimum, ThreadInv, AtItsPlace, InForce
      <3> QED
        BY <2>5, <3>1 DEF SetMinimum
    <2>6. ASSUME NEW c \in LogCalls[t], BeginWrite(t, c) PROVE (LogTypeOK /\ LogHistory)'
      BY <2>6, InForceType, CallType DEF BeginWrite, Writes
    <2>7. ASSUME NEW c \in LogCalls[t], SetLogger(t, c) PROVE (LogTypeOK /\ LogHistory)'
      BY <2>7, CallType DEF SetLogger, Idle
    <2>8. ASSUME NEW c \in LogCalls[t], SetAborter(t, c) PROVE (LogTypeOK /\ LogHistory)'
      BY <2>8, CallType DEF SetAborter, Idle
    <2>9. ASSUME NEW c \in LogCalls[t], BeginSetMinimum(t, c) PROVE (LogTypeOK /\ LogHistory)'
      <3> DEFINE p == Clamped(IF c.op = "restore" THEN saved[t] ELSE c.prio)
      <3>1. p \in Nat
        <4>1. saved[t] \in Nat /\ c.prio \in Nat
          <5>1. saved[t] \in Priorities
            OBVIOUS
          <5>2. c.prio \in Nat
            BY CallType
          <5> QED
            BY <5>1, <5>2
        <4>2. CASE c.op = "restore"
          BY <4>1, <4>2, ClampedType
        <4>3. CASE c.op # "restore"
          BY <4>1, <4>3, ClampedType
        <4> QED
          BY <4>2, <4>3
      <3> HIDE DEF p
      <3>2. [c EXCEPT !.prio = p] \in [op : Writes \cup {"none", "min", "restore"}, prio : Nat,
                                       hook : Loggers \cup Aborters \cup {"none"}]
        <4>1. c.op \in {"min", "restore"}
          BY <2>9 DEF BeginSetMinimum, Idle
        <4>2. c \in [op : Writes \cup {"min", "restore", "logger", "aborter"},
                     prio : Nat, hook : Loggers \cup Aborters \cup {"none"}]
          BY CallType
        <4> QED
          BY <3>1, <4>1, <4>2
      <3>3. lcall' = [lcall EXCEPT ![t] = [c EXCEPT !.prio = p]]
        BY <2>9 DEF BeginSetMinimum, p
      <3>4. saved' \in [Threads -> Priorities] /\ before' \in [Threads -> Int]
        <4>1. CASE c.op = "min"
          <5>1. /\ saved' = [saved EXCEPT ![t] = get_minimum_priority]
                /\ before' = [before EXCEPT ![t] = InForce(get_minimum_priority)]
            BY <2>9, <4>1 DEF BeginSetMinimum
          <5> QED
            BY <5>1, InForceType
        <4>2. CASE c.op # "min"
          BY <2>9, <4>2 DEF BeginSetMinimum
        <4> QED
          BY <4>1, <4>2
      <3> QED
        <4>1. lcall' \in [Threads -> [op : Writes \cup {"none", "min", "restore"}, prio : Nat,
                                      hook : Loggers \cup Aborters \cup {"none"}]]
          BY <3>2, <3>3
        <4>2. /\ lpc' = [lpc EXCEPT ![t] = "set"]
              /\ UNCHANGED <<minimum, logger, aborter, aborted, handed, explained, minima, hooks>>
          BY <2>9 DEF BeginSetMinimum
        <4> QED
          BY <3>4, <4>1, <4>2
    <2> QED
      BY <1>2, <2>1, <2>2, <2>3, <2>4, <2>5, <2>6, <2>7, <2>8, <2>9 DEF LogStep
  <1> QED
    BY <1>1, <1>2 DEF LogNext

\* The writer: it goes on, hands its message over once, or aborts.
LEMMA WriterStep ==
    ASSUME LogInv, NEW t \in Threads, ~aborted,
           ChooseSink(t) \/ Post(t) \/ CallLogger(t) \/ CallAborter(t)
    PROVE  ThreadInv(t)'
  <1> USE DEF LogInv, LogTypeOK, LogHistory
  <1>1. ThreadInv(t)
    OBVIOUS
  <1> USE DEF ThreadInv, InTheMiddle, AtItsPlace, SavedOne, Writing, Prio, Returned, Checked
  <1>2. CASE ChooseSink(t)
    <2>1. /\ handed[t] = <<>> /\ lcall[t].op \in Writes
          /\ UNCHANGED <<minimum, logger, lcall, saved, explained, minima, hooks, before>>
      BY <1>1, <1>2 DEF ChooseSink
    <2>2. CASE logger = "logd"
      <3>1. handed'[t] = <<"logd">> /\ lpc'[t] \in {"idle", "abort"}
        BY <1>2, <2>1, <2>2 DEF ChooseSink, GoesToSyslog, Hands
      <3>2. lpc'[t] = "abort" => lcall[t].op = "assert"
        BY <1>2, <2>2 DEF ChooseSink, GoesToSyslog, Hands
      <3>3. Delivered(t)'
        BY <1>1, <1>2, <2>1, <2>2, <3>1 DEF ChooseSink, Delivered
      <3> QED
        BY <1>1, <2>1, <3>1, <3>2, <3>3 DEF FatalOne, RestoredOne, Writes
    <2>3. CASE logger # "logd"
      BY <1>1, <1>2, <2>1, <2>3
         DEF ChooseSink, InForce, get_minimum_priority, Delivered, FatalOne, RestoredOne
    <2> QED
      BY <2>2, <2>3
  <1>3. CASE Post(t)
    BY <1>1, <1>3 DEF Post, Explains, InForce, get_minimum_priority, Delivered, FatalOne, RestoredOne
  <1>4. CASE CallLogger(t)
    <2> DEFINE l == IF logger = "stderr" /\ ~is_loggable(Prio(t)) THEN "nobody" ELSE logger
    <2>1. /\ handed[t] = <<>> /\ lcall[t].op \in Writes
          /\ UNCHANGED <<minimum, logger, lcall, saved, explained, minima, hooks, before>>
      BY <1>1, <1>4 DEF CallLogger
    <2>2. handed'[t] = <<l>> /\ lpc'[t] = (IF lcall[t].op = "assert" THEN "abort" ELSE "idle")
      BY <1>4, <2>1 DEF CallLogger, Hands
    <2>3. logger \in hooks[t] /\ (lcall[t].op \in Checked => \E m \in minima[t] : Prio(t) >= m)
      BY <1>1, <1>4 DEF CallLogger
    <2>4. l = "nobody" => "stderr" \in hooks[t] /\ \E m \in minima[t] : Prio(t) < m
      <3>1. InForce(get_minimum_priority) \in minima[t] /\ InForce(get_minimum_priority) \in Nat
        BY <1>1, <1>4, InForceType DEF CallLogger
      <3> QED
        BY <2>3, <3>1 DEF is_loggable, Loggers
    <2>5. l # "nobody" => l = logger
      OBVIOUS
    <2> HIDE DEF l
    <2>6. Delivered(t)'
      BY <2>1, <2>2, <2>3, <2>4, <2>5 DEF Delivered
    <2>7. FatalOne(t)'
      BY <1>1, <1>4, <2>1, <2>2 DEF CallLogger, FatalOne
    <2> QED
      BY <1>1, <2>1, <2>2, <2>6, <2>7 DEF RestoredOne, Writes
  <1>5. CASE CallAborter(t)
    BY <1>1, <1>5 DEF CallAborter, Delivered, FatalOne, RestoredOne
  <1> QED
    BY <1>2, <1>3, <1>4, <1>5

\* A thread that begins a call.
LEMMA CallerStep ==
    ASSUME LogInv, NEW t \in Threads, NEW c \in LogCalls[t],
           BeginWrite(t, c) \/ BeginSetMinimum(t, c)
    PROVE  ThreadInv(t)'
  <1> USE DEF LogInv, LogTypeOK, LogHistory
  <1>1. ThreadInv(t)
    OBVIOUS
  <1> USE DEF ThreadInv, InTheMiddle, AtItsPlace, SavedOne, Writing, Prio, Returned, Checked
  <1>2. CASE BeginWrite(t, c)
    <2>1. /\ lcall'[t] = c /\ handed'[t] = <<>> /\ c.op \in Writes /\ c.prio \in Nat
          /\ minima'[t] = {InForce(get_minimum_priority)} /\ hooks'[t] = {logger}
          /\ UNCHANGED <<minimum, logger, saved, before>>
      BY <1>2, CallType DEF BeginWrite
    <2>2. /\ InForce(get_minimum_priority)' = InForce(get_minimum_priority)
          /\ InForce(get_minimum_priority) \in Nat
      BY <2>1, InForceType DEF InForce, get_minimum_priority
    <2>3. \/ lpc'[t] = "post" /\ (c.op = "message" \/ is_loggable(c.prio))
          \/ lpc'[t] = "choose" /\ is_loggable(c.prio)
          \/ lpc'[t] = "abort" /\ c.op = "assert" /\ ~is_loggable(c.prio)
          \/ lpc'[t] = "idle" /\ c.op \in Checked /\ ~is_loggable(c.prio)
      BY <1>2, <2>1 DEF BeginWrite, Writes
    <2>4. (InTheMiddle(t) /\ AtItsPlace(t))'
      BY <2>1, <2>2, <2>3 DEF is_loggable
    <2>5. Delivered(t)'
      BY <2>1, <2>2, <2>3 DEF Delivered, is_loggable
    <2>6. (SavedOne(t) /\ FatalOne(t) /\ RestoredOne(t))'
      BY <1>1, <2>1, <2>3 DEF FatalOne, RestoredOne, Writes
    <2> QED
      BY <2>4, <2>5, <2>6
  <1>3. CASE BeginSetMinimum(t, c)
    <2> DEFINE p == Clamped(IF c.op = "restore" THEN saved[t] ELSE c.prio)
    <2>1. lcall'[t] = [c EXCEPT !.prio = p] /\ lpc'[t] = "set" /\ c.op \in {"min", "restore"}
      BY <1>3 DEF BeginSetMinimum, Idle
    <2>2. c.prio \in Nat /\ saved[t] \in Priorities
      BY CallType
    <2>3. p \in Priorities /\ (c.op = "restore" => p = saved[t])
      <3>1. CASE c.op = "restore"
        BY <2>2, <3>1 DEF Clamped
      <3>2. CASE c.op # "restore"
        BY <2>2, <3>2, ClampedType
      <3> QED
        BY <3>1, <3>2
    <2> HIDE DEF p
    <2>4. lcall'[t].op = c.op /\ lcall'[t].prio = p
      BY <2>1, CallType
    <2>5. before'[t] # -1 => InForce(saved'[t]) = before'[t]
      BY <1>1, <1>3 DEF BeginSetMinimum
    <2>6. SavedOne(t)'
      <3>1. c.op = "restore" => saved'[t] = saved[t]
        BY <1>3 DEF BeginSetMinimum
      <3> QED
        BY <2>3, <2>4, <2>5, <3>1 DEF InForce
    <2> QED
      BY <2>1, <2>3, <2>4, <2>6 DEF Delivered, FatalOne, RestoredOne
  <1> QED
    BY <1>2, <1>3

\* The settings change under the threads that are writing, which then have met
\* the new ones too.
LEMMA SettingsStep ==
    ASSUME LogInv, NEW t \in Threads,
           SetMinimum(t) \/ \E c \in LogCalls[t] : SetLogger(t, c) \/ SetAborter(t, c)
    PROVE  \A u \in Threads : ThreadInv(u)'
  <1> USE DEF LogInv, LogTypeOK, LogHistory
  <1> TAKE u \in Threads
  <1>1. ThreadInv(u) /\ ThreadInv(t)
    OBVIOUS
  <1> USE DEF ThreadInv, InTheMiddle, AtItsPlace, SavedOne, Prio, Returned, Checked
  <1>2. CASE SetMinimum(t)
    <2>1. minimum' = lcall[t].prio /\ lcall[t].prio \in Priorities
      BY <1>1, <1>2 DEF SetMinimum
    <2>2. get_minimum_priority' = lcall[t].prio
      BY <2>1, LogAssumption DEF get_minimum_priority
    <2>3. UNCHANGED <<logger, lcall, saved, handed, explained, hooks>>
      BY <1>2 DEF SetMinimum
    <2>4. CASE u = t
      <3>1. lpc[t] = "set" /\ lpc'[t] = "idle" /\ before'[t] = before[t]
        BY <1>2 DEF SetMinimum
      <3>2. lcall[t].op \in {"min", "restore"}
        BY <1>1, <3>1
      <3>3. RestoredOne(t)'
        BY <1>1, <2>2, <2>3, <3>1 DEF RestoredOne, InForce
      <3> QED
        BY <1>1, <2>3, <2>4, <3>1, <3>2, <3>3 DEF Delivered, FatalOne, InForce, Writing, Writes
    <2>5. CASE u # t
      <3>1. lpc'[u] = lpc[u] /\ before'[u] = -1
        BY <1>2, <2>5 DEF SetMinimum
      <3>2. minima'[u] = IF u \in Writing THEN minima[u] \cup {InForce(lcall[t].prio)} ELSE minima[u]
        BY <1>2 DEF SetMinimum
      <3>3. minima[u] \subseteq minima'[u]
        BY <3>2
      <3>4. InTheMiddle(u)'
        BY <1>1, <2>2, <2>3, <3>1, <3>2, <3>3 DEF Writing, InForce
      <3>5. Delivered(u)'
        BY <1>1, <2>3, <3>1, <3>3 DEF Delivered
      <3> QED
        BY <1>1, <2>3, <3>1, <3>4, <3>5 DEF FatalOne, RestoredOne, InForce
    <2> QED
      BY <2>4, <2>5
  <1>3. ASSUME NEW c \in LogCalls[t], SetLogger(t, c) PROVE ThreadInv(u)'
    <2>1. /\ UNCHANGED <<minimum, lpc, lcall, saved, handed, explained, minima, before>>
          /\ hooks'[u] = IF u \in Writing THEN hooks[u] \cup {c.hook} ELSE hooks[u]
          /\ logger' = c.hook
      BY <1>3 DEF SetLogger
    <2>2. hooks[u] \subseteq hooks'[u]
      BY <2>1
    <2>3. InTheMiddle(u)'
      BY <1>1, <2>1 DEF Writing, InForce, get_minimum_priority
    <2>4. Delivered(u)'
      BY <1>1, <2>1, <2>2 DEF Delivered
    <2> QED
      BY <1>1, <2>1, <2>3, <2>4 DEF FatalOne, RestoredOne, InForce, get_minimum_priority
  <1>4. ASSUME NEW c \in LogCalls[t], SetAborter(t, c) PROVE ThreadInv(u)'
    BY <1>1, <1>4, OtherThread DEF SetAborter, Mine
  <1> QED
    BY <1>2, <1>3, <1>4

LEMMA LogInvStep == LogInv /\ [LogNext]_logVars => LogInv'
  <1> SUFFICES ASSUME LogInv, [LogNext]_logVars PROVE \A u \in Threads : ThreadInv(u)'
    BY LogTypeStep DEF LogInv
  <1> TAKE u \in Threads
  <1>1. ThreadInv(u)
    BY DEF LogInv
  <1>2. CASE UNCHANGED logVars
    BY <1>1, <1>2, OtherThread DEF logVars, Mine
  <1>3. ASSUME NEW t \in Threads, LogStep(t) PROVE ThreadInv(u)'
    <2> DEFINE Writer == ChooseSink(t) \/ Post(t) \/ CallLogger(t) \/ CallAborter(t)
               Caller == \E c \in LogCalls[t] : BeginWrite(t, c) \/ BeginSetMinimum(t, c)
    <2>1. CASE Writer
      <3>1. CASE u = t
        BY <2>1, <3>1, WriterStep DEF ChooseSink, Post, CallLogger, CallAborter
      <3>2. CASE u # t
        <4>1. Mine(u)' = Mine(u) /\ UNCHANGED <<minimum, logger>>
          BY <2>1, <3>2
             DEF LogInv, LogTypeOK, LogHistory, Mine, ChooseSink, GoesToSyslog, Hands, Post,
                 CallLogger, CallAborter
        <4> QED
          BY <1>1, <4>1, OtherThread
      <3> QED
        BY <3>1, <3>2
    <2>2. CASE Caller
      <3>1. CASE u = t
        BY <2>2, <3>1, CallerStep
      <3>2. CASE u # t
        <4>1. Mine(u)' = Mine(u) /\ UNCHANGED <<minimum, logger>>
          BY <2>2, <3>2
             DEF LogInv, LogTypeOK, LogHistory, Mine, BeginWrite, BeginSetMinimum
        <4> QED
          BY <1>1, <4>1, OtherThread
      <3> QED
        BY <3>1, <3>2
    <2>3. CASE SetMinimum(t) \/ \E c \in LogCalls[t] : SetLogger(t, c) \/ SetAborter(t, c)
      BY <2>3, SettingsStep
    <2> QED
      BY <1>3, <2>1, <2>2, <2>3 DEF LogStep
  <1> QED
    BY <1>2, <1>3 DEF LogNext

-----------------------------------------------------------------------------
(* The trace *)

TraceHistory ==
    /\ command \in [args : Seq(STRING), taken : Nat, tag : SUBSET AllTags]
    /\ sections \in [Tracers -> Seq(Categories)] /\ opened \in [Tracers -> Seq(Nat)]

\* A thread about to write a B or an E mark is in a section, and if nobody has
\* switched the tags since its outermost one its own tag is still enabled.
AboutToWrite(t) ==
    tpc[t] \in {"B", "E"} =>
        /\ sections[t] # <<>>
        /\ steady[t] => sections[t][Len(sections[t])] \in atrace_enabled_tags

Increasing(s) == \A i, j \in DOMAIN s : i < j => s[i] < s[j]

Written(t) == IF tpc[t] = "B" THEN Len(sections[t]) - 1 ELSE Len(sections[t])

\* MarksNest for one thread.
NestedOne(t) ==
    steady[t] /\ sections[t] # <<>> =>
        /\ Range(opened[t]) = {d \in 1 .. Written(t) : sections[t][d] \in atrace_enabled_tags}
        /\ Increasing(opened[t])

\* The tag that the loop of atrace_category has put together is what the
\* arguments it has taken mean, and it knows all of them.
CommandSoFar ==
    /\ command.tag = Meant(command.args, command.taken)
    /\ \A i \in 1 .. command.taken : Known(command.args[i])

TraceInv ==
    /\ TraceTypeOK /\ TraceHistory /\ CommandSoFar
    /\ \A t \in Tracers : AboutToWrite(t) /\ NestedOne(t)

LEMMA TraceInvInit == TraceInit => TraceInv
  <1> SUFFICES ASSUME TraceInit PROVE TraceInv
    OBVIOUS
  <1>1. NoCommand \in [args : Seq(STRING), taken : Nat, tag : SUBSET AllTags]
    BY DEF NoCommand
  <1>2. TraceHistory
    BY <1>1 DEF TraceInit, TraceHistory
  <1>3. TraceTypeOK
    BY <1>2, TraceAssumption DEF TraceInit, TraceHistory, TraceTypeOK, NoCommand, Marks
  <1>4. CommandSoFar
    BY DEF TraceInit, CommandSoFar, NoCommand, Meant
  <1>5. ASSUME NEW t \in Tracers PROVE AboutToWrite(t) /\ NestedOne(t)
    BY DEF TraceInit, AboutToWrite, NestedOne
  <1> QED
    BY <1>2, <1>3, <1>4, <1>5 DEF TraceInv

\* What the trace keeps for one thread.
Own(t) == <<tpc[t], sections[t], opened[t], steady[t]>>

\* A thread that a step leaves alone, with the tags, stays as it is.
LEMMA OtherTracer ==
    ASSUME NEW u \in Tracers, AboutToWrite(u), NestedOne(u), Own(u)' = Own(u),
           UNCHANGED atrace_enabled_tags
    PROVE  (AboutToWrite(u) /\ NestedOne(u))'
  BY DEF AboutToWrite, NestedOne, Own, Written, Range

\* The command: it takes one more argument, refuses one, or replaces the tags.
LEMMA CommandStep ==
    ASSUME TraceInv, AtraceNext
    PROVE  TraceInv'
  <1> USE DEF TraceInv, TraceHistory
  <1>1. ASSUME NEW args \in Commands, atrace(args) PROVE TraceInv'
    <2>1. /\ command' = [args |-> args, taken |-> 0, tag |-> {}] /\ args \in Seq(STRING)
          /\ UNCHANGED <<atrace_enabled_tags, tpc, sections, opened, steady>>
      BY <1>1, TraceAssumption DEF atrace, NoCommand
    <2>2. TraceHistory'
      BY <2>1
    <2>3. TraceTypeOK'
      BY <2>1 DEF TraceTypeOK
    <2>4. CommandSoFar'
      BY <2>1 DEF CommandSoFar, Meant
    <2> QED
      BY <2>1, <2>2, <2>3, <2>4, OtherTracer DEF Own
  <1>2. CASE atrace_argument
    <2> DEFINE i == command.taken + 1
               arg == command.args[i]
    <2>1. /\ command.taken < Len(command.args) /\ i \in 1 .. Len(command.args) /\ arg \in STRING
          /\ UNCHANGED <<atrace_enabled_tags, tpc, sections, opened, steady>>
      BY <1>2 DEF atrace_argument
    <2>2. CASE command' = NoCommand
      <3>1. TraceHistory'
        BY <2>1, <2>2 DEF NoCommand
      <3>2. TraceTypeOK' /\ CommandSoFar'
        BY <2>1, <2>2 DEF TraceTypeOK, CommandSoFar, NoCommand, Meant
      <3> QED
        BY <2>1, <3>1, <3>2, OtherTracer DEF Own
    <2>3. CASE Known(arg) /\ command' = [command EXCEPT !.taken = i, !.tag = Switched(@, arg)]
      <3>1. /\ command'.args = command.args /\ command'.taken = i
            /\ command'.tag = Switched(command.tag, arg)
        BY <2>3
      <3>2. command'.tag = Meant(command.args, i)
        <4>1. command.tag = Meant(command.args, command.taken)
          BY DEF CommandSoFar
        <4>2. CASE arg = "always"
          BY <2>1, <3>1, <4>2 DEF Switched, Meant
        <4>3. CASE arg = "never"
          BY <2>1, <3>1, <4>3, TraceAssumption DEF Switched, Meant, Resets
        <4>4. CASE arg \notin Resets
          <5>1. arg \in AllTags /\ command'.tag = command.tag \cup {arg}
            BY <2>3, <3>1, <4>4, TraceAssumption DEF Switched, Known, Resets
          <5>2. ASSUME NEW tag \in AllTags
                PROVE  tag \in Meant(command.args, i) <=> tag \in command.tag \/ tag = arg
            <6> DEFINE M(n) == \E k \in 1 .. n : /\ command.args[k] \in {tag, "always"}
                                              /\ \A j \in k + 1 .. n : command.args[j] \notin Resets
            <6>1. ASSUME M(i), tag # arg PROVE M(command.taken)
              <7>1. PICK k \in 1 .. i : /\ command.args[k] \in {tag, "always"}
                                        /\ \A j \in k + 1 .. i : command.args[j] \notin Resets
                BY <6>1
              <7>2. k # i
                BY <4>4, <6>1, <7>1 DEF Resets
              <7> QED
                BY <2>1, <7>1, <7>2
            <6>2. ASSUME M(command.taken) PROVE M(i)
              <7>1. PICK k \in 1 .. command.taken :
                        /\ command.args[k] \in {tag, "always"}
                        /\ \A j \in k + 1 .. command.taken : command.args[j] \notin Resets
                BY <6>2
              <7>2. \A j \in k + 1 .. i : command.args[j] \notin Resets
                BY <2>1, <4>4, <7>1
              <7>3. k \in 1 .. i
                BY <2>1, <7>1
              <7> QED
                BY <7>1, <7>2, <7>3
            <6>3. ASSUME tag = arg PROVE M(i)
              BY <2>1, <6>3
            <6> QED
              BY <4>1, <6>1, <6>2, <6>3 DEF Meant
          <5> QED
            BY <4>1, <5>1, <5>2 DEF Meant
        <4> QED
          BY <4>2, <4>3, <4>4 DEF Resets
      <3>3. CommandSoFar'
        BY <2>1, <2>3, <3>1, <3>2 DEF CommandSoFar
      <3>4. TraceHistory'
        <4>1. Switched(command.tag, arg) \subseteq AllTags
          BY <3>1, <3>2 DEF Meant
        <4>2. command' = [args |-> command.args, taken |-> i, tag |-> Switched(command.tag, arg)]
          BY <2>3
        <4> QED
          BY <2>1, <4>1, <4>2
      <3>5. TraceTypeOK'
        BY <2>1, <3>1, <3>4 DEF TraceTypeOK
      <3> QED
        BY <2>1, <3>3, <3>4, <3>5, OtherTracer DEF Own
    <2> QED
      BY <1>2, <2>2, <2>3 DEF atrace_argument
  <1>3. CASE atrace_category
    <2>1. /\ command' = NoCommand /\ UNCHANGED <<tpc, sections>>
          /\ atrace_enabled_tags' = command.tag
      BY <1>3 DEF atrace_category
    <2>2. opened' \in [Tracers -> Seq(Nat)] /\ steady' \in [Tracers -> BOOLEAN]
      BY <1>3 DEF atrace_category, TraceTypeOK
    <2>3. TraceHistory'
      BY <2>1, <2>2 DEF NoCommand
    <2>4. TraceTypeOK' /\ CommandSoFar'
      BY <2>1, <2>2 DEF TraceTypeOK, CommandSoFar, NoCommand, Meant
    <2>5. ASSUME NEW u \in Tracers PROVE (AboutToWrite(u) /\ NestedOne(u))'
      <3>1. steady'[u] = (steady[u] /\ (sections[u] = <<>> \/ command.tag = atrace_enabled_tags))
        BY <1>3 DEF atrace_category
      <3>2. CASE ~steady'[u]
        BY <2>1, <3>2 DEF AboutToWrite, NestedOne
      <3>3. CASE sections[u] = <<>>
        BY <2>1, <3>3 DEF AboutToWrite, NestedOne
      <3>4. CASE steady'[u] /\ sections[u] # <<>>
        BY <1>3, <2>1, <3>1, <3>4, OtherTracer DEF atrace_category, Own, TraceTypeOK
      <3> QED
        BY <3>2, <3>3, <3>4
    <2> QED
      BY <2>3, <2>4, <2>5
  <1> QED
    BY <1>1, <1>2, <1>3 DEF AtraceNext

\* All but the last of a sequence.
LEMMA FrontOf ==
    ASSUME NEW S, NEW s \in Seq(S), s # <<>>
    PROVE  /\ Front(s) \in Seq(S) /\ Len(Front(s)) = Len(s) - 1
           /\ \A d \in 1 .. Len(s) - 1 : Front(s)[d] = s[d]
  <1>1. PICK n \in Nat : Len(s) = n /\ DOMAIN s = 1 .. n
    OBVIOUS
  <1>2. n > 0
    BY <1>1
  <1>3. Front(s) = SubSeq(s, 1, n - 1)
    BY <1>1 DEF Front
  <1>4. SubSeq(s, 1, n - 1) \in Seq(S)
    BY <1>1, <1>2
  <1>5. Len(SubSeq(s, 1, n - 1)) = n - 1
    BY <1>1, <1>2
  <1>6. \A d \in 1 .. n - 1 : SubSeq(s, 1, n - 1)[d] = s[d]
    BY <1>1, <1>2
  <1> QED
    BY <1>1, <1>3, <1>4, <1>5, <1>6

\* One more mark, of a deeper section.
LEMMA IncreasingAppend ==
    ASSUME NEW s \in Seq(Nat), NEW n \in Nat, Increasing(s), \A x \in Range(s) : x < n
    PROVE  Range(Append(s, n)) = Range(s) \cup {n} /\ Increasing(Append(s, n))
  <1> DEFINE o == Append(s, n)
             k == Len(s)
  <1>1. /\ k \in Nat /\ DOMAIN s = 1 .. k /\ DOMAIN o = 1 .. k + 1 /\ o[k + 1] = n
        /\ \A i \in 1 .. k : o[i] = s[i]
    OBVIOUS
  <1>2. \A i \in 1 .. k : s[i] < n
    BY <1>1 DEF Range
  <1> HIDE DEF o, k
  <1>3. Range(o) = Range(s) \cup {n}
    <2>1. ASSUME NEW x \in Range(o) PROVE x \in Range(s) \cup {n}
      BY <1>1, <2>1 DEF Range
    <2>2. ASSUME NEW x \in Range(s) \cup {n} PROVE x \in Range(o)
      <3>1. k + 1 \in DOMAIN o /\ \A i \in DOMAIN s : i \in DOMAIN o
        BY <1>1
      <3> QED
        BY <1>1, <2>2, <3>1 DEF Range
    <2> QED
      BY <2>1, <2>2
  <1>4. ASSUME NEW i \in 1 .. k + 1, NEW j \in 1 .. k + 1, i < j PROVE o[i] < o[j]
    <2>1. i \in 1 .. k /\ (j # k + 1 => j \in 1 .. k)
      BY <1>1, <1>4
    <2> QED
      BY <1>1, <1>2, <1>4, <2>1 DEF Increasing
  <1> QED
    BY <1>1, <1>3, <1>4 DEF Increasing, o

\* The last of the marks is the one of the innermost section.
LEMMA IncreasingFront ==
    ASSUME NEW s \in Seq(Nat), NEW n \in Nat, Increasing(s), n \in Range(s),
           \A x \in Range(s) : x <= n
    PROVE  Range(Front(s)) = Range(s) \ {n} /\ Increasing(Front(s)) /\ s # <<>>
  <1> DEFINE o == Front(s)
             k == Len(s)
  <1>1. PICK m \in DOMAIN s : s[m] = n
    BY DEF Range
  <1>2. /\ k \in Nat /\ DOMAIN s = 1 .. k /\ k > 0 /\ DOMAIN o = 1 .. k - 1 /\ s # <<>>
        /\ \A i \in 1 .. k - 1 : o[i] = s[i]
    <2>1. k \in Nat /\ DOMAIN s = 1 .. k
      OBVIOUS
    <2>2. k > 0
      BY <1>1, <2>1
    <2>3. s # <<>>
      BY <2>2
    <2>4. o \in Seq(Nat) /\ Len(o) = k - 1 /\ \A i \in 1 .. k - 1 : o[i] = s[i]
      BY <2>1, <2>2 DEF Front
    <2> QED
      BY <2>1, <2>2, <2>3, <2>4
  <1>3. \A i \in 1 .. k : s[i] \in Nat /\ s[i] <= n
    <2> TAKE i \in 1 .. k
    <2>1. i \in DOMAIN s /\ s[i] \in Nat
      OBVIOUS
    <2>2. s[i] \in Range(s)
      BY <2>1 DEF Range
    <2> QED
      BY <2>1, <2>2
  <1> HIDE DEF o, k
  <1>4. m = k
    <2>1. s[m] < s[k] => FALSE
      BY <1>1, <1>2, <1>3
    <2> QED
      BY <1>1, <1>2, <2>1 DEF Increasing
  <1>5. \A i \in 1 .. k - 1 : s[i] < n
    BY <1>1, <1>2, <1>4 DEF Increasing
  <1>6. \A i \in 1 .. k - 1 : s[i] # n
    BY <1>3, <1>5, <1>2
  <1>7. Range(o) = Range(s) \ {n}
    <2>1. ASSUME NEW x \in Range(o) PROVE x \in Range(s) /\ x # n
      <3>1. PICK i \in 1 .. k - 1 : x = s[i]
        BY <1>2 DEF Range
      <3>2. i \in DOMAIN s
        BY <1>2
      <3> QED
        BY <1>6, <3>1, <3>2 DEF Range
    <2>2. ASSUME NEW x \in Range(s), x # n PROVE x \in Range(o)
      <3>1. PICK i \in 1 .. k : x = s[i]
        BY <1>2 DEF Range
      <3>2. i \in DOMAIN o
        BY <1>1, <1>2, <1>4, <2>2, <3>1
      <3> QED
        BY <1>2, <3>1, <3>2 DEF Range
    <2> QED
      BY <2>1, <2>2
  <1>8. Increasing(o)
    BY <1>2 DEF Increasing
  <1> QED
    BY <1>2, <1>7, <1>8 DEF o
\* A thread's marks: the sections it is in and the open B marks move together.
LEMMA TracerStep ==
    ASSUME TraceInv, NEW t \in Tracers, TraceStep(t)
    PROVE  /\ TraceInv'
           /\ UNCHANGED <<atrace_enabled_tags, command>>
  <1> DEFINE s == sections[t]
             n == Len(s)
  <1> USE DEF TraceInv, TraceHistory, TraceTypeOK
  <1>1. /\ AboutToWrite(t) /\ NestedOne(t) /\ s \in Seq(Categories) /\ n \in Nat /\ n <= MaxDepth
        /\ opened[t] \in Seq(Nat)
    OBVIOUS
  \* It is enough to look at this thread.
  <1>2. ASSUME UNCHANGED <<atrace_enabled_tags, command>>,
               NEW m \in Marks, tpc' = [tpc EXCEPT ![t] = m],
               NEW q \in Seq(Categories), Len(q) <= MaxDepth, sections' = [sections EXCEPT ![t] = q],
               NEW o \in Seq(Nat), opened' = [opened EXCEPT ![t] = o],
               NEW b \in BOOLEAN, steady' = [steady EXCEPT ![t] = b],
               AboutToWrite(t)', NestedOne(t)'
        PROVE  TraceInv' /\ UNCHANGED <<atrace_enabled_tags, command>>
    <2>1. TraceTypeOK' /\ TraceHistory'
      BY <1>2
    <2>2. CommandSoFar'
      BY <1>2 DEF CommandSoFar, Meant
    <2>3. ASSUME NEW u \in Tracers, u # t PROVE (AboutToWrite(u) /\ NestedOne(u))'
      BY <1>2, <2>3, OtherTracer DEF Own
    <2> QED
      BY <1>2, <2>1, <2>2, <2>3
  <1>3. ASSUME NEW tag \in Categories, atrace_begin(t, tag)
        PROVE  TraceInv' /\ UNCHANGED <<atrace_enabled_tags, command>>
    <2> DEFINE m == IF tag \in atrace_enabled_tags THEN "B" ELSE "none"
               q == Append(s, tag)
               o == IF s = <<>> THEN <<>> ELSE opened[t]
               b == s = <<>> \/ steady[t]
    <2>1. /\ tpc' = [tpc EXCEPT ![t] = m] /\ sections' = [sections EXCEPT ![t] = q]
          /\ opened' = [opened EXCEPT ![t] = o] /\ steady' = [steady EXCEPT ![t] = b]
          /\ UNCHANGED <<atrace_enabled_tags, command>> /\ n < MaxDepth /\ tpc[t] = "none"
      BY <1>3 DEF atrace_begin, Guarded, atrace_is_tag_enabled
    <2>2. /\ m \in Marks /\ q \in Seq(Categories) /\ Len(q) = n + 1
          /\ o \in Seq(Nat) /\ b \in BOOLEAN
      BY <1>1 DEF Marks
    <2>3. /\ tpc'[t] = m /\ sections'[t] = q /\ opened'[t] = o /\ steady'[t] = b
      BY <2>1
    <2>4. q[n + 1] = tag /\ \A d \in 1 .. n : q[d] = s[d]
      BY <1>1
    <2>5. (m = "B" <=> tag \in atrace_enabled_tags) /\ m # "E"
      OBVIOUS
    <2>6. b => /\ Range(o) = {d \in 1 .. n : s[d] \in atrace_enabled_tags}
               /\ Increasing(o)
      <3>1. CASE s = <<>>
        BY <3>1 DEF Range, Increasing
      <3>2. CASE s # <<>>
        BY <1>1, <2>1, <3>2 DEF NestedOne, Written
      <3> QED
        BY <3>1, <3>2
    <2> HIDE DEF m, q, o, b
    <2>7. AboutToWrite(t)'
      BY <1>1, <2>1, <2>2, <2>3, <2>4, <2>5 DEF AboutToWrite
    <2>8. NestedOne(t)'
      <3>1. b => {d \in 1 .. Written(t)' : q[d] \in atrace_enabled_tags} = Range(o)
        <4>1. CASE m = "B"
          <5>1. Written(t)' = n
            BY <1>1, <2>2, <2>3, <4>1 DEF Written
          <5> QED
            BY <2>4, <2>6, <5>1
        <4>2. CASE m # "B"
          <5>1. Written(t)' = n + 1
            BY <1>1, <2>2, <2>3, <4>2 DEF Written
          <5>2. q[n + 1] \notin atrace_enabled_tags
            BY <2>4, <2>5, <4>2
          <5>3. {d \in 1 .. n + 1 : q[d] \in atrace_enabled_tags}
                    = {d \in 1 .. n : s[d] \in atrace_enabled_tags}
            BY <1>1, <2>4, <5>2
          <5> QED
            BY <2>6, <5>1, <5>3
        <4> QED
          BY <4>1, <4>2
      <3> QED
        BY <2>1, <2>3, <2>6, <3>1 DEF NestedOne
    <2>9. Len(q) <= MaxDepth
      BY <1>1, <2>1, <2>2, TraceAssumption
    <2> QED
      BY <1>2, <2>1, <2>2, <2>7, <2>8, <2>9
  <1>4. ASSUME NEW tag \in Categories, atrace_event(t, tag)
        PROVE  TraceInv' /\ UNCHANGED <<atrace_enabled_tags, command>>
    <2> DEFINE m == IF tag \in atrace_enabled_tags THEN "alone" ELSE "none"
    <2>1. /\ tpc' = [tpc EXCEPT ![t] = m] /\ tpc[t] = "none"
          /\ UNCHANGED <<atrace_enabled_tags, command, sections, opened, steady>>
      BY <1>4 DEF atrace_event, Guarded, atrace_is_tag_enabled
    <2>2. m \in Marks /\ m # "B" /\ m # "E" /\ tpc'[t] = m
      BY <2>1 DEF Marks
    <2> HIDE DEF m
    <2>3. (AboutToWrite(t) /\ NestedOne(t))'
      BY <1>1, <2>1, <2>2 DEF AboutToWrite, NestedOne, Written
    <2> QED
      BY <1>1, <1>2, <2>1, <2>2, <2>3
  <1>5. CASE atrace_event_body(t)
    <2>1. (AboutToWrite(t) /\ NestedOne(t))'
      BY <1>1, <1>5 DEF atrace_event_body, AboutToWrite, NestedOne, Written
    <2> QED
      BY <1>1, <1>2, <1>5, <2>1 DEF atrace_event_body, Marks
  <1>6. CASE atrace_begin_body(t)
    <2> DEFINE o == IF steady[t] THEN Append(opened[t], n) ELSE opened[t]
    <2>1. /\ tpc[t] = "B" /\ tpc' = [tpc EXCEPT ![t] = "none"]
          /\ opened' = [opened EXCEPT ![t] = o]
          /\ UNCHANGED <<atrace_enabled_tags, command, sections, steady>>
      BY <1>6 DEF atrace_begin_body
    <2>2. o \in Seq(Nat) /\ opened'[t] = o
      BY <1>1, <2>1
    <2>3. steady[t] => s # <<>> /\ n > 0 /\ s[n] \in atrace_enabled_tags
      BY <1>1, <2>1 DEF AboutToWrite
    <2>4. ASSUME steady[t]
          PROVE  Range(o) = {d \in 1 .. n : s[d] \in atrace_enabled_tags} /\ Increasing(o)
      <3>1. /\ Range(opened[t]) = {d \in 1 .. n - 1 : s[d] \in atrace_enabled_tags}
            /\ Increasing(opened[t])
        BY <1>1, <2>1, <2>3, <2>4 DEF NestedOne, Written
      <3>2. \A x \in Range(opened[t]) : x < n
        BY <1>1, <3>1
      <3>3. Range(o) = Range(opened[t]) \cup {n} /\ Increasing(o)
        BY <1>1, <2>4, <3>1, <3>2, IncreasingAppend
      <3> QED
        BY <1>1, <2>3, <2>4, <3>1, <3>3
    <2> HIDE DEF o
    <2>5. (AboutToWrite(t) /\ NestedOne(t))'
      BY <1>1, <2>1, <2>2, <2>4 DEF AboutToWrite, NestedOne, Written
    <2> QED
      BY <1>1, <1>2, <2>1, <2>2, <2>5 DEF Marks
  <1>7. CASE atrace_end(t)
    <2>1. /\ tpc[t] = "none" /\ s # <<>> /\ n > 0 /\ s[n] \in Categories
          /\ UNCHANGED <<atrace_enabled_tags, command, opened, steady>>
      BY <1>1, <1>7 DEF atrace_end
    <2>2. CASE s[n] \in atrace_enabled_tags
      <3>1. tpc' = [tpc EXCEPT ![t] = "E"] /\ UNCHANGED sections
        BY <1>7, <2>2 DEF atrace_end, atrace_is_tag_enabled, Last
      <3>2. (AboutToWrite(t) /\ NestedOne(t))'
        BY <1>1, <2>1, <2>2, <3>1 DEF AboutToWrite, NestedOne, Written
      <3> QED
        BY <1>1, <1>2, <2>1, <3>1, <3>2 DEF Marks
    <2>3. CASE s[n] \notin atrace_enabled_tags
      <3> DEFINE q == Front(s)
      <3>1. sections' = [sections EXCEPT ![t] = q] /\ UNCHANGED tpc
        BY <1>7, <2>3 DEF atrace_end, atrace_is_tag_enabled, Last
      <3>2. /\ q \in Seq(Categories) /\ Len(q) = n - 1 /\ sections'[t] = q
            /\ \A d \in 1 .. n - 1 : q[d] = s[d]
        <4>1. sections'[t] = q
          BY <3>1
        <4> QED
          BY <1>1, <2>1, <4>1, FrontOf
      <3> HIDE DEF q
      <3>3. {d \in 1 .. n : s[d] \in atrace_enabled_tags}
                = {d \in 1 .. n - 1 : q[d] \in atrace_enabled_tags}
        <4>1. \A d \in 1 .. n : d \in 1 .. n - 1 \/ d = n
          BY <1>1
        <4>2. \A d \in 1 .. n - 1 : d \in 1 .. n
          BY <1>1
        <4> QED
          BY <2>3, <3>2, <4>1, <4>2
      <3>4. AboutToWrite(t)' /\ Written(t)' = n - 1 /\ Written(t) = n
        BY <2>1, <3>1, <3>2 DEF AboutToWrite, Written
      <3>5. NestedOne(t)'
        BY <1>1, <2>1, <3>2, <3>3, <3>4 DEF NestedOne
      <3>6. Len(q) <= MaxDepth
        BY <1>1, <3>2, TraceAssumption
      <3> QED
        BY ZenonT(30), <1>1, <1>2, <2>1, <3>1, <3>2, <3>4, <3>5, <3>6
    <2> QED
      BY <2>2, <2>3
  <1>8. CASE atrace_end_body(t)
    <2> DEFINE q == Front(s)
               o == IF opened[t] = <<>> THEN opened[t] ELSE Front(opened[t])
    <2>1. /\ tpc[t] = "E" /\ tpc' = [tpc EXCEPT ![t] = "none"]
          /\ sections' = [sections EXCEPT ![t] = q] /\ opened' = [opened EXCEPT ![t] = o]
          /\ UNCHANGED <<atrace_enabled_tags, command, steady>>
      BY <1>8 DEF atrace_end_body
    <2>2. s # <<>> /\ n > 0 /\ (steady[t] => s[n] \in atrace_enabled_tags)
      BY <1>1, <2>1 DEF AboutToWrite
    <2>3. /\ q \in Seq(Categories) /\ Len(q) = n - 1 /\ sections'[t] = q
          /\ \A d \in 1 .. n - 1 : q[d] = s[d]
      <3>1. sections'[t] = q
        BY <2>1
      <3> QED
        BY <1>1, <2>2, <3>1, FrontOf
    <2>4. o \in Seq(Nat) /\ opened'[t] = o
      <3>1. opened[t] # <<>> => Front(opened[t]) \in Seq(Nat)
        BY <1>1, FrontOf
      <3> QED
        BY <1>1, <2>1, <3>1
    <2>5. ASSUME steady[t]
          PROVE  Range(o) = {d \in 1 .. n - 1 : q[d] \in atrace_enabled_tags} /\ Increasing(o)
      <3>1. /\ Range(opened[t]) = {d \in 1 .. n : s[d] \in atrace_enabled_tags}
            /\ Increasing(opened[t])
        BY <1>1, <2>1, <2>2, <2>5 DEF NestedOne, Written
      <3>2. n \in Range(opened[t]) /\ \A x \in Range(opened[t]) : x <= n
        BY <1>1, <2>2, <2>5, <3>1
      <3>3. Range(o) = Range(opened[t]) \ {n} /\ Increasing(o)
        BY <1>1, <3>1, <3>2, IncreasingFront
      <3> HIDE DEF q, o
      <3>4. \A d \in 1 .. n : d # n => d \in 1 .. n - 1
        BY <1>1
      <3>5. \A d \in 1 .. n - 1 : d \in 1 .. n /\ d # n
        BY <1>1
      <3> QED
        BY <2>3, <3>1, <3>3, <3>4, <3>5
    <2> HIDE DEF q, o
    <2>6. AboutToWrite(t)' /\ Written(t)' = n - 1
      BY <2>1, <2>3 DEF AboutToWrite, Written
    <2>7. NestedOne(t)'
      BY <2>1, <2>3, <2>4, <2>5, <2>6 DEF NestedOne
    <2>8. Len(q) <= MaxDepth
      BY <1>1, <2>3, TraceAssumption
    <2> QED
      BY <1>2, <2>1, <2>3, <2>4, <2>6, <2>7, <2>8 DEF Marks
  <1> QED
    BY <1>3, <1>4, <1>5, <1>6, <1>7, <1>8 DEF TraceStep

LEMMA TraceInvStep == TraceInv /\ [TraceNext]_traceVars => TraceInv'
  <1> SUFFICES ASSUME TraceInv, [TraceNext]_traceVars PROVE TraceInv'
    OBVIOUS
  <1>1. CASE UNCHANGED traceVars
    <2>1. TraceTypeOK' /\ TraceHistory' /\ CommandSoFar'
      BY <1>1 DEF traceVars, TraceInv, TraceTypeOK, TraceHistory, CommandSoFar, Meant
    <2>2. ASSUME NEW u \in Tracers PROVE (AboutToWrite(u) /\ NestedOne(u))'
      BY <1>1, OtherTracer DEF traceVars, Own, TraceInv
    <2> QED
      BY <2>1, <2>2 DEF TraceInv
  <1>2. ASSUME NEW t \in Tracers, TraceStep(t) PROVE TraceInv'
    BY <1>2, TracerStep
  <1>3. CASE AtraceNext
    BY <1>3, CommandStep
  <1> QED
    BY <1>1, <1>2, <1>3 DEF TraceNext

-----------------------------------------------------------------------------
(* The process *)

\* A step of the process is one of the log or of the trace.
LEMMA StepOfOne ==
    [InstrumentsNext]_instrumentVars => [LogNext]_logVars /\ [TraceNext]_traceVars
  BY DEF InstrumentsNext, instrumentVars, ThreadLogs, ThreadTraces, CommandSwitches, LogNext,
         TraceNext

LEMMA InstrumentsInv == InstrumentsSpec => [](LogInv /\ TraceInv)
  <1>1. InstrumentsInit => LogInv /\ TraceInv
    BY LogInvInit, TraceInvInit DEF InstrumentsInit
  <1>2. (LogInv /\ TraceInv) /\ [InstrumentsNext]_instrumentVars => (LogInv /\ TraceInv)'
    BY StepOfOne, LogInvStep, TraceInvStep
  <1> QED
    BY <1>1, <1>2, PTL DEF InstrumentsSpec

\* The settings of the log, the places of the threads, the tags and the command
\* keep their types.
THEOREM InstrumentsTypeCorrect == InstrumentsSpec => []InstrumentsTypeOK
  <1>1. LogInv /\ TraceInv => InstrumentsTypeOK
    BY DEF LogInv, TraceInv, InstrumentsTypeOK
  <1> QED
    BY <1>1, InstrumentsInv, PTL

\* A message goes to exactly one logger that was in force during the call, or
\* to none if its priority was below a minimum in force, although the logger
\* and the minimum are read more than once without a lock.
THEOREM MessagesGoOnce == InstrumentsSpec => []DeliveredOnce
  <1>1. LogInv => DeliveredOnce
    BY DEF LogInv, ThreadInv, Delivered, DeliveredOnce
  <1> QED
    BY <1>1, InstrumentsInv, PTL

\* No logger but logd sees a fatal message before the abort message is set.
THEOREM FatalIsExplained == InstrumentsSpec => []FatalExplained
  <1>1. LogInv => FatalExplained
    BY DEF LogInv, ThreadInv, FatalOne, FatalExplained
  <1> QED
    BY <1>1, InstrumentsInv, PTL

\* Setting back the minimum that __android_log_set_minimum_priority returned
\* restores the filter, unless another thread has set one in between.
THEOREM MinimumIsRestored == InstrumentsSpec => []MinimumRestored
  <1>1. LogInv => MinimumRestored
    BY DEF LogInv, ThreadInv, RestoredOne, MinimumRestored
  <1> QED
    BY <1>1, InstrumentsInv, PTL

\* The open B marks of a thread are those of its sections with an enabled tag,
\* in order, as long as atrace has not switched the tags under it.
THEOREM MarksAreNested == InstrumentsSpec => []MarksNest
  <1>1. TraceInv => MarksNest
    BY DEF TraceInv, NestedOne, Written, Increasing, MarksNest, atrace_is_tag_enabled
  <1> QED
    BY <1>1, InstrumentsInv, PTL

\* atrace changes the tags to what all the arguments of the running command
\* mean, and only if it knows all of them.
THEOREM CommandsAreWhole == InstrumentsSpec => CommandWhole
  <1> DEFINE Whole == atrace_enabled_tags' # atrace_enabled_tags =>
                          /\ command.args \in Commands
                          /\ \A i \in DOMAIN command.args : Known(command.args[i])
                          /\ atrace_enabled_tags' = Meant(command.args, Len(command.args))
  <1>1. TraceInv /\ [TraceNext]_traceVars => [Whole]_traceVars
    <2> SUFFICES ASSUME TraceInv, TraceNext, atrace_enabled_tags' # atrace_enabled_tags
                 PROVE  Whole
      BY DEF traceVars
    <2>1. atrace_category
      BY TracerStep DEF TraceNext, AtraceNext, atrace, atrace_argument
    <2>2. /\ command # NoCommand /\ command.taken = Len(command.args)
          /\ atrace_enabled_tags' = Meant(command.args, Len(command.args))
          /\ \A i \in 1 .. Len(command.args) : Known(command.args[i])
      BY <2>1 DEF atrace_category, TraceInv, CommandSoFar
    <2>3. command.args \in Commands
      <3>1. ASSUME command.args = <<>> PROVE FALSE
        <4>1. command.taken = 0 /\ command.tag = {}
          BY <2>2, <3>1 DEF TraceInv, CommandSoFar, Meant
        <4> QED
          BY <2>2, <3>1, <4>1 DEF TraceInv, TraceHistory, NoCommand
      <3> QED
        BY <3>1 DEF TraceInv, TraceTypeOK
    <2>4. DOMAIN command.args = 1 .. Len(command.args)
      BY DEF TraceInv, TraceHistory
    <2> QED
      BY <2>2, <2>3, <2>4
  <1> QED
    BY <1>1, StepOfOne, InstrumentsInv, PTL DEF InstrumentsSpec, CommandWhole

=============================================================================
