-------------------------- MODULE SystemProperties --------------------------
(***************************************************************************)
(* The calls of kvdb/system_properties.c on top of PropertyApi: a serial   *)
(* number for each process, and waiting for a change.                      *)
(*                                                                         *)
(* A prop_info is the name of the key.  find, read and get are gets of     *)
(* PropertyApi (find one without a buffer); a set and a get marked sys are *)
(* __system_property_set and __system_property_read_callback, which use    *)
(* the serial number after the property call has returned.                 *)
(***************************************************************************)
EXTENDS PropertyApi

CONSTANT SerialBits   \* the bits of __system_property_serial_num

ASSUME SerialAssumption == SerialBits \in Nat \ {0} /\ 2^SerialBits \in Nat \ {0, 1}

VARIABLES
    serial,   \* __system_property_serial_num of each process
    loaded,   \* the number a thread has read and is about to increment
    seen,     \* history: the serial the last callback of each thread was given
    counted,  \* history: the sets of its process that have ended since
    read      \* history: has the stored key changed since the thread read it?

sysVars == <<serial, loaded, seen, counted, read>>

Serials == 0 .. 2^SerialBits - 1

SysTypeOK ==
    /\ serial \in [Procs -> Serials] /\ loaded \in [Threads -> Serials]
    /\ seen \in [Threads -> Serials] /\ counted \in [Threads -> 0 .. 2^SerialBits]
    /\ read \in [Threads -> [Keys -> {"unread", "current", "changed"}]]

SysInit ==
    /\ serial = [p \in Procs |-> 0] /\ loaded = [t \in Threads |-> 0]
    /\ seen = [t \in Threads |-> 0] /\ counted = [t \in Threads |-> 0]
    /\ read = [t \in Threads |-> [k \in Keys |-> "unread"]]

-----------------------------------------------------------------------------
(* Calls of PropertyApi, with the history of what has been read *)

\* The threads that read with a callback, for which the histories are kept.
Watchers == {t \in Threads : \E c \in Calls[t] : c.via = "sys" /\ c.op = "get"}

\* Thread t reads key k from the store.
ReadsNow(t, k) == pc[t] = "store" /\ pc'[t] = "sys" /\ call[t].op = "get" /\ call[t].key = k

Follow ==
    read' = [t \in Threads |-> [k \in Keys |->
                IF t \notin Watchers THEN "unread"
                ELSE IF ReadsNow(t, k) THEN "current"
                ELSE IF read[t][k] = "current" /\ store'[k] # store[k] THEN "changed"
                ELSE read[t][k]]]

SysApiStep(t) == ApiStep(t) /\ Follow /\ UNCHANGED <<serial, loaded, seen, counted>>

SysBegin(t, c) ==
    /\ c.op \in {"set", "get", "delete"} /\ Begin(t, c)
    /\ UNCHANGED sysVars

-----------------------------------------------------------------------------
(* Serial numbers *)

BackToCaller(t) ==
    /\ pc' = [pc EXCEPT ![t] = "idle"]
    /\ call' = [call EXCEPT ![t] = NoCall]

\* __system_property_set, which has succeeded, loads the serial number
LoadSerial(t) ==
    /\ pc[t] = "sys" /\ call[t].op = "set"
    /\ pc' = [pc EXCEPT ![t] = "bump"]
    /\ loaded' = [loaded EXCEPT ![t] = serial[ProcOf[t]]]
    /\ UNCHANGED <<store, env, call, held, monitor, mine, serial, seen, counted, read>>

\* and stores it incremented; another thread may have done so in between.
Incremented_saturates(n) == IF n + 1 \in Serials THEN n + 1 ELSE n
Incremented(n) == (n + 1) % 2^SerialBits

StoreSerial(t) ==
    /\ pc[t] = "bump"
    /\ BackToCaller(t)
    /\ serial' = [serial EXCEPT ![ProcOf[t]] = Incremented(loaded[t])]
    /\ loaded' = [loaded EXCEPT ![t] = 0]
    /\ counted' = [u \in Threads |->
                      IF u \in Fellows(t) \cap Watchers /\ counted[u] < 2^SerialBits
                      THEN counted[u] + 1 ELSE counted[u]]
    /\ UNCHANGED <<store, env, held, monitor, mine, seen, read>>

\* __system_property_read_callback gives its callback the serial number as it
\* is after the value has been read.
ReadCallback(t) ==
    /\ pc[t] = "sys" /\ call[t].op = "get"
    /\ BackToCaller(t)
    /\ seen' = [seen EXCEPT ![t] = serial[ProcOf[t]]]
    /\ counted' = [counted EXCEPT ![t] = 0]
    /\ UNCHANGED <<store, env, held, monitor, mine, serial, loaded, read>>

-----------------------------------------------------------------------------
(* Waiting *)

\* __system_property_wait opens a monitor only now, and does not look at
\* __old_serial.
WaitBegin(t, c) ==
    /\ pc[t] = "idle" /\ c.op = "wait"
    /\ call' = [call EXCEPT ![t] = c]
    /\ monitor' = [monitor EXCEPT ![t] = "open"]
    /\ pc' = [pc EXCEPT ![t] = "poll"]
    /\ UNCHANGED <<store, env, held, mine, sysVars>>

\* The poll ends with an event and true, or with the timeout or a monitor that
\* the daemon has dropped and false; the monitor is closed.
WaitEnd(t) ==
    /\ pc[t] = "poll"
    /\ BackToCaller(t)
    /\ monitor' = [monitor EXCEPT ![t] = "none"]
    /\ UNCHANGED <<store, env, held, mine, sysVars>>

SysRestart(p) ==
    LET its == {t \in Threads : ProcOf[t] = p}
    IN /\ Restart(p)
       /\ serial' = [serial EXCEPT ![p] = 0]
       /\ loaded' = [t \in Threads |-> IF t \in its THEN 0 ELSE loaded[t]]
       /\ seen' = [t \in Threads |-> IF t \in its THEN 0 ELSE seen[t]]
       /\ counted' = [t \in Threads |-> IF t \in its THEN 0 ELSE counted[t]]
       /\ read' = [t \in Threads |->
                       IF t \in its THEN [k \in Keys |-> "unread"] ELSE read[t]]

SysStep(t) == SysApiStep(t) \/ LoadSerial(t) \/ StoreSerial(t) \/ ReadCallback(t) \/ WaitEnd(t)

SysCall(t) == \E c \in Calls[t] : SysBegin(t, c) \/ WaitBegin(t, c)

SysNext ==
    \/ \E t \in Threads : SysStep(t) \/ SysCall(t)
    \/ \E p \in Procs : SysRestart(p)

PropTypeOK == ApiTypeOK /\ SysTypeOK
PropInit == ApiInit /\ SysInit
SysSpec == PropInit /\ [][SysNext]_<<apiVars, sysVars>>

-----------------------------------------------------------------------------
(* Properties *)

Setters(p) ==
    {t \in Threads : ProcOf[t] = p /\ \E c \in Calls[t] : c.via = "sys" /\ c.op = "set"}

\* The serial number of a process is another than the one a callback was given
\* once a __system_property_set of the process has succeeded since then, until
\* the number has gone once round: a reader that keeps the serial notices the
\* sets of its own process.  This needs all the sets to be made by one thread,
\* because the increment is not atomic.
SerialAdvances ==
    \A t \in Threads :
        (Cardinality(Setters(ProcOf[t])) <= 1 /\ counted[t] \in 1 .. 2^SerialBits - 1) =>
            serial[ProcOf[t]] # seen[t]

\* A wait that has not been told of a change, and may time out, has nothing to
\* report: no key it waits for has changed since the thread read it, with the
\* serial number that it now waits to be passed.  It does not hold.
UpdatedPast ==
    \A t \in Threads :
        (pc[t] = "poll" /\ monitor[t] = "open") =>
            \A k \in Keys : call[t].key \in {k, AnyKey} => read[t][k] # "changed"

\* The value and the serial number that __system_property_read_callback hands
\* on belong together: once the key has changed since the value was read, the
\* serial number does not move on before it is read.  It does not hold: a set
\* by another thread may come between the two reads.
ConsistentTrio ==
    [][\A t \in Threads :
        (/\ pc[t] = "sys" /\ call[t].op = "get" /\ read[t][call[t].key] = "changed"
         /\ pc'[t] = "sys") =>
            serial'[ProcOf[t]] = serial[ProcOf[t]]]_<<apiVars, sysVars>>

=============================================================================
