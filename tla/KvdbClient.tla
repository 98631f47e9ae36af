----------------------------- MODULE KvdbClient -----------------------------
(***************************************************************************)
(* The calls of kvdb/client.c, composed with the daemon of KvdbServer.     *)
(*                                                                         *)
(* KvdbServer lets the client end of a connection do anything.  Here each  *)
(* connection belongs to a call of a process: it connects, sends its       *)
(* request, waits for what it wants to read and closes; a one-way set      *)
(* closes without waiting, and starts again when it cannot send.  The      *)
(* callback of a list, and an application with a monitor, make calls of    *)
(* their own meanwhile, so that a process has a stack of calls.            *)
(***************************************************************************)
EXTENDS KvdbServer

CONSTANTS
    Procs,          \* the processes
    LiveProcs,      \* those that never stop in the middle of a call
    Program,        \* the calls each of them makes
    Nested,         \* the calls made inside a list, or beside a monitor
    ConnectMayFail, \* do socket and connect fail?
    NoProc, NoResult,
    Unknown         \* history: somebody else may have changed the key

\* How a call uses its request: property_wait is a monitor that is closed
\* after one event.
CallRecords == [req : Requests, how : {"plain", "oneway", "wait"}]

ASSUME ProcsAssumption ==
    /\ NoProc \notin Procs /\ LiveProcs \subseteq Procs
    /\ ConnectMayFail \in BOOLEAN /\ Unknown \notin Vals \cup {Absent}
    /\ Program \in [Procs -> SUBSET CallRecords] /\ Nested \subseteq CallRecords

ASSUME HowAssumption ==
    \A call \in CallRecords :
        (call \in Nested \/ \E p \in Procs : call \in Program[p]) =>
            /\ call.how = "oneway" => call.req.op = "S"
            /\ call.how = "wait" => call.req.op = "M"

VARIABLES
    stack,    \* the calls each process is in
    ret,      \* what the call that has just returned gave
    owner,    \* history: whose request each connection carries
    did,      \* history: what the daemon did about it
    had,      \* history: the values the key of a get has had since it began
    own       \* history: what each process has last asked each key to be

histVars == <<owner, did, had, own>>
sysVars == <<vars, stack, ret, owner, did, had, own>>

Ats == {"connect", "send", "recv", "callback", "close", "poll", "monitoring"}
Frames == [call : CallRecords, conn : Conns \cup {NoConn}, at : Ats]
Results == [res : {"ok", "err"}, val : Vals \cup {Absent}]

ClientTypeOK ==
    /\ stack \in [Procs -> Seq(Frames)]
    /\ ret \in Results \cup {NoResult}
    /\ owner \in [Conns -> Procs \cup {NoProc}]
    /\ did \in [Conns -> {"nothing", "ok", "err"}]
    /\ had \in [Procs -> SUBSET (Vals \cup {Absent})]
    /\ own \in [Procs -> [Keys -> Vals \cup {Absent, Unknown}]]

-----------------------------------------------------------------------------
(* The stack *)

Top(p) == stack[p][Len(stack[p])]
Conn(p) == Top(p).conn
Op(p) == Top(p).call.req.op
How(p) == Top(p).call.how
At(p, a) == stack[p] # <<>> /\ Top(p).at = a

Gets(p) == stack[p] # <<>> /\ Op(p) = "G"

\* Stack s with frame f in place of its innermost one.
WithTop(s, f) == [s EXCEPT ![Len(s)] = f]

\* The innermost call of p goes on at a, with connection c.
GoesOn(p, c, a) ==
    /\ stack' = [stack EXCEPT ![p] = WithTop(@, [Top(p) EXCEPT !.conn = c, !.at = a])]
    /\ ret' = NoResult

\* It returns.
Returns(p, res, v) ==
    /\ stack' = [stack EXCEPT ![p] = SubSeq(@, 1, Len(@) - 1)]
    /\ ret' = [res |-> res, val |-> v]

\* Neither end of connection c is open.
Unused(c) == cli[c] = "closed" /\ Dropped(c)

\* The history of the connections, but for those that are not used any more.
Remember(o, d) ==
    /\ owner' = [c \in Conns |-> IF Unused(c)' THEN NoProc ELSE o[c]]
    /\ did' = [c \in Conns |-> IF Unused(c)' THEN "nothing" ELSE d[c]]

\* What every step of a call leaves alone, or forgets.
History ==
    /\ Remember(owner, did)
    /\ had' = [p \in Procs |-> IF Gets(p)' THEN had[p] ELSE {}]
    /\ UNCHANGED own

\* A call made from the callback of a list is all the callback does.
Resumed(s) ==
    IF s # <<>> /\ s[Len(s)].at = "callback"
    THEN WithTop(s, [s[Len(s)] EXCEPT !.at = "recv"]) ELSE s

\* Process p makes a call.
Begin(p) ==
    \E call \in (IF stack[p] = <<>> THEN Program[p] ELSE Nested) :
        /\ stack[p] = <<>> \/ (Len(stack[p]) = 1 /\ Top(p).at \in {"callback", "monitoring"})
        /\ stack' = [stack EXCEPT ![p] =
                        Append(Resumed(@), [call |-> call, conn |-> NoConn, at |-> "connect"])]
        /\ ret' = NoResult
        /\ had' = [had EXCEPT ![p] = IF call.req.op = "G" THEN {cache[call.req.key]} ELSE {}]
        /\ UNCHANGED <<vars, owner, did, own>>

-----------------------------------------------------------------------------
(* Connecting and sending *)

\* The connection a call gets: connections not in use are all alike.
NewConn == CHOOSE c \in Conns : Unused(c)

\* While the daemon has not bound its socket connect is tried again.
call_connect(p) ==
    /\ At(p, "connect") /\ \E c \in Conns : Unused(c)
    /\ property_connect(NewConn)
    /\ GoesOn(p, NewConn, "send")
    /\ Remember([owner EXCEPT ![NewConn] = p], did)
    /\ UNCHANGED <<had, own>>

call_connect_fail(p) ==
    /\ At(p, "connect") /\ ConnectMayFail
    /\ Returns(p, "err", Absent)
    /\ UNCHANGED vars /\ History

\* One-way sets and reloads do not wait for an answer.
AfterSend(p) == IF How(p) = "oneway" \/ Op(p) = "R" THEN "close" ELSE "recv"

call_send(p) ==
    /\ At(p, "send")
    /\ property_send(Conn(p), Top(p).call.req)
    /\ GoesOn(p, Conn(p), AfterSend(p))
    /\ own' = IF Op(p) \in {"S", "D"}
              THEN [own EXCEPT ![p][Top(p).call.req.key] = Top(p).call.req.val]
              ELSE own
    /\ UNCHANGED <<owner, did, had>>

\* The daemon has given the connection up: sendmsg fails.  A one-way set
\* starts again when the error is ECONNRESET.
call_send_fail(p) ==
    /\ At(p, "send") /\ Dropped(Conn(p))
    /\ property_close(Conn(p))
    /\ \/ How(p) = "oneway" /\ GoesOn(p, NoConn, "connect")
       \/ Returns(p, "err", Absent)
    /\ History

\* A one-way set, a reload and a wait that has read its event.
call_close(p) ==
    /\ At(p, "close")
    /\ property_close(Conn(p))
    /\ Returns(p, "ok", Absent)
    /\ History

-----------------------------------------------------------------------------
(* Receiving *)

Received(p) == Head(inbox[Conn(p)])
Receives(p, ops) == At(p, "recv") /\ Op(p) \in ops /\ property_recv(Conn(p))

\* The status of a set, a delete or a commit.
call_recv_status(p) ==
    /\ Receives(p, {"S", "D", "C"})
    /\ Returns(p, Received(p).tag, Absent)
    /\ History

property_get_recv(p) ==
    /\ Receives(p, {"G"})
    /\ Returns(p, "ok", Received(p).val)
    /\ History

\* An entry goes to the callback.
property_list_recv(p) ==
    /\ Receives(p, {"L"})
    /\ \/ Received(p).tag = "entry" /\ GoesOn(p, Conn(p), "callback")
       \/ Received(p).tag = "end" /\ Returns(p, "ok", Absent)
    /\ History

property_monitor_open_recv(p) ==
    /\ Receives(p, {"M"})
    /\ \/ /\ Received(p).tag = "open"
          /\ GoesOn(p, Conn(p), IF How(p) = "wait" THEN "poll" ELSE "monitoring")
       \/ Received(p).tag = "err" /\ Returns(p, "err", Absent)
    /\ History

\* What a call returns when the daemon has closed without an answer: a get
\* takes it for no value; a commit and a list return -errno, and errno is
\* whatever it was, since recv has not failed.
EofResults_loops(p) == IF Op(p) = "L" THEN {} ELSE {"err"}
EofResults_errno(p) == IF Op(p) = "G" THEN {"ok"} ELSE {"ok", "err"}
EofResults(p) ==
    IF Op(p) = "G" THEN {"ok"} ELSE IF Op(p) \in {"C", "L"} THEN {"ok", "err"} ELSE {"err"}

call_eof(p) ==
    /\ At(p, "recv")
    /\ property_eof(Conn(p))
    /\ \E res \in EofResults(p) : Returns(p, res, Absent)
    /\ History

\* What a call returns when recv fails.  property_commit compares its result
\* -1 with sizeof(value), as an unsigned number, does not see the failure and
\* returns a variable nothing was written to.
TimeoutResults(p) == IF Op(p) = "C" THEN {"ok", "err"} ELSE {"err"}

\* SO_RCVTIMEO expires before there is anything to read, or a list has no memory for its entries.  What was
\* sent is still in the socket.
TimeoutCloses_leak(p) == UNCHANGED vars
TimeoutCloses(p) == property_close(Conn(p))

call_timeout(p) ==
    /\ At(p, "recv")
    /\ \/ TimeoutOn /\ inbox[Conn(p)] = <<>> /\ ~Dropped(Conn(p))
       \/ AllocMayFail /\ Op(p) = "L"
    /\ TimeoutCloses(p)
    /\ \E res \in TimeoutResults(p) : Returns(p, res, Absent)
    /\ History

\* The callback of a list returns.
callback_return(p) ==
    /\ At(p, "callback")
    /\ GoesOn(p, Conn(p), "recv")
    /\ UNCHANGED <<vars, histVars>>

-----------------------------------------------------------------------------
(* Monitors *)

\* property_wait: poll, then read one event.
property_wait_read(p) ==
    /\ At(p, "poll")
    /\ property_monitor_read(Conn(p))
    /\ GoesOn(p, Conn(p), "close")
    /\ History

property_wait_timeout(p) ==
    /\ At(p, "poll") /\ inbox[Conn(p)] = <<>>
    /\ property_close(Conn(p))
    /\ Returns(p, "err", Absent)
    /\ History

\* An application reads its monitor, or closes it, when it likes.
monitor_read(p) ==
    /\ At(p, "monitoring")
    /\ property_monitor_read(Conn(p))
    /\ ret' = NoResult
    /\ UNCHANGED <<stack, histVars>>

monitor_close(p) ==
    /\ At(p, "monitoring")
    /\ property_close(Conn(p))
    /\ Returns(p, "ok", Absent)
    /\ History

-----------------------------------------------------------------------------
(* The daemon, and what the history makes of its steps *)

HadNow ==
    [p \in Procs |-> IF Gets(p) THEN had[p] \cup {cache'[Top(p).call.req.key]} ELSE had[p]]

\* The daemon has taken the request of the connection it serves.
Takes == cur # NoConn /\ req[cur] # NoReq /\ req'[cur] = NoReq

\* A get that sends nothing may have found no value or have failed: it counts
\* as served where nothing fails.
DidNow ==
    IF ~Takes \/ pc # "recv" THEN did
    ELSE [did EXCEPT ![cur] =
            IF reply' # NoMsg THEN IF reply'.tag = "err" THEN "err" ELSE "ok"
            ELSE IF AllocMayFail \/ FetchMayFail THEN "nothing" ELSE "ok"]

\* Process p no longer knows key k: somebody else has changed it, or its own
\* request has come to nothing.
Upset(p, k) ==
    \/ cache'[k] # cache[k] /\ (pc = "load" \/ owner[cur] # p)
    \/ Takes /\ owner[cur] = p /\ req[cur].op \in {"S", "D"} /\ req[cur].key = k
       /\ cache'[k] # req[cur].val

OwnNow == [p \in Procs |-> [k \in Keys |-> IF Upset(p, k) THEN Unknown ELSE own[p][k]]]

DaemonStep ==
    /\ Daemon
    /\ had' = HadNow /\ own' = OwnNow /\ Remember(owner, DidNow)
    /\ ret' = NoResult
    /\ UNCHANGED stack

TimeStep == Tick /\ ret' = NoResult /\ UNCHANGED <<stack, histVars>>

NothingKnown == [p \in Procs |-> [k \in Keys |-> Unknown]]

\* The processes are on the same device.
PowerStep ==
    /\ PowerCycle
    /\ stack' = [p \in Procs |-> <<>>] /\ ret' = NoResult
    /\ owner' = [c \in Conns |-> NoProc] /\ did' = [c \in Conns |-> "nothing"]
    /\ had' = [p \in Procs |-> {}] /\ own' = NothingKnown

-----------------------------------------------------------------------------
SysInit ==
    /\ Init
    /\ stack = [p \in Procs |-> <<>>] /\ ret = NoResult
    /\ owner = [c \in Conns |-> NoProc] /\ did = [c \in Conns |-> "nothing"]
    /\ had = [p \in Procs |-> {}] /\ own = NothingKnown

\* The steps of a call that depend neither on the application nor on an error
\* of connect.
Works(p) ==
    \/ call_connect(p)
    \/ call_send(p)
    \/ call_send_fail(p)
    \/ call_close(p)
    \/ call_recv_status(p)
    \/ property_get_recv(p)
    \/ property_list_recv(p)
    \/ property_monitor_open_recv(p)
    \/ call_eof(p)
    \/ call_timeout(p)
    \/ callback_return(p)
    \/ property_wait_read(p)
    \/ property_wait_timeout(p)

ProcStep(p) ==
    Begin(p) \/ Works(p) \/ call_connect_fail(p) \/ monitor_read(p) \/ monitor_close(p)

SysNext == DaemonStep \/ TimeStep \/ PowerStep \/ \E p \in Procs : ProcStep(p)

SysSpec == SysInit /\ [][SysNext]_sysVars

\* The daemon goes on, and so do the live processes.  A process that tries
\* again and again to connect, or to send before the daemon's timeout of
\* seconds, succeeds some time.
SysFairness ==
    /\ WF_sysVars(DaemonStep) /\ WF_sysVars(TimeStep)
    /\ \A p \in LiveProcs :
        WF_sysVars(Works(p)) /\ SF_sysVars(call_connect(p)) /\ SF_sysVars(call_send(p))

FairSysSpec == SysSpec /\ SysFairness

-----------------------------------------------------------------------------
(* Properties *)

\* The calls that have a connection, by process and place in its stack.
Open ==
    {o \in Procs \X (1..2) : o[2] <= Len(stack[o[1]]) /\ stack[o[1]][o[2]].conn # NoConn}
OpenConn(o) == stack[o[1]][o[2]].conn

\* The client ends that are open are those of the calls in progress, one
\* each: every way out of a call closes its descriptor, and none closes that
\* of another call.
ClientDescriptors ==
    /\ {c \in Conns : cli[c] # "closed"} = {OpenConn(o) : o \in Open}
    /\ \A o1, o2 \in Open : OpenConn(o1) = OpenConn(o2) => o1 = o2

\* In a step in which the innermost call of p, of one of these operations,
\* returns.
Finishes(p, ops) ==
    stack[p] # <<>> /\ Op(p) \in ops /\ Len(stack'[p]) < Len(stack[p]) /\ ret' # NoResult

\* A get returns a value its key had at some time between the call and the
\* return, however long its request waited behind others.
GetIsRecent ==
    [][\A p \in Procs :
        Finishes(p, {"G"}) /\ ret'.res = "ok" /\ ret'.val # Absent =>
            ret'.val \in had[p]]_sysVars

\* A process reads what it has written itself, also by a one-way set or a
\* call that timed out, unless another one has changed the key.  A get that
\* fails in the daemon reads as no value: where memory or a fetch may fail
\* this is said of the gets that return one.
ReadsOwnWrites ==
    [][\A p \in Procs :
        Finishes(p, {"G"}) /\ ret'.res = "ok" /\ did[Conn(p)] = "ok"
          /\ own[p][Top(p).call.req.key] # Unknown =>
            ret'.val = own[p][Top(p).call.req.key]]_sysVars

\* A call of one of these operations that waits for its answer returns 0 only
\* if the daemon has carried it out.
Told(ops) ==
    \A p \in Procs :
        Finishes(p, ops) /\ How(p) = "plain" /\ ret'.res = "ok" => did[Conn(p)] = "ok"

\* A set or delete that waits for its answer and returns 0 has been carried
\* out.
SetTold == [][Told({"S", "D"})]_sysVars

\* So has a property_commit: "On failure returns -errno".  It does not hold:
\* a receive that times out is not noticed.
CommitTold == [][Told({"C"})]_sysVars

\* A process is in a call (an open monitor is none).
InCall(p) == stack[p] # <<>> /\ Top(p).at # "monitoring"

\* Every call of a process that does not stop by itself returns, whatever
\* the other processes do, unless the daemon follows the event of a monitor
\* it has freed.
ClientCallReturns == \A p \in LiveProcs : InCall(p) ~> ~InCall(p) \/ pc = "undefined"

\* The client calls do nothing to the daemon that KvdbServer does not allow:
\* what holds of KvdbServer holds here.
ServerBehaviour == Spec

=============================================================================
