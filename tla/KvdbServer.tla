----------------------------- MODULE KvdbServer -----------------------------
(***************************************************************************)
(* kvdbd, the daemon of kvdb/server.c, with the clients of kvdb/client.c   *)
(* at the other end of its sockets.                                        *)
(*                                                                         *)
(* The daemon is one thread.  It binds its sockets, opens the database,    *)
(* loads the default values and then loops: commit if the deadline has     *)
(* passed, wait for events, handle them one after the other.  The events   *)
(* of one epoll_wait are remembered in a local array (here batch) while    *)
(* the handlers run, send to sockets and free monitors.                    *)
(*                                                                         *)
(* The interleavings come from outside: clients connect, send, read slowly *)
(* or die at any point, the clock advances, the power fails.               *)
(***************************************************************************)
EXTENDS KvdbBackend

CONSTANTS
    Listeners,       \* the listening sockets (AF_UNIX, AF_RPMSG)
    Conns,           \* the connections clients can have at a time
    ListenerOf,      \* the socket each of them connects to
    Slots,           \* heap addresses of struct kvdb_monitor elements
    Requests,        \* the requests clients make
    Source,          \* CONFIG_KVDB_SOURCE_PATH: a sequence of files, each
                     \* the sequence of its <<key, value>> lines
    CommitInterval,  \* CONFIG_KVDB_COMMIT_INTERVAL
    TimeoutOn,       \* CONFIG_KVDB_TIMEOUT_INTERVAL is not 0
    SockBuf,         \* messages a socket buffer holds
    KVFD_MAX,        \* events one epoll_wait returns at most
    IoMayFail,       \* do writes, commits and opening of the storage fail?
    FetchMayFail,    \* do reads of the storage fail?
    AllocMayFail,    \* do malloc, zalloc, socket, bind, accept and epoll_ctl fail?
    NoConn, NoReq, NoKey, NoMsg

Ops == {"S", "D", "G", "L", "C", "R", "M"}

\* A request: op is the first byte of the message.  pat is what property
\* monitoring asks for, the set of keys the fnmatch pattern matches.
RequestRecords ==
    [op : Ops, key : Keys \cup {NoKey}, val : Vals \cup {Absent}, pat : SUBSET Keys]

\* What the daemon sends: the 4 byte status (ok, err; open for a monitor),
\* the value of a key, the entries and the terminator of a list, and the
\* change of a monitored key.
Tags == {"ok", "err", "open", "value", "entry", "end", "event"}
Messages == [tag : Tags, key : Keys \cup {NoKey}, val : Vals \cup {Absent}]

ASSUME RequestsAssumption ==
    /\ Requests \subseteq RequestRecords
    /\ \A r \in Requests :
        /\ r.op \in {"S", "D", "G"} => r.key \in Keys
        /\ r.op = "S" => r.val \in Vals \ LongVals

ASSUME SocketsAssumption ==
    /\ Listeners \cap Slots = {}
    /\ ListenerOf \in [Conns -> Listeners]
    /\ NoConn \notin Conns /\ NoReq \notin Requests
    /\ NoKey \notin Keys /\ NoMsg \notin Messages

ASSUME ConfigAssumption ==
    /\ Source \in Seq(Seq(Keys \X Vals))
    /\ CommitInterval \in Nat
    /\ SockBuf \in Nat \ {0} /\ KVFD_MAX \in Nat \ {0}
    /\ TimeoutOn \in BOOLEAN /\ AllocMayFail \in BOOLEAN
    /\ IoMayFail \in BOOLEAN /\ FetchMayFail \in BOOLEAN

VARIABLES
    cache,    \* what kvdb_get sees
    disk,     \* what is there when the power comes back
    boot,     \* history: what kvdb_init found, until the boot is over
    now,      \* CLOCK_MONOTONIC, in seconds
    next,     \* the local of kvdb_loop: when to commit, 0 for never
    pc,       \* where the daemon is
    batch,    \* the events of evs[] not handled yet, by their data.ptr
    cur,      \* the connection kvdb_client serves
    reply,    \* what it has still to send to it
    dirty,    \* the local of kvdb_client
    note,     \* the change kvdb_monitor_notify announces: <<key, value>>
    todo,     \* the monitors it has still to visit
    lkeys,    \* the keys kvdb_list has still to pass to kvdb_list_consume
    lf, li,   \* where kvdb_load is: file, and line (0: not opened)
    heap,     \* the monitor elements: server->head, by address
    pat,      \* the keys each monitor matches
    view,     \* history: what a monitoring client knows of the store
    bound,    \* the listening sockets kvdb_bind has got
    backlog,  \* connections waiting for accept
    fds,      \* connections whose server end is open
    cli,      \* the client end of each connection
    req,      \* the request waiting in the socket
    inbox     \* the messages waiting for the client

storeVars == <<cache, disk, boot>>
timeVars  == <<now, next>>
workVars  == <<note, todo, lkeys>>
loadVars  == <<lf, li>>
monVars   == <<heap, pat>>
cliVars   == <<cli, view>>
vars == <<cache, disk, boot, now, next, pc, batch, cur, reply, dirty, note, todo,
          lkeys, lf, li, heap, pat, view, bound, backlog, fds, cli, req, inbox>>

NoNote == <<NoKey, Absent>>
EmptyImage == [k \in Keys |-> Absent]
Pcs == {"off", "init", "load", "start", "batch", "wait", "recv", "reply", "down", "undefined"}
CliStates == {"closed", "connected", "sent", "monitoring"}

TypeOK ==
    /\ cache \in Image /\ disk \in Image /\ boot \in Image
    /\ now \in Nat /\ next \in Nat
    /\ pc \in Pcs
    /\ batch \subseteq Listeners \cup Slots
    /\ cur \in Conns \cup {NoConn}
    /\ reply \in Messages \cup {NoMsg}
    /\ dirty \in BOOLEAN
    /\ note \in (Keys \cup {NoKey}) \X (Vals \cup {Absent})
    /\ todo \subseteq Slots
    /\ lkeys \subseteq Keys
    /\ lf \in Nat \ {0} /\ li \in Nat
    /\ heap \in [Slots -> Conns \cup {NoConn}]
    /\ pat \in [Slots -> SUBSET Keys]
    /\ view \in [Conns -> Image]
    /\ bound \subseteq Listeners
    /\ backlog \in [Listeners -> Seq(Conns)]
    /\ fds \subseteq Conns
    /\ cli \in [Conns -> CliStates]
    /\ req \in [Conns -> Requests \cup {NoReq}]
    /\ inbox \in [Conns -> Seq(Messages)]

-----------------------------------------------------------------------------
(* Sockets and failures *)

Status(ok) == [tag |-> IF ok THEN "ok" ELSE "err", key |-> NoKey, val |-> Absent]
Control(tag) == [tag |-> tag, key |-> NoKey, val |-> Absent]
Pair(tag, k, v) == [tag |-> tag, key |-> k, val |-> v]

\* A send succeeds while the client is there and its buffer has room; it
\* fails when the client is gone, or when SO_SNDTIMEO expires on a full
\* buffer.  Without the timeout it blocks.
CanSend(c) == cli[c] # "closed" /\ Len(inbox[c]) < SockBuf
SendFails(c) == cli[c] = "closed" \/ (TimeoutOn /\ Len(inbox[c]) >= SockBuf)
Sent(c, m) == [inbox EXCEPT ![c] = Append(@, m)]

\* A send whose result the daemon ignores.
TrySend(c, m) ==
    \/ CanSend(c) /\ inbox' = Sent(c, m)
    \/ SendFails(c) /\ UNCHANGED inbox

\* What a storage operation that should return ok may return.
Outcomes(ok) == IF IoMayFail THEN {ok, FALSE} ELSE {ok}

\* What a fetch of key k may make of an image: one that fails is taken for
\* one that found no such key, by kvdb_load, kvdb_client and
\* unqlite_kv_is_exist alike.
Fetched(img, k) == IF FetchMayFail THEN {img, Written(img, k, Absent)} ELSE {img}

\* The sets of keys kvdb_list may pass on: an error ends it, or makes it go
\* on with the next database, and its result is ignored.
Listed(img) == IF FetchMayFail THEN SUBSET kvdb_list(img) ELSE {kvdb_list(img)}

\* The databases unqlite_commit fails for.
CommitFailures ==
    IF IoMayFail /\ Backend = "unqlite" THEN SUBSET Databases ELSE {{}}

\* Does kvdb_commit return 0?  It commits every database and returns the
\* first error.
CommitReturnsOk_last(failed) == "KVDB_MEM" \notin failed
CommitReturnsOk(failed) == failed = {}

\* The monitors kvdb_monitor_notify has to visit for key k.
Matching(k) == {s \in Slots : heap[s] # NoConn /\ k \in pat[s]}

\* LIST_REMOVE, EPOLL_CTL_DEL, close and free of one monitor.
FreeMonitor_kept(s) == UNCHANGED <<heap, pat, fds>>
FreeMonitor_leak(s) ==
    /\ heap' = [heap EXCEPT ![s] = NoConn]
    /\ pat' = [pat EXCEPT ![s] = {}]
    /\ UNCHANGED fds
FreeMonitor(s) ==
    /\ heap' = [heap EXCEPT ![s] = NoConn]
    /\ pat' = [pat EXCEPT ![s] = {}]
    /\ fds' = fds \ {heap[s]}

-----------------------------------------------------------------------------
(* Start and load *)

Init ==
    /\ cache = EmptyImage /\ disk = EmptyImage /\ boot = EmptyImage
    /\ now = 0 /\ next = 0
    /\ pc = "off" /\ batch = {}
    /\ cur = NoConn /\ reply = NoMsg /\ dirty = FALSE
    /\ note = NoNote /\ todo = {} /\ lkeys = {}
    /\ lf = 1 /\ li = 0
    /\ heap = [s \in Slots |-> NoConn] /\ pat = [s \in Slots |-> {}]
    /\ view = [c \in Conns |-> EmptyImage]
    /\ bound = {} /\ backlog = [l \in Listeners |-> <<>>]
    /\ fds = {}
    /\ cli = [c \in Conns |-> "closed"]
    /\ req = [c \in Conns |-> NoReq]
    /\ inbox = [c \in Conns |-> <<>>]

\* The sockets listen before the database is open: clients can connect, and
\* wait in the backlog until the boot is over.  A socket that cannot be had
\* is left out; one that cannot be bound ends the daemon.
kvdb_bind ==
    /\ pc = "off"
    /\ bound' \in (IF AllocMayFail THEN SUBSET Listeners ELSE {Listeners})
    /\ pc' \in (IF AllocMayFail THEN {"init", "down"} ELSE {"init"})
    /\ UNCHANGED <<storeVars, timeVars, batch, cur, reply, dirty, workVars, loadVars,
                   monVars, cliVars, backlog, fds, req, inbox>>

\* main leaves through kvdb_unbind: whoever is in the backlog is cut off.
kvdb_unbind ==
    /\ pc' = "down"
    /\ backlog' = [l \in Listeners |-> <<>>]
    /\ UNCHANGED boot

kvdb_init ==
    /\ pc = "init"
    /\ \/ pc' = "load" /\ boot' = cache /\ UNCHANGED backlog
       \/ IoMayFail /\ kvdb_init_can_fail /\ kvdb_unbind
    /\ UNCHANGED <<cache, disk, timeVars, batch, cur, reply, dirty, workVars, loadVars,
                   monVars, cliVars, bound, fds, req, inbox>>

\* kvdb_load runs at the start with force = false, and for the request 'R'
\* with force = true.
Forced == cur # NoConn

\* Where kvdb_load returns to.
AfterLoad == IF cur = NoConn THEN "start" ELSE "reply"

\* Opens the next file, or skips one that cannot be opened.
kvdb_load_open ==
    /\ pc = "load" /\ li = 0 /\ lf <= Len(Source)
    /\ \/ li' = 1 /\ UNCHANGED lf
       \/ IoMayFail /\ lf' = lf + 1 /\ UNCHANGED li
    /\ UNCHANGED <<storeVars, timeVars, pc, batch, cur, reply, dirty, workVars, monVars,
                   cliVars, bound, backlog, fds, req, inbox>>

\* Does kvdb_load skip a line for key k because it has seen the key in img?
SkipsLine(img, k) == ~Forced /\ kvdb_get(img, k, FALSE) # Absent

\* One line: a key that is there already is left alone unless forced;
\* kvdb_set is always forced, and its result is ignored.
kvdb_load_line ==
    /\ pc = "load" /\ li > 0 /\ li <= Len(Source[lf])
    /\ LET k == Source[lf][li][1]
           v == Source[lf][li][2]
       IN \E img \in Fetched(cache, k) :
          \E ok \in Outcomes(~SkipsLine(img, k) /\ kvdb_set(cache, k, v, TRUE)) :
            /\ cache' = IF ok THEN Written(cache, k, v) ELSE cache
            /\ disk' = IF ok THEN DiskWritten(disk, k, v) ELSE disk
    /\ li' = li + 1
    /\ UNCHANGED <<boot, timeVars, pc, batch, cur, reply, dirty, workVars, lf, monVars,
                   cliVars, bound, backlog, fds, req, inbox>>

kvdb_load_close ==
    /\ pc = "load" /\ li > 0 /\ li > Len(Source[lf])
    /\ lf' = lf + 1 /\ li' = 0
    /\ UNCHANGED <<storeVars, timeVars, pc, batch, cur, reply, dirty, workVars, monVars,
                   cliVars, bound, backlog, fds, req, inbox>>

\* The end of kvdb_load: kvdb_commit, its result ignored.  When one of its
\* two buffers cannot be allocated it returns before it reads anything.
LoadDone == pc = "load" /\ li = 0 /\ lf > Len(Source)

kvdb_load_return ==
    /\ \/ LoadDone /\ \E failed \in CommitFailures : disk' = kvdb_commit(cache, disk, failed)
       \/ AllocMayFail /\ pc = "load" /\ li = 0 /\ lf = 1 /\ UNCHANGED disk
    /\ pc' = AfterLoad /\ lf' = 1 /\ li' = 0
    /\ UNCHANGED <<cache, boot, timeVars, batch, cur, reply, dirty, workVars, monVars,
                   cliVars, bound, backlog, fds, req, inbox>>

\* The start of kvdb_loop: epoll_create, and the listening sockets added.
\* When that fails main closes the database, which commits it, and ends.
kvdb_loop_start ==
    /\ pc = "start"
    /\ boot' = EmptyImage
    /\ \/ pc' = "batch" /\ UNCHANGED <<disk, backlog>>
       \/ /\ AllocMayFail
          /\ pc' = "down"
          /\ disk' = kvdb_commit(cache, disk, {})
          /\ backlog' = [l \in Listeners |-> <<>>]
    /\ UNCHANGED <<cache, timeVars, batch, cur, reply, dirty, workVars, loadVars, monVars,
                   cliVars, bound, fds, req, inbox>>

-----------------------------------------------------------------------------
(* The loop *)

\* The deadline has passed when timeout = next - now is not positive.
Expired == next # 0 /\ next <= now

\* While no deadline is set, all that the clock can still decide is whether
\* the next deadline comes out as 0: the model restarts it at 1.
Rebased(t) == IF t = 0 THEN 0 ELSE 1

\* The top of the loop: commit when the deadline has passed; the result of
\* kvdb_commit is ignored and the deadline is gone in any case.
kvdb_loop_top ==
    /\ pc = "batch" /\ batch = {}
    /\ pc' = "wait"
    /\ \/ /\ Expired
          /\ \E failed \in CommitFailures : disk' = kvdb_commit(cache, disk, failed)
          /\ next' = 0 /\ now' = Rebased(now)
       \/ ~Expired /\ UNCHANGED <<disk, next, now>>
    /\ UNCHANGED <<cache, boot, batch, cur, reply, dirty, workVars, loadVars, monVars,
                   cliVars, bound, backlog, fds, req, inbox>>

\* The descriptors epoll reports: a listening socket with a connection to
\* accept, a monitor whose client has closed (EPOLLHUP).
Ready ==
    {l \in Listeners : backlog[l] # <<>>}
      \cup {s \in Slots : heap[s] # NoConn /\ cli[heap[s]] = "closed"}

epoll_wait ==
    /\ pc = "wait"
    /\ pc' = "batch"
    /\ \E evs \in SUBSET Ready :
        /\ evs # {}
        /\ Cardinality(evs) <= KVFD_MAX
        /\ Cardinality(evs) = KVFD_MAX \/ evs = Ready
        /\ batch' = evs
    /\ UNCHANGED <<storeVars, timeVars, cur, reply, dirty, workVars, loadVars, monVars,
                   cliVars, bound, backlog, fds, req, inbox>>

epoll_timeout ==
    /\ pc = "wait" /\ Expired
    /\ pc' = "batch"
    /\ UNCHANGED <<storeVars, timeVars, batch, cur, reply, dirty, workVars, loadVars,
                   monVars, cliVars, bound, backlog, fds, req, inbox>>

\* An event of a listening socket: accept, and kvdb_client begins.
kvdb_accept(l) ==
    /\ pc = "batch" /\ l \in batch /\ backlog[l] # <<>>
    /\ batch' = batch \ {l}
    /\ pc' = "recv"
    /\ cur' = Head(backlog[l])
    /\ fds' = fds \cup {Head(backlog[l])}
    /\ backlog' = [backlog EXCEPT ![l] = Tail(@)]
    /\ UNCHANGED <<storeVars, timeVars, reply, dirty, workVars, loadVars, monVars, cliVars,
                   bound, req, inbox>>

\* accept fails: the event is dropped, the connection stays where it is.
kvdb_accept_fail(l) ==
    /\ AllocMayFail
    /\ pc = "batch" /\ l \in batch
    /\ batch' = batch \ {l}
    /\ UNCHANGED <<storeVars, timeVars, pc, cur, reply, dirty, workVars, loadVars, monVars,
                   cliVars, bound, backlog, fds, req, inbox>>

\* An EPOLLHUP event: the monitor element at the address the event carries
\* is closed and freed.  The element there now need not be the one the event
\* was raised for.
kvdb_monitor_close(s) ==
    /\ pc = "batch" /\ s \in batch /\ heap[s] # NoConn
    /\ batch' = batch \ {s}
    /\ FreeMonitor(s)
    /\ UNCHANGED <<storeVars, timeVars, pc, cur, reply, dirty, workVars, loadVars, cliVars,
                   bound, backlog, req, inbox>>

\* The same when the element at that address has been freed since and not
\* allocated again.  The daemon reads a descriptor from the freed memory and
\* closes it, whichever it is now, takes the element off the list and frees
\* it once more.  C says nothing of what it does from there on, nor does the
\* model: nobody connects any more, and only the power ends this state.
kvdb_monitor_close_freed(s) ==
    /\ pc = "batch" /\ s \in batch /\ heap[s] = NoConn
    /\ batch' = batch \ {s}
    /\ pc' = "undefined"
    /\ fds' \in {fds} \cup {fds \ {c} : c \in fds}
    /\ UNCHANGED <<storeVars, timeVars, cur, reply, dirty, workVars, loadVars, monVars,
                   cliVars, bound, backlog, req, inbox>>

-----------------------------------------------------------------------------
(* kvdb_client: one request of the accepted connection *)

\* The request is read, and its status or value is what kvdb_client sends
\* once the monitors and the list are done.
Handled(m, changed) ==
    /\ pc' = "reply"
    /\ reply' = m
    /\ dirty' = changed
    /\ req' = [req EXCEPT ![cur] = NoReq]
    /\ UNCHANGED <<timeVars, batch, cur, loadVars, monVars, cliVars, bound, backlog, fds,
                   inbox>>

\* Does the first recv end without a request?  It returns 0 when the client
\* has closed, and fails when SO_RCVTIMEO expires.
RecvGivesUp(c) == req[c] = NoReq /\ (cli[c] = "closed" \/ TimeoutOn)

\* kvdb_client goes to out without having done anything: no memory for the
\* message, or no whole message from the client.
kvdb_client_fail ==
    /\ pc = "recv"
    /\ AllocMayFail \/ RecvGivesUp(cur)
    /\ Handled(NoMsg, FALSE)
    /\ UNCHANGED <<storeVars, workVars>>

Serves(op) == pc = "recv" /\ req[cur] # NoReq /\ req[cur].op = op

\* The store changes, and every monitor of the key has to be told.
Change(k, v) ==
    /\ cache' = Written(cache, k, v)
    /\ disk' = DiskWritten(disk, k, v)
    /\ note' = <<k, v>>
    /\ todo' = Matching(k)
    /\ UNCHANGED <<boot, lkeys>>

\* A set or a delete: when the backend accepts it the daemon notifies and
\* the database is dirty; in any case it sends the status.
Modify(k, v, accepted) ==
    \E ok \in Outcomes(accepted) :
        /\ IF ok THEN Change(k, v) ELSE UNCHANGED <<storeVars, workVars>>
        /\ Handled(Status(ok), ok)

kvdb_client_set ==
    /\ Serves("S")
    /\ LET r == req[cur]
       IN \E img \in Fetched(cache, r.key) :
            Modify(r.key, r.val, kvdb_set(img, r.key, r.val, FALSE))

kvdb_client_delete ==
    /\ Serves("D")
    /\ LET r == req[cur] IN Modify(r.key, Absent, kvdb_delete(cache, r.key))

\* The image a get of a client looks into.
Looked_disk == disk
Looked == cache

\* A get that finds nothing, or fails, sends nothing: the client sees the end
\* of the stream.
kvdb_client_get ==
    /\ Serves("G")
    /\ \E img \in Fetched(Looked, req[cur].key) :
        LET v == kvdb_get(img, req[cur].key, TRUE)
        IN Handled(IF v = Absent THEN NoMsg ELSE Pair("value", req[cur].key, v), FALSE)
    /\ UNCHANGED <<storeVars, workVars>>

kvdb_client_list ==
    /\ Serves("L")
    /\ lkeys' \in Listed(cache)
    /\ Handled(Control("end"), FALSE)
    /\ UNCHANGED <<storeVars, note, todo>>

\* kvdb_commit here leaves the deadline of kvdb_loop alone.
kvdb_client_commit ==
    /\ Serves("C")
    /\ \E failed \in CommitFailures :
        /\ disk' = kvdb_commit(cache, disk, failed)
        /\ Handled(Status(CommitReturnsOk(failed)), FALSE)
    /\ UNCHANGED <<cache, boot, workVars>>

\* kvdb_load with force: neither the monitors nor kvdb_loop are told.
kvdb_client_reload ==
    /\ Serves("R")
    /\ pc' = "load"
    /\ req' = [req EXCEPT ![cur] = NoReq]
    /\ UNCHANGED <<storeVars, timeVars, batch, cur, reply, dirty, workVars, loadVars,
                   monVars, cliVars, bound, backlog, fds, inbox>>

\* An element for the connection goes into the list and into epoll.
kvdb_monitor_open(s) ==
    /\ heap[s] = NoConn
    /\ heap' = [heap EXCEPT ![s] = cur]
    /\ pat' = [pat EXCEPT ![s] = req[cur].pat]
    /\ view' = IF cli[cur] = "closed" THEN view ELSE [view EXCEPT ![cur] = cache]

\* A monitor: the connection stays open and the status is sent.  When there
\* is no memory or epoll_ctl fails the status is sent all the same, and
\* kvdb_client returns without closing.
kvdb_client_monitor ==
    /\ Serves("M")
    /\ \/ (\E s \in Slots : kvdb_monitor_open(s)) /\ TrySend(cur, Control("open"))
       \/ /\ AllocMayFail
          /\ TrySend(cur, Status(FALSE))
          /\ UNCHANGED <<heap, pat, view>>
    /\ pc' = "batch" /\ cur' = NoConn
    /\ req' = [req EXCEPT ![cur] = NoReq]
    /\ UNCHANGED <<storeVars, timeVars, batch, reply, dirty, workVars, loadVars, bound,
                   backlog, fds, cli>>

\* One round of kvdb_monitor_notify: the change is sent to a monitor that
\* matches; when the send fails the monitor is dropped.
kvdb_monitor_notify(s) ==
    /\ pc = "reply" /\ s \in todo
    /\ todo' = todo \ {s}
    /\ \/ /\ CanSend(heap[s])
          /\ inbox' = Sent(heap[s], Pair("event", note[1], note[2]))
          /\ UNCHANGED <<monVars, fds>>
       \/ SendFails(heap[s]) /\ FreeMonitor(s) /\ UNCHANGED inbox
    /\ UNCHANGED <<storeVars, timeVars, pc, batch, cur, reply, dirty, note, lkeys, loadVars,
                   cliVars, bound, backlog, req>>

\* One entry of the list; whether it went out is not looked at.
kvdb_list_consume(k) ==
    /\ pc = "reply" /\ k \in lkeys
    /\ lkeys' = lkeys \ {k}
    /\ TrySend(cur, Pair("entry", k, cache[k]))
    /\ UNCHANGED <<storeVars, timeVars, pc, batch, cur, reply, dirty, note, todo, loadVars,
                   monVars, cliVars, bound, backlog, fds, req>>

\* The deadline a change made now gets; 0 is no deadline.
Deadline_raw(t) == t + CommitInterval
Deadline_minus(t) == t - CommitInterval
Deadline(t) == IF t + CommitInterval = 0 THEN 1 ELSE t + CommitInterval

\* What kvdb_loop makes of the result of kvdb_client: the first change after
\* a commit sets the deadline, the later ones do not move it.
NextDeadline_slides == IF dirty THEN Deadline(now) ELSE next
NextDeadline_inverted == IF dirty /\ next # 0 THEN Deadline(now) ELSE next
NextDeadline == IF dirty /\ next = 0 THEN Deadline(now) ELSE next

\* The end of kvdb_client: the answer goes out, the connection is closed.
kvdb_client_out ==
    /\ pc = "reply" /\ todo = {} /\ lkeys = {}
    /\ IF reply = NoMsg THEN UNCHANGED inbox ELSE TrySend(cur, reply)
    /\ fds' = fds \ {cur}
    /\ next' = NextDeadline
    /\ pc' = "batch" /\ cur' = NoConn
    /\ reply' = NoMsg /\ dirty' = FALSE /\ note' = NoNote
    /\ req' = [req EXCEPT ![cur] = NoReq]
    /\ UNCHANGED <<storeVars, now, batch, todo, lkeys, loadVars, monVars, cliVars, bound,
                   backlog>>

-----------------------------------------------------------------------------
(* Clients, the clock and the power *)

\* The daemon has no end of connection c (any more).
Dropped(c) == c \notin fds /\ \A i \in 1..Len(backlog[ListenerOf[c]]) : backlog[ListenerOf[c]][i] # c

\* property_connect: a connection both ends have closed is a new one.
property_connect(c) ==
    /\ pc \notin {"off", "down", "undefined"} /\ ListenerOf[c] \in bound
    /\ cli[c] = "closed" /\ Dropped(c)
    /\ cli' = [cli EXCEPT ![c] = "connected"]
    /\ backlog' = [backlog EXCEPT ![ListenerOf[c]] = Append(@, c)]
    /\ UNCHANGED <<storeVars, timeVars, pc, batch, cur, reply, dirty, workVars, loadVars,
                   monVars, view, bound, fds, req, inbox>>

\* The sendmsg of property_set_binary, property_get_binary, ...
property_send(c, r) ==
    /\ cli[c] = "connected" /\ ~Dropped(c)
    /\ cli' = [cli EXCEPT ![c] = "sent"]
    /\ req' = [req EXCEPT ![c] = r]
    /\ UNCHANGED <<storeVars, timeVars, pc, batch, cur, reply, dirty, workVars, loadVars,
                   monVars, view, bound, backlog, fds, inbox>>

\* The client end is closed; what it had not read is lost, what it had sent
\* is still there for the daemon to read.
Closed(c) ==
    /\ cli' = [cli EXCEPT ![c] = "closed"]
    /\ inbox' = [inbox EXCEPT ![c] = <<>>]
    /\ view' = [view EXCEPT ![c] = EmptyImage]

\* The recv of an answer.  A monitor stays open and a list goes on, any
\* other answer is the last thing the client wants from the connection.
property_recv(c) ==
    /\ cli[c] = "sent" /\ inbox[c] # <<>>
    /\ \/ /\ Head(inbox[c]).tag \in {"open", "entry"}
          /\ cli' = [cli EXCEPT ![c] =
                        IF Head(inbox[c]).tag = "open" THEN "monitoring" ELSE "sent"]
          /\ inbox' = [inbox EXCEPT ![c] = Tail(@)]
          /\ UNCHANGED view
       \/ Head(inbox[c]).tag \notin {"open", "entry"} /\ Closed(c)
    /\ UNCHANGED <<storeVars, timeVars, pc, batch, cur, reply, dirty, workVars, loadVars,
                   monVars, bound, backlog, fds, req>>

\* property_monitor_read: the client learns the new value of a key.
property_monitor_read(c) ==
    /\ cli[c] = "monitoring" /\ inbox[c] # <<>>
    /\ LET m == Head(inbox[c]) IN view' = [view EXCEPT ![c] = Written(@, m.key, m.val)]
    /\ inbox' = [inbox EXCEPT ![c] = Tail(@)]
    /\ UNCHANGED <<storeVars, timeVars, pc, batch, cur, reply, dirty, workVars, loadVars,
                   monVars, cli, bound, backlog, fds, req>>

\* recv returns 0: the daemon has closed the connection.
property_eof(c) ==
    /\ cli[c] # "closed" /\ inbox[c] = <<>> /\ Dropped(c)
    /\ Closed(c)
    /\ UNCHANGED <<storeVars, timeVars, pc, batch, cur, reply, dirty, workVars, loadVars,
                   monVars, bound, backlog, fds, req>>

\* The client closes before that: a one-way set and property_reload right
\* after the send, the others when a timeout strikes or they die, a monitor
\* in property_monitor_close.
property_close(c) ==
    /\ cli[c] # "closed"
    /\ Closed(c)
    /\ UNCHANGED <<storeVars, timeVars, pc, batch, cur, reply, dirty, workVars, loadVars,
                   monVars, bound, backlog, fds, req>>

\* A second passes.  Once a deadline has passed later seconds change nothing.
Tick ==
    /\ IF next = 0 THEN now = 0 ELSE now < next
    /\ now' = now + 1
    /\ UNCHANGED <<storeVars, next, pc, batch, cur, reply, dirty, workVars, loadVars,
                   monVars, cliVars, bound, backlog, fds, req, inbox>>

\* Is the daemon about to run, or in the middle of, a kvdb_commit?
Committing ==
    /\ Backend = "unqlite"
    /\ \/ LoadDone
       \/ pc = "batch" /\ batch = {} /\ Expired
       \/ Serves("C")

\* The power fails and comes back, between two steps or inside a commit.
PowerCycle ==
    /\ \E reached \in (IF Committing THEN SUBSET Keys ELSE {{}}) :
        /\ disk' = AfterPowerOff(TornCommit(cache, disk, reached))
        /\ cache' = disk'
    /\ boot' = EmptyImage
    /\ now' = 0 /\ next' = 0
    /\ pc' = "off" /\ batch' = {}
    /\ cur' = NoConn /\ reply' = NoMsg /\ dirty' = FALSE
    /\ note' = NoNote /\ todo' = {} /\ lkeys' = {}
    /\ lf' = 1 /\ li' = 0
    /\ heap' = [s \in Slots |-> NoConn] /\ pat' = [s \in Slots |-> {}]
    /\ view' = [c \in Conns |-> EmptyImage]
    /\ bound' = {} /\ backlog' = [l \in Listeners |-> <<>>]
    /\ fds' = {}
    /\ cli' = [c \in Conns |-> "closed"]
    /\ req' = [c \in Conns |-> NoReq]
    /\ inbox' = [c \in Conns |-> <<>>]

-----------------------------------------------------------------------------
kvdb_load == kvdb_load_open \/ kvdb_load_line \/ kvdb_load_close \/ kvdb_load_return

kvdb_client ==
    \/ kvdb_client_fail
    \/ kvdb_client_set
    \/ kvdb_client_delete
    \/ kvdb_client_get
    \/ kvdb_client_list
    \/ kvdb_client_commit
    \/ kvdb_client_reload
    \/ kvdb_client_monitor
    \/ \E s \in Slots : kvdb_monitor_notify(s)
    \/ \E k \in Keys : kvdb_list_consume(k)
    \/ kvdb_client_out

kvdb_loop ==
    \/ kvdb_loop_start
    \/ kvdb_loop_top
    \/ epoll_wait
    \/ epoll_timeout
    \/ \E l \in Listeners : kvdb_accept(l) \/ kvdb_accept_fail(l)
    \/ \E s \in Slots : kvdb_monitor_close(s) \/ kvdb_monitor_close_freed(s)

Daemon == kvdb_bind \/ kvdb_init \/ kvdb_load \/ kvdb_loop \/ kvdb_client

Client(c) ==
    \/ property_connect(c)
    \/ \E r \in Requests : property_send(c, r)
    \/ property_recv(c)
    \/ property_monitor_read(c)
    \/ property_eof(c)
    \/ property_close(c)

Next == Daemon \/ (\E c \in Conns : Client(c)) \/ Tick \/ PowerCycle

Spec == Init /\ [][Next]_vars

-----------------------------------------------------------------------------
(* Properties *)

\* Every change that is not on the disk yet will be committed: a deadline is
\* set in kvdb_loop, or kvdb_client is about to report the change to it, or
\* kvdb_load is on its way to its own kvdb_commit.
CommitScheduled == cache # disk => next # 0 \/ dirty \/ pc = "load"

\* Once set, the deadline of kvdb_loop is never moved: it goes away only
\* when it has passed (with the commit), or with the power.
DeadlineNeverSlides ==
    [][next # 0 /\ next' # next => (Expired /\ next' = 0) \/ pc' = "off"]_vars

\* property_commit reports success only when everything is on the disk,
\* whichever of the databases failed.
CommitAcked ==
    [][Serves("C") /\ pc' = "reply" /\ reply' = Status(TRUE) => disk' = cache]_vars

\* kvdb_load with force is at a line that gives key k the value v.
Reloads(k, v) == pc = "load" /\ Forced /\ li > 0 /\ Source[lf][li] = <<k, v>>

\* A read-only key that has a value keeps it, whatever sets and deletes
\* clients send and through every boot: only a reload changes it, to the
\* value of a line for it, or the loss of power.  This needs fetches that do
\* not fail: unqlite_kv_is_exist takes an error for a missing key.
ReadOnlyKept ==
    [][\A k \in RoKeys :
        cache[k] # Absent /\ cache'[k] # cache[k] => pc' = "off" \/ Reloads(k, cache'[k])]_vars

\* A line of the source files the backend accepts for key k.
GivesValue(f, i, k, v) ==
    f \in 1..Len(Source) /\ i \in 1..Len(Source[f]) /\ Source[f][i] = <<k, v>>
      /\ kvdb_set(EmptyImage, k, v, TRUE)

Before(f, i, g, j) == f < g \/ (f = g /\ i < j)

\* v is what the first line that gives key k a value says, Absent if none.
FirstDefault(k, v) ==
    IF v = Absent
    THEN \A f \in DOMAIN Source : \A i \in DOMAIN Source[f] : \A w \in Vals : ~GivesValue(f, i, k, w)
    ELSE \E f \in DOMAIN Source : \E i \in DOMAIN Source[f] :
            /\ GivesValue(f, i, k, v)
            /\ \A g \in DOMAIN Source : \A j \in DOMAIN Source[g] : \A w \in Vals :
                Before(g, j, f, i) => ~GivesValue(g, j, k, w)

\* When the daemon starts serving, every stored key has the value it had
\* when the power failed, and every other key its default: what the first
\* line for it in the source files says.
BootKeepsStored ==
    pc = "start" =>
        \A k \in Keys :
            IF boot[k] # Absent THEN cache[k] = boot[k] ELSE FirstDefault(k, cache[k])

\* What client c will know of key k once it has read its events.
WillKnow(c, k, v) ==
    LET events == {i \in 1..Len(inbox[c]) : inbox[c][i].tag = "event" /\ inbox[c][i].key = k}
    IN IF events = {} THEN view[c][k] = v
       ELSE \E i \in events : inbox[c][i].val = v /\ \A j \in events : j <= i

\* A monitor is never left with an old value: a client whose monitor the
\* daemon keeps has seen, has in its socket, or is about to be sent the
\* present value of every key its pattern matches.  This, too, holds until
\* the daemon follows the event of a monitor it has freed.
MonitorCurrent ==
    \A s \in Slots :
        pc # "undefined" /\ heap[s] # NoConn /\ cli[heap[s]] # "closed" =>
            \A k \in pat[s] : WillKnow(heap[s], k, cache[k]) \/ (s \in todo /\ k = note[1])

\* No descriptor is leaked and none belongs to two: the open connections are
\* the one being served and those of the monitors, each of which has exactly
\* one monitor.  This holds until the daemon follows the event of a monitor
\* it has freed, if memory does not run out.
DescriptorsOwned ==
    pc # "undefined" =>
        /\ fds = {heap[s] : s \in {t \in Slots : heap[t] # NoConn}} \cup ({cur} \ {NoConn})
        /\ \A s, t \in Slots : heap[s] = heap[t] /\ heap[s] # NoConn => s = t
        /\ \A s \in Slots : heap[s] = cur => cur = NoConn

\* The monitor that kvdb_monitor_close is given is in the monitor list, from
\* which it removes it.  It does not hold: a notification may have freed it
\* since its hang-up event was returned.
ClosesListed ==
    [][\A s \in Slots : s \in batch /\ s \notin batch' => heap[s] # NoConn \/ pc' = "off"]_vars

\* The daemon stops a monitor only when its client has closed or a send to
\* it failed.
MonitorKept ==
    [][\A s \in Slots :
        heap[s] # NoConn /\ heap'[s] = NoConn => SendFails(heap[s]) \/ pc' = "off"]_vars

\* Every change reaches the disk (or is lost with the power), unless the
\* daemon follows the event of a monitor it has freed.
SavedEventually == (cache # disk) ~> (cache = disk \/ pc = "undefined")

-----------------------------------------------------------------------------
\* The store the daemon implements: the persistent keys.
Store == INSTANCE KvdbStore
            WITH WriteThrough <- Backend # "unqlite",
                 store <- [k \in PersistKeys |-> cache[k]],
                 saved <- [k \in PersistKeys |-> disk[k]]

\* The daemon implements the persistent store.
ImplementsStore == Store!Spec

=============================================================================
