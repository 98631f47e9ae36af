-------------------------- MODULE KvdbServerProofs --------------------------
(***************************************************************************)
(* Proofs about kvdbd (KvdbServer), for every set of keys, values,         *)
(* connections, monitors, requests and source files.                       *)
(***************************************************************************)
EXTENDS KvdbServer, TLAPS

-----------------------------------------------------------------------------
(* Type correctness.  TypeOK is not inductive: the handlers read the         *)
(* request of cur, and kvdb_load reads a line of the file it has opened.     *)

CurOK == pc \in {"recv", "reply"} => cur # NoConn
LoadOK == li # 0 => lf <= Len(Source)
TypeInv == TypeOK /\ CurOK /\ LoadOK

\* The tuples of variables the actions leave alone.
USE DEF storeVars, timeVars, workVars, loadVars, monVars, cliVars

\* What the backend does to an image gives an image.
LEMMA WrittenTypes ==
    ASSUME NEW img \in Image, NEW k, NEW v \in Vals \cup {Absent}
    PROVE  Written(img, k, v) \in Image /\ DiskWritten(img, k, v) \in Image
  BY DEF Image, Written, DiskWritten

LEMMA CommitTypes ==
    ASSUME NEW db \in Image, NEW dsk \in Image, NEW failed
    PROVE  kvdb_commit(db, dsk, failed) \in Image
  BY DEF Image, kvdb_commit

LEMMA PowerTypes ==
    ASSUME NEW db \in Image, NEW dsk \in Image, NEW reached
    PROVE  AfterPowerOff(TornCommit(db, dsk, reached)) \in Image
  BY DEF Image, TornCommit, AfterPowerOff

LEMMA EmptyType == EmptyImage \in Image
  BY DEF Image, EmptyImage

\* A backend that finds a value finds one of Vals.
LEMMA GetType ==
    ASSUME NEW db \in Image, NEW k \in Keys, NEW buffer \in BOOLEAN
    PROVE  kvdb_get(db, k, buffer) \in Vals \cup {Absent}
  BY BackendAssumption
     DEF Image, kvdb_get, unqlite_kvdb_get, nvs_kvdb_get, file_kvdb_get

\* What a fetch makes of an image is an image, and without failures the same.
LEMMA FetchedTypes ==
    ASSUME NEW img \in Image, NEW k, NEW seen \in Fetched(img, k)
    PROVE  seen \in Image /\ (~FetchMayFail => seen = img)
  BY WrittenTypes DEF Fetched

LEMMA SetIsBoolean ==
    ASSUME NEW db, NEW k, NEW v, NEW force
    PROVE  kvdb_set(db, k, v, force) \in BOOLEAN
  <1>1. unqlite_kvdb_set(db, k, v, force) \in BOOLEAN
    BY DEF unqlite_kvdb_set
  <1>2. nvs_kvdb_set(db, k, v, force) \in BOOLEAN
    BY DEF nvs_kvdb_set
  <1>3. file_kvdb_set(db, k, v, force) \in BOOLEAN
    BY DEF file_kvdb_set
  <1> QED
    BY <1>1, <1>2, <1>3, BackendAssumption DEF kvdb_set

\* The values the variables start from.
LEMMA ResetTypes ==
    /\ [l \in Listeners |-> <<>>] \in [Listeners -> Seq(Conns)]
    /\ [c \in Conns |-> <<>>] \in [Conns -> Seq(Messages)]
    /\ [c \in Conns |-> EmptyImage] \in [Conns -> Image]
    /\ [c \in Conns |-> "closed"] \in [Conns -> CliStates]
    /\ [c \in Conns |-> NoReq] \in [Conns -> Requests \cup {NoReq}]
    /\ [s \in Slots |-> NoConn] \in [Slots -> Conns \cup {NoConn}]
    /\ [s \in Slots |-> {}] \in [Slots -> SUBSET Keys]
    /\ NoNote \in (Keys \cup {NoKey}) \X (Vals \cup {Absent})
  BY EmptyType DEF CliStates, NoNote

LEMMA MessageTypes ==
    /\ \A ok \in BOOLEAN : Status(ok) \in Messages
    /\ \A t \in Tags : Control(t) \in Messages
    /\ \A t \in Tags, k \in Keys \cup {NoKey}, v \in Vals \cup {Absent} :
        Pair(t, k, v) \in Messages
  BY DEF Status, Control, Pair, Messages, Tags

\* A send gives the client a message more, or leaves its socket alone.
LEMMA SendTypes ==
    ASSUME TypeOK, NEW c, NEW m \in Messages
    PROVE  /\ Sent(c, m) \in [Conns -> Seq(Messages)]
           /\ TrySend(c, m) => inbox' \in [Conns -> Seq(Messages)]
  <1>1. ASSUME NEW d \in Conns
        PROVE  Append(inbox[d], m) \in Seq(Messages)
    BY DEF TypeOK
  <1>2. Sent(c, m) \in [Conns -> Seq(Messages)]
    BY <1>1 DEF TypeOK, Sent
  <1> QED
    BY <1>2 DEF TypeOK, TrySend

\* The line kvdb_load reads.
LEMMA LineTypes ==
    ASSUME TypeInv, li > 0, li <= Len(Source[lf])
    PROVE  Source[lf][li] \in Keys \X Vals
  <1>1. lf \in 1..Len(Source) /\ Source[lf] \in Seq(Keys \X Vals)
    BY ConfigAssumption DEF TypeInv, TypeOK, LoadOK
  <1>2. li \in 1..Len(Source[lf])
    BY <1>1 DEF TypeInv, TypeOK
  <1> QED
    BY <1>1, <1>2

\* The request kvdb_client serves.
LEMMA RequestTypes ==
    ASSUME TypeInv, NEW op \in Ops, Serves(op)
    PROVE  /\ cur \in Conns
           /\ req[cur] \in Requests
           /\ req[cur].op = op
           /\ req[cur].key \in Keys \cup {NoKey}
           /\ req[cur].val \in Vals \cup {Absent}
           /\ req[cur].pat \in SUBSET Keys
           /\ op \in {"S", "D", "G"} => req[cur].key \in Keys
  BY RequestsAssumption DEF TypeInv, TypeOK, CurOK, Serves, RequestRecords

LEMMA InitTypes == Init => TypeInv
  <1> SUFFICES ASSUME Init PROVE TypeInv
    OBVIOUS
  <1>1. /\ cache \in Image /\ disk \in Image /\ boot \in Image
        /\ view \in [Conns -> Image]
    BY EmptyType, ResetTypes DEF Init
  <1>2. /\ heap \in [Slots -> Conns \cup {NoConn}]
        /\ pat \in [Slots -> SUBSET Keys]
        /\ backlog \in [Listeners -> Seq(Conns)]
        /\ cli \in [Conns -> CliStates]
        /\ req \in [Conns -> Requests \cup {NoReq}]
        /\ inbox \in [Conns -> Seq(Messages)]
        /\ note \in (Keys \cup {NoKey}) \X (Vals \cup {Absent})
    BY ResetTypes DEF Init
  <1>3. /\ now \in Nat /\ next \in Nat /\ lf \in Nat \ {0} /\ li \in Nat
        /\ pc \in Pcs /\ batch = {} /\ todo = {} /\ lkeys = {} /\ fds = {} /\ bound = {}
        /\ cur = NoConn /\ reply = NoMsg /\ dirty = FALSE
    BY DEF Init, Pcs
  <1>4. TypeOK
    BY <1>1, <1>2, <1>3 DEF TypeOK
  <1> QED
    BY <1>4 DEF Init, TypeInv, CurOK, LoadOK

\* Starting and loading.
LEMMA LoadTypes ==
    ASSUME TypeInv, kvdb_bind \/ kvdb_init \/ kvdb_load
    PROVE  TypeInv'
  <1> USE DEF TypeInv
  <1>1. CASE kvdb_bind
    BY <1>1 DEF kvdb_bind, TypeOK, CurOK, LoadOK, Pcs
  <1>2. CASE kvdb_init
    BY <1>2, ResetTypes DEF kvdb_init, kvdb_unbind, TypeOK, CurOK, LoadOK, Pcs
  <1>3. CASE kvdb_load_open
    BY <1>3 DEF kvdb_load_open, TypeOK, CurOK, LoadOK
  <1>4. CASE kvdb_load_line
    <2>1. Source[lf][li][1] \in Keys /\ Source[lf][li][2] \in Vals
      BY <1>4, LineTypes DEF kvdb_load_line
    <2>2. cache' \in Image /\ disk' \in Image
      BY <1>4, <2>1, WrittenTypes DEF kvdb_load_line, TypeOK
    <2> QED
      BY <1>4, <2>2 DEF kvdb_load_line, TypeOK, CurOK, LoadOK
  <1>5. CASE kvdb_load_close
    BY <1>5 DEF kvdb_load_close, TypeOK, CurOK, LoadOK
  <1>6. CASE kvdb_load_return
    <2>1. disk' \in Image
      BY <1>6, CommitTypes DEF kvdb_load_return, TypeOK
    <2> QED
      BY <1>6, <2>1 DEF kvdb_load_return, AfterLoad, TypeOK, CurOK, LoadOK, Pcs
  <1> QED
    BY <1>1, <1>2, <1>3, <1>4, <1>5, <1>6 DEF kvdb_load

\* The loop.
LEMMA LoopTypes ==
    ASSUME TypeInv, kvdb_loop
    PROVE  TypeInv'
  <1> USE DEF TypeInv
  <1>1. CASE kvdb_loop_start
    <2>1. disk' \in Image /\ boot' \in Image
      BY <1>1, CommitTypes, EmptyType DEF kvdb_loop_start, TypeOK
    <2> QED
      BY <1>1, <2>1, ResetTypes DEF kvdb_loop_start, TypeOK, CurOK, LoadOK, Pcs
  <1>2. CASE kvdb_loop_top
    <2>1. disk' \in Image
      BY <1>2, CommitTypes DEF kvdb_loop_top, TypeOK
    <2> QED
      BY <1>2, <2>1 DEF kvdb_loop_top, Rebased, TypeOK, CurOK, LoadOK, Pcs
  <1>3. CASE epoll_wait
    BY <1>3 DEF epoll_wait, Ready, TypeOK, CurOK, LoadOK, Pcs
  <1>4. CASE epoll_timeout
    BY <1>4 DEF epoll_timeout, TypeOK, CurOK, LoadOK, Pcs
  <1>5. ASSUME NEW l \in Listeners, kvdb_accept(l)
        PROVE  TypeInv'
    <2>1. /\ Head(backlog[l]) \in Conns
          /\ Tail(backlog[l]) \in Seq(Conns)
      BY <1>5 DEF kvdb_accept, TypeOK
    <2> QED
      BY <1>5, <2>1, SocketsAssumption DEF kvdb_accept, TypeOK, CurOK, LoadOK, Pcs
  <1>6. ASSUME NEW l \in Listeners, kvdb_accept_fail(l)
        PROVE  TypeInv'
    BY <1>6 DEF kvdb_accept_fail, TypeOK, CurOK, LoadOK
  <1>7. ASSUME NEW s \in Slots, kvdb_monitor_close(s)
        PROVE  TypeInv'
    BY <1>7 DEF kvdb_monitor_close, FreeMonitor, TypeOK, CurOK, LoadOK
  <1>8. ASSUME NEW s \in Slots, kvdb_monitor_close_freed(s)
        PROVE  TypeInv'
    BY <1>8 DEF kvdb_monitor_close_freed, TypeOK, CurOK, LoadOK, Pcs
  <1> QED
    BY <1>1, <1>2, <1>3, <1>4, <1>5, <1>6, <1>7, <1>8 DEF kvdb_loop

\* A request that is handled leaves a well-typed state when its answer and
\* what it did to the store and to the work lists are well-typed.
LEMMA HandledTypes ==
    ASSUME TypeInv, pc = "recv", NEW m \in Messages \cup {NoMsg}, NEW changed \in BOOLEAN,
           Handled(m, changed),
           cache' \in Image, disk' \in Image, boot' = boot,
           note' \in (Keys \cup {NoKey}) \X (Vals \cup {Absent}),
           todo' \subseteq Slots, lkeys' \subseteq Keys
    PROVE  TypeInv'
  BY DEF TypeInv, Handled, TypeOK, CurOK, LoadOK, Pcs

LEMMA ModifyTypes ==
    ASSUME TypeInv, pc = "recv", NEW k \in Keys, NEW v \in Vals \cup {Absent}, NEW accepted,
           accepted \in BOOLEAN, Modify(k, v, accepted)
    PROVE  TypeInv'
  <1>1. PICK ok \in Outcomes(accepted) :
            /\ IF ok THEN Change(k, v) ELSE UNCHANGED <<storeVars, workVars>>
            /\ Handled(Status(ok), ok)
    BY DEF Modify
  <1>2. ok \in BOOLEAN
    BY DEF Outcomes
  <1>3. Status(ok) \in Messages
    BY <1>2, MessageTypes
  <1>4. CASE ok
    <2>1. Change(k, v)
      BY <1>1, <1>4
    <2>2. cache' \in Image /\ disk' \in Image
      BY <2>1, WrittenTypes DEF Change, TypeInv, TypeOK
    <2>3. /\ boot' = boot /\ lkeys' \subseteq Keys
          /\ note' \in (Keys \cup {NoKey}) \X (Vals \cup {Absent})
          /\ todo' \subseteq Slots
      BY <2>1 DEF Change, Matching, TypeInv, TypeOK
    <2> QED
      BY <1>1, <1>2, <1>3, <2>2, <2>3, HandledTypes
  <1>5. CASE ~ok
    <2>1. UNCHANGED <<storeVars, workVars>>
      BY <1>1, <1>5
    <2> QED
      BY <1>1, <1>2, <1>3, <2>1, HandledTypes DEF TypeInv, TypeOK
  <1> QED
    BY <1>2, <1>4, <1>5

\* One request.
LEMMA ClientTypes ==
    ASSUME TypeInv, kvdb_client
    PROVE  TypeInv'
  <1>1. CASE kvdb_client_fail
    BY <1>1, HandledTypes DEF kvdb_client_fail, TypeInv, TypeOK
  <1>2. CASE kvdb_client_set
    <2>1. PICK img : Modify(req[cur].key, req[cur].val,
                            kvdb_set(img, req[cur].key, req[cur].val, FALSE))
      BY <1>2 DEF kvdb_client_set
    <2>2. pc = "recv" /\ req[cur].key \in Keys /\ req[cur].val \in Vals \cup {Absent}
      BY <1>2, RequestTypes DEF kvdb_client_set, Serves, Ops
    <2> QED
      BY <2>1, <2>2, SetIsBoolean, ModifyTypes
  <1>3. CASE kvdb_client_delete
    <2>1. kvdb_delete(cache, req[cur].key) \in BOOLEAN
      BY BackendAssumption
         DEF kvdb_delete, unqlite_kvdb_delete, nvs_kvdb_delete, file_kvdb_delete
    <2>2. pc = "recv" /\ req[cur].key \in Keys
      BY <1>3, RequestTypes DEF kvdb_client_delete, Serves, Ops
    <2> QED
      BY <1>3, <2>1, <2>2, ModifyTypes DEF kvdb_client_delete
  <1>4. CASE kvdb_client_get
    <2> DEFINE answer(img) ==
                   LET v == kvdb_get(img, req[cur].key, TRUE)
                   IN IF v = Absent THEN NoMsg ELSE Pair("value", req[cur].key, v)
    <2>0. PICK img \in Fetched(cache, req[cur].key) : Handled(answer(img), FALSE)
      BY <1>4 DEF kvdb_client_get, Looked
    <2> DEFINE v == kvdb_get(img, req[cur].key, TRUE)
               m == IF v = Absent THEN NoMsg ELSE Pair("value", req[cur].key, v)
    <2>1. req[cur].key \in Keys
      BY <1>4, RequestTypes DEF kvdb_client_get, Ops
    <2>2. v \in Vals \cup {Absent}
      BY <2>1, FetchedTypes, GetType DEF TypeInv, TypeOK
    <2>3. m \in Messages \cup {NoMsg}
      BY <2>1, <2>2, MessageTypes DEF Tags
    <2>4. Handled(m, FALSE)
      BY <2>0
    <2> HIDE DEF m
    <2> QED
      BY <1>4, <2>3, <2>4, HandledTypes DEF kvdb_client_get, Serves, TypeInv, TypeOK
  <1>5. CASE kvdb_client_list
    <2>1. Control("end") \in Messages
      BY MessageTypes DEF Tags
    <2>2. lkeys' \subseteq Keys
      BY <1>5 DEF kvdb_client_list, Listed, kvdb_list
    <2> QED
      BY <1>5, <2>1, <2>2, HandledTypes DEF kvdb_client_list, Serves, TypeInv, TypeOK
  <1>6. CASE kvdb_client_commit
    <2>1. PICK failed \in CommitFailures :
            /\ disk' = kvdb_commit(cache, disk, failed)
            /\ Handled(Status(CommitReturnsOk(failed)), FALSE)
      BY <1>6 DEF kvdb_client_commit
    <2>2. disk' \in Image
      BY <2>1, CommitTypes DEF TypeInv, TypeOK
    <2>3. Status(CommitReturnsOk(failed)) \in Messages
      BY MessageTypes DEF CommitReturnsOk
    <2> QED
      BY <1>6, <2>1, <2>2, <2>3, HandledTypes DEF kvdb_client_commit, Serves, TypeInv, TypeOK
  <1>7. CASE kvdb_client_reload
    BY <1>7 DEF kvdb_client_reload, TypeInv, TypeOK, CurOK, LoadOK, Pcs
  <1>8. CASE kvdb_client_monitor
    <2>1. cur \in Conns /\ req[cur].pat \in SUBSET Keys
      BY <1>8, RequestTypes DEF kvdb_client_monitor, Ops
    <2>2. Control("open") \in Messages /\ Status(FALSE) \in Messages
      BY MessageTypes DEF Tags
    <2>3. inbox' \in [Conns -> Seq(Messages)]
      BY <1>8, <2>2, SendTypes DEF kvdb_client_monitor, TypeInv
    <2>4. /\ heap' \in [Slots -> Conns \cup {NoConn}]
          /\ pat' \in [Slots -> SUBSET Keys]
          /\ view' \in [Conns -> Image]
      BY ZenonT(30), <1>8, <2>1 DEF kvdb_client_monitor, kvdb_monitor_open, TypeInv, TypeOK
    <2> QED
      BY <1>8, <2>3, <2>4 DEF kvdb_client_monitor, TypeInv, TypeOK, CurOK, LoadOK, Pcs
  <1>9. ASSUME NEW s \in Slots, kvdb_monitor_notify(s)
        PROVE  TypeInv'
    <2>1. Pair("event", note[1], note[2]) \in Messages
      BY MessageTypes DEF TypeInv, TypeOK, Tags
    <2>2. Sent(heap[s], Pair("event", note[1], note[2])) \in [Conns -> Seq(Messages)]
      BY <2>1, SendTypes DEF TypeInv
    <2>3. inbox' \in [Conns -> Seq(Messages)]
      BY <1>9, <2>2 DEF kvdb_monitor_notify, TypeInv, TypeOK
    <2> QED
      BY <1>9, <2>3 DEF kvdb_monitor_notify, FreeMonitor, TypeInv, TypeOK, CurOK, LoadOK
  <1>10. ASSUME NEW k \in Keys, kvdb_list_consume(k)
         PROVE  TypeInv'
    <2>1. Pair("entry", k, cache[k]) \in Messages
      BY MessageTypes DEF TypeInv, TypeOK, Tags, Image
    <2>2. inbox' \in [Conns -> Seq(Messages)]
      BY <1>10, <2>1, SendTypes DEF kvdb_list_consume, TypeInv
    <2> QED
      BY <1>10, <2>2 DEF kvdb_list_consume, TypeInv, TypeOK, CurOK, LoadOK
  <1>11. CASE kvdb_client_out
    <2>1. inbox' \in [Conns -> Seq(Messages)]
      BY <1>11, SendTypes DEF kvdb_client_out, TypeInv, TypeOK
    <2>2. next' \in Nat
      BY <1>11, ConfigAssumption DEF kvdb_client_out, NextDeadline, Deadline, TypeInv, TypeOK
    <2> QED
      BY <1>11, <2>1, <2>2, ResetTypes
         DEF kvdb_client_out, TypeInv, TypeOK, CurOK, LoadOK, Pcs
  <1> QED
    BY <1>1, <1>2, <1>3, <1>4, <1>5, <1>6, <1>7, <1>8, <1>9, <1>10, <1>11 DEF kvdb_client

LEMMA ClosedTypes ==
    ASSUME TypeOK, NEW c \in Conns, Closed(c)
    PROVE  /\ cli' \in [Conns -> CliStates]
           /\ inbox' \in [Conns -> Seq(Messages)]
           /\ view' \in [Conns -> Image]
  <1>1. <<>> \in Seq(Messages)
    OBVIOUS
  <1> QED
    BY <1>1, EmptyType DEF Closed, TypeOK, CliStates

\* The clients, the clock and the power.
LEMMA EnvironmentTypes ==
    ASSUME TypeInv, (\E c \in Conns : Client(c)) \/ Tick \/ PowerCycle
    PROVE  TypeInv'
  <1> USE DEF TypeInv
  <1>1. ASSUME NEW c \in Conns, property_connect(c)
        PROVE  TypeInv'
    <2>1. ListenerOf[c] \in Listeners
      BY SocketsAssumption
    <2>2. backlog' \in [Listeners -> Seq(Conns)]
      BY <1>1, <2>1 DEF property_connect, TypeOK
    <2> QED
      BY <1>1, <2>2 DEF property_connect, TypeOK, CurOK, LoadOK, CliStates
  <1>2. ASSUME NEW c \in Conns, NEW r \in Requests, property_send(c, r)
        PROVE  TypeInv'
    BY <1>2 DEF property_send, TypeOK, CurOK, LoadOK, CliStates
  <1>3. ASSUME NEW c \in Conns, property_recv(c)
        PROVE  TypeInv'
    <2>1. Tail(inbox[c]) \in Seq(Messages)
      BY <1>3 DEF property_recv, TypeOK
    <2>2. /\ cli' \in [Conns -> CliStates]
          /\ inbox' \in [Conns -> Seq(Messages)]
          /\ view' \in [Conns -> Image]
      BY <1>3, <2>1, ClosedTypes DEF property_recv, TypeOK, CliStates
    <2> QED
      BY <1>3, <2>2 DEF property_recv, TypeOK, CurOK, LoadOK
  <1>4. ASSUME NEW c \in Conns, property_monitor_read(c)
        PROVE  TypeInv'
    <2>1. Tail(inbox[c]) \in Seq(Messages) /\ Head(inbox[c]) \in Messages
      BY <1>4 DEF property_monitor_read, TypeOK
    <2>2. Written(view[c], Head(inbox[c]).key, Head(inbox[c]).val) \in Image
      BY <2>1, WrittenTypes DEF Messages, TypeOK
    <2>3. /\ inbox' \in [Conns -> Seq(Messages)]
          /\ view' \in [Conns -> Image]
      BY <1>4, <2>1, <2>2 DEF property_monitor_read, TypeOK
    <2> QED
      BY <1>4, <2>3 DEF property_monitor_read, TypeOK, CurOK, LoadOK
  <1>5. ASSUME NEW c \in Conns, property_eof(c)
        PROVE  TypeInv'
    BY <1>5, ClosedTypes DEF property_eof, TypeOK, CurOK, LoadOK
  <1>6. ASSUME NEW c \in Conns, property_close(c)
        PROVE  TypeInv'
    BY <1>6, ClosedTypes DEF property_close, TypeOK, CurOK, LoadOK
  <1>7. CASE Tick
    BY <1>7 DEF Tick, TypeOK, CurOK, LoadOK
  <1>8. CASE PowerCycle
    <2>1. cache' \in Image /\ disk' \in Image
      BY <1>8, PowerTypes DEF PowerCycle, TypeOK
    <2>2. boot' \in Image /\ view' \in [Conns -> Image]
      BY <1>8, EmptyType, ResetTypes DEF PowerCycle
    <2>3. /\ heap' \in [Slots -> Conns \cup {NoConn}]
          /\ pat' \in [Slots -> SUBSET Keys]
          /\ backlog' \in [Listeners -> Seq(Conns)]
          /\ cli' \in [Conns -> CliStates]
          /\ req' \in [Conns -> Requests \cup {NoReq}]
          /\ inbox' \in [Conns -> Seq(Messages)]
          /\ note' \in (Keys \cup {NoKey}) \X (Vals \cup {Absent})
      BY <1>8, ResetTypes DEF PowerCycle
    <2>4. /\ now' = 0 /\ next' = 0 /\ lf' = 1 /\ li' = 0
          /\ pc' = "off" /\ batch' = {} /\ todo' = {} /\ lkeys' = {} /\ fds' = {} /\ bound' = {}
          /\ cur' = NoConn /\ reply' = NoMsg /\ dirty' = FALSE
      BY <1>8 DEF PowerCycle
    <2>5. /\ now' \in Nat /\ next' \in Nat /\ lf' \in Nat \ {0} /\ li' \in Nat
          /\ pc' \in Pcs
      BY <2>4 DEF Pcs
    <2>6. dirty' \in BOOLEAN
      BY <1>8, Zenon DEF PowerCycle
    <2>7. TypeOK'
      BY <2>1, <2>2, <2>3, <2>4, <2>5, <2>6 DEF TypeOK
    <2> QED
      BY <2>4, <2>7 DEF CurOK, LoadOK
  <1> QED
    BY <1>1, <1>2, <1>3, <1>4, <1>5, <1>6, <1>7, <1>8 DEF Client

LEMMA StepTypes == TypeInv /\ [Next]_vars => TypeInv'
  <1> SUFFICES ASSUME TypeInv, [Next]_vars PROVE TypeInv'
    OBVIOUS
  <1>1. CASE Next
    BY <1>1, LoadTypes, LoopTypes, ClientTypes, EnvironmentTypes DEF Next, Daemon
  <1>2. CASE UNCHANGED vars
    BY <1>2 DEF vars, TypeInv, TypeOK, CurOK, LoadOK
  <1> QED
    BY <1>1, <1>2

\* kvdbd never leaves its types: every handler finds a request, a line or a
\* message of the kind it reads.
THEOREM TypeCorrect == Spec => []TypeOK
  <1>1. Init => TypeInv
    BY InitTypes
  <1>2. TypeInv /\ [Next]_vars => TypeInv'
    BY StepTypes
  <1>3. TypeInv => TypeOK
    BY DEF TypeInv
  <1> QED
    BY <1>1, <1>2, <1>3, PTL DEF Spec

-----------------------------------------------------------------------------
(* The boot.  While kvdb_load runs, every key has what kvdb_init found, or   *)
(* what the lines read so far give it.                                       *)

DefaultSoFar(k, v, f, i) ==
    IF v = Absent
    THEN \A g \in DOMAIN Source : \A j \in DOMAIN Source[g] : \A w \in Vals :
            Before(g, j, f, i) => ~GivesValue(g, j, k, w)
    ELSE \E g \in DOMAIN Source : \E j \in DOMAIN Source[g] :
            /\ Before(g, j, f, i)
            /\ GivesValue(g, j, k, v)
            /\ \A h \in DOMAIN Source : \A l \in DOMAIN Source[h] : \A w \in Vals :
                Before(h, l, g, j) => ~GivesValue(h, l, k, w)

LoadInv ==
    /\ pc # "load" => lf = 1 /\ li = 0
    /\ pc = "load" /\ cur = NoConn =>
          \A k \in Keys : IF boot[k] # Absent THEN cache[k] = boot[k]
                          ELSE DefaultSoFar(k, cache[k], lf, li)
    /\ BootKeepsStored

\* What a forced kvdb_set accepts does not depend on what is stored.
LEMMA ForcedSet ==
    \A db, k, v : kvdb_set(db, k, v, TRUE) <=> kvdb_set(EmptyImage, k, v, TRUE)
  <1> TAKE db, k, v
  <1>1. unqlite_kvdb_set(db, k, v, TRUE) <=> unqlite_kvdb_set(EmptyImage, k, v, TRUE)
    BY DEF unqlite_kvdb_set
  <1>2. nvs_kvdb_set(db, k, v, TRUE) <=> nvs_kvdb_set(EmptyImage, k, v, TRUE)
    BY DEF nvs_kvdb_set
  <1>3. file_kvdb_set(db, k, v, TRUE) <=> file_kvdb_set(EmptyImage, k, v, TRUE)
    BY DEF file_kvdb_set
  <1> QED
    BY <1>1, <1>2, <1>3, BackendAssumption DEF kvdb_set

\* At the start kvdb_load stores a line exactly when the backend accepts it
\* and the key has no value yet.
LEMMA LineTaken ==
    ASSUME Backend # "file", cur = NoConn, NEW k \in Keys, NEW v
    PROVE  ~SkipsLine(cache, k) /\ kvdb_set(cache, k, v, TRUE)
             <=> cache[k] = Absent /\ kvdb_set(EmptyImage, k, v, TRUE)
  <1>1. kvdb_set(EmptyImage, k, v, TRUE) => kvdb_get_index(k) \in Databases
    BY BackendAssumption DEF kvdb_set, unqlite_kvdb_set, nvs_kvdb_set
  <1>2. kvdb_get_index(k) \in Databases => kvdb_get(cache, k, FALSE) = cache[k]
    BY BackendAssumption DEF kvdb_get, unqlite_kvdb_get, nvs_kvdb_get
  <1> QED
    BY <1>1, <1>2, ForcedSet DEF SkipsLine, Forced

\* A line that is read is one more line before the present one.
LEMMA LineRead ==
    ASSUME TypeInv, NEW k \in Keys, NEW v, DefaultSoFar(k, v, lf, li),
           v = Absent => \A w \in Vals : ~GivesValue(lf, li, k, w)
    PROVE  DefaultSoFar(k, v, lf, li + 1)
  <1>1. \A g \in DOMAIN Source : \A j \in DOMAIN Source[g] :
            Before(g, j, lf, li + 1) <=> Before(g, j, lf, li) \/ (g = lf /\ j = li)
    <2> SUFFICES ASSUME NEW g \in DOMAIN Source, NEW j \in DOMAIN Source[g]
                 PROVE  Before(g, j, lf, li + 1) <=> Before(g, j, lf, li) \/ (g = lf /\ j = li)
      OBVIOUS
    <2>1. g \in Nat /\ j \in Nat /\ lf \in Nat /\ li \in Nat
      BY ConfigAssumption DEF TypeInv, TypeOK
    <2> QED
      BY <2>1 DEF Before
  <1> QED
    BY <1>1 DEF DefaultSoFar

\* Two positions with the same lines before them give the same defaults.
LEMMA SamePosition ==
    ASSUME NEW f, NEW i, NEW f2, NEW i2, NEW k, NEW v,
           \A g \in DOMAIN Source : \A j \in DOMAIN Source[g] :
               Before(g, j, f2, i2) <=> Before(g, j, f, i),
           DefaultSoFar(k, v, f, i)
    PROVE  DefaultSoFar(k, v, f2, i2)
  BY DEF DefaultSoFar

\* The indices of files and lines.
LEMMA Positions ==
    \A g \in DOMAIN Source : /\ g \in 1..Len(Source) /\ Source[g] \in Seq(Keys \X Vals)
                             /\ \A j \in DOMAIN Source[g] : j \in 1..Len(Source[g])
  BY ConfigAssumption

LEMMA LoadInvStep ==
    ASSUME IoMayFail = FALSE, FetchMayFail = FALSE, AllocMayFail = FALSE, Backend # "file",
           TypeInv, LoadInv, [Next]_vars
    PROVE  LoadInv'
  <1>1. ASSUME UNCHANGED <<pc, cur, cache, boot, lf, li>>
        PROVE  LoadInv'
    BY <1>1 DEF LoadInv, BootKeepsStored
  <1>2. ASSUME pc # "load", pc' \notin {"load", "start"}, lf' = lf, li' = li
        PROVE  LoadInv'
    BY <1>2 DEF LoadInv, BootKeepsStored
  <1>3. CASE kvdb_bind
    BY <1>2, <1>3 DEF kvdb_bind
  <1>4. CASE kvdb_init
    <2>1. /\ pc' = "load" /\ boot' = cache /\ cache' = cache /\ lf' = lf /\ li' = li
          /\ lf = 1 /\ li = 0
      BY <1>4 DEF kvdb_init, LoadInv
    <2>2. \A g \in DOMAIN Source : \A j \in DOMAIN Source[g] : ~Before(g, j, 1, 0)
      BY Positions DEF Before
    <2>3. \A k \in Keys : DefaultSoFar(k, Absent, 1, 0)
      BY <2>2 DEF DefaultSoFar
    <2> QED
      BY <2>1, <2>3 DEF LoadInv, BootKeepsStored
  <1>5. CASE kvdb_load_open
    <2>1. /\ li = 0 /\ li' = 1 /\ lf' = lf /\ pc' = "load" /\ pc = "load"
          /\ UNCHANGED <<cache, boot, cur>>
      BY <1>5 DEF kvdb_load_open
    <2>2. \A g \in DOMAIN Source : \A j \in DOMAIN Source[g] :
              Before(g, j, lf, 1) <=> Before(g, j, lf, 0)
      BY Positions DEF Before
    <2>3. \A k \in Keys : \A v : DefaultSoFar(k, v, lf, 0) => DefaultSoFar(k, v, lf, 1)
      BY <2>2, SamePosition
    <2> QED
      BY <2>1, <2>3 DEF LoadInv, BootKeepsStored
  <1>6. CASE kvdb_load_line
    <2> DEFINE k0 == Source[lf][li][1]
               v0 == Source[lf][li][2]
               ok == ~SkipsLine(cache, k0) /\ kvdb_set(cache, k0, v0, TRUE)
    <2>1. k0 \in Keys /\ v0 \in Vals /\ Source[lf][li] = <<k0, v0>>
      BY <1>6, LineTypes DEF kvdb_load_line
    <2>2. lf \in DOMAIN Source /\ li \in DOMAIN Source[lf] /\ lf \in 1..Len(Source)
          /\ li \in 1..Len(Source[lf])
      BY <1>6, ConfigAssumption DEF kvdb_load_line, TypeInv, TypeOK, LoadOK
    <2>0. Fetched(cache, k0) = {cache}
      BY DEF Fetched
    <2>3. /\ cache' = IF ok THEN Written(cache, k0, v0) ELSE cache
          /\ li' = li + 1 /\ lf' = lf /\ pc' = "load" /\ pc = "load"
          /\ UNCHANGED <<boot, cur>>
      BY <1>6, <2>0 DEF kvdb_load_line, Outcomes
    <2> SUFFICES ASSUME cur = NoConn, NEW k \in Keys
                 PROVE  IF boot[k] # Absent THEN cache'[k] = boot[k]
                        ELSE DefaultSoFar(k, cache'[k], lf, li + 1)
      BY <2>3 DEF LoadInv, BootKeepsStored
    <2>4. ok <=> cache[k0] = Absent /\ kvdb_set(EmptyImage, k0, v0, TRUE)
      BY <2>1, LineTaken
    <2> HIDE DEF ok, k0, v0
    <2>5. \A w \in Vals : GivesValue(lf, li, k, w)
                            <=> k = k0 /\ w = v0 /\ kvdb_set(EmptyImage, k0, v0, TRUE)
      <3>1. \A w \in Vals : Source[lf][li] = <<k, w>> <=> k = k0 /\ w = v0
        BY <2>1
      <3> QED
        BY <2>2, <3>1 DEF GivesValue
    <2>6. IF boot[k] # Absent THEN cache[k] = boot[k] ELSE DefaultSoFar(k, cache[k], lf, li)
      BY <2>3 DEF LoadInv
    <2>7. CASE ok /\ k = k0
      <3>1. boot[k] = Absent /\ cache[k] = Absent /\ cache'[k] = v0
        BY <2>1, <2>3, <2>4, <2>6, <2>7 DEF Written, TypeInv, TypeOK, Image
      <3>2. v0 # Absent
        BY <2>1, ValsAssumption
      <3>3. GivesValue(lf, li, k, v0)
        BY <2>1, <2>4, <2>5, <2>7
      <3>4. Before(lf, li, lf, li + 1)
        BY DEF Before, TypeInv, TypeOK
      <3>5. \A h \in DOMAIN Source : \A l \in DOMAIN Source[h] : \A w \in Vals :
                Before(h, l, lf, li) => ~GivesValue(h, l, k, w)
        BY <2>6, <3>1 DEF DefaultSoFar
      <3> QED
        BY <2>2, <3>1, <3>2, <3>3, <3>4, <3>5 DEF DefaultSoFar
    <2>8. CASE ~(ok /\ k = k0)
      <3>1. cache'[k] = cache[k]
        BY <2>1, <2>3, <2>8 DEF Written, TypeInv, TypeOK, Image
      <3>2. cache[k] = Absent => \A w \in Vals : ~GivesValue(lf, li, k, w)
        BY <2>4, <2>5, <2>8
      <3> QED
        BY <2>6, <3>1, <3>2, LineRead
    <2> QED
      BY <2>7, <2>8
  <1>7. CASE kvdb_load_close
    <2>1. /\ lf' = lf + 1 /\ li' = 0 /\ pc' = "load" /\ pc = "load"
          /\ li > Len(Source[lf]) /\ UNCHANGED <<cache, boot, cur>>
      BY <1>7 DEF kvdb_load_close
    <2>2. \A g \in DOMAIN Source : \A j \in DOMAIN Source[g] :
              Before(g, j, lf + 1, 0) <=> Before(g, j, lf, li)
      <3> SUFFICES ASSUME NEW g \in DOMAIN Source, NEW j \in DOMAIN Source[g]
                   PROVE  Before(g, j, lf + 1, 0) <=> Before(g, j, lf, li)
        OBVIOUS
      <3>1. g \in Nat /\ j \in 1..Len(Source[g]) /\ Len(Source[g]) \in Nat
        BY Positions
      <3>2. lf \in Nat /\ li \in Nat
        BY DEF TypeInv, TypeOK
      <3> QED
        BY <2>1, <3>1, <3>2 DEF Before
    <2>3. \A k \in Keys : \A v : DefaultSoFar(k, v, lf, li) => DefaultSoFar(k, v, lf + 1, 0)
      BY <2>2, SamePosition
    <2> QED
      BY <2>1, <2>3 DEF LoadInv, BootKeepsStored
  <1>8. CASE kvdb_load_return
    <2>1. /\ pc = "load" /\ lf > Len(Source) /\ lf' = 1 /\ li' = 0 /\ pc' = AfterLoad
          /\ UNCHANGED <<cache, boot, cur>>
      BY <1>8 DEF kvdb_load_return, LoadDone
    <2>2. pc' # "load" /\ (pc' = "start" => cur = NoConn)
      BY <2>1 DEF AfterLoad
    <2>3. \A g \in DOMAIN Source : \A j \in DOMAIN Source[g] : Before(g, j, lf, li)
      BY <2>1, Positions DEF Before, TypeInv, TypeOK
    <2>4. \A k \in Keys : \A v : DefaultSoFar(k, v, lf, li) => FirstDefault(k, v)
      BY <2>3 DEF DefaultSoFar, FirstDefault
    <2> QED
      BY <2>1, <2>2, <2>4 DEF LoadInv, BootKeepsStored
  <1>9. CASE kvdb_loop
    BY <1>2, <1>9
       DEF kvdb_loop, kvdb_loop_start, kvdb_loop_top, epoll_wait, epoll_timeout, kvdb_accept,
           kvdb_accept_fail, kvdb_monitor_close, kvdb_monitor_close_freed
  <1>10. CASE kvdb_client_reload
    <2>1. pc' = "load" /\ cur' # NoConn /\ lf' = lf /\ li' = li
      BY <1>10 DEF kvdb_client_reload, Serves, TypeInv, CurOK
    <2> QED
      BY <2>1 DEF LoadInv, BootKeepsStored
  <1>11. CASE kvdb_client /\ ~kvdb_client_reload
    BY <1>2, <1>11
       DEF kvdb_client, kvdb_client_fail, kvdb_client_set, kvdb_client_delete,
           kvdb_client_get, kvdb_client_list, kvdb_client_commit, kvdb_client_monitor,
           kvdb_monitor_notify, kvdb_list_consume, kvdb_client_out, Modify, Handled, Serves
  <1>12. CASE \E c \in Conns : Client(c)
    BY <1>1, <1>12
       DEF Client, property_connect, property_send, property_recv, property_monitor_read,
           property_eof, property_close
  <1>13. CASE Tick \/ UNCHANGED vars
    BY <1>1, <1>13 DEF Tick, vars
  <1>14. CASE PowerCycle
    BY <1>14 DEF PowerCycle, LoadInv, BootKeepsStored
  <1> QED
    BY <1>3, <1>4, <1>5, <1>6, <1>7, <1>8, <1>9, <1>10, <1>11, <1>12, <1>13, <1>14
       DEF Next, Daemon, kvdb_load

\* While no storage or memory operation fails, and with a backend whose
\* kvdb_get can be asked whether a key is there: when kvdbd starts serving,
\* every key stored before the power failed has its old value and every other
\* key the first default the source files give it, for any source files.
THEOREM BootIsRight ==
    ASSUME IoMayFail = FALSE, FetchMayFail = FALSE, AllocMayFail = FALSE, Backend # "file"
    PROVE  Spec => []BootKeepsStored
  <1> DEFINE Inv == TypeInv /\ LoadInv
  <1>1. Init => Inv
    <2>1. Init => LoadInv
      BY DEF Init, LoadInv, BootKeepsStored
    <2> QED
      BY <2>1, InitTypes
  <1>2. Inv /\ [Next]_vars => Inv'
    BY StepTypes, LoadInvStep
  <1>3. Inv => BootKeepsStored
    BY DEF LoadInv
  <1> HIDE DEF Inv
  <1> QED
    BY <1>1, <1>2, <1>3, PTL DEF Spec

=============================================================================
