------------------------- MODULE KvdbMonitorProofs -------------------------
(***************************************************************************)
(* Proofs about the sockets and monitors of kvdbd (KvdbServer): who owns   *)
(* each descriptor, and what a monitoring client gets to know.             *)
(***************************************************************************)
EXTENDS KvdbCommitProofs

USE DEF storeVars, timeVars, workVars, loadVars, monVars, cliVars

-----------------------------------------------------------------------------
(* Descriptors.  A connection the daemon has accepted is the one it serves   *)
(* or belongs to one monitor; one in a backlog is in it once, and has not    *)
(* been accepted yet.                                                        *)

OwnersInv ==
    /\ pc # "undefined" => \A s \in Slots : heap[s] # NoConn => heap[s] \in fds
    /\ \A s \in Slots : heap[s] # NoConn => heap[s] # cur
    /\ \A s, t \in Slots : heap[s] = heap[t] /\ heap[s] # NoConn => s = t
    /\ cur # NoConn => cur \in fds /\ pc \in {"recv", "reply", "load"}

BacklogInv ==
    \A l \in Listeners : \A i \in 1..Len(backlog[l]) :
        /\ ListenerOf[backlog[l][i]] = l
        /\ backlog[l][i] \notin fds
        /\ \A j \in 1..Len(backlog[l]) : backlog[l][i] = backlog[l][j] => i = j

\* Nothing else is open.
NoLeak == fds \subseteq {heap[s] : s \in Slots} \cup {cur}

\* The actions that touch the descriptors.
LEMMA SocketsKept ==
    ASSUME TypeInv, OwnersInv, [Next]_vars,
           \A l \in Listeners : ~kvdb_accept(l),
           \A s \in Slots : ~kvdb_monitor_close(s) /\ ~kvdb_monitor_close_freed(s)
                             /\ ~kvdb_monitor_notify(s),
           ~kvdb_client_monitor, ~kvdb_client_out, ~PowerCycle
    PROVE  /\ heap' = heap /\ pat' = pat /\ fds' = fds /\ cur' = cur
           /\ cur # NoConn => pc' \in {"recv", "reply", "load"}
           /\ pc' # "undefined" => pc # "undefined"
  <1> USE DEF OwnersInv
  <1>1. CASE kvdb_bind \/ kvdb_init \/ kvdb_load
    BY <1>1 DEF kvdb_bind, kvdb_init, kvdb_load, kvdb_load_open, kvdb_load_line,
                kvdb_load_close, kvdb_load_return, LoadDone, AfterLoad
  <1>2. CASE kvdb_loop
    BY <1>2 DEF kvdb_loop, kvdb_loop_start, kvdb_loop_top, epoll_wait, epoll_timeout,
                kvdb_accept_fail
  <1>3. CASE kvdb_client_fail \/ kvdb_client_set \/ kvdb_client_delete \/ kvdb_client_get
             \/ kvdb_client_list \/ kvdb_client_commit
    BY <1>3 DEF kvdb_client_fail, kvdb_client_set, kvdb_client_delete, kvdb_client_get,
                kvdb_client_list, kvdb_client_commit, Modify, Handled, Serves
  <1>4. CASE kvdb_client_reload \/ \E k \in Keys : kvdb_list_consume(k)
    BY <1>4 DEF kvdb_client_reload, kvdb_list_consume, Serves
  <1>5. CASE \E c \in Conns : Client(c)
    BY <1>5 DEF Client, property_connect, property_send, property_recv,
                property_monitor_read, property_eof, property_close
  <1>6. CASE Tick \/ UNCHANGED vars
    BY <1>6 DEF Tick, vars
  <1> QED
    BY <1>1, <1>2, <1>3, <1>4, <1>5, <1>6 DEF Next, Daemon, kvdb_client

\* The actions that touch the backlogs.
LEMMA BacklogKept ==
    ASSUME [Next]_vars, backlog' # backlog
    PROVE  \/ backlog' = [l \in Listeners |-> <<>>]
           \/ \E l \in Listeners : kvdb_accept(l)
           \/ \E c \in Conns : property_connect(c)
  <1>1. CASE kvdb_bind \/ kvdb_init \/ kvdb_load
    BY <1>1 DEF kvdb_bind, kvdb_init, kvdb_unbind, kvdb_load, kvdb_load_open, kvdb_load_line,
                kvdb_load_close, kvdb_load_return
  <1>2. CASE kvdb_loop
    BY <1>2 DEF kvdb_loop, kvdb_loop_start, kvdb_loop_top, epoll_wait, epoll_timeout,
                kvdb_accept_fail, kvdb_monitor_close, kvdb_monitor_close_freed
  <1>3. CASE kvdb_client
    BY <1>3 DEF kvdb_client, kvdb_client_fail, kvdb_client_set, kvdb_client_delete,
                kvdb_client_get, kvdb_client_list, kvdb_client_commit, kvdb_client_reload,
                kvdb_client_monitor, kvdb_monitor_notify, kvdb_list_consume,
                kvdb_client_out, Modify, Handled
  <1>4. CASE \E c \in Conns : Client(c)
    BY <1>4 DEF Client, property_send, property_recv, property_monitor_read, property_eof,
                property_close
  <1>5. CASE Tick \/ PowerCycle \/ UNCHANGED vars
    BY <1>5 DEF Tick, PowerCycle, vars
  <1> QED
    BY <1>1, <1>2, <1>3, <1>4, <1>5 DEF Next, Daemon

\* accept takes the first connection of a backlog.
LEMMA Accepted ==
    ASSUME TypeInv, NEW l \in Listeners, kvdb_accept(l)
    PROVE  /\ Len(backlog[l]) \in Nat \ {0} /\ cur' = backlog[l][1] /\ cur' \in Conns
           /\ backlog' = [backlog EXCEPT ![l] = Tail(@)]
           /\ Len(Tail(backlog[l])) = Len(backlog[l]) - 1
           /\ \A i \in 1..(Len(backlog[l]) - 1) : Tail(backlog[l])[i] = backlog[l][i + 1]
  <1>1. backlog[l] \in Seq(Conns) /\ backlog[l] # <<>>
    BY DEF TypeInv, TypeOK, kvdb_accept
  <1> QED
    BY <1>1 DEF kvdb_accept

LEMMA OwnersStep ==
    ASSUME TypeInv, OwnersInv, BacklogInv, [Next]_vars
    PROVE  OwnersInv'
  <1>1. ASSUME NEW l \in Listeners, kvdb_accept(l)
        PROVE  OwnersInv'
    <2>1. cur' = backlog[l][1] /\ cur' \notin fds
      BY <1>1, Accepted DEF BacklogInv
    <2> QED
      BY <1>1, <2>1 DEF kvdb_accept, OwnersInv
  <1>2. ASSUME NEW s \in Slots, kvdb_monitor_close(s)
        PROVE  OwnersInv'
    BY <1>2 DEF kvdb_monitor_close, FreeMonitor, OwnersInv, TypeInv, TypeOK
  <1>3. ASSUME NEW s \in Slots, kvdb_monitor_notify(s)
        PROVE  OwnersInv'
    BY <1>3 DEF kvdb_monitor_notify, FreeMonitor, OwnersInv, TypeInv, TypeOK
  <1>4. CASE kvdb_client_monitor
    <2>1. cur \in Conns /\ cur # NoConn /\ cur \in fds
      BY <1>4, SocketsAssumption
         DEF kvdb_client_monitor, Serves, TypeInv, TypeOK, CurOK, OwnersInv
    <2>2. cur' = NoConn /\ fds' = fds
      BY <1>4 DEF kvdb_client_monitor
    <2>3. CASE heap' = heap
      BY <2>1, <2>2, <2>3 DEF OwnersInv
    <2>4. ASSUME NEW s \in Slots, kvdb_monitor_open(s)
          PROVE  OwnersInv'
      <3>1. heap[s] = NoConn /\ heap' = [heap EXCEPT ![s] = cur]
        BY <2>4 DEF kvdb_monitor_open
      <3> QED
        BY <2>1, <2>2, <3>1 DEF OwnersInv, TypeInv, TypeOK
    <2> QED
      BY <1>4, <2>3, <2>4 DEF kvdb_client_monitor
  <1>5. CASE kvdb_client_out
    BY <1>5 DEF kvdb_client_out, OwnersInv, TypeInv, TypeOK
  <1>6. CASE PowerCycle
    BY <1>6 DEF PowerCycle, OwnersInv
  <1>7. ASSUME NEW s \in Slots, kvdb_monitor_close_freed(s)
        PROVE  OwnersInv'
    BY <1>7 DEF kvdb_monitor_close_freed, OwnersInv
  <1> QED
    BY <1>1, <1>2, <1>3, <1>4, <1>5, <1>6, <1>7, SocketsKept DEF OwnersInv

\* The daemon has nothing of a connection that is dropped.
LEMMA DroppedConn ==
    ASSUME BacklogInv, NEW c, Dropped(c)
    PROVE  c \notin fds /\ \A l \in Listeners : \A i \in 1..Len(backlog[l]) : backlog[l][i] # c
  BY DEF BacklogInv, Dropped

LEMMA BacklogStep ==
    ASSUME TypeInv, OwnersInv, BacklogInv, [Next]_vars
    PROVE  BacklogInv'
  <1>1. CASE backlog' = [l \in Listeners |-> <<>>]
    BY <1>1 DEF BacklogInv
  <1>2. ASSUME NEW l \in Listeners, kvdb_accept(l)
        PROVE  BacklogInv'
    <2>1. fds' = fds \cup {backlog[l][1]}
      BY <1>2, Accepted DEF kvdb_accept
    <2>2. ASSUME NEW m \in Listeners, NEW i \in 1..Len(backlog'[m])
          PROVE  /\ ListenerOf[backlog'[m][i]] = m
                 /\ backlog'[m][i] \notin fds'
                 /\ \A j \in 1..Len(backlog'[m]) : backlog'[m][i] = backlog'[m][j] => i = j
      <3>1. CASE m # l
        <4>1. backlog'[m] = backlog[m]
          BY <1>2, <3>1 DEF kvdb_accept, TypeInv, TypeOK
        <4>2. ListenerOf[backlog[m][i]] = m /\ ListenerOf[backlog[l][1]] = l
          BY <1>2, <4>1, Accepted DEF BacklogInv
        <4> QED
          BY <2>1, <3>1, <4>1, <4>2 DEF BacklogInv
      <3>2. CASE m = l
        <4>1. backlog'[m] = Tail(backlog[l]) /\ Len(backlog[l]) \in Nat
          BY <1>2, <3>2, Accepted DEF TypeInv, TypeOK
        <4>2. i \in 1..(Len(backlog[l]) - 1) /\ backlog'[m][i] = backlog[l][i + 1]
          BY <1>2, <4>1, Accepted
        <4>3. i + 1 \in 1..Len(backlog[l]) /\ i + 1 # 1 /\ 1 \in 1..Len(backlog[l])
          BY <4>1, <4>2
        <4>4. backlog[l][i + 1] # backlog[l][1]
          BY <4>3 DEF BacklogInv
        <4>5. ASSUME NEW j \in 1..Len(backlog'[m]), backlog'[m][i] = backlog'[m][j]
              PROVE  i = j
          <5>1. j \in 1..(Len(backlog[l]) - 1) /\ backlog'[m][j] = backlog[l][j + 1]
            BY <1>2, <4>1, Accepted
          <5>2. j + 1 \in 1..Len(backlog[l])
            BY <4>1, <5>1
          <5>3. i + 1 = j + 1
            BY ZenonT(30), <4>2, <4>3, <4>5, <5>1, <5>2 DEF BacklogInv
          <5> QED
            BY <4>2, <5>1, <5>3
        <4> QED
          BY <2>1, <3>2, <4>2, <4>3, <4>4, <4>5 DEF BacklogInv
      <3> QED
        BY <3>1, <3>2
    <2> QED
      BY <2>2 DEF BacklogInv
  <1>3. ASSUME NEW c \in Conns, property_connect(c)
        PROVE  BacklogInv'
    <2> DEFINE l == ListenerOf[c]
    <2>1. l \in Listeners /\ backlog[l] \in Seq(Conns) /\ fds' = fds
      BY <1>3, SocketsAssumption DEF property_connect, TypeInv, TypeOK
    <2>2. c \notin fds /\ \A m \in Listeners : \A i \in 1..Len(backlog[m]) : backlog[m][i] # c
      BY <1>3, DroppedConn DEF property_connect
    <2>3. backlog' = [backlog EXCEPT ![l] = Append(backlog[l], c)]
      BY <1>3 DEF property_connect
    <2>4. /\ Len(Append(backlog[l], c)) = Len(backlog[l]) + 1 /\ Len(backlog[l]) \in Nat
          /\ Append(backlog[l], c)[Len(backlog[l]) + 1] = c
          /\ \A i \in 1..Len(backlog[l]) : Append(backlog[l], c)[i] = backlog[l][i]
      BY <2>1
    <2>5. backlog'[l] = Append(backlog[l], c) /\ \A m \in Listeners \ {l} : backlog'[m] = backlog[m]
      BY <2>1, <2>3 DEF TypeInv, TypeOK
    <2> HIDE DEF l
    <2>6. ASSUME NEW m \in Listeners, NEW i \in 1..Len(backlog'[m]),
                 NEW j \in 1..Len(backlog'[m])
          PROVE  /\ ListenerOf[backlog'[m][i]] = m
                 /\ backlog'[m][i] \notin fds'
                 /\ backlog'[m][i] = backlog'[m][j] => i = j
      <3>1. CASE m # l
        BY <2>1, <2>5, <3>1 DEF BacklogInv
      <3>2. CASE m = l
        <4>1. Len(backlog'[m]) = Len(backlog[l]) + 1 /\ Len(backlog[l]) \in Nat
          BY <2>4, <2>5, <3>2
        <4>2. CASE i = Len(backlog[l]) + 1
          <5>1. backlog'[m][i] = c
            BY <2>4, <2>5, <3>2, <4>2
          <5>2. j \in 1..Len(backlog[l]) => backlog'[m][j] # c
            BY <2>1, <2>2, <2>4, <2>5, <3>2
          <5> QED
            BY <2>1, <2>2, <3>2, <4>1, <4>2, <5>1, <5>2 DEF l
        <4>3. CASE i # Len(backlog[l]) + 1
          <5>1. i \in 1..Len(backlog[l]) /\ backlog'[m][i] = backlog[l][i]
            BY <2>4, <2>5, <3>2, <4>1, <4>3
          <5>2. j \in 1..Len(backlog[l]) => backlog'[m][j] = backlog[l][j]
            BY <2>4, <2>5, <3>2
          <5>3. j = Len(backlog[l]) + 1 => backlog'[m][j] = c
            BY <2>4, <2>5, <3>2
          <5> QED
            BY <2>1, <2>2, <3>2, <4>1, <5>1, <5>2, <5>3 DEF BacklogInv
        <4> QED
          BY <4>2, <4>3
      <3> QED
        BY <3>1, <3>2
    <2> QED
      BY <2>6 DEF BacklogInv
  <1>4. CASE backlog' = backlog /\ fds' \subseteq fds
    BY <1>4 DEF BacklogInv
  <1>5. ASSUME backlog' = backlog, \A l \in Listeners : ~kvdb_accept(l)
        PROVE  fds' \subseteq fds
    <2>1. CASE \E s \in Slots : kvdb_monitor_close(s) \/ kvdb_monitor_notify(s)
      BY <2>1 DEF kvdb_monitor_close, kvdb_monitor_notify, FreeMonitor
    <2>2. CASE kvdb_client_monitor \/ kvdb_client_out \/ PowerCycle
      BY <2>2 DEF kvdb_client_monitor, kvdb_client_out, PowerCycle
    <2>3. CASE \E s \in Slots : kvdb_monitor_close_freed(s)
      BY <2>3 DEF kvdb_monitor_close_freed
    <2> QED
      BY <1>5, <2>1, <2>2, <2>3, SocketsKept
  <1> QED
    BY <1>1, <1>2, <1>3, <1>4, <1>5, BacklogKept

LEMMA NoLeakStep ==
    ASSUME AllocMayFail = FALSE, TypeInv, OwnersInv, NoLeak, [Next]_vars
    PROVE  NoLeak'
  <1>1. ASSUME NEW l \in Listeners, kvdb_accept(l)
        PROVE  NoLeak'
    <2>1. cur = NoConn
      BY <1>1 DEF kvdb_accept, OwnersInv
    <2>2. NoConn \notin fds
      BY SocketsAssumption DEF TypeInv, TypeOK
    <2> QED
      BY <1>1, <2>1, <2>2 DEF kvdb_accept, NoLeak
  <1>2. ASSUME NEW s \in Slots, FreeMonitor(s), cur' = cur
        PROVE  NoLeak'
    BY <1>2 DEF FreeMonitor, NoLeak, TypeInv, TypeOK
  <1>3. ASSUME NEW s \in Slots, kvdb_monitor_close(s)
        PROVE  NoLeak'
    BY <1>2, <1>3 DEF kvdb_monitor_close
  <1>4. ASSUME NEW s \in Slots, kvdb_monitor_notify(s)
        PROVE  NoLeak'
    <2>1. CASE FreeMonitor(s)
      BY <1>2, <1>4, <2>1 DEF kvdb_monitor_notify
    <2>2. CASE UNCHANGED <<monVars, fds>>
      BY <1>4, <2>2 DEF kvdb_monitor_notify, NoLeak
    <2> QED
      BY <1>4, <2>1, <2>2 DEF kvdb_monitor_notify
  <1>5. CASE kvdb_client_monitor
    <2>1. PICK s \in Slots : kvdb_monitor_open(s)
      BY <1>5 DEF kvdb_client_monitor
    <2>2. heap[s] = NoConn /\ heap' = [heap EXCEPT ![s] = cur] /\ fds' = fds
      BY <1>5, <2>1 DEF kvdb_client_monitor, kvdb_monitor_open
    <2>3. NoConn \notin fds
      BY SocketsAssumption DEF TypeInv, TypeOK
    <2> QED
      BY <2>2, <2>3 DEF NoLeak, TypeInv, TypeOK
  <1>6. CASE kvdb_client_out
    BY <1>6 DEF kvdb_client_out, NoLeak
  <1>7. CASE PowerCycle
    BY <1>7 DEF PowerCycle, NoLeak
  <1>8. CASE \E s \in Slots : kvdb_monitor_close_freed(s)
    BY <1>8 DEF kvdb_monitor_close_freed, NoLeak
  <1> QED
    BY <1>1, <1>3, <1>4, <1>5, <1>6, <1>7, <1>8, SocketsKept DEF NoLeak

LEMMA SocketsInit == Init => OwnersInv /\ BacklogInv /\ NoLeak
  BY DEF Init, OwnersInv, BacklogInv, NoLeak

\* While accept, malloc and epoll_ctl do not fail, and until kvdbd follows the
\* event of a monitor it has freed, it leaks no descriptor and none has two
\* owners: the open connections are exactly the one it serves and those of its
\* monitors, one monitor each, whatever clients and timeouts do and although
\* an event may close a monitor that took a freed one's address.
THEOREM DescriptorsAreOwned ==
    ASSUME AllocMayFail = FALSE
    PROVE  Spec => []DescriptorsOwned
  <1> DEFINE Inv == TypeInv /\ OwnersInv /\ BacklogInv /\ NoLeak
  <1>1. Init => Inv
    BY InitTypes, SocketsInit
  <1>2. Inv /\ [Next]_vars => Inv'
    BY StepTypes, OwnersStep, BacklogStep, NoLeakStep
  <1>3. Inv => DescriptorsOwned
    <2> SUFFICES ASSUME Inv, pc # "undefined" PROVE DescriptorsOwned
      BY DEF DescriptorsOwned
    <2>1. NoConn \notin fds
      BY SocketsAssumption DEF TypeInv, TypeOK
    <2>2. fds = {heap[s] : s \in {t \in Slots : heap[t] # NoConn}} \cup ({cur} \ {NoConn})
      BY <2>1 DEF OwnersInv, NoLeak
    <2> QED
      BY <2>2 DEF OwnersInv, DescriptorsOwned
  <1> HIDE DEF Inv
  <1> QED
    BY <1>1, <1>2, <1>3, PTL DEF Spec

-----------------------------------------------------------------------------
(* What a monitoring client gets to know.                                    *)

\* The events about key k in a socket, and what is known once they are read.
EventsOf(box, k) == {i \in 1..Len(box) : box[i].tag = "event" /\ box[i].key = k}
Learns(box, img, k, v) ==
    IF EventsOf(box, k) = {} THEN img[k] = v
    ELSE \E i \in EventsOf(box, k) : box[i].val = v /\ \A j \in EventsOf(box, k) : j <= i

LEMMA LearnsIsWillKnow ==
    \A c, k, v : WillKnow(c, k, v) <=> Learns(inbox[c], view[c], k, v)
  BY DEF WillKnow, Learns, EventsOf

\* A message about something else does not change what a client learns.
LEMMA LearnsOther ==
    ASSUME NEW box \in Seq(Messages), NEW m \in Messages, NEW img, NEW k, NEW v,
           m.tag # "event" \/ m.key # k, Learns(box, img, k, v)
    PROVE  Learns(Append(box, m), img, k, v)
  <1>1. EventsOf(Append(box, m), k) = EventsOf(box, k)
    BY DEF EventsOf
  <1>2. \A i \in EventsOf(box, k) : Append(box, m)[i] = box[i]
    BY DEF EventsOf
  <1> QED
    BY <1>1, <1>2 DEF Learns

\* The last event is what counts.
LEMMA LearnsEvent ==
    ASSUME NEW box \in Seq(Messages), NEW k, NEW v, NEW img, Pair("event", k, v) \in Messages
    PROVE  Learns(Append(box, Pair("event", k, v)), img, k, v)
  <1> DEFINE m == Pair("event", k, v)
             new == Append(box, m)
             n == Len(box) + 1
  <1>1. n \in Nat /\ Len(new) = n /\ new[n] = m
    OBVIOUS
  <1>2. m.tag = "event" /\ m.key = k /\ m.val = v
    BY DEF Pair
  <1>3. n \in EventsOf(new, k) /\ \A j \in EventsOf(new, k) : j <= n
    BY <1>1, <1>2 DEF EventsOf
  <1> QED
    BY <1>1, <1>2, <1>3 DEF Learns

\* Reading the first message: an event goes from the socket into the view.
LEMMA LearnsTail ==
    ASSUME NEW box \in Seq(Messages), box # <<>>, NEW img \in Image, NEW new \in Image,
           NEW k \in Keys, NEW v, Learns(box, img, k, v),
           IF Head(box).tag = "event" /\ Head(box).key = k
           THEN new[k] = Head(box).val
           ELSE new[k] = img[k]
    PROVE  Learns(Tail(box), new, k, v)
  <1> DEFINE E == EventsOf(box, k)
             T == EventsOf(Tail(box), k)
  <1>1. /\ Len(box) \in Nat \ {0} /\ Len(Tail(box)) = Len(box) - 1 /\ Head(box) = box[1]
        /\ \A i \in 1..(Len(box) - 1) : Tail(box)[i] = box[i + 1]
    OBVIOUS
  <1>2. \A i \in 1..(Len(box) - 1) : i \in T <=> i + 1 \in E
    BY <1>1 DEF EventsOf
  <1>3. T \subseteq 1..(Len(box) - 1) /\ E \subseteq 1..Len(box)
    BY <1>1 DEF EventsOf
  <1>4. 1 \in E <=> Head(box).tag = "event" /\ Head(box).key = k
    BY <1>1 DEF EventsOf
  <1>5. CASE T = {}
    <2>1. \A i \in E : i = 1
      <3>1. \A i \in E : i # 1 => i - 1 \in 1..(Len(box) - 1) /\ (i - 1) + 1 = i
        BY <1>1, <1>3
      <3> QED
        BY <1>2, <1>5, <3>1
    <2>2. CASE E = {}
      BY <1>4, <1>5, <2>2 DEF Learns
    <2>3. CASE E # {}
      BY <1>1, <1>4, <1>5, <2>1, <2>3 DEF Learns
    <2> QED
      BY <2>2, <2>3
  <1>6. CASE T # {}
    <2>1. PICK t \in T : TRUE
      BY <1>6
    <2>2. t \in 1..(Len(box) - 1) /\ t + 1 \in E
      BY <1>2, <1>3, <2>1
    <2>3. PICK e \in E : box[e].val = v /\ \A j \in E : j <= e
      BY <2>2 DEF Learns
    <2>4. t + 1 <= e /\ e \in 1..Len(box)
      BY <1>3, <2>2, <2>3
    <2>5. e - 1 \in 1..(Len(box) - 1) /\ (e - 1) + 1 = e
      BY <1>1, <2>2, <2>4
    <2>6. e - 1 \in T /\ Tail(box)[e - 1] = box[e]
      BY <1>1, <1>2, <2>3, <2>5
    <2>7. ASSUME NEW j \in T PROVE j <= e - 1
      <3>1. j \in 1..(Len(box) - 1) /\ j + 1 \in E
        BY <1>2, <1>3
      <3>2. j + 1 <= e
        BY <2>3, <3>1
      <3> QED
        BY <2>4, <3>1, <3>2
    <2> QED
      BY <1>6, <2>3, <2>6, <2>7 DEF Learns
  <1> QED
    BY <1>5, <1>6

-----------------------------------------------------------------------------
\* A client that has closed, and one the daemon has not answered yet, has
\* nothing to read; a monitoring client has events, after the status.
MessagesInv ==
    /\ \A c \in Conns : cli[c] = "closed" => inbox[c] = <<>>
    /\ \A l \in Listeners : \A i \in 1..Len(backlog[l]) : inbox[backlog[l][i]] = <<>>
    /\ pc = "recv" => inbox[cur] = <<>>
    /\ \A s \in Slots : heap[s] # NoConn =>
          \A i \in 1..Len(inbox[heap[s]]) :
              \/ inbox[heap[s]][i].tag = "event"
              \/ inbox[heap[s]][i].tag = "open" /\ inbox[heap[s]][i].key = NoKey

\* The monitors still to be told are there, and what they are told is so.
NoteInv ==
    /\ todo # {} => pc = "reply" /\ note[1] \in Keys /\ note[2] = cache[note[1]]
    /\ \A s \in todo : heap[s] # NoConn

\* There are no monitors before kvdb_loop runs.
QuietBoot ==
    pc \in {"off", "init", "load", "start"} => cur = NoConn /\ \A s \in Slots : heap[s] = NoConn

\* No client asks kvdbd to load the defaults again.
NoReload == \A r \in Requests : r.op # "R"

\* The daemon's own steps, but for those that send.
LEMMA SilentSteps ==
    ASSUME [Next]_vars, \A c \in Conns : ~Client(c), ~kvdb_client_monitor, ~kvdb_client_out,
           \A s \in Slots : ~kvdb_monitor_notify(s), \A k \in Keys : ~kvdb_list_consume(k),
           ~PowerCycle
    PROVE  inbox' = inbox /\ view' = view /\ cli' = cli
  <1>1. CASE kvdb_bind \/ kvdb_init \/ kvdb_load
    BY <1>1 DEF kvdb_bind, kvdb_init, kvdb_load, kvdb_load_open, kvdb_load_line,
                kvdb_load_close, kvdb_load_return
  <1>2. CASE kvdb_loop
    BY <1>2 DEF kvdb_loop, kvdb_loop_start, kvdb_loop_top, epoll_wait, epoll_timeout,
                kvdb_accept, kvdb_accept_fail, kvdb_monitor_close, kvdb_monitor_close_freed
  <1>3. CASE kvdb_client
    BY <1>3 DEF kvdb_client, kvdb_client_fail, kvdb_client_set, kvdb_client_delete,
                kvdb_client_get, kvdb_client_list, kvdb_client_commit, kvdb_client_reload,
                Modify, Handled
  <1>4. CASE Tick \/ UNCHANGED vars
    BY <1>4 DEF Tick, vars
  <1> QED
    BY <1>1, <1>2, <1>3, <1>4 DEF Next, Daemon

\* The steps that neither change the store nor tell of a change.
LEMMA StoreSteps ==
    ASSUME [Next]_vars, ~kvdb_load_line, ~kvdb_client_set, ~kvdb_client_delete,
           \A s \in Slots : ~kvdb_monitor_notify(s), ~kvdb_client_out, ~PowerCycle
    PROVE  cache' = cache /\ note' = note /\ todo' = todo
  <1>1. CASE kvdb_bind \/ kvdb_init \/ kvdb_load
    BY <1>1 DEF kvdb_bind, kvdb_init, kvdb_load, kvdb_load_open, kvdb_load_close,
                kvdb_load_return
  <1>2. CASE kvdb_loop
    BY <1>2 DEF kvdb_loop, kvdb_loop_start, kvdb_loop_top, epoll_wait, epoll_timeout,
                kvdb_accept, kvdb_accept_fail, kvdb_monitor_close, kvdb_monitor_close_freed
  <1>3. CASE kvdb_client
    BY <1>3 DEF kvdb_client, kvdb_client_fail, kvdb_client_get, kvdb_client_list,
                kvdb_client_commit, kvdb_client_reload, kvdb_client_monitor,
                kvdb_list_consume, Handled
  <1>4. CASE \E c \in Conns : Client(c)
    BY <1>4 DEF Client, property_connect, property_send, property_recv,
                property_monitor_read, property_eof, property_close
  <1>5. CASE Tick \/ UNCHANGED vars
    BY <1>5 DEF Tick, vars
  <1> QED
    BY <1>1, <1>2, <1>3, <1>4, <1>5 DEF Next, Daemon

\* Without the request 'R' kvdb_load runs only at the start.
LEMMA QuietStep ==
    ASSUME NoReload, TypeInv, OwnersInv, QuietBoot, [Next]_vars
    PROVE  QuietBoot'
  <1>1. CASE kvdb_bind \/ kvdb_init \/ kvdb_load
    <2>1. cur' = cur /\ heap' = heap /\ pc \in {"off", "init", "load"}
      BY <1>1 DEF kvdb_bind, kvdb_init, kvdb_load, kvdb_load_open, kvdb_load_line,
                  kvdb_load_close, kvdb_load_return, LoadDone
    <2> QED
      BY <2>1 DEF QuietBoot
  <1>2. CASE kvdb_loop
    <2>1. pc' \notin {"off", "init", "load", "start"}
      BY <1>2 DEF kvdb_loop, kvdb_loop_start, kvdb_loop_top, epoll_wait, epoll_timeout,
                kvdb_accept, kvdb_accept_fail, kvdb_monitor_close, kvdb_monitor_close_freed
    <2> QED
      BY <2>1 DEF QuietBoot
  <1>3. CASE kvdb_client
    <2>1. ~kvdb_client_reload
      BY RequestTypes DEF NoReload, kvdb_client_reload, Ops
    <2>2. pc' \notin {"off", "init", "load", "start"}
      BY <1>3, <2>1
         DEF kvdb_client, kvdb_client_fail, kvdb_client_set, kvdb_client_delete,
             kvdb_client_get, kvdb_client_list, kvdb_client_commit, kvdb_client_monitor,
             kvdb_monitor_notify, kvdb_list_consume, kvdb_client_out, Modify, Handled
    <2> QED
      BY <2>2 DEF QuietBoot
  <1>4. CASE \E c \in Conns : Client(c)
    BY <1>4 DEF Client, property_connect, property_send, property_recv,
                property_monitor_read, property_eof, property_close, QuietBoot
  <1>5. CASE Tick \/ UNCHANGED vars
    BY <1>5 DEF Tick, vars, QuietBoot
  <1>6. CASE PowerCycle
    BY <1>6 DEF PowerCycle, QuietBoot
  <1> QED
    BY <1>1, <1>2, <1>3, <1>4, <1>5, <1>6 DEF Next, Daemon

LEMMA NoteStep ==
    ASSUME TypeInv, NoteInv, [Next]_vars
    PROVE  NoteInv'
  <1>1. CASE kvdb_load_line
    BY <1>1 DEF kvdb_load_line, NoteInv
  <1>2. ASSUME NEW k \in Keys, NEW v \in Vals \cup {Absent}, NEW accepted, pc = "recv",
               Modify(k, v, accepted)
        PROVE  NoteInv'
    <2>1. CASE Change(k, v) /\ pc' = "reply" /\ heap' = heap
      BY <2>1 DEF Change, Matching, Written, NoteInv, TypeInv, TypeOK, Image
    <2>2. CASE UNCHANGED workVars
      BY <1>2, <2>2 DEF NoteInv
    <2> QED
      BY <1>2, <2>1, <2>2 DEF Modify, Handled
  <1>3. CASE kvdb_client_set
    BY <1>2, <1>3, RequestTypes DEF kvdb_client_set, Serves, Ops
  <1>4. CASE kvdb_client_delete
    BY <1>2, <1>4, RequestTypes DEF kvdb_client_delete, Serves, Ops
  <1>5. ASSUME NEW s \in Slots, kvdb_monitor_notify(s)
        PROVE  NoteInv'
    BY <1>5 DEF kvdb_monitor_notify, FreeMonitor, NoteInv, TypeInv, TypeOK
  <1>6. CASE kvdb_client_out
    BY <1>6 DEF kvdb_client_out, NoteInv
  <1>7. CASE PowerCycle
    BY <1>7 DEF PowerCycle, NoteInv
  <1>8. ASSUME cache' = cache, note' = note, todo' = todo
        PROVE  NoteInv'
    <2>1. CASE todo = {}
      BY <1>8, <2>1 DEF NoteInv
    <2>2. CASE todo # {}
      <3>1. pc = "reply"
        BY <2>2 DEF NoteInv
      <3>2. CASE pc' = "reply" /\ heap' = heap
        BY <1>8, <3>2 DEF NoteInv
      <3>3. ~(kvdb_bind \/ kvdb_init \/ kvdb_load)
        BY <3>1
           DEF kvdb_bind, kvdb_init, kvdb_load, kvdb_load_open, kvdb_load_line,
               kvdb_load_close, kvdb_load_return, LoadDone
      <3>7. ~kvdb_loop
        BY <3>1
           DEF kvdb_loop, kvdb_loop_start, kvdb_loop_top, epoll_wait, epoll_timeout,
               kvdb_accept, kvdb_accept_fail, kvdb_monitor_close, kvdb_monitor_close_freed
      <3>4. CASE kvdb_client
        <4>1. \E k \in Keys : kvdb_list_consume(k)
          BY <1>8, <3>1, <3>4, <2>2
             DEF kvdb_client, kvdb_client_fail, kvdb_client_set, kvdb_client_delete,
                 kvdb_client_get, kvdb_client_list, kvdb_client_commit, kvdb_client_reload,
                 kvdb_client_monitor, kvdb_monitor_notify, kvdb_client_out, Serves
        <4> QED
          BY <3>1, <3>2, <4>1 DEF kvdb_list_consume
      <3>5. CASE \E c \in Conns : Client(c)
        BY <3>1, <3>2, <3>5
           DEF Client, property_connect, property_send, property_recv,
               property_monitor_read, property_eof, property_close
      <3>6. CASE Tick \/ UNCHANGED vars
        BY <3>1, <3>2, <3>6 DEF Tick, vars
      <3> QED
        BY <1>7, <3>3, <3>4, <3>5, <3>6, <3>7 DEF Next, Daemon
    <2> QED
      BY <2>1, <2>2
  <1> QED
    BY <1>1, <1>3, <1>4, <1>5, <1>6, <1>7, <1>8, StoreSteps

\* Where the messages of a send go: to a connection that was accepted.
LEMMA Sends ==
    ASSUME TypeInv, BacklogInv, MessagesInv, NEW c \in fds, NEW m, TrySend(c, m),
           cli' = cli, backlog' = backlog
    PROVE  /\ \A d \in Conns : d # c => inbox'[d] = inbox[d]
           /\ inbox'[c] = inbox[c] \/ (inbox'[c] = Append(inbox[c], m) /\ cli[c] # "closed")
           /\ \A d \in Conns : cli'[d] = "closed" => inbox'[d] = <<>>
           /\ \A l \in Listeners : \A i \in 1..Len(backlog'[l]) : inbox'[backlog'[l][i]] = <<>>
  <1>1. c \in Conns
    BY DEF TypeInv, TypeOK
  <1>2. \A d \in Conns : d # c => inbox'[d] = inbox[d]
    BY DEF TrySend, Sent, TypeInv, TypeOK
  <1>3. inbox'[c] = inbox[c] \/ (inbox'[c] = Append(inbox[c], m) /\ cli[c] # "closed")
    BY <1>1 DEF TrySend, CanSend, Sent, TypeInv, TypeOK
  <1>4. ASSUME NEW l \in Listeners, NEW i \in 1..Len(backlog[l])
        PROVE  backlog[l][i] \in Conns /\ backlog[l][i] # c
    <2>1. backlog[l] \in Seq(Conns)
      BY DEF TypeInv, TypeOK
    <2>2. backlog[l][i] \in Conns
      BY <1>4, <2>1
    <2> QED
      BY <1>4, <2>2 DEF BacklogInv
  <1> QED
    BY <1>1, <1>2, <1>3, <1>4 DEF MessagesInv

\* Any message of a sequence with one more is an old one or the new one.
LEMMA AppendCases ==
    ASSUME NEW box \in Seq(Messages), NEW m \in Messages, NEW i \in 1..Len(Append(box, m))
    PROVE  Append(box, m)[i] = m \/ (i \in 1..Len(box) /\ Append(box, m)[i] = box[i])
  OBVIOUS

LEMMA TailCases ==
    ASSUME NEW S, NEW box \in Seq(S), box # <<>>, NEW i \in 1..Len(Tail(box))
    PROVE  i + 1 \in 1..Len(box) /\ Tail(box)[i] = box[i + 1]
  OBVIOUS

\* A client that reads or closes leaves less in its socket.
LEMMA ReadsKeepMessages ==
    ASSUME TypeInv, BacklogInv, MessagesInv, NEW c \in Conns,
           \/ inbox' = [inbox EXCEPT ![c] = <<>>] /\ cli' = [cli EXCEPT ![c] = "closed"]
           \/ /\ inbox[c] # <<>> /\ inbox' = [inbox EXCEPT ![c] = Tail(@)]
              /\ cli'[c] # "closed" /\ \A d \in Conns : d # c => cli'[d] = cli[d],
           UNCHANGED <<pc, cur, heap, backlog>>
    PROVE  MessagesInv'
  <1>1. inbox[c] \in Seq(Messages) /\ \A d \in Conns : d # c => inbox'[d] = inbox[d]
    BY DEF TypeInv, TypeOK
  <1>2. \A d \in Conns : cli'[d] = "closed" => inbox'[d] = <<>>
    BY DEF MessagesInv, TypeInv, TypeOK
  <1>3. \A d \in Conns : inbox[d] = <<>> => inbox'[d] = <<>>
    BY DEF TypeInv, TypeOK
  <1>4. \A l \in Listeners : \A i \in 1..Len(backlog'[l]) : inbox'[backlog'[l][i]] = <<>>
    BY <1>3 DEF MessagesInv, TypeInv, TypeOK
  <1>5. pc' = "recv" => inbox'[cur'] = <<>>
    BY <1>3 DEF MessagesInv, TypeInv, TypeOK, CurOK
  <1>6. ASSUME NEW s \in Slots, heap[s] # NoConn, NEW i \in 1..Len(inbox'[heap[s]])
        PROVE  \/ inbox'[heap[s]][i].tag = "event"
               \/ inbox'[heap[s]][i].tag = "open" /\ inbox'[heap[s]][i].key = NoKey
    <2>0. heap[s] \in Conns
      BY <1>6 DEF TypeInv, TypeOK
    <2>1. CASE heap[s] # c
      BY <1>1, <1>6, <2>0, <2>1 DEF MessagesInv
    <2>2. CASE heap[s] = c /\ inbox'[c] = <<>>
      BY <1>6, <2>2
    <2>3. CASE heap[s] = c /\ inbox[c] # <<>> /\ inbox'[c] = Tail(inbox[c])
      <3>1. i + 1 \in 1..Len(inbox[c]) /\ inbox'[c][i] = inbox[c][i + 1]
        BY <1>1, <1>6, <2>3, TailCases
      <3> QED
        BY <1>6, <2>3, <3>1 DEF MessagesInv
    <2> QED
      BY <2>1, <2>2, <2>3 DEF TypeInv, TypeOK
  <1> QED
    BY <1>2, <1>4, <1>5, <1>6 DEF MessagesInv

LEMMA MessagesStep ==
    ASSUME TypeInv, OwnersInv, BacklogInv, MessagesInv, NoteInv, [Next]_vars
    PROVE  MessagesInv'
  <1> USE DEF TypeInv, TypeOK
  <1>1. ASSUME NEW l \in Listeners, kvdb_accept(l)
        PROVE  MessagesInv'
    <2>1. inbox' = inbox /\ cli' = cli /\ heap' = heap
      BY <1>1 DEF kvdb_accept
    <2>2. inbox'[cur'] = <<>>
      <3>1. cur' = backlog[l][1] /\ 1 \in 1..Len(backlog[l])
        BY <1>1, Accepted
      <3> QED
        BY <2>1, <3>1 DEF MessagesInv
    <2>3. ASSUME NEW m \in Listeners, NEW i \in 1..Len(backlog'[m])
          PROVE  \E j \in 1..Len(backlog[m]) : backlog'[m][i] = backlog[m][j]
      <3>1. CASE m = l
        <4>1. backlog[l] # <<>> /\ backlog'[m] = Tail(backlog[l])
          BY <1>1, <3>1 DEF kvdb_accept
        <4>2. i + 1 \in 1..Len(backlog[l]) /\ backlog'[m][i] = backlog[l][i + 1]
          BY <2>3, <4>1, TailCases
        <4> QED
          BY <3>1, <4>2
      <3>2. CASE m # l
        BY <1>1, <2>3, <3>2 DEF kvdb_accept
      <3> QED
        BY <3>1, <3>2
    <2> HIDE DEF TypeInv, TypeOK
    <2>4. ASSUME NEW m \in Listeners, NEW i \in 1..Len(backlog'[m])
          PROVE  inbox'[backlog'[m][i]] = <<>>
      <3>1. PICK j \in 1..Len(backlog[m]) : backlog'[m][i] = backlog[m][j]
        BY <2>3, <2>4
      <3>2. inbox[backlog[m][j]] = <<>>
        BY DEF MessagesInv
      <3> QED
        BY <2>1, <3>1, <3>2
    <2>5. \A d \in Conns : cli'[d] = "closed" => inbox'[d] = <<>>
      BY <2>1 DEF MessagesInv
    <2>6. ASSUME NEW s \in Slots, heap'[s] # NoConn, NEW i \in 1..Len(inbox'[heap'[s]])
          PROVE  \/ inbox'[heap'[s]][i].tag = "event"
                 \/ inbox'[heap'[s]][i].tag = "open" /\ inbox'[heap'[s]][i].key = NoKey
      BY <2>1, <2>6 DEF MessagesInv
    <2> QED
      BY <2>2, <2>4, <2>5, <2>6 DEF MessagesInv
  <1>2. CASE kvdb_client_monitor
    <2>1. cur \in fds /\ cur \in Conns /\ inbox[cur] = <<>> /\ pc' # "recv" /\ cli' = cli /\ backlog' = backlog
      BY <1>2 DEF kvdb_client_monitor, Serves, CurOK, OwnersInv, MessagesInv
    <2>2. ASSUME NEW s \in Slots, kvdb_monitor_open(s), TrySend(cur, Control("open"))
          PROVE  MessagesInv'
      <3>1. Control("open") \in Messages /\ Control("open").tag = "open"
            /\ Control("open").key = NoKey
        BY MessageTypes DEF Control, Tags
      <3>2. \A i \in 1..Len(inbox'[cur]) : inbox'[cur][i] = Control("open")
        <4> HIDE DEF TypeInv, TypeOK
        <4>1. inbox'[cur] = <<>> \/ inbox'[cur] = Append(inbox[cur], Control("open"))
          BY <2>1, <2>2, Sends
        <4>2. CASE inbox'[cur] = <<>>
          BY <4>2
        <4>3. CASE inbox'[cur] = Append(inbox[cur], Control("open"))
          BY <2>1, <4>3
        <4> QED
          BY <4>1, <4>2, <4>3
      <3>3. \A t \in Slots : heap'[t] # NoConn => heap'[t] = cur \/ (heap'[t] = heap[t] /\ heap[t] # cur)
        BY <2>2 DEF kvdb_monitor_open, OwnersInv
      <3>4. ASSUME NEW t \in Slots, heap'[t] # NoConn, NEW i \in 1..Len(inbox'[heap'[t]])
            PROVE  \/ inbox'[heap'[t]][i].tag = "event"
                   \/ inbox'[heap'[t]][i].tag = "open" /\ inbox'[heap'[t]][i].key = NoKey
        <4>1. CASE heap'[t] = cur
          BY <3>1, <3>2, <3>4, <4>1
        <4>2. CASE heap'[t] = heap[t] /\ heap[t] # cur
          <5>1. heap[t] \in Conns
            BY <3>4, <4>2
          <5>2. inbox'[heap'[t]] = inbox[heap[t]]
            BY <2>1, <2>2, <4>2, <5>1, Sends
          <5> QED
            BY <3>4, <4>2, <5>2 DEF MessagesInv
        <4> QED
          BY <3>3, <3>4, <4>1, <4>2
      <3> QED
        BY <2>1, <2>2, <3>4, Sends DEF MessagesInv
    <2>3. CASE TrySend(cur, Status(FALSE)) /\ heap' = heap
      <3>0. \A s \in Slots : heap[s] # NoConn => heap[s] # cur /\ heap[s] \in Conns
        BY DEF OwnersInv
      <3>1. \A s \in Slots : heap[s] # NoConn => inbox'[heap[s]] = inbox[heap[s]]
        <4> HIDE DEF TypeInv, TypeOK
        <4> QED
          BY <2>1, <2>3, <3>0, Sends
      <3> HIDE DEF TypeInv, TypeOK
      <3>2. /\ \A d \in Conns : cli'[d] = "closed" => inbox'[d] = <<>>
            /\ \A l \in Listeners : \A i \in 1..Len(backlog'[l]) : inbox'[backlog'[l][i]] = <<>>
        BY <2>1, <2>3, Sends
      <3> QED
        BY <2>1, <2>3, <3>1, <3>2 DEF MessagesInv
    <2> QED
      BY <1>2, <2>2, <2>3 DEF kvdb_client_monitor
  <1>3. ASSUME NEW s \in Slots, kvdb_monitor_notify(s)
        PROVE  MessagesInv'
    <2> DEFINE m == Pair("event", note[1], note[2])
    <2>1. /\ heap[s] \in fds /\ heap[s] \in Conns /\ heap[s] # NoConn
          /\ cli' = cli /\ backlog' = backlog /\ pc' # "recv"
      BY <1>3, SocketsAssumption DEF kvdb_monitor_notify, OwnersInv, NoteInv
    <2>2. m \in Messages /\ m.tag = "event"
      BY MessageTypes DEF Pair, Tags
    <2> HIDE DEF m
    <2>3. CASE inbox' = inbox /\ \A t \in Slots : heap'[t] # NoConn => heap'[t] = heap[t]
      BY <2>1, <2>3 DEF MessagesInv
    <2>4. CASE CanSend(heap[s]) /\ inbox' = Sent(heap[s], m) /\ heap' = heap
      <3>1. TrySend(heap[s], m)
        BY <2>4 DEF TrySend
      <3>2. /\ inbox'[heap[s]] = inbox[heap[s]] \/ inbox'[heap[s]] = Append(inbox[heap[s]], m)
            /\ \A d \in Conns : d # heap[s] => inbox'[d] = inbox[d]
        BY <2>1, <3>1, Sends
      <3>3. ASSUME NEW t \in Slots, heap[t] # NoConn, NEW i \in 1..Len(inbox'[heap[t]])
            PROVE  \/ inbox'[heap[t]][i].tag = "event"
                   \/ inbox'[heap[t]][i].tag = "open" /\ inbox'[heap[t]][i].key = NoKey
        <4>0. heap[t] \in Conns /\ inbox[heap[t]] \in Seq(Messages)
          BY <3>3
        <4>1. CASE inbox'[heap[t]] = inbox[heap[t]]
          BY <3>3, <4>1 DEF MessagesInv
        <4>2. CASE inbox'[heap[t]] = Append(inbox[heap[t]], m)
          <5>1. inbox'[heap[t]][i] = m
                \/ (i \in 1..Len(inbox[heap[t]]) /\ inbox'[heap[t]][i] = inbox[heap[t]][i])
            BY <2>2, <3>3, <4>0, <4>2, AppendCases
          <5> QED
            BY <2>2, <3>3, <5>1 DEF MessagesInv
        <4> QED
          BY <3>2, <4>0, <4>1, <4>2
      <3> QED
        BY <2>1, <2>4, <3>1, <3>3, Sends DEF MessagesInv
    <2> QED
      BY <1>3, <2>1, <2>3, <2>4 DEF kvdb_monitor_notify, FreeMonitor, m
  <1>4. ASSUME NEW m, TrySend(cur, m), cur \in fds, UNCHANGED <<heap, cli, backlog>>, pc' # "recv"
        PROVE  MessagesInv'
    <2>1. \A s \in Slots : heap[s] # NoConn => inbox'[heap[s]] = inbox[heap[s]]
      <3>1. \A s \in Slots : heap[s] # NoConn => heap[s] # cur /\ heap[s] \in Conns
        BY DEF OwnersInv
      <3> HIDE DEF TypeInv, TypeOK
      <3> QED
        BY <1>4, <3>1, Sends
    <2> HIDE DEF TypeInv, TypeOK
    <2>2. /\ \A d \in Conns : cli'[d] = "closed" => inbox'[d] = <<>>
          /\ \A l \in Listeners : \A i \in 1..Len(backlog'[l]) : inbox'[backlog'[l][i]] = <<>>
      BY <1>4, Sends
    <2> QED
      BY <1>4, <2>1, <2>2 DEF MessagesInv
  <1>5. ASSUME NEW k \in Keys, kvdb_list_consume(k)
        PROVE  MessagesInv'
    BY <1>4, <1>5 DEF kvdb_list_consume, CurOK, OwnersInv
  <1>6. CASE kvdb_client_out
    BY <1>4, <1>6 DEF kvdb_client_out, CurOK, OwnersInv, MessagesInv
  <1>7. ASSUME NEW c \in Conns, Client(c)
        PROVE  MessagesInv'
    <2>1. CASE property_connect(c)
      <3> DEFINE l == ListenerOf[c]
      <3>1. l \in Listeners /\ inbox[c] = <<>>
        BY <2>1, SocketsAssumption DEF property_connect, MessagesInv
      <3>2. ASSUME NEW m \in Listeners, NEW i \in 1..Len(backlog'[m])
            PROVE  inbox[backlog'[m][i]] = <<>>
        <4>1. CASE m = l
          <5>1. backlog'[m] = Append(backlog[l], c) /\ backlog[l] \in Seq(Conns)
            BY <2>1, <3>1, <4>1 DEF property_connect
          <5>2. backlog'[m][i] = c \/ (i \in 1..Len(backlog[l]) /\ backlog'[m][i] = backlog[l][i])
            BY <3>2, <5>1
          <5> QED
            BY <3>1, <5>2 DEF MessagesInv
        <4>2. CASE m # l
          BY <2>1, <3>1, <3>2, <4>2 DEF property_connect, MessagesInv
        <4> QED
          BY <4>1, <4>2
      <3> QED
        BY <2>1, <3>2 DEF property_connect, MessagesInv
    <2>2. ASSUME NEW r \in Requests, property_send(c, r)
          PROVE  MessagesInv'
      BY <2>2 DEF property_send, MessagesInv
    <2>3. CASE property_recv(c)
      BY <2>3, ReadsKeepMessages DEF property_recv, Closed
    <2>4. CASE property_monitor_read(c)
      BY <2>4, ReadsKeepMessages DEF property_monitor_read
    <2>5. CASE property_eof(c) \/ property_close(c)
      BY <2>5, ReadsKeepMessages DEF property_eof, property_close, Closed
    <2> QED
      BY <1>7, <2>1, <2>2, <2>3, <2>4, <2>5 DEF Client
  <1>8. CASE PowerCycle
    BY <1>8 DEF PowerCycle, MessagesInv
  <1>9. ASSUME inbox' = inbox, cli' = cli, \A l \in Listeners : ~kvdb_accept(l),
               \A c \in Conns : ~Client(c), ~kvdb_client_monitor, ~kvdb_client_out,
               \A s \in Slots : ~kvdb_monitor_notify(s), ~PowerCycle
        PROVE  MessagesInv'
    <2>1. \A s \in Slots : heap'[s] # NoConn => heap'[s] = heap[s]
      <3>1. CASE \E s \in Slots : kvdb_monitor_close(s) \/ kvdb_monitor_close_freed(s)
        BY <3>1 DEF kvdb_monitor_close, kvdb_monitor_close_freed, FreeMonitor
      <3> QED
        BY <1>9, <3>1, SocketsKept
    <2>2. backlog' = [l \in Listeners |-> <<>>] \/ backlog' = backlog
      BY <1>9, BacklogKept DEF Client
    <2>3. pc' = "recv" => pc = "recv" /\ cur' = cur
      <3>1. CASE kvdb_bind \/ kvdb_init \/ kvdb_load
        BY <3>1 DEF kvdb_bind, kvdb_init, kvdb_unbind, kvdb_load, kvdb_load_open,
                    kvdb_load_line, kvdb_load_close, kvdb_load_return, AfterLoad
      <3>2. CASE kvdb_loop
        BY <1>9, <3>2 DEF kvdb_loop, kvdb_loop_start, kvdb_loop_top, epoll_wait, epoll_timeout,
                    kvdb_accept_fail, kvdb_monitor_close, kvdb_monitor_close_freed
      <3>3. CASE kvdb_client
        BY <1>9, <3>3
           DEF kvdb_client, kvdb_client_fail, kvdb_client_set, kvdb_client_delete,
               kvdb_client_get, kvdb_client_list, kvdb_client_commit, kvdb_client_reload,
               kvdb_list_consume, Modify, Handled
      <3>4. CASE Tick \/ UNCHANGED vars
        BY <3>4 DEF Tick, vars
      <3> QED
        BY <1>9, <3>1, <3>2, <3>3, <3>4 DEF Next, Daemon
    <2>4. \A l \in Listeners : \A i \in 1..Len(backlog'[l]) : inbox'[backlog'[l][i]] = <<>>
      BY <1>9, <2>2 DEF MessagesInv
    <2> QED
      BY <1>9, <2>1, <2>3, <2>4 DEF MessagesInv
  <1> QED
    BY <1>1, <1>2, <1>3, <1>5, <1>6, <1>7, <1>8, <1>9, SilentSteps

\* A monitor is as current as it was when nothing it depends on changes.
LEMMA StillCurrent ==
    ASSUME MonitorCurrent, pc # "undefined", NEW s \in Slots, heap'[s] # NoConn, cli'[heap'[s]] # "closed",
           heap'[s] = heap[s], pat'[s] = pat[s], cli[heap[s]] # "closed",
           inbox'[heap[s]] = inbox[heap[s]], view'[heap[s]] = view[heap[s]],
           cache' = cache, s \in todo => s \in todo' /\ note' = note
    PROVE  \A k \in pat'[s] : Learns(inbox'[heap'[s]], view'[heap'[s]], k, cache'[k])
                               \/ (s \in todo' /\ k = note'[1])
  BY LearnsIsWillKnow DEF MonitorCurrent

LEMMA CurrentStep ==
    ASSUME NoReload, TypeInv, OwnersInv, MessagesInv, NoteInv, QuietBoot, MonitorCurrent,
           [Next]_vars
    PROVE  MonitorCurrent'
  <1> DEFINE Current(s) ==
        \A k \in pat'[s] : Learns(inbox'[heap'[s]], view'[heap'[s]], k, cache'[k])
                            \/ (s \in todo' /\ k = note'[1])
  <1> SUFFICES ASSUME pc' # "undefined", NEW s \in Slots, heap'[s] # NoConn,
                      cli'[heap'[s]] # "closed"
               PROVE  Current(s)
    <2>1. \A c, k, v : WillKnow(c, k, v)' <=> Learns(inbox'[c], view'[c], k, v)
      BY DEF WillKnow, Learns, EventsOf
    <2> QED
      BY <2>1 DEF MonitorCurrent, WillKnow, Learns, EventsOf
  <1>1. CASE PowerCycle
    BY <1>1 DEF PowerCycle
  <1>0. CASE ~PowerCycle /\ pc = "undefined"
    <2>1. ~Daemon
      BY <1>0 DEF Daemon, kvdb_bind, kvdb_init, kvdb_load, kvdb_load_open, kvdb_load_line,
            kvdb_load_close, kvdb_load_return, LoadDone, kvdb_loop, kvdb_loop_start,
            kvdb_loop_top, epoll_wait, epoll_timeout, kvdb_accept, kvdb_accept_fail,
            kvdb_monitor_close, kvdb_monitor_close_freed, kvdb_client, kvdb_client_fail,
            kvdb_client_set, kvdb_client_delete, kvdb_client_get, kvdb_client_list,
            kvdb_client_commit, kvdb_client_reload, kvdb_client_monitor,
            kvdb_monitor_notify, kvdb_list_consume, kvdb_client_out, Serves
    <2> QED
      BY <1>0, <2>1 DEF Next, Client, property_connect, property_send, property_recv,
            property_monitor_read, property_eof, property_close, Tick, vars
  <1> SUFFICES ASSUME pc # "undefined" PROVE Current(s)
    BY <1>0, <1>1
  <1>2. CASE kvdb_load_line
    BY <1>2 DEF kvdb_load_line, QuietBoot
  <1>3. ASSUME NEW k \in Keys, NEW v \in Vals \cup {Absent}, NEW accepted, pc = "recv",
               Modify(k, v, accepted)
        PROVE  Current(s)
    <2>1. UNCHANGED <<heap, pat, inbox, view, cli>>
      BY <1>3 DEF Modify, Handled
    <2>2. todo = {}
      BY <1>3 DEF NoteInv
    <2>3. CASE Change(k, v)
      <3>1. \A j \in Keys : j # k => cache'[j] = cache[j]
        BY <2>3 DEF Change, Written, TypeInv, TypeOK, Image
      <3>2. ASSUME NEW j \in pat[s], j # k
            PROVE  Learns(inbox[heap[s]], view[heap[s]], j, cache'[j])
        BY <2>1, <2>2, <3>1, <3>2, LearnsIsWillKnow DEF MonitorCurrent, TypeInv, TypeOK
      <3>3. k \in pat[s] => s \in todo' /\ k = note'[1]
        BY <2>1, <2>3 DEF Change, Matching
      <3> QED
        BY <2>1, <3>2, <3>3
    <2>4. CASE UNCHANGED <<storeVars, workVars>>
      BY <2>1, <2>4, StillCurrent
    <2> QED
      BY <1>3, <2>3, <2>4 DEF Modify
  <1>4. CASE kvdb_client_set
    BY <1>3, <1>4, RequestTypes DEF kvdb_client_set, Serves, Ops
  <1>5. CASE kvdb_client_delete
    BY <1>3, <1>5, RequestTypes DEF kvdb_client_delete, Serves, Ops
  <1>6. ASSUME NEW t \in Slots, kvdb_monitor_notify(t)
        PROVE  Current(s)
    <2> DEFINE m == Pair("event", note[1], note[2])
    <2>1. /\ heap[t] \in Conns /\ heap[t] # NoConn /\ t \in todo /\ todo' = todo \ {t}
          /\ UNCHANGED <<view, cli, cache, note>>
      BY <1>6, SocketsAssumption DEF kvdb_monitor_notify, TypeInv, TypeOK, NoteInv
    <2>2. m \in Messages /\ note[1] \in Keys /\ note[2] = cache[note[1]]
      BY <2>1, MessageTypes DEF TypeInv, TypeOK, Tags, NoteInv
    <2>3. m.tag = "event" /\ m.key = note[1]
      BY DEF Pair
    <2>4. CASE FreeMonitor(t) /\ inbox' = inbox
      <3>1. s # t /\ heap'[s] = heap[s] /\ pat'[s] = pat[s]
        BY <2>4 DEF FreeMonitor, TypeInv, TypeOK
      <3> QED
        BY <2>1, <2>4, <3>1, StillCurrent
    <2>5. CASE inbox' = Sent(heap[t], m) /\ UNCHANGED <<heap, pat>>
      <3>1. CASE s # t
        <4>1. heap[s] # heap[t] /\ heap[s] \in Conns
          BY <2>1, <2>5, <3>1 DEF OwnersInv, TypeInv, TypeOK
        <4>2. inbox'[heap[s]] = inbox[heap[s]]
          BY <2>1, <2>5, <4>1 DEF Sent, TypeInv, TypeOK
        <4> QED
          BY <2>1, <2>5, <3>1, <4>2, StillCurrent
      <3>2. CASE s = t
        <4>1. inbox'[heap[s]] = Append(inbox[heap[s]], m) /\ inbox[heap[s]] \in Seq(Messages)
          BY <2>1, <2>5, <3>2 DEF Sent, TypeInv, TypeOK
        <4> HIDE DEF m
        <4>2. ASSUME NEW k \in pat[s], k # note[1]
              PROVE  Learns(inbox'[heap[s]], view[heap[s]], k, cache[k])
          <5>1. Learns(inbox[heap[s]], view[heap[s]], k, cache[k])
            BY <2>1, <2>5, <4>2, LearnsIsWillKnow DEF MonitorCurrent
          <5> QED
            BY <2>2, <2>3, <4>1, <4>2, <5>1, LearnsOther
        <4>3. Learns(inbox'[heap[s]], view[heap[s]], note[1], cache[note[1]])
          BY <2>2, <4>1, LearnsEvent DEF m
        <4> QED
          BY <2>1, <2>5, <4>2, <4>3
      <3> QED
        BY <3>1, <3>2
    <2> QED
      BY <1>6, <2>4, <2>5 DEF kvdb_monitor_notify
  <1>7. CASE kvdb_client_monitor
    <2>1. /\ cur \in Conns /\ inbox[cur] = <<>> /\ cli' = cli /\ cache' = cache
          /\ todo' = todo /\ note' = note
      BY <1>7 DEF kvdb_client_monitor, Serves, TypeInv, TypeOK, CurOK, MessagesInv
    <2>2. CASE heap'[s] # cur
      <3>1. heap'[s] = heap[s] /\ pat'[s] = pat[s] /\ heap[s] \in Conns
        BY <1>7, <2>2 DEF kvdb_client_monitor, kvdb_monitor_open, TypeInv, TypeOK
      <3>2. inbox'[heap[s]] = inbox[heap[s]] /\ view'[heap[s]] = view[heap[s]]
        BY <1>7, <2>2, <3>1
           DEF kvdb_client_monitor, kvdb_monitor_open, TrySend, Sent, TypeInv, TypeOK
      <3> QED
        BY <2>1, <3>1, <3>2, StillCurrent
    <2>3. CASE heap'[s] = cur
      <3>1. heap[s] # cur
        BY <2>1, SocketsAssumption DEF OwnersInv
      <3>2. PICK t \in Slots : kvdb_monitor_open(t) /\ TrySend(cur, Control("open"))
        BY <1>7, <2>3, <3>1 DEF kvdb_client_monitor
      <3>3. t = s /\ pat'[s] \subseteq Keys /\ view'[cur] = cache
        BY <1>7, <2>1, <2>3, <3>1, <3>2, RequestTypes
           DEF kvdb_monitor_open, kvdb_client_monitor, Ops, TypeInv, TypeOK
      <3>4. inbox'[cur] = <<>> \/ inbox'[cur] = <<Control("open")>>
        BY <2>1, <3>2 DEF TrySend, Sent, TypeInv, TypeOK
      <3>5. \A k : EventsOf(inbox'[cur], k) = {}
        BY <3>4 DEF EventsOf, Control
      <3> QED
        BY <2>1, <2>3, <3>3, <3>5 DEF Learns
    <2> QED
      BY <2>2, <2>3
  <1>8. ASSUME UNCHANGED <<heap, pat, view, cli, cache>>, NEW m, TrySend(cur, m),
               todo' = todo, note' = note \/ todo = {}
        PROVE  Current(s)
    <2>1. heap[s] # cur /\ heap[s] \in Conns
      BY <1>8 DEF OwnersInv, TypeInv, TypeOK
    <2>2. inbox'[heap[s]] = inbox[heap[s]]
      BY <1>8, <2>1 DEF TrySend, Sent, TypeInv, TypeOK
    <2> QED
      BY <1>8, <2>2, StillCurrent
  <1>9. ASSUME NEW k \in Keys, kvdb_list_consume(k)
        PROVE  Current(s)
    BY <1>8, <1>9 DEF kvdb_list_consume
  <1>10. CASE kvdb_client_out
    <2>1. CASE inbox' = inbox
      BY <1>10, <2>1, StillCurrent DEF kvdb_client_out
    <2> QED
      BY <1>8, <1>10, <2>1 DEF kvdb_client_out
  <1>11. ASSUME NEW c \in Conns, Client(c)
         PROVE  Current(s)
    <2>0. /\ UNCHANGED <<heap, pat, cache, todo, note>>
          /\ heap[s] \in Conns
      BY <1>11 DEF Client, property_connect, property_send, property_recv,
            property_monitor_read, property_eof, property_close, TypeInv, TypeOK
    <2>1. CASE heap[s] # c
      <3>1. inbox'[heap[s]] = inbox[heap[s]] /\ view'[heap[s]] = view[heap[s]]
            /\ cli'[heap[s]] = cli[heap[s]]
        BY <1>11, <2>0, <2>1
           DEF Client, property_connect, property_send, property_recv,
               property_monitor_read, property_eof, property_close, Closed, TypeInv, TypeOK
      <3> QED
        BY <2>0, <3>1, StillCurrent
    <2>2. CASE heap[s] = c
      <3>1. cli'[c] # "closed" /\ inbox[c] \in Seq(Messages)
        BY <2>0, <2>2 DEF TypeInv, TypeOK
      <3>2. ~property_connect(c) /\ ~property_eof(c) /\ ~property_close(c)
        BY <2>0, <2>2, <3>1
           DEF property_connect, property_eof, property_close, Closed, Dropped, OwnersInv,
               TypeInv, TypeOK
      <3>3. ASSUME NEW r \in Requests, property_send(c, r)
            PROVE  Current(s)
        BY <2>0, <2>2, <3>3, StillCurrent DEF property_send
      <3>4. ASSUME inbox[c] # <<>>, cli[c] # "closed", inbox'[c] = Tail(inbox[c]),
                   view'[c] \in Image,
                   \A k \in Keys : IF Head(inbox[c]).tag = "event" /\ Head(inbox[c]).key = k
                                   THEN view'[c][k] = Head(inbox[c]).val
                                   ELSE view'[c][k] = view[c][k]
            PROVE  Current(s)
        <4>1. ASSUME NEW k \in pat[s], Learns(inbox[c], view[c], k, cache[k])
              PROVE  Learns(inbox'[c], view'[c], k, cache[k])
          <5>1. k \in Keys /\ view[c] \in Image
            BY <2>2 DEF TypeInv, TypeOK
          <5> QED
            BY <3>1, <3>4, <4>1, <5>1, LearnsTail
        <4> QED
          BY <2>0, <2>2, <3>4, <4>1, LearnsIsWillKnow DEF MonitorCurrent
      <3>5. CASE property_recv(c)
        <4>1. Head(inbox[c]).tag # "event"
          BY <3>1, <3>5 DEF property_recv, Closed, TypeInv, TypeOK
        <4>2. inbox[c] # <<>> /\ cli[c] # "closed" /\ inbox'[c] = Tail(inbox[c]) /\ view' = view
          BY <3>1, <3>5 DEF property_recv, Closed, TypeInv, TypeOK
        <4> QED
          BY <3>4, <4>1, <4>2 DEF TypeInv, TypeOK
      <3>6. CASE property_monitor_read(c)
        <4>1. /\ inbox[c] # <<>> /\ cli[c] # "closed" /\ inbox'[c] = Tail(inbox[c])
              /\ view'[c] = Written(view[c], Head(inbox[c]).key, Head(inbox[c]).val)
          BY <3>6 DEF property_monitor_read, TypeInv, TypeOK
        <4>2. Head(inbox[c]) \in Messages /\ Head(inbox[c]) = inbox[c][1] /\ 1 \in 1..Len(inbox[c])
          BY <3>1, <4>1
        <4>3. Head(inbox[c]).tag = "event" \/ Head(inbox[c]).key = NoKey
          BY <2>0, <2>2, <4>2 DEF MessagesInv
        <4>4. view[c] \in Image /\ Head(inbox[c]).val \in Vals \cup {Absent}
          BY <4>2 DEF TypeInv, TypeOK, Messages
        <4>5. view'[c] \in Image
          BY <4>1, <4>4, WrittenTypes
        <4>6. ASSUME NEW k \in Keys
              PROVE  IF Head(inbox[c]).tag = "event" /\ Head(inbox[c]).key = k
                     THEN view'[c][k] = Head(inbox[c]).val
                     ELSE view'[c][k] = view[c][k]
          BY <4>1, <4>3, <4>4, SocketsAssumption DEF Written, Image
        <4> QED
          BY <3>4, <4>1, <4>5, <4>6
      <3> QED
        BY <1>11, <3>2, <3>3, <3>5, <3>6 DEF Client
    <2> QED
      BY <2>1, <2>2
  <1>12. ASSUME NEW t \in Slots, kvdb_monitor_close(t)
         PROVE  Current(s)
    <2>1. s # t /\ heap'[s] = heap[s] /\ pat'[s] = pat[s]
      BY <1>12 DEF kvdb_monitor_close, FreeMonitor, TypeInv, TypeOK
    <2> QED
      BY <1>12, <2>1, StillCurrent DEF kvdb_monitor_close
  <1>13. ASSUME UNCHANGED <<heap, pat, inbox, view, cli, cache, note, todo>>
         PROVE  Current(s)
    BY <1>13, StillCurrent
  <1>14. CASE \E l \in Listeners : kvdb_accept(l)
    BY <1>13, <1>14 DEF kvdb_accept
  <1>15. \A t \in Slots : ~kvdb_monitor_close_freed(t)
    BY DEF kvdb_monitor_close_freed
  <1> HIDE DEF Current
  <1> QED
    BY <1>1, <1>2, <1>4, <1>5, <1>6, <1>7, <1>9, <1>10, <1>11, <1>12, <1>13, <1>14,
       <1>15, SilentSteps, StoreSteps, SocketsKept

\* Nobody reloads the defaults: then whatever clients set, delete, read, miss
\* or fail to read, a client whose monitor kvdbd keeps has seen, has in its
\* socket, or is about to be sent the present value of every key it monitors,
\* until kvdbd follows the event of a monitor it has freed.
THEOREM MonitorsAreCurrent ==
    ASSUME NoReload
    PROVE  Spec => []MonitorCurrent
  <1> DEFINE Inv == /\ TypeInv /\ OwnersInv /\ BacklogInv /\ MessagesInv /\ NoteInv
                    /\ QuietBoot /\ MonitorCurrent
  <1>1. Init => Inv
    <2>1. Init => TypeInv /\ OwnersInv /\ BacklogInv
      BY InitTypes, SocketsInit
    <2>2. Init => MessagesInv /\ NoteInv /\ QuietBoot /\ MonitorCurrent
      BY DEF Init, MessagesInv, NoteInv, QuietBoot, MonitorCurrent
    <2> QED
      BY <2>1, <2>2
  <1>2. Inv /\ [Next]_vars => Inv'
    BY StepTypes, OwnersStep, BacklogStep, MessagesStep, NoteStep, QuietStep, CurrentStep
  <1>3. Inv => MonitorCurrent
    OBVIOUS
  <1> HIDE DEF Inv
  <1> QED
    BY <1>1, <1>2, <1>3, PTL DEF Spec

=============================================================================
