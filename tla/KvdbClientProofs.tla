-------------------------- MODULE KvdbClientProofs --------------------------
(***************************************************************************)
(* The composition of the client calls with the daemon: what is proved of  *)
(* the daemon for clients that do anything holds with those of client.c.   *)
(***************************************************************************)
EXTENDS KvdbClient, KvdbMonitorProofs

USE DEF storeVars, timeVars, workVars, loadVars, monVars, cliVars

-----------------------------------------------------------------------------
(* The stacks *)

\* A frame whose connection is one of Conns, but while it has none yet.
FrameOK(f) == f \in Frames /\ (f.at # "connect" => f.conn \in Conns)

\* The stacks are made of such frames.
StackInv ==
    /\ stack \in [Procs -> Seq(Frames)]
    /\ \A p \in Procs : \A i \in 1..Len(stack[p]) : FrameOK(stack[p][i])

\* The innermost call of a process is a frame of its stack.
LEMMA TopFrame ==
    ASSUME StackInv, NEW p \in Procs, stack[p] # <<>>
    PROVE  Len(stack[p]) \in 1..Len(stack[p]) /\ FrameOK(Top(p))
<1>1. stack[p] \in Seq(Frames)
  BY DEF StackInv
<1>2. Len(stack[p]) \in Nat /\ Len(stack[p]) # 0
  BY <1>1
<1> QED
  BY <1>2 DEF StackInv, Top

\* A call that goes on keeps the stacks in order.
LEMMA GoesOnStack ==
    ASSUME StackInv, NEW p \in Procs, stack[p] # <<>>,
           NEW c \in Conns \cup {NoConn}, NEW a \in Ats, a # "connect" => c \in Conns,
           GoesOn(p, c, a)
    PROVE  StackInv'
<1> DEFINE n == Len(stack[p])
           f == [Top(p) EXCEPT !.conn = c, !.at = a]
           t == [stack[p] EXCEPT ![n] = f]
<1>1. n \in 1..n /\ FrameOK(Top(p)) /\ stack[p] \in Seq(Frames)
  BY TopFrame DEF StackInv
<1>2. FrameOK(f)
  BY <1>1 DEF FrameOK, Frames
<1>3. t \in Seq(Frames) /\ Len(t) = n /\ \A i \in 1..n : t[i] = IF i = n THEN f ELSE stack[p][i]
  BY <1>1, <1>2 DEF FrameOK
<1>4. stack' = [stack EXCEPT ![p] = t]
  BY DEF GoesOn, WithTop
<1> HIDE DEF f, t
<1>5. stack' \in [Procs -> Seq(Frames)]
  BY <1>3, <1>4 DEF StackInv
<1>6. ASSUME NEW q \in Procs, NEW i \in 1..Len(stack'[q])
      PROVE  FrameOK(stack'[q][i])
  <2>1. CASE q = p
    <3>1. stack'[q] = t
      BY <1>4, <2>1 DEF StackInv
    <3> QED
      BY <1>2, <1>3, <2>1, <3>1 DEF StackInv
  <2>2. CASE q # p
    <3>1. stack'[q] = stack[q]
      BY <1>4, <2>2 DEF StackInv
    <3> QED
      BY <3>1 DEF StackInv
  <2> QED
    BY <2>1, <2>2
<1> QED
  BY <1>5, <1>6 DEF StackInv, FrameOK

\* So does one that returns.
LEMMA ReturnsStack ==
    ASSUME StackInv, NEW p \in Procs, stack[p] # <<>>, NEW r, NEW v, Returns(p, r, v)
    PROVE  StackInv'
<1> DEFINE n == Len(stack[p])
           t == SubSeq(stack[p], 1, n - 1)
<1>1. n \in 1..n /\ n \in Nat /\ stack[p] \in Seq(Frames)
  BY TopFrame DEF StackInv
<1>2. t \in Seq(Frames) /\ Len(t) = n - 1 /\ \A i \in 1..(n - 1) : t[i] = stack[p][i]
  BY <1>1
<1>3. stack' = [stack EXCEPT ![p] = t]
  BY DEF Returns
<1> HIDE DEF t
<1>4. stack' \in [Procs -> Seq(Frames)]
  BY <1>2, <1>3 DEF StackInv
<1>5. ASSUME NEW q \in Procs, NEW i \in 1..Len(stack'[q])
      PROVE  FrameOK(stack'[q][i])
  <2>1. CASE q = p
    <3>1. stack'[q] = t
      BY <1>3, <2>1 DEF StackInv
    <3>2. i \in 1..n
      BY <1>1, <1>2, <3>1
    <3> QED
      BY <1>1, <1>2, <2>1, <3>1, <3>2 DEF StackInv
  <2>2. CASE q # p
    <3>1. stack'[q] = stack[q]
      BY <1>3, <2>2 DEF StackInv
    <3> QED
      BY <3>1 DEF StackInv
  <2> QED
    BY <2>1, <2>2
<1> QED
  BY <1>4, <1>5 DEF StackInv, FrameOK

\* And a call that begins.
LEMMA BeginStack ==
    ASSUME StackInv, NEW p \in Procs, Begin(p)
    PROVE  StackInv'
<1>1. PICK call \in (IF stack[p] = <<>> THEN Program[p] ELSE Nested) :
        stack' = [stack EXCEPT ![p] =
                    Append(Resumed(@), [call |-> call, conn |-> NoConn, at |-> "connect"])]
  BY DEF Begin
<1> DEFINE f == [call |-> call, conn |-> NoConn, at |-> "connect"]
           s == Resumed(stack[p])
<1>2. FrameOK(f)
  BY <1>1, ProcsAssumption DEF FrameOK, Frames, Ats
<1>3. s \in Seq(Frames) /\ \A i \in 1..Len(s) : FrameOK(s[i])
  <2>1. CASE stack[p] # <<>> /\ Top(p).at = "callback"
    <3> DEFINE n == Len(stack[p])
               g == [stack[p][n] EXCEPT !.at = "recv"]
    <3>1. n \in 1..n /\ FrameOK(stack[p][n]) /\ stack[p] \in Seq(Frames)
      BY <2>1, TopFrame DEF StackInv, Top
    <3>2. FrameOK(g)
      BY <2>1, <3>1 DEF FrameOK, Frames, Ats, Top
    <3>3. s = [stack[p] EXCEPT ![n] = g]
      BY <2>1 DEF Resumed, WithTop, Top
    <3> HIDE DEF g, s
    <3>4. s \in Seq(Frames) /\ Len(s) = n /\ \A i \in 1..n : s[i] = IF i = n THEN g ELSE stack[p][i]
      BY <3>1, <3>2, <3>3 DEF FrameOK
    <3> QED
      BY <3>2, <3>4 DEF StackInv
  <2>2. CASE ~(stack[p] # <<>> /\ Top(p).at = "callback")
    BY <2>2 DEF Resumed, Top, StackInv
  <2> QED
    BY <2>1, <2>2
<1>4. stack' = [stack EXCEPT ![p] = Append(s, f)]
  BY <1>1
<1> HIDE DEF s, f
<1> DEFINE t == Append(s, f)
<1>5. t \in Seq(Frames) /\ \A i \in 1..Len(t) : FrameOK(t[i])
  <2>1. f \in Frames
    BY <1>2 DEF FrameOK
  <2>2. t \in Seq(Frames) /\ Len(t) = Len(s) + 1 /\ t[Len(s) + 1] = f
          /\ \A i \in 1..Len(s) : t[i] = s[i]
    BY <1>3, <2>1
  <2>3. Len(s) \in Nat
    BY <1>3
  <2> HIDE DEF t
  <2> QED
    BY <1>2, <1>3, <2>2, <2>3
<1> HIDE DEF t
<1>6. stack' = [stack EXCEPT ![p] = t]
  BY <1>4 DEF t
<1>7. stack' \in [Procs -> Seq(Frames)]
  BY <1>5, <1>6 DEF StackInv
<1>8. ASSUME NEW q \in Procs, NEW i \in 1..Len(stack'[q])
      PROVE  FrameOK(stack'[q][i])
  <2>1. CASE q = p
    <3>1. stack'[q] = t
      BY <1>6, <2>1 DEF StackInv
    <3> QED
      BY <1>5, <3>1
  <2>2. CASE q # p
    <3>1. stack'[q] = stack[q]
      BY <1>6, <2>2 DEF StackInv
    <3> QED
      BY <3>1 DEF StackInv
  <2> QED
    BY <2>1, <2>2
<1> QED
  BY <1>7, <1>8 DEF StackInv, FrameOK

-----------------------------------------------------------------------------
(* The steps *)

\* A call that is past connect has a connection and a request of its own.
LEMMA CallHasConn ==
    ASSUME StackInv, NEW p \in Procs, NEW a, a # "connect", At(p, a)
    PROVE  stack[p] # <<>> /\ Conn(p) \in Conns /\ Top(p).call.req \in Requests
  BY TopFrame DEF At, Conn, FrameOK, Frames, CallRecords

\* What a client does on a connection is a step of KvdbServer.
LEMMA ClientSteps ==
    ASSUME NEW c \in Conns, Client(c)
    PROVE  Next
  BY DEF Next

\* Every step of a call is a step of KvdbServer, or none.
LEMMA WorksSteps ==
    ASSUME StackInv, NEW p \in Procs, Works(p)
    PROVE  StackInv' /\ [Next]_vars
<1>1. CASE call_connect(p)
  <2>1. NewConn \in Conns
    BY <1>1 DEF call_connect, NewConn
  <2>2. StackInv'
    BY <1>1, <2>1, GoesOnStack DEF call_connect, At, Ats
  <2> QED
    BY <1>1, <2>1, <2>2, ClientSteps DEF call_connect, Client
<1>2. CASE call_send(p)
  <2>1. stack[p] # <<>> /\ Conn(p) \in Conns /\ Top(p).call.req \in Requests
    BY <1>2, CallHasConn DEF call_send
  <2>2. AfterSend(p) \in Ats \ {"connect"}
    BY DEF AfterSend, Ats
  <2>3. StackInv'
    BY <1>2, <2>1, <2>2, GoesOnStack DEF call_send
  <2> QED
    BY <1>2, <2>1, <2>3, ClientSteps DEF call_send, Client
<1>3. CASE call_send_fail(p)
  <2>1. stack[p] # <<>> /\ Conn(p) \in Conns
    BY <1>3, CallHasConn DEF call_send_fail
  <2>2. StackInv'
    BY <1>3, <2>1, GoesOnStack, ReturnsStack DEF call_send_fail, Ats
  <2> QED
    BY <1>3, <2>1, <2>2, ClientSteps DEF call_send_fail, Client
<1>4. CASE call_close(p) \/ call_timeout(p) \/ property_wait_timeout(p)
  <2>1. stack[p] # <<>> /\ Conn(p) \in Conns
    BY <1>4, CallHasConn DEF call_close, call_timeout, property_wait_timeout
  <2>2. StackInv'
    BY <1>4, <2>1, ReturnsStack DEF call_close, call_timeout, property_wait_timeout
  <2> QED
    BY <1>4, <2>1, <2>2, ClientSteps
       DEF call_close, call_timeout, TimeoutCloses, property_wait_timeout, Client
<1>5. CASE call_recv_status(p) \/ property_get_recv(p)
  <2>1. stack[p] # <<>> /\ Conn(p) \in Conns
    BY <1>5, CallHasConn DEF call_recv_status, property_get_recv, Receives
  <2>2. StackInv'
    BY <1>5, <2>1, ReturnsStack DEF call_recv_status, property_get_recv
  <2> QED
    BY <1>5, <2>1, <2>2, ClientSteps DEF call_recv_status, property_get_recv, Receives, Client
<1>6. CASE property_list_recv(p)
  <2>1. stack[p] # <<>> /\ Conn(p) \in Conns
    BY <1>6, CallHasConn DEF property_list_recv, Receives
  <2>2. StackInv'
    BY <1>6, <2>1, GoesOnStack, ReturnsStack DEF property_list_recv, Ats
  <2> QED
    BY <1>6, <2>1, <2>2, ClientSteps DEF property_list_recv, Receives, Client
<1>7. CASE property_monitor_open_recv(p)
  <2>1. stack[p] # <<>> /\ Conn(p) \in Conns
    BY <1>7, CallHasConn DEF property_monitor_open_recv, Receives
  <2>2. StackInv'
    BY <1>7, <2>1, GoesOnStack, ReturnsStack DEF property_monitor_open_recv, Ats
  <2> QED
    BY <1>7, <2>1, <2>2, ClientSteps DEF property_monitor_open_recv, Receives, Client
<1>8. CASE call_eof(p)
  <2>1. stack[p] # <<>> /\ Conn(p) \in Conns
    BY <1>8, CallHasConn DEF call_eof
  <2>2. StackInv'
    BY <1>8, <2>1, ReturnsStack DEF call_eof
  <2> QED
    BY <1>8, <2>1, <2>2, ClientSteps DEF call_eof, Client
<1>9. CASE callback_return(p)
  <2>1. stack[p] # <<>> /\ Conn(p) \in Conns
    BY <1>9, CallHasConn DEF callback_return
  <2> QED
    BY <1>9, <2>1, GoesOnStack DEF callback_return, Ats
<1>10. CASE property_wait_read(p)
  <2>1. stack[p] # <<>> /\ Conn(p) \in Conns
    BY <1>10, CallHasConn DEF property_wait_read
  <2>2. StackInv'
    BY <1>10, <2>1, GoesOnStack DEF property_wait_read, Ats
  <2> QED
    BY <1>10, <2>1, <2>2, ClientSteps DEF property_wait_read, Client
<1> QED
  BY <1>1, <1>2, <1>3, <1>4, <1>5, <1>6, <1>7, <1>8, <1>9, <1>10 DEF Works

\* Every step of the system is a step of KvdbServer, or none.
LEMMA SystemSteps ==
    ASSUME StackInv, [SysNext]_sysVars
    PROVE  StackInv' /\ [Next]_vars
<1>1. CASE UNCHANGED sysVars
  BY <1>1 DEF sysVars, StackInv, FrameOK
<1>2. CASE DaemonStep \/ TimeStep
  BY <1>2 DEF DaemonStep, TimeStep, Next, StackInv, FrameOK
<1>3. CASE PowerStep
  <2>1. stack' = [p \in Procs |-> <<>>]
    BY <1>3 DEF PowerStep
  <2>2. StackInv'
    BY <2>1 DEF StackInv, FrameOK
  <2> QED
    BY <1>3, <2>2 DEF PowerStep, Next
<1>4. ASSUME NEW p \in Procs, ProcStep(p)
      PROVE  StackInv' /\ [Next]_vars
  <2>1. CASE Begin(p)
    BY <2>1, BeginStack DEF Begin
  <2>2. CASE Works(p)
    BY <2>2, WorksSteps
  <2>3. CASE monitor_read(p)
    <3>1. Conn(p) \in Conns
      BY <2>3, CallHasConn DEF monitor_read
    <3> QED
      BY <2>3, <3>1, ClientSteps DEF monitor_read, Client, StackInv, FrameOK
  <2>4. CASE monitor_close(p)
    <3>1. stack[p] # <<>> /\ Conn(p) \in Conns
      BY <2>4, CallHasConn DEF monitor_close
    <3>2. StackInv'
      BY <2>4, <3>1, ReturnsStack DEF monitor_close
    <3> QED
      BY <2>4, <3>1, <3>2, ClientSteps DEF monitor_close, Client
  <2>5. CASE call_connect_fail(p)
    BY <2>5, ReturnsStack DEF call_connect_fail, At
  <2> QED
    BY <1>4, <2>1, <2>2, <2>3, <2>4, <2>5 DEF ProcStep
<1> QED
  BY <1>1, <1>2, <1>3, <1>4 DEF SysNext

-----------------------------------------------------------------------------
\* The calls of client.c use their connections only as KvdbServer lets its
\* clients do: the composed system is one of its behaviours, so that all
\* that holds of kvdbd for any clients holds with these.
THEOREM SystemIsServer == SysSpec => ServerBehaviour
<1>1. SysInit => StackInv /\ Init
  BY DEF SysInit, StackInv, FrameOK
<1>2. StackInv /\ [SysNext]_sysVars => StackInv' /\ [Next]_vars
  BY SystemSteps
<1> QED
  BY <1>1, <1>2, PTL DEF SysSpec, ServerBehaviour, Spec

\* With the calls of client.c, for any number of processes and nested
\* calls, the persistent keys implement the abstract store.
THEOREM SystemImplementsStore == SysSpec => ImplementsStore
  BY SystemIsServer, DaemonImplementsStore, PTL DEF ServerBehaviour

-----------------------------------------------------------------------------
(* Requests and answers of any clients *)

\* The daemon has ended, or does what C says nothing about.
Stopped == pc \in {"down", "undefined"}

USE DEF Stopped

\* A connection the daemon has no end of any more carries no request.
DroppedInv == ~Stopped => \A c \in Conns : Dropped(c) => req[c] = NoReq

\* Neither does one its client has not sent anything on, nor an answer.
ConnectedInv == \A c \in Conns : cli[c] = "connected" => req[c] = NoReq /\ inbox[c] = <<>>

\* The request of a monitor has been read.
MonitorsInv ==
    \A s \in Slots : heap[s] # NoConn => req[heap[s]] = NoReq /\ cli[heap[s]] # "connected"

\* The daemon answers only a client that has sent its request.
ReplyInv == reply # NoMsg \/ lkeys # {} => pc = "reply" /\ cli[cur] # "connected"

RequestInv == DroppedInv /\ ConnectedInv /\ MonitorsInv /\ ReplyInv

ServerInv ==
    TypeInv /\ OwnersInv /\ BacklogInv /\ MessagesInv /\ NoteInv /\ RequestInv

\* A connection is not dropped while it is accepted.
LEMMA Drops ==
    ASSUME TypeInv, NEW c \in Conns, Dropped(c)', fds \subseteq fds',
           backlog' = backlog \/ \E l \in Listeners : kvdb_accept(l)
    PROVE  Dropped(c)
  <1>1. CASE backlog' = backlog
    BY <1>1 DEF Dropped
  <1>2. ASSUME NEW l \in Listeners, kvdb_accept(l) PROVE Dropped(c)
    <2>1. c \notin fds /\ c # backlog[l][1]
      BY <1>2, Accepted DEF kvdb_accept, Dropped
    <2>2. ListenerOf[c] \in Listeners
      BY SocketsAssumption
    <2>3. ASSUME NEW i \in 1..Len(backlog[ListenerOf[c]]) PROVE backlog[ListenerOf[c]][i] # c
      <3>1. CASE ListenerOf[c] = l
        <4>1. Len(backlog[l]) \in Nat \ {0} /\ Len(backlog'[l]) = Len(backlog[l]) - 1
              /\ \A j \in 1..(Len(backlog[l]) - 1) : backlog'[l][j] = backlog[l][j + 1]
          <5>1. backlog'[l] = Tail(backlog[l])
            BY <1>2, Accepted DEF TypeInv, TypeOK
          <5> QED
            BY <1>2, <5>1, Accepted
        <4>2. CASE i = 1
          BY <2>1, <3>1, <4>2
        <4>3. CASE i # 1
          <5>1. i - 1 \in 1..(Len(backlog[l]) - 1) /\ (i - 1) + 1 = i
            BY <3>1, <4>1, <4>3
          <5>2. backlog'[l][i - 1] # c
            BY <3>1, <4>1, <5>1 DEF Dropped
          <5> QED
            BY <3>1, <4>1, <5>1, <5>2
        <4> QED
          BY <4>2, <4>3
      <3>2. CASE ListenerOf[c] # l
        <4>1. backlog'[ListenerOf[c]] = backlog[ListenerOf[c]]
          BY <1>2, <2>2, <3>2 DEF kvdb_accept, TypeInv, TypeOK
        <4> QED
          BY <4>1 DEF Dropped
      <3> QED
        BY <3>1, <3>2
    <2> QED
      BY <2>1, <2>3 DEF Dropped
  <1> QED
    BY <1>1, <1>2

\* Steps of the daemon outside kvdb_client.
LEMMA LoopRequests ==
    ASSUME ServerInv, kvdb_bind \/ kvdb_init \/ kvdb_load \/ kvdb_loop
    PROVE  RequestInv'
  <1> USE DEF ServerInv, RequestInv
  <1>1. pc # "reply" /\ ~Stopped /\ reply = NoMsg /\ lkeys = {}
    BY DEF kvdb_bind, kvdb_init, kvdb_load, kvdb_load_open, kvdb_load_line, kvdb_load_close,
           kvdb_load_return, LoadDone, kvdb_loop, kvdb_loop_start, kvdb_loop_top, epoll_wait,
           epoll_timeout, kvdb_accept, kvdb_accept_fail, kvdb_monitor_close,
           kvdb_monitor_close_freed, ReplyInv
  <1>2. UNCHANGED <<reply, lkeys, cli, req, inbox>>
    BY DEF kvdb_bind, kvdb_init, kvdb_load, kvdb_load_open, kvdb_load_line, kvdb_load_close,
           kvdb_load_return, kvdb_loop, kvdb_loop_start, kvdb_loop_top, epoll_wait,
           epoll_timeout, kvdb_accept, kvdb_accept_fail, kvdb_monitor_close,
           kvdb_monitor_close_freed, workVars, cliVars
  <1>3. ConnectedInv' /\ ReplyInv'
    BY <1>1, <1>2 DEF ConnectedInv, ReplyInv
  <1>4. ASSUME NEW s \in Slots, kvdb_monitor_close(s) PROVE DroppedInv' /\ MonitorsInv'
    <2>1. heap[s] # NoConn /\ fds' = fds \ {heap[s]} /\ heap' = [heap EXCEPT ![s] = NoConn]
          /\ backlog' = backlog
      BY <1>4 DEF kvdb_monitor_close, FreeMonitor
    <2>2. ASSUME NEW c \in Conns, Dropped(c)' PROVE Dropped(c) \/ c = heap[s]
      BY <2>1, <2>2 DEF Dropped
    <2> QED
      BY <1>1, <1>2, <2>1, <2>2 DEF DroppedInv, MonitorsInv, TypeInv, TypeOK
  <1>6. ASSUME NEW s \in Slots, kvdb_monitor_close_freed(s) PROVE DroppedInv' /\ MonitorsInv'
    BY <1>2, <1>6 DEF kvdb_monitor_close_freed, DroppedInv, MonitorsInv
  <1>5. CASE \A s \in Slots : ~kvdb_monitor_close(s) /\ ~kvdb_monitor_close_freed(s)
    <2>1. /\ heap' = heap /\ fds \subseteq fds'
          /\ pc' = "down" \/ backlog' = backlog \/ \E l \in Listeners : kvdb_accept(l)
      <3>1. CASE kvdb_bind \/ kvdb_init \/ kvdb_load
        BY <3>1 DEF kvdb_bind, kvdb_init, kvdb_unbind, kvdb_load, kvdb_load_open,
                    kvdb_load_line, kvdb_load_close, kvdb_load_return
      <3>2. CASE kvdb_loop /\ \A l \in Listeners : ~kvdb_accept(l)
        BY <1>5, <3>2 DEF kvdb_loop, kvdb_loop_start, kvdb_loop_top, epoll_wait, epoll_timeout,
                          kvdb_accept_fail
      <3>3. CASE \E l \in Listeners : kvdb_accept(l)
        BY <3>3 DEF kvdb_accept
      <3> QED
        BY <3>1, <3>2, <3>3
    <2>3. ASSUME ~Stopped', NEW c \in Conns, Dropped(c)' PROVE Dropped(c)
      BY <2>1, <2>3, Drops
    <2> QED
      BY <1>1, <1>2, <1>3, <2>1, <2>3 DEF DroppedInv, MonitorsInv
  <1> QED
    BY <1>3, <1>4, <1>5, <1>6

\* Steps of kvdb_client.
LEMMA AnswerRequests ==
    ASSUME ServerInv, kvdb_client
    PROVE  RequestInv'
  <1> USE DEF ServerInv, RequestInv
  <1>1. cli' = cli /\ backlog' = backlog /\ ~Stopped' /\ pc \in {"recv", "reply"}
    BY DEF kvdb_client, kvdb_client_fail, kvdb_client_set, kvdb_client_delete, kvdb_client_get,
           kvdb_client_list, kvdb_client_commit, kvdb_client_reload, kvdb_client_monitor,
           kvdb_monitor_notify, kvdb_list_consume, kvdb_client_out, Modify, Handled, Serves
  <1>2. cur \in Conns /\ cur \in fds
    BY <1>1, SocketsAssumption DEF TypeInv, TypeOK, CurOK, OwnersInv
  <1>3. req' = req \/ req' = [req EXCEPT ![cur] = NoReq]
    BY DEF kvdb_client, kvdb_client_fail, kvdb_client_set, kvdb_client_delete, kvdb_client_get,
           kvdb_client_list, kvdb_client_commit, kvdb_client_reload, kvdb_client_monitor,
           kvdb_monitor_notify, kvdb_list_consume, kvdb_client_out, Modify, Handled, Serves
  <1>4. \A c \in Conns : req'[c] = req[c] \/ req'[c] = NoReq
    BY <1>2, <1>3 DEF TypeInv, TypeOK
  <1>5. req[cur] # NoReq => cli[cur] # "connected"
    BY <1>2 DEF ConnectedInv
  <1>6. ASSUME UNCHANGED <<heap, fds, inbox>>,
               (reply' = NoMsg /\ lkeys' = {}) \/ (pc' = "reply" /\ cur' = cur /\ cli[cur] # "connected")
        PROVE  RequestInv'
    <2>1. \A s \in Slots : heap[s] # NoConn => heap[s] \in Conns
      BY DEF TypeInv, TypeOK
    <2>2. \A c \in Conns : Dropped(c)' => Dropped(c)
      BY <1>1, <1>6 DEF Dropped
    <2>3. DroppedInv'
      BY <1>1, <1>4, <2>2 DEF DroppedInv
    <2>4. ConnectedInv' /\ MonitorsInv'
      BY <1>1, <1>4, <1>6, <2>1 DEF ConnectedInv, MonitorsInv
    <2> QED
      BY <1>1, <1>6, <2>3, <2>4 DEF ReplyInv
  <1>7. ASSUME pc = "recv" PROVE reply = NoMsg /\ lkeys = {}
    BY <1>7 DEF ReplyInv
  <1>8. CASE kvdb_client_fail
    BY <1>6, <1>7, <1>8 DEF kvdb_client_fail, Handled
  <1>9. CASE kvdb_client_set \/ kvdb_client_delete \/ kvdb_client_get \/ kvdb_client_list
             \/ kvdb_client_commit
    <2>1. pc' = "reply" /\ cur' = cur /\ req[cur] # NoReq /\ UNCHANGED <<heap, fds, inbox>>
      BY <1>9 DEF kvdb_client_set, kvdb_client_delete, kvdb_client_get, kvdb_client_list,
                  kvdb_client_commit, Modify, Handled, Serves
    <2> QED
      BY <1>5, <1>6, <2>1
  <1>10. CASE kvdb_client_reload
    BY <1>6, <1>7, <1>10 DEF kvdb_client_reload, Serves
  <1>11. ASSUME NEW c \in Conns, NEW m, TrySend(c, m), cli[c] # "connected"
         PROVE  ConnectedInv'
    <2>1. \A d \in Conns : d # c => inbox'[d] = inbox[d]
      BY <1>11 DEF TrySend, Sent, TypeInv, TypeOK
    <2> QED
      BY <1>1, <1>4, <1>11, <2>1 DEF ConnectedInv
  <1>12. CASE kvdb_client_monitor
    <2>1. /\ req[cur] # NoReq /\ UNCHANGED <<fds, reply, lkeys>> /\ reply = NoMsg /\ lkeys = {}
          /\ req' = [req EXCEPT ![cur] = NoReq]
      BY <1>7, <1>12 DEF kvdb_client_monitor, Serves
    <2>2. ConnectedInv'
      BY <1>2, <1>5, <1>11, <1>12, <2>1 DEF kvdb_client_monitor
    <2>3. \A s \in Slots : heap'[s] = heap[s] \/ heap'[s] = cur
      BY <1>12 DEF kvdb_client_monitor, kvdb_monitor_open, TypeInv, TypeOK
    <2>4. req'[cur] = NoReq
      BY <1>2, <2>1 DEF TypeInv, TypeOK
    <2>5. MonitorsInv'
      BY <1>1, <1>4, <1>5, <2>1, <2>3, <2>4 DEF MonitorsInv, TypeInv, TypeOK
    <2>6. DroppedInv'
      BY <1>1, <1>4, <2>1 DEF DroppedInv, Dropped
    <2> QED
      BY <2>1, <2>2, <2>5, <2>6 DEF ReplyInv
  <1>13. ASSUME NEW s \in Slots, kvdb_monitor_notify(s) PROVE RequestInv'
    <2>1. /\ heap[s] # NoConn /\ heap[s] \in Conns /\ req[heap[s]] = NoReq
          /\ cli[heap[s]] # "connected"
      BY <1>13 DEF kvdb_monitor_notify, NoteInv, MonitorsInv, TypeInv, TypeOK
    <2>2. pc' = pc /\ cur' = cur /\ reply' = reply /\ lkeys' = lkeys /\ req' = req
      BY <1>13 DEF kvdb_monitor_notify
    <2>3. ConnectedInv'
      <3>1. CASE inbox' = inbox
        BY <1>1, <2>2, <3>1 DEF ConnectedInv
      <3>2. CASE CanSend(heap[s]) /\ inbox' = Sent(heap[s], Pair("event", note[1], note[2]))
        BY <1>11, <2>1, <3>2 DEF TrySend
      <3> QED
        BY <1>13, <3>1, <3>2 DEF kvdb_monitor_notify
    <2>4. CASE UNCHANGED <<heap, fds>>
      BY <1>1, <2>2, <2>3, <2>4 DEF DroppedInv, Dropped, MonitorsInv, ReplyInv
    <2>5. CASE FreeMonitor(s)
      <3>1. fds' = fds \ {heap[s]} /\ heap' = [heap EXCEPT ![s] = NoConn]
        BY <2>5 DEF FreeMonitor
      <3>2. ASSUME NEW c \in Conns, Dropped(c)' PROVE Dropped(c) \/ c = heap[s]
        BY <1>1, <3>1, <3>2 DEF Dropped
      <3>3. DroppedInv'
        BY <1>1, <2>1, <2>2, <3>2 DEF DroppedInv
      <3>4. MonitorsInv'
        BY <1>1, <2>2, <3>1 DEF MonitorsInv, TypeInv, TypeOK
      <3> QED
        BY <1>1, <2>2, <2>3, <3>3, <3>4 DEF ReplyInv
    <2> QED
      BY <1>13, <2>4, <2>5 DEF kvdb_monitor_notify
  <1>14. ASSUME NEW k \in Keys, kvdb_list_consume(k) PROVE RequestInv'
    <2>1. /\ lkeys # {} /\ cli[cur] # "connected" /\ pc = "reply"
          /\ UNCHANGED <<heap, fds, pc, cur, reply, req>>
      BY <1>14 DEF kvdb_list_consume, ReplyInv
    <2>2. ConnectedInv'
      BY <1>2, <1>11, <1>14, <2>1 DEF kvdb_list_consume
    <2> QED
      BY <1>1, <2>1, <2>2 DEF DroppedInv, Dropped, MonitorsInv, ReplyInv
  <1>15. CASE kvdb_client_out
    <2>1. /\ fds' = fds \ {cur} /\ heap' = heap /\ reply' = NoMsg /\ lkeys' = {}
          /\ req' = [req EXCEPT ![cur] = NoReq]
      BY <1>15 DEF kvdb_client_out
    <2>2. ConnectedInv'
      <3>1. CASE inbox' = inbox
        BY <1>1, <1>4, <3>1 DEF ConnectedInv
      <3>2. CASE reply # NoMsg /\ TrySend(cur, reply)
        BY <1>2, <1>11, <3>2 DEF ReplyInv
      <3> QED
        BY <1>15, <3>1, <3>2 DEF kvdb_client_out
    <2>3. \A c \in Conns : Dropped(c)' => Dropped(c) \/ c = cur
      BY <1>1, <2>1 DEF Dropped
    <2>4. DroppedInv'
      BY <1>1, <1>4, <2>1, <2>3 DEF DroppedInv, TypeInv, TypeOK
    <2>5. MonitorsInv'
      BY <1>1, <1>4, <2>1 DEF MonitorsInv, TypeInv, TypeOK
    <2> QED
      BY <2>1, <2>2, <2>4, <2>5 DEF ReplyInv
  <1> QED
    BY <1>8, <1>9, <1>10, <1>12, <1>13, <1>14, <1>15 DEF kvdb_client

\* Steps of a client.
LEMMA ClientRequests ==
    ASSUME ServerInv, NEW c \in Conns, Client(c)
    PROVE  RequestInv'
  <1> USE DEF ServerInv, RequestInv
  <1>1. UNCHANGED <<pc, cur, reply, lkeys, heap, fds>>
    BY DEF Client, property_connect, property_send, property_recv, property_monitor_read,
           property_eof, property_close
  <1>2. cur # NoConn => cur \in Conns /\ cur \in fds
    BY DEF TypeInv, TypeOK, OwnersInv
  <1>3. /\ \A s \in Slots : heap[s] # NoConn => heap[s] \in Conns
        /\ pc # "undefined" => \A s \in Slots : heap[s] # NoConn => heap[s] \in fds
    BY DEF TypeInv, TypeOK, OwnersInv
  <1>4. reply # NoMsg \/ lkeys # {} => cur # NoConn
    BY DEF ReplyInv, TypeInv, CurOK
  <1>5. CASE property_connect(c)
    <2>1. /\ Dropped(c) /\ cli[c] = "closed" /\ cli' = [cli EXCEPT ![c] = "connected"]
          /\ backlog' = [backlog EXCEPT ![ListenerOf[c]] = Append(@, c)]
          /\ ~Stopped /\ UNCHANGED <<req, inbox>>
      BY <1>5 DEF property_connect
    <2>2. c \notin fds /\ req[c] = NoReq /\ inbox[c] = <<>>
      BY <2>1 DEF Dropped, DroppedInv, MessagesInv
    <2>3. ASSUME NEW d \in Conns, Dropped(d)' PROVE Dropped(d)
      <3>1. CASE d = c
        BY <2>1, <3>1
      <3>2. CASE ListenerOf[d] # ListenerOf[c]
        <4>1. backlog'[ListenerOf[d]] = backlog[ListenerOf[d]]
          BY <2>1, <3>2, SocketsAssumption DEF TypeInv, TypeOK
        <4> QED
          BY <1>1, <2>3, <4>1 DEF Dropped
      <3>3. CASE ListenerOf[d] = ListenerOf[c]
        <4> DEFINE b == backlog[ListenerOf[c]]
        <4>1. b \in Seq(Conns) /\ backlog'[ListenerOf[d]] = Append(b, c)
          BY <2>1, <3>3, SocketsAssumption DEF TypeInv, TypeOK
        <4>2. /\ Len(b) \in Nat /\ Len(Append(b, c)) = Len(b) + 1
              /\ \A i \in 1..Len(b) : i \in 1..Len(Append(b, c)) /\ Append(b, c)[i] = b[i]
          BY <4>1
        <4> QED
          BY <1>1, <2>3, <3>3, <4>1, <4>2 DEF Dropped
      <3> QED
        BY <3>2, <3>3
    <2>4. DroppedInv'
      BY <1>1, <2>1, <2>3 DEF DroppedInv
    <2>5. ConnectedInv'
      BY <2>1, <2>2 DEF ConnectedInv, TypeInv, TypeOK
    <2>6. MonitorsInv' /\ ReplyInv'
      BY <1>1, <1>2, <1>3, <1>4, <2>1, <2>2 DEF MonitorsInv, ReplyInv, TypeInv, TypeOK
    <2> QED
      BY <2>4, <2>5, <2>6
  <1>6. ASSUME NEW r \in Requests, property_send(c, r) PROVE RequestInv'
    <2>1. /\ cli[c] = "connected" /\ ~Dropped(c) /\ cli' = [cli EXCEPT ![c] = "sent"]
          /\ req' = [req EXCEPT ![c] = r] /\ UNCHANGED <<backlog, inbox>>
      BY <1>6 DEF property_send
    <2>2. \A d \in Conns : Dropped(d)' => Dropped(d) /\ d # c
      BY <1>1, <2>1 DEF Dropped
    <2>3. \A d \in Conns : d # c => req'[d] = req[d] /\ cli'[d] = cli[d]
      BY <2>1 DEF TypeInv, TypeOK
    <2>4. DroppedInv'
      BY <1>1, <2>2, <2>3 DEF DroppedInv
    <2>5. ConnectedInv'
      BY <2>1, <2>3 DEF ConnectedInv, TypeInv, TypeOK
    <2>6. cur = c => reply = NoMsg /\ lkeys = {}
      BY <2>1 DEF ReplyInv
    <2>7. \A s \in Slots : heap[s] # c
      BY <2>1, SocketsAssumption DEF MonitorsInv
    <2> QED
      BY <1>1, <1>2, <1>3, <1>4, <2>3, <2>4, <2>5, <2>6, <2>7 DEF MonitorsInv, ReplyInv
  <1>7. CASE property_recv(c) \/ property_monitor_read(c) \/ property_eof(c) \/ property_close(c)
    <2>1. UNCHANGED <<backlog, req>>
      BY <1>7 DEF property_recv, property_monitor_read, property_eof, property_close
    <2>2. cli'[c] # "connected" \/ (cli'[c] = cli[c] /\ inbox[c] # <<>>)
      BY <1>7 DEF property_recv, property_monitor_read, property_eof, property_close, Closed,
                  TypeInv, TypeOK
    <2>3. \A d \in Conns : d # c => cli'[d] = cli[d] /\ inbox'[d] = inbox[d]
      BY <1>7 DEF property_recv, property_monitor_read, property_eof, property_close, Closed,
                  TypeInv, TypeOK
    <2>4. cli'[c] # "connected"
      BY <2>2 DEF ConnectedInv
    <2>5. DroppedInv'
      BY <1>1, <2>1 DEF DroppedInv, Dropped
    <2> QED
      BY <1>1, <1>2, <1>3, <1>4, <2>1, <2>3, <2>4, <2>5 DEF ConnectedInv, MonitorsInv, ReplyInv
  <1> QED
    BY <1>5, <1>6, <1>7 DEF Client

LEMMA ServerInvStep == ASSUME ServerInv, [Next]_vars PROVE ServerInv'
  <1>1. (TypeInv /\ OwnersInv /\ BacklogInv /\ MessagesInv /\ NoteInv)'
    BY StepTypes, OwnersStep, BacklogStep, MessagesStep, NoteStep DEF ServerInv
  <1>2. CASE Tick \/ UNCHANGED vars
    <2>1. UNCHANGED <<pc, cur, reply, lkeys, heap, fds, backlog, cli, req, inbox>>
      BY <1>2 DEF Tick, vars
    <2>2. RequestInv'
      BY <2>1 DEF ServerInv, RequestInv, DroppedInv, Dropped, ConnectedInv, MonitorsInv, ReplyInv
    <2> QED
      BY <1>1, <2>2 DEF ServerInv
  <1>3. CASE PowerCycle
    <2>1. RequestInv'
      BY <1>3 DEF PowerCycle, RequestInv, DroppedInv, ConnectedInv, MonitorsInv, ReplyInv
    <2> QED
      BY <1>1, <2>1 DEF ServerInv
  <1> QED
    BY <1>1, <1>2, <1>3, LoopRequests, AnswerRequests, ClientRequests DEF Next, Daemon, ServerInv

LEMMA ServerInvInit == Init => ServerInv
  <1>1. Init => TypeInv /\ OwnersInv /\ BacklogInv
    BY InitTypes, SocketsInit
  <1>2. Init => MessagesInv /\ NoteInv /\ RequestInv
    BY DEF Init, MessagesInv, NoteInv, RequestInv, DroppedInv, ConnectedInv, MonitorsInv, ReplyInv
  <1> QED
    BY <1>1, <1>2 DEF ServerInv

-----------------------------------------------------------------------------
(* The calls and their connections *)

OpOf(f) == f.call.req.op

\* What the daemon may answer to each operation.
AnswerTags(op) ==
    CASE op \in {"S", "D", "C"} -> {"ok", "err"}
      [] op = "G" -> {"value"}
      [] op = "L" -> {"entry", "end"}
      [] op = "M" -> {"open", "err", "event"}
      [] op = "R" -> {}

\* Where a call is agrees with its client end, and with what it asks for.
FrameInv(f) ==
    /\ f.at = "connect" => f.conn = NoConn
    /\ f.at = "send" => cli[f.conn] = "connected"
    /\ f.at \in {"recv", "callback"} => cli[f.conn] = "sent"
    /\ f.at \in {"poll", "monitoring"} => cli[f.conn] = "monitoring" /\ OpOf(f) = "M"
    /\ f.at = "close" =>
          cli[f.conn] \in {"sent", "monitoring"} /\ (f.call.how # "plain" \/ OpOf(f) = "R")
    /\ f.at = "callback" => OpOf(f) = "L"
    /\ f.at = "poll" => f.call.how # "plain"

\* m answers the call f of process p: success is true, and a value is one the
\* key has had.
Answers(p, f, m) ==
    /\ m.tag \in AnswerTags(OpOf(f))
    /\ m.tag = "ok" => did[f.conn] = "ok"
    /\ OpOf(f) = "G" => m.val \in had[p]

\* The daemon has the request of the call and nobody else's on its connection,
\* and all it sends there are answers to it.
Answered(p, f) ==
    f.conn # NoConn =>
        /\ req[f.conn] \in {NoReq, f.call.req}
        /\ \A j \in 1..Len(inbox[f.conn]) : Answers(p, f, inbox[f.conn][j])
        /\ f.conn = cur /\ reply # NoMsg => Answers(p, f, reply)
        /\ f.conn = cur /\ lkeys # {} => OpOf(f) = "L"
        /\ \A s \in Slots : heap[s] = f.conn => OpOf(f) = "M"

FramesInv ==
    \A p \in Procs : \A i \in 1..Len(stack[p]) :
        FrameInv(stack[p][i]) /\ Answered(p, stack[p][i])

\* Only a list or a monitor has a call inside it.
DepthInv ==
    \A p \in Procs :
        Len(stack[p]) <= 2 /\ (Len(stack[p]) = 2 => OpOf(stack[p][1]) \in {"L", "M"})

DistinctInv ==
    \A p, q \in Procs : \A i \in 1..Len(stack[p]), j \in 1..Len(stack[q]) :
        stack[p][i].conn = stack[q][j].conn /\ stack[p][i].conn # NoConn => p = q /\ i = j

CoverInv ==
    \A c \in Conns : cli[c] # "closed" =>
        \E p \in Procs : \E i \in 1..Len(stack[p]) : stack[p][i].conn = c

\* The history of a get has the present value of its key.
HadInv ==
    /\ did \in [Conns -> {"nothing", "ok", "err"}] /\ had = [p \in Procs |-> had[p]]
    /\ \A p \in Procs : Gets(p) => cache[Top(p).call.req.key] \in had[p]

CallInv == FramesInv /\ DepthInv /\ DistinctInv /\ CoverInv /\ HadInv

CallsInv == ServerInv /\ StackInv /\ CallInv

\* A step that concerns connection c only.
Touches(c) ==
    /\ \A d \in Conns : d # c => cli'[d] = cli[d] /\ req'[d] = req[d] /\ inbox'[d] = inbox[d]
    /\ UNCHANGED <<cache, heap, cur, reply, lkeys>>

Remembers ==
    /\ did' \in [Conns -> {"nothing", "ok", "err"}] /\ had' = [p \in Procs |-> had'[p]]
    /\ \A d \in Conns : cli'[d] # "closed" => did'[d] = did[d]
    /\ \A q \in Procs : Gets(q)' => had'[q] = had[q]

\* The calls of other connections do not notice.
LEMMA OtherFrame ==
    ASSUME NEW c, Touches(c), Remembers, NEW q, NEW f, FrameOK(f), FrameInv(f),
           Answered(q, f), f.conn # c, OpOf(f) = "G" => had'[q] = had[q]
    PROVE  FrameInv(f)' /\ Answered(q, f)'
  <1>1. CASE f.conn = NoConn
    <2>1. f.at = "connect"
      BY <1>1, SocketsAssumption DEF FrameOK
    <2> QED
      BY <1>1, <2>1 DEF FrameInv, Answered
  <1>2. CASE f.conn # NoConn
    <2>1. f.conn \in Conns /\ f.at \in Ats
      BY <1>2 DEF FrameOK, Frames
    <2>2. cli'[f.conn] = cli[f.conn] /\ req'[f.conn] = req[f.conn] /\ inbox'[f.conn] = inbox[f.conn]
      BY <2>1 DEF Touches
    <2>3. FrameInv(f)'
      BY <2>2 DEF FrameInv
    <2>4. cli'[f.conn] # "closed"
      BY <1>2, <2>1, <2>2 DEF FrameInv, Ats
    <2>5. did'[f.conn] = did[f.conn]
      BY <2>1, <2>4 DEF Remembers
    <2>6. \A m : Answers(q, f, m) => Answers(q, f, m)'
      BY <2>5 DEF Answers
    <2>7. UNCHANGED <<heap, cur, reply, lkeys>>
      BY DEF Touches
    <2> QED
      BY <2>2, <2>3, <2>6, <2>7 DEF Answered
  <1> QED
    BY <1>1, <1>2

LEMMA TwoPlaces == \A n \in Nat : \A i \in 1..n : n <= 2 /\ i # n => n = 2 /\ i = 1
  OBVIOUS

LEMMA OnePlace ==
    \A n \in Nat : n <= 1 => (n = 0 \/ n = 1) /\ (\A i \in 1..n : n = 1 /\ i = 1)
  OBVIOUS

\* A get is the innermost call of its process.
LEMMA GetIsTop ==
    ASSUME StackInv, DepthInv, NEW p \in Procs, NEW i \in 1..Len(stack[p]),
           OpOf(stack[p][i]) = "G"
    PROVE  i = Len(stack[p]) /\ Gets(p)
  <1>1. stack[p] \in Seq(Frames) /\ Len(stack[p]) \in Nat
    BY DEF StackInv
  <1>2. Len(stack[p]) <= 2 /\ (Len(stack[p]) = 2 => OpOf(stack[p][1]) \in {"L", "M"})
    BY DEF DepthInv
  <1>3. i = Len(stack[p])
    <2>1. SUFFICES ASSUME i # Len(stack[p]) PROVE FALSE
      OBVIOUS
    <2>2. PICK n \in Nat : n = Len(stack[p]) /\ n <= 2 /\ i \in 1..n /\ i # n
      BY <1>1, <1>2, <2>1
    <2>3. n = 2 /\ i = 1
      BY <2>2, TwoPlaces
    <2> QED
      BY <1>2, <2>2, <2>3
  <1>4. stack[p] # <<>>
    BY <1>1
  <1> QED
    BY <1>3, <1>4 DEF Gets, Op, Top, OpOf

\* A call goes on at a, with connection c.
Moved(f, c, a) == [f EXCEPT !.conn = c, !.at = a]

LEMMA MovedFields ==
    ASSUME NEW f \in Frames, NEW c, NEW a
    PROVE  /\ Moved(f, c, a).call = f.call /\ Moved(f, c, a).conn = c /\ Moved(f, c, a).at = a
           /\ OpOf(Moved(f, c, a)) = OpOf(f)
  BY DEF Moved, Frames, OpOf

\* What a call that goes on, or returns, does to the stacks.
LEMMA GoesOnShape ==
    ASSUME StackInv, NEW p \in Procs, stack[p] # <<>>, NEW c, NEW a, GoesOn(p, c, a)
    PROVE  /\ Len(stack'[p]) = Len(stack[p])
           /\ stack'[p][Len(stack[p])] = Moved(Top(p), c, a)
           /\ \A i \in 1..(Len(stack[p]) - 1) : stack'[p][i] = stack[p][i]
           /\ \A q \in Procs : q # p => stack'[q] = stack[q]
           /\ Len(stack[p]) \in Nat \ {0}
  <1> DEFINE n == Len(stack[p])
             f == Moved(Top(p), c, a)
             t == [stack[p] EXCEPT ![n] = f]
  <1>1. n \in 1..n /\ n \in Nat \ {0} /\ DOMAIN stack[p] = 1..n
    BY TopFrame DEF StackInv
  <1>2. stack' = [stack EXCEPT ![p] = t]
    BY DEF GoesOn, WithTop, Moved
  <1>3. stack'[p] = t /\ \A q \in Procs : q # p => stack'[q] = stack[q]
    BY <1>2 DEF StackInv
  <1>4. DOMAIN t = 1..n /\ t[n] = f /\ \A i \in 1..(n - 1) : t[i] = stack[p][i]
    BY <1>1
  <1>5. Len(t) = n
    BY <1>1, <1>4
  <1> QED
    BY <1>1, <1>3, <1>4, <1>5

LEMMA ReturnsShape ==
    ASSUME StackInv, NEW p \in Procs, stack[p] # <<>>, NEW r, NEW v, Returns(p, r, v)
    PROVE  /\ Len(stack'[p]) = Len(stack[p]) - 1
           /\ \A i \in 1..(Len(stack[p]) - 1) : stack'[p][i] = stack[p][i]
           /\ \A q \in Procs : q # p => stack'[q] = stack[q]
           /\ Len(stack[p]) \in Nat \ {0}
  <1>1. stack[p] \in Seq(Frames) /\ Len(stack[p]) \in Nat \ {0}
    BY TopFrame DEF StackInv
  <1>2. stack'[p] = SubSeq(stack[p], 1, Len(stack[p]) - 1)
    BY DEF Returns, StackInv
  <1>3. \A q \in Procs : q # p => stack'[q] = stack[q]
    BY DEF Returns, StackInv
  <1> QED
    BY <1>1, <1>2, <1>3

\* A call goes on: with its connection c, with a fresh one, or with none.
LEMMA CallGoesOn ==
    ASSUME CallsInv, NEW p \in Procs, stack[p] # <<>>, NEW c \in Conns, NEW x \in {c, NoConn}, NEW a,
           GoesOn(p, x, a), Touches(c), Remembers,
           Conn(p) = c \/ (Conn(p) = NoConn /\ cli[c] = "closed"),
           cli'[c] # "closed" <=> x = c,
           NEW g, g = Moved(Top(p), x, a), FrameInv(g)', Answered(p, g)'
    PROVE  CallInv'
  <1> USE DEF CallsInv, CallInv
  <1> DEFINE n == Len(stack[p])
  <1>1. /\ Len(stack'[p]) = n /\ stack'[p][n] = g /\ n \in Nat \ {0}
        /\ \A i \in 1..(n - 1) : stack'[p][i] = stack[p][i]
        /\ \A q \in Procs : q # p => stack'[q] = stack[q]
    BY GoesOnShape
  <1>2. c # NoConn /\ n \in 1..n /\ FrameOK(Top(p)) /\ stack[p][n] = Top(p)
    BY SocketsAssumption, TopFrame DEF Top
  <1>3. OpOf(g) = OpOf(Top(p)) /\ g.call = Top(p).call /\ g.conn = x
    BY <1>2, MovedFields DEF FrameOK
  <1>4. \A q \in Procs : Len(stack'[q]) = Len(stack[q]) /\ Len(stack[q]) \in Nat
    BY <1>1 DEF StackInv
  <1> HIDE DEF n
  <1>5. \A q \in Procs : \A i \in 1..Len(stack[q]) :
            (q = p /\ i = n) \/ stack'[q][i] = stack[q][i]
    BY <1>1, <1>4 DEF n
  <1>6. ASSUME NEW q \in Procs, NEW i \in 1..Len(stack[q]), q # p \/ i # n
        PROVE  stack[q][i].conn # c
    <2>1. CASE Conn(p) = c
      BY <1>2, <1>6, <2>1 DEF DistinctInv, Conn, n
    <2>2. CASE cli[c] = "closed"
      <3>1. FrameOK(stack[q][i]) /\ FrameInv(stack[q][i])
        BY <1>6 DEF StackInv, FramesInv
      <3>2. stack[q][i].at \in Ats
        BY <3>1 DEF FrameOK, Frames
      <3> QED
        BY <1>2, <2>2, <3>1, <3>2 DEF FrameInv, Ats
    <2> QED
      BY <2>1, <2>2
  <1>7. \A q \in Procs : Gets(q)' <=> Gets(q)
    <2>1. ASSUME NEW q \in Procs, q # p PROVE Gets(q)' <=> Gets(q)
      BY <1>1, <2>1 DEF Gets, Op, Top
    <2>2. stack[p] # <<>> /\ stack'[p] # <<>>
      BY <1>1 DEF n
    <2>3. Gets(p)' <=> Gets(p)
      BY <1>1, <1>3, <2>2 DEF Gets, Op, Top, OpOf, n
    <2> QED
      BY <2>1, <2>3
  <1>8. FramesInv'
    <2>1. ASSUME NEW q \in Procs, NEW i \in 1..Len(stack'[q])
          PROVE  FrameInv(stack[q][i])' /\ Answered(q, stack[q][i])'
      <3>1. CASE q = p /\ i = n
        <4>1. stack'[q][i] = g
          BY <1>1, <3>1
        <4>2. FrameInv(g)' /\ Answered(q, g)'
          BY <3>1
        <4> QED
          BY <4>1, <4>2 DEF FrameInv, Answered, Answers, OpOf
      <3>2. CASE q # p \/ i # n
        <4>1. PICK f : f = stack[q][i]
          OBVIOUS
        <4>2. i \in 1..Len(stack[q]) /\ stack'[q][i] = f
          BY <1>4, <1>5, <2>1, <3>2, <4>1
        <4>3. FrameOK(f) /\ FrameInv(f) /\ Answered(q, f) /\ f.conn # c
          BY <1>6, <3>2, <4>1, <4>2 DEF StackInv, FramesInv
        <4>4. ASSUME OpOf(f) = "G" PROVE had'[q] = had[q]
          <5>1. Gets(q)
            BY <4>1, <4>2, <4>4, GetIsTop
          <5> QED
            BY <1>7, <5>1 DEF Remembers
        <4>5. FrameInv(f)' /\ Answered(q, f)'
          BY <4>3, <4>4, OtherFrame
        <4> QED
          BY <4>2, <4>5 DEF FrameInv, Answered, Answers, OpOf
      <3> QED
        BY <3>1, <3>2
    <2> QED
      BY <2>1 DEF FramesInv
  <1>9. DepthInv'
    <2>1. ASSUME NEW q \in Procs, Len(stack[q]) = 2 PROVE OpOf(stack'[q][1]) \in {"L", "M"}
      <3>1. OpOf(stack[q][1]) \in {"L", "M"} /\ 1 \in 1..Len(stack[q])
        BY <2>1 DEF DepthInv
      <3>2. q = p => 1 # n
        BY <2>1 DEF n
      <3> QED
        BY <1>5, <3>1, <3>2
    <2> QED
      BY <1>4, <2>1 DEF DepthInv, OpOf
  <1>10. DistinctInv'
    <2>1. ASSUME NEW q \in Procs, NEW r \in Procs, NEW i \in 1..Len(stack[q]),
                 NEW j \in 1..Len(stack[r]), stack'[q][i].conn = stack'[r][j].conn,
                 stack'[q][i].conn # NoConn
          PROVE  q = r /\ i = j
      <3>0. stack'[p][n].conn = x
        BY <1>1, <1>3
      <3>1. CASE (q = p /\ i = n) /\ ~(r = p /\ j = n)
        <4>1. stack'[r][j] = stack[r][j] /\ stack[r][j].conn # c
          BY <1>5, <1>6, <3>1
        <4> QED
          BY <2>1, <3>0, <3>1, <4>1
      <3>2. CASE ~(q = p /\ i = n) /\ (r = p /\ j = n)
        <4>1. stack'[q][i] = stack[q][i] /\ stack[q][i].conn # c
          BY <1>5, <1>6, <3>2
        <4> QED
          BY <2>1, <3>0, <3>2, <4>1
      <3>3. CASE ~(q = p /\ i = n) /\ ~(r = p /\ j = n)
        <4>1. stack'[q][i] = stack[q][i] /\ stack'[r][j] = stack[r][j]
          BY <1>5, <3>3
        <4>2. stack[q][i].conn = stack[r][j].conn /\ stack[q][i].conn # NoConn
          BY <2>1, <4>1
        <4> QED
          BY <4>2 DEF DistinctInv
      <3> QED
        BY <3>1, <3>2, <3>3
    <2> QED
      BY <1>4, <2>1 DEF DistinctInv
  <1>11. CoverInv'
    <2>1. ASSUME NEW d \in Conns, cli'[d] # "closed"
          PROVE  \E q \in Procs : \E i \in 1..Len(stack'[q]) : stack'[q][i].conn = d
      <3>1. CASE d = c
        <4>1. stack'[p][n].conn = d
          BY <1>1, <1>3, <2>1, <3>1
        <4>2. n \in 1..Len(stack'[p])
          BY <1>1, <1>2
        <4> QED
          BY <4>1, <4>2
      <3>2. CASE d # c
        <4>1. cli[d] # "closed"
          BY <2>1, <3>2 DEF Touches
        <4>2. PICK q \in Procs : \E i \in 1..Len(stack[q]) : stack[q][i].conn = d
          BY <4>1 DEF CoverInv
        <4>3. PICK i \in 1..Len(stack[q]) : stack[q][i].conn = d
          BY <4>2
        <4>4. ~(q = p /\ i = n)
          <5>1. Conn(p) # d
            BY <3>2, SocketsAssumption
          <5> QED
            BY <1>2, <4>3, <5>1 DEF Conn
        <4> QED
          BY <1>4, <1>5, <4>3, <4>4
      <3> QED
        BY <3>1, <3>2
    <2> QED
      BY <2>1 DEF CoverInv
  <1>12. HadInv'
    <2>1. ASSUME NEW q \in Procs, Gets(q)' PROVE cache'[Top(q)'.call.req.key] \in had'[q]
      <3>1. Gets(q) /\ had'[q] = had[q] /\ cache' = cache
        BY <1>7, <2>1 DEF Remembers, Touches
      <3>2. Top(q)'.call = Top(q).call
        <4>1. CASE q = p
          BY <1>1, <1>3, <4>1 DEF Top, n
        <4>2. CASE q # p
          BY <1>1, <4>2 DEF Top
        <4> QED
          BY <4>1, <4>2
      <3> QED
        BY <3>1, <3>2 DEF HadInv
    <2> QED
      BY <2>1 DEF HadInv, Remembers, Top
  <1> QED
    BY <1>8, <1>9, <1>10, <1>11, <1>12

\* A call returns, and its connection is closed if it has one.
LEMMA CallReturns ==
    ASSUME CallsInv, NEW p \in Procs, stack[p] # <<>>, NEW r, NEW v, Returns(p, r, v),
           NEW c, c = Conn(p), Touches(c), Remembers, c # NoConn => cli'[c] = "closed"
    PROVE  CallInv'
  <1> USE DEF CallsInv, CallInv
  <1> DEFINE n == Len(stack[p])
  <1>1. /\ Len(stack'[p]) = n - 1 /\ n \in Nat \ {0}
        /\ \A i \in 1..(n - 1) : stack'[p][i] = stack[p][i]
        /\ \A q \in Procs : q # p => stack'[q] = stack[q]
    BY ReturnsShape
  <1>2. n \in 1..n /\ FrameOK(Top(p)) /\ stack[p][n] = Top(p)
    BY TopFrame DEF Top
  <1>3. \A q \in Procs : Len(stack[q]) \in Nat /\ Len(stack'[q]) = IF q = p THEN n - 1 ELSE Len(stack[q])
    BY <1>1 DEF StackInv
  <1> HIDE DEF n
  <1>4. \A q \in Procs : \A i \in 1..Len(stack'[q]) :
            i \in 1..Len(stack[q]) /\ stack'[q][i] = stack[q][i] /\ (q # p \/ i # n)
    BY <1>1, <1>3 DEF n
  <1>5. ASSUME NEW q \in Procs, NEW i \in 1..Len(stack'[q])
        PROVE  stack[q][i].conn # c \/ c = NoConn
    BY <1>2, <1>4, <1>5 DEF DistinctInv, Conn, n
  <1>6. DepthInv'
    <2>1. \A q \in Procs : Len(stack[q]) <= 2
      BY DEF DepthInv
    <2>2. ASSUME NEW q \in Procs
          PROVE  Len(stack'[q]) <= 2 /\ (Len(stack'[q]) = 2 => OpOf(stack'[q][1]) \in {"L", "M"})
      <3>1. CASE q = p
        <4>1. n \in Nat /\ n <= 2 /\ Len(stack'[q]) = n - 1
          BY <1>1, <2>1, <3>1 DEF n
        <4> QED
          BY <4>1
      <3>2. CASE q # p
        BY <1>1, <3>2 DEF DepthInv
      <3> QED
        BY <3>1, <3>2
    <2> QED
      BY <2>2 DEF DepthInv, OpOf
  <1>7. ASSUME NEW q \in Procs, NEW i \in 1..Len(stack'[q]), OpOf(stack[q][i]) = "G"
        PROVE  q # p /\ Gets(q)'
    <2>1. i \in 1..Len(stack[q]) /\ (q # p \/ i # n)
      BY <1>4
    <2>2. i = Len(stack[q]) /\ Gets(q)
      BY <1>7, <2>1, GetIsTop
    <2>3. q # p
      BY <2>1, <2>2 DEF n
    <2> QED
      BY <1>1, <2>2, <2>3 DEF Gets, Op, Top
  <1>8. FramesInv'
    <2>1. ASSUME NEW q \in Procs, NEW i \in 1..Len(stack'[q])
          PROVE  FrameInv(stack[q][i])' /\ Answered(q, stack[q][i])'
      <3>1. PICK f : f = stack[q][i]
        OBVIOUS
      <3>2. stack'[q][i] = f /\ FrameOK(f) /\ FrameInv(f) /\ Answered(q, f)
        BY <1>4, <2>1, <3>1 DEF StackInv, FramesInv
      <3>3. OpOf(f) = "G" => had'[q] = had[q]
        BY <1>7, <2>1, <3>1 DEF Remembers
      <3>4. CASE f.conn # c
        <4>1. FrameInv(f)' /\ Answered(q, f)'
          BY <3>2, <3>3, <3>4, OtherFrame
        <4> QED
          BY <3>2, <4>1 DEF FrameInv, Answered, Answers, OpOf
      <3>5. CASE f.conn = NoConn
        <4>1. f.at = "connect"
          BY <3>2, <3>5, SocketsAssumption DEF FrameOK
        <4> QED
          BY <3>2, <3>5, <4>1 DEF FrameInv, Answered, OpOf
      <3> QED
        BY <1>5, <2>1, <3>1, <3>4, <3>5
    <2> QED
      BY <2>1 DEF FramesInv
  <1>9. DistinctInv'
    <2>1. ASSUME NEW q \in Procs, NEW w \in Procs, NEW i \in 1..Len(stack'[q]),
                 NEW j \in 1..Len(stack'[w]), stack'[q][i].conn = stack'[w][j].conn,
                 stack'[q][i].conn # NoConn
          PROVE  q = w /\ i = j
      <3>1. /\ i \in 1..Len(stack[q]) /\ stack'[q][i] = stack[q][i]
            /\ j \in 1..Len(stack[w]) /\ stack'[w][j] = stack[w][j]
        BY <1>4
      <3> QED
        BY <2>1, <3>1 DEF DistinctInv
    <2> QED
      BY <2>1 DEF DistinctInv
  <1>10. CoverInv'
    <2>1. ASSUME NEW d \in Conns, cli'[d] # "closed"
          PROVE  \E q \in Procs : \E i \in 1..Len(stack'[q]) : stack'[q][i].conn = d
      <3>1. d # c
        BY <2>1, SocketsAssumption
      <3>2. cli[d] # "closed"
        BY <2>1, <3>1 DEF Touches
      <3>3. PICK q \in Procs : \E i \in 1..Len(stack[q]) : stack[q][i].conn = d
        BY <3>2 DEF CoverInv
      <3>4. PICK i \in 1..Len(stack[q]) : stack[q][i].conn = d
        BY <3>3
      <3>5. ~(q = p /\ i = n)
        BY <1>2, <3>1, <3>4 DEF Conn
      <3>6. i \in 1..Len(stack'[q])
        BY <1>1, <1>3, <3>4, <3>5 DEF n
      <3> QED
        BY <1>4, <3>4, <3>6
    <2> QED
      BY <2>1 DEF CoverInv
  <1>11. HadInv'
    <2>1. ASSUME NEW q \in Procs, Gets(q)' PROVE cache'[Top(q)'.call.req.key] \in had'[q]
      <3>1. had'[q] = had[q] /\ cache' = cache
        BY <2>1 DEF Remembers, Touches
      <3>2. stack'[q] # <<>> /\ OpOf(stack'[q][Len(stack'[q])]) = "G"
        BY <2>1 DEF Gets, Op, Top, OpOf
      <3>3. Len(stack'[q]) \in 1..Len(stack'[q])
        <4>1. stack' \in [Procs -> Seq(Frames)]
          BY ReturnsStack DEF StackInv
        <4> QED
          BY <3>2, <4>1
      <3>4. q # p
        BY <1>4, <1>7, <3>2, <3>3
      <3>5. Gets(q) /\ Top(q)' = Top(q)
        BY <1>1, <2>1, <3>4 DEF Gets, Op, Top
      <3> QED
        BY <3>1, <3>5 DEF HadInv
    <2> QED
      BY <2>1 DEF HadInv, Remembers, Top
  <1> QED
    BY <1>6, <1>8, <1>9, <1>10, <1>11

\* The innermost call has the invariants of a frame.
LEMMA TopInv ==
    ASSUME CallsInv, NEW p \in Procs, stack[p] # <<>>
    PROVE  /\ FrameOK(Top(p)) /\ Top(p) \in Frames /\ FrameInv(Top(p)) /\ Answered(p, Top(p))
           /\ Conn(p) = Top(p).conn /\ Op(p) = OpOf(Top(p)) /\ How(p) = Top(p).call.how
  <1>1. Len(stack[p]) \in 1..Len(stack[p]) /\ FrameOK(Top(p))
    BY TopFrame DEF CallsInv
  <1>2. FrameInv(Top(p)) /\ Answered(p, Top(p))
    BY <1>1 DEF CallsInv, CallInv, FramesInv, Top
  <1> QED
    BY <1>1, <1>2 DEF FrameOK, Conn, Op, How, OpOf

\* What a call leaves alone, or forgets.
LEMMA HistoryRemembers == ASSUME CallsInv, History PROVE Remembers
  <1>1. \A d \in Conns : did'[d] = IF Unused(d)' THEN "nothing" ELSE did[d]
    BY DEF History, Remember
  <1>2. did' \in [Conns -> {"nothing", "ok", "err"}]
    BY DEF History, Remember, CallsInv, CallInv, HadInv
  <1>3. \A q \in Procs : Gets(q)' => had'[q] = had[q]
    BY DEF History
  <1>4. had' = [q \in Procs |-> had'[q]]
    BY DEF History
  <1> QED
    BY <1>1, <1>2, <1>3, <1>4 DEF Remembers, Unused

\* A call that goes on has the same answers before it, but for the one it took.
LEMMA StillAnswered ==
    ASSUME CallsInv, NEW p, NEW f, f.conn \in Conns, Answered(p, f), Touches(f.conn),
           did'[f.conn] = did[f.conn], OpOf(f) = "G" => had'[p] = had[p],
           \/ inbox'[f.conn] = inbox[f.conn]
           \/ inbox[f.conn] # <<>> /\ inbox'[f.conn] = Tail(inbox[f.conn]),
           req'[f.conn] = req[f.conn] \/ req'[f.conn] = f.call.req,
           NEW g, g.call = f.call, g.conn = f.conn
    PROVE  Answered(p, g)'
  <1> DEFINE box == inbox[f.conn]
  <1>1. f.conn # NoConn /\ box \in Seq(Messages)
    BY SocketsAssumption DEF CallsInv, ServerInv, TypeInv, TypeOK
  <1>2. \A m : Answers(p, f, m) => Answers(p, g, m)'
    BY DEF Answers, OpOf
  <1>3. ASSUME NEW j \in 1..Len(inbox'[f.conn]) PROVE Answers(p, f, inbox'[f.conn][j])
    <2>1. \A k \in 1..Len(box) : Answers(p, f, box[k])
      BY <1>1 DEF Answered
    <2>2. CASE inbox'[f.conn] = box
      BY <2>1, <2>2
    <2>3. CASE box # <<>> /\ inbox'[f.conn] = Tail(box)
      <3>1. j + 1 \in 1..Len(box) /\ inbox'[f.conn][j] = box[j + 1]
        BY <1>1, <1>3, <2>3, TailCases
      <3> QED
        BY <2>1, <3>1
    <2> QED
      BY <2>2, <2>3
  <1>4. UNCHANGED <<heap, cur, reply, lkeys>>
    BY DEF Touches
  <1> QED
    BY <1>1, <1>2, <1>3, <1>4 DEF Answered, OpOf

\* A step on one connection.
LEMMA TouchesOne ==
    ASSUME CallsInv, NEW c \in Conns,
           \/ property_close(c) \/ property_eof(c) \/ property_recv(c) \/ property_connect(c)
           \/ property_monitor_read(c) \/ \E r \in Requests : property_send(c, r)
    PROVE  Touches(c)
  BY DEF property_close, property_eof, property_recv, property_connect, property_monitor_read,
         property_send, Closed, Touches, CallsInv, ServerInv, TypeInv, TypeOK

LEMMA ClosesOne ==
    ASSUME CallsInv, NEW c \in Conns,
           \/ property_close(c) \/ property_eof(c)
           \/ property_recv(c) /\ Head(inbox[c]).tag \notin {"open", "entry"}
    PROVE  cli'[c] = "closed"
  BY DEF property_close, property_eof, property_recv, Closed, CallsInv, ServerInv, TypeInv, TypeOK

\* Every way out of a call closes its connection.
LEMMA CallEnds ==
    ASSUME CallsInv, NEW p \in Procs, stack[p] # <<>>, Conn(p) \in Conns,
           NEW r, NEW v, Returns(p, r, v), History,
           \/ property_close(Conn(p)) \/ property_eof(Conn(p))
           \/ property_recv(Conn(p)) /\ Received(p).tag \notin {"open", "entry"}
    PROVE  CallInv'
  <1>1. PICK c \in Conns : c = Conn(p)
    OBVIOUS
  <1>2. Touches(c) /\ cli'[c] = "closed" /\ Remembers
    BY <1>1, TouchesOne, ClosesOne, HistoryRemembers DEF Received
  <1> QED
    BY <1>1, <1>2, CallReturns

\* The answers to a call that is past its request.
LEMMA FirstAnswer ==
    ASSUME CallsInv, NEW p \in Procs, stack[p] # <<>>, Conn(p) \in Conns, inbox[Conn(p)] # <<>>
    PROVE  Answers(p, Top(p), Received(p))
  <1>1. Answered(p, Top(p)) /\ Conn(p) = Top(p).conn /\ Conn(p) # NoConn
    BY TopInv, SocketsAssumption
  <1>2. inbox[Conn(p)] \in Seq(Messages)
    BY DEF CallsInv, ServerInv, TypeInv, TypeOK
  <1>3. 1 \in 1..Len(inbox[Conn(p)]) /\ Received(p) = inbox[Conn(p)][1]
    BY <1>2 DEF Received
  <1> QED
    BY <1>1, <1>3 DEF Answered

\* The steps in which a call returns.
LEMMA ReturnSteps ==
    ASSUME CallsInv, NEW p \in Procs,
           \/ call_connect_fail(p) \/ call_close(p) \/ call_recv_status(p) \/ property_get_recv(p)
           \/ call_eof(p) \/ call_timeout(p) \/ property_wait_timeout(p) \/ monitor_close(p)
    PROVE  CallInv'
  <1>1. CASE call_connect_fail(p)
    <2>1. stack[p] # <<>> /\ Top(p).at = "connect" /\ Returns(p, "err", Absent) /\ History
          /\ UNCHANGED vars
      BY <1>1 DEF call_connect_fail, At
    <2>2. PICK c : c = Conn(p)
      OBVIOUS
    <2>3. c = NoConn
      BY <2>1, <2>2, TopInv DEF FrameInv
    <2>4. Touches(c) /\ Remembers
      BY <2>1, HistoryRemembers DEF Touches, vars
    <2> QED
      BY <2>1, <2>2, <2>3, <2>4, CallReturns
  <1>2. CASE call_close(p) \/ call_timeout(p) \/ property_wait_timeout(p) \/ monitor_close(p)
    <2>1. stack[p] # <<>> /\ Conn(p) \in Conns
      BY <1>2, CallHasConn
         DEF call_close, call_timeout, property_wait_timeout, monitor_close, CallsInv
    <2>2. property_close(Conn(p)) /\ History /\ \E r : Returns(p, r, Absent)
      BY <1>2 DEF call_close, call_timeout, TimeoutCloses, property_wait_timeout, monitor_close
    <2> QED
      BY <2>1, <2>2, CallEnds
  <1>3. CASE call_eof(p)
    <2>1. stack[p] # <<>> /\ Conn(p) \in Conns
      BY <1>3, CallHasConn DEF call_eof, CallsInv
    <2>2. property_eof(Conn(p)) /\ History /\ \E r : Returns(p, r, Absent)
      BY <1>3 DEF call_eof
    <2> QED
      BY <2>1, <2>2, CallEnds
  <1>4. CASE call_recv_status(p) \/ property_get_recv(p)
    <2>1. stack[p] # <<>> /\ Conn(p) \in Conns
      BY <1>4, CallHasConn DEF call_recv_status, property_get_recv, Receives, CallsInv
    <2>2. /\ property_recv(Conn(p)) /\ History /\ \E r, v : Returns(p, r, v)
          /\ Op(p) \in {"S", "D", "C", "G"}
      BY <1>4 DEF call_recv_status, property_get_recv, Receives
    <2>3. inbox[Conn(p)] # <<>> /\ Op(p) = OpOf(Top(p))
      BY <2>1, <2>2, TopInv DEF property_recv
    <2>4. Received(p).tag \in AnswerTags(Op(p))
      BY <2>1, <2>3, FirstAnswer DEF Answers
    <2>5. Received(p).tag \notin {"open", "entry"}
      BY <2>2, <2>4 DEF AnswerTags
    <2> QED
      BY <2>1, <2>2, <2>5, CallEnds
  <1> QED
    BY <1>1, <1>2, <1>3, <1>4

\* The connection a call gets is fresh.
LEMMA ConnectStep ==
    ASSUME CallsInv, NEW p \in Procs, call_connect(p)
    PROVE  CallInv'
  <1> USE DEF CallsInv, ServerInv
  <1>1. PICK c \in Conns : c = NewConn /\ Unused(c)
    BY DEF call_connect, NewConn
  <1>2. /\ stack[p] # <<>> /\ Top(p).at = "connect" /\ GoesOn(p, c, "send") /\ property_connect(c)
        /\ Remember([owner EXCEPT ![c] = p], did) /\ UNCHANGED had
    BY <1>1 DEF call_connect, At
  <1>3. /\ FrameOK(Top(p)) /\ Top(p) \in Frames /\ Conn(p) = Top(p).conn /\ Conn(p) = NoConn
    BY <1>2, TopInv DEF FrameInv
  <1>4. /\ cli[c] = "closed" /\ c \notin fds /\ ~Stopped /\ Dropped(c)
        /\ cli' = [cli EXCEPT ![c] = "connected"] /\ req' = req /\ inbox' = inbox
    BY <1>2 DEF property_connect, Dropped
  <1>5. cli'[c] = "connected" /\ c # NoConn
    BY <1>4, SocketsAssumption DEF TypeInv, TypeOK
  <1>6. Touches(c)
    BY <1>2, TouchesOne
  <1>7. Remembers
    <2>1. \A d \in Conns : did'[d] = IF Unused(d)' THEN "nothing" ELSE did[d]
      BY <1>2 DEF Remember
    <2>2. did' \in [Conns -> {"nothing", "ok", "err"}]
      BY <1>2 DEF Remember, CallInv, HadInv
    <2> QED
      BY <1>2, <2>1, <2>2 DEF Remembers, Unused, CallInv, HadInv
  <1>8. PICK g : g = Moved(Top(p), c, "send")
    OBVIOUS
  <1>9. g.conn = c /\ g.at = "send"
    BY <1>3, <1>8, MovedFields
  <1>10. FrameInv(g)'
    BY <1>5, <1>9 DEF FrameInv
  <1>11. Answered(p, g)'
    <2>1. req[c] = NoReq /\ inbox[c] = <<>> /\ c # cur /\ \A s \in Slots : heap[s] # c
      BY <1>4, <1>5 DEF RequestInv, DroppedInv, MessagesInv, OwnersInv
    <2>2. UNCHANGED <<cur, heap>>
      BY <1>6 DEF Touches
    <2> QED
      BY <1>4, <1>9, <2>1, <2>2 DEF Answered
  <1> QED
    BY <1>2, <1>3, <1>4, <1>5, <1>6, <1>7, <1>8, <1>10, <1>11, CallGoesOn

\* A call that goes on with its connection.
LEMMA ConnKept ==
    ASSUME CallsInv, NEW p \in Procs, stack[p] # <<>>, NEW c \in Conns, c = Conn(p), NEW a \in Ats,
           GoesOn(p, c, a), Touches(c), Remembers, cli'[c] # "closed",
           OpOf(Top(p)) = "G" => had'[p] = had[p],
           inbox'[c] = inbox[c] \/ (inbox[c] # <<>> /\ inbox'[c] = Tail(inbox[c])),
           req'[c] = req[c] \/ req'[c] = Top(p).call.req,
           a # "connect",
           a = "send" => cli'[c] = "connected",
           a \in {"recv", "callback"} => cli'[c] = "sent",
           a \in {"poll", "monitoring"} => cli'[c] = "monitoring" /\ Op(p) = "M",
           a = "close" => cli'[c] \in {"sent", "monitoring"} /\ (How(p) # "plain" \/ Op(p) = "R"),
           a = "callback" => Op(p) = "L",
           a = "poll" => How(p) # "plain"
    PROVE  CallInv'
  <1>1. /\ Top(p) \in Frames /\ Answered(p, Top(p)) /\ Top(p).conn = c /\ Op(p) = OpOf(Top(p))
        /\ How(p) = Top(p).call.how
    BY TopInv
  <1>2. PICK f : f = Top(p)
    OBVIOUS
  <1>3. PICK g : g = Moved(f, c, a)
    OBVIOUS
  <1>4. g.call = f.call /\ g.conn = c /\ g.at = a /\ OpOf(g) = OpOf(f)
    BY <1>1, <1>2, <1>3, MovedFields
  <1>5. FrameInv(g)'
    BY <1>1, <1>2, <1>4 DEF FrameInv, OpOf
  <1>6. did'[c] = did[c]
    BY DEF Remembers
  <1>7. Answered(p, g)'
    BY <1>1, <1>2, <1>4, <1>6, StillAnswered
  <1> QED
    BY <1>2, <1>3, <1>5, <1>7, CallGoesOn

LEMMA SendStep ==
    ASSUME CallsInv, NEW p \in Procs, call_send(p)
    PROVE  CallInv'
  <1> USE DEF CallsInv, ServerInv
  <1>1. stack[p] # <<>> /\ Conn(p) \in Conns /\ Top(p).call.req \in Requests
    BY CallHasConn DEF call_send
  <1>2. PICK c \in Conns : c = Conn(p)
    BY <1>1
  <1>3. /\ property_send(c, Top(p).call.req) /\ GoesOn(p, c, AfterSend(p))
        /\ UNCHANGED <<did, had>>
    BY <1>2 DEF call_send
  <1>4. Touches(c)
    BY <1>1, <1>3, TouchesOne
  <1>5. /\ cli'[c] = "sent" /\ req'[c] = Top(p).call.req /\ inbox' = inbox
    BY <1>3 DEF property_send, TypeInv, TypeOK
  <1>6. Remembers
    BY <1>3 DEF Remembers, CallInv, HadInv
  <1>7. AfterSend(p) \in {"close", "recv"} /\ AfterSend(p) \in Ats
        /\ (AfterSend(p) = "close" => How(p) # "plain" \/ Op(p) = "R")
    BY DEF AfterSend, Ats
  <1> QED
    BY <1>1, <1>2, <1>3, <1>4, <1>5, <1>6, <1>7, ConnKept

LEMMA SendFailStep ==
    ASSUME CallsInv, NEW p \in Procs, call_send_fail(p)
    PROVE  CallInv'
  <1>1. stack[p] # <<>> /\ Conn(p) \in Conns
    BY CallHasConn DEF call_send_fail, CallsInv
  <1>2. property_close(Conn(p)) /\ History
    BY DEF call_send_fail
  <1>3. CASE Returns(p, "err", Absent)
    BY <1>1, <1>2, <1>3, CallEnds
  <1>4. CASE GoesOn(p, NoConn, "connect")
    <2>1. PICK c \in Conns : c = Conn(p)
      BY <1>1
    <2>2. Touches(c) /\ cli'[c] = "closed" /\ Remembers /\ c # NoConn
      BY <1>2, <2>1, TouchesOne, ClosesOne, HistoryRemembers, SocketsAssumption
    <2>3. PICK g : g = Moved(Top(p), NoConn, "connect")
      OBVIOUS
    <2>4. g.conn = NoConn /\ g.at = "connect"
      BY <1>1, <2>3, TopInv, MovedFields
    <2>5. FrameInv(g)' /\ Answered(p, g)'
      BY <2>4 DEF FrameInv, Answered
    <2> QED
      BY <1>1, <1>4, <2>1, <2>2, <2>3, <2>5, CallGoesOn
  <1> QED
    BY <1>3, <1>4 DEF call_send_fail

\* The first message of a connection is read and the connection stays open.
LEMMA ReadsOne ==
    ASSUME CallsInv, NEW c \in Conns,
           \/ property_recv(c) /\ Head(inbox[c]).tag \in {"open", "entry"}
           \/ property_monitor_read(c)
    PROVE  /\ inbox[c] # <<>> /\ inbox'[c] = Tail(inbox[c]) /\ req' = req
           /\ cli'[c] = IF property_recv(c) /\ Head(inbox[c]).tag = "entry" THEN "sent"
                        ELSE "monitoring"
  <1> USE DEF CallsInv, ServerInv, TypeInv, TypeOK
  <1>1. CASE property_monitor_read(c)
    BY <1>1 DEF property_monitor_read, property_recv
  <1>2. CASE property_recv(c) /\ Head(inbox[c]).tag \in {"open", "entry"}
    <2>1. inbox[c] # <<>> /\ inbox' = [inbox EXCEPT ![c] = Tail(@)] /\ req' = req
          /\ cli' = [cli EXCEPT ![c] = IF Head(inbox[c]).tag = "open" THEN "monitoring" ELSE "sent"]
      BY <1>2 DEF property_recv
    <2> QED
      BY <1>2, <2>1
  <1> QED
    BY <1>1, <1>2

\* The steps in which a list, a monitor or a wait goes on.
LEMMA ReadSteps ==
    ASSUME CallsInv, NEW p \in Procs,
           \/ property_list_recv(p) \/ property_monitor_open_recv(p) \/ property_wait_read(p)
    PROVE  CallInv'
  <1>1. stack[p] # <<>> /\ Conn(p) \in Conns /\ History
    BY CallHasConn
       DEF property_list_recv, property_monitor_open_recv, property_wait_read, Receives, CallsInv
  <1>2. PICK c \in Conns : c = Conn(p)
    BY <1>1
  <1>3. Remembers /\ Op(p) = OpOf(Top(p)) /\ FrameInv(Top(p)) /\ How(p) = Top(p).call.how
    BY <1>1, TopInv, HistoryRemembers
  <1>4. CASE property_list_recv(p) \/ property_monitor_open_recv(p)
    <2>1. property_recv(c) /\ Op(p) \in {"L", "M"} /\ Received(p) = Head(inbox[c])
      BY <1>2, <1>4 DEF property_list_recv, property_monitor_open_recv, Receives, Received
    <2>2. Touches(c)
      BY <2>1, TouchesOne
    <2>3. CASE Received(p).tag \in {"end", "err"} /\ \E r, v : Returns(p, r, v)
      BY <1>1, <1>2, <2>1, <2>3, CallEnds
    <2>4. CASE property_list_recv(p) /\ Received(p).tag = "entry" /\ GoesOn(p, Conn(p), "callback")
      <3>1. Op(p) = "L"
        BY <2>4 DEF property_list_recv, Receives
      <3>2. inbox[c] # <<>> /\ inbox'[c] = Tail(inbox[c]) /\ req' = req /\ cli'[c] = "sent"
        BY <2>1, <2>4, ReadsOne
      <3> QED
        BY <1>1, <1>2, <1>3, <2>2, <2>4, <3>1, <3>2, ConnKept DEF Ats
    <2>5. CASE /\ property_monitor_open_recv(p) /\ Received(p).tag = "open"
               /\ GoesOn(p, Conn(p), IF How(p) = "wait" THEN "poll" ELSE "monitoring")
      <3>1. Op(p) = "M"
        BY <2>5 DEF property_monitor_open_recv, Receives
      <3>2. inbox[c] # <<>> /\ inbox'[c] = Tail(inbox[c]) /\ req' = req /\ cli'[c] = "monitoring"
        BY <2>1, <2>5, ReadsOne
      <3>3. PICK a : a = IF How(p) = "wait" THEN "poll" ELSE "monitoring"
        OBVIOUS
      <3>4. a \in {"poll", "monitoring"} /\ (a = "poll" => How(p) # "plain")
        BY <3>3
      <3> QED
        BY <1>1, <1>2, <1>3, <2>2, <2>5, <3>1, <3>2, <3>3, <3>4, ConnKept DEF Ats
    <2> QED
      BY <1>4, <2>3, <2>4, <2>5 DEF property_list_recv, property_monitor_open_recv
  <1>5. CASE property_wait_read(p)
    <2>1. property_monitor_read(c) /\ Top(p).at = "poll" /\ GoesOn(p, c, "close")
      BY <1>2, <1>5 DEF property_wait_read, At
    <2>2. Touches(c)
      BY <2>1, TouchesOne
    <2>3. How(p) # "plain" /\ Op(p) = "M"
      BY <1>3, <2>1 DEF FrameInv
    <2>4. inbox[c] # <<>> /\ inbox'[c] = Tail(inbox[c]) /\ req' = req
          /\ cli'[c] \in {"sent", "monitoring"}
      BY <2>1, ReadsOne
    <2> QED
      BY <1>1, <1>2, <1>3, <2>1, <2>2, <2>3, <2>4, ConnKept DEF Ats
  <1> QED
    BY <1>4, <1>5

LEMMA CallbackStep ==
    ASSUME CallsInv, NEW p \in Procs, callback_return(p)
    PROVE  CallInv'
  <1>1. stack[p] # <<>> /\ Conn(p) \in Conns
    BY CallHasConn DEF callback_return, CallsInv
  <1>2. PICK c \in Conns : c = Conn(p)
    BY <1>1
  <1>3. Top(p).at = "callback" /\ GoesOn(p, c, "recv") /\ UNCHANGED <<vars, did, had>>
    BY <1>2 DEF callback_return, At, histVars
  <1>4. Touches(c) /\ Remembers
    BY <1>3 DEF Touches, Remembers, vars, CallsInv, CallInv, HadInv
  <1>5. cli'[c] = "sent" /\ inbox' = inbox /\ req' = req
    BY <1>1, <1>2, <1>3, TopInv DEF FrameInv, vars
  <1> QED
    BY <1>1, <1>2, <1>3, <1>4, <1>5, ConnKept DEF Ats

\* An application reads its monitor.
LEMMA MonitorReadStep ==
    ASSUME CallsInv, NEW p \in Procs, monitor_read(p)
    PROVE  CallInv'
  <1> USE DEF CallsInv, CallInv
  <1>1. stack[p] # <<>> /\ Conn(p) \in Conns
    BY CallHasConn DEF monitor_read
  <1>2. PICK c \in Conns : c = Conn(p)
    BY <1>1
  <1>3. Top(p).at = "monitoring" /\ property_monitor_read(c) /\ UNCHANGED <<stack, did, had>>
    BY <1>2 DEF monitor_read, At, histVars
  <1>4. Touches(c) /\ Remembers
    BY <1>3, TouchesOne DEF Remembers, HadInv
  <1>5. cli' = cli /\ inbox[c] # <<>> /\ inbox'[c] = Tail(inbox[c]) /\ req' = req
    BY <1>3, ReadsOne DEF property_monitor_read
  <1>6. FramesInv'
    <2>1. ASSUME NEW q \in Procs, NEW i \in 1..Len(stack[q])
          PROVE  FrameInv(stack[q][i])' /\ Answered(q, stack[q][i])'
      <3>1. PICK f : f = stack[q][i]
        OBVIOUS
      <3>2. FrameOK(f) /\ FrameInv(f) /\ Answered(q, f) /\ stack'[q][i] = f
        BY <1>3, <3>1 DEF StackInv, FramesInv
      <3>3. FrameInv(f)' /\ Answered(q, f)'
        <4>1. CASE f.conn = c
          <5>1. FrameInv(f)'
            BY <1>5, <3>2 DEF FrameInv
          <5>2. Answered(q, f)'
            BY <1>3, <1>4, <1>5, <3>2, <4>1, StillAnswered
          <5> QED
            BY <5>1, <5>2
        <4>2. CASE f.conn # c
          BY <1>3, <1>4, <3>2, <4>2, OtherFrame
        <4> QED
          BY <4>1, <4>2
      <3> QED
        BY <3>2, <3>3 DEF FrameInv, Answered, Answers, OpOf
    <2> QED
      BY <1>3, <2>1 DEF FramesInv
  <1>7. DepthInv' /\ DistinctInv' /\ CoverInv'
    BY <1>3, <1>5 DEF DepthInv, DistinctInv, CoverInv, OpOf
  <1>8. HadInv'
    BY <1>3, <1>4 DEF HadInv, Touches, Gets, Op, Top
  <1> QED
    BY <1>6, <1>7, <1>8

\* A process makes a call.
LEMMA BeginStep ==
    ASSUME CallsInv, NEW p \in Procs, Begin(p)
    PROVE  CallInv'
  <1> USE DEF CallsInv, CallInv
  <1>1. PICK call \in (IF stack[p] = <<>> THEN Program[p] ELSE Nested) :
          /\ stack[p] = <<>> \/ (Len(stack[p]) = 1 /\ Top(p).at \in {"callback", "monitoring"})
          /\ stack' = [stack EXCEPT ![p] =
                          Append(Resumed(@), [call |-> call, conn |-> NoConn, at |-> "connect"])]
          /\ had' = [had EXCEPT ![p] = IF call.req.op = "G" THEN {cache[call.req.key]} ELSE {}]
          /\ UNCHANGED <<vars, did>>
    BY DEF Begin
  <1> DEFINE h == [call |-> call, conn |-> NoConn, at |-> "connect"]
             s == Resumed(stack[p])
             n == Len(stack[p])
  <1>2. /\ h.conn = NoConn /\ h.at = "connect" /\ h.call = call
        /\ cli' = cli /\ UNCHANGED <<cache, req, inbox, heap, cur, reply, lkeys>>
    BY <1>1 DEF vars
  <1>3. n \in Nat /\ n <= 1 /\ stack[p] \in Seq(Frames) /\ (n = 0 <=> stack[p] = <<>>)
    <2>1. stack[p] \in Seq(Frames)
      BY DEF StackInv
    <2>2. n \in Nat /\ (n = 0 <=> stack[p] = <<>>)
      BY <2>1
    <2>3. n = 0 \/ n = 1
      BY <1>1, <2>2
    <2>4. \A m \in Nat : m = 0 \/ m = 1 => m <= 1
      OBVIOUS
    <2>5. n <= 1
      BY <2>2, <2>3, <2>4
    <2> QED
      BY <2>1, <2>2, <2>5
  <1>4. /\ s \in Seq(Frames) /\ Len(s) = n
        /\ n = 1 => /\ s[1].call = stack[p][1].call /\ s[1].conn = stack[p][1].conn
                    /\ s[1].at \in {"recv", "monitoring"} /\ s[1].conn \in Conns
                    /\ s[1].at = "recv" => cli[s[1].conn] = "sent"
                    /\ s[1].at = "monitoring" => cli[s[1].conn] = "monitoring"
                    /\ OpOf(s[1]) \in {"L", "M"} /\ (s[1].at = "monitoring" => OpOf(s[1]) = "M")
    <2>1. CASE n = 0
      <3>1. stack[p] = <<>>
        BY <1>3, <2>1
      <3> QED
        BY <1>3, <2>1, <3>1 DEF Resumed
    <2>2. CASE n = 1
      <3>1. stack[p] # <<>> /\ Top(p) = stack[p][1] /\ Top(p).at \in {"callback", "monitoring"}
        BY <1>1, <1>3, <2>2 DEF Top
      <3>2. FrameOK(Top(p)) /\ Top(p) \in Frames /\ FrameInv(Top(p))
        BY <3>1, TopInv
      <3>3. CASE Top(p).at = "monitoring"
        <4>1. s = stack[p]
          BY <3>1, <3>3, <2>2 DEF Resumed
        <4> QED
          BY <1>3, <2>2, <3>1, <3>2, <3>3, <4>1 DEF FrameInv, FrameOK
      <3>4. CASE Top(p).at = "callback"
        <4>1. s = [stack[p] EXCEPT ![1] = [Top(p) EXCEPT !.at = "recv"]]
          BY <2>2, <3>1, <3>4 DEF Resumed, WithTop
        <4> DEFINE k == [Top(p) EXCEPT !.at = "recv"]
        <4>2. k \in Frames /\ k.call = Top(p).call /\ k.conn = Top(p).conn /\ k.at = "recv"
          BY <3>2 DEF Frames, Ats
        <4> HIDE DEF k, s
        <4>3. s = [stack[p] EXCEPT ![1] = k]
          BY <4>1 DEF k
        <4>4. s \in Seq(Frames) /\ Len(s) = 1 /\ s[1] = k
          BY <1>3, <2>2, <4>2, <4>3
        <4> QED
          BY <2>2, <3>1, <3>2, <3>4, <4>2, <4>4 DEF FrameInv, FrameOK, OpOf
      <3> QED
        BY <3>1, <3>3, <3>4
    <2>3. n = 0 \/ n = 1
      BY <1>3, OnePlace
    <2> QED
      BY <2>1, <2>2, <2>3
  <1> HIDE DEF h, s, n
  <1>5. stack'[p] = Append(s, h) /\ \A q \in Procs : q # p => stack'[q] = stack[q]
    BY <1>1 DEF StackInv, h, s
  <1>6. /\ Len(stack'[p]) = n + 1 /\ stack'[p][n + 1] = h
        /\ \A i \in 1..n : i = 1 /\ stack'[p][i] = s[1]
    BY <1>3, <1>4, <1>5
  <1>7. ASSUME NEW q \in Procs, q # p PROVE had'[q] = had[q]
    BY <1>1, <1>7 DEF HadInv
  <1>8. \A q \in Procs : \A i \in 1..Len(stack'[q]) :
            \/ q = p /\ i = n + 1 /\ stack'[q][i] = h
            \/ q = p /\ i = 1 /\ n = 1 /\ stack'[q][i] = s[1]
            \/ q # p /\ stack'[q][i] = stack[q][i] /\ i \in 1..Len(stack[q])
    BY <1>3, <1>5, <1>6
  <1>9. FramesInv'
    <2>1. ASSUME NEW q \in Procs, NEW i \in 1..Len(stack'[q])
          PROVE  FrameInv(stack[q][i])' /\ Answered(q, stack[q][i])'
      <3>1. CASE stack'[q][i] = h
        BY <1>2, <3>1 DEF FrameInv, Answered
      <3>2. CASE q = p /\ n = 1 /\ stack'[q][i] = s[1]
        <4>1. PICK f : f = stack[p][1]
          OBVIOUS
        <4>2. PICK g : g = s[1]
          OBVIOUS
        <4>3. Answered(p, f) /\ g.call = f.call /\ g.conn = f.conn /\ OpOf(g) \in {"L", "M"}
          BY <1>3, <1>4, <3>2, <4>1, <4>2 DEF FramesInv, n
        <4>4. FrameInv(g)'
          BY <1>2, <1>4, <3>2, <4>2 DEF FrameInv
        <4>5. \A m : Answers(p, f, m) => Answers(p, g, m)'
          BY <1>1, <4>3 DEF Answers, OpOf
        <4>6. Answered(p, g)'
          BY <1>2, <4>3, <4>5 DEF Answered, OpOf
        <4> QED
          BY <3>2, <4>2, <4>4, <4>6 DEF FrameInv, Answered, Answers, OpOf
      <3>3. CASE q # p /\ stack'[q][i] = stack[q][i] /\ i \in 1..Len(stack[q])
        <4>1. PICK f : f = stack[q][i]
          OBVIOUS
        <4>2. FrameInv(f) /\ Answered(q, f)
          BY <3>3, <4>1 DEF FramesInv
        <4>3. FrameInv(f)' /\ Answered(q, f)'
          BY <1>1, <1>2, <1>7, <3>3, <4>2 DEF FrameInv, Answered, Answers
        <4> QED
          BY <3>3, <4>1, <4>3 DEF FrameInv, Answered, Answers, OpOf
      <3> QED
        BY <1>8, <2>1, <3>1, <3>2, <3>3
    <2> QED
      BY <2>1 DEF FramesInv
  <1>10. DepthInv'
    <2>1. ASSUME NEW q \in Procs
          PROVE  Len(stack'[q]) <= 2 /\ (Len(stack'[q]) = 2 => OpOf(stack'[q][1]) \in {"L", "M"})
      <3>1. CASE q = p
        <4>1. n + 1 <= 2 /\ (n + 1 = 2 => n = 1 /\ 1 \in 1..n)
          BY <1>3
        <4> QED
          BY <1>4, <1>6, <3>1, <4>1
      <3>2. CASE q # p
        BY <1>5, <3>2 DEF DepthInv
      <3> QED
        BY <3>1, <3>2
    <2> QED
      BY <2>1 DEF DepthInv, OpOf
  <1>11. \A q \in Procs : \A i \in 1..Len(stack'[q]) :
            \/ stack'[q][i].conn = NoConn
            \/ i \in 1..Len(stack[q]) /\ stack'[q][i].conn = stack[q][i].conn
    <2>1. n = 1 => 1 \in 1..Len(stack[p])
      BY DEF n
    <2> QED
      BY <1>2, <1>4, <1>8, <2>1
  <1>12. DistinctInv'
    <2>1. ASSUME NEW q \in Procs, NEW w \in Procs, NEW i \in 1..Len(stack'[q]),
                 NEW j \in 1..Len(stack'[w]), stack'[q][i].conn = stack'[w][j].conn,
                 stack'[q][i].conn # NoConn
          PROVE  q = w /\ i = j
      BY <1>11, <2>1 DEF DistinctInv
    <2> QED
      BY <2>1 DEF DistinctInv
  <1>13. CoverInv'
    <2>1. ASSUME NEW d \in Conns, cli'[d] # "closed"
          PROVE  \E q \in Procs : \E i \in 1..Len(stack'[q]) : stack'[q][i].conn = d
      <3>1. PICK q \in Procs : \E i \in 1..Len(stack[q]) : stack[q][i].conn = d
        BY <1>2, <2>1 DEF CoverInv
      <3>2. PICK i \in 1..Len(stack[q]) : stack[q][i].conn = d
        BY <3>1
      <3>3. CASE q # p
        BY <1>5, <3>2, <3>3
      <3>4. CASE q = p
        <4>1. n = 1 /\ i = 1
          <5>1. i \in 1..n
            BY <3>4 DEF n
          <5> QED
            BY <1>3, <5>1, OnePlace
        <4>2. 1 \in 1..Len(stack'[p]) /\ 1 \in 1..n
          BY <1>6, <4>1
        <4>3. stack'[p][1].conn = d
          BY <1>4, <1>6, <3>2, <3>4, <4>1, <4>2
        <4> QED
          BY <4>2, <4>3
      <3> QED
        BY <3>3, <3>4
    <2> QED
      BY <2>1 DEF CoverInv
  <1>14. HadInv'
    <2>1. ASSUME NEW q \in Procs, Gets(q)' PROVE cache'[Top(q)'.call.req.key] \in had'[q]
      <3>1. CASE q = p
        <4>1. Top(p)' = h
          BY <1>6 DEF Top
        <4>2. call.req.op = "G"
          BY <1>2, <2>1, <3>1, <4>1 DEF Gets, Op
        <4>3. had'[p] = {cache[call.req.key]}
          BY <1>1, <4>2 DEF HadInv
        <4> QED
          BY <1>2, <3>1, <4>1, <4>3
      <3>2. CASE q # p
        BY <1>2, <1>5, <1>7, <2>1, <3>2 DEF HadInv, Gets, Op, Top
      <3> QED
        BY <3>1, <3>2
    <2>2. had' = [q \in Procs |-> had'[q]]
      BY <1>1 DEF HadInv
    <2> QED
      BY <1>1, <2>1, <2>2 DEF HadInv, Top
  <1> QED
    BY <1>9, <1>10, <1>12, <1>13, <1>14

-----------------------------------------------------------------------------
(* The daemon's answers *)

\* What is sent on a connection, or made ready for it, answers its call.
LEMMA FrameAnswered ==
    ASSUME TypeInv, NEW p, NEW f, Answered(p, f), f.conn \in Conns,
           inbox[f.conn] = <<>> \/ \A m : Answers(p, f, m) => Answers(p, f, m)',
           \/ inbox'[f.conn] = inbox[f.conn]
           \/ \E m : inbox'[f.conn] = Append(inbox[f.conn], m) /\ Answers(p, f, m)',
           req'[f.conn] \in {NoReq, req[f.conn]},
           f.conn = cur' /\ reply' # NoMsg => Answers(p, f, reply)',
           f.conn = cur' /\ lkeys' # {} => OpOf(f) = "L",
           \A s \in Slots : heap'[s] = f.conn => OpOf(f) = "M"
    PROVE  Answered(p, f)'
  <1> DEFINE b == inbox[f.conn]
  <1>1. f.conn # NoConn /\ b \in Seq(Messages) /\ Len(b) \in Nat
    <2>1. b \in Seq(Messages)
      BY DEF TypeInv, TypeOK
    <2>2. Len(b) \in Nat
      BY <2>1
    <2> QED
      BY <2>1, <2>2, SocketsAssumption
  <1>2. ASSUME NEW j \in 1..Len(b), NEW m, m = b[j] PROVE Answers(p, f, m)'
    <2>1. b # <<>> /\ Answers(p, f, m)
      BY <1>1, <1>2 DEF Answered
    <2> QED
      BY <2>1
  <1>3. ASSUME NEW j \in 1..Len(inbox'[f.conn]), NEW m, m = inbox'[f.conn][j]
        PROVE  Answers(p, f, m)'
    <2>1. CASE inbox'[f.conn] = b
      BY <1>2, <1>3, <2>1
    <2>2. ASSUME NEW w, inbox'[f.conn] = Append(b, w), Answers(p, f, w)'
          PROVE  Answers(p, f, m)'
      <3>1. j = Len(b) + 1 \/ j \in 1..Len(b)
        BY <1>1, <1>3, <2>2
      <3>2. CASE j \in 1..Len(b)
        BY <1>1, <1>2, <1>3, <2>2, <3>2
      <3>3. CASE j = Len(b) + 1
        <4>1. m = w
          BY <1>1, <1>3, <2>2, <3>3
        <4> QED
          BY <2>2, <4>1
      <3> QED
        BY <3>1, <3>2, <3>3
    <2> QED
      BY <2>1, <2>2
  <1>4. req'[f.conn] \in {NoReq, f.call.req}
    BY <1>1 DEF Answered
  <1>5. \A j \in 1..Len(inbox'[f.conn]) : Answers(p, f, inbox[f.conn][j])'
    BY <1>3 DEF Answers
  <1> QED
    BY <1>4, <1>5 DEF Answered

\* What a step of the daemon does to the history.
LEMMA DaemonHistory ==
    ASSUME CallsInv, DaemonStep
    PROVE  /\ stack' = stack /\ cli' = cli
           /\ \A c \in Conns : cli[c] # "closed" => did'[c] = DidNow[c]
           /\ \A q \in Procs : had[q] \subseteq had'[q]
           /\ HadInv'
  <1> USE DEF CallsInv, CallInv
  <1>1. stack' = stack /\ had' = HadNow /\ Remember(owner, DidNow)
    BY DEF DaemonStep
  <1>2. cli' = cli
    BY DEF DaemonStep, Daemon, kvdb_bind, kvdb_init, kvdb_load, kvdb_load_open, kvdb_load_line,
           kvdb_load_close, kvdb_load_return, kvdb_loop, kvdb_loop_start, kvdb_loop_top,
           epoll_wait, epoll_timeout, kvdb_accept, kvdb_accept_fail, kvdb_monitor_close,
           kvdb_monitor_close_freed, kvdb_client, kvdb_client_fail, kvdb_client_set,
           kvdb_client_delete, kvdb_client_get, kvdb_client_list, kvdb_client_commit,
           kvdb_client_reload, kvdb_client_monitor, kvdb_monitor_notify, kvdb_list_consume,
           kvdb_client_out, Modify, Handled
  <1>3. \A c \in Conns : cli[c] # "closed" => did'[c] = DidNow[c]
    BY <1>1, <1>2 DEF Remember, Unused
  <1>4. DidNow \in [Conns -> {"nothing", "ok", "err"}]
    BY DEF DidNow, HadInv
  <1>5. did' \in [Conns -> {"nothing", "ok", "err"}]
    BY <1>1, <1>4 DEF Remember
  <1>6. \A q \in Procs : had'[q] = IF Gets(q) THEN had[q] \cup {cache'[Top(q).call.req.key]} ELSE had[q]
    BY <1>1 DEF HadNow
  <1>7. had' = [q \in Procs |-> had'[q]]
    BY <1>1 DEF HadNow
  <1>8. \A q \in Procs : Gets(q)' => cache'[Top(q)'.call.req.key] \in had'[q]
    BY <1>1, <1>6 DEF Gets, Op, Top
  <1>9. HadInv'
    BY <1>5, <1>7, <1>8 DEF HadInv, Top
  <1> QED
    BY <1>1, <1>2, <1>3, <1>6, <1>9

\* A call with a connection has it open.
LEMMA CallIsOpen ==
    ASSUME CallsInv, NEW p \in Procs, NEW i \in 1..Len(stack[p]), NEW f, f = stack[p][i],
           f.conn # NoConn
    PROVE  FrameInv(f) /\ Answered(p, f) /\ f.conn \in Conns /\ cli[f.conn] # "closed"
  <1>1. FrameOK(f) /\ FrameInv(f) /\ Answered(p, f)
    BY DEF CallsInv, CallInv, StackInv, FramesInv
  <1>2. f.at \in Ats /\ f.at # "connect"
    BY <1>1 DEF FrameOK, Frames, FrameInv
  <1> QED
    BY <1>1, <1>2 DEF FrameOK, FrameInv, Ats

\* What was an answer is one, but on the connection whose request the daemon
\* has just taken.
LEMMA AnswersStay ==
    ASSUME CallsInv, DaemonStep, NEW p \in Procs, NEW f, f.conn \in Conns,
           cli[f.conn] # "closed", pc # "recv" \/ f.conn # cur
    PROVE  \A m : Answers(p, f, m) => Answers(p, f, m)'
  <1>1. did'[f.conn] = DidNow[f.conn] /\ had[p] \subseteq had'[p]
    BY DaemonHistory
  <1>2. did'[f.conn] = did[f.conn]
    BY <1>1 DEF DidNow, CallsInv, CallInv, HadInv
  <1> QED
    BY <1>1, <1>2 DEF Answers

\* Steps of the daemon outside kvdb_client.
LEMMA LoopAnswers ==
    ASSUME CallsInv, DaemonStep, kvdb_bind \/ kvdb_init \/ kvdb_load \/ kvdb_loop,
           NEW p \in Procs, NEW f, f.conn \in Conns, cli[f.conn] # "closed", Answered(p, f)
    PROVE  Answered(p, f)'
  <1> USE DEF CallsInv, ServerInv
  <1>1. pc \notin {"recv", "reply"} /\ reply = NoMsg /\ lkeys = {}
    BY DEF kvdb_bind, kvdb_init, kvdb_load, kvdb_load_open, kvdb_load_line, kvdb_load_close,
           kvdb_load_return, LoadDone, kvdb_loop, kvdb_loop_start, kvdb_loop_top, epoll_wait,
           epoll_timeout, kvdb_accept, kvdb_accept_fail, kvdb_monitor_close,
           kvdb_monitor_close_freed, RequestInv, ReplyInv
  <1>2. UNCHANGED <<reply, lkeys, req, inbox>>
    BY DEF kvdb_bind, kvdb_init, kvdb_load, kvdb_load_open, kvdb_load_line, kvdb_load_close,
           kvdb_load_return, kvdb_loop, kvdb_loop_start, kvdb_loop_top, epoll_wait,
           epoll_timeout, kvdb_accept, kvdb_accept_fail, kvdb_monitor_close,
           kvdb_monitor_close_freed
  <1>3. heap' = heap \/ \E s \in Slots : heap' = [heap EXCEPT ![s] = NoConn]
    BY DEF kvdb_bind, kvdb_init, kvdb_load, kvdb_load_open, kvdb_load_line, kvdb_load_close,
           kvdb_load_return, kvdb_loop, kvdb_loop_start, kvdb_loop_top, epoll_wait,
           epoll_timeout, kvdb_accept, kvdb_accept_fail, kvdb_monitor_close,
           kvdb_monitor_close_freed, FreeMonitor
  <1>4. \A s \in Slots : heap'[s] = heap[s] \/ heap'[s] = NoConn
    BY <1>3 DEF TypeInv, TypeOK
  <1>5. \A s \in Slots : heap'[s] = f.conn => OpOf(f) = "M"
    BY <1>4, SocketsAssumption DEF Answered
  <1>6. \A m : Answers(p, f, m) => Answers(p, f, m)'
    BY <1>1, AnswersStay
  <1> QED
    BY <1>1, <1>2, <1>5, <1>6, FrameAnswered

\* The steps that send: to the monitors, the entries of a list, the answer.
LEMMA SendingAnswers ==
    ASSUME CallsInv, DaemonStep,
           \/ \E s \in Slots : kvdb_monitor_notify(s)
           \/ \E k \in Keys : kvdb_list_consume(k)
           \/ kvdb_client_out,
           NEW p \in Procs, NEW f, f.conn \in Conns, cli[f.conn] # "closed", Answered(p, f)
    PROVE  Answered(p, f)'
  <1> USE DEF CallsInv, ServerInv
  <1>1. pc = "reply"
    BY DEF kvdb_monitor_notify, kvdb_list_consume, kvdb_client_out
  <1>2. cur \in Conns
    BY <1>1, SocketsAssumption DEF TypeInv, TypeOK, CurOK
  <1>3. \A m : Answers(p, f, m) => Answers(p, f, m)'
    BY <1>1, AnswersStay
  <1>4. ASSUME NEW c \in Conns, NEW m, inbox' = inbox \/ inbox' = Sent(c, m),
               f.conn = c => Answers(p, f, m)'
        PROVE  \/ inbox'[f.conn] = inbox[f.conn]
               \/ \E w : inbox'[f.conn] = Append(inbox[f.conn], w) /\ Answers(p, f, w)'
    <2>1. inbox'[f.conn] = inbox[f.conn]
          \/ (f.conn = c /\ inbox'[f.conn] = Append(inbox[f.conn], m))
      BY <1>4 DEF Sent, TypeInv, TypeOK
    <2> QED
      BY <1>4, <2>1
  <1>5. ASSUME NEW s \in Slots, kvdb_monitor_notify(s) PROVE Answered(p, f)'
    <2>1. heap[s] \in Conns /\ UNCHANGED <<req, reply, lkeys, cur>>
      BY <1>5 DEF kvdb_monitor_notify, NoteInv, TypeInv, TypeOK
    <2>2. \A t \in Slots : heap'[t] = heap[t] \/ heap'[t] = NoConn
      BY <1>5 DEF kvdb_monitor_notify, FreeMonitor, TypeInv, TypeOK
    <2> DEFINE e == Pair("event", note[1], note[2])
    <2>3. e.tag = "event"
      BY DEF Pair
    <2>4. inbox' = inbox \/ inbox' = Sent(heap[s], e)
      BY <1>5 DEF kvdb_monitor_notify
    <2> HIDE DEF e
    <2>5. PICK m : m = e
      OBVIOUS
    <2>6. ASSUME f.conn = heap[s] PROVE Answers(p, f, m)'
      <3>1. OpOf(f) = "M"
        BY <2>1, <2>6, SocketsAssumption DEF Answered
      <3> QED
        BY <2>3, <2>5, <3>1 DEF Answers, AnswerTags
    <2>7. \/ inbox'[f.conn] = inbox[f.conn]
          \/ \E w : inbox'[f.conn] = Append(inbox[f.conn], w) /\ Answers(p, f, w)'
      BY <1>4, <2>1, <2>4, <2>5, <2>6
    <2>8. \A t \in Slots : heap'[t] = f.conn => OpOf(f) = "M"
      BY <2>2, SocketsAssumption DEF Answered
    <2>9. f.conn = cur' /\ reply' # NoMsg => Answers(p, f, reply)'
      <3>1. PICK w : w = reply
        OBVIOUS
      <3>2. f.conn = cur /\ w # NoMsg => Answers(p, f, w)'
        BY <1>3, <3>1, SocketsAssumption DEF Answered
      <3> QED
        BY <2>1, <3>1, <3>2 DEF Answers
    <2>10. f.conn = cur' /\ lkeys' # {} => OpOf(f) = "L"
      BY <2>1, SocketsAssumption DEF Answered
    <2> QED
      BY <1>3, <2>1, <2>7, <2>8, <2>9, <2>10, FrameAnswered
  <1>6. ASSUME NEW k \in Keys, kvdb_list_consume(k) PROVE Answered(p, f)'
    <2>1. lkeys # {} /\ lkeys' \subseteq lkeys /\ UNCHANGED <<req, reply, cur, heap>>
      BY <1>6 DEF kvdb_list_consume
    <2> DEFINE e == Pair("entry", k, cache[k])
    <2>2. e.tag = "entry"
      BY DEF Pair
    <2>3. inbox' = inbox \/ inbox' = Sent(cur, e)
      BY <1>6 DEF kvdb_list_consume, TrySend
    <2> HIDE DEF e
    <2>4. PICK m : m = e
      OBVIOUS
    <2>5. f.conn = cur => OpOf(f) = "L"
      BY <2>1, SocketsAssumption DEF Answered
    <2>6. ASSUME f.conn = cur PROVE Answers(p, f, m)'
      BY <2>2, <2>4, <2>5, <2>6 DEF Answers, AnswerTags
    <2>7. \/ inbox'[f.conn] = inbox[f.conn]
          \/ \E w : inbox'[f.conn] = Append(inbox[f.conn], w) /\ Answers(p, f, w)'
      BY <1>2, <1>4, <2>3, <2>4, <2>6
    <2>8. \A t \in Slots : heap'[t] = f.conn => OpOf(f) = "M"
      BY <2>1, SocketsAssumption DEF Answered
    <2>9. f.conn = cur' /\ reply' # NoMsg => Answers(p, f, reply)'
      <3>1. PICK w : w = reply
        OBVIOUS
      <3>2. f.conn = cur /\ w # NoMsg => Answers(p, f, w)'
        BY <1>3, <3>1, SocketsAssumption DEF Answered
      <3> QED
        BY <2>1, <3>1, <3>2 DEF Answers
    <2> QED
      BY <1>3, <2>1, <2>5, <2>7, <2>8, <2>9, FrameAnswered
  <1>7. CASE kvdb_client_out
    <2>1. reply' = NoMsg /\ cur' = NoConn /\ heap' = heap /\ req' = [req EXCEPT ![cur] = NoReq]
      BY <1>7 DEF kvdb_client_out
    <2>2. req'[f.conn] \in {NoReq, req[f.conn]}
      BY <2>1 DEF TypeInv, TypeOK
    <2>3. inbox' = inbox \/ (reply # NoMsg /\ inbox' = Sent(cur, reply))
      BY <1>7 DEF kvdb_client_out, TrySend
    <2>4. PICK m : m = reply
      OBVIOUS
    <2>5. f.conn = cur /\ m # NoMsg => Answers(p, f, m)'
      BY <1>3, <2>4, SocketsAssumption DEF Answered
    <2>6. \/ inbox'[f.conn] = inbox[f.conn]
          \/ \E w : inbox'[f.conn] = Append(inbox[f.conn], w) /\ Answers(p, f, w)'
      BY <1>2, <1>4, <2>3, <2>4, <2>5
    <2>7. \A t \in Slots : heap'[t] = f.conn => OpOf(f) = "M"
      BY <2>1, SocketsAssumption DEF Answered
    <2> QED
      BY <1>3, <2>1, <2>2, <2>6, <2>7, SocketsAssumption, FrameAnswered
  <1> QED
    BY <1>5, <1>6, <1>7

\* A value that is found is the value of the key.
LEMMA GetFinds ==
    ASSUME cache \in Image, NEW k \in Keys, NEW img \in Fetched(cache, k)
    PROVE  kvdb_get(img, k, TRUE) \in {Absent, cache[k]}
  <1>1. img[k] \in {Absent, cache[k]}
    BY DEF Fetched, Written, Image
  <1> QED
    BY <1>1, BackendAssumption DEF kvdb_get, unqlite_kvdb_get, nvs_kvdb_get, file_kvdb_get

\* The steps that take the request.
LEMMA TakingAnswers ==
    ASSUME CallsInv, DaemonStep,
           \/ kvdb_client_fail \/ kvdb_client_set \/ kvdb_client_delete \/ kvdb_client_get
           \/ kvdb_client_list \/ kvdb_client_commit \/ kvdb_client_reload
           \/ kvdb_client_monitor,
           NEW p \in Procs, NEW i \in 1..Len(stack[p]), NEW f, f = stack[p][i],
           f.conn \in Conns, cli[f.conn] # "closed", Answered(p, f)
    PROVE  Answered(p, f)'
  <1> USE DEF CallsInv, ServerInv
  <1>1. pc = "recv" /\ req' = [req EXCEPT ![cur] = NoReq]
    BY DEF kvdb_client_fail, kvdb_client_set, kvdb_client_delete, kvdb_client_get,
           kvdb_client_list, kvdb_client_commit, kvdb_client_reload, kvdb_client_monitor, Modify,
           Handled, Serves
  <1>2. cur \in Conns /\ reply = NoMsg /\ lkeys = {} /\ inbox[cur] = <<>> /\ f.conn # NoConn
    BY <1>1, SocketsAssumption DEF TypeInv, TypeOK, CurOK, RequestInv, ReplyInv, MessagesInv
  <1>3. req'[f.conn] \in {NoReq, req[f.conn]}
    BY <1>1 DEF TypeInv, TypeOK
  <1>4. CASE kvdb_client_monitor
    <2>1. req[cur] # NoReq /\ req[cur].op = "M" /\ cur' = NoConn /\ UNCHANGED <<reply, lkeys>>
      BY <1>4 DEF kvdb_client_monitor, Serves
    <2>2. \A s \in Slots : heap'[s] = heap[s] \/ heap'[s] = cur
      BY <1>4 DEF kvdb_client_monitor, kvdb_monitor_open, TypeInv, TypeOK
    <2>3. f.conn = cur => OpOf(f) = "M"
      BY <1>2, <2>1 DEF Answered, OpOf
    <2>4. PICK m : m.tag \in {"open", "err"} /\ (inbox' = inbox \/ inbox' = Sent(cur, m))
      <3>1. Control("open").tag = "open" /\ Status(FALSE).tag = "err"
        BY DEF Control, Status
      <3>2. \/ TrySend(cur, Control("open")) \/ TrySend(cur, Status(FALSE))
        BY <1>4 DEF kvdb_client_monitor
      <3>3. ASSUME NEW w, w.tag \in {"open", "err"}, TrySend(cur, w)
            PROVE  \E m : m.tag \in {"open", "err"} /\ (inbox' = inbox \/ inbox' = Sent(cur, m))
        BY <3>3 DEF TrySend
      <3>4. CASE TrySend(cur, Control("open"))
        <4>1. PICK w : w = Control("open")
          OBVIOUS
        <4> QED
          BY <3>1, <3>3, <3>4, <4>1
      <3>5. CASE TrySend(cur, Status(FALSE))
        <4>1. PICK w : w = Status(FALSE)
          OBVIOUS
        <4>2. TrySend(cur, w)
          BY <3>5, <4>1, Zenon
        <4>3. w.tag = "err"
          BY <3>1, <4>1, Zenon
        <4> QED
          BY <3>3, <4>2, <4>3
      <3> QED
        BY <3>2, <3>4, <3>5
    <2>5. \/ inbox'[f.conn] = inbox[f.conn]
          \/ f.conn = cur /\ inbox'[f.conn] = Append(inbox[f.conn], m)
      BY <2>4 DEF Sent, TypeInv, TypeOK
    <2>6. f.conn = cur => Answers(p, f, m)'
      BY <2>3, <2>4 DEF Answers, AnswerTags
    <2>7. \A t \in Slots : heap'[t] = f.conn => OpOf(f) = "M"
      BY <1>2, <2>2, <2>3 DEF Answered
    <2>8. inbox[f.conn] = <<>> \/ \A w : Answers(p, f, w) => Answers(p, f, w)'
      BY <1>2, AnswersStay
    <2> QED
      BY <1>2, <1>3, <2>1, <2>5, <2>6, <2>7, <2>8, FrameAnswered
  <1>5. CASE ~kvdb_client_monitor
    <2>1. cur' = cur /\ heap' = heap /\ inbox' = inbox
      BY <1>5 DEF kvdb_client_fail, kvdb_client_set, kvdb_client_delete, kvdb_client_get,
                  kvdb_client_list, kvdb_client_commit, kvdb_client_reload, Modify, Handled
    <2>2. \A t \in Slots : heap'[t] = f.conn => OpOf(f) = "M"
      BY <1>2, <2>1 DEF Answered
    <2>3. CASE f.conn # cur
      <3>1. \A w : Answers(p, f, w) => Answers(p, f, w)'
        BY <2>3, AnswersStay
      <3> QED
        BY <1>3, <2>1, <2>2, <2>3, <3>1, FrameAnswered
    <2>4. CASE f.conn = cur
      <3>1. SUFFICES /\ reply' # NoMsg => Answers(p, f, reply)'
                     /\ lkeys' # {} => OpOf(f) = "L"
        BY <1>2, <1>3, <2>1, <2>2, <2>4, FrameAnswered
      <3>2. CASE reply' = NoMsg /\ lkeys' = {}
        BY <3>2
      <3>3. ASSUME NEW op, Serves(op) PROVE OpOf(f) = op /\ req[cur] = f.call.req /\ req[cur] # NoReq
        BY <1>2, <2>4, <3>3 DEF Serves, Answered, OpOf
      <3>4. ASSUME req[cur] # NoReq, reply' # NoMsg
            PROVE  did'[f.conn] = IF reply'.tag = "err" THEN "err" ELSE "ok"
        <4>1. did'[f.conn] = DidNow[cur]
          BY <2>4, DaemonHistory
        <4>2. Takes
          BY <1>1, <1>2, <3>4, SocketsAssumption DEF Takes, TypeInv, TypeOK
        <4> QED
          BY <1>1, <1>2, <3>4, <4>1, <4>2 DEF DidNow, CallInv, HadInv
      <3>5. ASSUME reply' # NoMsg, req[cur] # NoReq, OpOf(f) # "G",
                   reply'.tag \in AnswerTags(OpOf(f))
            PROVE  Answers(p, f, reply)'
        <4>1. reply'.tag = "ok" => did'[f.conn] = "ok"
          BY <3>4, <3>5
        <4> QED
          BY <3>5, <4>1 DEF Answers, OpOf, AnswerTags
      <3>6. CASE kvdb_client_fail
        BY <1>2, <3>2, <3>6 DEF kvdb_client_fail, Handled
      <3>7. CASE kvdb_client_set \/ kvdb_client_delete \/ kvdb_client_commit
        <4>1. OpOf(f) \in {"S", "D", "C"} /\ req[cur] # NoReq
          BY <3>3, <3>7 DEF kvdb_client_set, kvdb_client_delete, kvdb_client_commit
        <4>2. \E ok : reply' = Status(ok)
          BY <3>7 DEF kvdb_client_set, kvdb_client_delete, kvdb_client_commit, Modify, Handled
        <4>3. reply'.tag \in {"ok", "err"}
          BY <4>2 DEF Status
        <4>4. lkeys' = {}
          BY <1>2, <3>7 DEF kvdb_client_set, kvdb_client_delete, kvdb_client_commit, Modify, Change
        <4>5. reply'.tag \in AnswerTags(OpOf(f)) /\ OpOf(f) # "G"
          BY <4>1, <4>3 DEF AnswerTags
        <4> QED
          BY <3>5, <4>1, <4>4, <4>5
      <3>8. CASE kvdb_client_list
        <4>1. OpOf(f) = "L" /\ req[cur] # NoReq
          BY <3>3, <3>8 DEF kvdb_client_list
        <4>2. reply'.tag = "end"
          BY <3>8 DEF kvdb_client_list, Handled, Control
        <4> QED
          BY <3>5, <4>1, <4>2 DEF AnswerTags
      <3>9. CASE kvdb_client_reload
        BY <1>2, <3>2, <3>9 DEF kvdb_client_reload
      <3>10. CASE kvdb_client_get
        <4>1. OpOf(f) = "G" /\ req[cur] = f.call.req /\ req[cur] # NoReq
          BY <3>3, <3>10 DEF kvdb_client_get
        <4> DEFINE k == f.call.req.key
        <4>2. PICK img \in Fetched(cache, k) :
                LET v == kvdb_get(img, k, TRUE)
                IN  Handled(IF v = Absent THEN NoMsg ELSE Pair("value", k, v), FALSE)
          BY <3>10, <4>1 DEF kvdb_client_get, Looked
        <4> DEFINE v == kvdb_get(img, k, TRUE)
        <4>3. lkeys' = {} /\ (reply' # NoMsg => v # Absent /\ reply' = Pair("value", k, v))
          BY <1>2, <3>10, <4>2 DEF kvdb_client_get, Handled
        <4>4. reply' # NoMsg => reply'.tag = "value" /\ reply'.val = cache[k]
          <5>1. v \in {Absent, cache[k]}
            <6>1. k \in Keys /\ cache \in Image
              BY <3>10, <4>1, RequestTypes DEF kvdb_client_get, Ops, TypeInv, TypeOK
            <6> QED
              BY <4>2, <6>1, GetFinds
          <5>2. Pair("value", k, v).tag = "value" /\ Pair("value", k, v).val = v
            BY DEF Pair
          <5> QED
            BY <4>3, <5>1, <5>2
        <4>5. cache[k] \in had[p]
          <5>1. Gets(p) /\ Top(p) = f
            BY <4>1, GetIsTop DEF CallInv, Top
          <5> QED
            BY <5>1 DEF CallInv, HadInv
        <4>6. cache[k] \in had'[p]
          BY <4>5, DaemonHistory
        <4>7. reply' # NoMsg => Answers(p, f, reply)'
          BY <4>1, <4>4, <4>6 DEF Answers, AnswerTags, OpOf
        <4> QED
          BY <4>3, <4>7
      <3> QED
        BY <1>5, <3>6, <3>7, <3>8, <3>9, <3>10
    <2> QED
      BY <2>3, <2>4
  <1> QED
    BY <1>4, <1>5

\* A step of the daemon.
LEMMA DaemonCalls ==
    ASSUME CallsInv, DaemonStep
    PROVE  CallInv'
  <1> USE DEF CallInv
  <1>1. stack' = stack /\ cli' = cli /\ HadInv'
    BY DaemonHistory
  <1>2. ASSUME NEW p \in Procs, NEW i \in 1..Len(stack[p])
        PROVE  FrameInv(stack[p][i])' /\ Answered(p, stack[p][i])'
    <2>1. PICK f : f = stack[p][i]
      OBVIOUS
    <2>2. FrameInv(f)'
      BY <1>1, <2>1 DEF CallsInv, FramesInv, FrameInv
    <2>3. CASE f.conn = NoConn
      BY <1>1, <2>1, <2>2, <2>3 DEF FrameInv, Answered, OpOf
    <2>4. CASE f.conn # NoConn
      <3>1. f.conn \in Conns /\ cli[f.conn] # "closed" /\ Answered(p, f)
        BY <2>1, <2>4, CallIsOpen
      <3>2. Answered(p, f)'
        BY <2>1, <3>1, LoopAnswers, SendingAnswers, TakingAnswers
           DEF DaemonStep, Daemon, kvdb_client
      <3> QED
        BY <1>1, <2>1, <2>2, <3>2 DEF FrameInv, Answered, Answers, OpOf
    <2> QED
      BY <2>3, <2>4
  <1>3. FramesInv'
    BY <1>1, <1>2 DEF FramesInv
  <1>4. DepthInv' /\ DistinctInv' /\ CoverInv'
    BY <1>1 DEF CallsInv, DepthInv, DistinctInv, CoverInv, OpOf
  <1> QED
    BY <1>1, <1>3, <1>4

-----------------------------------------------------------------------------
(* What the calls give *)

LEMMA CallsInit == SysInit => CallsInv
  <1>1. SysInit => Init /\ StackInv
    BY DEF SysInit, StackInv, FrameOK
  <1>2. ASSUME SysInit PROVE CallInv
    <2>1. \A p \in Procs : stack[p] = <<>> /\ Len(stack[p]) = 0
      BY <1>2 DEF SysInit
    <2>2. \A c \in Conns : cli[c] = "closed"
      BY <1>2 DEF SysInit, Init
    <2>3. FramesInv /\ DepthInv /\ DistinctInv /\ CoverInv
      BY <2>1, <2>2 DEF FramesInv, DepthInv, DistinctInv, CoverInv
    <2>4. HadInv
      BY <1>2, <2>1 DEF SysInit, HadInv, Gets
    <2> QED
      BY <2>3, <2>4 DEF CallInv
  <1> QED
    BY <1>1, <1>2, ServerInvInit DEF CallsInv

\* Every step keeps the calls and their answers in order.
LEMMA CallsStep == ASSUME CallsInv, [SysNext]_sysVars PROVE CallsInv'
  <1>1. StackInv' /\ [Next]_vars
    BY SystemSteps DEF CallsInv
  <1>2. ServerInv'
    BY <1>1, ServerInvStep DEF CallsInv
  <1>3. CASE TimeStep \/ UNCHANGED sysVars
    <2>1. UNCHANGED <<stack, did, had, cache, cli, req, inbox, heap, cur, reply, lkeys>>
      BY <1>3 DEF TimeStep, Tick, histVars, sysVars, vars
    <2>2. FramesInv'
      <3>1. ASSUME NEW p, NEW f, FrameInv(f) /\ Answered(p, f)
            PROVE  FrameInv(f)' /\ Answered(p, f)'
        <4>1. FrameInv(f)'
          BY <2>1, <3>1 DEF FrameInv
        <4>2. \A m : Answers(p, f, m) => Answers(p, f, m)'
          BY <2>1 DEF Answers
        <4>3. Answered(p, f)'
          BY <2>1, <3>1, <4>2 DEF Answered
        <4> QED
          BY <4>1, <4>3
      <3>2. ASSUME NEW p \in Procs, NEW i \in 1..Len(stack[p])
            PROVE  FrameInv(stack[p][i])' /\ Answered(p, stack[p][i])'
        <4>1. PICK f : f = stack[p][i] /\ FrameInv(f) /\ Answered(p, f)
          BY DEF CallsInv, CallInv, FramesInv
        <4>2. FrameInv(f)' /\ Answered(p, f)'
          BY <3>1, <4>1
        <4>3. stack'[p][i] = f
          BY <2>1, <4>1
        <4>4. FrameInv(stack[p][i])'
          BY <4>2, <4>3 DEF FrameInv
        <4>5. Answered(p, stack[p][i])'
          BY <4>2, <4>3 DEF Answered, Answers
        <4> QED
          BY <4>4, <4>5
      <3> QED
        BY <2>1, <3>2 DEF FramesInv
    <2>3. DepthInv' /\ DistinctInv' /\ CoverInv'
      BY <2>1 DEF CallsInv, CallInv, DepthInv, DistinctInv, CoverInv, OpOf
    <2>4. HadInv'
      BY <2>1 DEF CallsInv, CallInv, HadInv, Gets, Op, Top
    <2> QED
      BY <1>1, <1>2, <2>2, <2>3, <2>4 DEF CallsInv, CallInv
  <1>4. CASE PowerStep
    <2>1. \A p \in Procs : stack'[p] = <<>> /\ Len(stack'[p]) = 0
      BY <1>4 DEF PowerStep
    <2>2. \A c \in Conns : cli'[c] = "closed"
      BY <1>4 DEF PowerStep, PowerCycle
    <2>3. FramesInv' /\ DepthInv' /\ DistinctInv' /\ CoverInv'
      BY <2>1, <2>2 DEF FramesInv, DepthInv, DistinctInv, CoverInv
    <2>4. HadInv'
      BY <1>4, <2>1 DEF PowerStep, HadInv, Gets
    <2> QED
      BY <1>1, <1>2, <2>3, <2>4 DEF CallsInv, CallInv
  <1>5. ASSUME NEW p \in Procs, ProcStep(p) PROVE CallInv'
    BY <1>5, BeginStep, ConnectStep, SendStep, SendFailStep, ReturnSteps, ReadSteps, CallbackStep,
       MonitorReadStep DEF ProcStep, Works
  <1> QED
    BY <1>1, <1>2, <1>3, <1>4, <1>5, DaemonCalls DEF SysNext, CallsInv

\* The client ends that are open are those of the calls in progress.
LEMMA CallsOwnDescriptors == CallsInv => ClientDescriptors
  <1> SUFFICES ASSUME CallsInv PROVE ClientDescriptors
    OBVIOUS
  <1> USE DEF CallsInv, CallInv
  <1>1. ASSUME NEW p \in Procs PROVE Len(stack[p]) \in Nat /\ Len(stack[p]) <= 2
    BY DEF StackInv, DepthInv
  <1>2. ASSUME NEW o \in Open
        PROVE  /\ o[1] \in Procs /\ o[2] \in 1..Len(stack[o[1]]) /\ o = <<o[1], o[2]>>
               /\ OpenConn(o) # NoConn
    <2>1. /\ o \in Procs \X (1..2) /\ o[2] <= Len(stack[o[1]])
          /\ stack[o[1]][o[2]].conn # NoConn
      BY DEF Open
    <2>2. o[1] \in Procs /\ o[2] \in 1..2 /\ o = <<o[1], o[2]>>
      BY <2>1
    <2> QED
      BY <1>1, <2>1, <2>2 DEF OpenConn
  <1>3. ASSUME NEW o \in Open PROVE OpenConn(o) \in Conns /\ cli[OpenConn(o)] # "closed"
    <2>1. PICK f : f = stack[o[1]][o[2]] /\ f.conn = OpenConn(o) /\ f.conn # NoConn
      BY <1>2 DEF OpenConn
    <2> QED
      BY <1>2, <2>1, CallIsOpen
  <1>4. ASSUME NEW c \in Conns, cli[c] # "closed" PROVE \E o \in Open : OpenConn(o) = c
    <2>1. PICK p \in Procs : \E i \in 1..Len(stack[p]) : stack[p][i].conn = c
      BY <1>4 DEF CoverInv
    <2>2. PICK i \in 1..Len(stack[p]) : stack[p][i].conn = c
      BY <2>1
    <2>3. i \in 1..2 /\ i <= Len(stack[p])
      BY <1>1
    <2>4. <<p, i>> \in Open /\ OpenConn(<<p, i>>) = c
      BY <2>2, <2>3, SocketsAssumption DEF Open, OpenConn
    <2> QED
      BY <2>4
  <1>5. ASSUME NEW o1 \in Open, NEW o2 \in Open, OpenConn(o1) = OpenConn(o2) PROVE o1 = o2
    <2>1. o1[1] = o2[1] /\ o1[2] = o2[2]
      BY <1>2, <1>5 DEF DistinctInv, OpenConn
    <2> QED
      BY <1>2, <2>1
  <1> QED
    BY <1>3, <1>4, <1>5 DEF ClientDescriptors

\* Every way out of a call of client.c closes its descriptor and no other,
\* with failures of socket and connect, timeouts, nested calls and the end
\* of the stream at any time.
THEOREM CallsCloseTheirs == SysSpec => []ClientDescriptors
  BY CallsInit, CallsStep, CallsOwnDescriptors, PTL DEF SysSpec

\* A result comes from a step of the process in which its call returns.
LEMMA ResultsReturn ==
    ASSUME CallsInv, [SysNext]_sysVars, NEW p \in Procs, NEW ops, Finishes(p, ops)
    PROVE  ProcStep(p) /\ \E r, v : Returns(p, r, v)
  <1>1. Len(stack'[p]) # Len(stack[p]) /\ ret' # NoResult
    <2>1. Len(stack[p]) \in Nat
      BY DEF CallsInv, StackInv
    <2>2. Len(stack'[p]) \in Nat
      BY SystemSteps DEF CallsInv, StackInv
    <2> QED
      BY <2>1, <2>2 DEF Finishes
  <1>2. PICK q \in Procs : ProcStep(q)
    BY <1>1 DEF SysNext, sysVars, DaemonStep, TimeStep, PowerStep
  <1>3. \E r, v : Returns(q, r, v)
    <2>1. CASE call_eof(q) \/ call_timeout(q)
      BY <2>1 DEF call_eof, call_timeout
    <2>2. CASE call_recv_status(q) \/ property_get_recv(q)
      BY <2>2 DEF call_recv_status, property_get_recv
    <2> QED
      BY <1>1, <1>2, <2>1, <2>2
         DEF ProcStep, Works, Begin, GoesOn, call_connect, call_connect_fail, call_send,
             call_send_fail, call_close, property_list_recv, property_monitor_open_recv,
             callback_return, property_wait_read, property_wait_timeout, monitor_read,
             monitor_close
  <1>4. q = p
    <2>1. q # p => stack'[p] = stack[p]
      BY <1>3 DEF Returns, CallsInv, StackInv
    <2> QED
      BY <1>1, <2>1
  <1> QED
    BY <1>2, <1>3, <1>4

\* A get returns a value its key had during the call, however long its
\* request waited in the backlog and behind other requests.
THEOREM GetsAreRecent == SysSpec => GetIsRecent
  <1> DEFINE Recent ==
        \A p \in Procs :
            Finishes(p, {"G"}) /\ ret'.res = "ok" /\ ret'.val # Absent => ret'.val \in had[p]
  <1>1. ASSUME CallsInv, [SysNext]_sysVars PROVE Recent
    <2>1. SUFFICES ASSUME NEW p \in Procs, Finishes(p, {"G"}), ret'.val # Absent
                   PROVE  ret'.val \in had[p]
      OBVIOUS
    <2>2. ProcStep(p) /\ stack[p] # <<>> /\ Op(p) = "G"
      BY <1>1, <2>1, ResultsReturn DEF Finishes
    <2>3. PICK r, v : Returns(p, r, v)
      BY <1>1, <2>1, ResultsReturn
    <2>4. ret'.val = v /\ ret'.res = r
      BY <2>3 DEF Returns
    <2>5. property_get_recv(p)
      <3>1. ASSUME NEW w, Returns(p, w, Absent) PROVE FALSE
        BY <2>1, <3>1 DEF Returns
      <3>2. ASSUME NEW w, NEW c, NEW a, GoesOn(p, c, a) PROVE FALSE
        BY <2>1, <3>2 DEF GoesOn, Finishes
      <3>3. ~Begin(p) /\ ~monitor_read(p)
        BY <2>1 DEF Finishes, Begin, monitor_read
      <3>4. ~call_recv_status(p)
        BY <2>2 DEF call_recv_status, Receives
      <3>5. ~(call_eof(p) \/ call_timeout(p))
        BY <3>1 DEF call_eof, call_timeout
      <3>6. ~(call_send_fail(p) \/ property_list_recv(p) \/ property_monitor_open_recv(p))
        BY <3>1, <3>2 DEF call_send_fail, property_list_recv, property_monitor_open_recv
      <3>7. ~(call_connect(p) \/ call_send(p) \/ callback_return(p) \/ property_wait_read(p))
        BY <3>2 DEF call_connect, call_send, callback_return, property_wait_read
      <3>8. ~(call_connect_fail(p) \/ call_close(p) \/ property_wait_timeout(p) \/ monitor_close(p))
        BY <3>1 DEF call_connect_fail, call_close, property_wait_timeout, monitor_close
      <3> QED
        BY <2>2, <3>3, <3>4, <3>5, <3>6, <3>7, <3>8 DEF ProcStep, Works
    <2>6. Conn(p) \in Conns /\ inbox[Conn(p)] # <<>>
      BY <1>1, <2>5, CallHasConn DEF property_get_recv, Receives, property_recv, CallsInv
    <2>7. Answers(p, Top(p), Received(p)) /\ OpOf(Top(p)) = "G"
      BY <1>1, <2>2, <2>6, FirstAnswer, TopInv
    <2>8. ret'.val = Received(p).val
      BY <2>5 DEF property_get_recv, Returns
    <2> QED
      BY <2>7, <2>8 DEF Answers
  <1>2. CallsInv /\ [SysNext]_sysVars => [Recent]_sysVars
    BY <1>1
  <1> QED
    BY <1>2, CallsInit, CallsStep, PTL DEF SysSpec, GetIsRecent

\* A set or a delete that waits for its answer and returns 0 has been carried
\* out: no timeout, end of stream or answer to another request is taken for
\* success.
THEOREM SetsAreTold == SysSpec => SetTold
  <1> DEFINE ops == {"S", "D"}
  <1>1. ASSUME CallsInv, [SysNext]_sysVars PROVE Told(ops)
    <2>1. SUFFICES ASSUME NEW p \in Procs, Finishes(p, ops), How(p) = "plain", ret'.res = "ok"
                   PROVE  did[Conn(p)] = "ok"
      BY DEF Told
    <2>2. ProcStep(p) /\ stack[p] # <<>> /\ Op(p) \in ops
      BY <1>1, <2>1, ResultsReturn DEF Finishes
    <2>3. FrameInv(Top(p)) /\ Op(p) = OpOf(Top(p)) /\ How(p) = Top(p).call.how /\ Conn(p) = Top(p).conn
      BY <1>1, <2>2, TopInv
    <2>4. call_recv_status(p)
      <3>1. ASSUME NEW v, Returns(p, "err", v) PROVE FALSE
        BY <2>1, <3>1 DEF Returns
      <3>2. ASSUME NEW c, NEW a, GoesOn(p, c, a) PROVE FALSE
        BY <2>1, <3>2 DEF GoesOn, Finishes
      <3>3. ~Begin(p) /\ ~monitor_read(p)
        BY <2>1 DEF Finishes, Begin, monitor_read
      <3>4. ~(property_get_recv(p) \/ property_list_recv(p) \/ property_monitor_open_recv(p))
        BY <2>2 DEF property_get_recv, property_list_recv, property_monitor_open_recv, Receives
      <3>5. ~(call_eof(p) \/ call_timeout(p))
        BY <2>2, <3>1 DEF call_eof, call_timeout, EofResults, TimeoutResults
      <3>6. ~call_close(p) /\ ~monitor_close(p)
        BY <2>1, <2>2, <2>3 DEF call_close, monitor_close, At, FrameInv
      <3>7. ~(call_connect(p) \/ call_send(p) \/ callback_return(p) \/ property_wait_read(p))
        BY <3>2 DEF call_connect, call_send, callback_return, property_wait_read
      <3>8. ~(call_connect_fail(p) \/ call_send_fail(p) \/ property_wait_timeout(p))
        BY <3>1, <3>2 DEF call_connect_fail, call_send_fail, property_wait_timeout
      <3> QED
        BY <2>2, <3>3, <3>4, <3>5, <3>6, <3>7, <3>8 DEF ProcStep, Works
    <2>5. Conn(p) \in Conns /\ inbox[Conn(p)] # <<>>
      BY <1>1, <2>4, CallHasConn DEF call_recv_status, Receives, property_recv, CallsInv
    <2>6. Answers(p, Top(p), Received(p))
      BY <1>1, <2>2, <2>5, FirstAnswer
    <2>7. Received(p).tag = "ok"
      BY <2>1, <2>4 DEF call_recv_status, Returns
    <2> QED
      BY <2>3, <2>6, <2>7 DEF Answers
  <1>2. CallsInv /\ [SysNext]_sysVars => [Told(ops)]_sysVars
    BY <1>1
  <1> QED
    BY <1>2, CallsInit, CallsStep, PTL DEF SysSpec, SetTold

-----------------------------------------------------------------------------
(* The order of requests *)

\* The daemon serves connection d before connection c.
Ahead(d, c) ==
    \/ d = cur /\ c # cur
    \/ \E i, j \in 1..Len(backlog[ListenerOf[c]]) :
        i < j /\ backlog[ListenerOf[c]][i] = d /\ backlog[ListenerOf[c]][j] = c

\* A set or a delete waits on connection c.
Changes(c) == req[c] # NoReq /\ req[c].op \in {"S", "D"}

\* One of key k that process p has sent.
Pends(p, k, c) == owner[c] = p /\ Changes(c) /\ req[c].key = k

\* An open connection that is not being served carries no request, and will
\* carry none.
ServedInv == \A c \in fds : c # cur => req[c] = NoReq /\ cli[c] # "connected"

\* A key without a database has no value.
BackedInv == \A k \in Keys : kvdb_get_index(k) \notin Databases => cache[k] = Absent

\* What the daemon does to the requests, the backlog and the one it serves.
LEMMA DaemonShape ==
    ASSUME ServerInv, Daemon
    PROVE  /\ cli' = cli
           /\ cur # NoConn => cur \in Conns
           /\ \A c \in Conns : req'[c] = req[c] \/ (c = cur /\ req'[c] = NoReq)
           /\ \/ pc' = "down"
              \/ backlog' = backlog /\ cur' = cur /\ fds' \subseteq fds
              \/ backlog' = backlog /\ cur \in Conns /\ cur' = NoConn /\ req'[cur] = NoReq
                   /\ fds' \subseteq fds /\ (kvdb_client_out \/ kvdb_client_monitor)
              \/ \E l \in Listeners : kvdb_accept(l)
  <1> USE DEF ServerInv
  <1>1. cur # NoConn => cur \in Conns
    BY DEF TypeInv, TypeOK
  <1>2. CASE kvdb_bind \/ kvdb_init \/ kvdb_load
    BY <1>1, <1>2 DEF kvdb_bind, kvdb_init, kvdb_unbind, kvdb_load, kvdb_load_open, kvdb_load_line,
           kvdb_load_close, kvdb_load_return
  <1>3. CASE kvdb_loop
    BY <1>1, <1>3 DEF kvdb_loop, kvdb_loop_start, kvdb_loop_top, epoll_wait, epoll_timeout, kvdb_accept,
           kvdb_accept_fail, kvdb_monitor_close, kvdb_monitor_close_freed, FreeMonitor
  <1>4. CASE kvdb_client
    <2>1. cli' = cli /\ backlog' = backlog /\ pc \in {"recv", "reply"}
      BY <1>4 DEF kvdb_client, kvdb_client_fail, kvdb_client_set, kvdb_client_delete, kvdb_client_get,
           kvdb_client_list, kvdb_client_commit, kvdb_client_reload, kvdb_client_monitor,
           kvdb_monitor_notify, kvdb_list_consume, kvdb_client_out, Modify, Handled, Serves
    <2>2. cur \in Conns
      BY <2>1, <1>1 DEF TypeInv, CurOK
    <2>3. req' = req \/ req' = [req EXCEPT ![cur] = NoReq]
      BY <1>4 DEF kvdb_client, kvdb_client_fail, kvdb_client_set, kvdb_client_delete, kvdb_client_get,
           kvdb_client_list, kvdb_client_commit, kvdb_client_reload, kvdb_client_monitor,
           kvdb_monitor_notify, kvdb_list_consume, kvdb_client_out, Modify, Handled, Serves
    <2>4. \A c \in Conns : req'[c] = req[c] \/ (c = cur /\ req'[c] = NoReq)
      BY <2>2, <2>3 DEF TypeInv, TypeOK
    <2>5. CASE kvdb_client_out \/ kvdb_client_monitor
      <3>1. cur' = NoConn /\ req' = [req EXCEPT ![cur] = NoReq] /\ fds' \subseteq fds
        BY <2>5 DEF kvdb_client_out, kvdb_client_monitor
      <3>2. req'[cur] = NoReq
        BY <2>2, <3>1 DEF TypeInv, TypeOK
      <3> QED
        BY <2>1, <2>2, <2>4, <2>5, <3>1, <3>2
    <2>6. CASE ~(kvdb_client_out \/ kvdb_client_monitor)
      <3>1. cur' = cur /\ fds' \subseteq fds
        BY <1>4, <2>6 DEF kvdb_client, kvdb_client_fail, kvdb_client_set, kvdb_client_delete, kvdb_client_get,
           kvdb_client_list, kvdb_client_commit, kvdb_client_reload, FreeMonitor,
           kvdb_monitor_notify, kvdb_list_consume, Modify, Handled, Serves
      <3> QED
        BY <2>1, <2>2, <2>4, <3>1
    <2> QED
      BY <2>5, <2>6
  <1> QED
    BY <1>2, <1>3, <1>4 DEF Daemon

\* The order of two connections does not change while the first has a request.
LEMMA AheadDaemon ==
    ASSUME ServerInv, Daemon, ~Stopped', NEW c \in Conns, NEW d \in Conns, d # c,
           Ahead(d, c), req'[d] # NoReq
    PROVE  Ahead(d, c)'
  <1> USE DEF ServerInv
  <1> DEFINE m == ListenerOf[c]
  <1>1. CASE backlog' = backlog /\ cur' = cur
    BY <1>1 DEF Ahead
  <1>2. CASE backlog' = backlog /\ cur' = NoConn /\ req'[cur] = NoReq
    <2>1. d # cur
      BY <1>2
    <2> QED
      BY <1>2, <2>1 DEF Ahead
  <1>3. ASSUME NEW l \in Listeners, kvdb_accept(l) PROVE Ahead(d, c)'
    <2>1. cur = NoConn /\ m \in Listeners
      BY <1>3, SocketsAssumption DEF kvdb_accept, OwnersInv
    <2>2. PICK i, j \in 1..Len(backlog[m]) : i < j /\ backlog[m][i] = d /\ backlog[m][j] = c
      BY <2>1, SocketsAssumption DEF Ahead
    <2>3. CASE l # m
      <3>1. backlog'[m] = backlog[m]
        BY <1>3, <2>1, <2>3 DEF kvdb_accept, TypeInv, TypeOK
      <3> QED
        BY <2>2, <3>1 DEF Ahead
    <2>4. CASE l = m
      <3>1. /\ Len(backlog[m]) \in Nat \ {0} /\ cur' = backlog[m][1]
            /\ backlog'[m] = Tail(backlog[m])
            /\ Len(Tail(backlog[m])) = Len(backlog[m]) - 1
            /\ \A x \in 1..(Len(backlog[m]) - 1) : Tail(backlog[m])[x] = backlog[m][x + 1]
        BY <1>3, <2>4, Accepted DEF TypeInv, TypeOK
      <3>2. CASE i = 1
        BY <2>2, <3>1, <3>2 DEF Ahead
      <3>3. CASE i # 1
        <4>1. i - 1 \in 1..(Len(backlog[m]) - 1) /\ j - 1 \in 1..(Len(backlog[m]) - 1) /\ i - 1 < j - 1
          BY <2>2, <3>1, <3>3
        <4>2. backlog'[m][i - 1] = d /\ backlog'[m][j - 1] = c
          BY <2>2, <3>1, <4>1
        <4> QED
          BY <3>1, <4>1, <4>2 DEF Ahead
      <3> QED
        BY <3>2, <3>3
    <2> QED
      BY <2>3, <2>4
  <1> QED
    BY <1>1, <1>2, <1>3, DaemonShape

\* Nobody is served before the one that is.
LEMMA NoneAhead ==
    ASSUME ServerInv, NEW d \in Conns, cur \in Conns, Ahead(d, cur)
    PROVE  FALSE
  BY SocketsAssumption DEF ServerInv, Ahead, BacklogInv, OwnersInv

\* A connection that is new goes to the end of the line.
LEMMA AheadConnect ==
    ASSUME ServerInv, NEW x \in Conns, property_connect(x),
           NEW c \in Conns, NEW d \in Conns, Ahead(d, c)
    PROVE  Ahead(d, c)'
  <1> DEFINE m == ListenerOf[c]
  <1>1. cur' = cur /\ m \in Listeners /\ ListenerOf[x] \in Listeners
        /\ backlog' = [backlog EXCEPT ![ListenerOf[x]] = Append(@, x)]
    BY SocketsAssumption DEF property_connect
  <1>2. CASE d = cur /\ c # cur
    BY <1>1, <1>2 DEF Ahead
  <1>3. CASE ~(d = cur /\ c # cur)
    <2>1. PICK i, j \in 1..Len(backlog[m]) : i < j /\ backlog[m][i] = d /\ backlog[m][j] = c
      BY <1>3 DEF Ahead
    <2>2. backlog \in [Listeners -> Seq(Conns)]
      BY DEF ServerInv, TypeInv, TypeOK
    <2>3. backlog'[m] = backlog[m] \/ backlog'[m] = Append(backlog[m], x)
      BY <1>1, <2>2
    <2>4. backlog[m] \in Seq(Conns) /\ Len(backlog[m]) \in Nat
      BY <1>1, <2>2
    <2>5. /\ i \in 1..Len(backlog'[m]) /\ j \in 1..Len(backlog'[m])
          /\ backlog'[m][i] = backlog[m][i] /\ backlog'[m][j] = backlog[m][j]
      <3>1. CASE backlog'[m] = backlog[m]
        BY <3>1
      <3>2. CASE backlog'[m] = Append(backlog[m], x)
        <4> HIDE DEF m
        <4>1. Len(backlog'[m]) = Len(backlog[m]) + 1
          BY <2>4, <3>2
        <4>2. \A n \in 1..Len(backlog[m]) : backlog'[m][n] = backlog[m][n]
          BY <2>4, <3>2
        <4> QED
          BY <2>4, <4>1, <4>2
      <3> QED
        BY <2>3, <3>1, <3>2
    <2> QED
      BY <2>1, <2>5 DEF Ahead
  <1> QED
    BY <1>2, <1>3

\* Only the one being served can have a request among the open ones.
LEMMA ServedStep ==
    ASSUME ServerInv, ServedInv, [Next]_vars
    PROVE  ServedInv'
  <1> USE DEF ServerInv, ServedInv
  <1>1. CASE Daemon /\ \A l \in Listeners : ~kvdb_accept(l)
    <2>1. CASE pc' = "down"
      <3>1. UNCHANGED <<cli, cur, fds, req>>
        BY <1>1, <2>1 DEF Daemon, kvdb_bind, kvdb_init, kvdb_load, kvdb_load_open, kvdb_load_line,
           kvdb_load_close, kvdb_load_return, AfterLoad, kvdb_loop, kvdb_loop_start, kvdb_loop_top,
           epoll_wait,
           epoll_timeout, kvdb_accept_fail, kvdb_monitor_close, kvdb_monitor_close_freed,
           kvdb_client, kvdb_client_fail, kvdb_client_set, kvdb_client_delete, kvdb_client_get,
           kvdb_client_list, kvdb_client_commit, kvdb_client_reload, kvdb_client_monitor,
           kvdb_monitor_notify, kvdb_list_consume, kvdb_client_out, Modify, Handled
      <3> QED
        BY <3>1
    <2>2. CASE cur' = cur /\ fds' \subseteq fds
      BY <1>1, <2>2, DaemonShape DEF TypeInv, TypeOK
    <2>3. CASE cur \in Conns /\ cur' = NoConn /\ req'[cur] = NoReq /\ fds' \subseteq fds
               /\ (kvdb_client_out \/ kvdb_client_monitor)
      <3>1. cli' = cli /\ \A c \in Conns : c # cur => req'[c] = req[c]
        BY <1>1, DaemonShape
      <3>2. CASE kvdb_client_out
        BY <2>3, <3>1, <3>2 DEF kvdb_client_out, TypeInv, TypeOK
      <3>3. CASE kvdb_client_monitor
        <4>1. cli[cur] # "connected"
          BY <2>3, <3>3 DEF kvdb_client_monitor, Serves, RequestInv, ConnectedInv
        <4> QED
          BY <2>3, <3>1, <4>1 DEF TypeInv, TypeOK
      <3> QED
        BY <2>3, <3>2, <3>3
    <2> QED
      BY <1>1, <2>1, <2>2, <2>3, DaemonShape
  <1>2. ASSUME NEW l \in Listeners, kvdb_accept(l) PROVE ServedInv'
    <2>1. cur = NoConn /\ fds' = fds \cup {cur'} /\ cli' = cli /\ req' = req
      BY <1>2 DEF kvdb_accept, OwnersInv
    <2> QED
      BY <2>1, SocketsAssumption DEF TypeInv, TypeOK
  <1>3. ASSUME NEW c \in Conns, Client(c) PROVE ServedInv'
    <2>1. CASE property_connect(c)
      BY <2>1 DEF property_connect, Dropped, TypeInv, TypeOK
    <2>2. ASSUME NEW r \in Requests, property_send(c, r) PROVE ServedInv'
      BY <2>2 DEF property_send, TypeInv, TypeOK
    <2>3. CASE property_recv(c) \/ property_monitor_read(c) \/ property_eof(c) \/ property_close(c)
      BY <2>3 DEF property_recv, property_monitor_read, property_eof, property_close, Closed,
                  TypeInv, TypeOK
    <2> QED
      BY <1>3, <2>1, <2>2, <2>3 DEF Client
  <1>4. CASE PowerCycle
    BY <1>4 DEF PowerCycle
  <1>5. CASE Tick \/ UNCHANGED vars
    BY <1>5 DEF Tick, vars
  <1> QED
    BY <1>1, <1>2, <1>3, <1>4, <1>5 DEF Next

\* What the daemon changes in the store, and for whom.
LEMMA CacheShape ==
    ASSUME ServerInv, Daemon, NEW k \in Keys, cache'[k] # cache[k]
    PROVE  \/ pc = "load"
           \/ pc = "recv" /\ Changes(cur) /\ req[cur].key = k /\ req'[cur] = NoReq
  <1> USE DEF ServerInv
  <1>1. CASE kvdb_client_set \/ kvdb_client_delete
    <2>1. pc = "recv" /\ req[cur] # NoReq /\ req[cur].op \in {"S", "D"}
          /\ req' = [req EXCEPT ![cur] = NoReq]
      BY <1>1 DEF kvdb_client_set, kvdb_client_delete, Serves, Modify, Handled
    <2>2. cur \in Conns
      BY <2>1 DEF TypeInv, TypeOK, CurOK
    <2>3. req'[cur] = NoReq
      BY <2>1, <2>2 DEF TypeInv, TypeOK
    <2>4. cache' = cache \/ \E v : cache' = Written(cache, req[cur].key, v)
      BY <1>1 DEF kvdb_client_set, kvdb_client_delete, Modify, Change
    <2>5. req[cur].key = k
      BY <2>4 DEF Written, TypeInv, TypeOK, Image
    <2> QED
      BY <2>1, <2>3, <2>5 DEF Changes
  <1>2. CASE kvdb_load_line
    BY <1>2 DEF kvdb_load_line
  <1>3. CASE ~(kvdb_client_set \/ kvdb_client_delete \/ kvdb_load_line)
    <2>1. cache' = cache
      BY <1>3 DEF Daemon, kvdb_bind, kvdb_init, kvdb_load, kvdb_load_open,
           kvdb_load_close, kvdb_load_return, kvdb_loop, kvdb_loop_start, kvdb_loop_top, epoll_wait,
           epoll_timeout, kvdb_accept, kvdb_accept_fail, kvdb_monitor_close, kvdb_monitor_close_freed,
           kvdb_client, kvdb_client_fail, kvdb_client_get,
           kvdb_client_list, kvdb_client_commit, kvdb_client_reload, kvdb_client_monitor,
           kvdb_monitor_notify, kvdb_list_consume, kvdb_client_out
    <2> QED
      BY <2>1
  <1> QED
    BY <1>1, <1>2, <1>3

\* Only keys that belong to a database get a value.
LEMMA BackedStep ==
    ASSUME ServerInv, BackedInv, [Next]_vars
    PROVE  BackedInv'
  <1> USE DEF ServerInv, BackedInv
  <1>1. \A img, k, v, f : kvdb_set(img, k, v, f) => kvdb_get_index(k) \in Databases
    BY BackendAssumption DEF kvdb_set, unqlite_kvdb_set, nvs_kvdb_set, file_kvdb_set
  <1>2. \A k, v : cache' = Written(cache, k, v) /\ (v = Absent \/ kvdb_get_index(k) \in Databases)
            => BackedInv'
    BY DEF Written, TypeInv, TypeOK, Image
  <1>3. CASE kvdb_client_set
    <2>1. \/ cache' = cache
          \/ cache' = Written(cache, req[cur].key, req[cur].val) /\ kvdb_get_index(req[cur].key) \in Databases
      BY <1>1, <1>3 DEF kvdb_client_set, Modify, Change, Outcomes
    <2> QED
      BY <1>2, <2>1
  <1>4. CASE kvdb_client_delete
    <2>1. cache' = cache \/ cache' = Written(cache, req[cur].key, Absent)
      BY <1>4 DEF kvdb_client_delete, Modify, Change
    <2> QED
      BY <1>2, <2>1
  <1>5. CASE kvdb_load_line
    <2>1. PICK k, v : cache' = cache \/ (cache' = Written(cache, k, v) /\ kvdb_get_index(k) \in Databases)
      BY <1>1, <1>5 DEF kvdb_load_line, Outcomes
    <2> QED
      BY <1>2, <2>1
  <1>6. CASE PowerCycle
    <2>1. PICK dsk : cache' = AfterPowerOff(dsk)
      BY <1>6 DEF PowerCycle
    <2> QED
      BY <2>1 DEF AfterPowerOff, Databases
  <1>7. CASE ~(kvdb_client_set \/ kvdb_client_delete \/ kvdb_load_line \/ PowerCycle)
    <2>1. cache' = cache
      <3>1. CASE Daemon
        BY <1>7, <3>1 DEF Daemon, kvdb_bind, kvdb_init, kvdb_load, kvdb_load_open,
           kvdb_load_close, kvdb_load_return, kvdb_loop, kvdb_loop_start, kvdb_loop_top, epoll_wait,
           epoll_timeout, kvdb_accept, kvdb_accept_fail, kvdb_monitor_close, kvdb_monitor_close_freed,
           kvdb_client, kvdb_client_fail, kvdb_client_get,
           kvdb_client_list, kvdb_client_commit, kvdb_client_reload, kvdb_client_monitor,
           kvdb_monitor_notify, kvdb_list_consume, kvdb_client_out
      <3>2. ASSUME NEW c \in Conns, Client(c) PROVE cache' = cache
        BY <3>2 DEF Client, property_connect, property_send, property_recv,
               property_monitor_read, property_eof,
                    property_close
      <3>3. CASE Tick \/ UNCHANGED vars
        BY <3>3 DEF Tick, vars
      <3> QED
        BY <1>7, <3>1, <3>2, <3>3 DEF Next
    <2> QED
      BY <2>1
  <1> QED
    BY <1>3, <1>4, <1>5, <1>6, <1>7

-----------------------------------------------------------------------------
(* Whose the requests are *)

\* The connection of a call belongs to its process.
OwnerInv ==
    /\ owner = [c \in Conns |-> owner[c]]
    /\ \A p \in Procs : \A i \in 1..Len(stack[p]) :
        stack[p][i].conn # NoConn => owner[stack[p][i].conn] = p

\* Nothing has been done yet about a request that waits, or is to come.
FreshInv ==
    \A c \in Conns : Unused(c) \/ cli[c] = "connected" \/ req[c] # NoReq => did[c] = "nothing"

OwnType == own = [p \in Procs |-> [k \in Keys |-> own[p][k]]]

\* A get, a set or a delete of process p that has a request to be served.
InLine(p) ==
    /\ stack[p] # <<>> /\ Op(p) \in {"S", "D", "G"}
    /\ Top(p).at = "send" \/ (Top(p).at = "recv" /\ req[Conn(p)] # NoReq)

\* One that waits for its connection is not in line yet, nor are other calls.
OutOfLine(p) ==
    stack[p] # <<>> => Op(p) \notin {"S", "D", "G"} \/ Top(p).at = "connect"

\* The steps of a call but those that connect and send.
LEMMA QuietSteps ==
    ASSUME CallsInv, NEW q \in Procs, ProcStep(q), ~call_connect(q), ~call_send(q)
    PROVE  /\ \/ UNCHANGED vars
              \/ Conn(q) \in Conns /\ \/ property_close(Conn(q)) \/ property_eof(Conn(q))
                                      \/ property_recv(Conn(q)) \/ property_monitor_read(Conn(q))
           /\ \/ History
              \/ UNCHANGED <<owner, did, own>> /\ (UNCHANGED vars \/ property_monitor_read(Conn(q)))
           /\ OutOfLine(q)'
           /\ \A r \in Procs : r # q => stack'[r] = stack[r]
           /\ \A i \in 1..Len(stack'[q]) :
                stack'[q][i].conn = NoConn
                  \/ (i \in 1..Len(stack[q]) /\ stack'[q][i].conn = stack[q][i].conn)
  <1> USE DEF CallsInv
  <1>1. ASSUME stack[q] # <<>>, NEW c, NEW a, GoesOn(q, c, a), c = NoConn \/ c = Conn(q),
               a = "connect" \/ Op(q) \notin {"S", "D", "G"}
        PROVE  /\ OutOfLine(q)'
               /\ \A r \in Procs : r # q => stack'[r] = stack[r]
               /\ \A i \in 1..Len(stack'[q]) :
                stack'[q][i].conn = NoConn
                  \/ (i \in 1..Len(stack[q]) /\ stack'[q][i].conn = stack[q][i].conn)
    <2> DEFINE n == Len(stack[q])
    <2>1. /\ Len(stack'[q]) = n /\ stack'[q][n] = Moved(Top(q), c, a) /\ n \in Nat \ {0}
          /\ \A i \in 1..(n - 1) : stack'[q][i] = stack[q][i]
          /\ \A r \in Procs : r # q => stack'[r] = stack[r]
      BY <1>1, GoesOnShape
    <2>2. Top(q) \in Frames /\ Op(q) = OpOf(Top(q)) /\ Conn(q) = stack[q][n].conn
      BY <1>1, TopInv DEF Top
    <2>3. Moved(Top(q), c, a).conn = c /\ Moved(Top(q), c, a).at = a /\ OpOf(Moved(Top(q), c, a)) = Op(q)
      BY <2>2, MovedFields
    <2>4. OutOfLine(q)'
      BY <1>1, <2>1, <2>3 DEF OutOfLine, Op, Top, OpOf
    <2>5. ASSUME NEW i \in 1..n, stack'[q][i].conn # NoConn PROVE stack'[q][i].conn = stack[q][i].conn
      <3>1. i = n \/ i \in 1..(n - 1)
        BY <2>1
      <3> QED
        BY <1>1, <2>1, <2>2, <2>3, <2>5, <3>1
    <2> QED
      BY <2>1, <2>4, <2>5
  <1>2. ASSUME stack[q] # <<>>, NEW r, NEW v, Returns(q, r, v)
        PROVE  /\ OutOfLine(q)'
               /\ \A t \in Procs : t # q => stack'[t] = stack[t]
               /\ \A i \in 1..Len(stack'[q]) :
                stack'[q][i].conn = NoConn
                  \/ (i \in 1..Len(stack[q]) /\ stack'[q][i].conn = stack[q][i].conn)
    <2> DEFINE n == Len(stack[q])
    <2>1. /\ Len(stack'[q]) = n - 1 /\ n \in Nat \ {0}
          /\ \A i \in 1..(n - 1) : stack'[q][i] = stack[q][i]
          /\ \A t \in Procs : t # q => stack'[t] = stack[t]
      BY <1>2, ReturnsShape
    <2>2. n <= 2 /\ (n = 2 => OpOf(stack[q][1]) \in {"L", "M"})
      BY DEF CallInv, DepthInv
    <2>3. ASSUME stack'[q] # <<>> PROVE Op(q)' \in {"L", "M"}
      <3>1. stack'[q] \in Seq(Frames)
        <4>1. SysNext
          BY SMT DEF SysNext
        <4>2. StackInv'
          BY <4>1, SystemSteps
        <4> QED
          BY <4>2 DEF StackInv
      <3>2. Len(stack'[q]) # 0
        BY <2>3, <3>1
      <3>3. n = 2
        <4>1. \A m \in Nat \ {0} : m <= 2 /\ m - 1 # 0 => m = 2
          OBVIOUS
        <4> HIDE DEF n
        <4> QED
          BY <2>1, <2>2, <3>2, <4>1
      <3>4. Top(q)' = stack[q][1]
        BY <2>1, <3>3 DEF Top
      <3> QED
        BY <2>2, <3>3, <3>4 DEF Op, OpOf
    <2> QED
      BY <2>1, <2>3 DEF OutOfLine
  <1>3. ASSUME UNCHANGED stack, Op(q) \notin {"S", "D", "G"} PROVE OutOfLine(q)'
    BY <1>3 DEF OutOfLine, Op, Top
  <1>4. CASE call_connect_fail(q)
    BY <1>2, <1>4 DEF call_connect_fail, At
  <1>5. CASE call_send_fail(q)
    <2>1. stack[q] # <<>> /\ Conn(q) \in Conns
      BY <1>5, CallHasConn DEF call_send_fail
    <2> QED
      BY <1>1, <1>2, <1>5, <2>1 DEF call_send_fail
  <1>6. CASE call_close(q) \/ call_timeout(q) \/ property_wait_timeout(q) \/ monitor_close(q)
    <2>1. stack[q] # <<>> /\ Conn(q) \in Conns
      BY <1>6, CallHasConn
         DEF call_close, call_timeout, property_wait_timeout, monitor_close
    <2>2. property_close(Conn(q)) /\ History /\ \E r : Returns(q, r, Absent)
      BY <1>6 DEF call_close, call_timeout, TimeoutCloses, property_wait_timeout, monitor_close
    <2> QED
      BY <1>2, <2>1, <2>2
  <1>7. CASE call_eof(q)
    <2>1. stack[q] # <<>> /\ Conn(q) \in Conns
      BY <1>7, CallHasConn DEF call_eof
    <2>2. property_eof(Conn(q)) /\ History /\ \E r : Returns(q, r, Absent)
      BY <1>7 DEF call_eof
    <2> QED
      BY <1>2, <2>1, <2>2
  <1>8. CASE call_recv_status(q) \/ property_get_recv(q)
    <2>1. stack[q] # <<>> /\ Conn(q) \in Conns
      BY <1>8, CallHasConn DEF call_recv_status, property_get_recv, Receives
    <2>2. property_recv(Conn(q)) /\ History /\ \E r, v : Returns(q, r, v)
      BY <1>8 DEF call_recv_status, property_get_recv, Receives
    <2> QED
      BY <1>2, <2>1, <2>2
  <1>9. CASE property_list_recv(q) \/ property_monitor_open_recv(q)
    <2>1. stack[q] # <<>> /\ Conn(q) \in Conns
      BY <1>9, CallHasConn DEF property_list_recv, property_monitor_open_recv, Receives
    <2>2. /\ property_recv(Conn(q)) /\ History /\ Op(q) \in {"L", "M"}
          /\ (\E r, v : Returns(q, r, v)) \/ (\E a : GoesOn(q, Conn(q), a))
      BY <1>9 DEF property_list_recv, property_monitor_open_recv, Receives
    <2> QED
      BY <1>1, <1>2, <2>1, <2>2
  <1>10. CASE callback_return(q)
    <2>1. stack[q] # <<>> /\ Conn(q) \in Conns /\ Top(q).at = "callback"
      BY <1>10, CallHasConn DEF callback_return, At
    <2>2. GoesOn(q, Conn(q), "recv") /\ UNCHANGED <<vars, owner, did, own>>
      BY <1>10 DEF callback_return, histVars
    <2>3. Op(q) = "L"
      BY <2>1, TopInv DEF FrameInv
    <2> QED
      BY <1>1, <2>1, <2>2, <2>3
  <1>11. CASE property_wait_read(q)
    <2>1. stack[q] # <<>> /\ Conn(q) \in Conns /\ Top(q).at = "poll"
      BY <1>11, CallHasConn DEF property_wait_read, At
    <2>2. GoesOn(q, Conn(q), "close") /\ History /\ property_monitor_read(Conn(q))
      BY <1>11 DEF property_wait_read
    <2>3. Op(q) = "M"
      BY <2>1, TopInv DEF FrameInv
    <2> QED
      BY <1>1, <2>1, <2>2, <2>3
  <1>12. CASE monitor_read(q)
    <2>1. stack[q] # <<>> /\ Conn(q) \in Conns /\ Top(q).at = "monitoring"
      BY <1>12, CallHasConn DEF monitor_read, At
    <2>2. UNCHANGED <<stack, owner, did, own>> /\ property_monitor_read(Conn(q))
      BY <1>12 DEF monitor_read, histVars
    <2>3. Op(q) = "M"
      BY <2>1, TopInv DEF FrameInv
    <2> QED
      BY <1>3, <2>1, <2>2, <2>3
  <1>13. CASE Begin(q)
    <2>1. PICK call :
            stack' = [stack EXCEPT ![q] =
                        Append(Resumed(@), [call |-> call, conn |-> NoConn, at |-> "connect"])]
      BY <1>13 DEF Begin
    <2> DEFINE f == [call |-> call, conn |-> NoConn, at |-> "connect"]
               s == Resumed(stack[q])
    <2>2. UNCHANGED <<vars, owner, did, own>>
      BY <1>13 DEF Begin
    <2>3. /\ stack'[q] = Append(s, f) /\ \A r \in Procs : r # q => stack'[r] = stack[r]
      BY <2>1 DEF StackInv
    <2>4. /\ s \in Seq(Frames) /\ Len(s) = Len(stack[q])
          /\ \A i \in 1..Len(s) : s[i].conn = stack[q][i].conn
      <3>1. CASE stack[q] # <<>> /\ Top(q).at = "callback"
        <4> DEFINE n == Len(stack[q])
                   g == [stack[q][n] EXCEPT !.at = "recv"]
        <4>1. n \in 1..n /\ n \in Nat /\ Top(q) \in Frames /\ stack[q][n] = Top(q) /\ stack[q] \in Seq(Frames)
          BY <3>1, TopFrame DEF StackInv, Top, FrameOK
        <4>2. g \in Frames /\ g.conn = stack[q][n].conn
          BY <4>1 DEF Frames, Ats
        <4>3. s = [stack[q] EXCEPT ![n] = g]
          BY <3>1 DEF Resumed, WithTop, Top
        <4> HIDE DEF g, s
        <4>4. s \in Seq(Frames) /\ Len(s) = n /\ \A i \in 1..n : s[i] = IF i = n THEN g ELSE stack[q][i]
          BY <4>1, <4>2, <4>3
        <4> QED
          BY <4>2, <4>4
      <3>2. CASE ~(stack[q] # <<>> /\ Top(q).at = "callback")
        BY <3>2 DEF Resumed, Top, StackInv
      <3> QED
        BY <3>1, <3>2
    <2>5. f.conn = NoConn /\ f.at = "connect"
      OBVIOUS
    <2> HIDE DEF f, s
    <2>6. /\ Len(stack'[q]) = Len(s) + 1 /\ stack'[q][Len(s) + 1] = f
          /\ \A i \in 1..Len(s) : stack'[q][i] = s[i]
      BY <2>3, <2>4
    <2>7. Len(s) \in Nat
      BY <2>4
    <2>8. OutOfLine(q)'
      BY <2>5, <2>6 DEF OutOfLine, Top
    <2>9. ASSUME NEW i \in 1..Len(stack'[q]), stack'[q][i].conn # NoConn
          PROVE  i \in 1..Len(stack[q]) /\ stack'[q][i].conn = stack[q][i].conn
      <3>1. i \in 1..Len(s)
        BY <2>5, <2>6, <2>7, <2>9
      <3> QED
        BY <2>4, <2>6, <3>1
    <2> QED
      BY <2>2, <2>3, <2>8, <2>9
  <1> QED
    BY <1>4, <1>5, <1>6, <1>7, <1>8, <1>9, <1>10, <1>11, <1>12, <1>13 DEF ProcStep, Works

\* What they leave alone.
LEMMA QuietKeeps ==
    ASSUME CallsInv, NEW q \in Procs, ProcStep(q), ~call_connect(q), ~call_send(q)
    PROVE  /\ UNCHANGED <<cache, pc, backlog, cur, reply, fds, own, req>>
           /\ \A d \in Conns : d # Conn(q) => cli'[d] = cli[d] /\ inbox'[d] = inbox[d]
           /\ \A d \in Conns : cli'[d] = "connected" => cli[d] = "connected"
           /\ \A d \in Conns : ~Unused(d)' => owner'[d] = owner[d]
           /\ \A d \in Conns : did'[d] = did[d] \/ (Unused(d)' /\ did'[d] = "nothing")
           /\ \A d \in Conns : Unused(d)' => Unused(d) \/ did'[d] = "nothing"
  <1> USE DEF CallsInv, ServerInv
  <1>1. /\ \/ UNCHANGED vars
           \/ Conn(q) \in Conns /\ \/ property_close(Conn(q)) \/ property_eof(Conn(q))
                                   \/ property_recv(Conn(q)) \/ property_monitor_read(Conn(q))
        /\ \/ History
           \/ UNCHANGED <<owner, did, own>> /\ (UNCHANGED vars \/ property_monitor_read(Conn(q)))
    BY QuietSteps
  <1>2. own' = own
    BY <1>1 DEF History
  <1>3. UNCHANGED <<cache, pc, backlog, cur, reply, fds, req>>
    BY <1>1 DEF property_close, property_eof, property_recv, property_monitor_read, vars
  <1>4. \A d \in Conns : d # Conn(q) => cli'[d] = cli[d] /\ inbox'[d] = inbox[d]
    BY <1>1, TouchesOne DEF Touches, vars
  <1>5. \A d \in Conns : cli'[d] = "connected" => cli[d] = "connected"
    <2>1. CASE UNCHANGED vars \/ property_monitor_read(Conn(q))
      BY <2>1 DEF vars, property_monitor_read
    <2>2. CASE /\ Conn(q) \in Conns
               /\ property_close(Conn(q)) \/ property_eof(Conn(q)) \/ property_recv(Conn(q))
      <3>1. cli'[Conn(q)] # "connected"
        BY <2>2 DEF property_close, property_eof, property_recv, Closed, TypeInv, TypeOK
      <3> QED
        BY <1>4, <3>1
    <2> QED
      BY <1>1, <2>1, <2>2
  <1>6. CASE History
    <2>1. \A d \in Conns : /\ owner'[d] = IF Unused(d)' THEN NoProc ELSE owner[d]
                           /\ did'[d] = IF Unused(d)' THEN "nothing" ELSE did[d]
      BY <1>6 DEF History, Remember
    <2> QED
      BY <1>2, <1>3, <1>4, <1>5, <2>1
  <1>7. CASE UNCHANGED <<owner, did, own>> /\ (UNCHANGED vars \/ property_monitor_read(Conn(q)))
    <2>1. \A d \in Conns : Unused(d)' => Unused(d)
      BY <1>7 DEF vars, property_monitor_read, Unused, Dropped
    <2> QED
      BY <1>2, <1>3, <1>4, <1>5, <1>7, <2>1
  <1> QED
    BY <1>1, <1>6, <1>7

\* A call gets a connection that carries nothing, and it is its own.
LEMMA Connects ==
    ASSUME CallsInv, OwnerInv, NEW p \in Procs, call_connect(p)
    PROVE  \E c \in Conns :
             /\ stack[p] # <<>> /\ Top(p).at = "connect" /\ GoesOn(p, c, "send")
             /\ property_connect(c) /\ cli'[c] = "connected"
             /\ Unused(c) /\ req[c] = NoReq /\ c # cur /\ owner'[c] = p
             /\ \A d \in Conns : d # c /\ ~Unused(d)' => owner'[d] = owner[d]
             /\ \A d \in Conns : did'[d] = IF Unused(d)' THEN "nothing" ELSE did[d]
             /\ \A d \in Conns : d # c => cli'[d] = cli[d]
             /\ UNCHANGED <<cache, pc, cur, reply, fds, own, req, inbox>> /\ ~Stopped
             /\ backlog' = [backlog EXCEPT ![ListenerOf[c]] = Append(@, c)]
  <1> USE DEF CallsInv, ServerInv
  <1>1. PICK c \in Conns : c = NewConn /\ Unused(c)
    BY DEF call_connect, NewConn
  <1>2. /\ stack[p] # <<>> /\ Top(p).at = "connect" /\ GoesOn(p, c, "send") /\ property_connect(c)
        /\ Remember([owner EXCEPT ![c] = p], did) /\ UNCHANGED own
    BY <1>1 DEF call_connect, At
  <1>3. /\ c \notin fds /\ ~Stopped /\ Dropped(c)
        /\ cli' = [cli EXCEPT ![c] = "connected"]
        /\ UNCHANGED <<cache, pc, cur, reply, fds, own, req, inbox>>
        /\ backlog' = [backlog EXCEPT ![ListenerOf[c]] = Append(@, c)]
    BY <1>2 DEF property_connect, Dropped
  <1>4. /\ cli'[c] = "connected" /\ req[c] = NoReq /\ c # cur
        /\ \A d \in Conns : d # c => cli'[d] = cli[d]
    BY <1>3, SocketsAssumption DEF TypeInv, TypeOK, RequestInv, DroppedInv, OwnersInv
  <1>5. \A d \in Conns : /\ owner'[d] = IF Unused(d)' THEN NoProc ELSE [owner EXCEPT ![c] = p][d]
                         /\ did'[d] = IF Unused(d)' THEN "nothing" ELSE did[d]
    BY <1>2 DEF Remember
  <1>6. owner'[c] = p /\ \A d \in Conns : d # c /\ ~Unused(d)' => owner'[d] = owner[d]
    BY <1>4, <1>5 DEF OwnerInv, Unused
  <1> QED
    BY <1>1, <1>2, <1>3, <1>4, <1>5, <1>6

\* The daemon's step forgets only the connections nobody uses any more.
LEMMA DaemonKeeps ==
    ASSUME CallsInv, OwnerInv, DaemonStep
    PROVE  /\ stack' = stack /\ cli' = cli /\ owner' = [c \in Conns |-> owner'[c]]
           /\ \A d \in Conns : ~Unused(d)' => owner'[d] = owner[d]
           /\ \A d \in Conns : did'[d] = IF Unused(d)' THEN "nothing" ELSE DidNow[d]
           /\ \A d \in Conns : ~Stopped' /\ req'[d] # NoReq => ~Unused(d)'
  <1>1. stack' = stack /\ cli' = cli
    BY DaemonHistory
  <1>2. CallsInv'
    BY CallsStep DEF SysNext
  <1>3. \A d \in Conns : ~Stopped' /\ req'[d] # NoReq => ~Unused(d)'
    BY <1>2 DEF CallsInv, ServerInv, RequestInv, DroppedInv, Unused
  <1> QED
    BY <1>1, <1>3 DEF DaemonStep, Remember

\* Every step keeps the owners in order.
LEMMA OwnerStep ==
    ASSUME CallsInv, OwnerInv, [SysNext]_sysVars
    PROVE  OwnerInv'
  <1>1. CallsInv'
    BY CallsStep
  <1>2. ASSUME NEW p \in Procs, NEW i \in 1..Len(stack'[p]), NEW c, c = stack'[p][i].conn, c # NoConn
        PROVE  c \in Conns /\ ~Unused(c)'
    <2>1. (FrameOK(stack[p][i]) /\ FrameInv(stack[p][i]))'
      BY <1>1, <1>2 DEF CallsInv, CallInv, StackInv, FramesInv
    <2> QED
      BY <1>2, <2>1 DEF FrameOK, FrameInv, Unused, Frames, Ats
  <1>3. CASE UNCHANGED sysVars \/ TimeStep
    BY <1>3 DEF sysVars, TimeStep, histVars, OwnerInv
  <1>4. CASE DaemonStep
    <2>1. ASSUME NEW p \in Procs, NEW i \in 1..Len(stack'[p]), stack'[p][i].conn # NoConn
          PROVE  owner'[stack'[p][i].conn] = p
      <3>1. PICK c \in Conns : c = stack'[p][i].conn /\ ~Unused(c)'
        BY <1>2, <2>1
      <3> QED
        BY <1>4, <2>1, <3>1, DaemonKeeps DEF OwnerInv
    <2> QED
      BY <1>4, <2>1, DaemonKeeps DEF OwnerInv
  <1>5. CASE PowerStep
    BY <1>5 DEF PowerStep, OwnerInv
  <1>6. ASSUME NEW q \in Procs, call_connect(q) PROVE OwnerInv'
    <2>1. PICK x \in Conns :
             /\ stack[q] # <<>> /\ GoesOn(q, x, "send") /\ owner'[x] = q
             /\ Unused(x) /\ \A d \in Conns : d # x /\ ~Unused(d)' => owner'[d] = owner[d]
      BY <1>6, Connects
    <2> DEFINE n == Len(stack[q])
    <2>2. /\ Len(stack'[q]) = n /\ stack'[q][n] = Moved(Top(q), x, "send") /\ n \in Nat \ {0}
          /\ \A i \in 1..(n - 1) : stack'[q][i] = stack[q][i]
          /\ \A r \in Procs : r # q => stack'[r] = stack[r]
      BY <2>1, GoesOnShape DEF CallsInv
    <2>3. stack'[q][n].conn = x
      BY <2>1, <2>2, TopInv, MovedFields
    <2>4. ASSUME NEW p \in Procs, NEW i \in 1..Len(stack'[p]), stack'[p][i].conn # NoConn
          PROVE  owner'[stack'[p][i].conn] = p
      <3>1. PICK c \in Conns : c = stack'[p][i].conn /\ ~Unused(c)'
        BY <1>2, <2>4
      <3>2. CASE p = q /\ i = n
        BY <2>1, <2>3, <3>2
      <3>3. CASE ~(p = q /\ i = n)
        <4>1. i \in 1..Len(stack[p]) /\ stack'[p][i] = stack[p][i]
          BY <2>2, <2>4, <3>3
        <4>2. stack[p][i].conn # x
          BY <2>1, <2>4, <4>1, CallIsOpen DEF Unused
        <4>3. owner[c] = p
          BY <2>4, <3>1, <4>1 DEF OwnerInv
        <4>4. owner'[c] = owner[c]
          BY <2>1, <3>1, <4>1, <4>2
        <4> QED
          BY <3>1, <4>3, <4>4
      <3> QED
        BY <3>2, <3>3
    <2>5. owner' = [c \in Conns |-> owner'[c]]
      BY <1>6 DEF call_connect, Remember
    <2> QED
      BY <2>4, <2>5 DEF OwnerInv
  <1>7. ASSUME NEW q \in Procs, call_send(q) PROVE OwnerInv'
    <2>1. stack[q] # <<>> /\ GoesOn(q, Conn(q), AfterSend(q)) /\ owner' = owner
      BY <1>7 DEF call_send, At
    <2> DEFINE n == Len(stack[q])
    <2>2. /\ Len(stack'[q]) = n /\ stack'[q][n] = Moved(Top(q), Conn(q), AfterSend(q)) /\ n \in Nat \ {0}
          /\ \A i \in 1..(n - 1) : stack'[q][i] = stack[q][i]
          /\ \A r \in Procs : r # q => stack'[r] = stack[r]
      BY <2>1, GoesOnShape DEF CallsInv
    <2>3. stack'[q][n].conn = stack[q][n].conn
      BY <2>1, <2>2, TopInv, MovedFields DEF Top
    <2>4. ASSUME NEW p \in Procs, NEW i \in 1..Len(stack'[p]), stack'[p][i].conn # NoConn
          PROVE  owner'[stack'[p][i].conn] = p
      <3>1. i \in 1..Len(stack[p]) /\ stack'[p][i].conn = stack[p][i].conn
        BY <2>2, <2>3, <2>4
      <3> QED
        BY <2>1, <2>4, <3>1 DEF OwnerInv
    <2> QED
      BY <2>1, <2>4 DEF OwnerInv
  <1>8. ASSUME NEW q \in Procs, ProcStep(q), ~call_connect(q), ~call_send(q) PROVE OwnerInv'
    <2>1. /\ \A r \in Procs : r # q => stack'[r] = stack[r]
          /\ \A i \in 1..Len(stack'[q]) :
                stack'[q][i].conn = NoConn
                  \/ (i \in 1..Len(stack[q]) /\ stack'[q][i].conn = stack[q][i].conn)
      BY <1>8, QuietSteps
    <2>2. ASSUME NEW p \in Procs, NEW i \in 1..Len(stack'[p]), stack'[p][i].conn # NoConn
          PROVE  owner'[stack'[p][i].conn] = p
      <3>1. i \in 1..Len(stack[p]) /\ stack'[p][i].conn = stack[p][i].conn
        BY <2>1, <2>2
      <3>2. PICK c \in Conns : c = stack'[p][i].conn /\ ~Unused(c)'
        BY <1>2, <2>2
      <3>3. owner[c] = p
        BY <2>2, <3>1, <3>2 DEF OwnerInv
      <3>4. owner'[c] = owner[c]
        BY <1>8, <3>2, QuietKeeps
      <3> QED
        BY <3>2, <3>3, <3>4
    <2>3. owner' = [c \in Conns |-> owner'[c]]
      BY <1>8, QuietSteps DEF History, Remember, OwnerInv
    <2> QED
      BY <2>2, <2>3 DEF OwnerInv
  <1> QED
    BY <1>3, <1>4, <1>5, <1>6, <1>7, <1>8 DEF SysNext

\* A call that sends has been given its connection, and only that changes.
LEMMA SendsOne ==
    ASSUME CallsInv, NEW q \in Procs, call_send(q)
    PROVE  /\ stack[q] # <<>> /\ Top(q).at = "send" /\ GoesOn(q, Conn(q), AfterSend(q))
           /\ Conn(q) \in Conns /\ Conn(q) # NoConn /\ Top(q).call.req \in Requests
           /\ cli[Conn(q)] = "connected" /\ req[Conn(q)] = NoReq
           /\ req'[Conn(q)] = Top(q).call.req /\ cli'[Conn(q)] = "sent"
           /\ \A d \in Conns : d # Conn(q) => req'[d] = req[d] /\ cli'[d] = cli[d]
           /\ UNCHANGED <<cache, pc, backlog, cur, reply, fds, inbox, owner, did>>
  <1> USE DEF CallsInv, ServerInv
  <1>1. stack[q] # <<>> /\ Conn(q) \in Conns /\ Top(q).call.req \in Requests
    BY CallHasConn DEF call_send
  <1>2. PICK c \in Conns : c = Conn(q)
    BY <1>1
  <1>3. property_send(c, Top(q).call.req)
    BY <1>2 DEF call_send
  <1>4. cli[c] = "connected" /\ req[c] = NoReq
    BY <1>3 DEF property_send, RequestInv, ConnectedInv
  <1>5. /\ req'[c] = Top(q).call.req /\ cli'[c] = "sent"
        /\ \A d \in Conns : d # c => req'[d] = req[d] /\ cli'[d] = cli[d]
    BY <1>3 DEF property_send, TypeInv, TypeOK
  <1>6. UNCHANGED <<cache, pc, backlog, cur, reply, fds, inbox, owner, did>>
    BY <1>3 DEF property_send, call_send
  <1> QED
    BY <1>1, <1>2, <1>4, <1>5, <1>6, SocketsAssumption DEF call_send, At

\* The requests that wait have not been answered.
LEMMA FreshStep ==
    ASSUME CallsInv, OwnerInv, FreshInv, [SysNext]_sysVars
    PROVE  FreshInv'
  <1> USE DEF FreshInv
  <1>1. CASE UNCHANGED sysVars \/ TimeStep
    BY <1>1 DEF sysVars, vars, TimeStep, Tick, histVars, Unused, Dropped
  <1>2. CASE DaemonStep
    <2>1. ASSUME NEW d \in Conns, (Unused(d) \/ cli[d] = "connected" \/ req[d] # NoReq)'
          PROVE  did'[d] = "nothing"
      <3>1. cli' = cli /\ did'[d] = IF Unused(d)' THEN "nothing" ELSE DidNow[d]
        BY <1>2, DaemonKeeps
      <3>2. CASE ~Unused(d)'
        <4>1. d # cur \/ ~Takes
          BY <2>1, <3>1, <3>2 DEF Takes, CallsInv, ServerInv, RequestInv, ConnectedInv
        <4>2. DidNow[d] = did[d]
          BY <4>1 DEF DidNow, CallsInv, CallInv, HadInv
        <4>3. req'[d] = req[d] \/ req'[d] = NoReq
          BY <1>2, DaemonShape DEF DaemonStep, CallsInv
        <4> QED
          BY <2>1, <3>1, <3>2, <4>2, <4>3
      <3> QED
        BY <3>1, <3>2
    <2> QED
      BY <2>1
  <1>3. CASE PowerStep
    BY <1>3 DEF PowerStep
  <1>4. ASSUME NEW q \in Procs, call_connect(q) PROVE FreshInv'
    BY <1>4, Connects DEF Unused
  <1>5. ASSUME NEW q \in Procs, call_send(q) PROVE FreshInv'
    BY <1>5, SendsOne DEF Unused, Dropped
  <1>6. ASSUME NEW q \in Procs, ProcStep(q), ~call_connect(q), ~call_send(q) PROVE FreshInv'
    BY <1>6, QuietKeeps
  <1> QED
    BY <1>1, <1>2, <1>3, <1>4, <1>5, <1>6 DEF SysNext

\* What p has asked key k to be is what the key is, once nothing of it is
\* waiting; before that it is what its last request says.
Settled(p, k) ==
    /\ (\A c \in Conns : ~Pends(p, k, c)) => cache[k] = own[p][k]
    /\ \A c \in Conns : Pends(p, k, c) =>
          req[c].val = own[p][k] \/ \E d \in Conns : d # c /\ Pends(p, k, d) /\ Ahead(c, d)

OwnInv == ~Stopped => \A p \in Procs, k \in Keys : own[p][k] # Unknown => Settled(p, k)

\* A call in line is served after all that its process has asked for before.
BehindInv ==
    ~Stopped =>
        \A p \in Procs : InLine(p) =>
            \A d \in Conns : owner[d] = p /\ Changes(d) /\ d # Conn(p) => Ahead(d, Conn(p))

\* Steps that leave the requests of p for k and the key alone.
LEMMA StillSettled ==
    ASSUME NEW p, NEW k, Settled(p, k), cache'[k] = cache[k], own'[p][k] = own[p][k],
           \A c \in Conns : Pends(p, k, c)' <=> Pends(p, k, c),
           \A c \in Conns : Pends(p, k, c) => req'[c] = req[c],
           \A c, d \in Conns : Pends(p, k, c) /\ Pends(p, k, d) /\ d # c /\ Ahead(c, d) => Ahead(c, d)'
    PROVE  Settled(p, k)'
  BY DEF Settled

\* The daemon serves the requests of a process in their order.
LEMMA DaemonSettles ==
    ASSUME CallsInv, OwnerInv, DaemonStep, ~Stopped', NEW p \in Procs, NEW k \in Keys,
           own'[p][k] # Unknown, Settled(p, k)
    PROVE  Settled(p, k)'
  <1> USE DEF CallsInv
  <1>1. own'[p][k] = own[p][k] /\ ~Upset(p, k)
    BY DEF DaemonStep, OwnNow
  <1>2. /\ Daemon /\ (cur # NoConn => cur \in Conns)
        /\ \A c \in Conns : req'[c] = req[c] \/ (c = cur /\ req'[c] = NoReq)
    BY DaemonShape DEF DaemonStep
  <1>3. \A c \in Conns : req'[c] # NoReq => owner'[c] = owner[c]
    BY DaemonKeeps
  <1>4. \A c, d \in Conns : d # c /\ Ahead(c, d) /\ req'[c] # NoReq => Ahead(c, d)'
    BY <1>2, AheadDaemon
  <1>5. CASE Takes /\ Pends(p, k, cur)
    <2>1. cur \in Conns /\ req'[cur] = NoReq
      BY <1>2, <1>5 DEF Takes
    <2>2. cache'[k] = req[cur].val
      BY <1>1, <1>5 DEF Upset, Pends, Changes
    <2>3. \A c \in Conns : Pends(p, k, c)' <=> Pends(p, k, c) /\ c # cur
      BY <1>2, <1>3, <2>1 DEF Pends, Changes
    <2>4. ASSUME \A c \in Conns : ~Pends(p, k, c)' PROVE cache'[k] = own'[p][k]
      <3>1. \A c \in Conns : Pends(p, k, c) => c = cur
        BY <2>3, <2>4
      <3>2. req[cur].val = own[p][k]
        BY <1>5, <2>1, <3>1 DEF Settled
      <3> QED
        BY <1>1, <2>2, <3>2
    <2>5. ASSUME NEW c \in Conns, Pends(p, k, c)', req'[c].val # own'[p][k]
          PROVE  \E d \in Conns : d # c /\ Pends(p, k, d)' /\ Ahead(c, d)'
      <3>1. Pends(p, k, c) /\ c # cur /\ req'[c] = req[c] /\ req'[c] # NoReq
        BY <1>2, <2>3, <2>5 DEF Pends, Changes
      <3>2. PICK d \in Conns : d # c /\ Pends(p, k, d) /\ Ahead(c, d)
        BY <1>1, <2>5, <3>1 DEF Settled
      <3>3. d # cur
        BY <2>1, <3>2, NoneAhead
      <3> QED
        BY <1>4, <2>3, <3>1, <3>2, <3>3
    <2> QED
      BY <2>4, <2>5 DEF Settled
  <1>6. CASE ~(Takes /\ Pends(p, k, cur))
    <2>1. \A c \in Conns : Pends(p, k, c) => req'[c] = req[c] /\ req'[c] # NoReq
      BY <1>2, <1>6, SocketsAssumption DEF Takes, Pends, Changes
    <2>2. \A c \in Conns : Pends(p, k, c)' <=> Pends(p, k, c)
      BY <1>2, <1>3, <2>1 DEF Pends, Changes
    <2>3. cache'[k] = cache[k]
      <3>1. SUFFICES ASSUME cache'[k] # cache[k] PROVE FALSE
        OBVIOUS
      <3>2. pc = "load" \/ (pc = "recv" /\ Changes(cur) /\ req[cur].key = k /\ req'[cur] = NoReq)
        BY <1>2, <3>1, CacheShape
      <3>3. pc # "load" /\ owner[cur] = p
        BY <1>1, <3>1 DEF Upset
      <3>4. cur # NoConn
        BY <3>2, <3>3 DEF ServerInv, TypeInv, CurOK
      <3> QED
        BY <1>6, <3>2, <3>3, <3>4 DEF Takes, Pends, Changes
    <2> QED
      BY <1>1, <1>4, <2>1, <2>2, <2>3, StillSettled
  <1> QED
    BY <1>5, <1>6

\* So does it keep the line.
LEMMA DaemonLine ==
    ASSUME CallsInv, OwnerInv, DaemonStep, ~Stopped', BehindInv, ~Stopped
    PROVE  BehindInv'
  <1> USE DEF CallsInv
  <1>1. /\ Daemon /\ \A c \in Conns : req'[c] = req[c] \/ (c = cur /\ req'[c] = NoReq)
    BY DaemonShape DEF DaemonStep
  <1>2. stack' = stack /\ \A c \in Conns : req'[c] # NoReq => owner'[c] = owner[c]
    BY DaemonKeeps
  <1>3. ASSUME NEW p \in Procs, InLine(p)', NEW d \in Conns, owner'[d] = p, Changes(d)', d # Conn(p)
        PROVE  Ahead(d, Conn(p))'
    <2>1. /\ stack[p] # <<>> /\ Top(p)' = Top(p) /\ Conn(p)' = Conn(p) /\ Op(p)' = Op(p)
          /\ Top(p).at \in {"send", "recv"}
      BY <1>2, <1>3 DEF InLine, Top, Conn, Op
    <2>2. PICK c \in Conns : c = Conn(p)
      BY <2>1, CallHasConn DEF At
    <2>3. InLine(p)
      BY <1>1, <1>3, <2>1, <2>2 DEF InLine
    <2>4. owner[d] = p /\ Changes(d) /\ req'[d] # NoReq
      BY <1>1, <1>2, <1>3 DEF Changes
    <2>5. Ahead(d, c)
      BY <1>3, <2>2, <2>3, <2>4 DEF BehindInv
    <2>6. Ahead(d, c)'
      BY <1>1, <1>3, <2>2, <2>4, <2>5, AheadDaemon
    <2> QED
      BY <2>1, <2>2, <2>6 DEF Ahead
  <1> QED
    BY <1>2, <1>3 DEF BehindInv, Conn, Top

-----------------------------------------------------------------------------
(* A process gets in line behind itself *)

\* There is one listening socket: the requests of all clients are in one line.
OneListener == \A c, d \in Conns : ListenerOf[c] = ListenerOf[d]

\* The requests of a process in a step that leaves all requests alone.
LEMMA SameRequests ==
    ASSUME CallsInv, CallsInv', UNCHANGED <<req, pc>>, ~Stopped,
           \A d \in Conns : req[d] # NoReq /\ ~Unused(d)' => owner'[d] = owner[d]
    PROVE  /\ \A d \in Conns : req[d] # NoReq => owner'[d] = owner[d]
           /\ \A p, k : \A d \in Conns : Pends(p, k, d)' <=> Pends(p, k, d)
  <1>1. \A d \in Conns : req[d] # NoReq => ~Unused(d)'
    BY DEF CallsInv, ServerInv, RequestInv, DroppedInv, Unused
  <1>2. \A d \in Conns : req[d] # NoReq => owner'[d] = owner[d]
    BY <1>1
  <1> QED
    BY <1>2 DEF Pends, Changes

LEMMA QuietOwn ==
    ASSUME CallsInv, CallsInv', OwnInv, BehindInv,
           NEW q \in Procs, ProcStep(q), ~call_connect(q), ~call_send(q)
    PROVE  OwnInv' /\ BehindInv'
  <1>1. SUFFICES ASSUME ~Stopped' PROVE OwnInv' /\ BehindInv'
    BY DEF OwnInv, BehindInv
  <1>2. /\ UNCHANGED <<cache, pc, backlog, cur, own, req>>
        /\ \A d \in Conns : ~Unused(d)' => owner'[d] = owner[d]
    BY QuietKeeps
  <1>3. /\ \A d \in Conns : req[d] # NoReq => owner'[d] = owner[d]
        /\ \A p, k : \A d \in Conns : Pends(p, k, d)' <=> Pends(p, k, d)
    BY <1>1, <1>2, SameRequests
  <1>4. \A c, d : Ahead(c, d) => Ahead(c, d)'
    BY <1>2 DEF Ahead
  <1>5. OwnInv'
    <2>1. ASSUME NEW p \in Procs, NEW k \in Keys, own'[p][k] # Unknown PROVE Settled(p, k)'
      <3>1. Settled(p, k)
        BY <1>1, <1>2, <2>1 DEF OwnInv
      <3> QED
        BY <1>2, <1>3, <1>4, <3>1, StillSettled
    <2> QED
      BY <2>1 DEF OwnInv
  <1>6. BehindInv'
    <2>1. ~InLine(q)'
      BY QuietSteps DEF InLine, OutOfLine
    <2>2. ASSUME NEW p \in Procs, InLine(p)', NEW d \in Conns, owner'[d] = p, Changes(d)', d # Conn(p)'
          PROVE  Ahead(d, Conn(p))'
      <3>1. stack'[p] = stack[p]
        BY <2>1, <2>2, QuietSteps
      <3>2. Top(p)' = Top(p) /\ Conn(p)' = Conn(p) /\ Op(p)' = Op(p)
        BY <3>1 DEF Top, Conn, Op
      <3>3. InLine(p) /\ Changes(d) /\ owner[d] = p
        BY <1>2, <1>3, <2>2, <3>1, <3>2 DEF InLine, Changes
      <3>4. Ahead(d, Conn(p))
        BY <1>1, <1>2, <2>2, <3>2, <3>3 DEF BehindInv
      <3> QED
        BY <1>2, <3>2, <3>4 DEF Ahead
    <2> QED
      BY <2>2 DEF BehindInv
  <1> QED
    BY <1>5, <1>6

\* A new connection is behind all that its process has sent on others.
LEMMA ConnectOwn ==
    ASSUME OneListener, CallsInv, CallsInv', OwnerInv, ServedInv, OwnInv, BehindInv,
           NEW q \in Procs, call_connect(q)
    PROVE  OwnInv' /\ BehindInv'
  <1> USE DEF CallsInv
  <1>1. PICK x \in Conns :
          /\ stack[q] # <<>> /\ GoesOn(q, x, "send") /\ property_connect(x)
          /\ req[x] = NoReq /\ x # cur
          /\ \A d \in Conns : d # x /\ ~Unused(d)' => owner'[d] = owner[d]
          /\ UNCHANGED <<cache, pc, cur, own, req>> /\ ~Stopped
          /\ backlog' = [backlog EXCEPT ![ListenerOf[x]] = Append(@, x)]
    BY Connects
  <1>2. /\ \A d \in Conns : req[d] # NoReq => owner'[d] = owner[d]
        /\ \A p, k : \A d \in Conns : Pends(p, k, d)' <=> Pends(p, k, d)
    BY <1>1, SameRequests
  <1>3. \A c, d \in Conns : Ahead(c, d) => Ahead(c, d)'
    BY <1>1, AheadConnect
  <1>4. OwnInv'
    <2>1. ASSUME NEW p \in Procs, NEW k \in Keys, own'[p][k] # Unknown PROVE Settled(p, k)'
      <3>1. Settled(p, k)
        BY <1>1, <2>1 DEF OwnInv
      <3> QED
        BY <1>1, <1>2, <1>3, <3>1, StillSettled
    <2> QED
      BY <2>1 DEF OwnInv
  <1>5. BehindInv'
    <2>1. /\ stack'[q][Len(stack[q])] = Moved(Top(q), x, "send") /\ Len(stack'[q]) = Len(stack[q])
          /\ \A r \in Procs : r # q => stack'[r] = stack[r]
      BY <1>1, GoesOnShape
    <2>2. Conn(q)' = x
      BY <1>1, <2>1, TopInv, MovedFields DEF Conn, Top
    <2>3. ASSUME NEW d \in Conns, Changes(d) PROVE Ahead(d, x)'
      <3>1. ~Dropped(d)
        BY <1>1, <2>3 DEF Changes, ServerInv, RequestInv, DroppedInv
      <3>2. CASE d \in fds
        <4>1. d = cur
          BY <2>3, <3>2 DEF ServedInv, Changes
        <4> QED
          BY <1>1, <4>1 DEF Ahead
      <3>3. CASE d \notin fds
        <4> DEFINE m == ListenerOf[x]
        <4>1. m \in Listeners /\ ListenerOf[d] = m
          BY SocketsAssumption DEF OneListener
        <4>2. PICK i \in 1..Len(backlog[m]) : backlog[m][i] = d
          BY <3>1, <3>3, <4>1 DEF Dropped
        <4>3. backlog[m] \in Seq(Conns) /\ backlog'[m] = Append(backlog[m], x)
          BY <1>1, <4>1 DEF ServerInv, TypeInv, TypeOK
        <4>4. Len(backlog[m]) \in Nat
          BY <4>3
        <4>5. /\ Len(backlog'[m]) = Len(backlog[m]) + 1 /\ backlog'[m][Len(backlog[m]) + 1] = x
              /\ backlog'[m][i] = d
          BY <4>2, <4>3
        <4>6. /\ i \in 1..Len(backlog'[m]) /\ Len(backlog[m]) + 1 \in 1..Len(backlog'[m])
              /\ i < Len(backlog[m]) + 1
          BY <4>2, <4>4, <4>5
        <4>7. \E a, b \in 1..Len(backlog'[m]) : a < b /\ backlog'[m][a] = d /\ backlog'[m][b] = x
          <5> HIDE DEF m
          <5> QED
            BY <4>5, <4>6
        <4> QED
          BY <4>7 DEF Ahead
      <3> QED
        BY <3>2, <3>3
    <2>4. ASSUME NEW p \in Procs, InLine(p)', NEW d \in Conns, owner'[d] = p, Changes(d)', d # Conn(p)'
          PROVE  Ahead(d, Conn(p))'
      <3>1. Changes(d) /\ owner[d] = p
        BY <1>1, <1>2, <2>4 DEF Changes
      <3>2. CASE p = q
        BY <2>2, <2>3, <3>1, <3>2 DEF Ahead
      <3>3. CASE p # q
        <4>1. Top(p)' = Top(p) /\ Conn(p)' = Conn(p) /\ Op(p)' = Op(p) /\ stack'[p] = stack[p]
          BY <2>1, <3>3 DEF Top, Conn, Op
        <4>2. InLine(p) /\ stack[p] # <<>> /\ Top(p).at \in {"send", "recv"}
          BY <1>1, <2>4, <4>1 DEF InLine
        <4>3. PICK c \in Conns : c = Conn(p)
          BY <4>2, CallHasConn DEF At
        <4>4. Ahead(d, c)'
          BY <1>1, <1>3, <2>4, <3>1, <4>1, <4>2, <4>3 DEF BehindInv
        <4> QED
          BY <4>1, <4>3, <4>4 DEF Ahead
      <3> QED
        BY <3>2, <3>3
    <2> QED
      BY <2>4 DEF BehindInv
  <1> QED
    BY <1>4, <1>5

\* What a process sends is served after what it has sent before.
LEMMA SendOwn ==
    ASSUME CallsInv, OwnerInv, OwnType, OwnInv, BehindInv, NEW q \in Procs, call_send(q)
    PROVE  OwnInv' /\ BehindInv'
  <1> USE DEF CallsInv
  <1>1. SUFFICES ASSUME ~Stopped' PROVE OwnInv' /\ BehindInv'
    BY DEF OwnInv, BehindInv
  <1>2. PICK c \in Conns : c = Conn(q)
    BY SendsOne
  <1>3. PICK r \in Requests : r = Top(q).call.req
    BY SendsOne
  <1>4. /\ stack[q] # <<>> /\ Top(q).at = "send" /\ GoesOn(q, c, AfterSend(q)) /\ c # NoConn
        /\ req[c] = NoReq /\ req'[c] = r /\ r # NoReq
        /\ \A d \in Conns : d # c => req'[d] = req[d]
        /\ UNCHANGED <<cache, pc, backlog, cur, owner>>
    BY <1>2, <1>3, SendsOne, SocketsAssumption
  <1>5. Op(q) = r.op /\ (r.op \in {"S", "D"} => r.key \in Keys)
    BY <1>3, RequestsAssumption DEF Op
  <1>6. owner[c] = q
    <2>1. Len(stack[q]) \in 1..Len(stack[q]) /\ stack[q][Len(stack[q])].conn = c
      BY <1>2, <1>4, TopFrame DEF Conn, Top
    <2> QED
      BY <1>4, <2>1 DEF OwnerInv
  <1>7. \A d, e : Ahead(d, e)' <=> Ahead(d, e)
    BY <1>4 DEF Ahead
  <1>8. own' = IF r.op \in {"S", "D"} THEN [own EXCEPT ![q][r.key] = r.val] ELSE own
    BY <1>3, <1>5 DEF call_send
  <1>9. ASSUME r.op \in {"S", "D", "G"}, NEW d \in Conns, owner[d] = q, Changes(d), d # c PROVE Ahead(d, c)
    <2>1. InLine(q)
      BY <1>4, <1>5, <1>9 DEF InLine
    <2> QED
      BY <1>1, <1>2, <1>4, <1>9, <2>1 DEF BehindInv
  <1>10. OwnInv'
    <2>1. ASSUME NEW p \in Procs, NEW k \in Keys, own'[p][k] # Unknown PROVE Settled(p, k)'
      <3>1. CASE p = q /\ r.op \in {"S", "D"} /\ k = r.key
        <4>1. own'[p][k] = r.val
          BY <1>5, <1>8, <3>1 DEF OwnType
        <4>2. Pends(p, k, c)'
          BY <1>4, <1>6, <3>1 DEF Pends, Changes
        <4>3. ASSUME NEW d \in Conns, Pends(p, k, d)', d # c PROVE Ahead(d, c)'
          BY <1>4, <1>7, <1>9, <3>1, <4>3 DEF Pends, Changes
        <4> QED
          BY <1>4, <4>1, <4>2, <4>3 DEF Settled
      <3>2. CASE ~(p = q /\ r.op \in {"S", "D"} /\ k = r.key)
        <4>1. own'[p][k] = own[p][k]
          <5>1. CASE r.op \in {"S", "D"}
            BY <1>5, <1>8, <3>2, <5>1 DEF OwnType
          <5>2. CASE r.op \notin {"S", "D"}
            BY <1>8, <5>2
          <5> QED
            BY <5>1, <5>2
        <4>2. \A d \in Conns : Pends(p, k, d)' <=> Pends(p, k, d)
          BY <1>4, <1>6, <3>2 DEF Pends, Changes
        <4>3. \A d \in Conns : Pends(p, k, d) => req'[d] = req[d]
          BY <1>4 DEF Pends, Changes
        <4>4. Settled(p, k)
          BY <1>1, <1>4, <2>1, <4>1 DEF OwnInv
        <4> QED
          BY <1>4, <1>7, <4>1, <4>2, <4>3, <4>4, StillSettled
      <3> QED
        BY <3>1, <3>2
    <2> QED
      BY <2>1 DEF OwnInv
  <1>11. BehindInv'
    <2>1. /\ stack'[q][Len(stack[q])] = Moved(Top(q), c, AfterSend(q)) /\ Len(stack'[q]) = Len(stack[q])
          /\ \A p \in Procs : p # q => stack'[p] = stack[p]
      BY <1>4, GoesOnShape
    <2>2. Conn(q)' = c /\ Op(q)' = r.op
      BY <1>4, <1>5, <2>1, TopInv, MovedFields DEF Conn, Top, Op, OpOf
    <2>3. ASSUME NEW p \in Procs, InLine(p)', NEW d \in Conns, owner'[d] = p, Changes(d)', d # Conn(p)'
          PROVE  Ahead(d, Conn(p))'
      <3>1. CASE p = q
        <4>1. Changes(d) /\ owner[d] = q /\ d # c /\ r.op \in {"S", "D", "G"}
          BY <1>4, <2>2, <2>3, <3>1 DEF Changes, InLine
        <4>2. Ahead(d, c)'
          BY <1>7, <1>9, <4>1
        <4> QED
          BY <2>2, <3>1, <4>2 DEF Ahead
      <3>2. CASE p # q
        <4>1. Top(p)' = Top(p) /\ Conn(p)' = Conn(p) /\ Op(p)' = Op(p) /\ stack'[p] = stack[p]
          BY <2>1, <3>2 DEF Top, Conn, Op
        <4>2. stack[p] # <<>> /\ Top(p).at \in {"send", "recv"}
          BY <2>3, <4>1 DEF InLine
        <4>3. PICK e \in Conns : e = Conn(p)
          BY <4>2, CallHasConn DEF At
        <4>4. owner[e] = p
          <5>1. Len(stack[p]) \in 1..Len(stack[p]) /\ stack[p][Len(stack[p])].conn = e
            BY <4>2, <4>3, TopFrame DEF Conn, Top
          <5> QED
            BY <4>3, <5>1, SocketsAssumption DEF OwnerInv
        <4>5. InLine(p)
          BY <1>4, <1>6, <2>3, <3>2, <4>1, <4>3, <4>4 DEF InLine
        <4>6. owner[d] = p /\ Changes(d)
          BY <1>4, <1>6, <2>3, <3>2 DEF Changes
        <4>7. Ahead(d, e)'
          BY <1>1, <1>4, <1>7, <2>3, <4>1, <4>3, <4>5, <4>6 DEF BehindInv
        <4> QED
          BY <4>1, <4>3, <4>7 DEF Ahead
      <3> QED
        BY <3>1, <3>2
    <2> QED
      BY <2>3 DEF BehindInv
  <1> QED
    BY <1>10, <1>11

-----------------------------------------------------------------------------
(* What a get is answered *)

\* What the get on connection c is about to give is v.
HasAnswer(c, v) ==
    \/ c = cur /\ pc = "reply" /\ reply # NoMsg /\ reply.val = v /\ inbox[c] = <<>>
    \/ inbox[c] # <<>> /\ Head(inbox[c]).val = v
    \/ inbox[c] = <<>> /\ (c # cur \/ reply = NoMsg) /\ v = Absent

\* A get of p the daemon has served, of a key that p knows.
KnowsServed(p) ==
    /\ Gets(p) /\ Top(p).at = "recv" /\ did[Conn(p)] = "ok"
    /\ own[p][Top(p).call.req.key] # Unknown

\* It gives what p has last asked the key to be.
GetInv == \A p \in Procs : KnowsServed(p) => HasAnswer(Conn(p), own[p][Top(p).call.req.key])

\* What the daemon sends on the connection of a get is its reply.
LEMMA GetIsSent ==
    ASSUME CallsInv, DaemonStep, NEW p \in Procs, Gets(p), NEW c \in Conns, c = Conn(p)
    PROVE  \/ inbox'[c] = inbox[c]
           \/ kvdb_client_out /\ c = cur /\ reply # NoMsg /\ inbox'[c] = Append(inbox[c], reply)
  <1> USE DEF CallsInv, ServerInv
  <1>1. /\ req[c] \in {NoReq, Top(p).call.req} /\ Top(p).call.req.op = "G"
        /\ (c = cur => lkeys = {}) /\ \A s \in Slots : heap[s] # c
    <2>1. stack[p] # <<>> /\ Op(p) = "G" /\ c # NoConn
      BY SocketsAssumption DEF Gets
    <2>2. Answered(p, Top(p)) /\ Top(p).conn = c /\ OpOf(Top(p)) = "G"
      BY <2>1, TopInv
    <2> QED
      BY <2>1, <2>2 DEF Answered, OpOf
  <1>2. inbox \in [Conns -> Seq(Messages)] /\ Daemon
    BY DEF TypeInv, TypeOK, DaemonStep
  <1>3. CASE kvdb_bind \/ kvdb_init \/ kvdb_load \/ kvdb_loop
    BY <1>3 DEF kvdb_bind, kvdb_init, kvdb_load, kvdb_load_open, kvdb_load_line, kvdb_load_close,
           kvdb_load_return, kvdb_loop, kvdb_loop_start, kvdb_loop_top, epoll_wait,
           epoll_timeout, kvdb_accept, kvdb_accept_fail, kvdb_monitor_close,
           kvdb_monitor_close_freed
  <1>4. CASE kvdb_client_fail \/ kvdb_client_set \/ kvdb_client_delete \/ kvdb_client_get
             \/ kvdb_client_list \/ kvdb_client_commit \/ kvdb_client_reload
    BY <1>4 DEF kvdb_client_fail, kvdb_client_set, kvdb_client_delete, kvdb_client_get,
           kvdb_client_list, kvdb_client_commit, kvdb_client_reload, Modify, Handled
  <1>5. CASE kvdb_client_monitor
    <2>1. req[cur] # NoReq /\ req[cur].op = "M"
      BY <1>5 DEF kvdb_client_monitor, Serves
    <2>2. c # cur
      BY <1>1, <2>1
    <2> QED
      BY <1>2, <1>5, <2>2 DEF kvdb_client_monitor, TrySend, Sent
  <1>6. ASSUME NEW s \in Slots, kvdb_monitor_notify(s) PROVE inbox'[c] = inbox[c]
    BY <1>1, <1>2, <1>6 DEF kvdb_monitor_notify, Sent
  <1>7. ASSUME NEW k \in Keys, kvdb_list_consume(k) PROVE inbox'[c] = inbox[c]
    BY <1>1, <1>2, <1>7 DEF kvdb_list_consume, TrySend, Sent
  <1>8. CASE kvdb_client_out
    BY <1>2, <1>8 DEF kvdb_client_out, TrySend, Sent
  <1> QED
    BY <1>2, <1>3, <1>4, <1>5, <1>6, <1>7, <1>8 DEF Daemon, kvdb_client

\* A get finds the value of its key, whatever the backend.
LEMMA GetFindsValue ==
    ASSUME BackedInv, NEW k \in Keys
    PROVE  kvdb_get(cache, k, TRUE) = cache[k]
  BY BackendAssumption DEF BackedInv, kvdb_get, unqlite_kvdb_get, nvs_kvdb_get, file_kvdb_get

\* The daemon reads what the process has written: all of it has been served.
LEMMA GetServed ==
    ASSUME CallsInv, OwnInv, BehindInv, BackedInv, DaemonStep, NEW p \in Procs, KnowsServed(p)',
           Conn(p) = cur, Takes, pc = "recv"
    PROVE  HasAnswer(cur, own[p][Top(p).call.req.key])' /\ cur' = cur
  <1> USE DEF CallsInv, ServerInv
  <1> DEFINE k == Top(p).call.req.key
  <1>1. /\ stack' = stack /\ cli' = cli /\ \A c \in Conns : cli[c] # "closed" => did'[c] = DidNow[c]
    BY DaemonHistory
  <1>2. /\ stack[p] # <<>> /\ Op(p) = "G" /\ Top(p).at = "recv" /\ Top(p)' = Top(p) /\ Gets(p)
        /\ did'[Conn(p)] = "ok" /\ own'[p][k] # Unknown
    BY <1>1 DEF KnowsServed, Gets, Op, Top, Conn
  <1>3. cur \in Conns /\ inbox[cur] = <<>> /\ cli[cur] = "sent"
    <2>1. cur \in Conns /\ inbox[cur] = <<>>
      BY SocketsAssumption DEF TypeInv, TypeOK, CurOK, MessagesInv
    <2> QED
      BY <1>2, <2>1, TopInv DEF FrameInv
  <1>4. req[cur] # NoReq /\ req[cur] = Top(p).call.req /\ req[cur].op = "G" /\ k \in Keys
    <2>1. req[cur] # NoReq
      BY DEF Takes
    <2>2. req[cur] = Top(p).call.req
      BY <1>2, <1>3, <2>1, TopInv, SocketsAssumption DEF Answered
    <2>3. req[cur] \in Requests
      BY <1>3, <2>1 DEF TypeInv, TypeOK
    <2> QED
      BY <1>2, <2>1, <2>2, <2>3, RequestsAssumption DEF Op
  <1>5. DidNow[cur] = "ok"
    BY <1>1, <1>2, <1>3
  <1>6. reply' # NoMsg \/ ~(AllocMayFail \/ FetchMayFail)
    BY <1>3, <1>5 DEF DidNow, CallInv, HadInv
  <1>7. kvdb_client_get
    <2>1. ~kvdb_client_fail
      BY <1>4, <1>6 DEF kvdb_client_fail, RecvGivesUp, Handled
    <2>2. ~(kvdb_client_set \/ kvdb_client_delete \/ kvdb_client_list \/ kvdb_client_commit
            \/ kvdb_client_reload \/ kvdb_client_monitor)
      BY <1>4 DEF kvdb_client_set, kvdb_client_delete, kvdb_client_list, kvdb_client_commit,
                  kvdb_client_reload, kvdb_client_monitor, Serves
    <2>3. ~(kvdb_bind \/ kvdb_init \/ kvdb_load \/ kvdb_loop)
      BY DEF kvdb_bind, kvdb_init, kvdb_load, kvdb_load_open, kvdb_load_line, kvdb_load_close,
           kvdb_load_return, LoadDone, kvdb_loop, kvdb_loop_start, kvdb_loop_top, epoll_wait,
           epoll_timeout, kvdb_accept, kvdb_accept_fail, kvdb_monitor_close,
           kvdb_monitor_close_freed
    <2>4. ~(\/ \E s \in Slots : kvdb_monitor_notify(s)
            \/ \E e \in Keys : kvdb_list_consume(e)
            \/ kvdb_client_out)
      BY DEF kvdb_monitor_notify, kvdb_list_consume, kvdb_client_out
    <2> QED
      BY <2>1, <2>2, <2>3, <2>4 DEF DaemonStep, Daemon, kvdb_client
  <1>8. own'[p][k] = own[p][k] /\ own[p][k] # Unknown
    BY <1>2, <1>4 DEF DaemonStep, OwnNow
  <1>9. cache[k] = own[p][k]
    <2>1. InLine(p)
      BY <1>2, <1>4 DEF InLine
    <2>2. ASSUME NEW d \in Conns, Pends(p, k, d) PROVE FALSE
      <3>1. d # cur
        BY <1>4, <2>2 DEF Pends, Changes
      <3>2. Ahead(d, cur)
        BY <2>1, <2>2, <3>1 DEF BehindInv, Pends
      <3> QED
        BY <1>3, <3>2, NoneAhead
    <2> QED
      BY <1>4, <1>8, <2>2 DEF OwnInv, Settled
  <1>10. PICK img \in Fetched(cache, k) :
           LET v == kvdb_get(img, k, TRUE)
           IN  Handled(IF v = Absent THEN NoMsg ELSE Pair("value", k, v), FALSE)
    BY <1>4, <1>7 DEF kvdb_client_get, Looked
  <1> DEFINE v == kvdb_get(img, k, TRUE)
  <1>12. /\ reply' = IF v = Absent THEN NoMsg ELSE Pair("value", k, v)
         /\ pc' = "reply" /\ cur' = cur /\ inbox' = inbox
    BY <1>10 DEF Handled
  <1>11. v = own[p][k] /\ v \in Vals \cup {Absent}
    <2>1. cache[k] \in Vals \cup {Absent}
      BY <1>4 DEF TypeInv, TypeOK, Image
    <2>2. CASE img = cache
      BY <1>4, <1>9, <2>1, <2>2, GetFindsValue
    <2>3. CASE img # cache
      <3>1. FetchMayFail /\ v \in {Absent, cache[k]}
        BY <1>4, <1>10, <2>3, GetFinds DEF Fetched, TypeInv, TypeOK
      <3> QED
        BY <1>6, <1>9, <1>12, <2>1, <3>1
    <2> QED
      BY <2>2, <2>3
  <1> HIDE DEF v
  <1>13. v # Absent => reply' # NoMsg /\ reply'.val = v
    <2>1. Pair("value", k, v) \in Messages
      BY <1>4, <1>11, MessageTypes DEF Tags
    <2>2. Pair("value", k, v).val = v
      BY DEF Pair
    <2> QED
      BY <1>12, <2>1, <2>2, SocketsAssumption
  <1>14. own'[p][Top(p)'.call.req.key] = v
    BY <1>2, <1>8, <1>11
  <1> HIDE DEF k
  <1> QED
    BY <1>3, <1>12, <1>13, <1>14 DEF HasAnswer, Top

\* It does not touch the answer before the client has read it.
LEMMA GetAnswerKept ==
    ASSUME CallsInv, DaemonStep, NEW p \in Procs, Gets(p), Top(p).at = "recv", NEW c \in Conns, c = Conn(p),
           NEW v, HasAnswer(c, v), c # cur \/ ~Takes \/ pc # "recv"
    PROVE  HasAnswer(c, v)'
  <1> USE DEF CallsInv, ServerInv
  <1>1. cli[c] = "sent" /\ c # NoConn /\ (c = cur => lkeys = {}) /\ inbox[c] \in Seq(Messages)
    BY TopInv, SocketsAssumption DEF Gets, FrameInv, Answered, TypeInv, TypeOK
  <1>2. Daemon
    BY DEF DaemonStep
  <1>3. \/ inbox'[c] = inbox[c]
        \/ kvdb_client_out /\ c = cur /\ reply # NoMsg /\ inbox'[c] = Append(inbox[c], reply)
    BY GetIsSent
  <1>4. CASE inbox[c] # <<>> /\ Head(inbox[c]).val = v
    <2>1. inbox'[c] = inbox[c] \/ (inbox'[c] = Append(inbox[c], reply) /\ reply \in Messages)
      BY <1>3 DEF TypeInv, TypeOK
    <2>2. inbox'[c] # <<>> /\ Head(inbox'[c]) = Head(inbox[c])
      BY <1>1, <1>4, <2>1
    <2> QED
      BY <1>4, <2>2 DEF HasAnswer
  <1>5. CASE c = cur /\ pc = "reply" /\ reply # NoMsg /\ reply.val = v /\ inbox[c] = <<>>
    <2>1. reply \in Messages
      BY <1>5 DEF TypeInv, TypeOK
    <2>2. CASE kvdb_client_out
      <3>1. TrySend(c, reply)
        BY <1>5, <2>2 DEF kvdb_client_out
      <3>2. Len(inbox[c]) = 0
        BY <1>5
      <3>3. inbox' = Sent(c, reply)
        BY <1>1, <3>1, <3>2, ConfigAssumption DEF TrySend, SendFails
      <3>4. inbox'[c] = Append(<<>>, reply)
        BY <1>5, <3>3 DEF Sent, TypeInv, TypeOK
      <3>5. inbox'[c] # <<>> /\ Head(inbox'[c]) = reply
        BY <2>1, <3>4
      <3> QED
        BY <1>5, <3>5 DEF HasAnswer
    <2>3. CASE \E s \in Slots : kvdb_monitor_notify(s)
      <3>1. UNCHANGED <<pc, cur, reply>> /\ inbox'[c] = inbox[c]
        BY <1>3, <1>5, <2>3 DEF kvdb_monitor_notify, kvdb_client_out
      <3> QED
        BY <1>5, <3>1 DEF HasAnswer
    <2>4. ~\E e \in Keys : kvdb_list_consume(e)
      BY <1>1, <1>5 DEF kvdb_list_consume
    <2>5. ~(kvdb_client_fail \/ kvdb_client_set \/ kvdb_client_delete \/ kvdb_client_get
            \/ kvdb_client_list \/ kvdb_client_commit \/ kvdb_client_reload \/ kvdb_client_monitor)
      BY <1>5 DEF kvdb_client_fail, kvdb_client_set, kvdb_client_delete, kvdb_client_get,
           kvdb_client_list, kvdb_client_commit, kvdb_client_reload, kvdb_client_monitor, Serves
    <2>6. ~(kvdb_bind \/ kvdb_init \/ kvdb_load \/ kvdb_loop)
      BY <1>5 DEF kvdb_bind, kvdb_init, kvdb_load, kvdb_load_open, kvdb_load_line, kvdb_load_close,
           kvdb_load_return, LoadDone, kvdb_loop, kvdb_loop_start, kvdb_loop_top, epoll_wait,
           epoll_timeout, kvdb_accept, kvdb_accept_fail, kvdb_monitor_close,
           kvdb_monitor_close_freed
    <2> QED
      BY <1>2, <2>2, <2>3, <2>4, <2>5, <2>6 DEF Daemon, kvdb_client
  <1>6. CASE inbox[c] = <<>> /\ (c # cur \/ reply = NoMsg) /\ v = Absent
    <2>1. inbox'[c] = <<>>
      BY <1>3, <1>6
    <2>2. c # cur' \/ reply' = NoMsg
      <3>1. SUFFICES ASSUME c = cur', reply' # NoMsg PROVE FALSE
        OBVIOUS
      <3>2. reply # NoMsg => pc = "reply"
        BY DEF RequestInv, ReplyInv
      <3>3. pc \notin {"recv", "reply"} => reply' = reply
        BY <1>2 DEF Daemon, kvdb_bind, kvdb_init, kvdb_load, kvdb_load_open, kvdb_load_line,
             kvdb_load_close, kvdb_load_return, kvdb_loop, kvdb_loop_start, kvdb_loop_top, epoll_wait,
             epoll_timeout, kvdb_accept, kvdb_accept_fail, kvdb_monitor_close, kvdb_monitor_close_freed,
             kvdb_client, kvdb_client_fail, kvdb_client_set, kvdb_client_delete, kvdb_client_get,
             kvdb_client_list, kvdb_client_commit, kvdb_client_reload, kvdb_client_monitor,
             kvdb_monitor_notify, kvdb_list_consume, kvdb_client_out, Modify, Handled, Serves
      <3>4. pc = "reply" => reply' = NoMsg \/ (cur' = cur /\ reply' = reply)
        BY <1>2 DEF Daemon, kvdb_bind, kvdb_init, kvdb_load, kvdb_load_open, kvdb_load_line,
             kvdb_load_close, kvdb_load_return, LoadDone, kvdb_loop, kvdb_loop_start, kvdb_loop_top,
             epoll_wait,
             epoll_timeout, kvdb_accept, kvdb_accept_fail, kvdb_monitor_close, kvdb_monitor_close_freed,
             kvdb_client, kvdb_client_fail, kvdb_client_set, kvdb_client_delete, kvdb_client_get,
             kvdb_client_list, kvdb_client_commit, kvdb_client_reload, kvdb_client_monitor,
             kvdb_monitor_notify, kvdb_list_consume, kvdb_client_out, Serves
      <3>5. pc = "recv"
        BY <1>6, <3>1, <3>2, <3>3, <3>4
      <3>6. cur' = cur \/ reply' = reply
        BY <1>2, <3>5 DEF Daemon, kvdb_bind, kvdb_init, kvdb_load, kvdb_load_open, kvdb_load_line,
             kvdb_load_close, kvdb_load_return, LoadDone, kvdb_loop, kvdb_loop_start, kvdb_loop_top,
             epoll_wait,
             epoll_timeout, kvdb_accept, kvdb_accept_fail, kvdb_monitor_close, kvdb_monitor_close_freed,
             kvdb_client, kvdb_client_fail, kvdb_client_set, kvdb_client_delete, kvdb_client_get,
             kvdb_client_list, kvdb_client_commit, kvdb_client_reload, kvdb_client_monitor,
             kvdb_monitor_notify, kvdb_list_consume, kvdb_client_out, Modify, Handled, Serves
      <3>7. cur = c /\ ~Takes
        BY <3>1, <3>2, <3>5, <3>6
      <3>8. req[cur] # NoReq /\ req' = [req EXCEPT ![cur] = NoReq]
        BY <1>2, <3>1, <3>2, <3>5 DEF Daemon, kvdb_bind, kvdb_init, kvdb_load, kvdb_load_open, kvdb_load_line,
             kvdb_load_close, kvdb_load_return, LoadDone, kvdb_loop, kvdb_loop_start, kvdb_loop_top,
             epoll_wait,
             epoll_timeout, kvdb_accept, kvdb_accept_fail, kvdb_monitor_close, kvdb_monitor_close_freed,
             kvdb_client, kvdb_client_fail, kvdb_client_set, kvdb_client_delete, kvdb_client_get,
             kvdb_client_list, kvdb_client_commit, kvdb_client_reload, kvdb_client_monitor,
             kvdb_monitor_notify, kvdb_list_consume, kvdb_client_out, Modify, Handled, Serves
      <3>9. req'[cur] = NoReq
        BY <3>7, <3>8 DEF TypeInv, TypeOK
      <3> QED
        BY <1>1, <3>7, <3>8, <3>9 DEF Takes
    <2> QED
      BY <1>6, <2>1, <2>2 DEF HasAnswer
  <1> QED
    BY <1>4, <1>5, <1>6 DEF HasAnswer

\* Every step keeps the answers to gets right.
LEMMA GetStep ==
    ASSUME CallsInv, OwnerInv, OwnType, FreshInv, OwnInv, BehindInv, BackedInv, GetInv, [SysNext]_sysVars
    PROVE  GetInv'
  <1> USE DEF CallsInv
  <1>1. CASE UNCHANGED sysVars \/ TimeStep
    <2>1. UNCHANGED <<stack, did, own, cur, pc, reply, inbox>>
      BY <1>1 DEF sysVars, vars, TimeStep, Tick, histVars
    <2> QED
      BY <2>1 DEF GetInv, KnowsServed, Gets, Op, Top, Conn, HasAnswer
  <1>2. CASE PowerStep
    BY <1>2 DEF PowerStep, GetInv, KnowsServed, Gets
  <1>3. CASE DaemonStep
    <2>1. ASSUME NEW p \in Procs, KnowsServed(p)'
          PROVE  HasAnswer(Conn(p), own[p][Top(p).call.req.key])'
      <3>1. /\ stack' = stack /\ cli' = cli /\ \A c \in Conns : cli[c] # "closed" => did'[c] = DidNow[c]
        BY <1>3, DaemonHistory
      <3>2. /\ Gets(p) /\ stack[p] # <<>> /\ Top(p).at = "recv" /\ Top(p)' = Top(p) /\ Conn(p)' = Conn(p)
            /\ Op(p) = "G" /\ did'[Conn(p)] = "ok" /\ own'[p][Top(p).call.req.key] # Unknown
        BY <2>1, <3>1 DEF KnowsServed, Gets, Op, Top, Conn
      <3>3. PICK c \in Conns : c = Conn(p)
        BY <3>2, CallHasConn DEF At
      <3>4. CASE c = cur /\ Takes /\ pc = "recv"
        <4>1. HasAnswer(cur, own[p][Top(p).call.req.key])' /\ cur' = cur
          BY <1>3, <2>1, <3>3, <3>4, GetServed
        <4> QED
          BY <3>2, <3>3, <3>4, <4>1 DEF HasAnswer
      <3>5. CASE ~(c = cur /\ Takes /\ pc = "recv")
        <4>1. Top(p).call.req.key \in Keys
          BY <3>2, <3>3, CallHasConn, RequestsAssumption DEF At, Op
        <4>2. PICK v : v = own[p][Top(p).call.req.key]
          OBVIOUS
        <4>3. own'[p][Top(p).call.req.key] = v /\ v # Unknown
          BY <1>3, <3>2, <4>1, <4>2 DEF DaemonStep, OwnNow
        <4>4. cli[c] = "sent"
          BY <3>2, <3>3, TopInv DEF FrameInv
        <4>5. did[c] = "ok"
          BY <3>1, <3>2, <3>3, <3>5, <4>4 DEF DidNow, CallInv, HadInv
        <4>6. HasAnswer(c, v)
          BY <3>2, <3>3, <4>2, <4>3, <4>5 DEF GetInv, KnowsServed
        <4>7. HasAnswer(c, v)'
          BY <1>3, <3>2, <3>3, <3>5, <4>6, GetAnswerKept
        <4> QED
          BY <3>2, <3>3, <4>3, <4>7 DEF HasAnswer
      <3> QED
        BY <3>4, <3>5
    <2> QED
      BY <2>1 DEF GetInv
  <1>4. ASSUME NEW q \in Procs, NEW p \in Procs, p # q, KnowsServed(p)', stack'[p] = stack[p],
               UNCHANGED <<cur, pc, reply>>, own'[p] = own[p],
               NEW c \in Conns, c = Conn(p), inbox'[c] = inbox[c], did'[c] = did[c] \/ did'[c] = "nothing"
        PROVE  HasAnswer(Conn(p), own[p][Top(p).call.req.key])'
    <2>1. Top(p)' = Top(p) /\ Conn(p)' = Conn(p) /\ Gets(p)' = Gets(p)
      BY <1>4 DEF Top, Conn, Gets, Op
    <2>2. KnowsServed(p)
      BY <1>4, <2>1 DEF KnowsServed
    <2>3. PICK v : v = own[p][Top(p).call.req.key]
      OBVIOUS
    <2>4. HasAnswer(c, v)
      BY <1>4, <2>2, <2>3 DEF GetInv
    <2>5. HasAnswer(c, v)'
      BY <1>4, <2>4 DEF HasAnswer
    <2> QED
      BY <1>4, <2>1, <2>3, <2>5 DEF HasAnswer
  <1>5. ASSUME NEW p \in Procs, KnowsServed(p)', stack'[p] = stack[p]
        PROVE  Conn(p) \in Conns /\ stack[p] # <<>> /\ Conn(p) # NoConn
    <2>1. stack[p] # <<>> /\ Top(p).at = "recv"
      BY <1>5 DEF KnowsServed, Gets, Top
    <2> QED
      BY <2>1, CallHasConn, SocketsAssumption DEF At
  <1>6. ASSUME NEW q \in Procs, ProcStep(q), NEW p \in Procs, KnowsServed(p)'
        PROVE  HasAnswer(Conn(p), own[p][Top(p).call.req.key])'
    <2>1. CASE call_connect(q)
      <3>1. PICK x \in Conns :
              /\ stack[q] # <<>> /\ GoesOn(q, x, "send")
              /\ \A d \in Conns : did'[d] = IF Unused(d)' THEN "nothing" ELSE did[d]
              /\ UNCHANGED <<pc, cur, reply, own, inbox>>
        BY <2>1, Connects
      <3>2. p # q
        <4>1. Top(q)' = Moved(Top(q), x, "send")
          BY <3>1, GoesOnShape DEF Top
        <4>2. Top(q)'.at = "send"
          BY <3>1, <4>1, TopInv, MovedFields
        <4> QED
          BY <1>6, <4>2 DEF KnowsServed
      <3>3. stack'[p] = stack[p]
        BY <3>1, <3>2, GoesOnShape
      <3> QED
        BY <1>4, <1>5, <1>6, <3>1, <3>2, <3>3
    <2>2. CASE call_send(q)
      <3>1. /\ stack[q] # <<>> /\ GoesOn(q, Conn(q), AfterSend(q)) /\ Conn(q) \in Conns
            /\ cli[Conn(q)] = "connected" /\ UNCHANGED <<pc, cur, reply, inbox, did>>
        BY <2>2, SendsOne
      <3>2. p # q
        <4>1. Top(q)' = Moved(Top(q), Conn(q), AfterSend(q))
          BY <3>1, GoesOnShape DEF Top
        <4>2. Conn(q)' = Conn(q)
          BY <3>1, <4>1, TopInv, MovedFields DEF Conn
        <4>3. did[Conn(q)] = "nothing"
          BY <3>1 DEF FreshInv
        <4> QED
          BY <1>6, <3>1, <4>2, <4>3 DEF KnowsServed
      <3>3. stack'[p] = stack[p]
        BY <3>1, <3>2, GoesOnShape
      <3>4. own'[p] = own[p]
        BY <2>2, <3>2 DEF call_send, OwnType
      <3> QED
        BY <1>4, <1>5, <1>6, <3>1, <3>2, <3>3, <3>4
    <2>3. CASE ~call_connect(q) /\ ~call_send(q)
      <3>1. p # q
        BY <1>6, <2>3, QuietSteps DEF OutOfLine, KnowsServed, Gets
      <3>2. stack'[p] = stack[p]
        BY <1>6, <2>3, <3>1, QuietSteps
      <3>3. /\ UNCHANGED <<pc, cur, reply, own>>
            /\ \A d \in Conns : d # Conn(q) => inbox'[d] = inbox[d]
            /\ \A d \in Conns : did'[d] = did[d] \/ (Unused(d)' /\ did'[d] = "nothing")
        BY <1>6, <2>3, QuietKeeps
      <3>4. Conn(p) \in Conns /\ stack[p] # <<>> /\ Conn(p) # NoConn
        BY <1>5, <1>6, <3>2
      <3>5. Conn(q) = Conn(p) => inbox' = inbox
        <4>1. CASE stack[q] # <<>>
          <5>1. Conn(q) # Conn(p)
            BY <3>1, <3>4, <4>1, TopFrame DEF CallInv, DistinctInv, Conn, Top
          <5> QED
            BY <5>1
        <4>2. CASE stack[q] = <<>>
          <5>1. Begin(q)
            BY <1>6, <2>3, <4>2 DEF ProcStep, Works, At, call_send_fail, call_close, call_recv_status,
               property_get_recv, property_list_recv, property_monitor_open_recv, call_eof, call_timeout,
               callback_return, property_wait_read, property_wait_timeout, call_connect_fail, monitor_read,
               monitor_close, Receives
          <5> QED
            BY <5>1 DEF Begin, vars
        <4> QED
          BY <4>1, <4>2
      <3> QED
        BY <1>4, <1>6, <3>1, <3>2, <3>3, <3>4, <3>5
    <2> QED
      BY <2>1, <2>2, <2>3
  <1>7. ASSUME NEW q \in Procs, ProcStep(q) PROVE GetInv'
    BY <1>6, <1>7 DEF GetInv
  <1> QED
    BY <1>1, <1>2, <1>3, <1>7 DEF SysNext

\* Every step keeps the history of what was asked in shape.
LEMMA OwnTypeStep ==
    ASSUME CallsInv, OwnType, [SysNext]_sysVars
    PROVE  OwnType'
  <1>1. CASE UNCHANGED sysVars \/ TimeStep
    BY <1>1 DEF sysVars, TimeStep, histVars, OwnType
  <1>2. CASE DaemonStep
    BY <1>2 DEF DaemonStep, OwnNow, OwnType
  <1>3. CASE PowerStep
    BY <1>3 DEF PowerStep, NothingKnown, OwnType
  <1>4. ASSUME NEW q \in Procs, call_connect(q) PROVE OwnType'
    BY <1>4 DEF call_connect, OwnType
  <1>5. ASSUME NEW q \in Procs, call_send(q) PROVE OwnType'
    <2>1. CASE own' = own
      BY <2>1 DEF OwnType
    <2>2. CASE own' = [own EXCEPT ![q][Top(q).call.req.key] = Top(q).call.req.val]
      <3>1. PICK k, v : own' = [own EXCEPT ![q] = [own[q] EXCEPT ![k] = v]]
        BY <2>2
      <3>2. own[q] = [e \in Keys |-> own[q][e]]
        BY DEF OwnType
      <3>3. [own[q] EXCEPT ![k] = v] = [e \in Keys |-> [own[q] EXCEPT ![k] = v][e]]
        BY <3>2
      <3>4. own'[q] = [own[q] EXCEPT ![k] = v] /\ \A p \in Procs : p # q => own'[p] = own[p]
        BY <3>1 DEF OwnType
      <3>5. own' = [p \in Procs |-> own'[p]]
        BY <3>1 DEF OwnType
      <3>6. \A p \in Procs : own'[p] = [e \in Keys |-> own'[p][e]]
        BY <3>3, <3>4 DEF OwnType
      <3> QED
        BY <3>5, <3>6 DEF OwnType
    <2> QED
      BY <1>5, <2>1, <2>2 DEF call_send
  <1>6. ASSUME NEW q \in Procs, ProcStep(q), ~call_connect(q), ~call_send(q) PROVE OwnType'
    BY <1>6, QuietKeeps DEF OwnType
  <1> QED
    BY <1>1, <1>2, <1>3, <1>4, <1>5, <1>6 DEF SysNext

\* Only a set is one-way, and only a monitor is waited for.
HowInv ==
    \A p \in Procs : \A i \in 1..Len(stack[p]) :
        /\ stack[p][i].call.how = "oneway" => OpOf(stack[p][i]) = "S"
        /\ stack[p][i].call.how = "wait" => OpOf(stack[p][i]) = "M"

\* A step of a process begins a call, ends one, or goes on with it.
LEMMA StackMoves ==
    ASSUME NEW q \in Procs, ProcStep(q)
    PROVE  \/ Begin(q)
           \/ stack[q] # <<>> /\ \E c, a : GoesOn(q, c, a)
           \/ stack[q] # <<>> /\ \E r, v : Returns(q, r, v)
           \/ stack' = stack
  <1>1. CASE monitor_read(q)
    BY <1>1 DEF monitor_read
  <1>2. CASE \/ call_connect(q) \/ call_send(q) \/ call_send_fail(q) \/ callback_return(q)
             \/ property_wait_read(q)
    BY <1>2 DEF call_connect, call_send, call_send_fail, callback_return, property_wait_read, At
  <1>3. CASE call_close(q) \/ call_connect_fail(q) \/ monitor_close(q) \/ property_wait_timeout(q)
    BY <1>3 DEF call_close, call_connect_fail, monitor_close, property_wait_timeout, At
  <1>4. CASE call_recv_status(q) \/ property_get_recv(q)
    BY <1>4 DEF call_recv_status, property_get_recv, Receives, At
  <1>5. CASE property_list_recv(q) \/ property_monitor_open_recv(q)
    BY <1>5 DEF property_list_recv, property_monitor_open_recv, Receives, At
  <1>6. CASE call_eof(q) \/ call_timeout(q)
    BY <1>6 DEF call_eof, call_timeout, At
  <1> QED
    BY <1>1, <1>2, <1>3, <1>4, <1>5, <1>6 DEF ProcStep, Works

LEMMA HowStep ==
    ASSUME StackInv, HowInv, [SysNext]_sysVars
    PROVE  HowInv'
  <1>1. CASE stack' = stack
    BY <1>1 DEF HowInv
  <1>2. CASE PowerStep
    BY <1>2 DEF PowerStep, HowInv
  <1>3. ASSUME NEW q \in Procs, NEW c, NEW a, stack[q] # <<>>, GoesOn(q, c, a) PROVE HowInv'
    <2> DEFINE n == Len(stack[q])
    <2>1. /\ Len(stack'[q]) = n /\ stack'[q][n] = Moved(Top(q), c, a) /\ n \in Nat \ {0}
          /\ \A i \in 1..(n - 1) : stack'[q][i] = stack[q][i]
          /\ \A r \in Procs : r # q => stack'[r] = stack[r]
      BY <1>3, GoesOnShape
    <2>2. stack'[q][n].call = stack[q][n].call
      BY <1>3, <2>1, TopFrame, MovedFields DEF FrameOK, Top
    <2>3. \A i \in 1..n : stack'[q][i].call = stack[q][i].call
      <3>1. \A i \in 1..n : i = n \/ i \in 1..(n - 1)
        BY <2>1
      <3> QED
        BY <2>1, <2>2, <3>1
    <2> QED
      BY <2>1, <2>3 DEF HowInv, OpOf
  <1>4. ASSUME NEW q \in Procs, NEW r, NEW v, stack[q] # <<>>, Returns(q, r, v) PROVE HowInv'
    <2> DEFINE n == Len(stack[q])
    <2>1. /\ Len(stack'[q]) = n - 1 /\ n \in Nat \ {0}
          /\ \A i \in 1..(n - 1) : stack'[q][i] = stack[q][i]
          /\ \A t \in Procs : t # q => stack'[t] = stack[t]
      BY <1>4, ReturnsShape
    <2>2. \A i \in 1..(n - 1) : i \in 1..n
      BY <2>1
    <2> HIDE DEF n
    <2>3. ASSUME NEW t \in Procs, NEW i \in 1..Len(stack'[t])
          PROVE  i \in 1..Len(stack[t]) /\ stack'[t][i] = stack[t][i]
      BY <2>1, <2>2, <2>3 DEF n
    <2> QED
      BY <2>3 DEF HowInv, OpOf
  <1>5. ASSUME NEW q \in Procs, Begin(q) PROVE HowInv'
    <2>1. PICK call \in (IF stack[q] = <<>> THEN Program[q] ELSE Nested) :
            stack' = [stack EXCEPT ![q] =
                        Append(Resumed(@), [call |-> call, conn |-> NoConn, at |-> "connect"])]
      BY <1>5 DEF Begin
    <2> DEFINE f == [call |-> call, conn |-> NoConn, at |-> "connect"]
               s == Resumed(stack[q])
    <2>2. stack'[q] = Append(s, f) /\ \A r \in Procs : r # q => stack'[r] = stack[r]
      BY <2>1 DEF StackInv
    <2>3. /\ s \in Seq(Frames) /\ Len(s) = Len(stack[q])
          /\ \A i \in 1..Len(s) : s[i].call = stack[q][i].call
      <3>1. CASE stack[q] # <<>> /\ Top(q).at = "callback"
        <4> DEFINE n == Len(stack[q])
                   g == [stack[q][n] EXCEPT !.at = "recv"]
        <4>1. n \in 1..n /\ n \in Nat /\ Top(q) \in Frames /\ stack[q][n] = Top(q) /\ stack[q] \in Seq(Frames)
          BY <3>1, TopFrame DEF StackInv, Top, FrameOK
        <4>2. g \in Frames /\ g.call = stack[q][n].call
          BY <4>1 DEF Frames, Ats
        <4>3. s = [stack[q] EXCEPT ![n] = g]
          BY <3>1 DEF Resumed, WithTop, Top
        <4> HIDE DEF g, s
        <4>4. s \in Seq(Frames) /\ Len(s) = n /\ \A i \in 1..n : s[i] = IF i = n THEN g ELSE stack[q][i]
          BY <4>1, <4>2, <4>3
        <4> QED
          BY <4>2, <4>4
      <3>2. CASE ~(stack[q] # <<>> /\ Top(q).at = "callback")
        BY <3>2 DEF Resumed, Top, StackInv
      <3> QED
        BY <3>1, <3>2
    <2>4. /\ f.call.how = "oneway" => OpOf(f) = "S"
          /\ f.call.how = "wait" => OpOf(f) = "M"
      BY <2>1, ProcsAssumption, HowAssumption DEF OpOf
    <2> HIDE DEF f, s
    <2>5. /\ Len(stack'[q]) = Len(s) + 1 /\ stack'[q][Len(s) + 1] = f
          /\ \A i \in 1..Len(s) : stack'[q][i] = s[i]
      BY <2>2, <2>3
    <2>6. Len(s) \in Nat
      BY <2>3
    <2>7. ASSUME NEW i \in 1..Len(stack'[q])
          PROVE  /\ stack'[q][i].call.how = "oneway" => OpOf(stack'[q][i]) = "S"
                 /\ stack'[q][i].call.how = "wait" => OpOf(stack'[q][i]) = "M"
      <3>1. i = Len(s) + 1 \/ i \in 1..Len(s)
        BY <2>5, <2>6
      <3>2. CASE i = Len(s) + 1
        BY <2>4, <2>5, <3>2
      <3>3. CASE i \in 1..Len(s)
        <4>1. i \in 1..Len(stack[q]) /\ stack'[q][i].call = stack[q][i].call
          BY <2>3, <2>5, <3>3
        <4> QED
          BY <4>1 DEF HowInv, OpOf
      <3> QED
        BY <3>1, <3>2, <3>3
    <2> QED
      BY <2>2, <2>7 DEF HowInv, OpOf
  <1> QED
    BY <1>1, <1>2, <1>3, <1>4, <1>5, StackMoves DEF SysNext, sysVars, DaemonStep, TimeStep

\* The inductive invariant behind ReadsOwnWrites.
OwnWritesInv ==
    /\ CallsInv /\ HowInv /\ ServedInv /\ BackedInv /\ OwnerInv /\ OwnType /\ FreshInv
    /\ OwnInv /\ BehindInv /\ GetInv

LEMMA OwnWritesInit == SysInit => OwnWritesInv
  <1>1. ASSUME SysInit PROVE ServedInv /\ BackedInv
    BY <1>1 DEF SysInit, Init, EmptyImage, ServedInv, BackedInv
  <1>2. ASSUME SysInit PROVE HowInv /\ OwnerInv /\ OwnType /\ FreshInv
    BY <1>2 DEF SysInit, HowInv, OwnerInv, OwnType, FreshInv, NothingKnown
  <1>3. ASSUME SysInit PROVE OwnInv /\ BehindInv /\ GetInv
    BY <1>3 DEF SysInit, OwnInv, BehindInv, GetInv, NothingKnown, InLine, KnowsServed, Gets
  <1> QED
    BY <1>1, <1>2, <1>3, CallsInit DEF OwnWritesInv

\* The daemon that is down does nothing.
LEMMA DownIsDown == ASSUME Daemon, ServerInv PROVE ~Stopped
  BY DEF Daemon, kvdb_bind, kvdb_init, kvdb_load, kvdb_load_open, kvdb_load_line, kvdb_load_close,
         kvdb_load_return, LoadDone, kvdb_loop, kvdb_loop_start, kvdb_loop_top, epoll_wait,
         epoll_timeout, kvdb_accept, kvdb_accept_fail, kvdb_monitor_close, kvdb_monitor_close_freed,
         kvdb_client, kvdb_client_fail, kvdb_client_set, kvdb_client_delete, kvdb_client_get,
         kvdb_client_list, kvdb_client_commit, kvdb_client_reload, kvdb_client_monitor,
         kvdb_monitor_notify, kvdb_list_consume, kvdb_client_out, Serves

LEMMA OwnWritesStep ==
    ASSUME OneListener, OwnWritesInv, [SysNext]_sysVars
    PROVE  OwnWritesInv'
  <1> USE DEF OwnWritesInv
  <1>1. CallsInv'
    BY CallsStep
  <1>2. [Next]_vars /\ ServerInv
    BY SystemSteps DEF CallsInv
  <1>3. ServedInv' /\ BackedInv'
    BY <1>2, ServedStep, BackedStep
  <1>4. HowInv' /\ OwnerInv' /\ OwnType' /\ FreshInv' /\ GetInv'
    BY HowStep, OwnerStep, OwnTypeStep, FreshStep, GetStep DEF CallsInv
  <1>5. OwnInv' /\ BehindInv'
    <2>1. CASE UNCHANGED sysVars \/ TimeStep
      <3>1. UNCHANGED <<stack, own, owner, pc, cur, backlog, req, cache>>
        BY <2>1 DEF sysVars, vars, TimeStep, Tick, histVars
      <3>2. OwnInv'
        BY <3>1 DEF OwnInv, Settled, Pends, Changes, Ahead
      <3>3. BehindInv'
        <4>1. \A d, e : (Changes(d)' <=> Changes(d)) /\ (Ahead(d, e)' <=> Ahead(d, e))
          BY <3>1 DEF Changes, Ahead
        <4>2. \A p \in Procs : Conn(p)' = Conn(p) /\ (InLine(p)' <=> InLine(p))
          BY <3>1 DEF InLine, Conn, Op, Top
        <4> QED
          BY <3>1, <4>1, <4>2 DEF BehindInv
      <3> QED
        BY <3>2, <3>3
    <2>2. CASE PowerStep
      BY <2>2 DEF PowerStep, OwnInv, BehindInv, NothingKnown, InLine
    <2>3. CASE DaemonStep
      <3>1. SUFFICES ASSUME ~Stopped' PROVE OwnInv' /\ BehindInv'
        BY DEF OwnInv, BehindInv
      <3>2. ~Stopped
        BY <1>2, <2>3, DownIsDown DEF DaemonStep
      <3>3. ASSUME NEW p \in Procs, NEW k \in Keys, own'[p][k] # Unknown PROVE Settled(p, k)'
        <4>1. own[p][k] # Unknown
          BY <2>3, <3>3 DEF DaemonStep, OwnNow
        <4> QED
          BY <2>3, <3>1, <3>2, <3>3, <4>1, DaemonSettles DEF OwnInv
      <3> QED
        BY <2>3, <3>1, <3>2, <3>3, DaemonLine DEF OwnInv
    <2>4. ASSUME NEW q \in Procs, ProcStep(q) PROVE OwnInv' /\ BehindInv'
      <3>1. CASE call_connect(q)
        BY <1>1, <3>1, ConnectOwn
      <3>2. CASE call_send(q)
        BY <3>2, SendOwn
      <3>3. CASE ~call_connect(q) /\ ~call_send(q)
        BY <1>1, <2>4, <3>3, QuietOwn
      <3> QED
        BY <3>1, <3>2, <3>3
    <2> QED
      BY <2>1, <2>2, <2>3, <2>4 DEF SysNext
  <1> QED
    BY <1>1, <1>3, <1>4, <1>5

\* A process reads what it has written itself, also by a one-way set or a
\* call that timed out before it was served, unless another one has changed
\* the key, when all clients connect to one listening socket.
THEOREM OwnWritesAreRead == ASSUME OneListener PROVE SysSpec => ReadsOwnWrites
  <1> DEFINE Reads ==
        \A p \in Procs :
            Finishes(p, {"G"}) /\ ret'.res = "ok" /\ did[Conn(p)] = "ok"
              /\ own[p][Top(p).call.req.key] # Unknown =>
                ret'.val = own[p][Top(p).call.req.key]
  <1>1. ASSUME OwnWritesInv, [SysNext]_sysVars PROVE Reads
    <2>1. SUFFICES ASSUME NEW p \in Procs, Finishes(p, {"G"}), ret'.res = "ok", did[Conn(p)] = "ok",
                          own[p][Top(p).call.req.key] # Unknown
                   PROVE  ret'.val = own[p][Top(p).call.req.key]
      OBVIOUS
    <2>2. CallsInv
      BY <1>1 DEF OwnWritesInv
    <2>3. ProcStep(p) /\ stack[p] # <<>> /\ Op(p) = "G"
      BY <1>1, <2>1, <2>2, ResultsReturn DEF Finishes
    <2>4. FrameInv(Top(p)) /\ Op(p) = OpOf(Top(p)) /\ Conn(p) = Top(p).conn
      BY <2>2, <2>3, TopInv
    <2>5. property_get_recv(p) \/ call_eof(p)
      <3>1. ASSUME NEW v, Returns(p, "err", v) PROVE FALSE
        BY <2>1, <3>1 DEF Returns
      <3>2. ASSUME NEW c, NEW a, GoesOn(p, c, a) PROVE FALSE
        BY <2>1, <3>2 DEF GoesOn, Finishes
      <3>3. ~Begin(p) /\ ~monitor_read(p)
        BY <2>1 DEF Finishes, Begin, monitor_read
      <3>4. ~(call_recv_status(p) \/ property_list_recv(p) \/ property_monitor_open_recv(p))
        BY <2>3 DEF call_recv_status, property_list_recv, property_monitor_open_recv, Receives
      <3>5. ~call_timeout(p)
        BY <2>3, <3>1 DEF call_timeout, TimeoutResults
      <3>6. ~monitor_close(p)
        BY <2>3, <2>4 DEF monitor_close, At, FrameInv
      <3>7. ~(call_connect(p) \/ call_send(p) \/ callback_return(p) \/ property_wait_read(p))
        BY <3>2 DEF call_connect, call_send, callback_return, property_wait_read
      <3>8. ~(call_connect_fail(p) \/ call_send_fail(p) \/ property_wait_timeout(p))
        BY <3>1, <3>2 DEF call_connect_fail, call_send_fail, property_wait_timeout
      <3>9. ~call_close(p)
        <4>1. SUFFICES ASSUME call_close(p) PROVE FALSE
          OBVIOUS
        <4>2. Top(p).at = "close" /\ Top(p) \in Frames
          BY <2>2, <2>3, <4>1, TopInv DEF call_close, At
        <4>3. Top(p).call.how # "plain"
          BY <2>3, <2>4, <4>2 DEF FrameInv
        <4>4. Top(p).call.how \in {"oneway", "wait"}
          BY <4>2, <4>3 DEF Frames, CallRecords
        <4>5. Len(stack[p]) \in 1..Len(stack[p])
          BY <2>2, <2>3, TopFrame DEF CallsInv
        <4> QED
          BY <1>1, <2>3, <2>4, <4>4, <4>5 DEF OwnWritesInv, HowInv, Top
      <3> QED
        BY <2>3, <3>3, <3>4, <3>5, <3>6, <3>7, <3>8, <3>9 DEF ProcStep, Works
    <2>6. Top(p).at = "recv" /\ Gets(p) /\ Conn(p) \in Conns
      BY <2>2, <2>3, <2>5, CallHasConn DEF property_get_recv, call_eof, Receives, At, Gets, CallsInv
    <2>7. HasAnswer(Conn(p), own[p][Top(p).call.req.key])
      BY <1>1, <2>1, <2>6 DEF OwnWritesInv, GetInv, KnowsServed
    <2>8. CASE property_get_recv(p)
      <3>1. inbox[Conn(p)] # <<>> /\ ret'.val = Head(inbox[Conn(p)]).val
        BY <2>8 DEF property_get_recv, Receives, property_recv, Returns, Received
      <3> QED
        BY <2>7, <3>1 DEF HasAnswer
    <2>9. CASE call_eof(p)
      <3>1. inbox[Conn(p)] = <<>> /\ Dropped(Conn(p)) /\ ret'.val = Absent
        BY <2>9 DEF call_eof, property_eof, Returns
      <3>2. Conn(p) # cur
        BY <2>2, <2>6, <3>1, SocketsAssumption DEF CallsInv, ServerInv, OwnersInv, Dropped
      <3> QED
        BY <2>7, <3>1, <3>2 DEF HasAnswer
    <2> QED
      BY <2>5, <2>8, <2>9
  <1>2. OwnWritesInv /\ [SysNext]_sysVars => [Reads]_sysVars
    BY <1>1
  <1>3. OwnWritesInv /\ [SysNext]_sysVars => OwnWritesInv'
    BY OwnWritesStep
  <1> QED
    BY <1>2, <1>3, OwnWritesInit, PTL DEF SysSpec, ReadsOwnWrites

=============================================================================
