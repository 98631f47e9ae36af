------------------------ MODULE BootPropertiesProofs ------------------------
(***************************************************************************)
(* What the boot properties service of kvdb/qemu_properties.c keeps true   *)
(* beside other users of the properties, for any frames of the host.       *)
(***************************************************************************)
EXTENDS BootProperties, SystemPropertiesProofs

FrameType == [kind : {"prop", "plain", "end", "big"}, key : Keys, text : Seq(STRING)]

-----------------------------------------------------------------------------
(* Properties in order *)

\* No frame, no call.
LEMMA InOrderNone == ASSUME NEW s PROVE InOrder(<<>>, s, 0)
  <1> DEFINE at == [i \in {} |-> i]
  <1>1. 1 .. 0 = {}
    OBVIOUS
  <1>2. DOMAIN <<>> = {}
    BY <1>1
  <1>3. at \in [{} -> 1 .. 0] /\ Range(at) = {}
    BY DEF Range
  <1> HIDE DEF at
  <1> QED
    BY <1>1, <1>2, <1>3 DEF InOrder

\* Only the first n frames count.
LEMMA InOrderSame ==
    ASSUME NEW g, NEW s, NEW r, NEW n \in Nat, InOrder(g, s, n), \A i \in 1 .. n : r[i] = s[i]
    PROVE  InOrder(g, r, n)
  BY DEF InOrder

\* A frame that is no property needs no call.
LEMMA InOrderSkip ==
    ASSUME NEW g, NEW s, NEW n \in Nat, InOrder(g, s, n), s[n + 1].kind # "prop"
    PROVE  InOrder(g, s, n + 1)
  <1>1. PICK at \in [DOMAIN g -> 1 .. n] :
            /\ \A i, j \in DOMAIN g : i < j => at[i] < at[j]
            /\ Range(at) = {i \in 1 .. n : s[i].kind = "prop"}
            /\ \A i \in DOMAIN g : g[i] = s[at[i]]
    BY DEF InOrder
  <1>2. at \in [DOMAIN g -> 1 .. n + 1]
    BY <1>1
  <1>3. Range(at) = {i \in 1 .. n + 1 : s[i].kind = "prop"}
    BY <1>1
  <1> QED
    BY <1>1, <1>2, <1>3 DEF InOrder

\* A property is the next call.
LEMMA InOrderNext ==
    ASSUME NEW S, NEW g \in Seq(S), NEW s, NEW n \in Nat, NEW f \in S, InOrder(g, s, n),
           s[n + 1] = f, f.kind = "prop"
    PROVE  InOrder(Append(g, f), s, n + 1)
  <1>1. PICK at \in [DOMAIN g -> 1 .. n] :
            /\ \A i, j \in DOMAIN g : i < j => at[i] < at[j]
            /\ Range(at) = {i \in 1 .. n : s[i].kind = "prop"}
            /\ \A i \in DOMAIN g : g[i] = s[at[i]]
    BY DEF InOrder
  <1>2. PICK k \in Nat : Len(g) = k /\ DOMAIN g = 1 .. k
    OBVIOUS
  <1> DEFINE h == Append(g, f)
             to == [i \in 1 .. k + 1 |-> IF i = k + 1 THEN n + 1 ELSE at[i]]
  <1>3. DOMAIN h = 1 .. k + 1 /\ h[k + 1] = f /\ \A i \in 1 .. k : h[i] = g[i]
    BY <1>2
  <1>4. k + 1 \in 1 .. k + 1 /\ \A i \in 1 .. k + 1 : i = k + 1 \/ i \in 1 .. k
    BY <1>2
  <1>5. \A i \in 1 .. k : i \in 1 .. k + 1 /\ i # k + 1 /\ at[i] \in 1 .. n
    BY <1>1, <1>2
  <1>6. to \in [1 .. k + 1 -> 1 .. n + 1]
    BY <1>4, <1>5
  <1>7. to[k + 1] = n + 1 /\ \A i \in 1 .. k : to[i] = at[i]
    BY <1>4, <1>5
  <1> HIDE DEF h, to
  <1>8. ASSUME NEW i \in 1 .. k + 1, NEW j \in 1 .. k + 1, i < j PROVE to[i] < to[j]
    <2>1. i \in 1 .. k
      BY <1>2, <1>8
    <2>2. CASE j = k + 1
      BY <1>5, <1>7, <2>1, <2>2
    <2>3. CASE j \in 1 .. k
      BY <1>1, <1>2, <1>7, <1>8, <2>1, <2>3
    <2> QED
      BY <1>4, <2>2, <2>3
  <1>9. Range(to) = Range(at) \cup {n + 1}
    <2>1. DOMAIN to = 1 .. k + 1 /\ DOMAIN at = 1 .. k
      BY <1>1, <1>2, <1>6
    <2> QED
      BY <1>4, <1>5, <1>7, <2>1 DEF Range
  <1>10. Range(to) = {i \in 1 .. n + 1 : s[i].kind = "prop"}
    <2>1. n + 1 \in 1 .. n + 1 /\ \A i \in 1 .. n + 1 : i = n + 1 \/ i \in 1 .. n
      OBVIOUS
    <2>2. \A i \in 1 .. n : i \in 1 .. n + 1
      OBVIOUS
    <2> QED
      BY <1>1, <1>9, <2>1, <2>2
  <1>11. \A i \in 1 .. k + 1 : h[i] = s[to[i]]
    BY <1>1, <1>2, <1>3, <1>4, <1>7
  <1>12. InOrder(h, s, n + 1)
    <2>1. \A i, j \in DOMAIN h : i < j => to[i] < to[j]
      BY <1>3, <1>8
    <2> QED
      BY <1>3, <1>6, <1>10, <1>11, <2>1 DEF InOrder
  <1> QED
    BY <1>12 DEF h

-----------------------------------------------------------------------------
(* The service *)

\* What is in the buffer is never a whole property: it has been cut at the =.
BufferInv ==
    /\ temp = Junk \/ temp.kind \in {"plain", "end"}
    /\ qpc \in {"open", "sleep"} => tries > 0

PipeType ==
    /\ pipe \in Seq(FrameType) /\ sent \in Seq(FrameType)
    /\ given \in Seq(FrameType \cup {Junk})

QemuTypeInv == QemuTypeOK /\ BufferInv /\ PipeType

BootInv == PropInv /\ QemuTypeInv

\* The service calls property_set with the key of a frame.
LEMMA CallsWithKey ==
    ASSUME ApiInv, NEW f \in FrameType, Begin(Q, SetCall(f))
    PROVE  ApiInv'
  <1>1. SetCall(f).key \in Keys
    BY DEF SetCall, NoCall, FrameType
  <1> QED
    BY <1>1, QemuAssumption, BeginInv

\* What a turn of the loop does with a buffer f: the API keeps its invariant, and
\* the buffer is cut.
LEMMA HandlesInv ==
    ASSUME ApiInv, QemuTypeInv, NEW f, f \in FrameType \/ f = Junk \/ f.kind \in {"plain", "end"},
           f.kind # "big", Handles(f) \/ Breaks \/ Loops(Nul)
    PROVE  /\ ApiInv'
           /\ qpc' \in {"recv", "set", "done"}
           /\ temp' = Junk \/ temp'.kind \in {"plain", "end"}
           /\ given' \in Seq(FrameType \cup {Junk})
  <1> USE DEF QemuTypeInv, BufferInv, PipeType
  <1>1. ASSUME UNCHANGED apiVars PROVE ApiInv'
    BY <1>1 DEF apiVars, ApiInv, Places, Placed, Values, MonitorType
  <1>2. CASE Breaks
    BY <1>1, <1>2 DEF Breaks
  <1>3. CASE Loops(Nul)
    BY <1>1, <1>3 DEF Loops, Nul, Junk
  <1>4. CASE f.kind = "plain" /\ Loops(f)
    BY <1>1, <1>4 DEF Loops
  <1>5. CASE f = Junk /\ (Loops(f) \/ (qpc' = "recv" /\ temp' = f /\ given' = <<f>> /\ UNCHANGED apiVars))
    <2>1. <<Junk>> \in Seq(FrameType \cup {Junk})
      OBVIOUS
    <2> QED
      BY <1>1, <1>5, <2>1 DEF Loops
  <1>6. CASE /\ f.kind = "prop" /\ Begin(Q, SetCall(f))
             /\ qpc' = "set" /\ temp' = CutAtEquals(f)
             /\ given' = IF given = <<Junk>> THEN given ELSE Append(given, f)
    <2>1. f \in FrameType
      BY <1>6 DEF Junk
    <2>2. CutAtEquals(f).kind = "plain"
      BY <2>1 DEF CutAtEquals, FrameType
    <2>3. Append(given, f) \in Seq(FrameType \cup {Junk})
      BY <2>1
    <2> QED
      BY <1>6, <2>1, <2>2, <2>3, CallsWithKey
  <1>7. f.kind = "junk" => f = Junk
    BY DEF FrameType
  <1> QED
    BY <1>2, <1>3, <1>4, <1>5, <1>6, <1>7 DEF Handles

LEMMA ServiceTypes ==
    ASSUME BootInv, ServiceStep \/ ServiceFails
    PROVE  BootInv'
  <1> USE DEF BootInv, PropInv, QemuTypeInv, BufferInv, PipeType, QemuTypeOK
  <1>1. ApiInv /\ QemuTypeInv /\ MAX_TRIES \in Nat
    BY QemuAssumption
  <1>2. SysTypeOK'
    BY DEF ServiceStep, ServiceFails, sysVars, SysTypeOK
  <1>3. ASSUME UNCHANGED apiVars PROVE ApiInv'
    BY <1>1, <1>3 DEF apiVars, ApiInv, Places, Placed, Values, MonitorType
  <1>4. CASE Open
    <2>1. tries' \in 0 .. MAX_TRIES /\ (qpc' = "sleep" => tries' > 0)
      BY <1>1, <1>4 DEF Open, TriesLeft
    <2> QED
      BY <1>2, <1>3, <1>4, <2>1 DEF Open
  <1>5. CASE Wake
    BY <1>2, <1>3, <1>5 DEF Wake
  <1>6. CASE SendList
    BY <1>2, <1>3, <1>6 DEF SendList
  <1>7. CASE SetReturned
    BY <1>2, <1>3, <1>7 DEF SetReturned
  <1>8. CASE Receive
    <2>1. /\ Head(pipe) \in FrameType /\ Head(pipe).kind # "big" /\ Handles(Head(pipe))
          /\ pipe' = Tail(pipe) /\ pipe' \in Seq(FrameType) /\ UNCHANGED <<tries, aligned, host, sent>>
      BY <1>8 DEF Receive
    <2> QED
      BY <1>1, <1>2, <2>1, HandlesInv
  <1>9. CASE ReceiveTooBig
    <2>1. /\ Breaks \/ Loops(Nul)
          /\ aligned' = FALSE /\ UNCHANGED <<tries, pipe, host, sent>>
      BY <1>9 DEF ReceiveTooBig
    <2>2. Junk.kind # "big"
      BY DEF Junk
    <2> QED
      BY <1>1, <1>2, <2>1, <2>2, HandlesInv
  <1>10. CASE ReceiveUnaligned
    <2>1. PICK n \in 0 .. Len(pipe) : pipe' = SubSeq(pipe, n + 1, Len(pipe))
      BY <1>10 DEF ReceiveUnaligned
    <2>2. pipe' \in Seq(FrameType)
      BY <2>1
    <2>3. /\ Breaks \/ Handles(temp) \/ Handles(Junk)
          /\ UNCHANGED <<tries, aligned, host, sent>>
      BY <1>10 DEF ReceiveUnaligned
    <2>4. temp.kind # "big" /\ Junk.kind # "big"
      BY DEF Junk
    <2> QED
      BY <1>1, <1>2, <2>2, <2>3, <2>4, HandlesInv
  <1>11. CASE ReceiveEof
    <2>1. /\ Breaks \/ Handles(temp) \/ Loops(Nul)
          /\ UNCHANGED <<tries, pipe, aligned, host, sent>>
      BY <1>11 DEF ReceiveEof
    <2>2. temp.kind # "big"
      BY DEF Junk
    <2> QED
      BY <1>1, <1>2, <2>1, <2>2, HandlesInv
  <1>12. CASE ReceiveFails
    BY <1>2, <1>3, <1>12 DEF ReceiveFails, Breaks
  <1> QED
    BY <1>4, <1>5, <1>6, <1>7, <1>8, <1>9, <1>10, <1>11, <1>12 DEF ServiceStep, ServiceFails, QemuWork

LEMMA BootInvStep == BootInv /\ [BootNext]_bootVars => BootInv'
  <1> SUFFICES ASSUME BootInv, [BootNext]_bootVars PROVE BootInv'
    OBVIOUS
  <1>1. ASSUME UNCHANGED qemuVars PROVE QemuTypeInv'
    BY <1>1 DEF BootInv, qemuVars, QemuTypeInv, BufferInv, PipeType, QemuTypeOK
  <1>2. CASE UNCHANGED bootVars
    BY <1>1, <1>2, PropInvStep DEF bootVars, BootInv
  <1>3. CASE \/ \E t \in Threads : ThreadStep(t) \/ ThreadCalls(t)
             \/ \E p \in Procs : ProcessRestarts(p)
    BY <1>1, <1>3, PropInvStep DEF ThreadStep, ThreadCalls, ProcessRestarts, SysNext, BootInv
  <1>4. CASE ServiceStep \/ ServiceFails
    BY <1>4, ServiceTypes
  <1>5. CASE HostActs
    <2>1. UNCHANGED <<apiVars, sysVars>>
      BY <1>5 DEF HostActs, HostStep, HostSends, HostCloses
    <2>2. PropInv'
      BY <2>1, PropInvStep DEF BootInv
    <2>3. ASSUME NEW f \in Frames PROVE Append(pipe, f) \in Seq(FrameType) /\ Append(sent, f) \in Seq(FrameType)
      BY QemuAssumption DEF BootInv, QemuTypeInv, PipeType, FrameType
    <2>4. CASE HostSends
      BY <2>2, <2>3, <2>4 DEF HostSends, BootInv, QemuTypeInv, BufferInv, PipeType, QemuTypeOK
    <2>5. CASE HostCloses
      BY <2>2, <2>5 DEF HostCloses, BootInv, QemuTypeInv, BufferInv, PipeType, QemuTypeOK
    <2> QED
      BY <1>5, <2>4, <2>5 DEF HostActs, HostStep
  <1> QED
    BY <1>2, <1>3, <1>4, <1>5 DEF BootNext

LEMMA BootInvInit == BootInit => BootInv
  <1> SUFFICES ASSUME BootInit PROVE BootInv
    OBVIOUS
  <1>1. MAX_TRIES \in Nat \ {0}
    BY QemuAssumption
  <1> QED
    BY <1>1, PropInvInit
       DEF BootInit, QemuInit, BootInv, QemuTypeInv, BufferInv, PipeType, QemuTypeOK

\* The service and the calls of all the threads, its own too, keep their types;
\* in particular it tries to open the pipe no more often than it may.
THEOREM BootTypeCorrect == BootSpec => []BootTypeOK
  <1>1. BootInv => BootTypeOK
    BY ApiInvType DEF BootInv, PropInv, QemuTypeInv, BootTypeOK
  <1> QED
    BY <1>1, BootInvInit, BootInvStep, PTL DEF BootSpec

-----------------------------------------------------------------------------
(* What the service sets *)

\* The frames the service has read.
Taken == Len(sent) - Len(pipe)

\* Before the request there is nothing, and the end of the list comes last.
HostInv ==
    /\ qpc \in {"open", "sleep", "send", "failed"} =>
          host = "waiting" /\ sent = <<>> /\ pipe = <<>> /\ given = <<>>
    /\ \A i \in DOMAIN sent :
          sent[i].kind = "end" => i = Len(sent) /\ host \in {"ended", "closed"}

\* While it reads, the pipe holds what it has not read yet, and it has set what
\* it has read.
Reading ==
    qpc \in {"recv", "set"} =>
        /\ Len(pipe) <= Len(sent)
        /\ \A i \in 1 .. Len(pipe) : pipe[i] = sent[Taken + i]
        /\ given # <<Junk>> => InOrder(given, sent, Taken)

\* It stops at the end of the list, having set all of it, or at the end of the
\* pipe.
Stopped ==
    qpc = "done" =>
        /\ host \in {"ended", "closed"}
        /\ given # <<Junk>> =>
              /\ \E n \in 0 .. Len(sent) : InOrder(given, sent, n)
              /\ host = "ended" => InOrder(given, sent, Len(sent))

OrderInv == HostInv /\ (NoneTooBig => aligned /\ Reading /\ Stopped)

LEMMA OrderUnchanged ==
    ASSUME OrderInv, UNCHANGED qemuVars
    PROVE  OrderInv'
  BY DEF OrderInv, HostInv, Reading, Stopped, NoneTooBig, Taken, qemuVars

LEMMA HostOrder ==
    ASSUME BootInv, OrderInv, HostActs
    PROVE  OrderInv'
  <1>1. pipe \in Seq(FrameType) /\ sent \in Seq(FrameType)
    BY DEF BootInv, QemuTypeInv, PipeType
  <1>2. qpc \in {"recv", "set", "done"} /\ host = "listing" /\ UNCHANGED <<qpc, aligned, given>>
    BY DEF HostActs, HostStep, HostSends, HostCloses, OrderInv, HostInv, BootInv, QemuTypeInv,
           QemuTypeOK
  <1>3. NoneTooBig => qpc # "done"
    BY <1>2 DEF OrderInv, Stopped
  <1>4. \A i \in DOMAIN sent : sent[i].kind # "end"
    BY <1>2 DEF OrderInv, HostInv
  <1>5. CASE HostCloses
    BY <1>2, <1>3, <1>4, <1>5
       DEF HostCloses, OrderInv, HostInv, Reading, Stopped, NoneTooBig, Taken
  <1>6. ASSUME NEW f \in Frames, sent' = Append(sent, f),
               pipe' = IF qpc \in {"recv", "set"} THEN Append(pipe, f) ELSE pipe,
               host' = IF f.kind = "end" THEN "ended" ELSE "listing"
        PROVE  OrderInv'
    <2>1. f \in FrameType
      BY QemuAssumption DEF FrameType
    <2> DEFINE a == Len(sent)
               b == Len(pipe)
    <2>2. /\ a \in Nat /\ DOMAIN sent = 1 .. a /\ Len(sent') = a + 1 /\ DOMAIN sent' = 1 .. a + 1
          /\ sent'[a + 1] = f /\ \A i \in 1 .. a : sent'[i] = sent[i]
      BY <1>1, <1>6, <2>1
    <2>3. HostInv'
      BY <1>2, <1>4, <1>6, <2>2 DEF HostInv
    <2>4. ASSUME NoneTooBig' PROVE NoneTooBig
      BY <2>2, <2>4 DEF NoneTooBig
    <2>5. ASSUME NoneTooBig' PROVE aligned' /\ Reading' /\ Stopped'
      <3>1. aligned /\ Reading /\ qpc \in {"recv", "set"}
        BY <1>2, <1>3, <2>4, <2>5 DEF OrderInv
      <3>2. pipe' = Append(pipe, f)
        BY <1>6, <3>1
      <3>3. /\ b \in Nat /\ Len(pipe') = b + 1 /\ pipe'[b + 1] = f
            /\ \A i \in 1 .. b : pipe'[i] = pipe[i]
        BY <1>1, <2>1, <3>2
      <3>4. b <= a /\ Taken = a - b /\ Taken' = a - b /\ a - b \in Nat
        BY <2>2, <3>1, <3>3 DEF Reading, Taken
      <3>5. \A i \in 1 .. b : pipe[i] = sent[a - b + i]
        BY <3>1, <3>4 DEF Reading
      <3> HIDE DEF a, b
      <3>6. ASSUME NEW i \in 1 .. b + 1 PROVE pipe'[i] = sent'[a - b + i]
        <4>1. CASE i = b + 1
          <5>1. a - b + i = a + 1
            BY <2>2, <3>3, <4>1
          <5> QED
            BY <2>2, <3>3, <4>1, <5>1
        <4>2. CASE i # b + 1
          <5>1. i \in 1 .. b /\ a - b + i \in 1 .. a
            BY <2>2, <3>3, <3>4, <4>2
          <5> QED
            BY <2>2, <3>3, <3>5, <5>1
        <4> QED
          BY <4>1, <4>2
      <3>7. given # <<Junk>> => InOrder(given, sent', a - b)
        <4>1. \A i \in 1 .. a - b : sent'[i] = sent[i]
          BY <2>2, <3>3, <3>4
        <4>2. given # <<Junk>> => InOrder(given, sent, a - b)
          BY <3>1, <3>4 DEF Reading
        <4> QED
          BY <3>4, <4>1, <4>2, InOrderSame
      <3> QED
        BY <1>2, <2>2, <3>1, <3>3, <3>4, <3>6, <3>7 DEF Reading, Stopped
    <2> QED
      BY <2>3, <2>5 DEF OrderInv
  <1> QED
    BY <1>2, <1>5, <1>6 DEF HostActs, HostStep, HostSends

\* Nothing has been read or set when the request is sent.
LEMMA SendOrder ==
    ASSUME BootInv, OrderInv, Open \/ Wake \/ SendList \/ SetReturned
    PROVE  OrderInv'
  <1> USE DEF OrderInv, HostInv, NoneTooBig, Taken
  <1>1. CASE Open
    BY <1>1 DEF Open, Reading, Stopped
  <1>2. CASE Wake
    BY <1>2 DEF Wake, Reading, Stopped
  <1>3. CASE SetReturned
    BY <1>3 DEF SetReturned, Reading, Stopped
  <1>4. CASE SendList
    <2>1. /\ host = "waiting" /\ sent = <<>> /\ pipe = <<>> /\ given = <<>>
          /\ UNCHANGED <<pipe, aligned, sent, given>>
      BY <1>4 DEF SendList
    <2>2. Len(<<>>) = 0 /\ DOMAIN <<>> = {}
      OBVIOUS
    <2>3. HostInv'
      BY <1>4, <2>1, <2>2 DEF SendList
    <2>4. aligned
      BY <2>1, <2>2
    <2>5. Reading'
      <3>1. InOrder(<<>>, sent, 0)
        BY InOrderNone
      <3>2. Taken' = 0 /\ Len(pipe') = 0 /\ Len(sent') = 0
        BY <2>1, <2>2
      <3>3. \A i \in 1 .. 0 : FALSE
        OBVIOUS
      <3> QED
        BY <2>1, <3>1, <3>2, <3>3 DEF Reading
    <2>6. Stopped'
      BY <1>4 DEF SendList, Stopped
    <2> QED
      BY <2>1, <2>3, <2>4, <2>5, <2>6
  <1> QED
    BY <1>1, <1>2, <1>3, <1>4

\* A turn of the loop takes the next frame and does what it asks for.
LEMMA ReceiveOrder ==
    ASSUME BootInv, OrderInv, Receive
    PROVE  OrderInv'
  <1> DEFINE f == Head(pipe)
             a == Len(sent)
             b == Len(pipe)
  <1>1. /\ pipe \in Seq(FrameType) /\ sent \in Seq(FrameType)
        /\ given \in Seq(FrameType \cup {Junk})
    BY DEF BootInv, QemuTypeInv, PipeType
  <1>2. /\ qpc = "recv" /\ aligned /\ pipe # <<>> /\ pipe' = Tail(pipe) /\ Handles(f)
        /\ UNCHANGED <<aligned, host, sent>>
    BY DEF Receive
  <1>3. /\ a \in Nat /\ b \in Nat \ {0} /\ DOMAIN sent = 1 .. a
        /\ f = pipe[1] /\ f \in FrameType
        /\ Len(pipe') = b - 1 /\ \A i \in 1 .. b - 1 : pipe'[i] = pipe[i + 1]
    BY <1>1, <1>2
  <1>4. f.kind # "junk" /\ qpc' \in {"recv", "set", "done"}
    BY <1>2, <1>3 DEF Handles, Breaks, Loops, FrameType
  <1>5. HostInv'
    BY <1>2, <1>4 DEF OrderInv, HostInv
  <1>6. ASSUME NoneTooBig' PROVE aligned' /\ Reading' /\ Stopped'
    <2>1. NoneTooBig /\ Reading
      BY <1>2, <1>6 DEF NoneTooBig, OrderInv
    <2> DEFINE n == a - b
    <2>2. b <= a /\ Taken = n /\ n \in Nat /\ n + 1 \in 1 .. a /\ Taken' = n + 1
      BY <1>2, <1>3, <2>1 DEF Reading, Taken
    <2>3. \A i \in 1 .. b : pipe[i] = sent[n + i]
      BY <1>2, <2>1, <2>2 DEF Reading
    <2>4. given # <<Junk>> => InOrder(given, sent, n)
      BY <1>2, <2>1, <2>2 DEF Reading
    <2>5. sent[n + 1] = f
      BY <1>3, <2>3
    <2> HIDE DEF f
    <2>6. given' # <<Junk>> => InOrder(given', sent, n + 1)
      <3>1. CASE f.kind = "prop"
        <4>1. given' = IF given = <<Junk>> THEN given ELSE Append(given, f)
          BY <1>2, <3>1 DEF Handles
        <4>2. f \in FrameType \cup {Junk}
          BY <1>3
        <4>3. given # <<Junk>> => InOrder(Append(given, f), sent, n + 1)
          BY <1>1, <2>2, <2>4, <2>5, <3>1, <4>2, InOrderNext
        <4> QED
          BY <4>1, <4>3
      <3>2. CASE f.kind # "prop"
        <4>1. given' = given
          BY <1>2, <1>4, <3>2 DEF Handles, Breaks, Loops
        <4> QED
          BY <2>2, <2>4, <2>5, <3>2, <4>1, InOrderSkip
      <3> QED
        BY <3>1, <3>2
    <2>7. Reading'
      <3>1. Len(pipe') <= Len(sent') /\ Len(pipe') = b - 1
        BY <1>2, <1>3, <2>2
      <3>2. ASSUME NEW i \in 1 .. b - 1 PROVE pipe'[i] = sent'[Taken' + i]
        <4>1. i + 1 \in 1 .. b /\ n + (i + 1) = (n + 1) + i
          BY <1>3, <2>2
        <4>2. pipe'[i] = sent[n + (i + 1)]
          BY <1>3, <2>3, <4>1
        <4> QED
          BY <1>2, <2>2, <4>1, <4>2
      <3> HIDE DEF a, b, n
      <3> QED
        BY <1>2, <2>2, <2>6, <3>1, <3>2 DEF Reading
    <2>8. Stopped'
      <3>1. SUFFICES ASSUME qpc' = "done"
                     PROVE  /\ host' \in {"ended", "closed"}
                            /\ given' # <<Junk>> =>
                                  /\ \E m \in 0 .. Len(sent') : InOrder(given', sent', m)
                                  /\ host' = "ended" => InOrder(given', sent', Len(sent'))
        BY DEF Stopped
      <3>2. f.kind = "end"
        BY <1>2, <1>4, <3>1 DEF Handles, Loops
      <3>3. n + 1 = a /\ host \in {"ended", "closed"}
        BY <1>3, <2>2, <2>5, <3>2 DEF OrderInv, HostInv
      <3>4. given' # <<Junk>> => InOrder(given', sent, a)
        BY <2>6, <3>3
      <3>5. a \in 0 .. a
        BY <1>3
      <3> QED
        BY <1>2, <3>3, <3>4, <3>5
    <2> QED
      BY <1>2, <2>7, <2>8
  <1> QED
    BY <1>5, <1>6 DEF OrderInv

\* At the end of the pipe the buffer holds what it held before: no property.
LEMMA EofOrder ==
    ASSUME BootInv, OrderInv, ReceiveEof \/ ReceiveFails
    PROVE  OrderInv'
  <1>1. pipe \in Seq(FrameType) /\ sent \in Seq(FrameType) /\ (temp = Junk \/ temp.kind \in {"plain", "end"})
    BY DEF BootInv, QemuTypeInv, PipeType, BufferInv
  <1>2. /\ qpc = "recv" /\ qpc' \in {"recv", "done"} /\ UNCHANGED <<aligned, sent>>
        /\ given' = given \/ given' = <<Junk>>
    BY <1>1 DEF ReceiveEof, ReceiveFails, Breaks, Loops, Handles, Junk
  <1>3. host' = "closed" /\ (qpc' = "done" \/ (pipe' = pipe /\ host' = host))
    BY DEF ReceiveEof, ReceiveFails, Breaks
  <1>4. HostInv'
    BY <1>2, <1>3 DEF OrderInv, HostInv
  <1>5. ASSUME NoneTooBig' PROVE aligned' /\ Reading' /\ Stopped'
    <2>1. aligned /\ Reading
      BY <1>2, <1>5 DEF NoneTooBig, OrderInv
    <2>2. Reading'
      BY <1>2, <1>3, <2>1 DEF Reading, Taken
    <2>3. Taken \in 0 .. Len(sent)
      BY <1>1, <1>2, <2>1 DEF Reading, Taken
    <2>4. given # <<Junk>> => InOrder(given, sent, Taken)
      BY <1>2, <2>1 DEF Reading
    <2> QED
      BY <1>2, <1>3, <2>1, <2>2, <2>3, <2>4 DEF Stopped
  <1> QED
    BY <1>4, <1>5 DEF OrderInv

\* Reads lose their place only after a frame that was too long.
LEMMA LostOrder ==
    ASSUME BootInv, OrderInv, ReceiveTooBig \/ ReceiveUnaligned
    PROVE  OrderInv'
  <1>1. pipe \in Seq(FrameType) /\ sent \in Seq(FrameType)
    BY DEF BootInv, QemuTypeInv, PipeType
  <1>2. qpc = "recv" /\ UNCHANGED <<host, sent>>
    BY DEF ReceiveTooBig, ReceiveUnaligned
  <1>3. qpc' \in {"recv", "set", "done"}
    BY DEF ReceiveTooBig, ReceiveUnaligned, Breaks, Loops, Handles
  <1>4. HostInv'
    BY <1>2, <1>3 DEF OrderInv, HostInv
  <1>5. ASSUME NoneTooBig PROVE FALSE
    <2>1. aligned /\ Reading
      BY <1>5 DEF OrderInv
    <2>2. pipe # <<>> /\ Head(pipe).kind = "big"
      BY <2>1 DEF ReceiveTooBig, ReceiveUnaligned
    <2>3. Len(pipe) \in Nat \ {0} /\ Len(sent) \in Nat /\ Head(pipe) = pipe[1] /\ DOMAIN sent = 1 .. Len(sent)
      BY <1>1, <2>2
    <2>4. pipe[1] = sent[Taken + 1] /\ Taken + 1 \in DOMAIN sent
      BY <1>2, <2>1, <2>3 DEF Reading, Taken
    <2> QED
      BY <1>5, <2>2, <2>3, <2>4 DEF NoneTooBig
  <1> QED
    BY <1>2, <1>4, <1>5 DEF OrderInv, NoneTooBig

LEMMA OrderInvStep == BootInv /\ OrderInv /\ [BootNext]_bootVars => OrderInv'
  <1> SUFFICES ASSUME BootInv, OrderInv, [BootNext]_bootVars PROVE OrderInv'
    OBVIOUS
  <1>1. CASE UNCHANGED qemuVars
    BY <1>1, OrderUnchanged
  <1>2. CASE ServiceStep \/ ServiceFails
    BY <1>2, SendOrder, ReceiveOrder, EofOrder, LostOrder DEF ServiceStep, ServiceFails, QemuWork
  <1>3. CASE HostActs
    BY <1>3, HostOrder
  <1> QED
    BY <1>1, <1>2, <1>3 DEF BootNext, bootVars, ThreadStep, ThreadCalls, ProcessRestarts

LEMMA OrderInvInit == BootInit => OrderInv
  <1> SUFFICES ASSUME BootInit PROVE OrderInv
    OBVIOUS
  <1>1. DOMAIN <<>> = {}
    OBVIOUS
  <1> QED
    BY <1>1 DEF BootInit, QemuInit, OrderInv, HostInv, Reading, Stopped

LEMMA OrderInvGiven == BootInv /\ OrderInv => GivenInOrder
  <1> SUFFICES ASSUME BootInv, OrderInv, NoneTooBig, given # <<Junk>>
               PROVE  /\ \E n \in 0 .. Len(sent) : InOrder(given, sent, n)
                      /\ (qpc = "done" /\ host = "ended") => InOrder(given, sent, Len(sent))
    BY DEF GivenInOrder
  <1>1. /\ pipe \in Seq(FrameType) /\ sent \in Seq(FrameType)
        /\ qpc \in {"open", "sleep", "send", "recv", "set", "done", "failed"}
    BY DEF BootInv, QemuTypeInv, PipeType, QemuTypeOK
  <1>2. HostInv /\ Reading /\ Stopped
    BY DEF OrderInv
  <1>3. CASE qpc \in {"open", "sleep", "send", "failed"}
    <2>1. given = <<>> /\ Len(sent) \in Nat /\ 0 \in 0 .. Len(sent)
      BY <1>1, <1>2, <1>3 DEF HostInv
    <2> QED
      BY <1>3, <2>1, InOrderNone
  <1>4. CASE qpc \in {"recv", "set"}
    <2>1. Taken \in 0 .. Len(sent)
      BY <1>1, <1>2, <1>4 DEF Reading, Taken
    <2> QED
      BY <1>2, <1>4, <2>1 DEF Reading
  <1>5. CASE qpc = "done"
    BY <1>2, <1>5 DEF Stopped
  <1> QED
    BY <1>1, <1>3, <1>4, <1>5

\* qemu_properties sets the properties the host lists, each once and in the
\* order of the list, whatever other programs do to them meanwhile, and stops
\* at the end of the list only when it has set them all.
THEOREM GivenAreInOrder == BootSpec => []GivenInOrder
  BY BootInvInit, BootInvStep, OrderInvInit, OrderInvStep, OrderInvGiven, PTL DEF BootSpec

=============================================================================
