----------------------- MODULE SystemPropertiesProofs -----------------------
(***************************************************************************)
(* What the property calls of kvdb/common.c and the serial numbers of      *)
(* kvdb/system_properties.c keep true, for any processes, threads and      *)
(* calls; and that every value comes back from the text it is written as.  *)
(***************************************************************************)
EXTENDS SystemProperties, FiniteSetTheorems, WellFoundedInduction, TLAPS

-----------------------------------------------------------------------------
(* Types *)

\* A thread holds a variable only where it is about to use it, and has a key in
\* the middle of a call of the property API.
Placed(t) ==
    /\ pc[t] \in {"idle", "env", "store", "sys", "bump", "poll", "dead"}
    /\ held[t] # NoText => pc[t] \in {"env", "dead"}
    /\ pc[t] \in {"env", "store"} => call[t].key \in Keys

Places ==
    /\ pc = [t \in Threads |-> pc[t]] /\ call = [t \in Threads |-> call[t]]
    /\ held = [t \in Threads |-> held[t]]
    /\ \A t \in Threads : Placed(t)

Values ==
    /\ store = [k \in Keys |-> store[k]] /\ env = [p \in Procs |-> env[p]]
    /\ \A p \in Procs : env[p] = [k \in Keys |-> env[p][k]]
    /\ \A k \in Keys : store[k] = NoText \/ Len(store[k]) + 1 < PROP_VALUE_MAX

MonitorType == monitor \in [Threads -> {"none", "open", "ready"}]

ApiInv == Places /\ Values /\ MonitorType

LEMMA ApiInvType == ApiInv => ApiTypeOK
  <1> SUFFICES ASSUME ApiInv PROVE ApiTypeOK
    OBVIOUS
  <1>1. DOMAIN store = Keys /\ DOMAIN env = Procs
    BY DEF ApiInv, Values
  <1>2. pc \in [Threads -> {"idle", "env", "store", "sys", "bump", "poll", "dead"}]
    BY DEF ApiInv, Places, Placed
  <1> QED
    BY <1>1, <1>2 DEF ApiInv, Places, Placed, Values, MonitorType, ApiTypeOK

LEMMA ApiInvInit == ApiInit => ApiInv
  <1> SUFFICES ASSUME ApiInit PROVE ApiInv
    OBVIOUS
  <1>1. env = [p \in Procs |-> [k \in Keys |-> InitEnv[p][k]]]
    BY ApiAssumption DEF ApiInit
  <1> QED
    BY <1>1 DEF ApiInit, ApiInv, Places, Placed, Values, MonitorType

\* One thread moves; the others are where they were.
LEMMA OneMoves ==
    ASSUME Places, NEW t \in Threads, NEW q, NEW c, NEW h,
           pc' = [pc EXCEPT ![t] = q], call' = [call EXCEPT ![t] = c],
           held' = [held EXCEPT ![t] = h],
           q \in {"idle", "env", "store", "sys", "bump", "poll", "dead"},
           h # NoText => q \in {"env", "dead"},
           q \in {"env", "store"} => c.key \in Keys
    PROVE  Places'
  <1>1. /\ pc' = [u \in Threads |-> pc'[u]] /\ call' = [u \in Threads |-> call'[u]]
        /\ held' = [u \in Threads |-> held'[u]]
    BY DEF Places
  <1>2. pc'[t] = q /\ call'[t] = c /\ held'[t] = h
    BY DEF Places
  <1>3. \A u \in Threads : u # t => pc'[u] = pc[u] /\ call'[u] = call[u] /\ held'[u] = held[u]
    BY DEF Places
  <1>4. ASSUME NEW u \in Threads PROVE Placed(u)'
    BY <1>2, <1>3 DEF Places, Placed
  <1> QED
    BY <1>1, <1>4 DEF Places

\* A call returns to its caller or goes on in system_properties.c.
LEMMA ReturnsPlaces ==
    ASSUME Places, NEW t \in Threads, NEW ok \in BOOLEAN, Returns(t, ok)
    PROVE  Places'
  <1>1. /\ pc' = [pc EXCEPT ![t] = IF ok /\ call[t].via = "sys" THEN "sys" ELSE "idle"]
        /\ call' = [call EXCEPT ![t] = IF ok /\ call[t].via = "sys" THEN call[t] ELSE NoCall]
        /\ held' = [held EXCEPT ![t] = NoText]
    BY DEF Returns
  <1> QED
    BY <1>1, OneMoves

\* A stored text is replaced by one that fits.
LEMMA StoredValues ==
    ASSUME Values, MonitorType, NEW k \in Keys, NEW text,
           text = NoText \/ Len(text) + 1 < PROP_VALUE_MAX,
           store' = [store EXCEPT ![k] = text], Notified(k), UNCHANGED env
    PROVE  Values' /\ MonitorType'
  BY DEF Values, MonitorType, Notified

\* A variable is replaced or removed.
LEMMA VariableValues ==
    ASSUME Values, NEW t \in Threads, NEW k \in Keys, NEW text, SetVariable(t, k, text),
           UNCHANGED store
    PROVE  Values'
  <1>1. ProcOf[t] \in Procs
    BY ApiAssumption
  <1>2. env' = [env EXCEPT ![ProcOf[t]] = [env[ProcOf[t]] EXCEPT ![k] = text]]
    BY DEF SetVariable
  <1> QED
    BY <1>1, <1>2 DEF Values

LEMMA ApiInvStep ==
    ASSUME ApiInv, NEW t \in Threads, ApiStep(t)
    PROVE  ApiInv'
  <1>1. Places /\ Values /\ MonitorType /\ Placed(t)
    BY DEF ApiInv, Places
  <1>2. call[t].op \in {"set", "delete", "get"} /\ pc[t] \in {"env", "store"} => call[t].key \in Keys
    BY <1>1 DEF Placed
  <1>3. CASE SetEnv(t)
    <2>1. Places'
      BY <1>1, <1>3, ReturnsPlaces DEF SetEnv
    <2>2. Values'
      <3>1. CASE SetVariable(t, call[t].key, Encode(call[t]))
        BY <1>1, <1>2, <1>3, <3>1, VariableValues DEF SetEnv
      <3>2. CASE UNCHANGED env
        BY <1>1, <1>3, <3>2 DEF SetEnv, Values
      <3> QED
        BY <1>3, <3>1, <3>2 DEF SetEnv
    <2> QED
      BY <1>1, <1>3, <2>1, <2>2 DEF SetEnv, ApiInv, MonitorType
  <1>4. CASE UnsetEnv(t)
    <2>1. Places' /\ Values'
      BY <1>1, <1>2, <1>4, ReturnsPlaces, VariableValues DEF UnsetEnv
    <2> QED
      BY <1>1, <1>4, <2>1 DEF UnsetEnv, ApiInv, MonitorType
  <1>5. CASE CopyEnv(t)
    <2>1. Places'
      BY <1>1, <1>5, ReturnsPlaces DEF CopyEnv
    <2> QED
      BY <1>1, <1>5, <2>1 DEF CopyEnv, ApiInv, Values, MonitorType
  <1>6. CASE SetStore(t)
    <2>1. Places'
      BY <1>1, <1>6, ReturnsPlaces DEF SetStore
    <2>2. Values' /\ MonitorType'
      <3>1. CASE /\ Fits(Encode(call[t]))
                 /\ \E ok \in BOOLEAN : SetStored(t, call[t].key, Encode(call[t]), ok)
        BY <1>1, <1>2, <1>6, <3>1, StoredValues DEF SetStore, SetStored, Fits
      <3>2. CASE UNCHANGED <<store, monitor>>
        BY <1>1, <1>6, <3>2 DEF SetStore, Values, MonitorType
      <3> QED
        BY <1>6, <3>1, <3>2 DEF SetStore
    <2> QED
      BY <2>1, <2>2 DEF ApiInv
  <1>7. CASE DeleteStore(t)
    <2>1. Places'
      BY <1>1, <1>7, ReturnsPlaces DEF DeleteStore
    <2>2. Values' /\ MonitorType'
      <3>1. CASE \E ok \in BOOLEAN : SetStored(t, call[t].key, NoText, ok)
        BY <1>1, <1>2, <1>7, <3>1, StoredValues DEF DeleteStore, SetStored
      <3>2. CASE UNCHANGED <<store, monitor>>
        BY <1>1, <1>7, <3>2 DEF DeleteStore, Values, MonitorType
      <3> QED
        BY <1>7, <3>1, <3>2 DEF DeleteStore
    <2> QED
      BY <2>1, <2>2 DEF ApiInv
  <1>8. CASE GetStore(t)
    <2>1. Places'
      BY <1>1, <1>8, ReturnsPlaces DEF GetStore
    <2> QED
      BY <1>1, <1>8, <2>1 DEF GetStore, ApiInv, Values, MonitorType
  <1>9. CASE GetWithoutBuffer(t)
    <2>1. Places'
      <3>1. CASE Returns(t, TRUE)
        BY <1>1, <3>1, ReturnsPlaces
      <3>2. CASE /\ pc' = [u \in Threads |-> IF u \in Fellows(t) THEN "dead" ELSE pc[u]]
                 /\ UNCHANGED <<call, held>>
        BY <1>1, <3>2 DEF Places, Placed
      <3> QED
        BY <1>9, <3>1, <3>2 DEF GetWithoutBuffer
    <2> QED
      BY <1>1, <1>9, <2>1 DEF GetWithoutBuffer, ApiInv, Values, MonitorType
  <1> QED
    BY <1>3, <1>4, <1>5, <1>6, <1>7, <1>8, <1>9 DEF ApiStep

\* A call of the property API begins.
LEMMA BeginInv ==
    ASSUME ApiInv, NEW t \in Threads, NEW c, c.key \in Keys, Begin(t, c)
    PROVE  ApiInv'
  <1> DEFINE q == IF Hides(t, c.key) THEN "env" ELSE "store"
             h == env[ProcOf[t]][c.key]
  <1>1. /\ pc' = [pc EXCEPT ![t] = q] /\ call' = [call EXCEPT ![t] = c]
        /\ held' = [held EXCEPT ![t] = h] /\ UNCHANGED <<store, env, monitor>>
    BY DEF Begin
  <1>2. q \in {"env", "store"} /\ (h # NoText => q = "env")
    BY DEF Hides
  <1> HIDE DEF q, h
  <1>3. Places'
    BY <1>1, <1>2, OneMoves DEF ApiInv
  <1> QED
    BY <1>1, <1>3 DEF ApiInv, Values, MonitorType

\* A process starts again.
LEMMA RestartInv ==
    ASSUME ApiInv, NEW p \in Procs, Restart(p)
    PROVE  ApiInv'
  <1>1. InitEnv[p] = [k \in Keys |-> InitEnv[p][k]]
    BY ApiAssumption
  <1>2. Places'
    BY DEF ApiInv, Restart, Places, Placed
  <1>3. Values'
    BY <1>1 DEF ApiInv, Restart, Values
  <1> QED
    BY <1>2, <1>3 DEF ApiInv, Restart, MonitorType

PropInv == ApiInv /\ SysTypeOK

\* The threads that go on after a call, or wait.
LEMMA SerialPlaces ==
    ASSUME ApiInv, NEW t \in Threads,
           LoadSerial(t) \/ StoreSerial(t) \/ ReadCallback(t) \/ WaitEnd(t)
               \/ \E c \in Calls[t] : WaitBegin(t, c)
    PROVE  ApiInv'
  <1>1. Places /\ Values /\ MonitorType /\ Placed(t)
    BY DEF ApiInv, Places
  <1>2. pc[t] \in {"sys", "bump", "poll", "idle"}
    BY DEF LoadSerial, StoreSerial, ReadCallback, WaitEnd, WaitBegin
  <1>3. held[t] = NoText
    BY <1>1, <1>2 DEF Placed
  <1>4. held' = [held EXCEPT ![t] = NoText]
    BY <1>1, <1>3 DEF Places, LoadSerial, StoreSerial, ReadCallback, WaitEnd, WaitBegin
  <1>5. \E q \in {"idle", "bump", "poll"}, c \in {NoCall, call[t]} \cup Calls[t] :
            pc' = [pc EXCEPT ![t] = q] /\ call' = [call EXCEPT ![t] = c]
    <2>1. call = [call EXCEPT ![t] = call[t]]
      BY <1>1 DEF Places
    <2> QED
      BY <2>1 DEF LoadSerial, StoreSerial, ReadCallback, WaitEnd, WaitBegin, BackToCaller
  <1>6. Places'
    BY <1>1, <1>4, <1>5, OneMoves
  <1>7. Values'
    BY <1>1 DEF Values, LoadSerial, StoreSerial, ReadCallback, WaitEnd, WaitBegin
  <1>8. MonitorType'
    BY <1>1 DEF MonitorType, LoadSerial, StoreSerial, ReadCallback, WaitEnd, WaitBegin
  <1> QED
    BY <1>6, <1>7, <1>8 DEF ApiInv

\* The next serial number, which wraps.
LEMMA IncrementedBy ==
    ASSUME NEW n \in Serials
    PROVE  Incremented(n) \in Serials /\ Incremented(n) = IF n = 2^SerialBits - 1 THEN 0 ELSE n + 1
  <1>1. PICK M \in Nat : M = 2^SerialBits /\ M > 1
    BY SerialAssumption
  <1>2. n \in 0 .. M - 1
    BY <1>1 DEF Serials
  <1>3. CASE n = M - 1
    <2>1. M % M = 0
      BY <1>1
    <2> QED
      BY <1>1, <1>2, <1>3, <2>1 DEF Serials, Incremented
  <1>4. CASE n # M - 1
    <2>1. n + 1 \in 0 .. M - 1
      BY <1>1, <1>2, <1>4
    <2>2. (n + 1) % M = n + 1
      BY <1>1, <2>1
    <2> QED
      BY <1>1, <1>2, <1>4, <2>1, <2>2 DEF Serials, Incremented
  <1> QED
    BY <1>3, <1>4

LEMMA SysTypeStep ==
    ASSUME PropInv, [SysNext]_<<apiVars, sysVars>>
    PROVE  SysTypeOK'
  <1> USE DEF PropInv, SysTypeOK
  <1>1. PICK M \in Nat : M = 2^SerialBits /\ M > 1
    BY SerialAssumption
  <1>2. 0 \in Serials
    BY <1>1 DEF Serials
  <1>3. CASE UNCHANGED <<apiVars, sysVars>>
    BY <1>3 DEF sysVars
  <1>4. ASSUME NEW t \in Threads, SysStep(t) PROVE SysTypeOK'
    <2>1. CASE SysApiStep(t)
      BY <2>1 DEF SysApiStep, Follow
    <2>2. CASE LoadSerial(t)
      BY <2>2, ApiAssumption DEF LoadSerial
    <2>3. CASE StoreSerial(t)
      <3>1. serial' = [serial EXCEPT ![ProcOf[t]] = Incremented(loaded[t])]
        BY <2>3 DEF StoreSerial
      <3>2. serial' \in [Procs -> Serials]
        BY <3>1, ApiAssumption, IncrementedBy
      <3>3. counted' \in [Threads -> 0 .. M]
        BY <1>1, <2>3 DEF StoreSerial
      <3> QED
        BY <1>1, <1>2, <2>3, <3>2, <3>3 DEF StoreSerial
    <2>4. CASE ReadCallback(t)
      <3>1. serial[ProcOf[t]] \in Serials /\ 0 \in 0 .. M
        BY <1>1, ApiAssumption
      <3> QED
        BY <1>1, <2>4, <3>1 DEF ReadCallback
    <2>5. CASE WaitEnd(t)
      BY <2>5 DEF WaitEnd, sysVars
    <2> QED
      BY <1>4, <2>1, <2>2, <2>3, <2>4, <2>5 DEF SysStep
  <1>5. ASSUME NEW t \in Threads, SysCall(t) PROVE SysTypeOK'
    BY <1>5 DEF SysCall, SysBegin, WaitBegin, sysVars
  <1>6. ASSUME NEW p \in Procs, SysRestart(p) PROVE SysTypeOK'
    BY <1>1, <1>2, <1>6 DEF SysRestart
  <1> QED
    BY <1>3, <1>4, <1>5, <1>6 DEF SysNext

LEMMA PropInvInit == PropInit => PropInv
  <1> SUFFICES ASSUME PropInit PROVE PropInv
    OBVIOUS
  <1>1. PICK M \in Nat : M = 2^SerialBits /\ M > 1
    BY SerialAssumption
  <1>2. SysTypeOK
    BY <1>1 DEF PropInit, SysInit, SysTypeOK, Serials
  <1> QED
    BY <1>2, ApiInvInit DEF PropInit, PropInv

LEMMA PropInvStep ==
    ASSUME PropInv, [SysNext]_<<apiVars, sysVars>>
    PROVE  PropInv'
  <1> SUFFICES ApiInv'
    BY SysTypeStep DEF PropInv
  <1>1. ApiInv
    BY DEF PropInv
  <1>2. CASE UNCHANGED <<apiVars, sysVars>>
    BY <1>1, <1>2 DEF apiVars, ApiInv, Places, Placed, Values, MonitorType
  <1>3. ASSUME NEW t \in Threads, SysStep(t) PROVE ApiInv'
    BY <1>1, <1>3, ApiInvStep, SerialPlaces DEF SysStep, SysApiStep
  <1>4. ASSUME NEW t \in Threads, NEW c \in Calls[t], SysBegin(t, c) PROVE ApiInv'
    <2>1. c.key \in Keys
      BY <1>4, ApiAssumption DEF SysBegin
    <2> QED
      BY <1>1, <1>4, <2>1, BeginInv DEF SysBegin
  <1>5. ASSUME NEW t \in Threads, NEW c \in Calls[t], WaitBegin(t, c) PROVE ApiInv'
    BY <1>1, <1>5, SerialPlaces
  <1>6. ASSUME NEW p \in Procs, SysRestart(p) PROVE ApiInv'
    BY <1>1, <1>6, RestartInv DEF SysRestart
  <1> QED
    BY <1>2, <1>3, <1>4, <1>5, <1>6 DEF SysNext, SysCall

\* The texts of the store fit, a thread holds a variable only where it is about
\* to use it, and the serial numbers stay within their width.
THEOREM PropertiesTypeCorrect == SysSpec => []PropTypeOK
  <1>1. PropInv => PropTypeOK
    BY ApiInvType DEF PropInv, PropTypeOK
  <1> QED
    BY <1>1, PropInvInit, PropInvStep, PTL DEF SysSpec

-----------------------------------------------------------------------------
(* Where a step takes a thread *)

\* A thread stays where it is, returns or dies, goes on after a call that was
\* made for system_properties.c, or begins one of its calls.
Moved(t) ==
    \/ pc'[t] = pc[t] /\ call'[t] = call[t]
    \/ pc'[t] \in {"idle", "dead", "poll"}
    \/ pc'[t] = "sys" /\ pc[t] \in {"env", "store"} /\ call'[t] = call[t] /\ call[t].via = "sys"
    \/ LoadSerial(t) /\ pc'[t] = "bump" /\ call'[t] = call[t]
    \/ \E c \in Calls[t] :
          /\ call'[t] = c /\ c.key \in Keys
          /\ pc'[t] = IF Hides(t, c.key) THEN "env" ELSE "store"

\* The same for a call of t that returns.
LEMMA ReturnsMoves ==
    ASSUME Places, NEW t \in Threads, NEW ok \in BOOLEAN, Returns(t, ok),
           pc[t] \in {"env", "store"}, NEW u \in Threads
    PROVE  Moved(u)
  BY DEF Places, Returns, Moved

LEMMA ThreadsMove ==
    ASSUME PropInv, SysNext, NEW u \in Threads
    PROVE  Moved(u)
  <1>1. Places
    BY DEF PropInv, ApiInv
  <1>2. ASSUME NEW t \in Threads, SysApiStep(t) PROVE Moved(u)
    <2>1. pc[t] \in {"env", "store"}
      BY <1>2 DEF SysApiStep, ApiStep, SetEnv, UnsetEnv, CopyEnv, SetStore, DeleteStore, GetStore,
                  GetWithoutBuffer
    <2>2. CASE \E ok \in BOOLEAN : Returns(t, ok)
      BY <1>1, <2>1, <2>2, ReturnsMoves
    <2>3. CASE /\ pc' = [v \in Threads |-> IF v \in Fellows(t) THEN "dead" ELSE pc[v]]
               /\ UNCHANGED <<call, held>>
      BY <2>3 DEF Moved
    <2>4. /\ (Answer(t).ret = "ok") \in BOOLEAN
          /\ (Decode(call[t], Missing(call[t])).ret = "ok") \in BOOLEAN
      OBVIOUS
    <2> QED
      BY <1>2, <2>2, <2>3, <2>4
         DEF SysApiStep, ApiStep, SetEnv, UnsetEnv, CopyEnv, SetStore, DeleteStore, GetStore,
             GetWithoutBuffer
  <1>3. ASSUME NEW t \in Threads, LoadSerial(t) PROVE Moved(u)
    <2>1. CASE u = t
      BY <1>1, <1>3, <2>1 DEF LoadSerial, Moved, Places
    <2>2. CASE u # t
      BY <1>1, <1>3, <2>2 DEF LoadSerial, Moved, Places
    <2> QED
      BY <2>1, <2>2
  <1>4. ASSUME NEW t \in Threads, StoreSerial(t) \/ ReadCallback(t) \/ WaitEnd(t) PROVE Moved(u)
    BY <1>1, <1>4 DEF StoreSerial, ReadCallback, WaitEnd, BackToCaller, Moved, Places
  <1>5. ASSUME NEW t \in Threads, NEW c \in Calls[t], SysBegin(t, c) PROVE Moved(u)
    <2>1. c.key \in Keys
      BY <1>5, ApiAssumption DEF SysBegin
    <2> QED
      BY <1>1, <1>5, <2>1 DEF SysBegin, Begin, Moved, Places
  <1>6. ASSUME NEW t \in Threads, NEW c \in Calls[t], WaitBegin(t, c) PROVE Moved(u)
    BY <1>1, <1>6 DEF WaitBegin, Moved, Places
  <1>7. ASSUME NEW p \in Procs, SysRestart(p) PROVE Moved(u)
    BY <1>1, <1>7 DEF SysRestart, Restart, Moved, Places
  <1> QED
    BY <1>2, <1>3, <1>4, <1>5, <1>6, <1>7 DEF SysNext, SysStep, SysCall

-----------------------------------------------------------------------------
(* Serial numbers *)

Alone(p) == Cardinality(Setters(p)) <= 1

\* A thread is in one of its calls, and increments the serial number only after
\* a __system_property_set.
InItsCall(t) ==
    /\ pc[t] \in {"env", "store", "sys", "bump"} => call[t] \in Calls[t]
    /\ pc[t] \in {"sys", "bump"} => call[t].via = "sys"
    /\ pc[t] = "bump" => call[t].op = "set"

\* Where one thread makes all the sets, what it has loaded is still the serial
\* number when it stores it.
LoadedIsCurrent(t) ==
    Alone(ProcOf[t]) /\ pc[t] = "bump" => loaded[t] = serial[ProcOf[t]]

\* The serial number is as far from the one a callback was given as there have
\* been sets, until it has gone once round.
CountedSets(t) ==
    /\ t \notin Watchers => counted[t] = 0
    /\ Alone(ProcOf[t]) /\ t \in Watchers /\ counted[t] < 2^SerialBits =>
          serial[ProcOf[t]] \in {seen[t] + counted[t], seen[t] + counted[t] - 2^SerialBits}

SerialInv == \A t \in Threads : InItsCall(t) /\ LoadedIsCurrent(t) /\ CountedSets(t)

\* Two threads of a process that increment are one where one makes all the sets.
LEMMA OneSetter ==
    ASSUME NEW t \in Threads, NEW u \in Threads, ProcOf[u] = ProcOf[t], Alone(ProcOf[t]),
           InItsCall(t), InItsCall(u), pc[t] = "bump", pc[u] = "bump"
    PROVE  t = u
  <1> DEFINE S == Setters(ProcOf[t])
  <1>1. t \in S /\ u \in S
    BY DEF Setters, InItsCall
  <1>2. IsFiniteSet(S)
    BY ApiAssumption, FS_Subset DEF Setters
  <1>3. ASSUME t # u PROVE FALSE
    <2>1. IsFiniteSet({t}) /\ Cardinality({t}) = 1
      BY FS_Singleton
    <2>2. IsFiniteSet({t} \cup {u}) /\ Cardinality({t} \cup {u}) = 2
      BY <1>3, <2>1, FS_AddElement
    <2>3. Cardinality({t} \cup {u}) <= Cardinality(S)
      <3>1. {t} \cup {u} \subseteq S
        BY <1>1
      <3> QED
        BY <1>2, <3>1, FS_Subset
    <2>4. Cardinality(S) \in Nat
      BY <1>2, FS_CardinalityType
    <2> QED
      BY <2>2, <2>3, <2>4 DEF Alone
  <1> QED
    BY <1>3

LEMMA SerialInvInit == PropInit => SerialInv
  <1> SUFFICES ASSUME PropInit, NEW t \in Threads
               PROVE  InItsCall(t) /\ LoadedIsCurrent(t) /\ CountedSets(t)
    BY DEF SerialInv
  <1>1. ProcOf[t] \in Procs
    BY ApiAssumption
  <1> QED
    BY <1>1 DEF PropInit, ApiInit, SysInit, InItsCall, LoadedIsCurrent, CountedSets

LEMMA SerialInvStep ==
    ASSUME PropInv, SerialInv, [SysNext]_<<apiVars, sysVars>>
    PROVE  SerialInv'
  <1> SUFFICES ASSUME NEW u \in Threads
               PROVE  (InItsCall(u) /\ LoadedIsCurrent(u) /\ CountedSets(u))'
    BY DEF SerialInv
  <1> USE DEF PropInv, SysTypeOK
  <1>1. /\ InItsCall(u) /\ LoadedIsCurrent(u) /\ CountedSets(u) /\ ProcOf[u] \in Procs
        /\ PropInv /\ Places
    BY ApiAssumption DEF SerialInv, ApiInv
  <1>2. PICK M \in Nat : M = 2^SerialBits /\ M > 1
    BY SerialAssumption
  <1>3. CASE UNCHANGED <<apiVars, sysVars>>
    BY <1>1, <1>3 DEF apiVars, sysVars, InItsCall, LoadedIsCurrent, CountedSets
  <1>4. ASSUME SysNext PROVE InItsCall(u)'
    BY <1>1, <1>4, ThreadsMove DEF Moved, InItsCall, LoadSerial
  \* A step without a serial number of its own.
  <1>5. ASSUME SysNext, UNCHANGED <<serial, loaded, seen, counted>>
        PROVE  (LoadedIsCurrent(u) /\ CountedSets(u))'
    <2>1. pc'[u] = "bump" => pc[u] = "bump" \/ LoadSerial(u)
      BY <1>1, <1>5, ThreadsMove DEF Moved
    <2>2. LoadSerial(u) => loaded'[u] = serial[ProcOf[u]]
      BY <1>1 DEF LoadSerial
    <2> QED
      BY <1>1, <1>5, <2>1, <2>2 DEF LoadedIsCurrent, CountedSets
  <1>6. ASSUME NEW t \in Threads, LoadSerial(t) PROVE (LoadedIsCurrent(u) /\ CountedSets(u))'
    <2>1. CASE u = t
      BY <1>1, <1>6, <2>1 DEF LoadSerial, LoadedIsCurrent, CountedSets
    <2>2. CASE u # t
      BY <1>1, <1>6, <2>2 DEF LoadSerial, LoadedIsCurrent, CountedSets, Places
    <2> QED
      BY <2>1, <2>2
  <1>7. ASSUME NEW t \in Threads, StoreSerial(t) PROVE (LoadedIsCurrent(u) /\ CountedSets(u))'
    <2>1. /\ pc[t] = "bump" /\ pc'[t] = "idle" /\ seen'[u] = seen[u]
          /\ serial' = [serial EXCEPT ![ProcOf[t]] = Incremented(loaded[t])]
          /\ u # t => pc'[u] = pc[u] /\ loaded'[u] = loaded[u]
          /\ counted'[u] = IF u \in Fellows(t) \cap Watchers /\ counted[u] < 2^SerialBits
                           THEN counted[u] + 1 ELSE counted[u]
      BY <1>1, <1>7 DEF StoreSerial, BackToCaller, Places
    <2>2. CASE ProcOf[u] # ProcOf[t]
      BY <1>1, <2>1, <2>2 DEF LoadedIsCurrent, CountedSets, Fellows
    <2>3. CASE ProcOf[u] = ProcOf[t]
      <3>1. InItsCall(t) /\ LoadedIsCurrent(t)
        BY DEF SerialInv
      <3>2. LoadedIsCurrent(u)'
        BY <1>1, <2>1, <2>3, <3>1, OneSetter DEF LoadedIsCurrent
      <3>3. ASSUME Alone(ProcOf[u]), u \in Watchers, counted'[u] < M
            PROVE  serial'[ProcOf[u]] \in {seen'[u] + counted'[u], seen'[u] + counted'[u] - M}
        <4>1. serial'[ProcOf[u]] = Incremented(serial[ProcOf[u]])
          BY <1>1, <2>1, <2>3, <3>1, <3>3 DEF LoadedIsCurrent
        <4>2. /\ serial[ProcOf[u]] \in 0 .. M - 1 /\ seen[u] \in 0 .. M - 1 /\ counted[u] \in 0 .. M
          BY <1>1, <1>2 DEF Serials
        <4>3. serial'[ProcOf[u]] = IF serial[ProcOf[u]] = M - 1 THEN 0 ELSE serial[ProcOf[u]] + 1
          BY <1>1, <1>2, <4>1, IncrementedBy
        <4>4. counted[u] < M /\ counted'[u] = counted[u] + 1
          BY <1>2, <2>1, <2>3, <3>3, <4>2 DEF Fellows
        <4>5. serial[ProcOf[u]] \in {seen[u] + counted[u], seen[u] + counted[u] - M}
          BY <1>1, <1>2, <3>3, <4>4 DEF CountedSets
        <4>6. PICK n, s, c : n = serial[ProcOf[u]] /\ s = seen[u] /\ c = counted[u]
          OBVIOUS
        <4>7. seen'[u] = s
          BY <2>1, <4>6
        <4> HIDE DEF PropInv, SysTypeOK
        <4>8. /\ n \in 0 .. M - 1 /\ s \in 0 .. M - 1 /\ c \in 0 .. M - 1
              /\ n \in {s + c, s + c - M}
          BY <4>2, <4>4, <4>5, <4>6
        <4>9. serial'[ProcOf[u]] = IF n = M - 1 THEN 0 ELSE n + 1
          BY <4>3, <4>6
        <4> QED
          BY <4>4, <4>6, <4>7, <4>8, <4>9
      <3> QED
        BY <1>1, <1>2, <2>1, <3>2, <3>3 DEF CountedSets
    <2> QED
      BY <2>2, <2>3
  <1>8. ASSUME NEW t \in Threads, ReadCallback(t) PROVE (LoadedIsCurrent(u) /\ CountedSets(u))'
    <2>1. CASE u = t
      <3>1. serial[ProcOf[u]] \in 0 .. M - 1
        BY <1>1, <1>2 DEF Serials
      <3> QED
        BY <1>1, <1>2, <1>8, <2>1, <3>1
           DEF ReadCallback, BackToCaller, LoadedIsCurrent, CountedSets, Places
    <2>2. CASE u # t
      BY <1>1, <1>8, <2>2 DEF ReadCallback, BackToCaller, LoadedIsCurrent, CountedSets, Places
    <2> QED
      BY <2>1, <2>2
  <1>9. ASSUME NEW p \in Procs, SysRestart(p) PROVE (LoadedIsCurrent(u) /\ CountedSets(u))'
    BY <1>1, <1>2, <1>9 DEF SysRestart, Restart, LoadedIsCurrent, CountedSets
  <1> QED
    BY <1>3, <1>4, <1>5, <1>6, <1>7, <1>8, <1>9
       DEF SysNext, SysStep, SysCall, SysApiStep, SysBegin, WaitBegin, WaitEnd, sysVars

\* A reader that keeps the serial it was given sees another one after a
\* __system_property_set of its process, until the number has gone once round,
\* if one thread of the process makes all the sets.
THEOREM SerialsAdvance == SysSpec => []SerialAdvances
  <1>1. PropInv /\ SerialInv => SerialAdvances
    <2> SUFFICES ASSUME PropInv, SerialInv, NEW t \in Threads, Alone(ProcOf[t]),
                        counted[t] \in 1 .. 2^SerialBits - 1
                 PROVE  serial[ProcOf[t]] # seen[t]
      BY DEF SerialAdvances, Alone
    <2>1. PICK M \in Nat : M = 2^SerialBits /\ M > 1
      BY SerialAssumption
    <2>2. t \in Watchers
      BY <2>1 DEF SerialInv, CountedSets
    <2>3. serial[ProcOf[t]] \in {seen[t] + counted[t], seen[t] + counted[t] - M}
      BY <2>1, <2>2 DEF SerialInv, CountedSets
    <2>4. seen[t] \in 0 .. M - 1 /\ counted[t] \in 1 .. M - 1
      BY <2>1 DEF PropInv, SysTypeOK, Serials
    <2> QED
      BY <2>1, <2>3, <2>4
  <1> QED
    BY <1>1, SerialInvInit, SerialInvStep, PropInvInit, PropInvStep, PTL DEF SysSpec

-----------------------------------------------------------------------------
(* Induction over the numbers, with the set of those that a fact holds for *)

LEMMA LeastNumber ==
    ASSUME NEW T, T \subseteq Nat, T # {}
    PROVE  \E n \in T : \A m \in T : n <= m
  <1>1. PICK n \in T : \A m \in T : ~(<<m, n>> \in OpToRel(<, Nat))
    BY WFMin, NatLessThanWellFounded DEF OpToRel
  <1>2. \A m \in T : ~(m < n)
    BY <1>1 DEF OpToRel
  <1> QED
    BY <1>2

\* T has every number whose predecessors it has.
LEMMA AllNumbers ==
    ASSUME NEW T, \A n \in Nat : (\A m \in 0 .. n - 1 : m \in T) => n \in T
    PROVE  Nat \subseteq T
  <1>1. SUFFICES ASSUME Nat \ T # {} PROVE FALSE
    OBVIOUS
  <1>2. PICK n \in Nat \ T : \A m \in Nat \ T : n <= m
    BY <1>1, LeastNumber
  <1>3. \A m \in 0 .. n - 1 : m \in T
    BY <1>2
  <1> QED
    BY <1>2, <1>3

-----------------------------------------------------------------------------
(* Characters *)

\* Each digit stands for its place.
LEMMA Digits ==
    ASSUME NEW d \in 0 .. 15
    PROVE  /\ LowerDigits[d + 1] \in HexDigits /\ ascii2nibble(LowerDigits[d + 1]) = d
  <1> DEFINE c == LowerDigits[d + 1]
  <1>1. \A i \in 1..16 : c \in {LowerDigits[i], UpperDigits[i]} => i = d + 1
    BY DEF LowerDigits, UpperDigits
  <1>2. d + 1 \in 1..16 /\ c \in {LowerDigits[d + 1], UpperDigits[d + 1]}
    OBVIOUS
  <1>3. ascii2nibble(c) = d
    BY <1>1, <1>2 DEF ascii2nibble
  <1>4. d + 1 \in DOMAIN LowerDigits
    BY DEF LowerDigits
  <1>5. c \in HexDigits
    BY <1>4 DEF HexDigits, Range
  <1> QED
    BY <1>3, <1>5

DecimalChars == {"0", "1", "2", "3", "4", "5", "6", "7", "8", "9"}

LEMMA DecimalDigits ==
    ASSUME NEW d \in 0 .. 9
    PROVE  /\ LowerDigits[d + 1] \in DecimalChars
           /\ LowerDigits[d + 1] = "0" <=> d = 0
  BY DEF LowerDigits, DecimalChars

\* None of them is a blank, a sign or the mark of a hexadecimal number.
LEMMA OnlyDigits ==
    ASSUME NEW c \in DecimalChars
    PROVE  c # Blank /\ c \notin {"-", "+"} /\ c \notin {"x", "X"}
  <1>1. c # Blank
    BY Zenon DEF DecimalChars, Blank
  <1>2. c \notin {"-", "+"} /\ c \notin {"x", "X"}
    BY DEF DecimalChars
  <1> QED
    BY <1>1, <1>2

-----------------------------------------------------------------------------
(* Decimal numbers: the recursive definition has a solution *)

\* The digits of n, if those of n \div 10 are d.
DecimalOf(d, n) ==
    IF n < 10 THEN << LowerDigits[n + 1] >> ELSE Append(d, LowerDigits[(n % 10) + 1])

\* f is Decimal up to N.
DecimalUpTo(f, N) == \A n \in 0 .. N : f[n] = DecimalOf(f[n \div 10], n)

LEMMA Tenth ==
    ASSUME NEW n \in Nat, n >= 10
    PROVE  /\ n \div 10 \in 1 .. n - 1 /\ n % 10 \in 0 .. 9
           /\ n = (n \div 10) * 10 + (n % 10)
  OBVIOUS

LEMMA OneDigit ==
    ASSUME NEW n \in Nat, n < 10, NEW d, NEW e
    PROVE  DecimalOf(d, n) = DecimalOf(e, n)
  BY DEF DecimalOf

LEMMA MoreDigits ==
    ASSUME NEW n \in Nat, n >= 10, NEW d
    PROVE  DecimalOf(d, n) = Append(d, LowerDigits[(n % 10) + 1])
  <1>1. ~(n < 10)
    OBVIOUS
  <1> QED
    BY <1>1, Zenon DEF DecimalOf

LEMMA DecimalUpToAny ==
    ASSUME NEW N \in Nat
    PROVE  \E f : DecimalUpTo(f, N)
  <1> DEFINE T == {n \in Nat : \E f : DecimalUpTo(f, n)}
  <1>1. ASSUME NEW n \in Nat, \A m \in 0 .. n - 1 : m \in T PROVE n \in T
    <2>1. PICK f : n > 0 => DecimalUpTo(f, n - 1)
      BY <1>1
    <2> DEFINE g == [m \in Nat |-> IF m < n THEN f[m] ELSE DecimalOf(f[m \div 10], m)]
    <2>2. DecimalUpTo(g, n)
      <3> SUFFICES ASSUME NEW m \in 0 .. n PROVE g[m] = DecimalOf(g[m \div 10], m)
        BY DEF DecimalUpTo
      <3>1. g[m] = DecimalOf(f[m \div 10], m)
        BY <2>1 DEF DecimalUpTo
      <3>2. CASE m < 10
        BY <3>1, <3>2, OneDigit
      <3>3. CASE m >= 10
        <4>1. g[m \div 10] = f[m \div 10]
          BY <3>3, Tenth
        <4> QED
          BY <3>1, <4>1
      <3> QED
        BY <3>2, <3>3
    <2> QED
      BY <2>2
  <1> QED
    BY <1>1, AllNumbers

LEMMA DecimalUpToOne ==
    ASSUME NEW N \in Nat, NEW M \in Nat, NEW f, NEW g, DecimalUpTo(f, N), DecimalUpTo(g, M),
           NEW n \in Nat, n <= N, n <= M
    PROVE  f[n] = g[n]
  <1> DEFINE T == {i \in Nat : i <= N /\ i <= M => f[i] = g[i]}
  <1>1. ASSUME NEW i \in Nat, \A m \in 0 .. i - 1 : m \in T PROVE i \in T
    <2> SUFFICES ASSUME i <= N, i <= M PROVE f[i] = g[i]
      OBVIOUS
    <2>1. f[i] = DecimalOf(f[i \div 10], i) /\ g[i] = DecimalOf(g[i \div 10], i)
      BY DEF DecimalUpTo
    <2>2. CASE i < 10
      BY <2>1, <2>2, OneDigit
    <2>3. CASE i >= 10
      <3>1. f[i \div 10] = g[i \div 10]
        BY <1>1, <2>3, Tenth
      <3> QED
        BY <2>1, <3>1
    <2> QED
      BY <2>2, <2>3
  <1> QED
    BY <1>1, AllNumbers

LEMMA DecimalDef ==
    ASSUME NEW n \in Nat
    PROVE  Decimal[n] = DecimalOf(Decimal[n \div 10], n)
  <1> DEFINE D(m) == CHOOSE f : DecimalUpTo(f, m)
             F == [m \in Nat |-> D(m)[m]]
  <1>1. ASSUME NEW m \in Nat PROVE DecimalUpTo(D(m), m)
    BY DecimalUpToAny
  <1> HIDE DEF D
  <1>2. ASSUME NEW m \in Nat PROVE F[m] = DecimalOf(F[m \div 10], m)
    <2>1. F[m] = DecimalOf(D(m)[m \div 10], m)
      BY <1>1 DEF DecimalUpTo
    <2>2. CASE m < 10
      BY <2>1, <2>2, OneDigit
    <2>3. CASE m >= 10
      <3>1. m \div 10 \in Nat /\ m \div 10 <= m
        BY <2>3, Tenth
      <3>2. D(m)[m \div 10] = D(m \div 10)[m \div 10]
        BY <1>1, <3>1, DecimalUpToOne
      <3> QED
        BY <2>1, <3>1, <3>2
    <2> QED
      BY <2>2, <2>3
  <1>3. F = [m \in Nat |-> F[m]]
    OBVIOUS
  <1> HIDE DEF F
  <1>4. F = [m \in Nat |-> DecimalOf(F[m \div 10], m)]
    BY <1>2, <1>3
  <1>5. Decimal = [m \in Nat |-> DecimalOf(Decimal[m \div 10], m)]
    <2>1. F = [m \in Nat |-> IF m < 10 THEN << LowerDigits[m + 1] >>
                             ELSE Append(F[m \div 10], LowerDigits[(m % 10) + 1])]
      BY <1>4 DEF DecimalOf
    <2>2. Decimal = [m \in Nat |-> IF m < 10 THEN << LowerDigits[m + 1] >>
                                   ELSE Append(Decimal[m \div 10], LowerDigits[(m % 10) + 1])]
      BY <2>1 DEF Decimal
    <2> QED
      BY <2>2 DEF DecimalOf
  <1> QED
    BY <1>5

-----------------------------------------------------------------------------
(* Reading digits *)

\* f has the sums of the digits from the left.
SumsOf(f, digits, base) ==
    /\ f = [i \in 0..Len(digits) |-> f[i]] /\ f[0] = 0
    /\ \A i \in 1..Len(digits) : f[i] = f[i - 1] * base + ascii2nibble(digits[i])

LEMMA NumberOfDef ==
    ASSUME NEW digits, Len(digits) \in Nat, NEW base, NEW f, SumsOf(f, digits, base)
    PROVE  NumberOf(digits, base) = f[Len(digits)]
  <1> DEFINE g == CHOOSE sum : sum = [i \in 0..Len(digits) |->
                                        IF i = 0 THEN 0
                                        ELSE sum[i - 1] * base + ascii2nibble(digits[i])]
  <1>1. f = [i \in 0..Len(digits) |->
                IF i = 0 THEN 0 ELSE f[i - 1] * base + ascii2nibble(digits[i])]
    BY DEF SumsOf
  <1>2. g = [i \in 0..Len(digits) |->
                IF i = 0 THEN 0 ELSE g[i - 1] * base + ascii2nibble(digits[i])]
    BY <1>1
  <1>3. NumberOf(digits, base) = g[Len(digits)]
    BY DEF NumberOf
  <1> HIDE DEF g
  <1> DEFINE T == {i \in Nat : i <= Len(digits) => g[i] = f[i]}
  <1>4. ASSUME NEW i \in Nat, \A m \in 0 .. i - 1 : m \in T PROVE i \in T
    <2> SUFFICES ASSUME i <= Len(digits) PROVE g[i] = f[i]
      OBVIOUS
    <2>1. CASE i = 0
      BY <1>2, <2>1 DEF SumsOf
    <2>2. CASE i # 0
      <3>1. i - 1 \in 0 .. i - 1 /\ i \in 1..Len(digits)
        BY <2>2
      <3>2. g[i - 1] = f[i - 1]
        BY <1>4, <3>1
      <3>3. g[i] = g[i - 1] * base + ascii2nibble(digits[i])
        BY <1>2, <3>1
      <3> QED
        BY <3>1, <3>2, <3>3 DEF SumsOf
    <2> QED
      BY <2>1, <2>2
  <1>5. Len(digits) \in T
    BY <1>4, AllNumbers
  <1> QED
    BY <1>3, <1>5

\* A number as decimal digits, the first of which is no zero unless it is alone,
\* and which add up to the number again.
Digitwise(n) ==
    /\ Decimal[n] \in Seq(DecimalChars) /\ Len(Decimal[n]) >= 1
    /\ Decimal[n][1] = "0" <=> n = 0
    /\ n = 0 => Len(Decimal[n]) = 1
    /\ \E f : SumsOf(f, Decimal[n], 10) /\ f[Len(Decimal[n])] = n

LEMMA DecimalDigitwise ==
    ASSUME NEW n \in Nat
    PROVE  Digitwise(n)
  <1> DEFINE T == {i \in Nat : Digitwise(i)}
  <1>1. ASSUME NEW i \in Nat, \A m \in 0 .. i - 1 : m \in T PROVE i \in T
    <2>1. CASE i < 10
      <3> DEFINE c == LowerDigits[i + 1]
      <3>1. Decimal[i] = <<c>>
        BY <2>1, DecimalDef DEF DecimalOf
      <3>2. c \in DecimalChars /\ ascii2nibble(c) = i /\ (c = "0" <=> i = 0)
        BY <2>1, Digits, DecimalDigits
      <3> HIDE DEF c
      <3> DEFINE f == [j \in 0..1 |-> IF j = 0 THEN 0 ELSE i]
      <3>3. Len(Decimal[i]) = 1 /\ Decimal[i][1] = c /\ Decimal[i] \in Seq(DecimalChars)
        BY <3>1, <3>2
      <3>4. SumsOf(f, Decimal[i], 10) /\ f[Len(Decimal[i])] = i
        BY <3>2, <3>3 DEF SumsOf
      <3> QED
        BY <3>2, <3>3, <3>4 DEF Digitwise
    <2>2. CASE i >= 10
      <3> DEFINE q == i \div 10
                 r == i % 10
                 c == LowerDigits[r + 1]
      <3>1. q \in 1 .. i - 1 /\ r \in 0 .. 9 /\ i = q * 10 + r
        BY <2>2, Tenth
      <3>2. Decimal[i] = Append(Decimal[q], c)
        <4>1. Decimal[i] = DecimalOf(Decimal[q], i)
          BY DecimalDef
        <4>2. DecimalOf(Decimal[q], i) = Append(Decimal[q], c)
          BY <2>2, MoreDigits
        <4> QED
          BY <4>1, <4>2, Zenon
      <3>3. c \in DecimalChars /\ ascii2nibble(c) = r
        BY <3>1, Digits, DecimalDigits
      <3> HIDE DEF c, q, r
      <3>4. Digitwise(q)
        BY <1>1, <3>1
      <3>5. PICK f : SumsOf(f, Decimal[q], 10) /\ f[Len(Decimal[q])] = q
        BY <3>4 DEF Digitwise
      <3>6. PICK L \in Nat : L = Len(Decimal[q]) /\ L >= 1
        BY <3>4 DEF Digitwise
      <3>7. /\ Decimal[i] \in Seq(DecimalChars) /\ Len(Decimal[i]) = L + 1
            /\ \A j \in 1..L : Decimal[i][j] = Decimal[q][j]
            /\ Decimal[i][L + 1] = c
        BY <3>2, <3>3, <3>4, <3>6 DEF Digitwise
      <3>8. Decimal[i][1] # "0"
        <4>1. Decimal[q][1] # "0"
          BY <3>1, <3>4 DEF Digitwise
        <4>2. 1 \in 1..L
          BY <3>6
        <4> QED
          BY <3>7, <4>1, <4>2
      <3> DEFINE g == [j \in 0..(L + 1) |-> IF j = L + 1 THEN i ELSE f[j]]
      <3>9. SumsOf(g, Decimal[i], 10)
        <4>1. g = [j \in 0..Len(Decimal[i]) |-> g[j]] /\ g[0] = 0
          BY <3>5, <3>6, <3>7 DEF SumsOf
        <4>2. ASSUME NEW j \in 1..Len(Decimal[i])
              PROVE  g[j] = g[j - 1] * 10 + ascii2nibble(Decimal[i][j])
          <5>1. CASE j = L + 1
            <6>1. g[j] = i /\ g[j - 1] = q /\ ascii2nibble(Decimal[i][j]) = r
              BY <3>3, <3>5, <3>6, <3>7, <5>1
            <6> QED
              BY <3>1, <6>1
          <5>2. CASE j # L + 1
            <6>1. j \in 1..L /\ g[j] = f[j] /\ g[j - 1] = f[j - 1]
              BY <3>7, <5>2
            <6>2. f[j] = f[j - 1] * 10 + ascii2nibble(Decimal[q][j])
              BY <3>5, <3>6, <6>1 DEF SumsOf
            <6> QED
              BY <3>7, <6>1, <6>2
          <5> QED
            BY <5>1, <5>2
        <4> QED
          BY <4>1, <4>2 DEF SumsOf
      <3>10. g[Len(Decimal[i])] = i
        BY <3>7
      <3> QED
        BY <2>2, <3>6, <3>7, <3>8, <3>9, <3>10 DEF Digitwise
    <2> QED
      BY <2>1, <2>2
  <1> QED
    BY <1>1, AllNumbers

LEMMA DecimalValue ==
    ASSUME NEW c \in DecimalChars
    PROVE  c \in HexDigits /\ ascii2nibble(c) \in 0 .. 9
  <1>1. PICK d \in 0 .. 9 : c = LowerDigits[d + 1]
    BY DEF DecimalChars, LowerDigits
  <1> QED
    BY <1>1, Digits

\* The digits of n are read in base 10, and those of 0 in base 8.
LEMMA DecimalNumber ==
    ASSUME NEW n \in Nat, NEW base, base = IF Decimal[n][1] = "0" THEN 8 ELSE 10
    PROVE  /\ NumberOf(Decimal[n], base) = n
           /\ \A c \in Range(Decimal[n]) : c \in HexDigits /\ ascii2nibble(c) < base
  <1> DEFINE D == Decimal[n]
  <1>1. D \in Seq(DecimalChars) /\ Len(D) \in Nat /\ Len(D) >= 1 /\ (D[1] = "0" <=> n = 0)
    BY DecimalDigitwise DEF Digitwise
  <1>2. \A c \in Range(D) : c \in DecimalChars
    BY <1>1 DEF Range
  <1>3. CASE n # 0
    <2>1. NumberOf(D, 10) = n
      BY <1>1, DecimalDigitwise, NumberOfDef DEF Digitwise
    <2>2. \A c \in Range(D) : c \in HexDigits /\ ascii2nibble(c) < 10
      BY <1>2, DecimalValue
    <2> QED
      BY <1>1, <1>3, <2>1, <2>2
  <1>4. CASE n = 0
    <2>1. Len(D) = 1 /\ D[1] = "0"
      BY <1>1, <1>4, DecimalDigitwise DEF Digitwise
    <2>2. "0" \in HexDigits /\ ascii2nibble("0") = 0
      <3>1. LowerDigits[0 + 1] = "0"
        BY DEF LowerDigits
      <3> QED
        BY <3>1, Digits
    <2> DEFINE f == [i \in 0..1 |-> 0]
    <2>3. base = 8 /\ SumsOf(f, D, base) /\ f[1] = 0
      BY <2>1, <2>2 DEF SumsOf
    <2>4. NumberOf(D, base) = 0
      <3> HIDE DEF f, D
      <3>1. NumberOf(D, base) = f[Len(D)]
        BY <1>1, <2>3, NumberOfDef
      <3> QED
        BY <2>1, <2>3, <3>1
    <2>5. \A c \in Range(D) : c = "0"
      BY <1>1, <2>1 DEF Range
    <2> QED
      BY <1>4, <2>2, <2>3, <2>4, <2>5
  <1> QED
    BY <1>3, <1>4

LEMMA LeastIsMin ==
    ASSUME NEW S, S \subseteq Nat, NEW n \in S, \A i \in S : n <= i
    PROVE  Min(S) = n
  <1>1. Min(S) \in S /\ \A i \in S : Min(S) <= i
    BY DEF Min
  <1>2. PICK m \in Nat : m = Min(S)
    BY <1>1
  <1>3. n \in Nat /\ m <= n /\ n <= m
    BY <1>1, <1>2
  <1> QED
    BY <1>2, <1>3

\* strtol reads what snprintf has written.
LEMMA StrtolReads ==
    ASSUME NEW n \in Int, NEW bits
    PROVE  strtol(FormatInt(n), bits) = IF n \in Ints(bits) THEN [ok |-> TRUE, value |-> n]
                                        ELSE [ok |-> FALSE, value |-> 0]
  <1> DEFINE text == FormatInt(n)
             starts == {i \in 1..Len(text) : text[i] # Blank}
             a == IF starts = {} THEN <<>> ELSE SubSeq(text, Min(starts), Len(text))
             s == IF a # <<>> /\ a[1] \in {"+", "-"} THEN Tail(a) ELSE a
             hex == Len(s) > 2 /\ s[1] = "0" /\ s[2] \in {"x", "X"}
             base == IF hex THEN 16 ELSE IF s # <<>> /\ s[1] = "0" THEN 8 ELSE 10
             digits == IF hex THEN SubSeq(s, 3, Len(s)) ELSE s
             whole == /\ digits # <<>>
                      /\ \A c \in Range(digits) : c \in HexDigits /\ ascii2nibble(c) < base
             size == NumberOf(digits, base)
             value == IF a[1] = "-" THEN -size ELSE size
             m == IF n < 0 THEN -n ELSE n
             D == Decimal[m]
  <1>1. strtol(text, bits) = IF whole /\ value \in Ints(bits) THEN [ok |-> TRUE, value |-> value]
                             ELSE [ok |-> FALSE, value |-> 0]
    BY DEF strtol
  <1>2. m \in Nat
    OBVIOUS
  <1>3. text = IF n < 0 THEN << "-" >> \o D ELSE D
    BY DEF FormatInt
  <1>4. D \in Seq(DecimalChars) /\ Len(D) \in Nat /\ Len(D) >= 1
    BY <1>2, DecimalDigitwise DEF Digitwise
  <1> HIDE DEF text, m, D
  <1>5. \A i \in 1..Len(D) : D[i] \in DecimalChars
    BY <1>4
  <1>6. /\ text \in Seq(DecimalChars \cup {"-"}) /\ Len(text) \in Nat /\ Len(text) >= 1
        /\ n < 0 => text[1] = "-" /\ Tail(text) = D
    <2>1. CASE n < 0
      <3>1. << "-" >> \in Seq({"-"}) /\ D \in Seq(DecimalChars)
        BY <1>4
      <3>2. text = << "-" >> \o D
        BY <1>3, <2>1
      <3>3. /\ Len(text) = Len(D) + 1 /\ text[1] = "-"
            /\ \A i \in 1..Len(D) : text[i + 1] = D[i]
        BY <3>1, <3>2
      <3>4. text \in Seq(DecimalChars \cup {"-"})
        <4>1. << "-" >> \in Seq(DecimalChars \cup {"-"}) /\ D \in Seq(DecimalChars \cup {"-"})
          BY <3>1
        <4> QED
          BY <3>2, <4>1
      <3>5. Tail(text) = D
        BY <1>4, <3>3, <3>4
      <3> QED
        BY <1>4, <3>3, <3>4, <3>5
    <2>2. CASE ~(n < 0)
      BY <1>3, <1>4, <2>2
    <2> QED
      BY <2>1, <2>2
  <1>7. a = text
    <2>1. text[1] # Blank
      <3>1. "-" # Blank
        BY Zenon DEF Blank
      <3> QED
        BY <1>3, <1>4, <1>5, <1>6, <3>1, OnlyDigits
    <2>2. 1 \in starts /\ starts \subseteq Nat /\ \A i \in starts : 1 <= i
      BY <1>6, <2>1
    <2> HIDE DEF starts
    <2>3. Min(starts) = 1
      BY <2>2, LeastIsMin
    <2>4. SubSeq(text, 1, Len(text)) = text
      BY <1>6
    <2> QED
      BY <2>2, <2>3, <2>4
  <1> HIDE DEF a
  <1>8. s = D
    <2>1. CASE n < 0
      BY <1>6, <1>7, <2>1
    <2>2. CASE ~(n < 0)
      BY <1>3, <1>4, <1>5, <1>7, <2>2, OnlyDigits
    <2> QED
      BY <2>1, <2>2
  <1> HIDE DEF s
  <1>9. ~hex /\ digits = D
    BY <1>4, <1>5, <1>8, OnlyDigits
  <1>10. base = IF D[1] = "0" THEN 8 ELSE 10
    BY <1>4, <1>8, <1>9
  <1> HIDE DEF hex, digits, base
  <1>11. size = m /\ whole
    BY <1>2, <1>4, <1>9, <1>10, DecimalNumber DEF D
  <1>12. value = n
    <2>1. n >= 0 => a[1] \notin {"-", "+"}
      BY <1>3, <1>4, <1>5, <1>7, OnlyDigits
    <2> QED
      BY <1>6, <1>7, <1>11, <2>1 DEF m
  <1> HIDE DEF value, whole
  <1> QED
    BY <1>1, <1>11, <1>12 DEF text

-----------------------------------------------------------------------------
(* Values that come back *)

LEMMA CutFits ==
    ASSUME NEW n \in Ints(IntBits)
    PROVE  Cut(n, IntBits) = n
  <1>1. PICK h \in Nat, w \in Nat : h = 2^(IntBits - 1) /\ w = 2^IntBits /\ h > 0 /\ w = 2 * h
    BY BitsAssumption
  <1>2. n \in Int /\ -h <= n /\ n <= h - 1
    BY <1>1 DEF Ints, IntMin, IntMax
  <1>3. n + h \in 0 .. w - 1
    BY <1>1, <1>2
  <1>4. (n + h) % w = n + h
    BY <1>1, <1>3
  <1> QED
    BY <1>1, <1>2, <1>4 DEF Cut, IntMin

\* A number that fits comes back, and for one that does not the default does; a
\* long that is no wider than an int32_t leaves nothing to cut off.
LEMMA Int32ReadBack ==
    ASSUME LongBits = IntBits, NEW n \in Int, NEW default
    PROVE  ToInt32(FormatInt(n), default) = IF n \in Ints(IntBits) THEN n ELSE default
  <1>1. CASE n \in Ints(IntBits)
    <2>1. strtol(FormatInt(n), LongBits) = [ok |-> TRUE, value |-> n]
      BY <1>1, StrtolReads
    <2> QED
      BY <1>1, <2>1, CutFits DEF ToInt32
  <1>2. CASE n \notin Ints(IntBits)
    <2>1. strtol(FormatInt(n), LongBits) = [ok |-> FALSE, value |-> 0]
      BY <1>2, StrtolReads
    <2> QED
      BY <1>2, <2>1 DEF ToInt32
  <1> QED
    BY <1>1, <1>2

LEMMA Int64ReadBack ==
    ASSUME NEW n \in Int, NEW default
    PROVE  ToInt64(FormatInt(n), default) = IF n \in Ints(LongLongBits) THEN n ELSE default
  <1>1. CASE n \in Ints(LongLongBits)
    <2>1. strtol(FormatInt(n), LongLongBits) = [ok |-> TRUE, value |-> n]
      BY <1>1, StrtolReads
    <2> QED
      BY <1>1, <2>1 DEF ToInt64
  <1>2. CASE n \notin Ints(LongLongBits)
    <2>1. strtol(FormatInt(n), LongLongBits) = [ok |-> FALSE, value |-> 0]
      BY <1>2, StrtolReads
    <2> QED
      BY <1>2, <2>1 DEF ToInt64
  <1> QED
    BY <1>1, <1>2

LEMMA BoolReadBack ==
    ASSUME NEW b \in Int, NEW default
    PROVE  ToBool(FormatBool(b), default) = IF b # 0 THEN 1 ELSE 0
  <1>1. CASE b = 0
    BY <1>1 DEF ToBool, FormatBool
  <1>2. CASE b # 0
    <2>1. FormatBool(b) = << "t", "r", "u", "e" >> /\ FormatBool(1) = << "t", "r", "u", "e" >>
      BY <1>2 DEF FormatBool
    <2>2. FormatBool(0) = << "f", "a", "l", "s", "e" >>
      BY DEF FormatBool
    <2>3. FormatBool(b) \notin {<< "0" >>, << "n" >>, << "n", "o" >>, << "o", "f", "f" >>, FormatBool(0)}
      BY <2>1, <2>2
    <2> QED
      BY <1>2, <2>1, <2>3 DEF ToBool
  <1> QED
    BY <1>1, <1>2

\* The two digits of a byte.
LEMMA Nibbles ==
    ASSUME NEW b \in 0 .. 255
    PROVE  b \div 16 \in 0 .. 15 /\ b % 16 \in 0 .. 15 /\ 16 * (b \div 16) + (b % 16) = b
  OBVIOUS

LEMMA NibbleReadBack ==
    ASSUME NEW d \in 0 .. 15
    PROVE  nibble2ascii(d) \in HexDigits /\ ascii2nibble(nibble2ascii(d)) = d
  BY Digits DEF nibble2ascii

LEMMA BufferReadBack ==
    ASSUME NEW bytes \in Seq(0 .. 255), NEW size \in Int
    PROVE  ToBuffer(FormatBuffer(bytes), size) =
               IF Len(bytes) <= size THEN [ret |-> "ok", bytes |-> bytes]
               ELSE [ret |-> "E2BIG", bytes |-> <<>>]
  <1> DEFINE text == FormatBuffer(bytes)
             n == Len(text)
             bad == {i \in 1 .. n + (n % 2) : i > n \/ text[i] \notin HexDigits}
             decoded == [j \in 1 .. n \div 2 |->
                         16 * ascii2nibble(text[2 * j - 1]) + ascii2nibble(text[2 * j])]
  <1>1. PICK L \in Nat : L = Len(bytes)
    OBVIOUS
  <1>2. text = [i \in 1 .. 2 * L |->
                   nibble2ascii(IF i % 2 = 1 THEN bytes[(i + 1) \div 2] \div 16
                                ELSE bytes[(i + 1) \div 2] % 16)]
    BY <1>1 DEF FormatBuffer
  <1>3. n = 2 * L /\ n % 2 = 0 /\ n \div 2 = L
    <2>1. n = 2 * L
      BY <1>1, <1>2
    <2> QED
      BY <1>1, <2>1
  <1>4. ASSUME NEW i \in 1 .. 2 * L PROVE text[i] \in HexDigits
    <2>1. (i + 1) \div 2 \in 1 .. L
      BY <1>1
    <2>2. bytes[(i + 1) \div 2] \in 0 .. 255
      BY <1>1, <2>1
    <2> QED
      BY <1>2, <2>2, Nibbles, NibbleReadBack
  <1>5. ASSUME NEW j \in 1 .. L
        PROVE  16 * ascii2nibble(text[2 * j - 1]) + ascii2nibble(text[2 * j]) = bytes[j]
    <2>1. /\ 2 * j - 1 \in 1 .. 2 * L /\ (2 * j - 1) % 2 = 1 /\ ((2 * j - 1) + 1) \div 2 = j
          /\ 2 * j \in 1 .. 2 * L /\ (2 * j) % 2 = 0 /\ (2 * j + 1) \div 2 = j
      BY <1>1
    <2>2. bytes[j] \in 0 .. 255
      BY <1>1
    <2>3. text[2 * j - 1] = nibble2ascii(bytes[j] \div 16) /\ text[2 * j] = nibble2ascii(bytes[j] % 16)
      BY <1>2, <2>1
    <2> QED
      BY <2>2, <2>3, Nibbles, NibbleReadBack
  <1>6. ToBuffer(text, size) =
            IF \E i \in bad : i <= 2 * size THEN [ret |-> "ERANGE", bytes |-> <<>>]
            ELSE IF n > 2 * size THEN [ret |-> "E2BIG", bytes |-> <<>>]
            ELSE [ret |-> "ok", bytes |-> decoded]
    BY DEF ToBuffer
  <1>7. bad = {}
    BY <1>3, <1>4
  <1>8. decoded = bytes
    <2>1. decoded = [j \in 1 .. L |-> bytes[j]]
      BY <1>3, <1>5
    <2>2. bytes = [j \in 1 .. L |-> bytes[j]]
      BY <1>1
    <2> QED
      BY <2>1, <2>2
  <1> HIDE DEF bad, decoded
  <1>9. n > 2 * size <=> ~(Len(bytes) <= size)
    BY <1>1, <1>3
  <1> QED
    BY <1>6, <1>7, <1>8, <1>9

-----------------------------------------------------------------------------
(* Histories that are right *)

\* Every text that is set is shorter than PROP_VALUE_MAX; a buffer that is not
\* is refused by property_set_buffer_.
TextsFit ==
    \A t \in Threads : \A c \in Calls[t] :
        c.op = "set" /\ c.type # "buffer" => Len(Encode(c)) \in 0 .. PROP_VALUE_MAX - 1

\* What a get of the thread would find: the variable, or else the stored text.
Sees(t, k) == IF env[ProcOf[t]][k] # NoText THEN env[ProcOf[t]][k] ELSE store[k]

MineShape ==
    /\ mine = [t \in Threads |-> mine[t]]
    /\ \A t \in Threads : mine[t] = [k \in Keys |-> mine[t][k]]

\* A thread that knows what its change has made of the key is right about it,
Knows(t, k) ==
    LET m == mine[t][k]
    IN /\ m \in {Unknown, Pending} \cup Calls[t]
       /\ t \notin Readers => m = Unknown
       /\ m.op = "set" => Sees(t, k) = Encode(m) /\ ~BufferTooLong(m)
       /\ m.op = "delete" => Sees(t, k) = NoText

\* and the variable is the one that getenv has found for its call.
InSync(t, k) ==
    mine[t][k] # Unknown /\ pc[t] \in {"env", "store"} /\ call[t].key = k =>
        /\ held[t] = env[ProcOf[t]][k]
        /\ pc[t] = "env" <=> env[ProcOf[t]][k] # NoText

CallFits(t) == pc[t] \in {"env", "store"} /\ call[t].op = "set" => ~BufferTooLong(call[t])

ReadInv ==
    /\ MineShape
    /\ \A t \in Threads : CallFits(t)
    /\ \A t \in Threads, k \in Keys : Knows(t, k) /\ InSync(t, k)

-----------------------------------------------------------------------------
(* What a step does to a thread and a key *)

Stays(u) == pc'[u] = pc[u] /\ call'[u] = call[u] /\ held'[u] = held[u]
Leaves(u) == pc'[u] \notin {"env", "store"}

SameKey(u, k) ==
    /\ store'[k] = store[k] /\ env'[ProcOf[u]][k] = env[ProcOf[u]][k]
    /\ mine'[u][k] = mine[u][k]

\* It begins a call, perhaps one that changes the key.
Begins(u, k) ==
    /\ call'[u] \in Calls[u] /\ ~(call'[u].op = "set" /\ BufferTooLong(call'[u]))
    /\ pc'[u] = IF Hides(u, call'[u].key) THEN "env" ELSE "store"
    /\ held'[u] = env[ProcOf[u]][call'[u].key]
    /\ store'[k] = store[k] /\ env'[ProcOf[u]][k] = env[ProcOf[u]][k]
    /\ mine'[u][k] = mine[u][k] \/ (mine'[u][k] = Pending /\ u \in Readers)

\* It has changed the key, and nobody else has in the meantime.
Ends(u, k) ==
    /\ pc[u] \in {"env", "store"} /\ Leaves(u)
    /\ call[u].key = k /\ mine[u][k] = Pending /\ mine'[u][k] = call[u] /\ u \in Readers
    /\ \/ call[u].op = "set" /\ env'[ProcOf[u]][k] = Encode(call[u])
       \/ /\ pc[u] = "store" /\ env'[ProcOf[u]][k] = env[ProcOf[u]][k]
          /\ \/ call[u].op = "set" /\ store'[k] = Encode(call[u])
             \/ call[u].op = "delete" /\ store'[k] = NoText

KeyStep(u, k) ==
    \/ SameKey(u, k) /\ (Stays(u) \/ Leaves(u))
    \/ mine'[u][k] = Unknown /\ (Stays(u) \/ Leaves(u))
    \/ Begins(u, k)
    \/ Ends(u, k)

\* The history of t for key q becomes w, and the others no longer know.
ChangedTo(t, q, others, w) ==
    mine' = [v \in Threads |->
                IF v = t /\ t \in Readers THEN [mine[t] EXCEPT ![q] = w]
                ELSE IF v \in others \cap Readers THEN [mine[v] EXCEPT ![q] = Unknown] ELSE mine[v]]

LEMMA ChangedKey ==
    ASSUME MineShape, NEW t \in Threads, NEW q \in Keys, NEW others, NEW w,
           ChangedTo(t, q, others, w), NEW u \in Threads, NEW k \in Keys
    PROVE  /\ k # q \/ u \notin Readers => mine'[u][k] = mine[u][k]
           /\ u # t /\ u \notin others => mine'[u][k] = mine[u][k]
           /\ u # t /\ u \in others \cap Readers /\ k = q => mine'[u][k] = Unknown
           /\ u = t /\ u \in Readers /\ k = q => mine'[u][k] = w
           /\ MineShape'
  <1>1. \A v \in Threads : mine[v] = [j \in Keys |-> mine[v][j]]
    BY DEF MineShape
  <1>2. mine'[u] = IF u = t /\ t \in Readers THEN [mine[t] EXCEPT ![q] = w]
                   ELSE IF u \in others \cap Readers THEN [mine[u] EXCEPT ![q] = Unknown] ELSE mine[u]
    BY DEF ChangedTo
  <1>3. MineShape'
    <2>1. mine' = [v \in Threads |-> mine'[v]]
      BY DEF ChangedTo
    <2>2. ASSUME NEW v \in Threads PROVE mine'[v] = [j \in Keys |-> mine'[v][j]]
      BY <1>1 DEF ChangedTo
    <2> QED
      BY <2>1, <2>2 DEF MineShape
  <1> QED
    BY <1>1, <1>2, <1>3

LEMMA ReturnsLeaves ==
    ASSUME Places, NEW t \in Threads, NEW ok \in BOOLEAN, Returns(t, ok), NEW u \in Threads
    PROVE  (u = t => Leaves(u)) /\ (u # t => Stays(u))
  BY DEF Places, Returns, Stays, Leaves

\* A call that changes the variable or the store, or fails to.
LEMMA ChangesKey ==
    ASSUME ApiInv, SerialInv, ReadInv, NEW t \in Threads,
           SetEnv(t) \/ UnsetEnv(t) \/ SetStore(t) \/ DeleteStore(t),
           NEW u \in Threads, NEW k \in Keys
    PROVE  KeyStep(u, k) /\ MineShape'
  <1> DEFINE q == call[t].key
  <1>1. /\ pc[t] \in {"env", "store"} /\ q \in Keys /\ call[t] \in Calls[t]
        /\ MineShape /\ Places /\ Values
    BY DEF SetEnv, UnsetEnv, SetStore, DeleteStore, ApiInv, Places, Placed, SerialInv, InItsCall,
           ReadInv
  <1>2. (u = t => Leaves(u)) /\ (u # t => Stays(u))
    BY <1>1, ReturnsLeaves DEF SetEnv, UnsetEnv, SetStore, DeleteStore
  <1>3. ProcOf[t] \in Procs /\ ProcOf[u] \in Procs
    BY ApiAssumption
  <1>4. u \notin Readers => mine[u][k] = Unknown
    BY DEF ReadInv, Knows
  <1>5. ASSUME NEW text, SetVariable(t, q, text), UNCHANGED store,
               text # NoText => call[t].op = "set" /\ text = Encode(call[t])
        PROVE  KeyStep(u, k) /\ MineShape'
    <2>1. PICK w : /\ w = IF text # NoText /\ mine[t][q] = Pending THEN call[t] ELSE Unknown
                   /\ ChangedTo(t, q, Fellows(t), w)
      BY <1>1, <1>5 DEF SetVariable, Changed, ChangedTo, MineShape
    <2>2. env' = [env EXCEPT ![ProcOf[t]] = [env[ProcOf[t]] EXCEPT ![q] = text]]
      BY <1>5 DEF SetVariable
    <2>3. CASE k # q \/ ProcOf[u] # ProcOf[t]
      <3>1. env'[ProcOf[u]][k] = env[ProcOf[u]][k]
        BY <1>1, <1>3, <2>2, <2>3 DEF Values
      <3>2. mine'[u][k] = mine[u][k]
        BY <1>1, <2>1, <2>3, ChangedKey DEF Fellows
      <3> QED
        BY <1>1, <1>2, <1>5, <2>1, <3>1, <3>2, ChangedKey DEF KeyStep, SameKey
    <2>4. CASE k = q /\ ProcOf[u] = ProcOf[t]
      <3>1. env'[ProcOf[u]][k] = text
        BY <1>1, <1>3, <2>2, <2>4 DEF Values
      <3>2. CASE u \notin Readers \/ u # t
        <4>1. mine'[u][k] = Unknown
          BY <1>1, <1>4, <2>1, <2>4, <3>2, ChangedKey DEF Fellows
        <4> QED
          BY <1>1, <1>2, <2>1, <4>1, ChangedKey DEF KeyStep
      <3>3. CASE u = t /\ u \in Readers
        <4>1. mine'[u][k] = IF text # NoText /\ mine[u][k] = Pending THEN call[u] ELSE Unknown
          BY <1>1, <2>1, <2>4, <3>3, ChangedKey
        <4> QED
          BY <1>1, <1>2, <1>5, <2>1, <2>4, <3>1, <3>3, <4>1, ChangedKey DEF KeyStep, Ends
      <3> QED
        BY <3>2, <3>3
    <2> QED
      BY <2>3, <2>4
  <1>6. ASSUME UNCHANGED <<store, env>>, Changed(t, q, {}, FALSE)
        PROVE  KeyStep(u, k) /\ MineShape'
    <2>1. ChangedTo(t, q, {}, Unknown)
      BY <1>1, <1>6 DEF Changed, ChangedTo, MineShape
    <2>2. mine'[u][k] = mine[u][k] \/ mine'[u][k] = Unknown
      BY <1>1, <2>1, ChangedKey
    <2> QED
      BY <1>1, <1>2, <1>6, <2>1, <2>2, ChangedKey DEF KeyStep, SameKey
  <1>7. ASSUME NEW text, NEW ok \in BOOLEAN, SetStored(t, q, text, ok), UNCHANGED env, pc[t] = "store",
               \/ call[t].op = "set" /\ text = Encode(call[t])
               \/ call[t].op = "delete" /\ text = NoText
        PROVE  KeyStep(u, k) /\ MineShape'
    <2>1. PICK w : /\ w = IF ok /\ mine[t][q] = Pending THEN call[t] ELSE Unknown
                   /\ ChangedTo(t, q, Threads, w)
      BY <1>1, <1>7 DEF SetStored, Changed, ChangedTo, MineShape
    <2> store' = [store EXCEPT ![q] = text]
      BY <1>7 DEF SetStored
    <2>2. CASE k # q
      <3>1. mine'[u][k] = mine[u][k] /\ store'[k] = store[k]
        BY <1>1, <2>1, <2>2, ChangedKey DEF Values
      <3> QED
        BY <1>1, <1>2, <1>7, <2>1, <3>1, ChangedKey DEF KeyStep, SameKey
    <2>3. CASE k = q
      <3>1. store'[k] = text
        BY <1>1, <2>3 DEF Values
      <3>2. CASE u \notin Readers \/ u # t
        <4>1. mine'[u][k] = Unknown
          BY <1>1, <1>4, <2>1, <2>3, <3>2, ChangedKey
        <4> QED
          BY <1>1, <1>2, <2>1, <4>1, ChangedKey DEF KeyStep
      <3>3. CASE u = t /\ u \in Readers
        <4>1. mine'[u][k] = IF ok /\ mine[u][k] = Pending THEN call[u] ELSE Unknown
          BY <1>1, <2>1, <2>3, <3>3, ChangedKey
        <4> QED
          BY <1>1, <1>2, <1>7, <2>1, <2>3, <3>1, <3>3, <4>1, ChangedKey DEF KeyStep, Ends
      <3> QED
        BY <3>2, <3>3
    <2> QED
      BY <2>2, <2>3
  <1> HIDE DEF q
  <1>8. CASE SetEnv(t)
    BY <1>5, <1>6, <1>8 DEF SetEnv, q
  <1>9. CASE UnsetEnv(t)
    BY <1>5, <1>9 DEF UnsetEnv, q
  <1>10. CASE SetStore(t)
    BY <1>6, <1>7, <1>10 DEF SetStore, q
  <1>11. CASE DeleteStore(t)
    BY <1>6, <1>7, <1>11 DEF DeleteStore, q
  <1> QED
    BY <1>8, <1>9, <1>10, <1>11

\* The other steps, which leave the variables and the store alone.
LEMMA KeyAlone ==
    ASSUME ApiInv, ReadInv, NEW t \in Threads,
           \/ CopyEnv(t) \/ GetStore(t) \/ GetWithoutBuffer(t)
           \/ LoadSerial(t) \/ StoreSerial(t) \/ ReadCallback(t) \/ WaitEnd(t)
           \/ \E c \in Calls[t] : WaitBegin(t, c),
           NEW u \in Threads, NEW k \in Keys
    PROVE  KeyStep(u, k) /\ MineShape'
  <1>1. Places /\ MineShape
    BY DEF ApiInv, ReadInv
  <1>2. UNCHANGED <<store, env, mine>>
    BY DEF CopyEnv, GetStore, GetWithoutBuffer, LoadSerial, StoreSerial, ReadCallback, WaitEnd, WaitBegin
  <1>3. Stays(u) \/ Leaves(u)
    <2>1. CASE CopyEnv(t) \/ GetStore(t)
      <3>1. /\ (Answer(t).ret = "ok") \in BOOLEAN
            /\ (Decode(call[t], Missing(call[t])).ret = "ok") \in BOOLEAN
        OBVIOUS
      <3> QED
        BY <1>1, <2>1, <3>1, ReturnsLeaves DEF CopyEnv, GetStore
    <2>2. CASE GetWithoutBuffer(t)
      <3>1. CASE Returns(t, TRUE)
        BY <1>1, <3>1, ReturnsLeaves
      <3>2. CASE ~Returns(t, TRUE)
        BY <1>1, <2>2, <3>2 DEF GetWithoutBuffer, Stays, Leaves, Places
      <3> QED
        BY <3>1, <3>2
    <2>3. CASE LoadSerial(t) \/ StoreSerial(t) \/ ReadCallback(t) \/ WaitEnd(t)
      BY <1>1, <2>3 DEF LoadSerial, StoreSerial, ReadCallback, WaitEnd, BackToCaller, Stays, Leaves,
                            Places
    <2>4. CASE \E c \in Calls[t] : WaitBegin(t, c)
      BY <1>1, <2>4 DEF WaitBegin, Stays, Leaves, Places
    <2> QED
      BY <2>1, <2>2, <2>3, <2>4
  <1> QED
    BY <1>1, <1>2, <1>3 DEF KeyStep, SameKey, MineShape

LEMMA KeyBegin ==
    ASSUME ApiInv, ReadInv, NEW t \in Threads, NEW c \in Calls[t], SysBegin(t, c),
           NEW u \in Threads, NEW k \in Keys
    PROVE  KeyStep(u, k) /\ MineShape'
  <1>1. Places /\ MineShape /\ c.key \in Keys
    BY ApiAssumption DEF ApiInv, ReadInv, SysBegin
  <1>2. /\ call' = [call EXCEPT ![t] = c] /\ ~(c.op = "set" /\ BufferTooLong(c))
        /\ pc' = [pc EXCEPT ![t] = IF Hides(t, c.key) THEN "env" ELSE "store"]
        /\ held' = [held EXCEPT ![t] = env[ProcOf[t]][c.key]]
        /\ mine' = IF c.op \in {"set", "delete"} /\ t \in Readers
                   THEN [mine EXCEPT ![t][c.key] = Pending] ELSE mine
        /\ UNCHANGED <<store, env>>
    BY DEF SysBegin, Begin
  <1>3. MineShape' /\ (u # t => mine'[u][k] = mine[u][k])
        /\ (mine'[u][k] = mine[u][k] \/ (mine'[u][k] = Pending /\ u \in Readers))
    <2>1. CASE c.op \in {"set", "delete"} /\ t \in Readers
      <3>1. mine' = [mine EXCEPT ![t] = [mine[t] EXCEPT ![c.key] = Pending]]
        BY <1>2, <2>1
      <3> QED
        BY <1>1, <2>1, <3>1 DEF MineShape
    <2>2. CASE ~(c.op \in {"set", "delete"} /\ t \in Readers)
      BY <1>1, <1>2, <2>2 DEF MineShape
    <2> QED
      BY <2>1, <2>2
  <1>4. CASE u = t
    BY <1>1, <1>2, <1>3, <1>4 DEF KeyStep, Begins, Places
  <1>5. CASE u # t
    BY <1>1, <1>2, <1>3, <1>5 DEF KeyStep, SameKey, Stays, Places
  <1> QED
    BY <1>3, <1>4, <1>5

LEMMA KeyRestart ==
    ASSUME ApiInv, ReadInv, NEW p \in Procs, SysRestart(p), NEW u \in Threads, NEW k \in Keys
    PROVE  KeyStep(u, k) /\ MineShape'
  <1>1. Places /\ Values /\ MineShape /\ ProcOf[u] \in Procs
    BY ApiAssumption DEF ApiInv, ReadInv
  <1>2. MineShape'
    BY <1>1 DEF MineShape, SysRestart, Restart
  <1>3. CASE ProcOf[u] = p
    <2>1. mine'[u][k] = Unknown /\ Leaves(u)
      BY <1>3 DEF SysRestart, Restart, Leaves
    <2> QED
      BY <1>2, <2>1 DEF KeyStep
  <1>4. CASE ProcOf[u] # p
    <2>1. Stays(u)
      BY <1>4 DEF SysRestart, Restart, Stays
    <2>2. SameKey(u, k)
      BY <1>1, <1>4 DEF SysRestart, Restart, SameKey, Values
    <2> QED
      BY <1>2, <2>1, <2>2 DEF KeyStep
  <1> QED
    BY <1>3, <1>4

-----------------------------------------------------------------------------
(* The history stays right *)

LEMMA NotCalls ==
    ASSUME NEW t \in Threads
    PROVE  /\ Unknown \notin Calls[t] /\ Pending \notin Calls[t] /\ Unknown # Pending
           /\ Unknown.op = "unknown" /\ Pending.op = "pending"
  <1>1. Unknown.op = "unknown" /\ Pending.op = "pending"
    BY DEF Unknown, Pending, NoCall
  <1> QED
    BY <1>1, ApiAssumption

LEMMA KeyStepKeeps ==
    ASSUME SerialInv, ReadInv, NEW u \in Threads, NEW k \in Keys, KeyStep(u, k)
    PROVE  (CallFits(u) /\ Knows(u, k) /\ InSync(u, k))'
  <1>1. CallFits(u) /\ Knows(u, k) /\ InSync(u, k) /\ InItsCall(u)
    BY DEF ReadInv, SerialInv
  <1>2. CASE SameKey(u, k) /\ (Stays(u) \/ Leaves(u))
    <2>1. Sees(u, k)' = Sees(u, k)
      BY <1>2 DEF SameKey, Sees
    <2>2. Knows(u, k)'
      BY <1>1, <1>2, <2>1 DEF SameKey, Knows
    <2> QED
      BY <1>1, <1>2, <2>2 DEF SameKey, Stays, Leaves, CallFits, InSync
  <1>3. CASE mine'[u][k] = Unknown /\ (Stays(u) \/ Leaves(u))
    <2>1. Knows(u, k)' /\ InSync(u, k)'
      BY <1>3, NotCalls DEF Knows, InSync
    <2> QED
      BY <1>1, <1>3, <2>1 DEF Stays, Leaves, CallFits
  <1>4. CASE Begins(u, k)
    <2>1. Sees(u, k)' = Sees(u, k)
      BY <1>4 DEF Begins, Sees
    <2>2. Knows(u, k)'
      BY <1>1, <1>4, <2>1, NotCalls DEF Begins, Knows
    <2>3. InSync(u, k)' /\ CallFits(u)'
      BY <1>4 DEF Begins, InSync, CallFits, Hides
    <2> QED
      BY <2>2, <2>3
  <1>5. CASE Ends(u, k)
    <2>1. InSync(u, k)' /\ CallFits(u)'
      BY <1>5 DEF Ends, Leaves, InSync, CallFits
    <2>2. call[u].op = "set" => ~BufferTooLong(call[u])
      BY <1>1, <1>5 DEF Ends, CallFits, InItsCall
    <2>3. call[u] \in Calls[u] /\ (call[u].op = "set" => Encode(call[u]) # NoText)
      BY <1>1, <1>5, TextAssumption DEF Ends, InItsCall
    <2>4. pc[u] = "store" => env[ProcOf[u]][k] = NoText
      BY <1>1, <1>5, NotCalls DEF Ends, InSync
    <2>5. call[u].op = "set" => Sees(u, k)' = Encode(call[u])
      BY <1>5, <2>3, <2>4 DEF Ends, Sees
    <2>6. call[u].op = "delete" => Sees(u, k)' = NoText
      BY <1>5, <2>4 DEF Ends, Sees
    <2>7. Knows(u, k)'
      BY <1>5, <2>2, <2>3, <2>5, <2>6 DEF Ends, Knows
    <2> QED
      BY <2>1, <2>7
  <1> QED
    BY <1>2, <1>3, <1>4, <1>5 DEF KeyStep

LEMMA ReadInvInit == PropInit => ReadInv
  <1> SUFFICES ASSUME PropInit PROVE ReadInv
    OBVIOUS
  <1>1. \A t \in Threads : mine[t] = [k \in Keys |-> Unknown] /\ pc[t] = "idle"
    BY DEF PropInit, ApiInit
  <1>2. MineShape
    BY DEF PropInit, ApiInit, MineShape
  <1>3. ASSUME NEW t \in Threads, NEW k \in Keys PROVE Knows(t, k) /\ InSync(t, k)
    BY <1>1, NotCalls DEF Knows, InSync
  <1> QED
    BY <1>1, <1>2, <1>3 DEF ReadInv, CallFits

LEMMA ReadInvStep ==
    ASSUME PropInv, SerialInv, ReadInv, [SysNext]_<<apiVars, sysVars>>
    PROVE  ReadInv'
  <1>1. ApiInv
    BY DEF PropInv
  <1>2. CASE UNCHANGED <<apiVars, sysVars>>
    BY <1>2 DEF apiVars, ReadInv, MineShape, CallFits, Knows, Sees, InSync
  <1>3. CASE SysNext
    <2>1. ASSUME NEW u \in Threads, NEW k \in Keys PROVE KeyStep(u, k) /\ MineShape'
      <3>1. ASSUME NEW t \in Threads, SysStep(t) PROVE KeyStep(u, k) /\ MineShape'
        BY <1>1, <3>1, ChangesKey, KeyAlone DEF SysStep, SysApiStep, ApiStep
      <3>2. ASSUME NEW t \in Threads, SysCall(t) PROVE KeyStep(u, k) /\ MineShape'
        BY <1>1, <3>2, KeyBegin, KeyAlone DEF SysCall
      <3>3. ASSUME NEW p \in Procs, SysRestart(p) PROVE KeyStep(u, k) /\ MineShape'
        BY <1>1, <3>3, KeyRestart
      <3> QED
        BY <1>3, <3>1, <3>2, <3>3 DEF SysNext
    <2>2. ASSUME NEW u \in Threads, NEW k \in Keys PROVE (CallFits(u) /\ Knows(u, k) /\ InSync(u, k))'
      BY <2>1, KeyStepKeeps
    <2>3. Threads # {} /\ Keys # {}
      BY ApiAssumption
    <2> QED
      BY <2>1, <2>2, <2>3 DEF ReadInv
  <1> QED
    BY <1>2, <1>3

-----------------------------------------------------------------------------
(* What a get returns *)

\* The value that has been written as text, read by a type that can tell it.
LEMMA ValueReadBack ==
    ASSUME LongBits = IntBits, NEW t \in Threads, NEW m \in Calls[t], NEW c \in Calls[t],
           m.op = "set"
    PROVE  Tells(m, c, Decode(c, Found(Encode(m))))
  <1> DEFINE r == Decode(c, Found(Encode(m)))
  <1>1. /\ m.num \in Int /\ c.num \in Int /\ m.bytes \in Seq(0 .. 255)
        /\ m.type \in Types \ {"null"} /\ c.type \in Types
    BY ApiAssumption
  <1>2. Found(Encode(m)).ret = "ok" /\ Found(Encode(m)).text = Encode(m)
    BY DEF Found
  <1>3. CASE m.type = "text" /\ c.type = "text"
    <2>1. r.ret = "ok" /\ r.text = m.text
      BY <1>2, <1>3 DEF Decode, Result, Encode
    <2> QED
      BY <1>3, <2>1 DEF Tells, Numbers
  <1>4. CASE m.type = "bool" /\ c.type = "bool"
    <2>1. r.num = ToBool(FormatBool(m.num), c.num)
      BY <1>2, <1>4 DEF Decode, Result, Encode
    <2>2. (r.num # 0) = (m.num # 0)
      BY <1>1, <2>1, BoolReadBack
    <2> QED
      BY <1>4, <2>2 DEF Tells, Numbers
  <1>5. CASE m.type \in Numbers /\ c.type \in Numbers
    <2>1. Encode(m) = FormatInt(m.num)
      BY <1>5 DEF Encode, Numbers
    <2>2. CASE c.type = "int32"
      <3>1. r.num = ToInt32(FormatInt(m.num), c.num)
        BY <1>2, <2>1, <2>2 DEF Decode, Result
      <3>2. r.num = IF m.num \in Ints(Bits(c.type)) THEN m.num ELSE c.num
        BY <1>1, <2>2, <3>1, Int32ReadBack DEF Bits
      <3> QED
        BY <1>5, <3>2 DEF Tells, Numbers
    <2>3. CASE c.type = "int64"
      <3>1. r.num = ToInt64(FormatInt(m.num), c.num)
        BY <1>2, <2>1, <2>3 DEF Decode, Result
      <3>2. r.num = IF m.num \in Ints(Bits(c.type)) THEN m.num ELSE c.num
        BY <1>1, <2>3, <3>1, Int64ReadBack DEF Bits
      <3> QED
        BY <1>5, <3>2 DEF Tells, Numbers
    <2> QED
      BY <1>5, <2>2, <2>3 DEF Numbers
  <1>6. CASE m.type = "buffer" /\ c.type = "buffer"
    <2> DEFINE b == ToBuffer(FormatBuffer(m.bytes), c.num)
    <2>1. r.ret = b.ret /\ r.bytes = b.bytes
      BY <1>2, <1>6 DEF Decode, Result, Encode
    <2>2. b = IF Len(m.bytes) <= c.num THEN [ret |-> "ok", bytes |-> m.bytes]
              ELSE [ret |-> "E2BIG", bytes |-> <<>>]
      BY <1>1, BufferReadBack
    <2> HIDE DEF b, r
    <2>3. IF Len(m.bytes) <= c.num THEN r.ret = "ok" /\ r.bytes = m.bytes ELSE r.ret = "E2BIG"
      BY <2>1, <2>2
    <2> QED
      BY <1>6, <2>3 DEF Tells, r
  <1>7. CASE ~(\/ m.type = "text" /\ c.type = "text"
               \/ m.type = "bool" /\ c.type = "bool"
               \/ m.type \in Numbers /\ c.type \in Numbers
               \/ m.type = "buffer" /\ c.type = "buffer")
    <2>1. /\ m.op # "delete" /\ ~(m.type = "text" /\ c.type = "text")
          /\ ~(m.type = "bool" /\ c.type = "bool") /\ ~(m.type \in Numbers /\ c.type \in Numbers)
          /\ ~(m.type = "buffer" /\ c.type = "buffer")
      BY <1>7
    <2> HIDE DEF r
    <2>2. Tells(m, c, r)
      BY <2>1, Zenon DEF Tells
    <2> QED
      BY <2>2 DEF r
  <1> QED
    BY <1>3, <1>4, <1>5, <1>6, <1>7

\* A variable that this call has set is short enough to be copied.
LEMMA VariableCopied ==
    ASSUME TextsFit, NEW t \in Threads, NEW m \in Calls[t], m.op = "set", ~BufferTooLong(m)
    PROVE  FoundVariable(Encode(m)) = Found(Encode(m))
  <1>1. PROP_VALUE_MAX \in Nat /\ m.bytes \in Seq(0 .. 255)
    BY ApiAssumption
  <1>2. Len(Encode(m)) \in 0 .. PROP_VALUE_MAX - 1
    <2>1. CASE m.type = "buffer"
      <3>1. Encode(m) = FormatBuffer(m.bytes)
        BY <2>1 DEF Encode
      <3>2. PICK L \in Nat : L = Len(m.bytes)
        BY <1>1
      <3>3. Len(FormatBuffer(m.bytes)) = 2 * L
        BY <3>2 DEF FormatBuffer
      <3> QED
        BY <1>1, <2>1, <3>1, <3>2, <3>3 DEF BufferTooLong
    <2> QED
      BY <2>1 DEF TextsFit
  <1> QED
    BY <1>1, <1>2 DEF FoundVariable

\* A thread reads back what it has set or deleted, if nobody has changed the key
\* since, as text, truth value, number or bytes: for every number, buffer and
\* text, and for any threads, processes and calls, where a long is as wide as an
\* int32_t and the texts that are set are shorter than PROP_VALUE_MAX.
THEOREM ValuesReadBack ==
    ASSUME LongBits = IntBits, TextsFit
    PROVE  SysSpec => []ReadBack
  <1>1. PropInv /\ SerialInv /\ ReadInv => ReadBack
    <2> SUFFICES ASSUME PropInv, SerialInv, ReadInv, NEW t \in Threads,
                        pc[t] \in {"env", "store"}, call[t].op = "get"
                 PROVE  Tells(mine[t][call[t].key], call[t], Answer(t))
      BY DEF ReadBack
    <2> DEFINE c == call[t]
               k == c.key
               m == mine[t][k]
    <2>1. k \in Keys /\ c \in Calls[t]
      BY DEF PropInv, ApiInv, Places, Placed, SerialInv, InItsCall
    <2>2. Knows(t, k) /\ InSync(t, k)
      BY <2>1 DEF ReadInv
    <2>3. CASE m.op = "set"
      <3>1. m # Unknown /\ m \in Calls[t]
        BY <2>2, <2>3, NotCalls DEF Knows
      <3>2. Encode(m) # NoText /\ Sees(t, k) = Encode(m) /\ ~BufferTooLong(m)
        BY <2>2, <2>3, <3>1, TextAssumption DEF Knows
      <3>3. Answer(t) = Decode(c, Found(Encode(m)))
        <4>1. CASE pc[t] = "env"
          <5>1. held[t] = Encode(m)
            BY <2>2, <3>1, <3>2, <4>1 DEF InSync, Sees
          <5>2. FoundVariable(held[t]) = Found(Encode(m))
            BY <2>3, <3>1, <3>2, <5>1, VariableCopied
          <5> QED
            BY <4>1, <5>2 DEF Answer
        <4>2. CASE pc[t] = "store"
          <5>1. store[k] = Encode(m)
            BY <2>2, <3>1, <3>2, <4>2 DEF InSync, Sees
          <5> QED
            BY <3>2, <4>2, <5>1 DEF Answer
        <4> QED
          BY <4>1, <4>2
      <3> QED
        BY <2>1, <2>3, <3>1, <3>3, ValueReadBack
    <2>4. CASE m.op = "delete"
      <3>1. m # Unknown
        BY <2>2, <2>4, NotCalls
      <3>2. pc[t] = "store" /\ store[k] = NoText
        BY <2>2, <2>4, <3>1 DEF Knows, InSync, Sees
      <3>3. Answer(t) = Decode(c, Missing(c))
        BY <3>2 DEF Answer
      <3> QED
        BY <2>4, <3>3 DEF Tells
    <2>5. CASE m.op \notin {"set", "delete"}
      BY <2>5 DEF Tells
    <2> QED
      BY <2>3, <2>4, <2>5
  <1> QED
    BY <1>1, ReadInvInit, ReadInvStep, SerialInvInit, SerialInvStep, PropInvInit, PropInvStep, PTL
       DEF SysSpec

=============================================================================
