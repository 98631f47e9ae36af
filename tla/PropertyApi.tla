----------------------------- MODULE PropertyApi -----------------------------
(***************************************************************************)
(* The property calls of kvdb/common.c: text and typed values, and the     *)
(* environment that hides stored keys.                                     *)
(*                                                                         *)
(* Threads of several processes make calls.  Each call first looks for a   *)
(* variable of the environment of its process with the name of the key,    *)
(* and then, in a step of its own, works on that variable or on the store. *)
(* The store is one text for each key, changed in one step: KvdbClient     *)
(* shows how the client library and the daemon make it so.                 *)
(***************************************************************************)
EXTENDS PropertyText

CONSTANTS
    Threads, Procs,
    ProcOf,          \* the process of each thread
    Keys,
    AnyKey,          \* "*", the pattern of a monitor of all the keys
    PROP_VALUE_MAX,
    Calls,           \* the calls that each thread makes
    InitEnv,         \* the variables each process inherits
    NoText

Types == {"text", "bool", "int32", "int64", "buffer", "null"}

\* A call: the value of a set is in text, num or bytes, by its type.  A get has
\* its default in text (if it gives one) or num, a buffer its size in num.
\* A get of type null has no buffer for the value.
NoCall == [op |-> "none", type |-> "text", key |-> AnyKey, text |-> <<>>, num |-> 0,
           bytes |-> <<>>, dflt |-> FALSE, via |-> "api"]
Unknown == [NoCall EXCEPT !.op = "unknown"]
Pending == [NoCall EXCEPT !.op = "pending"]

ASSUME ApiAssumption ==
    /\ IsFiniteSet(Threads) /\ ProcOf \in [Threads -> Procs]
    /\ Threads # {} /\ Keys # {} /\ AnyKey \notin Keys
    /\ PROP_VALUE_MAX \in Nat \ {0}
    /\ InitEnv \in [Procs -> [Keys -> {NoText} \cup Seq(STRING)]]
    /\ \A t \in Threads : \A c \in Calls[t] :
          /\ DOMAIN c = DOMAIN NoCall /\ c.type \in Types
          /\ c.op \in {"set", "get", "delete", "wait"} /\ (c.op = "set" => c.type # "null")
          /\ c.key \in IF c.op = "wait" THEN Keys \cup {AnyKey} ELSE Keys
          /\ c.num \in Int /\ c.bytes \in Seq(0 .. 255)

VARIABLES
    store,    \* the text of each key, or NoText
    env,      \* the environment of each process
    pc,       \* where each thread is
    call,     \* the call it is in
    held,     \* the variable that getenv returned to it
    monitor,  \* its key monitor
    mine      \* history: its last change of each key, while nobody else makes one

apiVars == <<store, env, pc, call, held, monitor, mine>>

Result(ret, text, num, bytes) == [ret |-> ret, text |-> text, num |-> num, bytes |-> bytes]
ApiTypeOK ==
    /\ DOMAIN store = Keys /\ DOMAIN env = Procs
    /\ \A k \in Keys : store[k] = NoText \/ Len(store[k]) + 1 < PROP_VALUE_MAX
    /\ pc \in [Threads -> {"idle", "env", "store", "sys", "bump", "poll", "dead"}]
    /\ monitor \in [Threads -> {"none", "open", "ready"}]
    /\ \A t \in Threads : held[t] # NoText => pc[t] \in {"env", "dead"}

ApiInit ==
    /\ store = [k \in Keys |-> NoText]
    /\ env = InitEnv
    /\ pc = [t \in Threads |-> "idle"]
    /\ call = [t \in Threads |-> NoCall]
    /\ held = [t \in Threads |-> NoText]
    /\ monitor = [t \in Threads |-> "none"]
    /\ mine = [t \in Threads |-> [k \in Keys |-> Unknown]]

-----------------------------------------------------------------------------
(* Typed values as text *)

\* property_set_bool_, property_set_int32_, property_set_int64_ and
\* property_set_buffer_ write the value; a NULL value is the empty text.
Encode(c) ==
    CASE c.type = "text" -> c.text
      [] c.type = "bool" -> FormatBool(c.num)
      [] c.type \in {"int32", "int64"} -> FormatInt(c.num)
      [] c.type = "buffer" -> FormatBuffer(c.bytes)

ASSUME TextAssumption ==
    \A t \in Threads : \A c \in Calls[t] : c.op = "set" => Encode(c) # NoText

BufferTooLong(c) == c.type = "buffer" /\ 2 * Len(c.bytes) >= PROP_VALUE_MAX

\* What property_get returns for the text it has found.
Found(text) == [ret |-> "ok", text |-> text]

\* property_get takes a variable that is too long for an error, whatever the
\* default.
FoundVariable(text) ==
    IF Len(text) >= PROP_VALUE_MAX THEN [ret |-> "E2BIG", text |-> <<>>] ELSE Found(text)

\* What it returns for a key without a value, or a store that cannot be reached.
Missing(c) ==
    IF c.type = "text" /\ c.dflt THEN Found(c.text) ELSE [ret |-> "EINVAL", text |-> <<>>]

\* The result of a get of this type when property_get returned got.
Decode(c, got) ==
    LET Num(n) == Result("ok", <<>>, n, <<>>)
        buf == ToBuffer(got.text, c.num)
        fails == got.ret # "ok"
    IN CASE c.type = "text" -> Result(got.ret, got.text, 0, <<>>)
         [] c.type = "null" -> Result(got.ret, <<>>, 0, <<>>)
         [] c.type = "bool" -> Num(IF fails THEN c.num ELSE ToBool(got.text, c.num))
         [] c.type = "int32" -> Num(IF fails THEN c.num ELSE ToInt32(got.text, c.num))
         [] c.type = "int64" -> Num(IF fails THEN c.num ELSE ToInt64(got.text, c.num))
         [] c.type = "buffer" -> IF fails THEN Result(got.ret, <<>>, 0, <<>>)
                                 ELSE Result(buf.ret, <<>>, 0, buf.bytes)

-----------------------------------------------------------------------------
(* Changes of the environment and of the store *)

\* The threads that read values by type: the history of the others does not
\* matter.
Readers == {t \in Threads : \E c \in Calls[t] : c.op = "get" /\ c.via = "api" /\ c.type # "null"}

\* History: t has changed key k by its call, or may have; the threads in others
\* no longer know what it is.
Changed(t, k, others, known) ==
    mine' = [u \in Threads |->
                IF u = t /\ t \in Readers
                THEN [mine[t] EXCEPT
                        ![k] = IF known /\ @ = Pending THEN call[t] ELSE Unknown]
                ELSE IF u \in others \cap Readers THEN [mine[u] EXCEPT ![k] = Unknown] ELSE mine[u]]

Fellows(t) == {u \in Threads : ProcOf[u] = ProcOf[t]}

SetVariable(t, k, text) ==
    /\ env' = [env EXCEPT ![ProcOf[t]][k] = text]
    /\ Changed(t, k, Fellows(t), text # NoText)

\* The daemon tells the monitors of the key.
Notified(k) ==
    monitor' = [u \in Threads |->
                   IF monitor[u] = "open" /\ call[u].key \in {k, AnyKey}
                   THEN "ready" ELSE monitor[u]]

SetStored(t, k, text, known) ==
    /\ store' = [store EXCEPT ![k] = text]
    /\ Notified(k)
    /\ Changed(t, k, Threads, known)

\* The call of t returns; after a success the callers in system_properties.c
\* go on with the serial number.
Returns(t, ok) ==
    LET goesOn == ok /\ call[t].via = "sys"
    IN /\ pc' = [pc EXCEPT ![t] = IF goesOn THEN "sys" ELSE "idle"]
       /\ call' = [call EXCEPT ![t] = IF goesOn THEN @ ELSE NoCall]
       /\ held' = [held EXCEPT ![t] = NoText]

-----------------------------------------------------------------------------
(* The calls *)

\* A call begins: getenv decides where it goes on.
Hides(t, k) == env[ProcOf[t]][k] # NoText

\* A buffer that is too long for property_set_buffer_ returns before that.
Begin(t, c) ==
    /\ pc[t] = "idle"
    /\ ~(c.op = "set" /\ BufferTooLong(c))
    /\ call' = [call EXCEPT ![t] = c]
    /\ pc' = [pc EXCEPT ![t] = IF Hides(t, c.key) THEN "env" ELSE "store"]
    /\ held' = [held EXCEPT ![t] = env[ProcOf[t]][c.key]]
    /\ mine' = IF c.op \in {"set", "delete"} /\ t \in Readers
               THEN [mine EXCEPT ![t][c.key] = Pending] ELSE mine
    /\ UNCHANGED <<store, env, monitor>>

\* property_set_ replaces the variable; setenv may find no memory.
SetEnv(t) ==
    /\ pc[t] = "env" /\ call[t].op = "set"
    /\ \/ SetVariable(t, call[t].key, Encode(call[t])) /\ Returns(t, TRUE)
       \/ Changed(t, call[t].key, {}, FALSE) /\ Returns(t, FALSE) /\ UNCHANGED env
    /\ UNCHANGED <<store, monitor>>

\* property_delete removes the variable, and leaves the stored key alone.
UnsetEnv(t) ==
    /\ pc[t] = "env" /\ call[t].op = "delete"
    /\ SetVariable(t, call[t].key, NoText) /\ Returns(t, TRUE)
    /\ UNCHANGED <<store, monitor>>

\* What a get returns: property_get copies the variable, or else the stored text.
Answer(t) ==
    LET c == call[t]
    IN Decode(c, IF pc[t] = "env" THEN FoundVariable(held[t])
                 ELSE IF store[c.key] = NoText THEN Missing(c) ELSE Found(store[c.key]))

\* property_get copies from the pointer that getenv gave.  If a thread of the
\* same process has replaced or removed the variable since, nobody knows what
\* the pointer points to, and the get may have any result.
CopyEnv(t) ==
    /\ pc[t] = "env" /\ call[t].op = "get"
    /\ \/ Returns(t, Answer(t).ret = "ok")
       \/ \E ok \in BOOLEAN : env[ProcOf[t]][call[t].key] # held[t] /\ Returns(t, ok)
    /\ UNCHANGED <<store, env, monitor, mine>>

\* property_set_binary: the text and its NUL must be shorter than
\* PROP_VALUE_MAX.  The daemon may refuse, or its answer get lost.
Fits_exactly(text) == Len(text) < PROP_VALUE_MAX
Fits(text) == Len(text) + 1 < PROP_VALUE_MAX

SetStore(t) ==
    LET k == call[t].key
        text == Encode(call[t])
    IN /\ pc[t] = "store" /\ call[t].op = "set"
       /\ \/ /\ Fits(text)
             /\ \E ok \in BOOLEAN : SetStored(t, k, text, ok) /\ Returns(t, ok)
          \/ /\ Changed(t, k, {}, FALSE) /\ Returns(t, FALSE)
             /\ UNCHANGED <<store, monitor>>
       /\ UNCHANGED env

DeleteStore(t) ==
    LET k == call[t].key
    IN /\ pc[t] = "store" /\ call[t].op = "delete"
       /\ \/ /\ store[k] # NoText
             /\ \E ok \in BOOLEAN : SetStored(t, k, NoText, ok) /\ Returns(t, ok)
          \/ /\ Changed(t, k, {}, FALSE) /\ Returns(t, FALSE)
             /\ UNCHANGED <<store, monitor>>
       /\ UNCHANGED env

NullPointer(t) == call[t].type = "null" /\ store[call[t].key] # NoText

\* property_get with a buffer, and any get for a key that is not stored.  If the
\* daemon cannot be reached it ends as if there were no such key.
GetStore(t) ==
    /\ pc[t] = "store" /\ call[t].op = "get" /\ ~NullPointer(t)
    /\ \/ Returns(t, Answer(t).ret = "ok")
       \/ Returns(t, Decode(call[t], Missing(call[t])).ret = "ok")
    /\ UNCHANGED <<store, env, monitor, mine>>

\* A get without a buffer, for a stored key: property_get writes the NUL
\* through the null pointer and counts the characters there.  The process dies,
\* or finds something at address 0.
GetWithoutBuffer(t) ==
    /\ pc[t] = "store" /\ call[t].op = "get" /\ NullPointer(t)
    /\ \/ Returns(t, TRUE)
       \/ /\ pc' = [u \in Threads |-> IF u \in Fellows(t) THEN "dead" ELSE pc[u]]
          /\ UNCHANGED <<call, held>>
    /\ UNCHANGED <<store, env, monitor, mine>>

\* A process that has died starts again.
Restart(p) ==
    LET its == {t \in Threads : ProcOf[t] = p}
    IN /\ its # {} /\ \A t \in its : pc[t] = "dead"
       /\ pc' = [t \in Threads |-> IF t \in its THEN "idle" ELSE pc[t]]
       /\ call' = [t \in Threads |-> IF t \in its THEN NoCall ELSE call[t]]
       /\ held' = [t \in Threads |-> IF t \in its THEN NoText ELSE held[t]]
       /\ monitor' = [t \in Threads |-> IF t \in its THEN "none" ELSE monitor[t]]
       /\ mine' = [t \in Threads |-> IF t \in its THEN [k \in Keys |-> Unknown] ELSE mine[t]]
       /\ env' = [env EXCEPT ![p] = InitEnv[p]]
       /\ UNCHANGED store

ApiStep(t) ==
    \/ SetEnv(t) \/ UnsetEnv(t) \/ CopyEnv(t)
    \/ SetStore(t) \/ DeleteStore(t) \/ GetStore(t) \/ GetWithoutBuffer(t)

-----------------------------------------------------------------------------
(* Properties *)

Bits(type) == IF type = "int32" THEN IntBits ELSE LongLongBits
Numbers == {"int32", "int64"}

\* Does r tell the caller of get c what its own change m has made of the key?
Tells(m, c, r) ==
    CASE m.op = "delete" -> r = Decode(c, Missing(c))
      [] m.op = "set" /\ m.type = "text" /\ c.type = "text" -> r.ret = "ok" /\ r.text = m.text
      [] m.op = "set" /\ m.type = "bool" /\ c.type = "bool" -> (r.num # 0) = (m.num # 0)
      [] m.op = "set" /\ m.type \in Numbers /\ c.type \in Numbers ->
            r.num = IF m.num \in Ints(Bits(c.type)) THEN m.num ELSE c.num
      [] m.op = "set" /\ m.type = "buffer" /\ c.type = "buffer" ->
            IF Len(m.bytes) <= c.num THEN r.ret = "ok" /\ r.bytes = m.bytes
                                     ELSE r.ret = "E2BIG"
      [] OTHER -> TRUE

\* A thread whose set or delete of a key has succeeded, and which reads it by
\* the same type before anybody else changes it, gets the value back: the
\* number, truth value, bytes or text, or the default after a delete in the
\* store.  A number of the other width comes back unless it does not fit, and
\* then the default does (cutils/properties.h:96).  This takes the text both
\* ways, and the environment and the store to agree on who has the key.
ReadBack ==
    \A t \in Threads :
        (pc[t] \in {"env", "store"} /\ call[t].op = "get" /\ ~NullPointer(t)) =>
            Tells(mine[t][call[t].key], call[t], Answer(t))

\* Whoever gives property_get a default that is not empty gets a text that is
\* not empty: "If the property read fails or returns an empty value, the
\* default value is used (if nonnull)" (cutils/properties.h:41).  It does not
\* hold: an empty value is returned as it is.
DefaultUsed ==
    \A t \in Threads :
        (/\ pc[t] \in {"env", "store"} /\ call[t].op = "get" /\ call[t].type = "text"
         /\ call[t].dflt /\ call[t].text # <<>>) =>
            Answer(t).ret = "ok" /\ Answer(t).text # <<>>

=============================================================================
