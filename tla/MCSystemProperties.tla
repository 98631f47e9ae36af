------------------------- MODULE MCSystemProperties -------------------------
(* Instances of SystemProperties for TLC: one key, a process with two threads *)
(* that has inherited a variable for it, and a process without one.           *)
EXTENDS SystemProperties

CONSTANTS k1, p1, p2, t1, t2, t3

Processes == [t \in Threads |-> IF t \in {t1, t2} THEN p1 ELSE p2]

Text(s) == [NoCall EXCEPT !.op = "set", !.key = k1, !.text = s]
Num(type, n) == [NoCall EXCEPT !.op = "set", !.key = k1, !.type = type, !.num = n]
Buffer(b) == [NoCall EXCEPT !.op = "set", !.key = k1, !.type = "buffer", !.bytes = b]
Get(type, n) == [NoCall EXCEPT !.op = "get", !.key = k1, !.type = type, !.num = n]
Delete == [NoCall EXCEPT !.op = "delete", !.key = k1]
Sys(c) == [c EXCEPT !.via = "sys"]
Wait(k) == [NoCall EXCEPT !.op = "wait", !.key = k]

GetOr(s) == [Get("text", 0) EXCEPT !.dflt = TRUE, !.text = s]

\* The smallest int32_t, a number only an int64_t can hold, a truth value, a
\* text, an empty one, a buffer, and one that only a variable has room for;
\* each read by every type that could tell it wrong.
TypedCalls ==
    {Num("int32", IntMin(IntBits)), Num("int64", IntMax(IntBits) + 2), Num("bool", 0),
     Text(<<"n">>), Text(<<>>), Buffer(<<171, 0>>), Buffer(<<1, 2, 3>>),
     Get("int32", 1), Get("int64", 1), Get("bool", 1), GetOr(<<"1">>), Get("buffer", 2), Delete}

TwoTexts == {Text(<<"y">>), Text(<<"z">>)}

\* t1 writes and reads values of every type, t2 and t3 disturb it.
TypeProgram ==
    t1 :> TypedCalls
      @@ t2 :> {Delete, Text(<<"0", "x", "5">>), Get("null", 0), Wait(k1)}
      @@ t3 :> {Text(<<"y">>)}

\* t1 reads with a callback, deletes and waits; t2 sets and counts; t3 sets in
\* another process.
SerialProgram ==
    t1 :> {Sys(Get("text", 0)), Delete, Wait(AnyKey)}
      @@ t2 :> {Sys(c) : c \in TwoTexts} @@ t3 :> {Sys(Text(<<"x">>))}

\* t2 reads and waits while t3 sets one text and then another.
ReadAndWait == t2 :> {Sys(Get("text", 0)), Wait(AnyKey)} @@ t3 :> TwoTexts

Inherited == p1 :> (k1 :> <<"-", "0", "1">>) @@ p2 :> (k1 :> NoText)
NoVariables == [p \in Procs |-> [k \in Keys |-> NoText]]

=============================================================================
