----------------------------- MODULE MCKvdbFile -----------------------------
(* Instances of KvdbFile for TLC. *)
EXTENDS KvdbFile, TLC

CONSTANTS kp, kt, x, y, p1, p2, i1, i2

Call(op, k, v) == [op |-> op, key |-> k, val |-> v]

\* A value of one byte, one of two, and one of PROP_VALUE_MAX bytes.
short == <<x>>
whole == <<y, x>>
toolong == <<x, x, x>>
FileVals == {short, whole, toolong}
FileLongVals == {toolong}

\* Sets, gets and a list of a persistent and a temporary key.
DirectCalls ==
    {Call("S", kp, short), Call("S", kp, whole), Call("S", kp, toolong), Call("G", kp, Absent),
     Call("D", kp, Absent), Call("S", kt, short), Call("L", NoKey, Absent)}

=============================================================================
