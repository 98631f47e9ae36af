---------------------------- MODULE MCKvdbServer ----------------------------
(* Instances of KvdbServer for TLC: the keys, requests and source files of  *)
(* the runs.                                                                *)
EXTENDS KvdbServer, TLC

CONSTANTS kp, kq, kt, kr, va, vb, vlong, l1, l2, c1, c2, c3, s1, s2, s3

Req(op, k, v, p) == [op |-> op, key |-> k, val |-> v, pat |-> p]
Set(k, v) == Req("S", k, v, {})
Delete(k) == Req("D", k, Absent, {})
Get(k) == Req("G", k, Absent, {})
Plain(op) == Req(op, NoKey, Absent, {})
Monitor(p) == Req("M", NoKey, Absent, p)

\* Every way to change the store, for a persistent, a temporary and a
\* read-only key.
StoreRequests ==
    {Set(kp, va), Set(kp, vb), Delete(kp), Set(kt, va), Set(kr, va), Set(kr, vb),
     Delete(kr), Plain("C"), Plain("R")}

\* One persistent key, and a monitor for it.
MonitorRequests == {Set(kp, va), Delete(kp), Monitor({kp})}
ReloadMonitorRequests == {Set(kp, va), Plain("R"), Monitor({kp})}

\* One request of every kind, for runs with failures.
FaultRequests ==
    {Set(kp, va), Set(kq, va), Set(kr, vb), Delete(kp), Delete(kr), Get(kp), Plain("L"), Plain("C"),
     Plain("R"), Monitor({kp})}

\* Two files; the second gives some keys again, and one line that is longer
\* than PROP_VALUE_MAX.
TwoFiles ==
    << << <<kp, va>>, <<kr, va>> >>, << <<kp, vb>>, <<kt, vlong>>, <<kt, vb>> >> >>
\* A stored key given twice, and a temporary value that is too long, which NVS
\* takes.
LongFiles == << << <<kp, vb>>, <<kt, vlong>> >>, << <<kp, vlong>>, <<kt, va>> >> >>
OneLine == << << <<kp, vb>> >> >>
NoFiles == <<>>

OneSocket == [c \in Conns |-> l1]
TwoSockets == [c \in Conns |-> IF c = c1 THEN l1 ELSE l2]

\* The slots and, on one socket, the connections are interchangeable.
Interchangeable == Permutations(Slots) \cup Permutations(Conns)

=============================================================================
