---------------------------- MODULE MCKvdbClient ----------------------------
(* Instances of KvdbClient for TLC: what the processes of the runs call.    *)
EXTENDS KvdbClient, MCKvdbServer

CONSTANTS p1, p2

Plainly(r) == [req |-> r, how |-> "plain"]
Oneway(r) == [req |-> r, how |-> "oneway"]
Waiting(r) == [req |-> r, how |-> "wait"]

CallRequests ==
    {Set(kp, va), Set(kp, vb), Get(kp), Delete(kp), Plain("L"), Plain("C"), Plain("R"),
     Monitor({kp})}

\* p1 writes without waiting for the answer, reads and lists; p2 changes the
\* same key, or loads its default.
ReaderAndWriter ==
    p1 :> {Oneway(Set(kp, va)), Plainly(Get(kp)), Plainly(Plain("L"))}
      @@ p2 :> {Plainly(Set(kp, vb)), Plainly(Delete(kp)), Plainly(Plain("R"))}

\* p1 lists, or writes without waiting; p2 waits, or has a monitor
\* it need not read.
ListerAndMonitor ==
    p1 :> {Plainly(Plain("L")), Oneway(Set(kp, va))}
      @@ p2 :> {Plainly(Monitor({kp})), Waiting(Monitor({kp}))}

\* A list of two keys, and what its callback may call.
Lister == p1 :> {Plainly(Plain("L"))}
TwoLines == << << <<kp, va>>, <<kt, va>> >> >>
ReadsValue == {Plainly(Get(kp))}
Committer == p1 :> {Plainly(Plain("C"))}

=============================================================================
