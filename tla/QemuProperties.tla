--------------------------- MODULE QemuProperties ---------------------------
(***************************************************************************)
(* kvdb/qemu_properties.c: a service that asks the emulator's host for the *)
(* boot properties over a pipe and sets them.                              *)
(*                                                                         *)
(* The host sends frames, a length and a body.  What matters of a body is  *)
(* whether it is key=value ("prop"), a text without = ("plain"), the lone  *)
(* NUL that ends the list ("end"), or longer than the buffer ("big").  The *)
(* pipe delivers what it has of a frame whole; the host may close it.      *)
(***************************************************************************)
EXTENDS PropertyApi

CONSTANTS
    Q,          \* the thread of the service, which makes no other calls
    MAX_TRIES,
    Frames,     \* the frames the host may send
    MaxFrames   \* bound: how many it sends

ASSUME QemuAssumption ==
    /\ Q \in Threads /\ Calls[Q] = {}
    /\ {MAX_TRIES, MaxFrames} \subseteq Nat \ {0}
    /\ Frames \subseteq [kind : {"prop", "plain", "end", "big"}, key : Keys, text : Seq(STRING)]

VARIABLES
    qpc,      \* where the service is
    tries,
    pipe,     \* the frames it has not read yet
    aligned,  \* does the next read start at a frame?
    temp,     \* what is in its buffer
    host,
    sent,     \* history: what the host has sent
    given     \* history: what the service has called property_set with, or only
              \* Junk once it has done so with junk

qemuVars == <<qpc, tries, pipe, aligned, temp, host, sent, given>>

\* Bytes of the stack, or of the middle of a body.
Junk == [kind |-> "junk", key |-> AnyKey, text |-> <<>>]
Nul == [Junk EXCEPT !.kind = "end"]

QemuTypeOK ==
    /\ qpc \in {"open", "sleep", "send", "recv", "set", "done", "failed"}
    /\ tries \in 0 .. MAX_TRIES
    /\ aligned \in BOOLEAN
    /\ host \in {"waiting", "listing", "ended", "closed"}

QemuInit ==
    /\ qpc = "open" /\ tries = MAX_TRIES /\ pipe = <<>> /\ aligned = TRUE
    /\ temp = Junk /\ host = "waiting" /\ sent = <<>> /\ given = <<>>

-----------------------------------------------------------------------------
(* The host *)

HostSends ==
    /\ host = "listing" /\ Len(sent) < MaxFrames
    /\ \E f \in Frames :
          /\ pipe' = IF qpc \in {"recv", "set"} THEN Append(pipe, f) ELSE pipe
          /\ sent' = Append(sent, f)
          /\ host' = IF f.kind = "end" THEN "ended" ELSE "listing"
    /\ UNCHANGED <<apiVars, qpc, tries, aligned, temp, given>>

HostCloses ==
    /\ host = "listing" /\ host' = "closed"
    /\ UNCHANGED <<apiVars, qpc, tries, pipe, aligned, temp, sent, given>>

-----------------------------------------------------------------------------
(* The service *)

TriesLeft_more(n) == n
TriesLeft_up(n) == n + 1
TriesLeft(n) == n - 1

\* qemu_pipe_open_ns, and again after sleep(1).
Open ==
    /\ qpc = "open"
    /\ \/ qpc' = "send" /\ UNCHANGED tries
       \/ /\ tries' = TriesLeft(tries)
          /\ qpc' = IF tries' <= 0 THEN "failed" ELSE "sleep"
    /\ UNCHANGED <<apiVars, pipe, aligned, temp, host, sent, given>>

Wake ==
    /\ qpc = "sleep" /\ qpc' = "open"
    /\ UNCHANGED <<apiVars, tries, pipe, aligned, temp, host, sent, given>>

\* qemud_channel_send of "list".
SendList ==
    /\ qpc = "send"
    /\ \/ qpc' = "recv" /\ host' = "listing"
       \/ qpc' = "failed" /\ UNCHANGED host
    /\ UNCHANGED <<apiVars, tries, pipe, aligned, temp, sent, given>>

\* The buffer after strchr and *prop_value = '\0': the text before the =.
CutAtEquals_kept(f) == f
CutAtEquals(f) == [f EXCEPT !.kind = "plain"]

SetCall(f) == [NoCall EXCEPT !.op = "set", !.key = f.key, !.text = f.text]

Loops(buf) == qpc' = "recv" /\ temp' = buf /\ UNCHANGED <<apiVars, given>>
Breaks == qpc' = "done" /\ UNCHANGED <<apiVars, temp, given>>

\* What the loop does with the contents of its buffer.  Junk may be anything;
\* a key made of it is none of the keys.
Handles(f) ==
    \/ f.kind \in {"end", "junk"} /\ Breaks
    \/ f.kind \in {"plain", "junk"} /\ Loops(f)
    \/ f.kind = "junk" /\ qpc' = "recv" /\ temp' = f /\ given' = <<f>> /\ UNCHANGED apiVars
    \/ /\ f.kind = "prop"
       /\ Begin(Q, SetCall(f))
       /\ qpc' = "set" /\ temp' = CutAtEquals(f)
       /\ given' = IF given = <<Junk>> THEN given ELSE Append(given, f)

Receive ==
    /\ qpc = "recv" /\ aligned /\ pipe # <<>> /\ Head(pipe).kind # "big"
    /\ pipe' = Tail(pipe)
    /\ Handles(Head(pipe))
    /\ UNCHANGED <<tries, aligned, host, sent>>

\* The length is more than the buffer holds: the result is -errno, but nothing
\* has set errno.  If it is 0 the loop goes on, with the body unread.
ReceiveTooBig ==
    /\ qpc = "recv" /\ aligned /\ pipe # <<>> /\ Head(pipe).kind = "big"
    /\ aligned' = FALSE
    /\ Breaks \/ (temp.kind # "end" /\ Loops(Nul))
    /\ UNCHANGED <<tries, pipe, host, sent>>

\* Lengths and texts are taken from the middle of bodies.
ReceiveUnaligned ==
    /\ qpc = "recv" /\ ~aligned /\ pipe # <<>>
    /\ \E n \in 0 .. Len(pipe) : pipe' = SubSeq(pipe, n + 1, Len(pipe))
    /\ Breaks \/ Handles(temp) \/ Handles(Junk)
    /\ UNCHANGED <<tries, aligned, host, sent>>

\* The end of the pipe is no error to read: the length is what the stack holds
\* and the buffer what it held before, perhaps cut down to nothing.
ReceiveEof ==
    /\ qpc = "recv" /\ pipe = <<>> /\ host = "closed"
    /\ Breaks \/ Handles(temp) \/ (temp.kind # "end" /\ Loops(Nul))
    /\ UNCHANGED <<tries, pipe, aligned, host, sent>>

\* A read returns an error.
ReceiveFails ==
    /\ qpc = "recv" /\ Breaks
    /\ host' = "closed" /\ pipe' = <<>>
    /\ UNCHANGED <<tries, aligned, sent>>

\* property_set has returned, with success or not.
SetReturned ==
    /\ qpc = "set" /\ pc[Q] = "idle"
    /\ qpc' = "recv"
    /\ UNCHANGED <<apiVars, tries, pipe, aligned, temp, host, sent, given>>

\* A read that fails does not have to happen, and the rest is bound to.
QemuWork ==
    \/ Open \/ Wake \/ SendList \/ SetReturned
    \/ Receive \/ ReceiveTooBig \/ ReceiveUnaligned \/ ReceiveEof

HostStep == HostSends \/ HostCloses

-----------------------------------------------------------------------------
(* Properties *)

NoneTooBig == \A i \in DOMAIN sent : sent[i].kind # "big"
Finished == qpc \in {"done", "failed"}

\* Are calls the properties among the first n frames, each once and in order?
\* at says which frame each call was made for.
InOrder(calls, frames, n) ==
    \E at \in [DOMAIN calls -> 1 .. n] :
        /\ \A i, j \in DOMAIN calls : i < j => at[i] < at[j]
        /\ Range(at) = {i \in 1 .. n : frames[i].kind = "prop"}
        /\ \A i \in DOMAIN calls : calls[i] = frames[at[i]]

\* The service sets the properties the host has sent, each once and in order,
\* also when the host closes the pipe and the loop sees the old contents of
\* its buffer again; and it does not stop at the end of the list before it has
\* set all of them.  Frames longer than the buffer, and a pipe that closes
\* before the first frame, are excepted.
GivenInOrder ==
    (NoneTooBig /\ given # <<Junk>>) =>
        /\ \E n \in 0 .. Len(sent) : InOrder(given, sent, n)
        /\ (qpc = "done" /\ host = "ended") => InOrder(given, sent, Len(sent))

\* The service gives up or sends its request after finitely many attempts, and
\* once the host has ended its list it comes to an end.
QemuEnds ==
    /\ (qpc = "open") ~> (qpc \notin {"open", "sleep"})
    /\ (host = "ended" /\ NoneTooBig) ~> Finished

=============================================================================
