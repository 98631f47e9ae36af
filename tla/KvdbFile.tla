------------------------------ MODULE KvdbFile ------------------------------
(***************************************************************************)
(* kvdb/file.c, one file for each key, under the calls of kvdb/direct.c,   *)
(* in which every process works on the files itself.                       *)
(*                                                                         *)
(* KvdbBackend takes a set, a get or a delete of this backend for one      *)
(* step.  Here each is the sequence of system calls it is, and the calls   *)
(* of several processes interleave.  With one process this is the backend  *)
(* inside kvdbd.                                                           *)
(*                                                                         *)
(* Values are sequences of bytes, since a write may be short and two       *)
(* writes may overlap.                                                     *)
(***************************************************************************)
EXTENDS KvdbBackend

CONSTANTS
    Procs,           \* the processes that use the property API
    Calls,           \* the calls they make
    Inodes,          \* the files of the file system, named or not
    Bytes, Zero,     \* Zero is what a hole in a file reads as
    PROP_VALUE_MAX,
    ShortWrites,     \* does write take less than it is given?
    ShortReads,      \* does read give less than there is?
    IoMayFail,       \* do system calls fail?
    NoInode, NoCall, NoKey,
    Unknown          \* history: nobody can tell what is stored

CallRecords == [op : {"S", "G", "D", "L"}, key : Keys \cup {NoKey}, val : Vals \cup {Absent}]

ASSUME FileAssumption ==
    /\ Vals \subseteq Seq(Bytes) /\ Zero \in Bytes
    /\ PROP_VALUE_MAX \in Nat \ {0}
    /\ LongVals = {v \in Vals : Len(v) >= PROP_VALUE_MAX}
    /\ ShortWrites \in BOOLEAN /\ ShortReads \in BOOLEAN /\ IoMayFail \in BOOLEAN

ASSUME CallsAssumption ==
    /\ Calls \subseteq CallRecords
    /\ \A c \in Calls : c.op # "L" => c.key \in Keys
    /\ \A c \in Calls : c.op = "S" => c.val \in Vals

ASSUME NamesAssumption ==
    /\ NoInode \notin Inodes /\ NoCall \notin Calls /\ NoKey \notin Keys
    /\ Absent \notin Seq(Bytes) /\ Unknown \notin Seq(Bytes) \cup {Absent}

VARIABLES
    dir,      \* the directories: the file each key names
    data,     \* the content of the files
    pc,       \* where each process is
    call,     \* the call it makes
    name,     \* the key whose file it works on
    fd,       \* the file it has open
    nbytes,   \* nbyteswrite, nbytesread: also the offset of the descriptor
    buf,      \* what it has read
    where,    \* the directory kvdb_list is in
    seen,     \* the entries readdir has returned
    ret,      \* how its last call returned
    alone,    \* history: no other process has changed the key meanwhile
    truth     \* history: what the calls that have returned say is stored

fileVars == <<dir, data>>
listVars == <<where, seen>>
histVars == <<alone, truth>>
vars == <<dir, data, pc, call, name, fd, nbytes, buf, where, seen, ret, alone, truth>>

Pcs == {"idle", "open", "write", "read", "unlink", "opendir", "readdir"}

TypeOK ==
    /\ dir \in [Keys -> Inodes \cup {NoInode}]
    /\ data \in [Inodes -> Seq(Bytes)]
    /\ pc \in [Procs -> Pcs]
    /\ call \in [Procs -> Calls \cup {NoCall}]
    /\ name \in [Procs -> Keys \cup {NoKey}]
    /\ fd \in [Procs -> Inodes \cup {NoInode}]
    /\ nbytes \in [Procs -> Nat]
    /\ buf \in [Procs -> Seq(Bytes)]
    /\ where \in [Procs -> {"KVDB_PERSIST", "KVDB_MEM"}]
    /\ seen \in [Procs -> SUBSET Keys]
    /\ ret \in [Procs -> {"none", "ok", "err"}]
    /\ alone \in [Procs -> BOOLEAN]
    /\ truth \in [Keys -> Vals \cup {Absent, Unknown}]

-----------------------------------------------------------------------------
(* The file system *)

\* What is stored for key k.
Content(k) == IF dir[k] = NoInode THEN Absent ELSE data[dir[k]]

\* A file without a name that nobody has open.
Free(i) == (\A k \in Keys : dir[k] # i) /\ (\A p \in Procs : fd[p] # i)

\* A file with content s after bytes b were written at offset o.
WriteAt(s, o, b) ==
    [j \in 1..(IF o + Len(b) > Len(s) THEN o + Len(b) ELSE Len(s)) |->
        IF o < j /\ j <= o + Len(b) THEN b[j - o]
        ELSE IF j <= Len(s) THEN s[j] ELSE Zero]

\* How many of n bytes a write or read may transfer.
Transfers(n, partly) == IF n = 0 THEN {0} ELSE IF partly THEN 1..n ELSE {n}

-----------------------------------------------------------------------------
(* Calls *)

\* The calls that are changing key k.
Changing(k) == {p \in Procs : pc[p] # "idle" /\ call[p].op \in {"S", "D"} /\ name[p] = k}

\* Process p starts to work on key k; changes says whether to change it.
Alone(p, k, changes) ==
    [q \in Procs |->
        IF q = p THEN Changing(k) \ {p} = {}
        ELSE alone[q] /\ ~(changes /\ pc[q] # "idle" /\ name[q] = k)]

Init ==
    /\ dir = [k \in Keys |-> NoInode] /\ data = [i \in Inodes |-> <<>>]
    /\ pc = [p \in Procs |-> "idle"] /\ call = [p \in Procs |-> NoCall]
    /\ name = [p \in Procs |-> NoKey] /\ fd = [p \in Procs |-> NoInode]
    /\ nbytes = [p \in Procs |-> 0] /\ buf = [p \in Procs |-> <<>>]
    /\ where = [p \in Procs |-> "KVDB_PERSIST"] /\ seen = [p \in Procs |-> {}]
    /\ ret = [p \in Procs |-> "none"]
    /\ alone = [p \in Procs |-> TRUE]
    /\ truth = [k \in Keys |-> Absent]

\* Call c of process p begins; file.c goes on at the label at.
Begins(p, c, at) ==
    /\ pc' = [pc EXCEPT ![p] = at]
    /\ call' = [call EXCEPT ![p] = c]
    /\ name' = [name EXCEPT ![p] = c.key]
    /\ ret' = [ret EXCEPT ![p] = "none"]
    /\ buf' = [buf EXCEPT ![p] = <<>>]
    /\ UNCHANGED <<fileVars, fd, nbytes, truth>>

\* The call is refused before it does anything.
Refused(p) ==
    /\ ret' = [ret EXCEPT ![p] = "err"]
    /\ buf' = [buf EXCEPT ![p] = <<>>]
    /\ UNCHANGED <<fileVars, pc, call, name, fd, nbytes, listVars, histVars>>

\* The call returns, its descriptor and directory closed.  The history says
\* what is stored now if nobody else has changed the key meanwhile.
Returns(p, result, stored) ==
    /\ pc' = [pc EXCEPT ![p] = "idle"]
    /\ call' = [call EXCEPT ![p] = NoCall]
    /\ ret' = [ret EXCEPT ![p] = result]
    /\ fd' = [fd EXCEPT ![p] = NoInode]
    /\ nbytes' = [nbytes EXCEPT ![p] = 0]
    /\ name' = [name EXCEPT ![p] = NoKey]
    /\ seen' = [seen EXCEPT ![p] = {}] /\ where' = [where EXCEPT ![p] = "KVDB_PERSIST"]
    /\ alone' = [alone EXCEPT ![p] = TRUE]
    /\ truth' = IF call[p].op \in {"S", "D"}
                THEN [truth EXCEPT ![name[p]] = IF alone[p] THEN stored ELSE Unknown]
                ELSE truth

\* The value is neither empty nor too long, and the key has a directory.
Acceptable(c) == Len(c.val) # 0 /\ file_kvdb_set(truth, c.key, c.val, FALSE)

property_set_binary(p) ==
    /\ pc[p] = "idle"
    /\ \E c \in Calls :
        /\ c.op = "S"
        /\ \/ Acceptable(c) /\ Begins(p, c, "open") /\ alone' = Alone(p, c.key, TRUE)
              /\ UNCHANGED listVars
           \/ ~Acceptable(c) /\ Refused(p)

property_get_binary(p) ==
    /\ pc[p] = "idle"
    /\ \E c \in Calls :
        /\ c.op = "G"
        /\ \/ kvdb_get_index(c.key) \in Databases /\ Begins(p, c, "open")
              /\ alone' = Alone(p, c.key, FALSE) /\ UNCHANGED listVars
           \/ kvdb_get_index(c.key) \notin Databases /\ Refused(p)

property_delete(p) ==
    /\ pc[p] = "idle"
    /\ \E c \in Calls :
        /\ c.op = "D"
        /\ \/ kvdb_get_index(c.key) \in Databases /\ Begins(p, c, "unlink")
              /\ alone' = Alone(p, c.key, TRUE) /\ UNCHANGED listVars
           \/ kvdb_get_index(c.key) \notin Databases /\ Refused(p)

property_list_binary(p) ==
    /\ pc[p] = "idle"
    /\ \E c \in Calls : c.op = "L" /\ Begins(p, c, "opendir") /\ UNCHANGED <<listVars, alone>>

-----------------------------------------------------------------------------
(* kvdb_file_set *)

\* The file the open of a set works on: that of the key, or a new one.
Opens(p, i) ==
    IF dir[name[p]] = NoInode THEN Free(i) ELSE i = dir[name[p]]

\* open with O_CREAT and O_TRUNC: what was stored is gone from here on.  It
\* also fails when the file system has no room for another file.
Truncated_kept(i) ==
    data' = IF dir' = dir THEN data ELSE [data EXCEPT ![i] = <<>>]
Truncated(i) == data' = [data EXCEPT ![i] = <<>>]

kvdb_file_set_open(p) ==
    /\ pc[p] = "open" /\ call[p].op = "S"
    /\ \/ \E i \in Inodes :
            /\ Opens(p, i)
            /\ dir' = [dir EXCEPT ![name[p]] = i]
            /\ Truncated(i)
            /\ fd' = [fd EXCEPT ![p] = i]
            /\ pc' = [pc EXCEPT ![p] = "write"]
            /\ UNCHANGED <<call, name, nbytes, buf, listVars, ret, histVars>>
       \/ /\ IoMayFail \/ ~\E i \in Inodes : Opens(p, i)
          /\ Returns(p, "err", truth[name[p]])
          /\ UNCHANGED <<fileVars, buf>>

\* One round of the loop.  After a short write the next one starts again at
\* the beginning of the value.
kvdb_file_set_write(p) ==
    /\ pc[p] = "write"
    /\ LET val == call[p].val
       IN \E n \in Transfers(Len(val), ShortWrites) :
            /\ data' = [data EXCEPT ![fd[p]] = WriteAt(@, nbytes[p], SubSeq(val, 1, n))]
            /\ \/ /\ nbytes[p] + n < Len(val)
                  /\ nbytes' = [nbytes EXCEPT ![p] = @ + n]
                  /\ UNCHANGED <<pc, call, name, fd, listVars, ret, histVars>>
               \/ nbytes[p] + n >= Len(val) /\ Returns(p, "ok", val)
    /\ UNCHANGED <<dir, buf>>

\* write fails, or is interrupted: it then returns -1, which is not -EINTR.
WriteErrorReturns_leak(p) ==
    /\ pc' = [pc EXCEPT ![p] = "idle"]
    /\ ret' = [ret EXCEPT ![p] = "err"]
    /\ truth' = [truth EXCEPT ![name[p]] = Unknown]
    /\ UNCHANGED <<call, name, fd, nbytes, listVars, alone>>
WriteErrorReturns_counts(p) ==
    /\ nbytes' = [nbytes EXCEPT ![p] = @ - 1]
    /\ UNCHANGED <<pc, call, name, fd, listVars, ret, histVars>>
WriteErrorReturns(p) == Returns(p, "err", Unknown)

kvdb_file_set_error(p) ==
    /\ IoMayFail /\ pc[p] = "write"
    /\ WriteErrorReturns(p)
    /\ UNCHANGED <<fileVars, buf>>

-----------------------------------------------------------------------------
(* kvdb_file_get, kvdb_file_delete *)

\* For kvdb_list a file that cannot be opened ends the list.
kvdb_file_get_open(p) ==
    /\ pc[p] = "open" /\ call[p].op \in {"G", "L"}
    /\ \/ /\ dir[name[p]] # NoInode
          /\ fd' = [fd EXCEPT ![p] = dir[name[p]]]
          /\ pc' = [pc EXCEPT ![p] = "read"]
          /\ buf' = [buf EXCEPT ![p] = <<>>]
          /\ UNCHANGED <<call, name, nbytes, listVars, ret, histVars>>
       \/ /\ dir[name[p]] = NoInode \/ IoMayFail
          /\ Returns(p, "err", Unknown)
          /\ UNCHANGED buf
    /\ UNCHANGED fileVars

\* The value is complete: get returns, list passes it to consume.
GetDone(p) ==
    \/ call[p].op = "G" /\ Returns(p, "ok", Unknown)
    \/ /\ call[p].op = "L"
       /\ pc' = [pc EXCEPT ![p] = "readdir"]
       /\ fd' = [fd EXCEPT ![p] = NoInode]
       /\ nbytes' = [nbytes EXCEPT ![p] = 0]
       /\ name' = [name EXCEPT ![p] = NoKey]
       /\ alone' = [alone EXCEPT ![p] = TRUE]
       /\ UNCHANGED <<call, listVars, ret, truth>>

\* Where read puts what it reads.
ReadInto_start(p, n) == SubSeq(data[fd[p]], nbytes[p] + 1, nbytes[p] + n)
ReadInto(p, n) == buf[p] \o SubSeq(data[fd[p]], nbytes[p] + 1, nbytes[p] + n)

\* What there is to read and room for.
Readable(p) ==
    LET s == Len(data[fd[p]])
        e == IF s > PROP_VALUE_MAX THEN PROP_VALUE_MAX ELSE s
    IN IF e > nbytes[p] THEN e - nbytes[p] ELSE 0

\* The loop goes on until the end of the file or of the buffer.
ReadGoesOn_eof(p, n) == nbytes[p] + n < PROP_VALUE_MAX
ReadGoesOn(p, n) == n > 0 /\ nbytes[p] + n < PROP_VALUE_MAX

kvdb_file_get_read(p) ==
    /\ pc[p] = "read"
    /\ \E n \in Transfers(Readable(p), ShortReads) :
        /\ buf' = [buf EXCEPT ![p] = ReadInto(p, n)]
        /\ \/ /\ ReadGoesOn(p, n)
              /\ nbytes' = [nbytes EXCEPT ![p] = @ + n]
              /\ UNCHANGED <<pc, call, name, fd, listVars, ret, histVars>>
           \/ ~ReadGoesOn(p, n) /\ GetDone(p)
    /\ UNCHANGED fileVars

kvdb_file_get_error(p) ==
    /\ IoMayFail /\ pc[p] = "read"
    /\ Returns(p, "err", Unknown)
    /\ UNCHANGED <<fileVars, buf>>

\* The name goes; the file stays for those who have it open.
kvdb_file_delete(p) ==
    /\ pc[p] = "unlink"
    /\ \/ /\ dir[name[p]] # NoInode
          /\ dir' = [dir EXCEPT ![name[p]] = NoInode]
          /\ Returns(p, "ok", Absent)
       \/ /\ dir[name[p]] = NoInode \/ IoMayFail
          /\ Returns(p, "err", truth[name[p]])
          /\ UNCHANGED dir
    /\ UNCHANGED <<data, buf>>

-----------------------------------------------------------------------------
(* kvdb_list: the persistent directory, then the temporary one *)

kvdb_file_list_opendir(p) ==
    /\ pc[p] = "opendir"
    /\ \/ /\ pc' = [pc EXCEPT ![p] = "readdir"]
          /\ UNCHANGED <<call, name, fd, nbytes, listVars, ret, histVars>>
       \/ IoMayFail /\ Returns(p, "err", Unknown)
    /\ UNCHANGED <<fileVars, buf>>

\* The entries of the directory that readdir has not returned yet.
Entries(p) ==
    {k \in Keys : kvdb_get_index(k) = where[p] /\ dir[k] # NoInode /\ k \notin seen[p]}

kvdb_file_list_readdir(p) ==
    /\ pc[p] = "readdir"
    /\ \E k \in Entries(p) :
        /\ name' = [name EXCEPT ![p] = k]
        /\ seen' = [seen EXCEPT ![p] = @ \cup {k}]
        /\ alone' = Alone(p, k, FALSE)
    /\ pc' = [pc EXCEPT ![p] = "open"]
    /\ UNCHANGED <<fileVars, call, fd, nbytes, buf, where, ret, truth>>

\* Is the directory the last one?
LastDirectory(p) == where[p] = "KVDB_MEM" \/ ~TEMPORARY_STORAGE

kvdb_file_list_end(p) ==
    /\ pc[p] = "readdir" /\ Entries(p) = {}
    /\ \/ /\ ~LastDirectory(p)
          /\ where' = [where EXCEPT ![p] = "KVDB_MEM"]
          /\ pc' = [pc EXCEPT ![p] = "opendir"]
          /\ UNCHANGED <<call, name, fd, nbytes, seen, ret, histVars>>
       \/ LastDirectory(p) /\ Returns(p, "ok", Unknown)
    /\ UNCHANGED <<fileVars, buf>>

-----------------------------------------------------------------------------
\* The power fails and comes back: what was written is there, whatever was
\* being changed is not known, the temporary directory is empty.
PowerCycle ==
    /\ dir' = [k \in Keys |-> IF kvdb_get_index(k) = "KVDB_PERSIST" THEN dir[k] ELSE NoInode]
    /\ truth' = [k \in Keys |-> IF kvdb_get_index(k) # "KVDB_PERSIST" THEN Absent
                                ELSE IF Changing(k) # {} THEN Unknown ELSE truth[k]]
    /\ pc' = [p \in Procs |-> "idle"] /\ call' = [p \in Procs |-> NoCall]
    /\ name' = [p \in Procs |-> NoKey] /\ fd' = [p \in Procs |-> NoInode]
    /\ nbytes' = [p \in Procs |-> 0] /\ buf' = [p \in Procs |-> <<>>]
    /\ where' = [p \in Procs |-> "KVDB_PERSIST"] /\ seen' = [p \in Procs |-> {}]
    /\ ret' = [p \in Procs |-> "none"] /\ alone' = [p \in Procs |-> TRUE]
    /\ UNCHANGED data

\* The steps of a call that has begun, when write and read do not fail.
Proceeds(p) ==
    \/ kvdb_file_set_open(p)
    \/ kvdb_file_set_write(p)
    \/ kvdb_file_get_open(p)
    \/ kvdb_file_get_read(p)
    \/ kvdb_file_delete(p)
    \/ kvdb_file_list_opendir(p)
    \/ kvdb_file_list_readdir(p)
    \/ kvdb_file_list_end(p)

Works(p) == Proceeds(p) \/ kvdb_file_set_error(p) \/ kvdb_file_get_error(p)

Begin(p) ==
    \/ property_set_binary(p)
    \/ property_get_binary(p)
    \/ property_delete(p)
    \/ property_list_binary(p)

Next == (\E p \in Procs : Begin(p) \/ Works(p)) \/ PowerCycle

Spec == Init /\ [][Next]_vars

\* A process that is in a call goes on with it, and is not saved by an error.
FairSpec == Spec /\ \A p \in Procs : WF_vars(Proceeds(p))

-----------------------------------------------------------------------------
(* Properties *)

\* While no call is changing a key, its file holds what the last call that
\* changed it says, provided that call had the key to itself and did not
\* fail inside write: a set that returns 0 has stored its value, all of it
\* and nothing else, and a failed open or unlink has left the key as it was.
StoredValue ==
    \A k \in Keys : truth[k] # Unknown /\ Changing(k) = {} => Content(k) = truth[k]

\* A get or an entry of a list during which nobody changes the key gives the
\* whole value that is stored, although the file is read in pieces and other
\* keys come and go.
ReadWhole ==
    [][\A p \in Procs :
        /\ pc[p] = "read" /\ (pc'[p] = "readdir" \/ ret'[p] = "ok")
        /\ alone[p] /\ truth[name[p]] # Unknown
        => buf'[p] = truth[name[p]]]_vars

\* A call leaves no descriptor open, whichever way it returns.
DescriptorsClosed == \A p \in Procs : pc[p] \in {"idle", "readdir"} => fd[p] = NoInode

\* Every call returns, with short reads, failures and other processes at work.
CallReturns == \A p \in Procs : pc[p] # "idle" ~> pc[p] = "idle"

=============================================================================
