--------------------------- MODULE KvdbFileProofs ---------------------------
(***************************************************************************)
(* Proofs about KvdbFile: types, descriptors, that what the calls say is   *)
(* stored is stored, and that it is read whole, for any number of          *)
(* processes, keys and files.                                              *)
(***************************************************************************)
EXTENDS KvdbFile, SequenceTheorems, TLAPS

\* Where a process can be in which call, and what it then works on.
CallOK ==
    \A p \in Procs :
        /\ pc[p] # "idle" => call[p] \in Calls
        /\ pc[p] = "write" => call[p].op = "S"
        /\ pc[p] = "unlink" => call[p].op = "D"
        /\ pc[p] \in {"open", "write", "read", "unlink"} => name[p] \in Keys
        /\ pc[p] = "open" => call[p].op # "D"
        /\ pc[p] \in {"read", "opendir", "readdir"} => call[p].op \notin {"S", "D"}

\* A process has a file open while it reads or writes, and only then.
FdOK ==
    \A p \in Procs :
        /\ pc[p] \in {"write", "read"} <=> fd[p] # NoInode
        /\ pc[p] \notin {"write", "read"} => nbytes[p] = 0

\* Without short writes a set writes once.
WriteOnce == \A p \in Procs : pc[p] = "write" => nbytes[p] = 0

\* No two keys share a file, and a file that is being written has the name
\* the set opened it by, if it has one at all.
DirOK ==
    /\ \A k, l \in Keys : dir[k] = dir[l] /\ dir[k] # NoInode => k = l
    /\ \A p \in Procs, k \in Keys : pc[p] = "write" /\ dir[k] = fd[p] => k = name[p]

\* A call that changes key k.
Changes(p, k) == pc[p] # "idle" /\ call[p].op \in {"S", "D"} /\ name[p] = k

\* alone is what it is meant to be.
AloneOK ==
    \A p, q \in Procs, k \in Keys : Changes(p, k) /\ Changes(q, k) /\ p # q => ~alone[p]

\* The file a set has to itself is still empty, and still the key's.
Emptied ==
    \A p \in Procs :
        pc[p] = "write" /\ alone[p] => dir[name[p]] = fd[p] /\ data[fd[p]] = <<>>

\* StoredValue holds on until a call that changes the key opens the file.
Settled ==
    \A k \in Keys :
        truth[k] # Unknown /\ (\A p \in Procs : Changes(p, k) => alone[p] /\ pc[p] # "write")
            => Content(k) = truth[k]

FileTypeInv == TypeOK /\ CallOK /\ FdOK
FileInv == WriteOnce /\ DirOK /\ AloneOK /\ Emptied /\ Settled

USE DEF fileVars, listVars, histVars

-----------------------------------------------------------------------------
(* Types *)

\* Writing into a file gives a file.
LEMMA WriteAtType ==
    ASSUME NEW s \in Seq(Bytes), NEW o \in Nat, NEW b \in Seq(Bytes)
    PROVE  WriteAt(s, o, b) \in Seq(Bytes)
  <1> DEFINE n == IF o + Len(b) > Len(s) THEN o + Len(b) ELSE Len(s)
  <1>1. n \in Nat
    OBVIOUS
  <1>2. ASSUME NEW j \in 1..n
        PROVE  (IF o < j /\ j <= o + Len(b) THEN b[j - o]
                ELSE IF j <= Len(s) THEN s[j] ELSE Zero) \in Bytes
    <2>1. o < j /\ j <= o + Len(b) => j - o \in 1..Len(b)
      OBVIOUS
    <2>2. j <= Len(s) => j \in 1..Len(s)
      OBVIOUS
    <2> QED
      BY <2>1, <2>2, FileAssumption
  <1>3. WriteAt(s, o, b) \in [1..n -> Bytes]
    BY <1>2 DEF WriteAt
  <1> QED
    BY SMTT(30), <1>1, <1>3, SeqDef

\* A value written into an empty file is all there is in it.
LEMMA WriteAtEmpty ==
    ASSUME NEW v \in Seq(Bytes)
    PROVE  WriteAt(<<>>, 0, SubSeq(v, 1, Len(v))) = v
  <1>1. SubSeq(v, 1, Len(v)) = v
    OBVIOUS
  <1>2. WriteAt(<<>>, 0, v) = [j \in 1..Len(v) |-> v[j]]
    BY DEF WriteAt
  <1>3. v = [j \in 1..Len(v) |-> v[j]]
    BY LenProperties
  <1> QED
    BY <1>1, <1>2, <1>3

\* What a call that returns leaves of the variables of the processes.
LEMMA ReturnsType ==
    ASSUME FileTypeInv, NEW p \in Procs, NEW result \in {"ok", "err"},
           NEW stored \in Vals \cup {Absent, Unknown}, Returns(p, result, stored),
           dir' \in [Keys -> Inodes \cup {NoInode}], data' \in [Inodes -> Seq(Bytes)],
           buf' \in [Procs -> Seq(Bytes)]
    PROVE  FileTypeInv'
  <1>1. TypeOK'
    BY DEF FileTypeInv, TypeOK, Returns, Pcs
  <1>2. CallOK'
    BY DEF FileTypeInv, TypeOK, CallOK, Returns
  <1>3. FdOK'
    BY DEF FileTypeInv, TypeOK, FdOK, Returns
  <1> QED
    BY <1>1, <1>2, <1>3 DEF FileTypeInv

\* A call begins, or is refused.
LEMMA BeginType ==
    ASSUME FileTypeInv, NEW p \in Procs, Begin(p)
    PROVE  FileTypeInv'
  <1>1. pc[p] = "idle" /\ fd[p] = NoInode /\ nbytes[p] = 0
    BY DEF FileTypeInv, TypeOK, FdOK, Begin, property_set_binary, property_get_binary,
           property_delete, property_list_binary
  <1>2. ASSUME Refused(p)
        PROVE  FileTypeInv'
    BY <1>2 DEF FileTypeInv, TypeOK, CallOK, FdOK, Refused
  <1>3. ASSUME NEW c \in Calls, NEW at \in {"open", "unlink", "opendir"}, Begins(p, c, at),
               at # "opendir" => c.key \in Keys,
               at = "unlink" => c.op = "D", at = "open" => c.op # "D",
               at = "opendir" => c.op = "L",
               alone' \in [Procs -> BOOLEAN], UNCHANGED listVars
        PROVE  FileTypeInv'
    <2>1. c.key \in Keys \cup {NoKey}
      BY CallsAssumption DEF CallRecords
    <2>2. TypeOK'
      BY <1>3, <2>1 DEF FileTypeInv, TypeOK, Begins, Pcs
    <2>3. CallOK'
      BY <1>3 DEF FileTypeInv, TypeOK, CallOK, Begins
    <2>4. FdOK'
      BY <1>1, <1>3 DEF FileTypeInv, TypeOK, FdOK, Begins
    <2> QED
      BY <2>2, <2>3, <2>4 DEF FileTypeInv
  <1>4. ASSUME NEW k
        PROVE  /\ Alone(p, k, TRUE) \in [Procs -> BOOLEAN]
               /\ Alone(p, k, FALSE) \in [Procs -> BOOLEAN]
    BY DEF Alone, FileTypeInv, TypeOK
  <1>5. CASE property_set_binary(p)
    <2>1. PICK c \in Calls : c.op = "S" /\ (Refused(p) \/
                (Begins(p, c, "open") /\ alone' = Alone(p, c.key, TRUE) /\ UNCHANGED listVars))
      BY <1>5 DEF property_set_binary
    <2>2. alone' = Alone(p, c.key, TRUE) => alone' \in [Procs -> BOOLEAN]
      BY <1>4
    <2> QED
      BY <1>2, <1>3, <2>1, <2>2, CallsAssumption
  <1>6. CASE property_get_binary(p)
    <2>1. PICK c \in Calls : c.op = "G" /\ (Refused(p) \/
                (Begins(p, c, "open") /\ alone' = Alone(p, c.key, FALSE) /\ UNCHANGED listVars))
      BY <1>6 DEF property_get_binary
    <2>2. alone' = Alone(p, c.key, FALSE) => alone' \in [Procs -> BOOLEAN]
      BY <1>4
    <2> QED
      BY <1>2, <1>3, <2>1, <2>2, CallsAssumption
  <1>7. CASE property_delete(p)
    <2>1. PICK c \in Calls : c.op = "D" /\ (Refused(p) \/
                (Begins(p, c, "unlink") /\ alone' = Alone(p, c.key, TRUE) /\ UNCHANGED listVars))
      BY <1>7 DEF property_delete
    <2>2. alone' = Alone(p, c.key, TRUE) => alone' \in [Procs -> BOOLEAN]
      BY <1>4
    <2> QED
      BY <1>2, <1>3, <2>1, <2>2, CallsAssumption
  <1>8. CASE property_list_binary(p)
    BY <1>3, <1>8 DEF property_list_binary, FileTypeInv, TypeOK
  <1> QED
    BY <1>5, <1>6, <1>7, <1>8 DEF Begin

\* One step of a call.
LEMMA WorksType ==
    ASSUME FileTypeInv, NEW p \in Procs, Works(p)
    PROVE  FileTypeInv'
  <1> USE DEF FileTypeInv
  <1>1. truth[name[p]] \in Vals \cup {Absent, Unknown} \/ name[p] \notin Keys
    BY DEF TypeOK
  <1>2. CASE kvdb_file_set_open(p)
    <2>1. CASE Returns(p, "err", truth[name[p]]) /\ UNCHANGED <<fileVars, buf>>
      <3>1. name[p] \in Keys
        BY <1>2 DEF kvdb_file_set_open, CallOK
      <3> QED
        BY <1>1, <2>1, <3>1, ReturnsType DEF TypeOK
    <2>2. ASSUME NEW i \in Inodes, dir' = [dir EXCEPT ![name[p]] = i], Truncated(i),
                 fd' = [fd EXCEPT ![p] = i], pc' = [pc EXCEPT ![p] = "write"],
                 UNCHANGED <<call, name, nbytes, buf, listVars, ret, histVars>>
          PROVE  FileTypeInv'
      <3>1. data' \in [Inodes -> Seq(Bytes)] /\ dir' \in [Keys -> Inodes \cup {NoInode}]
        <4>1. data' \in [Inodes -> Seq(Bytes)]
          BY <2>2 DEF TypeOK, Truncated
        <4>2. dir' \in [Keys -> Inodes \cup {NoInode}]
          BY <2>2 DEF TypeOK
        <4> QED
          BY <4>1, <4>2
      <3>2. TypeOK'
        BY <2>2, <3>1 DEF TypeOK, Pcs
      <3>3. CallOK'
        BY <1>2, <2>2 DEF TypeOK, CallOK, kvdb_file_set_open
      <3>4. FdOK'
        BY <2>2, NamesAssumption DEF TypeOK, FdOK
      <3> QED
        BY <3>3, <3>4, <3>2
    <2> QED
      BY <1>2, <2>1, <2>2 DEF kvdb_file_set_open
  <1>3. CASE kvdb_file_set_write(p)
    <2>1. call[p] \in Calls /\ call[p].op = "S" /\ fd[p] \in Inodes
      BY <1>3 DEF kvdb_file_set_write, CallOK, FdOK, TypeOK
    <2>2. call[p].val \in Vals /\ call[p].val \in Seq(Bytes)
      BY <2>1, CallsAssumption, FileAssumption
    <2>3. PICK n \in Transfers(Len(call[p].val), ShortWrites) :
            /\ data' = [data EXCEPT ![fd[p]] =
                            WriteAt(@, nbytes[p], SubSeq(call[p].val, 1, n))]
            /\ \/ /\ nbytes' = [nbytes EXCEPT ![p] = @ + n]
                  /\ UNCHANGED <<pc, call, name, fd, listVars, ret, histVars>>
               \/ Returns(p, "ok", call[p].val)
      BY <1>3 DEF kvdb_file_set_write
    <2>4. n \in Nat /\ n <= Len(call[p].val)
      BY <2>2 DEF Transfers
    <2>5. SubSeq(call[p].val, 1, n) \in Seq(Bytes)
      BY <2>2, <2>4
    <2>6. WriteAt(data[fd[p]], nbytes[p], SubSeq(call[p].val, 1, n)) \in Seq(Bytes)
      BY <2>1, <2>5, WriteAtType DEF TypeOK
    <2>7. data' \in [Inodes -> Seq(Bytes)] /\ dir' \in [Keys -> Inodes \cup {NoInode}]
            /\ buf' \in [Procs -> Seq(Bytes)]
      BY <1>3, <2>3, <2>6 DEF TypeOK, kvdb_file_set_write
    <2>8. CASE Returns(p, "ok", call[p].val)
      BY <2>2, <2>7, <2>8, ReturnsType
    <2>9. CASE nbytes' = [nbytes EXCEPT ![p] = @ + n]
                 /\ UNCHANGED <<pc, call, name, fd, listVars, ret, histVars>>
      <3>1. TypeOK'
        BY <2>4, <2>7, <2>9 DEF TypeOK
      <3>2. CallOK'
        BY <2>9 DEF CallOK
      <3>3. FdOK'
        BY <1>3, <2>9 DEF FdOK, TypeOK, kvdb_file_set_write
      <3> QED
        BY <3>1, <3>2, <3>3
    <2> QED
      BY <2>3, <2>8, <2>9
  <1>4. CASE kvdb_file_set_error(p)
    BY <1>4, ReturnsType DEF kvdb_file_set_error, WriteErrorReturns, TypeOK
  <1>5. CASE kvdb_file_get_open(p)
    <2>1. CASE Returns(p, "err", Unknown) /\ UNCHANGED <<fileVars, buf>>
      BY <2>1, ReturnsType DEF TypeOK
    <2>2. CASE /\ dir[name[p]] # NoInode /\ fd' = [fd EXCEPT ![p] = dir[name[p]]]
               /\ pc' = [pc EXCEPT ![p] = "read"] /\ buf' = [buf EXCEPT ![p] = <<>>]
               /\ UNCHANGED <<call, name, nbytes, listVars, ret, histVars, fileVars>>
      <3>1. dir[name[p]] \in Inodes
        BY <1>5, <2>2 DEF kvdb_file_get_open, CallOK, TypeOK
      <3>2. TypeOK'
        BY <2>2, <3>1 DEF TypeOK, Pcs
      <3>3. CallOK'
        BY <1>5, <2>2 DEF TypeOK, CallOK, kvdb_file_get_open
      <3>4. FdOK'
        BY <2>2 DEF TypeOK, FdOK
      <3> QED
        BY <3>2, <3>3, <3>4
    <2> QED
      BY <1>5, <2>1, <2>2 DEF kvdb_file_get_open
  <1>6. CASE kvdb_file_get_read(p)
    <2>1. pc[p] = "read" /\ fd[p] \in Inodes /\ data[fd[p]] \in Seq(Bytes) /\ nbytes[p] \in Nat
      BY <1>6 DEF kvdb_file_get_read, FdOK, TypeOK
    <2>2. PICK n \in Transfers(Readable(p), ShortReads) :
            /\ buf' = [buf EXCEPT ![p] = ReadInto(p, n)]
            /\ \/ /\ nbytes' = [nbytes EXCEPT ![p] = @ + n]
                  /\ UNCHANGED <<pc, call, name, fd, listVars, ret, histVars>>
               \/ GetDone(p)
      BY <1>6 DEF kvdb_file_get_read
    <2>3. n \in Nat /\ (n = 0 \/ nbytes[p] + n <= Len(data[fd[p]]))
      BY <2>1, FileAssumption DEF Transfers, Readable
    <2>4. SubSeq(data[fd[p]], nbytes[p] + 1, nbytes[p] + n) \in Seq(Bytes)
      BY <2>1, <2>3
    <2>5. ReadInto(p, n) \in Seq(Bytes)
      BY <2>4 DEF ReadInto, TypeOK
    <2>6. data' \in [Inodes -> Seq(Bytes)] /\ dir' \in [Keys -> Inodes \cup {NoInode}]
            /\ buf' \in [Procs -> Seq(Bytes)]
      BY <1>6, <2>2, <2>5 DEF TypeOK, kvdb_file_get_read
    <2>7. CASE Returns(p, "ok", Unknown)
      BY <2>6, <2>7, ReturnsType
    <2>8. CASE nbytes' = [nbytes EXCEPT ![p] = @ + n]
                 /\ UNCHANGED <<pc, call, name, fd, listVars, ret, histVars>>
      <3>1. TypeOK'
        BY <2>3, <2>6, <2>8 DEF TypeOK
      <3>2. CallOK'
        BY <2>8 DEF CallOK
      <3>3. FdOK'
        BY <2>1, <2>8 DEF FdOK, TypeOK
      <3> QED
        BY <3>1, <3>2, <3>3
    <2>9. CASE GetDone(p) /\ call[p].op = "L" /\ ~Returns(p, "ok", Unknown)
      <3>1. alone' \in [Procs -> BOOLEAN]
        BY <2>9 DEF TypeOK, GetDone
      <3>2. /\ pc' \in [Procs -> Pcs] /\ call' = call /\ where' = where /\ seen' = seen
            /\ ret' = ret /\ truth' = truth
        BY <2>9 DEF TypeOK, GetDone, Pcs
      <3>3. /\ fd' = [fd EXCEPT ![p] = NoInode] /\ nbytes' = [nbytes EXCEPT ![p] = 0]
            /\ name' = [name EXCEPT ![p] = NoKey]
        BY <2>9 DEF GetDone
      <3>4. fd' \in [Procs -> Inodes \cup {NoInode}] /\ nbytes' \in [Procs -> Nat]
        BY <3>3 DEF TypeOK
      <3>5. name' \in [Procs -> Keys \cup {NoKey}]
        BY <3>3 DEF TypeOK
      <3>6. TypeOK'
        BY <2>6, <3>1, <3>2, <3>4, <3>5 DEF TypeOK
      <3>7. CallOK'
        BY <2>1, <2>9 DEF CallOK, GetDone, TypeOK
      <3>8. FdOK'
        BY <2>9 DEF FdOK, GetDone, TypeOK
      <3> QED
        BY <3>6, <3>7, <3>8
    <2> QED
      BY <2>2, <2>7, <2>8, <2>9 DEF GetDone
  <1>7. CASE kvdb_file_get_error(p)
    BY <1>7, ReturnsType DEF kvdb_file_get_error, TypeOK
  <1>8. CASE kvdb_file_delete(p)
    <2>1. name[p] \in Keys
      BY <1>8 DEF kvdb_file_delete, CallOK
    <2>2. dir' \in [Keys -> Inodes \cup {NoInode}] /\ data' \in [Inodes -> Seq(Bytes)]
            /\ buf' \in [Procs -> Seq(Bytes)]
      BY <1>8 DEF kvdb_file_delete, TypeOK
    <2> QED
      BY <1>1, <1>8, <2>1, <2>2, ReturnsType DEF kvdb_file_delete
  <1>9. CASE kvdb_file_list_opendir(p)
    <2>1. CASE Returns(p, "err", Unknown) /\ UNCHANGED <<fileVars, buf>>
      BY <2>1, ReturnsType DEF TypeOK
    <2>2. CASE /\ pc' = [pc EXCEPT ![p] = "readdir"]
               /\ UNCHANGED <<call, name, fd, nbytes, listVars, ret, histVars, fileVars, buf>>
      BY <1>9, <2>2 DEF kvdb_file_list_opendir, TypeOK, CallOK, FdOK, Pcs
    <2> QED
      BY <1>9, <2>1, <2>2 DEF kvdb_file_list_opendir
  <1>10. CASE kvdb_file_list_readdir(p)
    <2>1. \A k : Alone(p, k, FALSE) \in [Procs -> BOOLEAN]
      BY DEF Alone, TypeOK
    <2>2. alone' \in [Procs -> BOOLEAN]
      BY <1>10, <2>1 DEF kvdb_file_list_readdir
    <2>3. seen' \in [Procs -> SUBSET Keys]
      BY <1>10 DEF kvdb_file_list_readdir, Entries, TypeOK
    <2>4. name' \in [Procs -> Keys \cup {NoKey}] /\ pc' \in [Procs -> Pcs]
      BY <1>10 DEF kvdb_file_list_readdir, Entries, TypeOK, Pcs
    <2>5. TypeOK'
      BY <1>10, <2>2, <2>3, <2>4 DEF kvdb_file_list_readdir, TypeOK
    <2>6. CallOK' /\ FdOK'
      BY <1>10 DEF kvdb_file_list_readdir, TypeOK, Entries, CallOK, FdOK
    <2> QED
      BY <2>5, <2>6
  <1>11. CASE kvdb_file_list_end(p)
    <2>1. CASE Returns(p, "ok", Unknown) /\ UNCHANGED <<fileVars, buf>>
      BY <2>1, ReturnsType DEF TypeOK
    <2>2. CASE /\ where' = [where EXCEPT ![p] = "KVDB_MEM"]
               /\ pc' = [pc EXCEPT ![p] = "opendir"]
               /\ UNCHANGED <<call, name, fd, nbytes, seen, ret, histVars, fileVars, buf>>
      BY <1>11, <2>2 DEF kvdb_file_list_end, TypeOK, CallOK, FdOK, Pcs
    <2> QED
      BY <1>11, <2>1, <2>2 DEF kvdb_file_list_end
  <1> QED
    BY <1>2, <1>3, <1>4, <1>5, <1>6, <1>7, <1>8, <1>9, <1>10, <1>11 DEF Works, Proceeds

\* The types hold for every number of processes, with short transfers and
\* failures of every system call.
THEOREM FileTypes == Spec => []FileTypeInv
  <1>1. Init => FileTypeInv
    BY DEF Init, FileTypeInv, TypeOK, CallOK, FdOK, Pcs
  <1>2. FileTypeInv /\ [Next]_vars => FileTypeInv'
    <2> SUFFICES ASSUME FileTypeInv, [Next]_vars PROVE FileTypeInv'
      OBVIOUS
    <2>1. CASE PowerCycle
      BY <2>1 DEF PowerCycle, FileTypeInv, TypeOK, CallOK, FdOK, Pcs
    <2>2. CASE UNCHANGED vars
      BY <2>2 DEF vars, FileTypeInv, TypeOK, CallOK, FdOK
    <2> QED
      BY <2>1, <2>2, BeginType, WorksType DEF Next
  <1> QED
    BY <1>1, <1>2, PTL DEF Spec

\* The type invariant the runs check.
COROLLARY FileTypeCorrect == Spec => []TypeOK
  <1>1. FileTypeInv => TypeOK
    BY DEF FileTypeInv
  <1> QED
    BY <1>1, FileTypes, PTL

\* A call leaves no descriptor open, whichever way it returns.
THEOREM DescriptorsAreClosed == Spec => []DescriptorsClosed
  <1>1. FileTypeInv => DescriptorsClosed
    BY DEF FileTypeInv, FdOK, DescriptorsClosed
  <1> QED
    BY <1>1, FileTypes, PTL

-----------------------------------------------------------------------------
(* What is stored *)

\* Steps that neither touch a file nor a call that changes a key, nor begin
\* or end one.
LEMMA QuietStep ==
    ASSUME FileInv, NEW p \in Procs, call[p].op \notin {"S", "D"}, pc[p] # "idle",
           pc[p] # "write", UNCHANGED <<fileVars, truth>>,
           pc'[p] # "write", pc'[p] = "idle" \/ call'[p] = call[p],
           \A q \in Procs : q # p =>
               /\ pc'[q] = pc[q] /\ call'[q] = call[q] /\ name'[q] = name[q]
               /\ fd'[q] = fd[q] /\ nbytes'[q] = nbytes[q] /\ alone'[q] = alone[q]
    PROVE  FileInv'
  <1>1. \A q \in Procs : q # p =>
               /\ pc'[q] = pc[q] /\ call'[q] = call[q] /\ name'[q] = name[q]
               /\ fd'[q] = fd[q] /\ nbytes'[q] = nbytes[q] /\ alone'[q] = alone[q]
    OBVIOUS
  <1>2. \A k : ~Changes(p, k) /\ ~Changes(p, k)'
    BY DEF Changes
  <1>3. \A q \in Procs, k \in Keys : Changes(q, k)' => Changes(q, k) /\ q # p
    BY <1>1, <1>2 DEF Changes
  <1>4. WriteOnce'
    BY <1>1 DEF FileInv, WriteOnce
  <1>5. DirOK'
    BY <1>1 DEF FileInv, DirOK
  <1>6. AloneOK'
    BY <1>1, <1>3 DEF FileInv, AloneOK
  <1>7. Emptied'
    BY <1>1 DEF FileInv, Emptied
  <1>8. Settled'
    <2>1. \A q \in Procs, k \in Keys : Changes(q, k) => Changes(q, k)' /\ q # p
      BY <1>1, <1>2 DEF Changes
    <2>2. \A k \in Keys : Content(k)' = Content(k)
      BY DEF Content
    <2> QED
      BY <1>1, <2>1, <2>2 DEF FileInv, Settled
  <1> QED
    BY <1>4, <1>5, <1>6, <1>7, <1>8 DEF FileInv

\* A call that changes a key returns.  What it has done is right if it left
\* the other keys, and the files of sets that have theirs to themselves,
\* alone, and if what it reports is what is stored.
LEMMA ReturnStep ==
    ASSUME FileInv, FileTypeInv, NEW p \in Procs, pc[p] # "idle", call[p].op \in {"S", "D"},
           name[p] \in Keys, NEW result, NEW stored, Returns(p, result, stored), DirOK',
           \A k \in Keys : k # name[p] => Content(k)' = Content(k),
           \A k \in Keys : k = name[p] /\ alone[p] /\ stored # Unknown => Content(k)' = stored,
           \A q \in Procs \ {p} :
                pc[q] = "write" /\ alone[q] => dir'[name[q]] = fd[q] /\ data'[fd[q]] = <<>>
    PROVE  FileInv'
  <1>1. ASSUME NEW q \in Procs, q # p
        PROVE  /\ pc'[q] = pc[q] /\ call'[q] = call[q] /\ name'[q] = name[q]
               /\ fd'[q] = fd[q] /\ nbytes'[q] = nbytes[q] /\ alone'[q] = alone[q]
    BY <1>1 DEF FileTypeInv, TypeOK, Returns
  <1>2. pc'[p] = "idle"
    BY DEF FileTypeInv, TypeOK, Returns
  <1>3. \A q \in Procs, k \in Keys : Changes(q, k)' <=> Changes(q, k) /\ q # p
    BY <1>1, <1>2 DEF Changes
  <1>4. WriteOnce'
    BY <1>1, <1>2 DEF FileInv, WriteOnce
  <1>5. AloneOK'
    BY <1>1, <1>3 DEF FileInv, AloneOK
  <1>6. Emptied'
    BY <1>1, <1>2 DEF Emptied
  <1>7. Settled'
    <2> SUFFICES ASSUME NEW k \in Keys, truth'[k] # Unknown,
                        \A q \in Procs : Changes(q, k)' => alone'[q] /\ pc'[q] # "write"
                 PROVE  Content(k)' = truth'[k]
      BY DEF Settled
    <2>1. CASE k = name[p]
      <3>1. truth'[k] = IF alone[p] THEN stored ELSE Unknown
        BY <2>1 DEF FileTypeInv, TypeOK, Returns
      <3> QED
        BY <2>1, <3>1
    <2>2. CASE k # name[p]
      <3>1. truth'[k] = truth[k] /\ Content(k)' = Content(k)
        BY <2>2 DEF FileTypeInv, TypeOK, Returns
      <3>2. \A q \in Procs : Changes(q, k) => alone[q] /\ pc[q] # "write"
        <4>1. ~Changes(p, k)
          BY <2>2 DEF Changes
        <4> QED
          BY <1>1, <1>3, <4>1
      <3> QED
        BY <3>1, <3>2 DEF FileInv, Settled
    <2> QED
      BY <2>1, <2>2
  <1> QED
    BY <1>4, <1>5, <1>6, <1>7 DEF FileInv

\* A call that has not touched its file, and has its key to itself, finds
\* what the history says.
LEMMA Untouched ==
    ASSUME FileInv, NEW p \in Procs, pc[p] \in {"open", "unlink"}, call[p].op \in {"S", "D"},
           name[p] \in Keys, alone[p], truth[name[p]] # Unknown
    PROVE  Content(name[p]) = truth[name[p]]
  <1>1. Changes(p, name[p])
    BY DEF Changes
  <1>2. \A q \in Procs : Changes(q, name[p]) => q = p
    BY <1>1 DEF FileInv, AloneOK
  <1> QED
    BY <1>2 DEF FileInv, Settled

LEMMA BeginStep ==
    ASSUME FileInv, FileTypeInv, NEW p \in Procs, Begin(p)
    PROVE  FileInv'
  <1>1. CASE Refused(p)
    BY <1>1 DEF Refused, FileInv, WriteOnce, DirOK, AloneOK, Changes, Emptied, Settled, Content
  <1>2. ASSUME NEW c \in Calls, NEW at \in {"open", "unlink", "opendir"}, Begins(p, c, at),
               pc[p] = "idle", c.op = "L" => alone' = alone,
               c.op = "G" => alone' = Alone(p, c.key, FALSE),
               c.op \in {"S", "D"} => alone' = Alone(p, c.key, TRUE)
        PROVE  FileInv'
    <2>1. ASSUME NEW q \in Procs, q # p
          PROVE  /\ pc'[q] = pc[q] /\ call'[q] = call[q] /\ name'[q] = name[q]
                 /\ fd'[q] = fd[q] /\ nbytes'[q] = nbytes[q]
      BY <1>2, <2>1 DEF FileTypeInv, TypeOK, Begins
    <2>2. pc'[p] = at /\ call'[p] = c /\ name'[p] = c.key
      BY <1>2 DEF FileTypeInv, TypeOK, Begins
    <2>3. UNCHANGED <<dir, data, truth, fd, nbytes>>
      BY <1>2 DEF Begins
    <2>4. c.op \in {"S", "G", "D", "L"}
      BY CallsAssumption DEF CallRecords
    <2>5. \A q \in Procs \ {p} : alone'[q] => alone[q]
      BY <1>2, <2>4 DEF Alone
    <2>6. ASSUME c.op \in {"S", "D"}
          PROVE  /\ \A q \in Procs \ {p} : Changes(q, c.key) => ~alone'[q]
                 /\ (\E q \in Procs \ {p} : Changes(q, c.key)) => ~alone'[p]
      BY <1>2, <2>6 DEF Alone, Changing, Changes
    <2>7. \A q \in Procs \ {p}, k \in Keys : Changes(q, k)' <=> Changes(q, k)
      BY <2>1 DEF Changes
    <2>8. \A k \in Keys : ~Changes(p, k) /\ (Changes(p, k)' => c.op \in {"S", "D"} /\ c.key = k)
      BY <1>2, <2>2 DEF Changes
    <2>9. WriteOnce'
      BY <2>1, <2>2, <2>3 DEF FileInv, WriteOnce
    <2>10. DirOK'
      BY <2>1, <2>2, <2>3 DEF FileInv, DirOK
    <2>11. AloneOK'
      BY <2>5, <2>6, <2>7, <2>8 DEF FileInv, AloneOK
    <2>12. Emptied'
      BY <2>1, <2>2, <2>3, <2>5 DEF FileInv, Emptied
    <2>13. Settled'
      <3>1. \A k \in Keys : Content(k)' = Content(k)
        BY <2>3 DEF Content
      <3>2. \A q \in Procs, k \in Keys : Changes(q, k) => q # p /\ Changes(q, k)'
        BY <2>7, <2>8
      <3> QED
        BY <2>1, <2>3, <2>5, <3>1, <3>2 DEF FileInv, Settled
    <2> QED
      BY <2>9, <2>10, <2>11, <2>12, <2>13 DEF FileInv
  <1>3. CASE property_set_binary(p)
    <2>1. PICK c \in Calls : c.op = "S" /\ (Refused(p) \/
                (Begins(p, c, "open") /\ alone' = Alone(p, c.key, TRUE)))
      BY <1>3 DEF property_set_binary
    <2> QED
      BY <1>1, <1>2, <1>3, <2>1 DEF property_set_binary
  <1>4. CASE property_get_binary(p)
    <2>1. PICK c \in Calls : c.op = "G" /\ (Refused(p) \/
                (Begins(p, c, "open") /\ alone' = Alone(p, c.key, FALSE)))
      BY <1>4 DEF property_get_binary
    <2> QED
      BY <1>1, <1>2, <1>4, <2>1 DEF property_get_binary
  <1>5. CASE property_delete(p)
    <2>1. PICK c \in Calls : c.op = "D" /\ (Refused(p) \/
                (Begins(p, c, "unlink") /\ alone' = Alone(p, c.key, TRUE)))
      BY <1>5 DEF property_delete
    <2> QED
      BY <1>1, <1>2, <1>5, <2>1 DEF property_delete
  <1>6. CASE property_list_binary(p)
    <2>1. PICK c \in Calls : c.op = "L" /\ Begins(p, c, "opendir") /\ alone' = alone
      BY <1>6 DEF property_list_binary
    <2> QED
      BY <1>2, <1>6, <2>1 DEF property_list_binary
  <1> QED
    BY <1>3, <1>4, <1>5, <1>6 DEF Begin

\* The open of a set empties a file nobody else has to himself.
LEMMA OpenStep ==
    ASSUME FileInv, FileTypeInv, NEW p \in Procs, kvdb_file_set_open(p)
    PROVE  FileInv'
  <1>1. pc[p] = "open" /\ call[p].op = "S" /\ name[p] \in Keys
    BY DEF kvdb_file_set_open, FileTypeInv, CallOK
  <1>2. CASE Returns(p, "err", truth[name[p]]) /\ UNCHANGED fileVars
    <2>1. \A k \in Keys : Content(k)' = Content(k)
      BY <1>2 DEF Content
    <2>2. \A k \in Keys : k = name[p] /\ alone[p] /\ truth[name[p]] # Unknown
                => Content(k)' = truth[name[p]]
      BY <1>1, <2>1, Untouched
    <2>3. DirOK'
      BY <1>2 DEF FileInv, DirOK, Returns, FileTypeInv, TypeOK
    <2>4. \A q \in Procs \ {p} :
            pc[q] = "write" /\ alone[q] => dir'[name[q]] = fd[q] /\ data'[fd[q]] = <<>>
      BY <1>2 DEF FileInv, Emptied
    <2> QED
      BY <1>1, <1>2, <2>1, <2>2, <2>3, <2>4, ReturnStep
  <1>3. ASSUME NEW i \in Inodes, Opens(p, i), dir' = [dir EXCEPT ![name[p]] = i],
               Truncated(i), fd' = [fd EXCEPT ![p] = i], pc' = [pc EXCEPT ![p] = "write"],
               UNCHANGED <<call, name, nbytes, alone, truth>>
        PROVE  FileInv'
    <2>1. ASSUME NEW q \in Procs, q # p
          PROVE  pc'[q] = pc[q] /\ fd'[q] = fd[q]
      BY <1>3, <2>1 DEF FileTypeInv, TypeOK
    <2>2. pc'[p] = "write" /\ fd'[p] = i /\ dir'[name[p]] = i /\ data'[i] = <<>>
      BY <1>1, <1>3 DEF FileTypeInv, TypeOK, Truncated
    <2>3. ASSUME NEW k \in Keys, k # name[p]
          PROVE  dir'[k] = dir[k] /\ dir[k] # i
      BY <1>1, <1>3, <2>3, NamesAssumption
         DEF FileTypeInv, TypeOK, FileInv, DirOK, Opens, Free
    <2>4. \A j \in Inodes : j # i => data'[j] = data[j]
      BY <1>3 DEF Truncated, FileTypeInv, TypeOK
    <2>5. \A q \in Procs, k \in Keys : Changes(q, k)' <=> Changes(q, k)
      BY <1>1, <1>3, <2>1, <2>2 DEF Changes
    <2>6. WriteOnce'
      BY <1>1, <1>3, <2>1 DEF FileInv, WriteOnce, FileTypeInv, FdOK
    <2>7. DirOK'
      <3>1. ASSUME NEW q \in Procs, NEW k \in Keys, pc'[q] = "write", dir'[k] = fd'[q]
            PROVE  k = name'[q]
        <4>1. CASE q = p
          BY <1>3, <2>2, <2>3, <3>1, <4>1
        <4>2. CASE q # p /\ k # name[p]
          BY <1>3, <2>1, <2>3, <3>1, <4>2 DEF FileInv, DirOK
        <4>3. CASE q # p /\ k = name[p]
          <5>1. fd[q] = i /\ pc[q] = "write"
            BY <2>1, <2>2, <3>1, <4>3
          <5>2. dir[k] = i
            BY <1>3, <4>3, <5>1 DEF Opens, Free
          <5> QED
            BY <1>3, <5>1, <5>2 DEF FileInv, DirOK
        <4> QED
          BY <4>1, <4>2, <4>3
      <3>2. \A k, l \in Keys : dir'[k] = dir'[l] /\ dir'[k] # NoInode => k = l
        BY <1>1, <2>2, <2>3 DEF FileInv, DirOK
      <3> QED
        BY <3>1, <3>2 DEF DirOK
    <2>8. AloneOK'
      BY <1>3, <2>5 DEF FileInv, AloneOK
    <2>9. Emptied'
      <3> SUFFICES ASSUME NEW q \in Procs, q # p, pc[q] = "write", alone[q]
                   PROVE  dir'[name[q]] = fd[q] /\ data'[fd[q]] = <<>>
        BY <1>3, <2>1, <2>2 DEF Emptied
      <3>1. name[q] \in Keys /\ call[q].op = "S" /\ fd[q] \in Inodes
        BY DEF FileTypeInv, CallOK, FdOK, TypeOK
      <3>2. name[q] # name[p]
        BY <1>1, <3>1 DEF FileInv, AloneOK, Changes
      <3> QED
        BY <2>2, <2>3, <2>4, <3>1, <3>2 DEF FileInv, Emptied
    <2>10. Settled'
      <3> SUFFICES ASSUME NEW k \in Keys, truth[k] # Unknown,
                          \A q \in Procs : Changes(q, k)' => alone'[q] /\ pc'[q] # "write"
                   PROVE  Content(k)' = truth[k]
        BY <1>3 DEF Settled
      <3>1. k # name[p]
        BY <1>1, <2>2, <2>5 DEF Changes
      <3>2. \A q \in Procs : Changes(q, k) => alone[q] /\ pc[q] # "write"
        BY <1>3, <2>1, <2>5, <3>1 DEF Changes
      <3>3. Content(k)' = Content(k)
        BY <2>3, <2>4, <3>1 DEF Content, FileTypeInv, TypeOK
      <3> QED
        BY <3>2, <3>3 DEF FileInv, Settled
    <2> QED
      BY <2>6, <2>7, <2>8, <2>9, <2>10 DEF FileInv
  <1> QED
    BY <1>2, <1>3 DEF kvdb_file_set_open

\* The one write of a set.
LEMMA WriteStep ==
    ASSUME ShortWrites = FALSE, FileInv, FileTypeInv, NEW p \in Procs, kvdb_file_set_write(p)
    PROVE  FileInv'
  <1>1. /\ pc[p] = "write" /\ call[p].op = "S" /\ name[p] \in Keys /\ call[p] \in Calls
        /\ fd[p] \in Inodes /\ nbytes[p] = 0
    BY DEF kvdb_file_set_write, FileTypeInv, CallOK, FdOK, TypeOK, FileInv, WriteOnce
  <1> DEFINE val == call[p].val
  <1>2. val \in Seq(Bytes) /\ val \in Vals
    BY <1>1, CallsAssumption, FileAssumption
  <1>3. Transfers(Len(val), ShortWrites) = {Len(val)}
    BY <1>2 DEF Transfers
  <1>4. /\ data' = [data EXCEPT ![fd[p]] = WriteAt(@, 0, SubSeq(val, 1, Len(val)))]
        /\ Returns(p, "ok", val) /\ dir' = dir
    <2>1. PICK n \in Transfers(Len(val), ShortWrites) :
            /\ data' = [data EXCEPT ![fd[p]] = WriteAt(@, nbytes[p], SubSeq(val, 1, n))]
            /\ nbytes[p] + n < Len(val) \/ Returns(p, "ok", val)
      BY DEF kvdb_file_set_write
    <2>2. n = Len(val) /\ Len(val) \in Nat
      BY <1>2, <1>3, <2>1
    <2>3. ~(nbytes[p] + n < Len(val))
      BY <1>1, <2>2
    <2> QED
      BY <1>1, <2>1, <2>2, <2>3 DEF kvdb_file_set_write
  <1>5. \A j \in Inodes : j # fd[p] => data'[j] = data[j]
    BY <1>4 DEF FileTypeInv, TypeOK
  <1>6. DirOK'
    BY <1>4 DEF FileInv, DirOK, Returns, FileTypeInv, TypeOK
  <1>7. ASSUME NEW k \in Keys, k # name[p]
        PROVE  Content(k)' = Content(k)
    BY <1>1, <1>4, <1>5, <1>7 DEF FileInv, DirOK, Content, FileTypeInv, TypeOK
  <1>8. ASSUME NEW k \in Keys, k = name[p], alone[p]
        PROVE  Content(k)' = val
    <2>1. dir[k] = fd[p] /\ data[fd[p]] = <<>>
      BY <1>1, <1>8 DEF FileInv, Emptied
    <2>2. data'[fd[p]] = WriteAt(<<>>, 0, SubSeq(val, 1, Len(val)))
      BY <1>1, <1>4, <2>1 DEF FileTypeInv, TypeOK
    <2> QED
      BY <1>1, <1>2, <1>4, <2>1, <2>2, WriteAtEmpty, NamesAssumption DEF Content
  <1>9. ASSUME NEW q \in Procs \ {p}, pc[q] = "write", alone[q]
        PROVE  dir'[name[q]] = fd[q] /\ data'[fd[q]] = <<>>
    <2>1. dir[name[q]] = fd[q] /\ data[fd[q]] = <<>> /\ name[q] \in Keys /\ call[q].op = "S"
            /\ fd[q] \in Inodes
      BY <1>9 DEF FileInv, Emptied, FileTypeInv, CallOK, FdOK, TypeOK
    <2>2. name[q] # name[p]
      BY <1>1, <1>9, <2>1 DEF FileInv, AloneOK, Changes
    <2>3. fd[q] # fd[p]
      BY <1>1, <2>1, <2>2 DEF FileInv, DirOK
    <2> QED
      BY <1>4, <1>5, <2>1, <2>3
  <1> HIDE DEF val
  <1> QED
    BY <1>1, <1>4, <1>6, <1>7, <1>8, <1>9, ReturnStep

\* The failure of a write leaves something, and the history says so.
LEMMA WriteErrorStep ==
    ASSUME FileInv, FileTypeInv, NEW p \in Procs, kvdb_file_set_error(p)
    PROVE  FileInv'
  <1>1. /\ pc[p] = "write" /\ call[p].op = "S" /\ name[p] \in Keys
        /\ Returns(p, "err", Unknown) /\ dir' = dir /\ data' = data
    BY DEF kvdb_file_set_error, WriteErrorReturns, FileTypeInv, CallOK
  <1>2. \A k \in Keys : Content(k)' = Content(k)
    BY <1>1 DEF Content
  <1>3. DirOK'
    BY <1>1 DEF FileInv, DirOK, Returns, FileTypeInv, TypeOK
  <1>4. \A q \in Procs \ {p} :
            pc[q] = "write" /\ alone[q] => dir'[name[q]] = fd[q] /\ data'[fd[q]] = <<>>
    BY <1>1 DEF FileInv, Emptied
  <1> QED
    BY <1>1, <1>2, <1>3, <1>4, ReturnStep

\* A delete takes the name from a file nobody else is changing, or the
\* history says so.
LEMMA DeleteStep ==
    ASSUME FileInv, FileTypeInv, NEW p \in Procs, kvdb_file_delete(p)
    PROVE  FileInv'
  <1>1. pc[p] = "unlink" /\ call[p].op = "D" /\ name[p] \in Keys /\ data' = data
    BY DEF kvdb_file_delete, FileTypeInv, CallOK
  <1>2. ASSUME NEW q \in Procs \ {p}, pc[q] = "write", alone[q]
        PROVE  /\ name[q] \in Keys /\ name[q] # name[p]
               /\ dir[name[q]] = fd[q] /\ data[fd[q]] = <<>>
    <2>1. name[q] \in Keys /\ call[q].op = "S"
      BY <1>2 DEF FileTypeInv, CallOK
    <2> QED
      BY <1>1, <1>2, <2>1 DEF FileInv, AloneOK, Changes, Emptied
  <1>3. CASE Returns(p, "ok", Absent) /\ dir' = [dir EXCEPT ![name[p]] = NoInode]
    <2>1. dir'[name[p]] = NoInode /\ \A k \in Keys : k # name[p] => dir'[k] = dir[k]
      BY <1>1, <1>3 DEF FileTypeInv, TypeOK
    <2>2. \A k \in Keys : k # name[p] => Content(k)' = Content(k)
      BY <1>1, <2>1 DEF Content
    <2>3. \A k \in Keys : k = name[p] => Content(k)' = Absent
      BY <2>1 DEF Content
    <2>4. DirOK'
      BY <1>1, <1>3, <2>1 DEF FileInv, DirOK, Returns, FileTypeInv, FdOK, TypeOK
    <2>5. \A q \in Procs \ {p} :
            pc[q] = "write" /\ alone[q] => dir'[name[q]] = fd[q] /\ data'[fd[q]] = <<>>
      BY <1>1, <1>2, <2>1
    <2> QED
      BY <1>1, <1>3, <2>2, <2>3, <2>4, <2>5, ReturnStep
  <1>4. CASE Returns(p, "err", truth[name[p]]) /\ dir' = dir
    <2>1. \A k \in Keys : Content(k)' = Content(k)
      BY <1>1, <1>4 DEF Content
    <2>2. \A k \in Keys : k = name[p] /\ alone[p] /\ truth[name[p]] # Unknown
                => Content(k)' = truth[name[p]]
      BY <1>1, <2>1, Untouched
    <2>3. DirOK'
      BY <1>4 DEF FileInv, DirOK, Returns, FileTypeInv, TypeOK
    <2>4. \A q \in Procs \ {p} :
            pc[q] = "write" /\ alone[q] => dir'[name[q]] = fd[q] /\ data'[fd[q]] = <<>>
      BY <1>1, <1>2, <1>4
    <2> QED
      BY <1>1, <1>4, <2>1, <2>2, <2>3, <2>4, ReturnStep
  <1> QED
    BY <1>3, <1>4 DEF kvdb_file_delete

\* A get or list that returns leaves the files and the history alone.
LEMMA ReaderReturns ==
    ASSUME FileInv, FileTypeInv, NEW p \in Procs, pc[p] \notin {"idle", "write"},
           call[p].op \notin {"S", "D"}, NEW result, NEW stored, Returns(p, result, stored),
           UNCHANGED fileVars
    PROVE  FileInv'
  BY QuietStep DEF Returns, FileTypeInv, TypeOK

\* The steps of a get and of a list.
LEMMA ReadStep ==
    ASSUME FileInv, FileTypeInv, NEW p \in Procs,
           \/ kvdb_file_get_open(p) \/ kvdb_file_get_read(p) \/ kvdb_file_get_error(p)
           \/ kvdb_file_list_opendir(p) \/ kvdb_file_list_readdir(p) \/ kvdb_file_list_end(p)
    PROVE  FileInv'
  <1>1. /\ pc[p] \in {"open", "read", "opendir", "readdir"} /\ call[p].op \notin {"S", "D"}
        /\ UNCHANGED fileVars
    BY DEF kvdb_file_get_open, kvdb_file_get_read, kvdb_file_get_error, kvdb_file_list_opendir,
           kvdb_file_list_readdir, kvdb_file_list_end, FileTypeInv, CallOK
  <1>2. ASSUME NEW result, NEW stored, Returns(p, result, stored)
        PROVE  FileInv'
    BY <1>1, <1>2, ReaderReturns
  <1> DEFINE Frame == \A q \in Procs : q # p =>
                        /\ pc'[q] = pc[q] /\ call'[q] = call[q] /\ name'[q] = name[q]
                        /\ fd'[q] = fd[q] /\ nbytes'[q] = nbytes[q] /\ alone'[q] = alone[q]
  <1>3. ASSUME Frame, truth' = truth, call' = call, pc'[p] # "write"
        PROVE  FileInv'
    BY <1>1, <1>3, QuietStep
  <1>4. CASE kvdb_file_get_open(p)
    <2>1. CASE fd' = [fd EXCEPT ![p] = dir[name[p]]] /\ pc' = [pc EXCEPT ![p] = "read"]
                 /\ UNCHANGED <<call, name, nbytes, histVars>>
      BY <1>3, <2>1 DEF FileTypeInv, TypeOK
    <2> QED
      BY <1>2, <1>4, <2>1 DEF kvdb_file_get_open
  <1>5. CASE kvdb_file_get_read(p)
    <2>1. ASSUME NEW n, nbytes' = [nbytes EXCEPT ![p] = n],
                 UNCHANGED <<pc, call, name, fd, histVars>>
          PROVE  FileInv'
      BY <1>1, <1>3, <2>1 DEF FileTypeInv, TypeOK
    <2>2. CASE /\ pc' = [pc EXCEPT ![p] = "readdir"] /\ fd' = [fd EXCEPT ![p] = NoInode]
               /\ nbytes' = [nbytes EXCEPT ![p] = 0] /\ name' = [name EXCEPT ![p] = NoKey]
               /\ alone' = [alone EXCEPT ![p] = TRUE] /\ UNCHANGED <<call, truth>>
      BY <1>3, <2>2 DEF FileTypeInv, TypeOK
    <2> QED
      BY <1>2, <1>5, <2>1, <2>2 DEF kvdb_file_get_read, GetDone
  <1>6. CASE kvdb_file_get_error(p)
    BY <1>2, <1>6 DEF kvdb_file_get_error
  <1>7. CASE kvdb_file_list_opendir(p)
    <2>1. CASE pc' = [pc EXCEPT ![p] = "readdir"]
                 /\ UNCHANGED <<call, name, fd, nbytes, histVars>>
      BY <1>3, <2>1 DEF FileTypeInv, TypeOK
    <2> QED
      BY <1>2, <1>7, <2>1 DEF kvdb_file_list_opendir
  <1>8. CASE kvdb_file_list_readdir(p)
    <2>1. PICK k \in Entries(p) :
            name' = [name EXCEPT ![p] = k] /\ alone' = Alone(p, k, FALSE)
      BY <1>8 DEF kvdb_file_list_readdir
    <2>2. \A q \in Procs : q # p => alone'[q] = alone[q]
      BY <2>1 DEF Alone, FileTypeInv, TypeOK
    <2>3. pc' = [pc EXCEPT ![p] = "open"] /\ UNCHANGED <<call, fd, nbytes, truth>>
      BY <1>8 DEF kvdb_file_list_readdir
    <2> QED
      BY <1>3, <2>1, <2>2, <2>3 DEF FileTypeInv, TypeOK
  <1>9. CASE kvdb_file_list_end(p)
    <2>1. CASE pc' = [pc EXCEPT ![p] = "opendir"]
                 /\ UNCHANGED <<call, name, fd, nbytes, histVars>>
      BY <1>3, <2>1 DEF FileTypeInv, TypeOK
    <2> QED
      BY <1>2, <1>9, <2>1 DEF kvdb_file_list_end
  <1> QED
    BY <1>4, <1>5, <1>6, <1>7, <1>8, <1>9

\* The power fails: nothing is being changed any more.
LEMMA PowerStep ==
    ASSUME FileInv, PowerCycle
    PROVE  FileInv'
  <1>1. \A p \in Procs : pc'[p] = "idle" /\ \A k \in Keys : ~Changes(p, k)'
    BY DEF PowerCycle, Changes
  <1>2. WriteOnce' /\ AloneOK' /\ Emptied'
    BY <1>1 DEF WriteOnce, AloneOK, Emptied
  <1>3. DirOK'
    BY <1>1 DEF FileInv, DirOK, PowerCycle
  <1>4. Settled'
    <2> SUFFICES ASSUME NEW k \in Keys, truth'[k] # Unknown
                 PROVE  Content(k)' = truth'[k]
      BY DEF Settled
    <2>1. CASE kvdb_get_index(k) # "KVDB_PERSIST"
      BY <2>1 DEF PowerCycle, Content
    <2>2. CASE kvdb_get_index(k) = "KVDB_PERSIST"
      <3>1. truth'[k] = truth[k] /\ Changing(k) = {} /\ Content(k)' = Content(k)
        BY <2>2 DEF PowerCycle, Content
      <3>2. \A p \in Procs : ~Changes(p, k)
        BY <3>1 DEF Changing, Changes
      <3> QED
        BY <3>1, <3>2 DEF FileInv, Settled
    <2> QED
      BY <2>1, <2>2
  <1> QED
    BY <1>2, <1>3, <1>4 DEF FileInv

LEMMA FileInvInit == Init => FileInv
  BY DEF Init, FileInv, WriteOnce, DirOK, AloneOK, Changes, Emptied, Settled, Content

LEMMA FileInvStep ==
    ASSUME ShortWrites = FALSE, FileTypeInv, FileInv, [Next]_vars
    PROVE  FileInv'
  <1>1. CASE UNCHANGED vars
    BY <1>1 DEF vars, FileInv, WriteOnce, DirOK, AloneOK, Changes, Emptied, Settled, Content
  <1>2. ASSUME NEW p \in Procs, Works(p)
        PROVE  FileInv'
    BY <1>2, OpenStep, WriteStep, WriteErrorStep, DeleteStep, ReadStep DEF Works, Proceeds
  <1> QED
    BY <1>1, <1>2, BeginStep, PowerStep DEF Next

\* As long as write takes all it is given, what the calls that had a key to
\* themselves say is stored is stored, whatever the others are doing, which
\* system calls fail and when the power goes.
THEOREM SetStores == ASSUME ShortWrites = FALSE PROVE Spec => []StoredValue
  <1>1. Init => FileInv
    BY FileInvInit
  <1>2. FileTypeInv /\ FileInv /\ [Next]_vars => FileInv'
    BY FileInvStep
  <1>3. FileInv => StoredValue
    <2> SUFFICES ASSUME FileInv, NEW k \in Keys, truth[k] # Unknown, Changing(k) = {}
                 PROVE  Content(k) = truth[k]
      BY DEF StoredValue
    <2>1. \A p \in Procs : ~Changes(p, k)
      BY DEF Changing, Changes
    <2> QED
      BY <2>1 DEF FileInv, Settled
  <1>4. Spec => []FileTypeInv
    BY FileTypes
  <1> QED
    BY <1>1, <1>2, <1>3, <1>4, PTL DEF Spec

-----------------------------------------------------------------------------
(* What is read *)

\* A call that reads the value of a key: a get, or a list at one of its
\* entries.
Reads(p) == pc[p] \in {"open", "read"} /\ call[p].op \notin {"S", "D"}

\* Nobody changes the key of a reader that is alone.
Undisturbed ==
    \A p, q \in Procs, k \in Keys : Reads(p) /\ alone[p] /\ name[p] = k => ~Changes(q, k)

\* Its file is still the key's, and what it has read is the start of it.
ReadSoFar ==
    \A p \in Procs : pc[p] = "read" /\ alone[p] =>
        /\ dir[name[p]] = fd[p]
        /\ nbytes[p] <= Len(data[fd[p]])
        /\ buf[p] = SubSeq(data[fd[p]], 1, nbytes[p])

\* No value that fills the buffer is stored.
Fits ==
    /\ \A k \in Keys : truth[k] \notin LongVals
    /\ \A p \in Procs : pc[p] # "idle" /\ call[p].op = "S" => call[p].val \notin LongVals

\* A call that is under way has not returned.
Pending == \A p \in Procs : pc[p] # "idle" => ret[p] = "none"

ReadInv == Undisturbed /\ ReadSoFar /\ Fits /\ Pending

\* The file of a reader that is alone is left alone.
LEMMA ReaderFile ==
    ASSUME FileTypeInv, FileInv, ReadInv, NEW p \in Procs, pc[p] = "read", alone[p],
           NEW q \in Procs, Works(q)
    PROVE  dir'[name[p]] = dir[name[p]] /\ data'[fd[p]] = data[fd[p]]
  <1>1. /\ name[p] \in Keys /\ fd[p] \in Inodes /\ dir[name[p]] = fd[p]
        /\ ~Changes(q, name[p])
    BY DEF FileTypeInv, TypeOK, CallOK, FdOK, ReadInv, ReadSoFar, Undisturbed, Reads
  <1>2. CASE UNCHANGED <<dir, data>>
    BY <1>2
  <1>3. CASE kvdb_file_set_open(q)
    <2>1. pc[q] = "open" /\ call[q].op = "S" /\ name[q] \in Keys /\ name[q] # name[p]
      BY <1>1, <1>3 DEF kvdb_file_set_open, FileTypeInv, CallOK, Changes
    <2>2. ASSUME NEW i \in Inodes, Opens(q, i), dir' = [dir EXCEPT ![name[q]] = i], Truncated(i)
          PROVE  dir'[name[p]] = dir[name[p]] /\ data'[fd[p]] = data[fd[p]]
      <3>1. i # fd[p]
        BY <1>1, <2>1, <2>2 DEF Opens, Free, FileInv, DirOK
      <3> QED
        BY <1>1, <2>1, <2>2, <3>1 DEF Truncated, FileTypeInv, TypeOK
    <2> QED
      BY <1>2, <1>3, <2>2 DEF kvdb_file_set_open
  <1>4. CASE kvdb_file_set_write(q)
    <2>1. pc[q] = "write" /\ call[q].op = "S" /\ name[q] \in Keys /\ name[q] # name[p]
      BY <1>1, <1>4 DEF kvdb_file_set_write, FileTypeInv, CallOK, Changes
    <2>2. fd[q] # fd[p]
      BY <1>1, <2>1 DEF FileInv, DirOK
    <2> QED
      BY <1>1, <1>4, <2>2 DEF kvdb_file_set_write, FileTypeInv, TypeOK
  <1>5. CASE kvdb_file_delete(q)
    <2>1. pc[q] = "unlink" /\ call[q].op = "D" /\ name[q] \in Keys /\ name[q] # name[p]
      BY <1>1, <1>5 DEF kvdb_file_delete, FileTypeInv, CallOK, Changes
    <2> QED
      BY <1>1, <1>5, <2>1 DEF kvdb_file_delete, FileTypeInv, TypeOK
  <1> QED
    BY <1>2, <1>3, <1>4, <1>5
       DEF Works, Proceeds, kvdb_file_set_error, kvdb_file_get_open, kvdb_file_get_read,
           kvdb_file_get_error, kvdb_file_list_opendir, kvdb_file_list_readdir,
           kvdb_file_list_end

\* A step of one process leaves the others where they are.
LEMMA OthersStay ==
    ASSUME FileTypeInv, NEW p \in Procs, Begin(p) \/ Works(p), NEW q \in Procs, q # p
    PROVE  /\ pc'[q] = pc[q] /\ call'[q] = call[q] /\ name'[q] = name[q] /\ fd'[q] = fd[q]
           /\ nbytes'[q] = nbytes[q] /\ buf'[q] = buf[q] /\ ret'[q] = ret[q]
           /\ alone'[q] => alone[q]
  <1> USE DEF FileTypeInv, TypeOK
  <1>1. CASE Begin(p)
    BY <1>1 DEF Begin, property_set_binary, property_get_binary, property_delete,
                property_list_binary, Begins, Refused, Alone
  <1>2. CASE kvdb_file_set_open(p) \/ kvdb_file_set_write(p) \/ kvdb_file_set_error(p)
    BY <1>2 DEF kvdb_file_set_open, kvdb_file_set_write, kvdb_file_set_error,
                WriteErrorReturns, Returns
  <1>3. CASE kvdb_file_get_open(p) \/ kvdb_file_get_read(p) \/ kvdb_file_get_error(p)
    BY <1>3 DEF kvdb_file_get_open, kvdb_file_get_read, kvdb_file_get_error, GetDone, Returns
  <1>4. CASE kvdb_file_delete(p) \/ kvdb_file_list_opendir(p) \/ kvdb_file_list_readdir(p)
             \/ kvdb_file_list_end(p)
    BY <1>4 DEF kvdb_file_delete, kvdb_file_list_opendir, kvdb_file_list_readdir,
                kvdb_file_list_end, Alone, Returns
  <1> QED
    BY <1>1, <1>2, <1>3, <1>4 DEF Works, Proceeds

\* A call that has begun changes no other key, and reads the same one or the
\* next entry of a list.
LEMMA SameKey ==
    ASSUME FileTypeInv, NEW p \in Procs, Works(p)
    PROVE  /\ \A k : Changes(p, k)' => Changes(p, k)
           /\ \/ pc'[p] = "idle" \/ call'[p] = call[p]
           /\ \/ ~Reads(p)'
              \/ Reads(p) /\ name'[p] = name[p] /\ (alone'[p] => alone[p])
              \/ \E k \in Keys : name'[p] = k /\ pc'[p] = "open" /\ alone'[p] = (Changing(k) \ {p} = {})
  <1> USE DEF FileTypeInv, TypeOK, CallOK, Changes, Reads
  <1>1. ASSUME NEW result, NEW stored, Returns(p, result, stored)
        PROVE  pc'[p] = "idle"
    BY <1>1 DEF Returns
  <1>2. CASE pc'[p] = "idle"
    BY <1>2
  <1>3. CASE kvdb_file_set_open(p) \/ kvdb_file_set_write(p) \/ kvdb_file_set_error(p)
    BY <1>1, <1>2, <1>3 DEF kvdb_file_set_open, kvdb_file_set_write, kvdb_file_set_error,
                WriteErrorReturns
  <1>4. CASE kvdb_file_get_open(p)
    BY <1>1, <1>2, <1>4 DEF kvdb_file_get_open
  <1>5. CASE kvdb_file_get_read(p) \/ kvdb_file_get_error(p)
    BY <1>1, <1>2, <1>5 DEF kvdb_file_get_read, kvdb_file_get_error, GetDone
  <1>6. CASE kvdb_file_delete(p)
    BY <1>1, <1>2, <1>6 DEF kvdb_file_delete
  <1>7. CASE kvdb_file_list_opendir(p) \/ kvdb_file_list_end(p)
    BY <1>1, <1>2, <1>7 DEF kvdb_file_list_opendir, kvdb_file_list_end
  <1>8. CASE kvdb_file_list_readdir(p)
    <2>1. PICK k \in Keys : name' = [name EXCEPT ![p] = k] /\ alone' = Alone(p, k, FALSE)
      BY <1>8 DEF kvdb_file_list_readdir, Entries
    <2>2. alone'[p] = (Changing(k) \ {p} = {}) /\ name'[p] = k
      BY <2>1 DEF Alone
    <2> QED
      BY <1>8, <2>2 DEF kvdb_file_list_readdir
  <1> QED
    BY <1>3, <1>4, <1>5, <1>6, <1>7, <1>8 DEF Works, Proceeds

LEMMA UndisturbedStep ==
    ASSUME FileTypeInv, ReadInv, NEW p \in Procs, Begin(p) \/ Works(p)
    PROVE  Undisturbed'
  <1> SUFFICES ASSUME NEW q \in Procs, NEW r \in Procs, NEW k \in Keys,
                      Reads(q)', alone'[q], name'[q] = k, Changes(r, k)'
               PROVE  FALSE
    BY DEF Undisturbed
  <1>1. ASSUME NEW s \in Procs, s # p
        PROVE  (Reads(s)' <=> Reads(s)) /\ (Changes(s, k)' <=> Changes(s, k))
               /\ name'[s] = name[s] /\ (alone'[s] => alone[s])
    BY <1>1, OthersStay DEF Reads, Changes
  <1>2. q # r
    BY DEF Reads, Changes
  <1>3. CASE Works(p)
    <2>1. Changes(r, k)
      BY <1>1, <1>3, SameKey
    <2>2. ~(Reads(q) /\ alone[q] /\ name[q] = k)
      BY <2>1 DEF ReadInv, Undisturbed
    <2>3. q = p
      BY <1>1, <2>2
    <2>4. alone'[q] = (Changing(k) \ {p} = {})
      BY <1>3, <2>2, <2>3, SameKey
    <2> QED
      BY <1>2, <2>1, <2>3, <2>4 DEF Changing, Changes
  <1>4. CASE Begin(p)
    <2>0. CASE Refused(p)
      BY <2>0 DEF Refused, ReadInv, Undisturbed, Reads, Changes
    <2>1. ASSUME NEW c \in Calls, NEW at, Begins(p, c, at), pc[p] = "idle",
                 c.op \in {"S", "D"} => alone' = Alone(p, c.key, TRUE),
                 c.op = "G" => alone' = Alone(p, c.key, FALSE),
                 c.op = "L" => at = "opendir"
          PROVE  FALSE
      <3>1. pc'[p] = at /\ call'[p] = c /\ name'[p] = c.key
        BY <2>1 DEF FileTypeInv, TypeOK, Begins
      <3>2. c.op \in {"S", "G", "D", "L"}
        BY CallsAssumption DEF CallRecords
      <3>3. CASE q = p
        <4>1. c.op = "G" /\ c.key = k
          BY <2>1, <3>1, <3>2, <3>3 DEF Reads
        <4>2. Changing(k) \ {p} = {}
          BY <2>1, <3>3, <4>1 DEF Alone
        <4> QED
          BY <1>1, <1>2, <3>3, <4>2 DEF Changing, Changes
      <3>4. CASE r = p
        <4>1. c.op \in {"S", "D"} /\ c.key = k
          BY <3>1, <3>4 DEF Changes
        <4>2. q # p /\ pc[q] # "idle" /\ name[q] = k
          BY <1>1, <1>2, <3>4 DEF Reads
        <4> QED
          BY <2>1, <4>1, <4>2 DEF Alone
      <3>5. CASE q # p /\ r # p
        BY <1>1, <3>5 DEF ReadInv, Undisturbed
      <3> QED
        BY <3>3, <3>4, <3>5
    <2>2. CASE property_set_binary(p)
      <3>1. PICK c \in Calls : c.op = "S" /\ (Refused(p) \/
                (Begins(p, c, "open") /\ alone' = Alone(p, c.key, TRUE)))
        BY <2>2 DEF property_set_binary
      <3> QED
        BY <2>0, <2>1, <2>2, <3>1 DEF property_set_binary
    <2>3. CASE property_get_binary(p)
      <3>1. PICK c \in Calls : c.op = "G" /\ (Refused(p) \/
                (Begins(p, c, "open") /\ alone' = Alone(p, c.key, FALSE)))
        BY <2>3 DEF property_get_binary
      <3> QED
        BY <2>0, <2>1, <2>3, <3>1 DEF property_get_binary
    <2>4. CASE property_delete(p)
      <3>1. PICK c \in Calls : c.op = "D" /\ (Refused(p) \/
                (Begins(p, c, "unlink") /\ alone' = Alone(p, c.key, TRUE)))
        BY <2>4 DEF property_delete
      <3> QED
        BY <2>0, <2>1, <2>4, <3>1 DEF property_delete
    <2>5. CASE property_list_binary(p)
      BY <2>1, <2>5 DEF property_list_binary
    <2> QED
      BY <1>4, <2>2, <2>3, <2>4, <2>5 DEF Begin
  <1> QED
    BY <1>3, <1>4

\* Two pieces of a file that follow each other.
LEMMA Pieces ==
    ASSUME NEW s \in Seq(Bytes), NEW m \in Nat, NEW n \in Nat, m + n <= Len(s)
    PROVE  SubSeq(s, 1, m) \o SubSeq(s, m + 1, m + n) = SubSeq(s, 1, m + n)
  OBVIOUS

\* What one read transfers.
LEMMA ReadTransfers ==
    ASSUME FileTypeInv, NEW p \in Procs, pc[p] = "read", nbytes[p] <= Len(data[fd[p]]),
           NEW n \in Transfers(Readable(p), ShortReads)
    PROVE  /\ n \in Nat /\ nbytes[p] + n <= Len(data[fd[p]])
           /\ n = 0 => nbytes[p] = Len(data[fd[p]]) \/ nbytes[p] >= PROP_VALUE_MAX
           /\ n > 0 => nbytes[p] + n <= PROP_VALUE_MAX
  <1>1. fd[p] \in Inodes /\ data[fd[p]] \in Seq(Bytes) /\ nbytes[p] \in Nat
        /\ Len(data[fd[p]]) \in Nat
    BY DEF FileTypeInv, TypeOK, FdOK
  <1> QED
    BY <1>1, FileAssumption DEF Transfers, Readable

LEMMA ReadSoFarStep ==
    ASSUME FileTypeInv, FileInv, ReadInv, NEW p \in Procs, Begin(p) \/ Works(p)
    PROVE  ReadSoFar'
  <1> SUFFICES ASSUME NEW q \in Procs, pc'[q] = "read", alone'[q]
               PROVE  /\ dir'[name'[q]] = fd'[q]
                      /\ nbytes'[q] <= Len(data'[fd'[q]])
                      /\ buf'[q] = SubSeq(data'[fd'[q]], 1, nbytes'[q])
    BY DEF ReadSoFar
  <1>1. CASE q # p
    <2>1. /\ pc[q] = "read" /\ alone[q] /\ name'[q] = name[q] /\ fd'[q] = fd[q]
          /\ nbytes'[q] = nbytes[q] /\ buf'[q] = buf[q]
      BY <1>1, OthersStay
    <2>2. Begin(p) => UNCHANGED <<dir, data>>
      BY DEF Begin, property_set_binary, property_get_binary, property_delete,
             property_list_binary, Begins, Refused
    <2>3. dir'[name[q]] = dir[name[q]] /\ data'[fd[q]] = data[fd[q]]
      BY <2>1, <2>2, ReaderFile
    <2> QED
      BY <2>1, <2>3 DEF ReadInv, ReadSoFar
  <1>2. CASE q = p
    <2>1. ~Begin(p)
      BY <1>2 DEF Begin, property_set_binary, property_get_binary, property_delete,
             property_list_binary, Begins, Refused, FileTypeInv, TypeOK
    <2>2. kvdb_file_get_open(p) \/ kvdb_file_get_read(p)
      BY <1>2, <2>1
         DEF Works, Proceeds, kvdb_file_set_open, kvdb_file_set_write, kvdb_file_set_error,
             WriteErrorReturns, kvdb_file_get_error, kvdb_file_delete, kvdb_file_list_opendir,
             kvdb_file_list_readdir, kvdb_file_list_end, Returns, FileTypeInv, TypeOK
    <2>3. CASE kvdb_file_get_open(p)
      <3>1. ~Returns(p, "err", Unknown)
        BY <1>2 DEF Returns, FileTypeInv, TypeOK
      <3>2. /\ dir[name[p]] # NoInode /\ fd' = [fd EXCEPT ![p] = dir[name[p]]]
            /\ buf' = [buf EXCEPT ![p] = <<>>] /\ UNCHANGED <<name, nbytes, dir, data>>
            /\ pc[p] = "open"
        BY <2>3, <3>1 DEF kvdb_file_get_open
      <3>3. /\ fd'[p] = dir[name[p]] /\ buf'[p] = <<>> /\ nbytes'[p] = 0
            /\ name[p] \in Keys /\ dir[name[p]] \in Inodes
        BY <3>2 DEF FileTypeInv, TypeOK, FdOK, CallOK
      <3>4. data[dir[name[p]]] \in Seq(Bytes)
        BY <3>3 DEF FileTypeInv, TypeOK
      <3>5. SubSeq(data[dir[name[p]]], 1, 0) = <<>> /\ 0 <= Len(data[dir[name[p]]])
        BY <3>4
      <3> QED
        BY <1>2, <3>2, <3>3, <3>5
    <2>4. CASE kvdb_file_get_read(p)
      <3>1. ~GetDone(p)
        BY <1>2 DEF GetDone, Returns, FileTypeInv, TypeOK
      <3>2. PICK n \in Transfers(Readable(p), ShortReads) :
                /\ buf' = [buf EXCEPT ![p] = ReadInto(p, n)]
                /\ nbytes' = [nbytes EXCEPT ![p] = @ + n]
                /\ UNCHANGED <<pc, name, fd, alone, dir, data>>
        BY <2>4, <3>1 DEF kvdb_file_get_read
      <3>3. /\ pc[p] = "read" /\ alone[p] /\ dir[name[p]] = fd[p]
            /\ nbytes[p] <= Len(data[fd[p]]) /\ buf[p] = SubSeq(data[fd[p]], 1, nbytes[p])
        BY <1>2, <3>2 DEF ReadInv, ReadSoFar
      <3>4. n \in Nat /\ nbytes[p] + n <= Len(data[fd[p]])
        BY <3>3, ReadTransfers
      <3>5. fd[p] \in Inodes /\ data[fd[p]] \in Seq(Bytes) /\ nbytes[p] \in Nat
        BY <3>3 DEF FileTypeInv, TypeOK, FdOK
      <3>6. buf'[p] = SubSeq(data[fd[p]], 1, nbytes[p] + n)
        <4>1. buf'[p] = ReadInto(p, n)
          BY <3>2 DEF FileTypeInv, TypeOK
        <4> QED
          BY ZenonT(30), <3>3, <3>4, <3>5, <4>1, Pieces DEF ReadInto
      <3>7. nbytes'[p] = nbytes[p] + n
        BY <3>2 DEF FileTypeInv, TypeOK
      <3> QED
        BY <1>2, <3>2, <3>3, <3>4, <3>6, <3>7
    <2> QED
      BY <2>2, <2>3, <2>4
  <1> QED
    BY <1>1, <1>2

LEMMA FitsStep ==
    ASSUME FileTypeInv, ReadInv, NEW p \in Procs, Begin(p) \/ Works(p)
    PROVE  Fits'
  <1>1. Unknown \notin LongVals /\ Absent \notin LongVals
    BY FileAssumption, NamesAssumption
  <1>2. ASSUME NEW result, NEW stored, Returns(p, result, stored), stored \notin LongVals
        PROVE  Fits'
    <2>1. \A k \in Keys : truth'[k] \in {truth[k], stored, Unknown}
      BY <1>2 DEF Returns, FileTypeInv, TypeOK
    <2>2. \A q \in Procs : pc'[q] # "idle" => pc[q] # "idle" /\ call'[q] = call[q]
      BY <1>2 DEF Returns, FileTypeInv, TypeOK
    <2> QED
      BY <1>1, <1>2, <2>1, <2>2 DEF ReadInv, Fits
  <1>3. CASE Works(p)
    <2>1. CASE truth' = truth /\ call' = call /\ (pc[p] # "idle" \/ pc'[p] = pc[p])
      <3>1. \A q \in Procs : pc'[q] # "idle" => pc[q] # "idle"
        BY <1>3, <2>1, OthersStay
      <3> QED
        BY <2>1, <3>1 DEF ReadInv, Fits
    <2>2. CASE kvdb_file_set_open(p)
      <3>1. truth[name[p]] \notin LongVals
        BY <2>2 DEF kvdb_file_set_open, FileTypeInv, CallOK, ReadInv, Fits
      <3> QED
        BY <1>2, <2>1, <2>2, <3>1 DEF kvdb_file_set_open
    <2>3. CASE kvdb_file_set_write(p)
      <3>1. call[p].val \notin LongVals
        BY <2>3 DEF kvdb_file_set_write, FileTypeInv, CallOK, ReadInv, Fits
      <3> QED
        BY <1>2, <2>1, <2>3, <3>1 DEF kvdb_file_set_write
    <2>4. CASE kvdb_file_set_error(p) \/ kvdb_file_get_error(p)
      BY <1>1, <1>2, <2>4 DEF kvdb_file_set_error, WriteErrorReturns, kvdb_file_get_error
    <2>5. CASE kvdb_file_get_open(p)
      BY <1>1, <1>2, <2>1, <2>5 DEF kvdb_file_get_open
    <2>6. CASE kvdb_file_get_read(p)
      BY <1>1, <1>2, <2>1, <2>6 DEF kvdb_file_get_read, GetDone
    <2>7. CASE kvdb_file_delete(p)
      <3>1. truth[name[p]] \notin LongVals
        BY <2>7 DEF kvdb_file_delete, FileTypeInv, CallOK, ReadInv, Fits
      <3> QED
        BY <1>1, <1>2, <2>7, <3>1 DEF kvdb_file_delete
    <2>8. CASE kvdb_file_list_opendir(p) \/ kvdb_file_list_readdir(p) \/ kvdb_file_list_end(p)
      BY <1>1, <1>2, <2>1, <2>8
         DEF kvdb_file_list_opendir, kvdb_file_list_readdir, kvdb_file_list_end
    <2> QED
      BY <1>3, <2>2, <2>3, <2>4, <2>5, <2>6, <2>7, <2>8 DEF Works, Proceeds
  <1>4. CASE Begin(p)
    <2>1. truth' = truth
      BY <1>4 DEF Begin, property_set_binary, property_get_binary, property_delete,
             property_list_binary, Begins, Refused
    <2>2. pc'[p] # "idle" /\ call'[p].op = "S" => call'[p].val \notin LongVals
      BY <1>4 DEF Begin, property_set_binary, property_get_binary, property_delete,
             property_list_binary, Begins, Refused, Acceptable, file_kvdb_set, FileTypeInv, TypeOK
    <2>3. \A q \in Procs \ {p} : pc'[q] = pc[q] /\ call'[q] = call[q]
      BY <1>4, OthersStay
    <2> QED
      BY <2>1, <2>2, <2>3 DEF ReadInv, Fits
  <1> QED
    BY <1>3, <1>4

LEMMA PendingStep ==
    ASSUME FileTypeInv, ReadInv, NEW p \in Procs, Begin(p) \/ Works(p)
    PROVE  Pending'
  <1>1. pc'[p] # "idle" => ret'[p] = "none"
    <2>1. CASE Begin(p)
      BY <2>1 DEF Begin, property_set_binary, property_get_binary, property_delete,
             property_list_binary, Begins, Refused, FileTypeInv, TypeOK
    <2>2. CASE Works(p) /\ pc[p] # "idle"
      <3>1. ret' = ret \/ pc'[p] = "idle"
        BY <2>2
           DEF Works, Proceeds, kvdb_file_set_open, kvdb_file_set_write, kvdb_file_set_error,
               WriteErrorReturns, kvdb_file_get_open, kvdb_file_get_read, GetDone,
               kvdb_file_get_error, kvdb_file_delete, kvdb_file_list_opendir,
               kvdb_file_list_readdir, kvdb_file_list_end, Returns, FileTypeInv, TypeOK
      <3> QED
        BY <2>2, <3>1 DEF ReadInv, Pending
    <2>3. Works(p) => pc[p] # "idle"
      BY DEF Works, Proceeds, kvdb_file_set_open, kvdb_file_set_write, kvdb_file_set_error,
             kvdb_file_get_open, kvdb_file_get_read, kvdb_file_get_error, kvdb_file_delete,
             kvdb_file_list_opendir, kvdb_file_list_readdir, kvdb_file_list_end
    <2> QED
      BY <2>1, <2>2, <2>3
  <1> QED
    BY <1>1, OthersStay DEF ReadInv, Pending

LEMMA ReadInvStep ==
    ASSUME FileTypeInv, FileInv, ReadInv, [Next]_vars
    PROVE  ReadInv'
  <1>1. CASE PowerCycle
    <2>1. \A p \in Procs : pc'[p] = "idle"
      BY <1>1 DEF PowerCycle
    <2>2. \A k \in Keys : truth'[k] \in {truth[k], Absent, Unknown}
      BY <1>1 DEF PowerCycle
    <2>3. Absent \notin LongVals /\ Unknown \notin LongVals
      BY FileAssumption, NamesAssumption
    <2> QED
      BY <2>1, <2>2, <2>3 DEF ReadInv, Undisturbed, Reads, ReadSoFar, Fits, Pending
  <1>2. CASE UNCHANGED vars
    BY <1>2 DEF vars, ReadInv, Undisturbed, Reads, Changes, ReadSoFar, Fits, Pending
  <1>3. ASSUME NEW p \in Procs, Begin(p) \/ Works(p)
        PROVE  ReadInv'
    BY <1>3, UndisturbedStep, ReadSoFarStep, FitsStep, PendingStep DEF ReadInv
  <1> QED
    BY <1>1, <1>2, <1>3 DEF Next

\* The last read of a value.
LEMMA ReadWholeStep ==
    ASSUME FileTypeInv, FileInv, ReadInv, [Next]_vars, NEW p \in Procs, pc[p] = "read",
           pc'[p] = "readdir" \/ ret'[p] = "ok", alone[p], truth[name[p]] # Unknown
    PROVE  buf'[p] = truth[name[p]]
  <1> DEFINE s == data[fd[p]]
  <1>1. /\ fd[p] \in Inodes /\ s \in Seq(Bytes) /\ nbytes[p] \in Nat /\ name[p] \in Keys
        /\ ret[p] = "none"
    BY DEF FileTypeInv, TypeOK, FdOK, CallOK, ReadInv, Pending
  <1>2. nbytes[p] <= Len(s) /\ buf[p] = SubSeq(s, 1, nbytes[p]) /\ dir[name[p]] = fd[p]
    BY DEF ReadInv, ReadSoFar
  <1>3. s = truth[name[p]]
    <2>1. \A q \in Procs : ~Changes(q, name[p])
      BY <1>1 DEF ReadInv, Undisturbed, Reads, FileTypeInv, CallOK
    <2>2. Content(name[p]) = truth[name[p]]
      BY <1>1, <2>1 DEF FileInv, Settled
    <2> QED
      BY <1>1, <1>2, <2>2, NamesAssumption DEF Content
  <1>4. Len(s) \in Nat /\ Len(s) < PROP_VALUE_MAX
    <2>1. s \in Vals /\ s \notin LongVals
      BY <1>1, <1>3, NamesAssumption DEF FileTypeInv, TypeOK, ReadInv, Fits
    <2> QED
      BY <1>1, <2>1, FileAssumption
  <1>5. kvdb_file_get_read(p) /\ pc'[p] # "read"
    <2>1. ~PowerCycle /\ ~(UNCHANGED vars)
      BY <1>1 DEF PowerCycle, vars
    <2>2. PICK q \in Procs : Begin(q) \/ Works(q)
      BY <2>1 DEF Next
    <2>3. q = p
      BY <1>1, <2>2, OthersStay
    <2>4. ~Begin(p)
      BY DEF Begin, property_set_binary, property_get_binary, property_delete,
             property_list_binary
    <2>5. ~kvdb_file_get_error(p)
      BY DEF kvdb_file_get_error, Returns, FileTypeInv, TypeOK
    <2>6. kvdb_file_get_read(p)
      BY <2>2, <2>3, <2>4, <2>5
         DEF Works, Proceeds, kvdb_file_set_open, kvdb_file_set_write, kvdb_file_set_error,
             kvdb_file_get_open, kvdb_file_delete, kvdb_file_list_opendir,
             kvdb_file_list_readdir, kvdb_file_list_end
    <2> QED
      BY <1>1, <2>6 DEF kvdb_file_get_read, GetDone, Returns, FileTypeInv, TypeOK
  <1>6. PICK n \in Transfers(Readable(p), ShortReads) :
            buf' = [buf EXCEPT ![p] = ReadInto(p, n)] /\ ~ReadGoesOn(p, n)
    BY <1>5 DEF kvdb_file_get_read
  <1>7. /\ n \in Nat /\ nbytes[p] + n <= Len(s)
        /\ n = 0 => nbytes[p] = Len(s) \/ nbytes[p] >= PROP_VALUE_MAX
    BY <1>2, ReadTransfers
  <1>8. nbytes[p] + n = Len(s)
    BY <1>1, <1>2, <1>4, <1>6, <1>7, FileAssumption DEF ReadGoesOn
  <1>9. buf'[p] = ReadInto(p, n)
    BY <1>6 DEF FileTypeInv, TypeOK
  <1>10. ReadInto(p, n) = SubSeq(s, 1, Len(s))
    BY ZenonT(30), <1>1, <1>2, <1>7, <1>8, Pieces DEF ReadInto
  <1>11. SubSeq(s, 1, Len(s)) = s
    BY <1>1
  <1> QED
    BY <1>3, <1>9, <1>10, <1>11

\* As long as write takes all it is given, a get or an entry of a list that
\* nobody disturbs gives the whole value that is stored, however the kernel
\* cuts the reads up and whatever happens to the other keys.
THEOREM ReadsAreWhole == ASSUME ShortWrites = FALSE PROVE Spec => ReadWhole
  <1>1. Init => FileInv /\ ReadInv
    <2>1. Init => ReadInv
      BY FileAssumption, NamesAssumption
         DEF Init, ReadInv, Undisturbed, Reads, ReadSoFar, Fits, Pending
    <2> QED
      BY <2>1, FileInvInit
  <1>2. FileTypeInv /\ FileInv /\ ReadInv /\ [Next]_vars => FileInv' /\ ReadInv'
    BY FileInvStep, ReadInvStep
  <1>3. FileTypeInv /\ FileInv /\ ReadInv /\ [Next]_vars =>
          [\A p \in Procs :
            /\ pc[p] = "read" /\ (pc'[p] = "readdir" \/ ret'[p] = "ok")
            /\ alone[p] /\ truth[name[p]] # Unknown
            => buf'[p] = truth[name[p]]]_vars
    BY ReadWholeStep
  <1>4. Spec => []FileTypeInv
    BY FileTypes
  <1> QED
    BY <1>1, <1>2, <1>3, <1>4, PTL DEF Spec, ReadWhole

=============================================================================
