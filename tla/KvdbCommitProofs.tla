-------------------------- MODULE KvdbCommitProofs --------------------------
(***************************************************************************)
(* Proofs about when and how changes reach the disk (KvdbServer): every    *)
(* change is scheduled for a commit, a deadline once set is not moved,     *)
(* read-only keys keep their value, a commit that is reported is one, and  *)
(* the persistent keys behave like the abstract store KvdbStore.           *)
(***************************************************************************)
EXTENDS KvdbServerProofs

USE DEF storeVars, timeVars, workVars, loadVars, monVars, cliVars

-----------------------------------------------------------------------------
(* CommitScheduled.  Its induction needs to know that a backend without a    *)
(* commit never has two images, that dirty is only up while a request is     *)
(* being answered (or an earlier change would be forgotten when the next     *)
(* request overwrites it), and that kvdb_load has not changed anything       *)
(* before it opens its first file (it can return there without a commit).    *)

CommitInv ==
    /\ Backend # "unqlite" => cache = disk
    /\ dirty => pc = "reply"
    /\ cache # disk => next # 0 \/ dirty \/ (pc = "load" /\ ~(lf = 1 /\ li = 0))

\* A commit that does not fail puts the whole store on the disk.
LEMMA CommitSaves ==
    ASSUME NEW db \in Image, NEW dsk \in Image, Backend # "unqlite" => db = dsk
    PROVE  kvdb_commit(db, dsk, {}) = db
  BY DEF Image, kvdb_commit

LEMMA CommitInvStep ==
    ASSUME IoMayFail = FALSE, TypeInv, CommitInv, [Next]_vars
    PROVE  CommitInv'
  <1>1. \A failed \in CommitFailures : failed = {}
    BY DEF CommitFailures
  <1>2. kvdb_commit(cache, disk, {}) = cache
    BY CommitSaves DEF TypeInv, TypeOK, CommitInv
  <1>3. CASE kvdb_bind
    BY <1>3 DEF kvdb_bind, CommitInv
  <1>4. CASE kvdb_init
    BY <1>4 DEF kvdb_init, kvdb_unbind, CommitInv
  <1>5. CASE kvdb_load_open
    BY <1>5 DEF kvdb_load_open, CommitInv, TypeInv, TypeOK
  <1>6. CASE kvdb_load_line
    BY <1>6 DEF kvdb_load_line, DiskWritten, CommitInv, TypeInv, TypeOK
  <1>7. CASE kvdb_load_close
    BY <1>7 DEF kvdb_load_close, CommitInv, TypeInv, TypeOK
  <1>8. CASE kvdb_load_return
    BY <1>1, <1>2, <1>8 DEF kvdb_load_return, LoadDone, CommitInv
  <1>9. CASE kvdb_loop_start
    BY <1>2, <1>9 DEF kvdb_loop_start, CommitInv
  <1>10. CASE kvdb_loop_top
    BY <1>1, <1>2, <1>10 DEF kvdb_loop_top, CommitInv
  <1>11. CASE epoll_wait \/ epoll_timeout
    BY <1>11 DEF epoll_wait, epoll_timeout, CommitInv
  <1>12. ASSUME NEW l \in Listeners, kvdb_accept(l) \/ kvdb_accept_fail(l)
         PROVE  CommitInv'
    BY <1>12 DEF kvdb_accept, kvdb_accept_fail, CommitInv
  <1>13. ASSUME NEW s \in Slots, kvdb_monitor_close(s) \/ kvdb_monitor_close_freed(s)
         PROVE  CommitInv'
    BY <1>13 DEF kvdb_monitor_close, kvdb_monitor_close_freed, CommitInv
  <1>14. CASE kvdb_client_fail
    BY <1>14 DEF kvdb_client_fail, Handled, CommitInv
  <1>15. ASSUME pc = "recv", NEW k, NEW v, NEW accepted, Modify(k, v, accepted)
         PROVE  CommitInv'
    BY <1>15 DEF Modify, Change, Handled, DiskWritten, CommitInv
  <1>16. CASE kvdb_client_set \/ kvdb_client_delete
    BY <1>15, <1>16 DEF kvdb_client_set, kvdb_client_delete, Serves
  <1>17. CASE kvdb_client_get \/ kvdb_client_list
    BY <1>17 DEF kvdb_client_get, kvdb_client_list, Serves, Handled, CommitInv
  <1>18. CASE kvdb_client_commit
    BY <1>1, <1>2, <1>18 DEF kvdb_client_commit, Serves, Handled, CommitInv
  <1>19. CASE kvdb_client_reload
    BY <1>19 DEF kvdb_client_reload, Serves, CommitInv
  <1>20. CASE kvdb_client_monitor
    <2>1. /\ pc = "recv" /\ pc' = "batch" /\ UNCHANGED <<cache, disk, next, dirty>>
      BY <1>20 DEF kvdb_client_monitor, Serves
    <2> QED
      BY <2>1 DEF CommitInv
  <1>21. ASSUME NEW s \in Slots, kvdb_monitor_notify(s)
         PROVE  CommitInv'
    BY <1>21 DEF kvdb_monitor_notify, CommitInv
  <1>22. ASSUME NEW k \in Keys, kvdb_list_consume(k)
         PROVE  CommitInv'
    BY <1>22 DEF kvdb_list_consume, CommitInv
  <1>23. CASE kvdb_client_out
    <2>1. dirty => next' # 0
      BY <1>23, ConfigAssumption
         DEF kvdb_client_out, NextDeadline, Deadline, TypeInv, TypeOK
    <2>2. next # 0 => next' # 0
      BY <1>23 DEF kvdb_client_out, NextDeadline
    <2> QED
      BY <1>23, <2>1, <2>2 DEF kvdb_client_out, CommitInv
  <1>24. ASSUME NEW c \in Conns, Client(c)
         PROVE  CommitInv'
    BY <1>24 DEF Client, property_connect, property_send, property_recv,
                 property_monitor_read, property_eof, property_close, CommitInv
  <1>25. CASE Tick
    BY <1>25 DEF Tick, CommitInv
  <1>26. CASE PowerCycle
    BY <1>26 DEF PowerCycle, CommitInv
  <1>27. CASE UNCHANGED vars
    BY <1>27 DEF vars, CommitInv
  <1> QED
    BY <1>3, <1>4, <1>5, <1>6, <1>7, <1>8, <1>9, <1>10, <1>11, <1>12, <1>13, <1>14,
       <1>16, <1>17, <1>18, <1>19, <1>20, <1>21, <1>22, <1>23, <1>24, <1>25, <1>26,
       <1>27
    DEF Next, Daemon, kvdb_load, kvdb_loop, kvdb_client

\* While the storage does not fail, no change of kvdbd's store is ever left
\* without a commit to come: not by the requests that interleave with it, by
\* a reload, by a failed allocation or by a deadline that comes out as 0.
THEOREM CommitIsScheduled ==
    ASSUME IoMayFail = FALSE
    PROVE  Spec => []CommitScheduled
  <1>1. Init => TypeInv /\ CommitInv
    BY InitTypes DEF Init, CommitInv
  <1>2. TypeInv /\ CommitInv /\ [Next]_vars => (TypeInv /\ CommitInv)'
    BY StepTypes, CommitInvStep
  <1>3. CommitInv => CommitScheduled
    BY DEF CommitInv, CommitScheduled
  <1> QED
    BY <1>1, <1>2, <1>3, PTL DEF Spec

-----------------------------------------------------------------------------
(* The deadline.  Three actions touch it. *)

LEMMA DeadlineStep ==
    ASSUME [Next]_vars
    PROVE  next # 0 /\ next' # next => (Expired /\ next' = 0) \/ pc' = "off"
  <1>1. CASE kvdb_loop_top
    BY <1>1 DEF kvdb_loop_top
  <1>2. CASE kvdb_client_out
    BY <1>2 DEF kvdb_client_out, NextDeadline
  <1>3. CASE PowerCycle
    BY <1>3 DEF PowerCycle
  <1>4. CASE kvdb_bind \/ kvdb_init \/ kvdb_load
    BY <1>4 DEF kvdb_bind, kvdb_init, kvdb_load, kvdb_load_open, kvdb_load_line,
                kvdb_load_close, kvdb_load_return
  <1>5. ASSUME kvdb_loop, ~kvdb_loop_top
        PROVE  next' = next
    BY <1>5 DEF kvdb_loop, kvdb_loop_start, epoll_wait, epoll_timeout, kvdb_accept,
                kvdb_accept_fail, kvdb_monitor_close, kvdb_monitor_close_freed
  <1>6. ASSUME kvdb_client, ~kvdb_client_out
        PROVE  next' = next
    BY <1>6 DEF kvdb_client, kvdb_client_fail, kvdb_client_set, kvdb_client_delete,
                kvdb_client_get, kvdb_client_list, kvdb_client_commit, kvdb_client_reload,
                kvdb_client_monitor, kvdb_monitor_notify, kvdb_list_consume, Modify, Handled
  <1>7. ASSUME NEW c \in Conns, Client(c)
        PROVE  next' = next
    BY <1>7 DEF Client, property_connect, property_send, property_recv,
                property_monitor_read, property_eof, property_close
  <1>8. CASE Tick
    BY <1>8 DEF Tick
  <1>9. CASE UNCHANGED vars
    BY <1>9 DEF vars
  <1> QED
    BY <1>1, <1>2, <1>3, <1>4, <1>5, <1>6, <1>7, <1>8, <1>9 DEF Next, Daemon

\* A stream of changes cannot put off the commit of the first of them:
\* nothing but its own expiry (and the loss of power) takes a deadline away.
THEOREM DeadlineIsKept == Spec => DeadlineNeverSlides
  <1>1. [Next]_vars => [next # 0 /\ next' # next => (Expired /\ next' = 0) \/ pc' = "off"]_vars
    BY DeadlineStep
  <1> QED
    BY <1>1, PTL DEF Spec, DeadlineNeverSlides

-----------------------------------------------------------------------------
(* Which actions touch the two images. *)

LEMMA ImagesKept ==
    ASSUME [Next]_vars,
           ~kvdb_load_line, ~kvdb_load_return, ~kvdb_loop_start, ~kvdb_loop_top,
           ~kvdb_client_set, ~kvdb_client_delete, ~kvdb_client_commit, ~PowerCycle
    PROVE  cache' = cache /\ disk' = disk
  <1>1. CASE kvdb_bind \/ kvdb_init \/ kvdb_load
    BY <1>1 DEF kvdb_bind, kvdb_init, kvdb_load, kvdb_load_open, kvdb_load_close
  <1>2. CASE kvdb_loop
    BY <1>2 DEF kvdb_loop, epoll_wait, epoll_timeout, kvdb_accept, kvdb_accept_fail,
                kvdb_monitor_close, kvdb_monitor_close_freed
  <1>3. CASE kvdb_client
    BY <1>3 DEF kvdb_client, kvdb_client_fail, kvdb_client_get, kvdb_client_list,
                kvdb_client_reload, kvdb_client_monitor, kvdb_monitor_notify,
                kvdb_list_consume, kvdb_client_out
  <1>4. CASE \E c \in Conns : Client(c)
    BY <1>4 DEF Client, property_connect, property_send, property_recv,
                property_monitor_read, property_eof, property_close
  <1>5. CASE Tick
    BY <1>5 DEF Tick
  <1>6. CASE UNCHANGED vars
    BY <1>6 DEF vars
  <1> QED
    BY <1>1, <1>2, <1>3, <1>4, <1>5, <1>6 DEF Next, Daemon

\* What a set or a delete does to the images.
LEMMA ModifyImages ==
    ASSUME NEW k, NEW v, NEW accepted \in BOOLEAN, Modify(k, v, accepted)
    PROVE  \/ cache' = cache /\ disk' = disk
           \/ /\ accepted
              /\ cache' = Written(cache, k, v)
              /\ disk' = DiskWritten(disk, k, v)
  <1>1. PICK ok \in Outcomes(accepted) :
            IF ok THEN Change(k, v) ELSE UNCHANGED <<storeVars, workVars>>
    BY DEF Modify
  <1>2. ok \in BOOLEAN /\ (ok => accepted)
    BY DEF Outcomes
  <1>3. CASE ok
    BY <1>1, <1>2, <1>3 DEF Change
  <1>4. CASE ~ok
    BY <1>1, <1>4
  <1> QED
    BY <1>2, <1>3, <1>4

-----------------------------------------------------------------------------
(* Read-only keys. *)

\* A line of kvdb_load changes a key that has a value only if it is forced.
LEMMA ReadOnlyLine ==
    ASSUME Backend = "unqlite", FetchMayFail = FALSE, TypeInv, kvdb_load_line, NEW k \in Keys,
           cache[k] # Absent, cache'[k] # cache[k]
    PROVE  Reloads(k, cache'[k])
  <1> DEFINE k0 == Source[lf][li][1]
             v0 == Source[lf][li][2]
             ok == ~SkipsLine(cache, k0) /\ kvdb_set(cache, k0, v0, TRUE)
  <1>1. k0 \in Keys /\ v0 \in Vals /\ Source[lf][li] = <<k0, v0>>
    BY LineTypes DEF kvdb_load_line
  <1>2. Fetched(cache, k0) = {cache}
    BY DEF Fetched
  <1>3. cache' = IF ok THEN Written(cache, k0, v0) ELSE cache
    BY <1>2 DEF kvdb_load_line, Outcomes
  <1>4. ok /\ k0 = k /\ cache'[k] = v0
    BY <1>1, <1>3 DEF Written, TypeInv, TypeOK, Image
  <1>5. kvdb_get(cache, k, FALSE) # Absent
    BY <1>4 DEF kvdb_set, unqlite_kvdb_set, kvdb_get, unqlite_kvdb_get
  <1>6. Forced
    BY <1>4, <1>5 DEF SkipsLine
  <1> QED
    BY <1>1, <1>4, <1>6 DEF Reloads, kvdb_load_line

LEMMA ReadOnlyStep ==
    ASSUME Backend = "unqlite", FetchMayFail = FALSE, TypeInv, [Next]_vars, NEW k \in RoKeys,
           cache[k] # Absent, cache'[k] # cache[k]
    PROVE  pc' = "off" \/ Reloads(k, cache'[k])
  <1> SUFFICES ASSUME ~Reloads(k, cache'[k]), pc' # "off"
               PROVE  FALSE
    OBVIOUS
  <1>0. ~kvdb_load_line
    BY ReadOnlyLine, KeysAssumption
  <1>1. ~kvdb_load_return /\ ~PowerCycle
    BY DEF kvdb_load_return, PowerCycle
  <1>2. ~kvdb_loop_start /\ ~kvdb_loop_top /\ ~kvdb_client_commit
    BY DEF kvdb_loop_start, kvdb_loop_top, kvdb_client_commit
  <1>3. CASE kvdb_client_set
    <2> DEFINE r == req[cur]
               accepted == kvdb_set(cache, r.key, r.val, FALSE)
    <2>0. Fetched(cache, r.key) = {cache}
      BY DEF Fetched
    <2>1. accepted \in BOOLEAN /\ Modify(r.key, r.val, accepted)
      BY <1>3, <2>0, SetIsBoolean DEF kvdb_client_set
    <2>2. accepted /\ cache' = Written(cache, r.key, r.val)
      BY <2>1, ModifyImages
    <2>3. r.key = k
      BY <2>2 DEF Written, TypeInv, TypeOK, Image
    <2>4. unqlite_kvdb_set(cache, k, r.val, FALSE)
      BY <2>2, <2>3 DEF kvdb_set
    <2> QED
      BY <2>4 DEF unqlite_kvdb_set, kvdb_is_readonly
  <1>4. CASE kvdb_client_delete
    <2> DEFINE r == req[cur]
               accepted == kvdb_delete(cache, r.key)
    <2>1. accepted \in BOOLEAN
      BY DEF kvdb_delete, unqlite_kvdb_delete
    <2>2. Modify(r.key, Absent, accepted)
      BY <1>4 DEF kvdb_client_delete
    <2>3. accepted /\ cache' = Written(cache, r.key, Absent)
      BY <2>1, <2>2, ModifyImages
    <2>4. r.key = k
      BY <2>3 DEF Written, TypeInv, TypeOK, Image
    <2> QED
      BY <2>3, <2>4 DEF kvdb_delete, unqlite_kvdb_delete, kvdb_is_readonly
  <1> QED
    BY <1>0, <1>1, <1>2, <1>3, <1>4, ImagesKept

\* With UnQLite, and fetches that do not fail, a read-only key that has a
\* value keeps it: no sequence of sets and deletes changes it, nor does the
\* kvdb_load of a boot; the one of a reload gives it the value of its line.
THEOREM ReadOnlyIsKept ==
    ASSUME Backend = "unqlite", FetchMayFail = FALSE
    PROVE  Spec => ReadOnlyKept
  <1>1. Init => TypeInv
    BY InitTypes
  <1>2. TypeInv /\ [Next]_vars => TypeInv'
    BY StepTypes
  <1>3. TypeInv /\ [Next]_vars =>
          [\A k \in RoKeys :
             cache[k] # Absent /\ cache'[k] # cache[k] =>
                 pc' = "off" \/ Reloads(k, cache'[k])]_vars
    BY ReadOnlyStep
  <1> QED
    BY <1>1, <1>2, <1>3, PTL DEF Spec, ReadOnlyKept

-----------------------------------------------------------------------------
(* Commit requests.  Backends without a commit never have two images,        *)
(* whatever fails.                                                           *)

WriteThrough == Backend # "unqlite" => cache = disk

LEMMA WriteThroughStep ==
    ASSUME WriteThrough, [Next]_vars
    PROVE  WriteThrough'
  <1> SUFFICES ASSUME Backend # "unqlite", cache = disk
               PROVE  cache' = disk'
    BY DEF WriteThrough
  <1>1. CASE kvdb_load_line
    BY <1>1 DEF kvdb_load_line, DiskWritten
  <1>2. CASE kvdb_load_return \/ kvdb_loop_start \/ kvdb_loop_top \/ kvdb_client_commit
    BY <1>2 DEF kvdb_load_return, kvdb_loop_start, kvdb_loop_top, kvdb_client_commit,
                kvdb_commit
  <1>3. CASE kvdb_client_set \/ kvdb_client_delete
    <2>1. ASSUME NEW k, NEW v, NEW accepted, Modify(k, v, accepted)
          PROVE  cache' = disk'
      BY <2>1 DEF Modify, Change, DiskWritten
    <2> QED
      BY <1>3, <2>1 DEF kvdb_client_set, kvdb_client_delete
  <1>4. CASE PowerCycle
    BY <1>4 DEF PowerCycle
  <1> QED
    BY <1>1, <1>2, <1>3, <1>4, ImagesKept

LEMMA CommitAckedStep ==
    ASSUME TypeInv, WriteThrough, [Next]_vars, Serves("C"), pc' = "reply",
           reply' = Status(TRUE)
    PROVE  disk' = cache
  <1>1. kvdb_client_fail \/ kvdb_client_commit
    <2>1. ~(kvdb_bind \/ kvdb_init \/ kvdb_load)
      BY DEF kvdb_bind, kvdb_init, kvdb_load, kvdb_load_open, kvdb_load_line,
             kvdb_load_close, kvdb_load_return, LoadDone, Serves
    <2>2. ~kvdb_loop
      BY DEF kvdb_loop, kvdb_loop_start, kvdb_loop_top, epoll_wait, epoll_timeout,
             kvdb_accept, kvdb_accept_fail, kvdb_monitor_close, kvdb_monitor_close_freed,
             Serves
    <2>3. ~(\E c \in Conns : Client(c))
      BY DEF Client, property_connect, property_send, property_recv,
             property_monitor_read, property_eof, property_close, Serves
    <2>4. ~Tick /\ ~PowerCycle /\ ~(UNCHANGED vars)
      BY DEF Tick, PowerCycle, vars, Serves
    <2>5. kvdb_client
      BY <2>1, <2>2, <2>3, <2>4 DEF Next, Daemon
    <2> QED
      BY <2>5 DEF kvdb_client, kvdb_client_set, kvdb_client_delete, kvdb_client_get,
                  kvdb_client_list, kvdb_client_reload, kvdb_client_monitor,
                  kvdb_monitor_notify, kvdb_list_consume, kvdb_client_out, Serves
  <1>2. Status(TRUE) \in Messages
    BY MessageTypes
  <1>3. ~kvdb_client_fail
    BY <1>2, SocketsAssumption DEF kvdb_client_fail, Handled
  <1>4. PICK failed \in CommitFailures :
            disk' = kvdb_commit(cache, disk, failed)
              /\ reply' = Status(CommitReturnsOk(failed))
    BY <1>1, <1>3 DEF kvdb_client_commit, Handled
  <1>5. failed = {}
    BY <1>4 DEF Status, CommitReturnsOk
  <1> QED
    BY <1>4, <1>5, CommitSaves DEF WriteThrough, TypeInv, TypeOK

\* Whichever of the databases fail to commit, and whatever failed before,
\* kvdbd reports success to property_commit only when the whole store is on
\* the disk.
THEOREM CommitIsTrue == Spec => CommitAcked
  <1>1. Init => TypeInv /\ WriteThrough
    BY InitTypes DEF Init, WriteThrough
  <1>2. TypeInv /\ WriteThrough /\ [Next]_vars => (TypeInv /\ WriteThrough)'
    BY StepTypes, WriteThroughStep
  <1>3. TypeInv /\ WriteThrough /\ [Next]_vars =>
          [Serves("C") /\ pc' = "reply" /\ reply' = Status(TRUE) => disk' = cache]_vars
    BY CommitAckedStep
  <1> QED
    BY <1>1, <1>2, <1>3, PTL DEF Spec, CommitAcked

-----------------------------------------------------------------------------
(* The persistent keys implement KvdbStore. *)

\* The refinement mapping.
stored == [k \in PersistKeys |-> cache[k]]
onDisk == [k \in PersistKeys |-> disk[k]]

\* A step on the images that the abstract store allows.
StoreStep == [Store!Next]_<<stored, onDisk>>

\* A key given a value is a change of the store, or, if the key is not
\* persistent, nothing.
LEMMA WriteImplements ==
    ASSUME TypeOK, NEW k \in Keys, NEW v \in Vals \cup {Absent},
           cache' = Written(cache, k, v), disk' = DiskWritten(disk, k, v)
    PROVE  StoreStep
  <1>1. CASE k \notin PersistKeys
    <2>1. stored' = stored /\ onDisk' = onDisk
      BY <1>1, KeysAssumption
         DEF stored, onDisk, Written, DiskWritten, TypeOK, Image
    <2> QED
      BY <2>1 DEF StoreStep
  <1>2. CASE k \in PersistKeys
    <2>1. stored' = [stored EXCEPT ![k] = v]
      BY <1>2, KeysAssumption DEF stored, Written, TypeOK, Image
    <2>2. onDisk' = IF Backend # "unqlite" THEN [onDisk EXCEPT ![k] = v] ELSE onDisk
      BY <1>2, KeysAssumption DEF onDisk, Written, DiskWritten, TypeOK, Image
    <2>3. Store!Change
      BY <1>2, <2>1, <2>2 DEF Store!Change, stored, onDisk
    <2> QED
      BY <2>3 DEF StoreStep, Store!Next
  <1> QED
    BY <1>1, <1>2

\* A commit is a save of all persistent keys, or, if it fails for their
\* database or there is nothing to commit, nothing.
LEMMA CommitImplements ==
    ASSUME TypeOK, cache' = cache, NEW failed, disk' = kvdb_commit(cache, disk, failed)
    PROVE  StoreStep
  <1>1. stored' = stored
    BY DEF stored
  <1>2. CASE Backend # "unqlite" \/ "KVDB_PERSIST" \in failed
    <2>1. onDisk' = onDisk
      BY <1>2, KeysAssumption DEF onDisk, kvdb_commit, kvdb_get_index, TypeOK, Image
    <2> QED
      BY <1>1, <2>1 DEF StoreStep
  <1>3. CASE Backend = "unqlite" /\ "KVDB_PERSIST" \notin failed
    <2>1. onDisk' = stored
      BY <1>3, KeysAssumption DEF onDisk, stored, kvdb_commit, kvdb_get_index, TypeOK, Image
    <2> QED
      BY <1>1, <2>1 DEF StoreStep, Store!Next, Store!Save, stored, onDisk
  <1> QED
    BY <1>2, <1>3

\* The loss of power is a restart of the store.
LEMMA PowerImplements ==
    ASSUME TypeOK, PowerCycle
    PROVE  StoreStep
  <1>1. PICK reached : disk' = AfterPowerOff(TornCommit(cache, disk, reached))
    BY DEF PowerCycle
  <1>2. cache' = disk'
    BY DEF PowerCycle
  <1>3. \A k \in PersistKeys : disk'[k] \in {disk[k], cache[k]}
    BY <1>1, KeysAssumption DEF AfterPowerOff, TornCommit, kvdb_get_index
  <1>4. \A k \in PersistKeys : cache[k] \in Vals \cup {Absent} /\ disk[k] \in Vals \cup {Absent}
    BY KeysAssumption DEF TypeOK, Image
  <1>5. onDisk' \in [PersistKeys -> Vals \cup {Absent}]
    BY <1>3, <1>4 DEF onDisk
  <1>6. \A k \in PersistKeys : onDisk'[k] \in {onDisk[k], stored[k]}
    BY <1>3 DEF onDisk, stored
  <1>7. stored' = onDisk'
    BY <1>2 DEF stored, onDisk
  <1>8. Store!Restart
    BY <1>5, <1>6, <1>7 DEF Store!Restart, Store!Contents, stored, onDisk
  <1> QED
    BY <1>8 DEF StoreStep, Store!Next

LEMMA StepImplements ==
    ASSUME TypeInv, [Next]_vars
    PROVE  StoreStep
  <1> USE DEF TypeInv
  <1>1. CASE kvdb_load_line
    <2> DEFINE k == Source[lf][li][1]
               v == Source[lf][li][2]
    <2>1. k \in Keys /\ v \in Vals
      BY <1>1, LineTypes DEF kvdb_load_line
    <2>2. \/ cache' = cache /\ disk' = disk
          \/ cache' = Written(cache, k, v) /\ disk' = DiskWritten(disk, k, v)
      BY <1>1 DEF kvdb_load_line
    <2> HIDE DEF k, v
    <2>3. CASE cache' = cache /\ disk' = disk
      BY <2>3 DEF StoreStep, stored, onDisk
    <2> QED
      BY <2>1, <2>2, <2>3, WriteImplements
  <1>2. ASSUME NEW k \in Keys, NEW v \in Vals \cup {Absent}, NEW accepted \in BOOLEAN,
               Modify(k, v, accepted)
        PROVE  StoreStep
    <2>1. CASE cache' = cache /\ disk' = disk
      BY <2>1 DEF StoreStep, stored, onDisk
    <2> QED
      BY <1>2, <2>1, ModifyImages, WriteImplements
  <1>3. CASE kvdb_client_set
    <2>1. req[cur].key \in Keys /\ req[cur].val \in Vals \cup {Absent}
      BY <1>3, RequestTypes DEF kvdb_client_set, Ops
    <2> QED
      BY <1>2, <1>3, <2>1, SetIsBoolean DEF kvdb_client_set
  <1>4. CASE kvdb_client_delete
    <2>1. req[cur].key \in Keys
      BY <1>4, RequestTypes DEF kvdb_client_delete, Ops
    <2>2. kvdb_delete(cache, req[cur].key) \in BOOLEAN
      BY BackendAssumption
         DEF kvdb_delete, unqlite_kvdb_delete, nvs_kvdb_delete, file_kvdb_delete
    <2> QED
      BY <1>2, <1>4, <2>1, <2>2 DEF kvdb_client_delete
  <1>5. ASSUME cache' = cache, NEW failed, disk' \in {disk, kvdb_commit(cache, disk, failed)}
        PROVE  StoreStep
    <2>1. CASE disk' = disk
      BY <1>5, <2>1 DEF StoreStep, stored, onDisk
    <2> QED
      BY <1>5, <2>1, CommitImplements
  <1>6. CASE kvdb_load_return
    BY <1>5, <1>6 DEF kvdb_load_return
  <1>7. CASE kvdb_loop_start
    BY <1>5, <1>7 DEF kvdb_loop_start
  <1>8. CASE kvdb_loop_top
    BY <1>5, <1>8 DEF kvdb_loop_top
  <1>9. CASE kvdb_client_commit
    BY <1>5, <1>9 DEF kvdb_client_commit
  <1>10. CASE PowerCycle
    BY <1>10, PowerImplements
  <1>11. CASE cache' = cache /\ disk' = disk
    BY <1>11 DEF StoreStep, stored, onDisk
  <1> QED
    BY <1>1, <1>3, <1>4, <1>6, <1>7, <1>8, <1>9, <1>10, <1>11, ImagesKept

\* kvdbd keeps what KvdbStore promises of the persistent keys, for every
\* backend and whatever fails: what is on the disk came from the store, a
\* commit saves all of it or none, and the power brings back nothing else.
THEOREM DaemonImplementsStore == Spec => ImplementsStore
  <1>1. Init => TypeInv
    BY InitTypes
  <1>2. TypeInv /\ [Next]_vars => TypeInv'
    BY StepTypes
  <1>3. Init => Store!Init
    BY KeysAssumption DEF Init, Store!Init, EmptyImage
  <1>4. TypeInv /\ [Next]_vars =>
            [Store!Next]_<<[k \in PersistKeys |-> cache[k]], [k \in PersistKeys |-> disk[k]]>>
    BY StepImplements DEF StoreStep, stored, onDisk
  <1> QED
    BY <1>1, <1>2, <1>3, <1>4, PTL DEF Spec, ImplementsStore, Store!Spec

=============================================================================
