---------------------------- MODULE KvdbBackend ----------------------------
(***************************************************************************)
(* The storage backends of kvdb, behind the interface of kvdb/internal.h:  *)
(* kvdb_get_index, kvdb_set, kvdb_get, kvdb_delete and kvdb_commit.        *)
(*                                                                         *)
(* A backend keeps two images of the store.  The image every later read    *)
(* sees (the cache) and the one that is still there when the power comes   *)
(* back (the disk).  UnQLite buffers every change in its pager until       *)
(* unqlite_commit; the NVS and the file backend write through, and their   *)
(* kvdb_commit returns 0 without doing anything.                           *)
(*                                                                         *)
(* Keys and values are opaque.  What the code reads off a key is its       *)
(* prefix, here membership in PersistKeys ("persist.") or RoKeys ("ro.");  *)
(* what it reads off a value is whether it is PROP_VALUE_MAX bytes long    *)
(* or more (LongVals).  Error codes are not told apart: an operation       *)
(* either succeeds or fails.                                               *)
(***************************************************************************)
EXTENDS Naturals, Sequences, FiniteSets

CONSTANTS
    Keys,               \* the property names
    PersistKeys,        \* those that start with PERSIST_LABEL
    RoKeys,             \* those that start with "ro."
    Vals,               \* the property values
    LongVals,           \* those of PROP_VALUE_MAX bytes or more
    Absent,             \* "no such key" (not a value)
    Backend,            \* "unqlite", "nvs" or "file": the backend compiled in
    TEMPORARY_STORAGE   \* CONFIG_KVDB_TEMPORARY_STORAGE

ASSUME KeysAssumption ==
    /\ PersistKeys \subseteq Keys
    /\ RoKeys \subseteq Keys
    /\ PersistKeys \cap RoKeys = {}

ASSUME ValsAssumption ==
    /\ LongVals \subseteq Vals
    /\ Absent \notin Vals

ASSUME BackendAssumption ==
    /\ Backend \in {"unqlite", "nvs", "file"}
    /\ TEMPORARY_STORAGE \in BOOLEAN

\* The content of the store: a value, or none, for every key.
Image == [Keys -> Vals \cup {Absent}]

\* The databases of struct kvdb.
Databases == {"KVDB_PERSIST"} \cup (IF TEMPORARY_STORAGE THEN {"KVDB_MEM"} ELSE {})

\* The database a key belongs to, or an error when temporary storage is
\* not compiled in.
kvdb_get_index_swapped(k) ==
    IF k \notin PersistKeys THEN "KVDB_PERSIST"
    ELSE IF TEMPORARY_STORAGE THEN "KVDB_MEM" ELSE "EINVAL"
kvdb_get_index(k) ==
    IF k \in PersistKeys THEN "KVDB_PERSIST"
    ELSE IF TEMPORARY_STORAGE THEN "KVDB_MEM" ELSE "EINVAL"

-----------------------------------------------------------------------------
(* unqlite.c.  It alone knows read-only keys. *)

kvdb_is_readonly_none(k) == FALSE
kvdb_is_readonly(k) == k \in RoKeys

\* Does kvdb_set accept the pair?  A read-only key can be set once, unless
\* the caller forces it.
unqlite_kvdb_set(db, k, v, force) ==
    /\ v \notin LongVals
    /\ kvdb_get_index(k) \in Databases
    /\ ~force /\ kvdb_is_readonly(k) => db[k] = Absent

\* The value kvdb_get returns, with or without a buffer; Absent: it fails.
unqlite_kvdb_get_never(db, k) == Absent
unqlite_kvdb_get(db, k) == IF kvdb_get_index(k) \in Databases THEN db[k] ELSE Absent

\* Does kvdb_delete find and delete the key?
unqlite_kvdb_delete(db, k) ==
    /\ ~kvdb_is_readonly(k)
    /\ kvdb_get_index(k) \in Databases
    /\ db[k] # Absent

-----------------------------------------------------------------------------
(* nvs.c: the length of a value is left to the driver, which takes any. *)

nvs_kvdb_set(db, k, v, force) == kvdb_get_index(k) \in Databases

nvs_kvdb_get_never(db, k) == Absent
nvs_kvdb_get(db, k) == IF kvdb_get_index(k) \in Databases THEN db[k] ELSE Absent

nvs_kvdb_delete(db, k) == kvdb_get_index(k) \in Databases /\ db[k] # Absent

-----------------------------------------------------------------------------
(* file.c: one file for each key. *)

file_kvdb_set(db, k, v, force) == kvdb_get_index(k) \in Databases /\ v \notin LongVals

\* kvdb_get rejects a NULL buffer before it looks for the key.
file_kvdb_get(db, k, buffer) ==
    IF buffer /\ kvdb_get_index(k) \in Databases THEN db[k] ELSE Absent

\* unlink fails when there is no such file.
file_kvdb_delete(db, k) == kvdb_get_index(k) \in Databases /\ db[k] # Absent

-----------------------------------------------------------------------------
(* The interface of internal.h, for the backend compiled in *)

kvdb_set(db, k, v, force) ==
    CASE Backend = "unqlite" -> unqlite_kvdb_set(db, k, v, force)
      [] Backend = "nvs"     -> nvs_kvdb_set(db, k, v, force)
      [] Backend = "file"    -> file_kvdb_set(db, k, v, force)

\* buffer: does the caller give kvdb_get a buffer for the value?
kvdb_get(db, k, buffer) ==
    CASE Backend = "unqlite" -> unqlite_kvdb_get(db, k)
      [] Backend = "nvs"     -> nvs_kvdb_get(db, k)
      [] Backend = "file"    -> file_kvdb_get(db, k, buffer)

kvdb_delete(db, k) ==
    CASE Backend = "unqlite" -> unqlite_kvdb_delete(db, k)
      [] Backend = "nvs"     -> nvs_kvdb_delete(db, k)
      [] Backend = "file"    -> file_kvdb_delete(db, k)

\* The keys kvdb_list passes to its callback.
kvdb_list(db) == {k \in Keys : db[k] # Absent}

\* Can kvdb_init fail?  There is nothing to open for the file backend.
kvdb_init_can_fail == Backend # "file"

\* An image after key k was given value v (Absent: deleted).
Written(img, k, v) == [img EXCEPT ![k] = v]

\* The disk after kvdb_set or kvdb_delete changed key k: NVS and file write
\* through, UnQLite leaves the file alone.
DiskWritten(dsk, k, v) == IF Backend = "unqlite" THEN dsk ELSE Written(dsk, k, v)

\* The disk after kvdb_commit, when unqlite_commit fails for the databases
\* in failed: UnQLite then keeps its dirty pages and leaves the file alone.
\* The other backends have nothing to commit.
kvdb_commit(db, dsk, failed) ==
    IF Backend = "unqlite"
    THEN [k \in Keys |-> IF kvdb_get_index(k) \in failed THEN dsk[k] ELSE db[k]]
    ELSE dsk

\* The disk when the power fails in the middle of kvdb_commit: the database
\* is opened without a journal (UNQLITE_OPEN_OMIT_JOURNALING), so any part
\* of the keys may have reached it.
TornCommit(db, dsk, reached) ==
    [k \in Keys |-> IF k \in reached THEN db[k] ELSE dsk[k]]

\* What kvdb_init finds when the power comes back: the temporary database is
\* in memory, or in a file of a memory file system.
AfterPowerOff(dsk) ==
    [k \in Keys |-> IF kvdb_get_index(k) = "KVDB_PERSIST" THEN dsk[k] ELSE Absent]

=============================================================================
