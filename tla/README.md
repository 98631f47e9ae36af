# A TLA+ verification of the openvela system utilities

The repository is a set of Android-style system utilities for NuttX: the
key-value database *kvdb* (a daemon, storage backends, client library and
property API), an Android log library and a trace library.  kvdb is where the
state, the concurrency and the failures are.  This project models the daemon
`kvdbd`, its storage backends, the calls of the client library, the files
behind direct mode, the property API with its callers, the log and the trace,
checks them with TLC on small instances and proves nearly all of their safety
properties with TLAPS for every instance.

    cd tla
    tlc -workers 2 -config MCStoreFaults.cfg MCKvdbServer     # a run
    tlc -workers 2 -config MCClient.cfg MCKvdbClient          # another
    tlapm KvdbCommitProofs.tla                                # some proofs

`PROJECT.json` lists components, runs, mutants, the source lines of every
definition, findings, hazards and theorems in machine-readable form.

## Inventory

| Component | Source | State | Operations |
|---|---|---|---|
| daemon `kvdbd` | `kvdb/server.c` | the open database, the list of monitors, the commit deadline `next`, the events of the current `epoll_wait` | bind, load the defaults, event loop, requests S D G L C R M, notify monitors, delayed commit |
| UnQLite backend | `kvdb/unqlite.c` | one or two databases with a pager in memory, no journal | init, set (with read-only keys), get, delete, list, commit, close |
| NVS backend | `kvdb/nvs.c` | MTD config device, written through | the same; commit does nothing |
| file backend | `kvdb/file.c` | one file per key, written through | the same; commit does nothing |
| client library | `kvdb/client.c` | nothing between calls; a socket for each call or monitor | set, one-way set, get, delete, list, commit, reload, monitor open/read/close |
| direct mode | `kvdb/direct.c` | nothing between calls | opens the database, operates on it, closes it, in every call |
| property API | `kvdb/common.c` | the environment of the process | set, get and delete of text, truth values, numbers and buffers (as hexadecimal text), each on a variable of the environment or on the store |
| system properties | `kvdb/system_properties.c` | a serial number in the process | bionic's set, find, read, foreach, wait |
| commands | `kvdb/getprop.c`, `kvdb/setprop.c` | none | one API call and console output |
| QEMU properties | `kvdb/qemu_properties.c` | the buffer of its loop, the tries left | reads framed properties from a pipe, with retries, and sets them |
| log | `log/log_write.c`, `log/set_abort_message.c` | minimum priority and default tag (in the environment), logger and aborter pointers | write, filter, assert, replace logger, aborter and minimum |
| trace | `include/cutils/trace.h`, `trace/trace.c`, `trace/atrace.c` | the enabled tags | marks that begin and end a section or stand alone, if their tag is enabled; the `atrace` command sets the tags |

How they interact.  A client call (`client.c`) opens a Unix or RPMSG socket to
the daemon, sends one message whose first byte is the operation, reads the
answer and closes.  A monitor keeps its connection; the daemon sends it every
change of a key its pattern matches.  The daemon is one thread: it collects
events with `epoll_wait`, accepts and serves each client to the end before it
looks at the next event, and between batches commits when the deadline has
passed.  The backends are linked into the daemon, one at a time, behind
`kvdb/internal.h`.  The typed API, system properties, commands and the QEMU
service are layers over the client library.

What is hard.

* The daemon handles a remembered array of events while its handlers free
  monitors the later events point to.
* A request is served synchronously: `recv` and `send` on one client's socket
  hold up all others, bounded only by `CONFIG_KVDB_TIMEOUT_INTERVAL`, whose
  default 0 means no bound.
* Changes are committed late, by a deadline that is set, kept and cleared at
  three places; the commit itself can fail, for one database or for both, and
  can be cut by a loss of power without a journal to repair it.
* The defaults are loaded at every boot over what survived, and again on
  request while clients and monitors are there.
* Monitors die, fill up or appear while a change is announced.
* Every property call first asks the environment of its process, and then acts
  on what it was told, while other threads change environment and store.
* Values go through text: what one type wrote another may read, with other
  widths and other limits of length.
* Log and trace read their global settings without a lock, several times in
  one call.

What makes each component correct: the daemon loses no accepted change except
to the power before the deadline, does not push the deadline back, keeps
read-only keys, keeps stored values over a boot, tells every living monitor the
present value, owns every descriptor exactly once and answers everybody.  A
backend stores what it accepts and reports a failed commit.  The client library
reports what happened to the request.  The API's conversions are inverse to
each other or fail, and all calls agree on whether the environment or the store
has a key.  A serial tells a reader of changes.  The boot service sets what the
host lists, once and in order, and ends.  The log hands a message that passes
the priority in force to one logger.  The marks of a trace nest.

`PROJECT.json` lists the hazards at their lines, with the properties that cover
them.

## Modules

| Module | What it is |
|---|---|
| `KvdbBackend` | the backends: which operations each accepts, what is in memory and what on the disk after set, delete, commit, a torn commit and the return of power |
| `KvdbServer` | the daemon and the client ends of its sockets, which do anything; its properties |
| `KvdbStore` | the abstract specification: a store of persistent keys that is changed one key at a time, saved, and restarted |
| `KvdbClient` | the calls of `client.c` by several processes, composed with `KvdbServer`; their properties |
| `KvdbFile` | the file backend system call by system call, under the calls of direct mode by several processes |
| `PropertyText` | how typed values become text and are read again |
| `PropertyApi` | the property calls of threads of several processes over environment and store; extends `PropertyText` |
| `SystemProperties` | the bionic calls on top of `PropertyApi`: serials and waiting |
| `QemuProperties` | the boot properties service, which sets through `PropertyApi` |
| `BootProperties` | both together |
| `LogWrite`, `Trace` | the log; the marks, the tags and the `atrace` command |
| `Instruments` | log and trace in one process |
| `MC...` | keys, requests, source files, programs and values for the runs; `MCPrograms` lets a behaviour of `SystemProperties` follow one of two programs |
| `KvdbServerProofs` | type correctness of the daemon, the values after a boot |
| `KvdbCommitProofs` | commit, deadline, read-only keys, refinement of `KvdbStore` |
| `KvdbMonitorProofs` | the daemon's descriptors, what its monitors know |
| `KvdbClientProofs` | the composition is a behaviour of `KvdbServer`; descriptors and answers of the calls |
| `KvdbFileProofs` | types, descriptors, stored and read values of `KvdbFile` |
| `SystemPropertiesProofs` | types, the serials and the values read back |
| `BootPropertiesProofs` | types and the order in which the boot service sets |
| `InstrumentsProofs` | everything said of log and trace |

### KvdbBackend

An image maps every key to a value or `Absent`.  `cache` (in `KvdbServer`) is
the image a `kvdb_get` sees, `disk` the one that survives the power.  Of a key
the code only looks at the prefix (`PersistKeys`, `RoKeys`) and of a value at
whether it is `PROP_VALUE_MAX` bytes or longer (`LongVals`), so keys and values
are opaque otherwise.  Each backend has its own `..._kvdb_set`, `_get` and
`_delete` operator that says what it accepts or returns; the differences are
the point: only UnQLite knows `ro.` keys, NVS does not limit the length, and
the file backend's get refuses a NULL buffer.  `kvdb_set`, `kvdb_get` and
`kvdb_delete` select by the constant `Backend`, as the build does.

UnQLite, the MTD config driver, the file system, epoll and the sockets are not
in the repository; they are modelled from their use.  Assumed of them:
`unqlite_commit` writes all dirty pages or, when it fails, keeps them and
leaves the file alone; power lost in the middle leaves any subset of the keys
written (the database is opened with `UNQLITE_OPEN_OMIT_JOURNALING`), but a key
is whole; `unqlite_close` commits; the NVS driver takes values of any length,
finds a key without a buffer and reports the deletion of an absent key.
The write of a file is one step here; `KvdbFile` takes it apart.

### KvdbServer

One action is one stretch of code between two points at which something outside
can matter: a socket operation, a storage operation that can fail, or a point
at which a different event is handled.  `pc` is the place in the code:

| `pc` | Where the daemon is |
|---|---|
| `off` | not started (Init, and after a loss of power) |
| `init` | sockets listen, `kvdb_init` to come: clients connect and wait |
| `load` | in `kvdb_load`, at file `lf`, line `li` (0: file not opened) |
| `start` | before the loop of `kvdb_loop` |
| `batch` | handling the events in `batch`; when none is left, at the top of the loop |
| `wait` | in `epoll_wait` |
| `recv` | in `kvdb_client`, waiting for the request of connection `cur` |
| `reply` | in `kvdb_client`, request carried out: monitors `todo` to notify, list entries `lkeys` to send, then `reply` |
| `down` | `main` has returned with an error |
| `undefined` | anywhere: it has followed the event of a monitor it had freed |

Locals of the code that live across such points are variables (`next`, `dirty`,
`note`, `todo`, `lkeys`).  A heap address of a `struct kvdb_monitor` is a member
of `Slots`, so that an element freed and an element allocated later at the same
address are what they are in C.  For an event of a freed element that was not
reallocated the code reads a descriptor from freed memory, closes it, and
unlinks and frees the element once more (`kvdb_monitor_close_freed`): any or no
open descriptor is closed, and `pc` becomes `undefined`, after which C says
nothing.  The model stops there: the daemon takes no further step, nobody
connects any more, and only the power ends the state.  The properties of the
monitors and the descriptors speak of the time before.

A fetch that fails is taken for one that found nothing, by a get, by the probe of
`kvdb_load` and by `unqlite_kv_is_exist`, which looks whether a read-only key has
a value; `Fetched` chooses between the two when `FetchMayFail` is TRUE (`IoMayFail`
is about writes, commits and the opening of database and source files).  A list that
meets an error ends early or goes on with the next database (`Listed`).  A
listening socket that cannot be had is left out (`bound`).  A message is its meaning, not its
bytes: framing and lengths of the wire format are left out, and an answer that
is several `send` calls long in one `sendmsg` is one message.

A connection goes through `closed`, `connected`, `sent`, `monitoring` at the
client's end.  The client may close at any time, which stands for the one-way
set, for a receive timeout and for the death of the process alike; what it sent
stays in the socket for the daemon to read.  A connection both ends of which
are closed is used again for a new one, so that with two connections there are
runs of any number of calls.

Variables `boot` and `view` are history: what `kvdb_init` found, and what a
monitoring client knows.  `view` starts at the content of the store when the
daemon registers the monitor, which is what a client learns that opens a monitor
and then reads the keys.

`PowerCycle` can happen between any two steps.  When the next step runs a
`kvdb_commit` over UnQLite, any subset of keys may have reached the disk.

### KvdbStore

The abstract store has two variables and three actions: `Change` one key,
`Save` all of the store at once, `Restart`.  `KvdbServer` implements it with
`store` mapped to the persistent part of `cache`, `saved` to that of `disk`,
and `WriteThrough` to the backend not being UnQLite: a change then reaches what
is saved at once, and else only a save or the power does.
It says in particular that no failure of a commit, no reload and no boot brings
a value to the disk that was not in the store, that a save is never partial
unless the power fails in it, and that after a loss of power readers see what
was saved and nothing else.

### KvdbClient

Each process has a stack of calls.  A frame of it is a call, its connection and
the place it has reached:

| `at` | Where the call is |
|---|---|
| `connect` | in `property_connect`, trying again while the daemon has not bound its socket |
| `send` | connected, the request to be sent |
| `recv` | waiting for an answer, the next list entry or the status of a monitor |
| `callback` | in the callback of `property_list`; it may make one call of its own, the next frame |
| `close` | nothing left to do but to close (one-way set, reload, a wait that has its event) |
| `poll` | in the `poll` of `property_wait` |
| `monitoring` | `property_monitor_open` has returned; the application reads, closes, or makes other calls |

Every step that touches a socket is the action of `KvdbServer` for it, with the
connection of the call: `call_connect` is `property_connect`, and so on.  The
one-way set starts again when it cannot send.  When the daemon closes without an
answer a get returns 0, as for a key that is not stored; a commit and a list
return `-errno`, with the errno of some earlier call.  When its receive times
out a commit returns a variable that was never written.  Both are
nondeterministic choices (`EofResults`, `TimeoutResults`).

A new connection is always the same one of the unused ones (`NewConn`), which
are all alike.  Histories: `owner` and `did`, whose request a connection carries
and what the daemon did about it; `had`, the values a key has had since a get of
it began; `own`, what a process last asked a key to be, unless somebody else
has changed it since.

### KvdbFile

A call of `direct.c` opens the backend, which for files is nothing but an
allocation, runs the operation and closes.  Between its system calls (`open`
with truncation, each `write`, each `read`, `unlink`, `opendir`, `readdir`) other
processes run.  With one process this is the backend inside the daemon.

`dir` maps keys to inodes and `data` inodes to bytes, because a file keeps its
content for those who have it open after `unlink`, and because two sets can
write into one file.  Values are sequences of bytes; a write at an offset behind
the end leaves a hole.  The loops of the code are kept: `kvdb_file_get` reads
until the end of the file or of the buffer, `kvdb_file_set` writes until the
count is reached and starts again at the first byte of the value each time.
The code compares the result of `write` and `read` with `-EINTR`, which they
never return, so an interrupted call is a failed one.

Assumed of the file system: `unlink` keeps open files, `readdir` reports every
entry that is there once, what is written survives the power, a write or read
may be short and any call may fail (constants switch these off).

Histories: `alone` says whether any other process has been changing the key of
a call, `truth` what the calls that have returned say is stored (`Unknown` after
two that overlapped, a write that failed, or a power cut in a call).

### PropertyText and PropertyApi

A text is a sequence of characters, which only `PropertyText` looks into: it has
the writers (`FormatInt`, `FormatBool`, `FormatBuffer`) and readers (`ToInt32`,
`ToInt64`, `ToBool`, `ToBuffer`) of `common.c`.  `strtol` and `snprintf` are
external and modelled by what they do with base 0: blanks, sign, `0x`, octal, and
failure outside the range of the result.  The widths of `int32_t`, `long` and
`long long` are constants, and the assignment to an `int32_t` cuts (`Cut`).

`PropertyApi` takes each call apart where other threads can act: `Begin` calls
`getenv`; then `SetEnv`, `UnsetEnv` or `CopyEnv` work on the variable, or
`SetStore`, `DeleteStore`, `GetStore` on the store.  `env` is one environment for
each process, shared by its threads, which is why a variable may be gone or
replaced when it is copied: what `property_get` then returns is left open.  The
store is one map; that the calls on it are atomic is what `KvdbClient` shows
(`GetIsRecent`, `ReadsOwnWrites`, `SetTold`), and a call may fail with or
without effect, as there.  `property_get` without a buffer for a stored key
writes through the null pointer (`GetWithoutBuffer`): the process dies and
`Restart`s, or goes on.

`mine` is history: the last change of a key a thread made itself and nobody has
disturbed.

### SystemProperties, QemuProperties, BootProperties

`LoadSerial` and `StoreSerial` are the two halves of
`__system_property_serial_num++`, which is not atomic.  `ReadCallback` hands out
the serial after the value has been read.  `WaitBegin` opens the monitor of
`property_wait`, `WaitEnd` is the end of its `poll`, with an event or not.
`__system_property_find` is a get without a buffer; `read` and `get` are gets.
`seen`, `counted` and `read` are histories: the serial a callback was given, the
sets since, and whether a thread has read a key and the key has changed since.

The QEMU service opens the pipe (`Open`, `Wake`), sends `list`, and then handles
frames.  A frame is what the code makes of it: a property, a text without `=`,
the lone NUL, or one longer than the buffer.  `temp` is what the buffer holds,
which the next turn of the loop sees again when `read` returns 0 at the end of
the pipe; before the first frame that is whatever the stack holds (`Junk`).
After a frame that is too long lengths are taken from the middle of a body
(`aligned`).  The host and the pipe are external; a frame that has been sent is
read whole.

### LogWrite, Trace, Instruments

`LogWrite` has a step for each read of `g_logger_function`,
`g_aborter_function` and `ANDROID_LOG_MIN_PRIORITY`: the check of the priority,
the choice between syslog and a message (`ChooseSink`), the abort message
(`Post`), the call of the logger (`CallLogger`), in which
`__android_log_stderr_logger` checks once more, and for an assertion the
aborter.  Setting the minimum is a read and a write.  Histories: `handed`,
`explained`, `minima`, `hooks`, `before`.

`Trace` has one step for the test of the tag and one for the mark.  A thread
begins sections with any tag and ends the innermost one with the tag it was
begun with.  A command (`atrace`) takes one argument after the other
(`atrace_argument`) into a local, and sets the tags to it at the end
(`atrace_category`) or refuses; it may also refuse `always` and `never` at the
beginning, because `j` has not been set then.  Histories: `opened`, the depths of
the sections whose B marks have no E yet, and `steady`, whether the tags have been
the same since the outermost section began.  All tags with a name are in the lower half of the 64 bits, so
that a store in two halves shows nobody a mixture of named tags.

In `Instruments` a thread is in one call at a time, and nothing is written after
an abort.  The two share no other state: `MCInstruments` explores each while the
other is as at the start (constraint `OneInstrument`), with the first steps of
the other from every state.

## Properties

| Property | Says |
|---|---|
| `CommitScheduled` | whenever memory and disk differ, a commit is certain to come: a deadline is set, `kvdb_client` is about to report a change, or `kvdb_load` will commit |
| `DeadlineNeverSlides` | a deadline once set goes away only by passing, however many changes come |
| `CommitAcked` | the daemon answers a commit with success only if everything is on the disk |
| `ReadOnlyKept` | only a line of a reload, to its value, or the power changes a read-only key that has a value |
| `BootKeepsStored` | after a boot, stored keys have the stored value and all others the first acceptable default |
| `MonitorCurrent` | a client whose monitor the daemon keeps has, has in its socket, or is about to be sent, the present value of every key it matches |
| `DescriptorsOwned` | open descriptors of the daemon are those of the served client and of the monitors, one each |
| `ClosesListed` | the monitor that a hang-up event closes is in the list of monitors |
| `MonitorKept` | a monitor is dropped only after its client closed or a send failed |
| `SavedEventually` | what differs from the disk is saved, or lost with the power |
| `ImplementsStore` | refinement of `KvdbStore` |
| `ClientDescriptors` | the open client ends are those of the calls in progress, one each |
| `GetIsRecent` | a value that a get returns is one its key had between call and return |
| `ReadsOwnWrites` | a process reads what it wrote, also one-way or in a call that timed out, unless another changed the key |
| `SetTold`, `CommitTold` | a set or delete, a commit, that returns 0 has been carried out |
| `ClientCallReturns` | every call of a process that does not stop by itself returns |
| `ServerBehaviour` | `KvdbClient` implements `KvdbServer` (proved only) |
| `StoredValue` | what the calls that returned say is stored is what the file holds |
| `ReadWhole` | a get or list entry that no change overlaps gives the whole stored value |
| `DescriptorsClosed` | no way out of a call in direct mode leaves a descriptor open |
| `CallReturns` | every call in direct mode returns |
| `ReadBack` | what a thread has set or deleted, and nobody has changed since, it reads back by every type that can hold it, and else gets its default |
| `DefaultUsed` | a get with a default that is not empty returns a text that is not empty |
| `SerialAdvances` | after a set of the process the serial differs from the one a callback was given, until it has gone round; for processes with one setting thread |
| `UpdatedPast` | a wait that has not been told anything misses no change since the value and serial were read |
| `ConsistentTrio` | when a key has changed since a callback's value was read the serial does not move on before it is read, too |
| `GivenInOrder` | the boot service sets the properties of the frames it has read, each once and in order, and all of them when it ends at the end of the list; unless a frame was too long |
| `QemuEnds` | it stops trying to connect, and ends after the end of the list |
| `DeliveredOnce` | a message that is not refused goes to one logger, one that was set during the call |
| `FatalExplained` | a fatal message reaches another logger than logd only after the abort message has been set |
| `MinimumRestored` | setting the minimum back to what the call returned restores the filter, if nobody else sets it |
| `MarksNest` | the open B marks of a thread are those of its sections with an enabled tag, outermost first, so that each E mark closes the B mark of its own section, if no tag is switched in the outermost section |
| `CommandWhole` | the tags change only at the end of an `atrace` command all of whose arguments are known, and to what the arguments of that command mean |

## Runs

Distinct states are approximate.

| Run | Instance | States | Result |
|---|---|---|---|
| `store_faults` | UnQLite, two persistent keys, a temporary and a read-only one, one connection, one monitor, every request, two source files, commit interval 2, failing writes, commits and allocations, loss of power | 840 000 | holds: `CommitAcked`, `DeadlineNeverSlides`, `ReadOnlyKept`, `ImplementsStore` |
| `monitors` | NVS, three connections and three monitor elements, socket buffer of one message, batches of two, source files with values that are too long | 230 000 | holds: `MonitorCurrent`, `DescriptorsOwned`, `BootKeepsStored` |
| `client_calls` | two processes: one-way sets, gets, lists with a get inside; sets, deletes and reloads; timeouts on both sides; commit interval 0 | 1 500 000 | holds: `ClientDescriptors`, `GetIsRecent`, `ReadsOwnWrites`, `SetTold`, `CommitScheduled`, `BootKeepsStored` |
| `client_live` | a process that lists and sets one-way beside one that may stop anywhere and never reads its monitor, with timeouts | 180 000 | holds: `ClientCallReturns`, `SavedEventually` |
| `direct_files` | two processes, a persistent and a temporary key, values of one and two bytes and one that is too long, two inodes, short reads, failures, loss of power | 460 000 | holds: `StoredValue`, `ReadWhole`, `DescriptorsClosed`, `CallReturns` |
| `properties` | one key; two threads of a process that inherited a variable for it, one of another process, with one of two programs (`MCPrograms`): every type, widths 4 (int, long) and 6 bits, `PROP_VALUE_MAX` 7; or a reader with a callback that also deletes and waits, a fellow that sets two texts and a setter in the other process, serials of two bits | 690 000 | holds: `ReadBack`, `SerialAdvances` |
| `boot` | the boot service with two tries and three frames, among them two different properties, and a program that sets, finds and deletes the same key | 460 000 | holds: `GivenInOrder`, `QemuEnds` |
| `instruments` | a thread that writes and traces, one that changes every setting and fails an assertion, six `atrace` commands, sections two deep | 190 000 | holds: `DeliveredOnce`, `FatalExplained`, `MinimumRestored`, `MarksNest`, `CommandWhole` |
| `commit_told` | a commit with a timeout | | violates `CommitTold` |
| `file_boot` | the file backend in the daemon | | violates `BootKeepsStored` |
| `stale_event` | two listening sockets, three connections, one monitor element | | violates `MonitorKept` |
| `wait_missed` | a thread that reads and waits, one of another process that sets two texts | | violates `UpdatedPast` |

### Findings

The four violating runs are disagreements between the code and what its
comments and documents say; `PROJECT.json` quotes the lines.

1. **`property_commit` can report success after a timeout** (`client.c:747`).
   `ret < sizeof(value)` is an unsigned comparison, false for -1; `value` is
   then returned uninitialised.
2. **With the file backend a boot overwrites persistent values**
   (`file.c:268`).  `kvdb_load` probes with a NULL buffer, which the file
   backend rejects, so every stored key looks missing.
3. **A stale event closes a live monitor** (`server.c:510`).  A notification
   frees a monitor whose hang-up is still in `evs[]`; a monitor opened through
   the other listening socket in the same batch can get the same address.  With
   one listening socket at most one request is served per batch, and nothing is
   allocated at the address while the event is pending; what happens then is the
   first of the weak places below.
4. **A wait misses a change** (`system_properties.c:116`).  The comment promises
   to wait until the property is updated past `old_serial`, which the code does
   not look at: a change between the read and the wait is not reported.

Other weak places the models show, each with a further property or after a change
of a constant in the configuration named:

* A freed monitor is closed again (`server.c:510`).  The event of finding 3 with
  nothing allocated in between: `kvdb_loop` reads the descriptor from freed
  memory, and `kvdb_monitor_close` closes it, unlinks the element and frees it a
  second time.  One listening socket and one monitor are enough; `ClosesListed`
  (the comment at `server.c:90`) fails as a further property of `MCMonitors.cfg`.
* A callback is given an old value with a new serial (`system_properties.c:77`).
  The comment at line 62 promises a consistent trio; the value is read first and
  the serial after it, and a fellow thread may set in between.  A reader that
  remembers this serial takes the old value for the present one.
  `ConsistentTrio` fails as a further property of `MCProperties.cfg`.
* An empty value is returned in spite of a default (`common.c:178`), while
  `cutils/properties.h:41` says the default is used: a stored empty text has
  length 1 and passes for a value, and an empty variable is returned as it is.
  `DefaultUsed` fails as a further invariant of `MCProperties.cfg`.
* A monitor that cannot be opened for want of memory leaks its connection
  (`server.c:449`): the return that leaves the descriptor to the monitor is taken
  with an error, too.  `DescriptorsOwned` fails in `MCMonitors.cfg` with
  `AllocMayFail = TRUE` and without `BootKeepsStored` (a load that gets no memory
  loads nothing).
* A failed delayed commit is forgotten (`server.c:494`): `kvdb_loop` ignores the
  result and clears `next`, and the change stays in memory only until some later
  request changes the store.  `CommitScheduled` fails as a further invariant of
  `MCStoreFaults.cfg`; without failures it is proved.
* A get from the callback of a list, which `system_properties.c:91` recommends,
  can hang without timeouts (`server.c:319`): the daemon waits for the list to
  be read, the callback for the daemon.  `ClientCallReturns` fails in
  `MCClientLive.cfg` with `TimeoutOn = FALSE`, `Keys = {kp, kt}`,
  `Source <- TwoLines`, `Procs = {p1}`, `Program <- Lister`,
  `Nested <- ReadsValue` and `ConnectMayFail = FALSE`.
* Where `long` is wider than 32 bits `property_get_int32` cuts a larger number
  instead of returning the default (`common.c:348`; `properties.h:96` says it
  fails): `ReadBack` fails in `MCProperties.cfg` with `LongBits = 6`.
* `property_set` puts a text of any length into a variable of the environment
  (`common.c:112`), and `property_get` refuses it from `PROP_VALUE_MAX` on
  (`common.c:168`): `ReadBack` fails for a hidden key with a text set of seven
  characters among the calls.
* `property_get` without a buffer, as `__system_property_find` calls it, writes
  through the null pointer for a stored key (`common.c:186`).
* `property_set_buffer_oneway` waits for the answer (`common.c:466`).
* Switching tags inside a section leaves a B or an E without its counterpart
  (`trace.h:150`), and two threads that set at once may advance the serial only
  once (`system_properties.c:41`); `MarksNest` and `SerialAdvances` except both.
* A reload changes keys without `kvdb_monitor_notify` (`server.c:432`):
  `MonitorCurrent` fails in `MCMonitors.cfg` with
  `Requests <- ReloadMonitorRequests`.
* An existence check that fails lets a read-only key be overwritten
  (`unqlite.c:50`): `ReadOnlyKept` fails in `MCStoreFaults.cfg` with
  `FetchMayFail = TRUE`.
* A fetch that fails is answered like a missing key (`server.c:394`):
  `ReadsOwnWrites` does not count a get without a value where fetches or memory
  may fail, and `kvdb_load` writes the default over a stored value it could not
  read (`server.c:214`).
* After a short write the value is written again from its first byte
  (`file.c:64`): `StoredValue` fails in `MCDirect.cfg` with
  `ShortWrites = TRUE`.  Its absence is a hypothesis of theorem `SetStores`.
* A file is truncated before it is written (`file.c:57`).  A reader in between
  gets an empty value, and after a loss of power in between the key is empty:
  neither the old value nor the new one.  The properties allow for it (`alone`,
  `Unknown`).
* A list in direct mode ends with an error when an entry is deleted between
  `readdir` and `open` (`file.c:141`), while `direct.c:162` says it fails only
  when all databases failed to open.
* With timeouts, entries of a list that do not fit into the socket in time are
  dropped and the list still ends normally (`server.c:319`).

## Bounds

* **Connections** (1 to 3).  Connections are reused without limit, so the bound
  is on how many clients are there at once.  Two suffice for a client changing
  the store while another is served or queued; three for a monitor that dies,
  a monitor that lives and a client that changes the key between them.
* **Monitor elements** (0 to 3).  One per connection where all may monitor; one
  only in `stale_event`, which forces the address to be reused.
* **`SockBuf`** (1 or 2 messages).  A full buffer is the interesting case.
* **`KVFD_MAX`** (2, and 8 as in the code).  With two, events are left over for
  the next round.
* **Keys and values**.  One key for each class the code tells apart, two
  ordinary values and one too long.  Only the refinement relates keys of one
  class (a save is of all of them, a change of one), so `store_faults` has two
  persistent keys.
* **Clock**.  While no deadline is set the only thing the clock can decide is
  whether the next deadline would come out as 0, so it is restarted at 1 when a
  deadline goes; while one is set it stops at the deadline.  Commit intervals 0,
  1 and 2 give the boundary, the ordinary case and a deadline several changes
  can be tempted to move.
* **Source files**.  Two, of which the second repeats a key, with lines that
  are too long.
* **Processes** (1 or 2) and **nested calls** (one level).  Two processes are
  what an overlap takes; the steps of a third are, to each of them, those of the
  other.  With two connections the second is taken by the nested call or the
  other process, and a call that finds none waits in `connect`.
* **Bytes and inodes**.  `PROP_VALUE_MAX` is 3: the longest value that is
  accepted has two bytes, which is enough for a short read to split it and for
  the read loop to end by the end of the file; two inodes make a set fail for
  want of room while a deleted file is still open.

* **Integers** (`IntBits`, `LongBits`, `LongLongBits`: 4, 4 and 6).  The smallest
  `int32_t`, a number only the wider type has, hexadecimal and octal texts all
  occur; `LongBits = IntBits` is the 32 bit target.
* **`PROP_VALUE_MAX`** in `properties` (7).  A buffer of three bytes is a text
  that a variable can hold and the store cannot.
* **`SerialBits`** (2 in `properties`).  The serial goes round after four
  sets: up to three sets of a fellow may follow a read before it does.
* **`MAX_TRIES`** (2) and **`MaxFrames`** (3): one failure and one more; two
  different properties in either order and the end, a property, a text and the
  end, or a property and the close of the pipe with the old
  buffer in between.
* **`MaxDepth`** (2): a section with one inside, under the same and another tag.

Failing fetches are on in `client_live`; elsewhere the properties need them off
(`ReadOnlyKept`, `BootKeepsStored`) or say less with them (`ReadsOwnWrites`).  The
theorems that do not name `FetchMayFail` hold with them.

Symmetry is used in `monitors` only, over connections and elements, which no
property or constant there tells apart; it has no liveness property.

## Fairness

`FairSysSpec` (`KvdbClient`) is for the configuration with timeouts, where
`SO_RCVTIMEO` and `SO_SNDTIMEO` unblock the daemon.  The daemon takes a step when
it can (it is one thread that only waits in `epoll_wait`, `recv` and `send`), time
passes, and the processes of `LiveProcs` go on with their calls, without counting on an
error of `connect`; the others may stop
anywhere and keep their connections.  Strong fairness of `call_connect` and
`call_send` says that a process that tries again and again gets its turn: a
connect competes with other processes for the backlog, and a send that follows
the connect at once is not for ever later than the daemon's timeout of seconds.
Without it a one-way set could be tried again for ever.

Without timeouts, the default, the daemon really waits for ever on a client that
does not send and on a monitor that does not read, and no liveness is claimed.

`BootSpec` (`BootProperties`): the service goes on, and so do its calls of
`property_set`; a failing read is never assumed, and the host need not send.

`FairSpec` (`KvdbFile`): a process in a call goes on with it; that `write` or
`read` fails is never assumed.

Nothing forces a client to connect or the power to fail; power may fail
infinitely often, in which case unsaved changes are lost, which both sides of
`SavedEventually` count as resolved.

## Proofs

Everything is proved for arbitrary sets of keys, values, connections, elements,
requests, source files, processes, threads, inodes, categories and commands, from
the named assumptions of the modules on their constants (prefix classes are
disjoint, a value is not `Absent`, requests carry what their operation needs, and
so on).  A hypothesis beyond these is part of the theorem; each is there because
the property fails without it, in one of the ways listed under Findings
(`OneListener` is explained with its theorem).  Each
proof that a step preserves an invariant has one step per action.

### The daemon

* `TypeCorrect` (`KvdbServerProofs`): `Spec => []TypeOK`.  `TypeOK` is not
  inductive: `kvdb_client` uses `cur` as a connection, and `kvdb_load` indexes
  `Source[lf][li]`.  `TypeInv` adds `CurOK` (a client is being served when `pc`
  is `recv` or `reply`) and `LoadOK` (while a file is open its number is in
  range).
* `BootIsRight`: `Spec => []BootKeepsStored` when storage and memory do not fail
  and the backend is not the file backend, whose `kvdb_get` cannot be asked
  whether a key is there.  `LoadInv` says what holds in the middle of the load: a
  stored key has its value, and any other key what the lines read so far give
  it first.
* `CommitIsScheduled` (`KvdbCommitProofs`): `Spec => []CommitScheduled` when
  the storage does not fail; a failed delayed commit, above, shows that the
  hypothesis is needed.  The inductive invariant `CommitInv` adds that memory and
  disk are equal for a backend that writes through, that `dirty` is set in
  `reply` only, so that its reset goes with the setting of the deadline, and that
  a load that has not opened a file yet is no excuse for a difference: it may
  still return without its commit for want of memory.  The theorem covers the
  interval 0, for which the code avoids the deadline 0.
* `DeadlineIsKept`: `Spec => DeadlineNeverSlides`.
* `CommitIsTrue`: `Spec => CommitAcked`, under all failures, from `WriteThrough`, the
  part of `CommitInv` that holds with failures too: memory and disk are equal for
  a backend that writes through.
* `ReadOnlyIsKept`: `Spec => ReadOnlyKept` for UnQLite, the only backend that
  knows read-only keys, when fetches do not fail; writes and commits may.  Boots and reloads are
  included: a boot skips a line for a key that has a value, and what a reload may
  write is the value of its line.
* `DaemonImplementsStore`: `Spec => ImplementsStore` under all failures and for
  all backends.  Every action maps to `Change` (a set, a delete, a line of the
  load), `Save` (a commit that succeeds for the persistent database),
  `Restart` (`PowerCycle`) or a stutter.
* `DescriptorsAreOwned` (`KvdbMonitorProofs`): `Spec => []DescriptorsOwned` when
  nothing fails for want of memory (`server.c:449` leaks otherwise); the property itself
  ends where the daemon follows the event of a freed monitor.  The
  property says nothing of connections that wait in a backlog, but one of them
  that is already open, or waits twice, would be accepted into a second owner:
  `BacklogInv` excludes it; `OwnersInv` adds that nobody is served between two
  requests, and `NoLeak` is the half that needs the hypothesis.
* `MonitorsAreCurrent`: `Spec => []MonitorCurrent`, under all failures, when no
  client asks for a reload (which does not notify); it, too, ends
  where the daemon follows the event of a freed monitor.  `MessagesInv` says that a
  closed or unanswered connection has nothing in its socket, so that what a new
  monitor has seen begins with the present store, and that a monitor's socket
  holds nothing but its status and events; `NoteInv` that the monitors still to
  be told are there and that the change they will be told is the present one;
  `QuietBoot` that the load has no monitors to tell.

### The client calls

* `SystemIsServer` (`KvdbClientProofs`): `SysSpec => ServerBehaviour`, that is
  `SysSpec => Spec`.  The steps of the calls use `Conn(p)` as a connection, which
  needs `StackInv`: a frame that is past `connect` has one.  With it each step is
  a step of `KvdbServer` or leaves its variables alone.  So all theorems above
  hold of the daemon under the real client calls; `SystemImplementsStore` is
  the one for the refinement.
* `CallsCloseTheirs`: `SysSpec => []ClientDescriptors`; `GetsAreRecent`:
  `SysSpec => GetIsRecent`; `SetsAreTold`: `SysSpec => SetTold`.  All three
  without a further hypothesis, with timeouts and every failure, and from one
  invariant, `CallsInv`.  Its first half, `RequestInv`, is about the daemon under
  any clients: a connection it has dropped, or whose client has sent nothing,
  carries no request and no answer, which is why one that is used again is as
  good as new.  The second, `CallInv`, ties the two sides together: where a call is agrees
  with its client end (`FrameInv`); the connections of two calls differ
  (`DistinctInv`) and no other is open (`CoverInv`); a get is the innermost call
  (`DepthInv`) and its history has the present value of its key (`HadInv`); and
  whatever is in the socket of a call, or is about to be sent there, answers that
  call: its kind fits the operation, a success is true and a value is one the
  key has had (`Answered`).
* `OwnWritesAreRead`: `SysSpec => ReadsOwnWrites`, for all backends, with timeouts
  and every failure (a get that returns no value then tells nothing, because the
  daemon answers a failed fetch in the same way; it counts where fetches and
  memory do not fail), when all clients connect to one listening socket
  (`OneListener`).  `client.c:72` chooses between the local and the remote socket
  at compile time, so this holds of the clients of one build; the daemon itself
  may listen on several, and then a get sent to one may be accepted before a set
  that waits on another: `ReadsOwnWrites` fails in `MCClient.cfg` with
  `Listeners = {l1, l2}` and `ListenerOf <- TwoSockets`.  What a process expects of a key is not what the store
  has while its one-way or timed-out requests still wait, so the inductive
  invariant `OwnWritesInv` speaks of the line they wait in:
    * `OwnInv`: if no request of the process for the key waits, the store has what
      the process expects; if some do, the last of them in the line carries it;
    * `BehindInv`: a get, set or delete that has connected is behind everything its
      process has asked for before; this is the part that needs one socket, and only
      the step that connects uses the hypothesis;
    * `GetInv`: once a get of a key the process knows has been served, what is on its
      way to the caller is the expected value;
    * `ServedInv` (an open connection that is not being served carries no request, so
      that nothing overtakes the line), `FreshInv` (nothing has been done about a
      request that waits), `OwnerInv` (the connection of a call belongs to its
      process), `BackedInv` (a key without a database has no value, so that a get finds
      what the store has, whatever the backend), `HowInv` (only a set is one-way).

### Direct mode

* `FileTypes`, `FileTypeCorrect`, `DescriptorsAreClosed` (`KvdbFileProofs`):
  `FileTypeInv` adds to `TypeOK` which call a process at each place is in
  (`CallOK`) and that it has a file open exactly while it reads or writes
  (`FdOK`).
* `SetStores`: `Spec => []StoredValue` without short writes, for any number of
  processes.  `FileInv` adds that no two keys share a file and that a file being
  written has no other name than the one it was opened by (`DirOK`), that two
  calls changing a key at once know they are not alone (`AloneOK`), that the
  file of a set that is alone is still empty and still the key's until it writes
  (`Emptied`), and that `StoredValue` holds on while a call has not opened the
  file yet (`Settled`).
* `ReadsAreWhole`: `Spec => ReadWhole` without short writes.  `ReadInv` adds that
  nobody changes the key of a reader that is alone (`Undisturbed`), that its file
  is still the key's and what it has read is the beginning of it (`ReadSoFar`),
  and that a stored value fits into its buffer (`Fits`).

### Properties, boot service, log and trace

* `PropertiesTypeCorrect`, `SerialsAdvance` (`SystemPropertiesProofs`): `ApiInv`
  says what a thread holds at each place of a call; `SerialInv` relates the serial to the number of sets since
  it was handed out, modulo its width, with the increment that is half done.
  `SerialAdvances` itself is about processes with one setting thread.
* `ValuesReadBack`: `SysSpec => []ReadBack`, for every number, truth value, buffer
  and text (an empty text is read back as one, whatever the default),
  when `LongBits = IntBits` and the texts that are set are shorter than
  `PROP_VALUE_MAX` (`TextsFit`); both are needed, see Findings.  It has two halves.
    * Text.  `Decimal` and `NumberOf` are recursive functions.  `DecimalDef` shows
      that `Decimal` satisfies its equation, from approximations up to each number
      (`DecimalUpToAny`) that agree where both are defined (`DecimalUpToOne`);
      `NumberOfDef` that any function with the right partial sums gives
      `NumberOf`; `DecimalDigitwise` that the digits of a number are decimal, begin with
      a zero only for 0 (or `strtol` would read them as octal) and add up to it.
      With these `StrtolReads` goes through `strtol` branch by branch:
      `strtol(FormatInt(n))` is `n` if it fits and a failure else.
      `BufferReadBack` and `BoolReadBack` are the other types.  The induction is
      `AllNumbers`: a set that contains every number whose predecessors it
      contains has them all.  It follows from the well-foundedness of `<`, and speaks
      of a set where the library's induction rule has a predicate.
    * History.  `ReadInv`: a thread that knows what its change has made of the key
      is right about what a get would find (`Knows`), and a call of it in progress
      holds the variable that is still there (`InSync`), so that neither a set nor a
      get works on a variable or a stored key that has been replaced under it.
      `KeyStep` lists what a step can do to one thread and one key.
* `BootTypeCorrect`, `GivenAreInOrder` (`BootPropertiesProofs`): `BootInv` is the
  conjunction of the types of the two sides; `OrderInv` says that the end of the list
  is the last frame (`HostInv`), that the pipe holds the frames sent last and the
  service has set those before (`Reading`), and that it stops only at the end of
  the list or of the pipe (`Stopped`).
* `InstrumentsTypeCorrect`, `MessagesGoOnce`, `FatalIsExplained`,
  `MinimumIsRestored`, `MarksAreNested`, `CommandsAreWhole` (`InstrumentsProofs`):
  `LogInv` says of a thread at each place which logger and minimum it has read
  and that they were in force in its call; `TraceInv` that the open B marks are
  those of the sections whose tag is enabled, with the mark that is still to be
  written, and that a running command has gathered what its arguments so far mean,
  all of them known, so that at its last argument it has what all of them mean.

### Only model-checked

* Liveness (`SavedEventually`, `ClientCallReturns`, `CallReturns`, `QemuEnds`):
  reasoning with fairness and `ENABLED` is out of the prover's reach.

Every safety property of the passing runs is stated by a theorem.

## Not modelled

* The wire format and its lengths (so neither a list that gets out of step over
  an entry of unexpected length, `client.c:462`); formatting, logging, help
  texts.
* The content of a fnmatch pattern: a monitor has the set of keys it matches.
* A get of a value longer than the daemon's buffer with NVS, and the driver
  behind NVS.
* Direct mode over UnQLite or NVS.
* The checks of key lengths and null pointers in the client library.
* `__system_property_foreach`, which is `property_list` with another callback.
* Priorities above `ANDROID_LOG_SILENT` in a write, which index `g_logprimap`
  past its end (`log_write.c:121`).
* `getprop`, `setprop` and the headers: no state.

## Plan

Done: the daemon with its backends and the abstract store, the client calls
composed with it, the file backend and direct mode, the property API with the
bionic calls and the boot service, log and trace; the proofs above.  Left: an
abstract atomic store that answered client calls are shown to refine, and that
`PropertyApi` then uses instead of its map.
