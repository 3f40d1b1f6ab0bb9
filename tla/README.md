# image-host: a TLA+ model

image-host is a small C++ HTTP service that keeps pictures: users register and log
in, upload files into FastDFS, list them and share them. Four IO threads of a
reactor run the request handlers; MySQL holds the tables, Redis the login tokens.
This directory models the parts of it where interleavings, failures and restarts
decide whether it works: the two connection pools, the Redis connection that
reconnects, the way from TCP segments to handlers (the HTTP parser included), the
handlers over their tables, and the way from the configuration file to a serving
process. The modules are checked with TLC on small instances; the safety properties of the
pools, the Redis connection, the HTTP parser with its wrapper, the HTTP server, the handlers
and the startup are proved for every instance with TLAPS.

Paths are relative to the repository's `src/` directory unless they begin with `sql/`.

## 1. The system

### Components, their state and their operations

| component | state | operations |
|---|---|---|
| `DBPool` (`db-conn-pool/db_pool.cc`) | `m_free_list`, `m_cur_conn_cnt`, `m_abort_request`, a mutex and a condition variable | `init`, `getConnection`, `releaseConnection`, `~DBPool` |
| `AutoRelConn`, `AutoRelCacheCon` | the connection of one scope | release on scope exit |
| `DBManager`, `CacheManager` | pool name to pool; fixed once read from the configuration | `init`/`Init`, `getConn`/`GetCacheConn`, `releaseConn`/`RelCacheConn` |
| `DBConn`, `PrepareStatement`, `ResultSet` | a MySQL handle, a result | `executeQuery`, `executeUpdate`, row access (transactions exist and are not used) |
| `CachePool` (`cache-pool/cache_pool.cc`) | as `DBPool` | as `DBPool`; the destructor is three steps |
| `CacheConn` | `context_`, `last_connect_time_` | `Init` (one connect in each second of `time(NULL)`, AUTH, SELECT), `DeInit`, 26 Redis commands |
| `HttpServer` | `sm_httpMap` (uuid to connection), the uuid generator | `onConnection`, `onMessage` |
| `HttpConnection`, `url` | none that lasts; the input buffer belongs to the reactor | `onRead`: parse all of the buffer, route by URL, call the handler, answer |
| `http_parser`, `CHttpParserWrapper` | the state of the parser; URL, body and header fields found | `http_parser_execute` with its callbacks; `ParseHttpContent`, a new parser for the whole buffer |
| handlers (`api/`) | none of their own | register, login, upload, share, browse, list shares, count files, list files |
| tables (`sql/table.sql`) | `user_info`, `file_info`, `user_file_list`, `share_picture_list` | unique keys |
| `main`, `util`, `config_file_reader` | the configuration | reading lines, splitting lists, and the order everything is opened in |

### How they interact

`main.cc` reads the configuration, makes both managers (single threaded), starts the
server with four IO threads. A segment arrives on an IO thread: `onMessage` finds the
`HttpConnection` by uuid, `onRead` parses and, when there is a whole message, calls the
handler **on the same thread**. A handler blocks: it takes a connection from a pool
(waiting on the condition variable if there is none), sends its statements one after
the other, and gives the connection back when the scope ends. No handler uses a
transaction. `login` and `myfiles` use two pools one after the other; none holds two
connections at a time. Upload forks `fdfs_upload_file` and `fdfs_file_info` while it
holds its MySQL connection.

### What is hard here

* Four threads over pools of a few connections, with `notify_one`, spurious wakeups,
  optional timeouts, callers that overtake a notified waiter, and a connect made with
  the mutex held.
* A byte stream cut anywhere: marks that must be opened again, lengths that overflow,
  chunks against lengths, the byte at which one request ends.
* A Redis that goes away and comes back: dead contexts, lost replies, throttled
  reconnects, handshakes that fail half-way.
* Requests cut anywhere by TCP, parsed again from the start with each segment.
* Statements of different threads that interleave, fail, or are cut short by a crash.
* Forms and files written by hand: fields in another order, empty items, missing
  settings, and uninitialised memory where the code expected none of it.
* Error paths: a failure that is not looked at, a connection that is not given back.

`PROJECT.json` lists each hazard at its line with the properties that watch it.

What makes each component correct: a pool gives a connection to one holder, loses
none, stays within its limit, and lets nobody sleep while something is free; a Redis
connection does not repeat commands, does not hammer the server, and recovers; the parser
finds the same requests however the stream is cut; the HTTP layer hands each request once,
whole, to its handler and answers its sender; a process that serves has the pools its file
lists; a handler
gives its connections back, keeps the tables consistent with each other across
failures and crashes, and tells the client the truth.

## 2. Modules

| module | models |
|---|---|
| `ConnectionPool` | what both pools promise: an abstract pool of connections, lent one by one |
| `DBPool` | `DBPool` and `AutoRelConn`, per critical section |
| `CachePool` | `CachePool` and `AutoRelCacheCon`, per critical section |
| `CacheConn` | one `CacheConn` against a Redis that comes and goes |
| `Framing` | where requests begin and end, on tokens: what the handlers see of the parser |
| `HttpParser` | `http_parser` for requests and `CHttpParserWrapper`, on bytes; it implements `Framing` |
| `HttpServer` | `HttpServer`, `HttpConnection`, `url`, over `Framing` |
| `Handlers` | `api/*.cc` over the tables, Redis and FastDFS; the pools as counters |
| `Startup` | `main`, `CConfigFileReader`, `CStrExplode` and both managers |
| `Lemmas` | what the proofs share: induction, recursive functions, counting, lists used as queues |
| `DBPool_proofs`, `CachePool_proofs`, `CacheConn_proofs`, `HttpParser_proofs`, `HttpServer_proofs`, `Handlers_proofs`, `Startup_proofs` | the theorems about the module each is named for |
| `MC*` | what TLC needs to instantiate them: symmetry, sets of requests |

A definition whose comment begins with "Mutant of" is a plausible wrong version of
another one; no specification uses it. Substituted for that one, each makes
a property fail, which shows that the property depends on that piece of the code.

### DBPool, CachePool

A critical section that does not block is one action. `getConnection` splits where it
gives the mutex up (`GetPark`; the thread is *parked* until a notification or a spurious
wakeup makes it *woken*; `WakeTake`, `WakeAborted`, `WakeAgain`, `TimedOut` are what it
finds when it has the mutex again) and where it keeps it for long (`GetCreate` ...
`Created`/`CreateFailed`, with `m_mutex` owned in between). `ReleaseConnection` is the
destructor of `AutoRelConn`; `GiveUp` is a handler that got `nullptr` and has nothing to
release. `Destroy` is `~DBPool`; no code of the program destroys either pool, so
`DestroyWakesEverybody`, `DestroyEnds` and `NothingLentAfterAbort` are what the classes
promise, and `Destroyable` says whether an instance exercises it.
`CachePool` differs where the code does: a woken waiter leaves when there is an abort
even if something is free, and the destructor is `DestroyAbort`, `DestroyDelete`,
`DestroyClear`, the last one outside the mutex. Connections are numbered in the order
they are made, so that lost, doubled and deleted ones can be told apart. It is assumed
that nobody calls into a pool that is gone.

`ConnectionPool` is the abstract specification: a set of idle connections and who has
which. `ImplementsPool` says that both pools, seen through their free list, do nothing
else (the mapping is at the end of each module; for `CachePool`, deleted connections
that dangle in the list do not count as idle).

### CacheConn

`CachePool` gives a connection to one thread at a time, so a method is one action
(`Call`), and whatever the network does in it is a choice: `Init` fails (`NotReady`), the
command is answered (`Answered`), or there is no reply (`Lost`), in which case the server
may or may not have executed it. The 26 methods are tables, one per family, of the reply
types that look like a success and of what a missing reply does: most free the context,
`HgetBuf` keeps it, the zset methods dereference the NULL. The keyspace is one key with
a type and a number; the server executes commands on it (external).
The clock (`now`) counts ticks, `TicksPerSecond` to a second; `time` is what `time(NULL)` makes
of it. `last_connect_time_` and the comparison in `Throttled` are the code's; `connects`
remembers when each connect was tried, in ticks, so that `ConnectsSpread` can tell what the
throttle is worth: two connects may be a tick apart (at the end of a second), three never are
within a second. The throttle is one object's: each connection of a pool has its own, and
`CachePool` bounds their number. A handshake that is refused leaves a context that is
`"refused"`: connected, and answered with errors.

### Framing, HttpParser

`HttpParser` follows `http_parser_execute` state by state: one operator per group of `case`
labels, named for it, and `Round` for one turn of the loop. A parser is a record of the
struct's fields and the locals of one call (`pos`, and one mark, since at most one is open).
`reexecute_byte` is a call of the next state's operator. A byte is what moves the parser: a
word the code matches letter by letter (a method, a version, a header name, `chunked`) is
one byte. Where no such word is looked for it stands for its letters: `host` is a piece of an
URL and of another name, and any of them of a body or a value. One narrowing is left: a method
inside an URL or a name is an error here (the byte stands for the blank behind it, too).
`content_length` is computed modulo `Width`. A specification around it feeds a stream to one parser, in segments cut in every
way (`Feed`): that is how `http_parser` means to be used. The server never does: it makes a
new parser for the whole buffer each time, which is `ParseHttpContent`. `SameHoweverCut`
compares the two. The wrapper keeps the values of some headers, found by a flag that
`OnHeaderField` sets and the next `OnHeaderValue` clears; a name on a line without a colon has
no value, so its flag stays set and it takes the value of the next header that has one.
`FieldsBelongToTheirNames` allows for that and nothing else.

`Framing` is the same on tokens (method, URL, end of the headers, units of the body,
last chunk): a dozen lines that say when a request is complete. `ImplementsFraming` compares
what the wrapper extracts from every prefix of a stream with what `Framing` says of the
tokens that are complete in it. `HttpServer` builds on `Framing`.

### HttpServer

`Message(c, n)` delivers the next `n` tokens of what the client of `c` sends, for every `n`,
so every way to cut a request is covered. The buffer is never consumed, as in the code, and
`OnRead` parses all of it each time. `sm_httpMap` is indexed by a uuid modulo `UuidMod`,
which stands for 2^32, and keeps its entries. Responses are records of what was dispatched;
their text is left out.

### Startup

The file is a sequence of lines of words, and a key is a sequence of words as well, each of
which stands for some four characters; `Chunks`, `StripComment`, `Pair`, `TrimSpace` and
`Insert` are the steps of `_LoadFile`. Each manager opens its instances one by one
(`OpenPool`): it asks for what `snprintf` leaves of each key in its buffer (`Key`, cut at
`KeyMax`), stops at the first that lacks a setting, or whose server is down or refuses the
login (`Stop`), and is deleted then. `Servers` are the accounts that exist: host, port, user,
password and database (`Login`); `up` are those that are let in now. Two places read
uninitialised memory, and both are choices: `load_ok_` after a file that cannot be opened
(`Readers`), and the items `CStrExplode` counts and does not fill (`Junk`, `OpenJunk`). What a file *says* is defined apart from the reader's functions
(`Said`, `Setting`, `Between`), so that the properties compare the two. A file is `Complete`
when it lacks nothing a process needs: every setting is there under a key that fits its buffer
(`KeysFit`), no name is empty, and the accounts it names exist.

### Handlers

One action per statement, Redis command or external program, named after the function:
`RegFind`, `RegInsert`, `Login`, `LoginToken`, `UploadStore`, `UploadUrl`, `UploadInfo`,
`UploadOwner`, `SharePicture`, `BrowsePicture`, `CountShares`, `ListShares`, `Verify`,
`CountFiles`, `ListFiles`; `Acquire` and `NoConnection` are `getConn`/`GetCacheConn`, `Answer`
the end of the handler with its scope exits. Between actions other threads run, and
`Crash` may kill the process; tables and tokens survive, `Restart` makes new pools.
Here a pool is the number of its connections in use; that this is all a handler can see
of it is what `ImplementsPool` shows.

Two parameters describe the environment:

* `Faults`: what may go wrong (SQL errors, Redis, FastDFS and local file operations,
  connects, crashes).
* `Refused`: the statements MySQL rejects whatever the data. `AsShipped` is what the
  handlers' text meets in `sql/table.sql`: three statements begin with `selece`, two name
  columns the tables do not have, one runs two words together. With these, most of the
  code behind them never runs; the passing runs accept them (`AllAccepted`; `NoFiles`: all
  but two), as a schema and a spelling that fit would, and check the logic of that code. Each run says which it uses.

The form of an upload is a sequence of parts; `PartOf` finds a field behind the ones before
it, and takes the first part for `file_name`, as the code does. The body may end inside a part
(`~ends`): `strstr` returns NULL there and the handler goes on from it (`Cut`). It `fits` when no
field is longer than its array; otherwise copies overwrite each other. Whatever the form, the
arrays are not initialised and `strncpy` ends no field, so what is stored as a field is a pair:
what was copied and what stood behind it (`Behind`), which the tables keep. This is no fault to
be switched off; every run has it. A statement made of such a field may be no SQL (`Unclean`).

`VerifyToken` compares the user of the request with what Redis returns, and `Get` returns `""`
for an unknown token: a request of the user `""` is verified with any token, as in the code.

The handlers of `myfiles` and `sharepicture` choose by the `cmd` of the URL, and the router
lets no URL with a `cmd` through (`HttpServer.Route`); `Handlers` models them as if they
were reached with any command.

## 3. Runs

Passing runs:

| run | instance | shows |
|---|---|---|
| `DBPool_all` | 5 threads (1 with timeout), 1 to 2 connections, destroyable | `TypeOK`, `Ownership`, `WithinLimit`, `NoLostWakeup`, `NullOnlyWhenJustified`, `ImplementsPool`, and the liveness properties `ConnectionsKeepMoving`, `DestroyWakesEverybody` |
| `CachePool_all` | the same of `CachePool` | `TypeOK`, `Ownership`, `NoLostWakeup`, `NullOnlyWhenJustified`, `ImplementsPool` (with the limit), `ConnectionsKeepMoving`; `NothingLentAfterAbort` and `DestroyEnds` for what its destructor promises |
| `CacheConn_all` | all methods, with a password, over three seconds of three ticks | `TypeOK`, `AtMostOnce`, `ConnectsSpread`, and `DeadContextIsDropped` |
| `HttpServer_one` | 2 connections, one request each (with and without body, chunked, unknown path, with a `cmd`, `Connection: close`) | `TypeOK`, `ExtractsOneRequest`, `HandledAtMostOnce`, and `EveryClientAnswered` |
| `HttpParser_all` | ten requests, every pair of them, and every two bytes behind fourteen beginnings; cut in every way | `TypeOK`, `SameHoweverCut`, `ImplementsFraming`, `FieldsBelongToTheirNames` |
| `Handlers_all` | 2 threads, all handlers, pools of 1, all faults; statements accepted but the first insert of an upload and the count before a list of files (`NoFiles`) | `TypeOK`, `NoConnectionLeak`, and `RequestsKeepBeingAnswered` |
| `Handlers_stored` | uploads of one file by 2 users (forms in other shapes among them) and lists, all faults, statements accepted | `OwnedFileHasInfo`, `AcceptedUploadIsStored` |
| `Startup_all` | files for two MySQL instances and one Redis instance: complete, none, one line missing, emptied, commented out, spaced, repeated or with another value, lists of up to three characters, an instance whose key is cut; each account let in or not | `TypeOK`, `PoolsAsConfigured`, `RefusedForAReason` |

Runs whose property is what a comment, a log message or the schema says, and that TLC refutes:

| run | property | what the code does |
|---|---|---|
| `HttpServer_two` | `ExtractsOneRequest` | a second request is parsed behind the first |
| `HttpParser_length` | `LengthIsStated` | a `Content-Length` that wraps above its last value is taken for another length |
| `Handlers_password` | `RightPasswordLogsIn` | the right password is refused, a wrong one accepted |
| `Handlers_counted` | `CountMatchesOwners` | `count` is to be the number of owners (`table.sql:46`); when the second insert fails (`upload.cc:170`), the file counts one and has none |

### Other places where the code and its comments differ

The modules do in these places what the code does. Each is visible in a single step of
the definition named, so that no run is spent on it.

| where | definition | what the code does |
|---|---|---|
| `cache_pool.cc:58` | `Handshake` | "非空，连接是正常的" (not empty, the connection is normal): a failed AUTH or SELECT (`:104`, `:121`) leaves a context that the next `Init` takes for normal |
| `cache_pool.cc:174` | `StringMethods` | `Set` and `SetEx` return the text of the reply, of an error as of "OK" |
| `cache_pool.cc:534` | `CountMethods` | `Incr` ("原子加减1") returns the integer of an error reply, 0, like a success |
| `cache_pool.cc:776` | `ZsetReaders` | the zset methods use the reply before they ask whether it is NULL |
| `cache_pool.cc:112` | not modelled | `SELECT %d` with the constant 0, whatever `db_index_` is |
| `register.cc:73` | `RegInsert` | `registUser` returns 0, "success", for an insert that could not be prepared (`:108`), which as shipped is every one |
| `register.cc:160` | `RegFind` | answers code 0 for a user that exists, though `common.h:22` has a code for it |
| `login.cc:120` | `LoginToken` | answers with a token whether or not Redis took it |
| `upload.cc:65` | `UploadStore` | takes the text of an error for the id of a file |
| `myfiles.cc:56` | `CountFiles` | "获取文件个数" is the statement `selece count(*)`, which MySQL rejects |
| `myfiles.cc:213` | `HttpServer.Route` | documents `api/myfiles&cmd=count`; `url.cc:21` compares the whole URL, so that one with a `cmd` is answered 404 |
| `common.cc:142` | `Verify` | an unknown token belongs to the user `""`, whose requests are verified |
| `table.sql:46` | `UploadInfo` | `count` is to grow by one with every further owner; the unique key on `md5` refuses whoever uploads the file again, and nothing counts |
| `upload.cc:365` | `Copied` | "the information of this file" is stored, with what the array held behind it: the arrays of `:190-197` are not initialised and `strncpy` ends no text |
| `upload.cc:225` | `PartOf` | looks for `file_name` and then takes the value of the first part, whatever its name (`:232`) |
| `config_file_reader.cc:52` | `Chunks` | reads a line of more than 255 characters as two |
| `DBManager.cc:52` | `Key` | keys are cut at 63 characters, and another setting is looked up |
| `config_file_reader.cc:45` | `Readers` | `GetConfigName` asks `load_ok_`, which nobody sets to false |
| `util.cc:23` | `Items` | a separator at the start of an item becomes part of it; items that stay empty are not filled in |
| `http_parser.h:104` | not modelled | the map spells the method `M - SEARCH`, the parser takes `M-SEARCH` |
| `HttpConnection.cc:109` | not modelled | a response beyond 4096 bytes is cut off behind a `Content-Length` that counts all of it |
| `common.cc:163` | `RandomString`, `Restart` | `rand()` is not seeded: after a restart `urlmd5` repeats |

### Bounds, and why they are enough

* Pools: the interesting cases need a holder, a notified waiter, a parked waiter, and a
  caller that overtakes them or connects, over a pool that can still grow from one
  connection to two. Five threads (the server runs four) leave three to wait: with no more
  waiters than connections, every waiter is woken by some release, and whether the
  destructor notifies anybody would not matter. `CachePool` starts with two connections in
  the code and with one here, for the same reason. The theorems lift the bounds for safety.
* `CacheConn`: `MaxN` bounds the value of the key, and the number of `Incr` calls since
  another method last wrote it; their order against losses and restarts is all that
  matters. `TicksPerSecond` is 3, so that two connects may be a tick apart or a whole second and
  more; `MaxTime` leaves room for three of them. The theorems lift these bounds.
* `HttpServer`: connections do not interact but through uuids, so two suffice; bodies of up to
  three units distinguish first, middle and last.
* `HttpParser`: two requests on a stream, since what a message leaves behind is in the parser
  and the third would find the same; bodies contain bytes that mean something elsewhere.
  `HTTP_MAX_HEADER_SIZE` is 40 bytes, which the pair with the longest headers nearly fills
  and one stream of garbage passes. `Width` is 2^16 where no length overflows, and 2^8
  where three digits have to (`HttpParser_length`): 2^64 needs twenty.
* `Startup`: two instances in a list, to have one that is opened before another fails; lists
  of three characters put a separator, and two of them, in every place. `LineMax` is 12, which
  most lines fit and the longest spaced ones do not; `KeyMax` is 4 words, which every key of an
  instance with a name of one word fits and the longest key of one with two does not
  (`LongKeys`). The theorems lift the bounds.
* `Handlers`: `MaxToken` and `MaxShare` bound the data that grows without limit: a handler
  that would exceed them does not begin. Two threads are enough for each race between
  two statements; two users (and names, and nick names) tell apart the keys of the tables.
  In `Handlers_stored` the master pool has two connections: a thread keeps its connection
  between two statements, and with one there would be no race. In `Handlers_all` every pool
  has one, so that the handlers wait for each other, and no upload gets past its first
  insert (`NoFiles`): it has held its connection through the FastDFS programs by then, and
  the files it would store only add states.

Symmetry is used over the threads of `Handlers`, in the passing run without liveness.

`CHECK_DEADLOCK FALSE` is set where the system may stop: a destroyed `CachePool`, and
clients that have sent everything.

### Fairness

* Pools: strong fairness of `Proceed(t)` for each thread: a connect attempt ends, and a
  thread that competes for the mutex to release a connection, or because it has been
  woken or its time is over, gets it in the end. Strong, because the mutex comes and goes
  while others connect; justified, since critical sections are short and the kernel's
  mutexes do not starve a thread for ever. Nobody has to call, no connect has to succeed,
  and nothing is assumed of barging callers: so `ConnectionsKeepMoving` says that waiters
  as a group make progress, not that each one does, which the code does not give.
* `CacheConn`: handlers keep using the connection, by the two methods they call (`Get`,
  `SetEx`); the others may be called in between. A method that hits a missing reply it
  dereferences ends the process, and `DeadContextIsDropped` with it. A command that hangs
  is not considered: `redisCommand` has no timeout after the connect, and blocks with its
  thread.
* `HttpServer`: what a client began to send arrives, if it stays (`Fairness` is on the buffer
  alone: that its arrival is looked at is `onMessage`, and part of the step).
* `Handlers`: some thread that can take a step does (the IO threads run).

## 4. Proofs

Each theorem holds for every value of the constants that the module's named assumption
allows; where a theorem asks for more, its own `ASSUME` says so, and the reason is
below. `PROJECT.json` lists them.

### The pools

`DBPool_proofs` and `CachePool_proofs` prove, for every finite set of threads, every subset of
them with timeouts, every `MinConn` in `Nat` and every `MaxConn` in `Int` (the only
assumptions, `DBPoolAssumption` and `CachePoolAssumption`):

| theorem | statement | `DBPool_proofs` | `CachePool_proofs` |
|---|---|---|---|
| `ControlCorrect` | `Spec => []ControlInv` | yes | yes |
| `TypeCorrect` | `Spec => []TypeOK` | yes | yes |
| `OwnershipCorrect` | `Spec => []Ownership` | yes | yes |
| `LimitCorrect` | `Spec => []WithinLimit` | yes | part of `PoolRefinement` |
| `WakeupCorrect` | `Spec => []NoLostWakeup` | yes | yes |
| `RefusalsJustified` | `Spec => NullOnlyWhenJustified` | yes | yes |
| `NothingLent` | `Spec => NothingLentAfterAbort` | | yes |
| `PoolRefinement` | `Spec => ImplementsPool` | yes | yes |

The argument is in layers, each an inductive invariant relative to the ones below:

1. `ControlInv`: types, and how `pc`, `conn` and `m_mutex` go together. Its parts are
   `MutexOwner` (only a connecting thread keeps the mutex across a step, and it found the
   list empty and the pool below its limit), `HoldersHold` (holding is having a
   connection), `WaitOnlyAtLimit` (threads wait only when the pool cannot grow and
   sleep only in a live one) and, for `CachePool`, `StageInOrder` (the pool refuses to lend
   before anything is deleted). None of the properties is inductive without it: that
   `Created` takes the connection it has just made, for instance, is true only because the
   list is still empty.
2. `Ownership`: where the connections are. That `Created` makes a *new* one needs
   `NothingLost` (all that exist are numbered up to the count). In `CachePool` the list holds
   deleted connections between two steps of the destructor; that nobody gets one follows
   from `abort_request_`, which every way into `PopFront` has found false.
3. `NoLostWakeup`: each free connection has a woken thread if somebody sleeps. It needs
   `WaitOnlyAtLimit` for `Created` and counts threads with the lemma `OneMoreOneLess`.
4. The action properties and the refinements follow from 1 and 2, step by step.

`StepCases` splits a step into eleven cases (thirteen for `CachePool`), so that `PopFront` and
the ways out without a connection, which several actions end in, are treated once.
`Lemmas` has the facts on the list (append, tail, the initial list) and on counting.

### The Redis connection

`CacheConn_proofs`, for any set of methods, any number of ticks to a second and any bound on the
key:

| theorem | property | argument |
|---|---|---|
| `ConnTypeCorrect`, `CountsOnce` | `TypeOK`, `AtMostOnce` | proved together, since what `Incr` does depends on the type of the key; by the outcome of a call (not ready, answered, lost and executed, lost before) |
| `ConnectsAreSpread` | `ConnectsSpread` | the inductive `Spread`: each connect so far was tried in a second of its own, none later than `last_connect_time_`. Two with a second between theirs are more than a second apart, whatever part of it each was tried in (`SecondFacts`, the division) |

### The handlers

`Handlers_proofs`, for any finite set of threads, any requests, faults and refused
statements, any pool sizes from one up:

| theorem | property | also assumes |
|---|---|---|
| `HandlersTypeCorrect` | `TypeOK`, with the pools within their sizes | |
| `NothingKept` | `NoConnectionLeak` | `"count_files" \in Refused` |
| `OwnedFilesHaveInfo` | `OwnedFileHasInfo` | |
| `AcceptedUploadsAreStored` | `AcceptedUploadIsStored` | |

1. `ControlInv`: the step a thread is at fits its request (`OpsAt`), and says which pool's
   connection it has (`InPlace`). `StepCases` brings the actions of a thread down to six ways
   on: it acquires, answers, goes on with or without its connection, stores, or the process dies.
2. `RoomInv`: the connections in use and the leaked ones fit the pools, and tokens and shares
   stay within their bounds. It counts threads (`HeldStep`), so it needs 1.
3. `FileInv`: a thread between the two inserts of an upload stores an md5 that is in `file_info`
   (`BetweenStatements`), so the second insert finds the row the first one made, even when
   others are at it at the same time: rows are made and never go away (`FilesStay`). A crash there
   leaves a row without an owner, which is why `OwnedFileHasInfo` is one-directional; that the
   other direction fails is the run `Handlers_counted`.
4. `StoredAsAsked`: what a thread on its way to the inserts will store begins with what the fields
   of its form say, when they fit their arrays, and no later step changes that. `FieldFacts`
   proves that `PartOf`, looking for each field behind the ones before it, finds in a form that
   `Describes` the upload the parts it should. `UploadAnswers` says that 0 is the answer of the
   second insert alone.

With a spelling of `count_files` that MySQL accepts, `ListFiles` can be reached, and it does keep a
connection on one of its paths: `NothingKept` says that as shipped this path is dead, and its
invariant `NoListing` is the reason. Without the assumption the statement is false. So
`NoConnectionLeak` is about all the other paths; it does not watch this one.

### The HTTP parser

`HttpParser_proofs`, for any set of streams of any bytes, cut into any segments, for any limit
`HTTP_MAX_HEADER_SIZE` and any `Width` above 16 (`HttpParserAssumption`; a digit of a chunk's
size is at most 15):

| theorem | property |
|---|---|
| `ParserTypeOK` | `TypeOK` |
| `ParserSameHoweverCut` | `SameHoweverCut` |
| `ParserFieldsBelong` | `FieldsBelongToTheirNames` |

The three build on one another. Each has a lemma for every state of the parser, one that puts
them together for `Dispatch`, one for `Round`, and an induction over the loop.

1. `Inside` is the invariant of the loop: `Typed`, and `Marked`, which says what is open in
   which state (an URL in the URL's states, a name in `s_header_field`, a value in
   `s_header_value`, at most a body where a body is read, nothing elsewhere) and that a body
   that is being read has a unit left. A call for data opens the mark again by the state alone
   (`Resume`), so `Marked` is what a parser keeps between two calls (`Rests`). A round takes at
   least one byte (`LoopStops`), so that the loop, a function of as many steps as there are
   bytes, ends where the code's does.
2. For the cut, two parsers: `x` with all of the bytes in its buffer, `z` with those behind the
   cut. They are `Linked` when they have the same state and nothing is marked (`Level`), or the
   same byte is (`Abreast`), or `x` marked something in front of the cut, of which `z`'s caller
   has been given the first piece already (`Behind`), or `x` has and `z` has not marked the rest
   of a body yet (`Fresh`). `RoundLinks` takes two such parsers to two such parsers, and when a
   mark is closed the callers have been given the same (`ClosedLinks`): one piece, or two that
   `Delivered` puts together. In front of the cut a parser does the same in a buffer that ends
   there as in the longer one (`RoundSame`), except when a body crosses the cut:
   `ReadBodyTwice` adds the two reads up. `FirstPartAll` and `SecondPartAll` are the inductions
   over the bytes that are left on either side, and `CutAnywhere` says of two calls that they
   are one. The theorem is then an induction over the segments, since a new parser has
   nothing to open again (`InitResumes`).
3. For the wrapper, `Telling` is the invariant of the loop: the callbacks so far leave the
   wrapper with values that belong to their names, and each flag that is set has a name in front
   of the parser, with nothing but a colon and blanks behind it, or with the end of its line
   (`Awaits`). What is marked was marked in this call, behind that name. Most states are
   `Hushed`: they make no callback that names a header. `ValueTold` is the callback for a value, at its end or at the
   end of the buffer (`FlushedTells`).

### The HTTP server

`HttpServer_proofs`:

| theorem | property | also assumes |
|---|---|---|
| `ServerTypeCorrect` | `TypeOK` | |
| `RequestsHandledOnce` | `HandledAtMostOnce` | finitely many connections, at most `UuidMod`; one request per client |
| `OneRequestExtracted` | `ExtractsOneRequest` | the same |

A client that sends a second request on its connection is what `HttpServer_two` refutes, and
`UuidMod` stands for 2^32 connections between two of which the number repeats: neither
assumption can be dropped. What is proved is that however the bytes of a request are cut,
and although the whole buffer is parsed again for every segment:

1. `ParsePrefix`: parsing the first `n` tokens of a request gives a whole message exactly when
   `n` is all of them, for each of the three kinds of body (none, a length, chunks). It is an
   induction over the recursive function that `Framing` defines, from `NothingRead` by one
   lemma for each kind of token (`ConsumeMethod` to `ConsumeLast`).
2. `Received`, `ServerTypes`: the buffer is a prefix of what the client sends.
3. `OwnContext`: the uuid in a connection's context leads to the `HttpConnection` made for it.
   This is where the number of connections counts.
4. `AnsweredWhenWhole`: what has been sent on a connection is nothing, or one reply, when the buffer
   is the whole request, and that reply was made of its URL and body.

### The startup

`Startup_proofs`, for any set of files and accounts and any length of a line and of a key:

| theorem | property |
|---|---|
| `StartupTypeCorrect` | `TypeOK` |
| `ServesWhatIsConfigured` | `PoolsAsConfigured` |
| `RefusesForAReason` | `RefusedForAReason` |

Both properties compare the reader with what the file says, defined apart from it, and the
proofs are about the functions that read, for files of every length:

* `LineFacts`, `ConfigFacts`: the map `_LoadFile` builds line by line, with its two calls of
  `TrimSpace`, its comments and its `insert`, which keeps the first of two, finds for each key
  what `Setting` says (an induction over the lines, `TellsStep`).
* `ItemsBetween`, `ExplodeFacts`: the items of `CStrExplode` are the names between commas; or
  some are not filled in, and then the list has an empty name, so that the file is not
  `Complete`. This is why uninitialised items cannot harm a process whose list is in order.
* `StartupInv` adds four invariants to `TypeOK`: `ReaderInv` and `SettingsInv` (a reader, and what upload
  was given, are what the file says), `OpenInv` (the instances already opened and those still to be
  opened together are the list; `OneMoreOpen`), `ReasonInv` (a manager that gave up found
  something missing, `Lacks`, or an account that is not let in). `KeyKept` says that a key that
  fits is asked for whole; without `KeysFit` neither theorem would be true.

`StartupAssumption` asks that `NULL` and `Junk` are none of the texts, and that files are
sequences of lines.

### Induction, and recursive functions

The library's induction theorems take an operator as their parameter. `Lemmas` states
induction over sets instead: a set of numbers that has 0 and, with each number, the
next, is `Nat` (`Induction`; `BoundedInduction` up to a last number), which follows from
`LeastElement`, an instance of well-foundedness with sets for parameters. `RecursiveFunction`
says on the same ground that a function defined by `f[n \in 0 .. m] == IF n = 0 THEN b ELSE ...`
exists and unfolds. So what `ParseTokens`, `ConfigMap` and `Items` compute is proved for
inputs of every length.

`CASE` in TLA+ chooses among all arms that are true, where the code, and TLC, take the first:
the arms in these modules exclude each other.

### Only model-checked

* Liveness under fairness: `ConnectionsKeepMoving`, `DestroyWakesEverybody`, `DestroyEnds`,
  `DeadContextIsDropped`, `EveryClientAnswered`, `RequestsKeepBeingAnswered`. The provers
  have neither fairness nor `ENABLED`.
* `ImplementsFraming`: that the bytes of a stream say what its tokens say is data of `Streams`,
  which TLC has and an assumption would have to state word by word. For `Framing` itself,
  `ParsePrefix` is the corresponding theorem.
* What the runs that expect a violation refute is false, so there is nothing to prove.

## 5. Not modelled

* `apiMd5`: not in the repository, though it is called and in the build.
* The race on `sm_httpMap`: four threads use a `std::map` without a lock; what happens
  inside it is not a state of this model, which takes its operations as atomic.
* The text of SQL, JSON and HTTP responses, including responses beyond 4096 bytes.
* In `http_parser` (vendored): responses, the letters of methods, versions and header names,
  `http_parser_parse_url` and `http_parser_pause`, which nobody calls.
* A child process whose `exec` fails and which goes on as a second server.
* Master and slave databases are one: replication delay is not in the code.
* `SetConfigValue` and `_WriteFIle`, the functions of `util.cc` but `CStrExplode`, the transactions
  and `executeCreate`/`executeDrop` of `DBConn`: nobody in the repository calls them.
* A clock that is set back (`time(NULL)` is the wall clock): `Init` would not connect until it has
  caught up with `last_connect_time_`.
* The id of a file in FastDFS and the suffix of its name; passwords, phones and mail addresses.
* `TrimSpace` and `GetFileSuffix` of `api/common.cc` (file names), and `QueryParseKeyValue`, which
  looks for a key anywhere in the URL, a longer key's end included (`common.cc:105`): its
  result is one of the commands `Handlers` tries in any case.
* Memory that is leaked (result sets) or freed too early (`register.cc:116`).

## 6. Plan

Done: both pools with refinement and proofs, the Redis connection, the HTTP layer down to
the bytes with its parser proved, the handlers, the startup.

1. *Compose.* `ImageHost`: threads that own connections of `HttpServer`, run `Handlers` and use
   the pools of `DBPool`, to check that the counters of `Handlers` are what the pools give.
2. *Prove.* `ImplementsFraming`, from a description of how tokens are spelled in bytes that
   `Streams` would have to satisfy; its steps would be the lemmas of `HttpParser_proofs`, one token
   at a time.
3. *Prove.* That the counters of `Handlers` are what `ConnectionPool` gives, once they are composed.
