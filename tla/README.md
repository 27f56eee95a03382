# TLA+ verification of ObjFW

ObjFW is an Objective-C framework: an object system with a runtime of its own,
collections and strings, and, on top, threads, run loops, streams, sockets and
network clients and servers. This directory models the part of it in which
control is hard to follow by reading or to exercise by a test: threads that share
a queue, a run loop whose delegates change what it is iterating over, timers
that other threads reschedule, a resolver that races timeouts against replies,
the locks behind `@synchronized`, lookups and connects that travel in timers, a
client that writes to a connection its server may have closed, and the data
structures and buffers whose contents move while they are used.

TLC checks the models on small instances; TLAPS proves most of the safety
properties and the three refinements for every instance. Paths below are relative to the root of the repository's library,
`src/`.

## 1. Inventory

The state each part keeps, what it does, whom it talks to, what is hard, and what
makes it correct. The parts marked with a module name are modelled.

### Threads

* **Thread pool** (`OFThreadPool.m`; *OFThreadPool*). State: a list of jobs, two
  counters (dispatched, done), two conditions, one `_terminate` flag per worker.
  Operations: the workers' `main`, `dispatch...`, `waitUntilDone`, `dealloc`. The
  workers write the counter through a pointer into the pool object, which they do
  not retain. Hard: a job is counted in one critical section and queued in
  another, so a waiter may look in between; the pool may be freed while a worker
  is about to count. Correct when every dispatched job runs once, `waitUntilDone`
  returns when and only when all are done, and nobody touches a freed pool.
* **Threads, mutexes, conditions, once** (`OFThread.m`, `OFMutex.m`,
  `OFRecursiveMutex.m`, `OFCondition.m`, `platform/posix/`, `once.m`, `atomic*.h`).
  State: whether a thread runs, its run loop (made lazily, by compare and swap),
  its return value. Hard: `start` marks a thread as running before the system has
  created it; two threads ask for a run loop at once; a timed wait passes a
  relative time to a call that takes an absolute one.

### Run loop

* **Requests and observers** (`OFRunLoop.m`, `OFKernelEventObserver.m`,
  `OFEpollKernelEventObserver.m`, `OFPollKernelEventObserver.m`; *OFRunLoopIO*).
  State: per direction, a dictionary from objects to lists of requests; in the
  observer, the array of observed objects, what it believes it watches per
  descriptor, and what the kernel watches. Operations: submit a request (lists of
  the different kinds of read, write, accept, connect), cancel all requests of an
  object, wait, deliver. Hard: delegates run in the middle of a batch and may
  submit, cancel, open and close anything, their own object included; adding to
  the observer may throw half way; descriptor numbers are reused. Correct when
  requests of an object are served first come, first served, none after it was
  cancelled, and the three books (queues, observer, kernel) agree.
* **Timers** (`OFRunLoop.m`, `OFTimer.m`, `OFSortedList.m`; *OFRunLoopTimers*).
  State: a queue sorted by fire date under a mutex, a mark in each timer that says
  which run loop it is in, a pipe that wakes the observer, a stop flag. Operations:
  add, set the fire date, fire, invalidate, stop, run. Hard: any thread adds and
  reschedules while the loop takes, fires and waits. Correct when the queue is
  sorted, no wake-up is lost, and what the mark says is true.
* **Waiting for a timer** (`OFTimer.m:664`; *OFRunLoopTimers*). A condition and a flag per
  timer. Hard: waits begin before, while and after the timer fires. Correct when a
  wait for a timer that fires ends.

### Network

* **DNS queries** (`OFDNSResolver.m`; *OFDNSResolver*). State: a context per
  query (server, attempt, timer, TCP socket), a dictionary from IDs to contexts,
  one from TCP sockets to contexts, one receive pending on each UDP socket.
  Operations: perform a query, handle a UDP reply, connect and read over TCP,
  time out, close. Hard: replies are late, duplicated and lost; a connection is
  reported after it was given up. Correct when each delegate is called once, no
  wait is without a timer, and the number of packets is bounded.
* **Hosts** (`OFHostAddressResolver.m`; *OFHostAddressResolver*). One or two queries per host, a counter of
  responses outstanding, an index into the search domains, addresses gathered.
  Correct when the host's delegate is called once, with everything gathered.
* **Connecting** (`OFIPSocketAsyncConnector.m`, `OFTCPSocketSOCKS5Connector.m`;
  *OFIPSocketAsyncConnector*, *OFTCPSocketSOCKS5Connector*).
  The addresses of a host in order, one attempt at a time, the next one started by
  a timer; then, maybe, the SOCKS handshake. Hard: nothing recalls a result or an
  attempt that is on its way in a timer, while the application closes the socket
  or connects it again. Correct when the outcome is reported once, is a success only
  if the socket is connected, and a failure only if every address was tried.
* **HTTP** (`OFHTTPClient.m`, `OFHTTPServer.m`, `OFHTTPCookieManager.m`;
  *OFHTTPClient*, *OFHTTPClientResponse*). The
  client keeps one connection and its last response for the next request; bodies
  are streams with a length or in chunks. Hard: a kept connection that the server
  has closed, redirects, a stream that returns any number of bytes at a time. Correct
  when a request is answered once and by its own reply, and a body is delivered
  whole, in order, and no further than its end. The server and the cookies are
  not modelled.
* **Sockets** (`OFStreamSocket.m`, `OFDatagramSocket.m`, ...). Wrappers of system
  calls; to the run loop a socket is a descriptor that becomes ready.

### Runtime

* **`@synchronized`** (`runtime/synchronized.m`; *ObjCSync*). State: a list of
  locks, each with an object, a count and a recursive mutex, under one mutex.
  Operations: enter, exit. Hard: a thread waits for a lock after it has released
  the mutex of the list, and the last one out frees the lock. Correct when it is a
  recursive monitor per object.
* **Reference counts and weak references** (`OFObject.m`, `runtime/arc.m`,
  `runtime/instance.m`). A hash table from objects to the locations of weak
  references, under a spinlock. Hard: a load retains after it has left the lock.
* **Autorelease pools** (`runtime/autorelease.m`; *AutoreleasePools*). One array per
  thread, popped while the objects released may add to it. Correct when each object is
  released once, by the pop of its pool.
* **Classes, selectors, dispatch** (`runtime/class.m`, `selector.m`, `dtable.m`,
  `sparsearray.m`, `hashtable.m`, `category.m`, ...). Global tables under one
  mutex; the order in which classes are set up, loaded and initialised.
* **Exceptions, forwarding, invocation** (`runtime/exception.m`, `forwarding/`,
  `invocation/`, `runtime/lookup-asm/`). Unwinding tables and assembly.
* **Properties** (`runtime/property.m`). A spinlock per slot.

### Data

* **Hash map** (`OFMapTable.m`; *OFMapTable*). Open addressing with tombstones, resizing in both
  directions, a mutation counter for enumerators. Correct when it is a map and an
  enumeration meets every key once or fails.
* **Other collections** (`OFList.m`, `OFSortedList.m`, arrays, sets, dictionaries).
  A count beside the elements; class clusters around the map and the array.
* **Streams** (`OFStream.m`; *OFStream*). A read buffer that small reads go through and large
  ones go around, a write buffer. Correct when bytes come out in order.
* **Archives and compression** (`OFInflateStream.m`, `OFLHADecompressingStream.m`,
  `OFZIPArchive.m`, ...), **parsers** (JSON, XML, INI, MessagePack, ASN.1, property
  lists, URLs), **strings and Unicode**, **hashes**, **values and dates**: pure or
  sequential code on data, fixed by formats and test vectors.

### The rest

Processes, files, sandbox, settings, locale, plugins, the application object, the
command line tools, the generators and the tests.

### How they interact

The run loop is the hub. Streams, sockets and the resolver submit requests to the
run loop of the current thread and are called back from it; a connect that has
succeeded is reported by a timer; a timeout of the resolver is a timer; the
connector starts its next attempt by a timer. A delegate therefore always runs
inside `-[OFRunLoop runMode:beforeDate:]`, between two entries of a batch or as
the target of a timer, and everything it calls runs there as well. Only
three things cross threads: timers are added to, moved in and removed from another
thread's loop; a loop is stopped from outside; and the pool's workers and callers
share its list and counters. Everything above locks with OFMutex, OFCondition or
`@synchronized`.

## 2. Modules

| module | what it is |
| --- | --- |
| `JobPool` | what a thread pool promises: jobs, a bound on how many run, waiting |
| `OFThreadPool` | `OFThreadPool.m`, one program counter per thread |
| `OFThreadPool_proofs` | theorems about it |
| `AsyncRequests` | what asynchronous I/O promises: a queue of requests per object and direction |
| `OFRunLoopIO` | the request queues of a run loop and its observer, over epoll and poll |
| `OFRunLoopIO_proofs` | theorems about it |
| `OFRunLoopTimers` | the timer queue of a run loop, its wake-up pipe and `stop` |
| `OFRunLoopTimers_proofs` | theorems about it |
| `OFDNSResolver` | the queries of a resolver |
| `OFDNSResolver_proofs` | theorems about it |
| `OFHostAddressResolver` | the lookup of a host: queries, search domains, aliases |
| `OFTCPSocketSOCKS5Connector` | the SOCKS5 handshake |
| `OFIPSocketAsyncConnector` | connects of one socket; composes the two above |
| `OFIPSocketAsyncConnector_proofs` | theorems about the three |
| `OFHTTPClient` | a client, its kept connection, redirects; servers |
| `OFHTTPClient_proofs` | theorems about it |
| `OFStream` | the read buffer of a stream, as functions |
| `OFHTTPClientResponse` | the body of a response, over two such buffers |
| `OFMapTable` | the map table and its enumerators |
| `AutoreleasePools` | the pools of one thread |
| `Foundation_proofs` | theorems about `OFMapTable`, `OFHTTPClientResponse` and `AutoreleasePools` |
| `Monitors` | what `@synchronized` promises: recursive mutual exclusion per object |
| `ObjCSync` | `objc_sync_enter` and `objc_sync_exit` over recursive mutexes |
| `ObjCSync_proofs` | theorems about it |
| `MC...` | instances for TLC |

In every module a definition that is followed by another one which differs in a
detail (`TakeJob` and `PeekJob`, `Sent` and `SentWithoutTimer`, ...) is a *variant*:
a plausible slip in the code. Each property was validated by replacing the
definition by its variant and seeing the property fail. Variants are used by no
specification.

### OFThreadPool

Every thread has a program counter. A critical section that nothing can look into
is one action, guarded by its mutex being free. The worker's section on the count
mutex and the two nested sections of `dealloc` hold their mutexes over several
actions, because `_terminate` is read without a lock as well. A thread in
`-[OFCondition wait]` has left the mutex and returns by a signal, a broadcast or
a spurious wake-up. Clients hold references; the one that gives back the last one
runs `dealloc`. `performed` counts, for each job, how often it ran (history).

### OFRunLoopIO

Single-threaded. Between two batches, or inside a delegate (`frame`), the program
may open, close, submit and cancel on any object; `Disciplined = TRUE` restricts
it to submitting on open objects and cancelling before closing, which is how
the callers in the library use it. `observer` has the four books of an observer (objects per
direction, events per descriptor, what the kernel watches, whom an event goes to),
and the differences of epoll and poll: epoll refuses regular files and
inconsistent changes, forgets a closed descriptor, and fixes the receiver at
registration, poll looks the receiver up at delivery and reports a hang-up
unasked. `batch` is what is left to be delivered from one wait. A list is its
items and its `_count`, which `removeAllObjects` does not reset. A request is
"plain", "rearming" (it resets itself when its delegate wants more) or a connect.

### OFRunLoopTimers

One thread runs the loop, others add, reschedule and stop; dates are relative to
the present and `Tick` lets time pass. A section under the mutex of the queue is
one action; marking the timer and writing to the pipe come after it and are
actions of their own. The loop's iteration (`check`, `scan`, `next`, `observe`)
follows `runMode:beforeDate:`, two sections apart. `waitUntilDone` is one action
up to the wait and one for a wake-up without reason; the other way out of it is the
signal at the end of `fire` (`Fired`).

### OFDNSResolver

A context is a record: in the dictionary (`live`), timer armed, server and attempt
indices, whether TCP is used and how far the connection is. A reply is what the
resolver does with it: "final", "next" (another server is tried) or "truncated"
(go over to TCP). Packets once sent stay in `asked`: a reply may come late, twice
or never. `aborted` records a failed `OF_ENSURE`. `close` calls every
delegate and leaves timers armed, as the code does. With no name servers a query
fails at once.

### ObjCSync

`objc_sync_enter` and `objc_sync_exit` step by step: take the mutex of the list,
find or make a lock, count, release the list, wait for the recursive mutex; and
back. A freed lock returns to a pool from which the next one is allocated, so
that a stale pointer would find another object's lock. `held` (history) is how
often a thread is inside an object. The recursive mutex is the one
`platform/posix/mutex.m` builds from a mutex and thread-specific storage, or the
system's: both are an owner and a depth.

### OFHostAddressResolver, OFTCPSocketSOCKS5Connector, OFIPSocketAsyncConnector

One socket and the connects it is asked for, one after the other or not. The
phase of a connect says where it is: idle, waiting for its host, for the run
loop to report an attempt, for the timer of the
next attempt, for an answer of the proxy, for the timer that reports, or ended.
The application may close the socket and connect it again at any point a timer
of the run loop leaves it, its delegate's calls included. `results` and `due` are
the timers that carry the outcome of a lookup, `told` (history) is what each
delegate was told, with what was true of the socket then. What a name server
answers to a query is an error, or a sequence of addresses and a number of aliases; that each query is
answered once is taken from `OFDNSResolver`'s `CalledOnce` and
`AnsweredEventually`. Without name servers a query is answered inside the call
that asks it, as the resolver does. The proxy may answer, refuse or stop half way; what is
read of it are the replies the handlers tell apart.

### OFHTTPClient, OFHTTPClientResponse, OFStream

`OFHTTPClient` has one client and the connections it makes. `kept` is the group of
variables that belong to the connection kept, `handler` the request handler at
work, by what it waits for. A connection has what its server was asked and the
bytes on their way to the client, as heads and pieces of bodies, each marked with
the request it was sent for; a response that reads a byte of another one's sets
`misread`. Servers answer in order, close where the protocol says so, and
disconnect whenever they like, which the client may notice late. The application
reads bodies or does not, closes responses and the client; it does not read the
body of a response to a HEAD request, which has none.

`OFHTTPClientResponse` reads one body, byte by byte, from a socket that returns
any number of bytes, through `OFStream`'s read buffer twice: that of the
response and that of the socket. `OFStream` is therefore written as functions from a
buffer, a length and the possible outcomes of the read below to the possible outcomes.
What a server sends is not this code's: `IsMessage` says what is taken for a response (a body,
sent as it is or in chunks that end with an empty one; the bytes of the next response
behind it; or only the first part of it, before the connection ended), and
TLC checks that the messages of the instance are such. A chunk's size is one byte (`Size`) of the model.

### OFMapTable, AutoreleasePools

A table is its capacity, its count and a function from positions to buckets; a
hash is a home position in the largest table, of which the capacity takes the
remainder. One enumerator at a time is at work. `contents` (history) is the map
the table should be. A search is the place the fewest steps from the home of a key among
those that end it (`Search`); rehashing goes through the places of the old table in order,
as a function of how many were done (`InOrder`; `Moved`, `Copied`). In `AutoreleasePools` `frames` is the stack of the C functions
at work: the release of an object in a pop may run code that autoreleases, pushes
and pops.

## 3. Runs

| run | cfg | instance | distinct states | shows |
| --- | --- | --- | --- | --- |
| `thread_pool` | `ThreadPool.cfg` | 2 workers, 2 clients (1 waits), 3 jobs | 61,757 | the pool is an implementation of `JobPool`, frees safely and is live |
| `thread_pool_two_waiters` | `ThreadPoolTwoWaiters.cfg` | 1 worker, 2 waiting clients, 1 job | 425 | **violation**: a second waiter sleeps for ever |
| `run_loop_io` | `RunLoopIO.cfg` | 2 sockets and a file, 2 descriptors, 3 requests, epoll and poll | 666,992 | the books agree, requests are queues |
| `run_loop_batch` | `RunLoopBatch.cfg` | 2 objects, 2 requests, epoll | (stops at the violation) | **violation**: `assert(queue != nil)` fails |
| `run_loop_freed` | `RunLoopFreed.cfg` | 1 object, 2 requests, epoll | (stops at the violation) | **violation**: a cancelled request is written to |
| `timers` | `Timers.cfg` | 2 timers (1 repeats, 1 is rescheduled), 2 other threads (1 waits) | 918,636 | sorted queue, no lost wake-up, waits return, `stop` ends the loop |
| `timers_dealloc` | `TimersDealloc.cfg` | 1 timer, 1 other thread | (stops at the violation) | **violation**: a freed timer is marked as in a run loop |
| `dns_resolver` | `DNSResolver.cfg` | 2 queries, 2 servers, 2 attempts | 1,031,480 | one answer each, bounded retries, liveness |
| `dns_ensures` | `DNSEnsures.cfg` | 1 query, 2 servers, 1 attempt | (stops at the violation) | **violation**: the `OF_ENSURE` of line 1084 fails |
| `objc_sync` | `ObjCSync.cfg` | 3 threads, 2 objects, 3 locks, nesting 2 | 104,019 | implements `Monitors`, exact counts, calls return |
| `connect` | `Connect.cfg` | 2 connects (1 by name), 2 domains, 2 addresses | 651,884 | lookups end once, delegates are told once and the truth, every connect ends |
| `foundation` | `Foundation.cfg` | see *Bounds* | 973,252 | four sequential parts do what they promise |

The four parts of `foundation` share no state in the code, so the instance runs
one of them per behaviour (`part`) rather than their product.

All runs set `CHECK_DEADLOCK FALSE`: in each of them the system may rightly come
to rest (all workers gone, no requests left, the loop stopped, the program
aborted, every connect reported, a body read, an object released or a request
answered), and the ends that would be wrong are what the liveness properties
exclude.

### Properties

* Pool: `NoUseAfterFree` (nobody increments the counter of a freed pool),
  `Accounting` (dispatched = done + queued + in hands + about to be queued),
  `WaitMeansDone` (action property on the return of
  `waitUntilDone`), `ImplementsJobPool` (refinement, which
  includes that a job is performed at most once), and under fairness
  `WaitReturns` (one waiter), `JobsGetPerformed`, `WorkersExit`.
* Run loop I/O: `WatchedIffPending` (queues, observer and kernel agree about every
  object, and a descriptor's events go to its present owner), `CountsAgree` (the
  count of a list is exact, and for any program at least never too low),
  `OnlyRefusedLeaveEmptyQueues` (an empty queue, which a later cancel aborts on,
  can only be left by an object the kernel refuses), `ImplementsAsyncRequests`.
* Timers: `Sorted`, `QueuedIsMarked`, and under fairness `AddedTimerFires`, `WaitReturns`
  (a thread that waits alone while the timer fires) and `StopEndsLoop`, all with the exception of
  a full pipe, which is a real hazard of the code and is named in the property.
* DNS: `CalledOnce`, `LiveHasTimer`, `SendsBounded`, and under fairness
  `AnsweredEventually`. `ReportHasContext` (a connection reported is one the resolver
  still knows) is the one the run `dns_ensures` refutes.
* `@synchronized`: `OneLockPerObject`, `NoFreedLockUsed`, `CountAgrees`,
  `ExitsFind`, `IsMonitors` (refinement), and under fairness `Returns`.
* Connects: `OneRoundAtATime` (the count that decides when a lookup is over is that of
  the queries still out, which are of one search domain, and none is left when
  the delegate is called), `ToldOnce`, `ToldTruth` (success: the socket is
  connected, through the proxy if there is one, unless the application meddled;
  failure: every address was tried), and under fairness `ConnectEnds` (every connect
  left alone is reported).
* HTTP: `OwnAnswers` (a request is told of once, with its own response or a failure of
  the network, over whatever connection and however often it was sent; the client
  reads nothing for what it is not, and is not left in progress for nothing but a
  closed response of the connection it kept),
  `BodyInOrder` (what the application reads is the body from its start, the
  end is reported after all of it, and what follows is left for the next response).
* Map: `IsDictionary` (it holds what was put into it, in one bucket per key, all of
  them reachable, however it grew and shrank), `EnumeratesOnce` (an enumeration that has
  not thrown meets every key once).
* Pools: `ReleasedOnce` (each autoreleased object is released once, by the pop of its pool
  or of one around it, and no other; the array has room for what it holds).

### Bounds, and why they are enough

* Pool: two workers race for the list and for the count; a third would only
  repeat either role. Three jobs let one be queued, one be in a worker's hands
  and one be between the two sections of a dispatch. The second client dispatches
  and releases while the first waits.
* Run loop I/O: two descriptors for three objects force reuse of a number; three
  requests give a queue of two on one object while another has one; one object is
  a regular file. Items are symmetric; objects are not, since one is a file.
* Timers: two timers give an order to get wrong; `MaxDelay = 1` distinguishes due,
  next and, with `Tick`, a date that changes while queued. Two other threads can
  both be between inserting and marking; one of them waits for the timer that
  repeats, so that it waits before, between and after firings. `PipeSize = 3` fills within one iteration
  and leaves room for wake-ups that overtake one another. A loop already stopped
  is not stopped again.
* DNS: two servers and two attempts make both counters wrap; two queries share the
  UDP socket's receive. No further bound is needed: retries are finite because
  the code bounds them, and a late packet is a member of a finite set.
* `@synchronized`: three threads are one inside, one that waits for the lock and
  one that looks it up; two objects and three locks let memory be reused for
  another object while a third lock is free. `MaxNesting = 2` is the first depth at which an
  exit does not leave.
* Connects: one connect by name and one by address are enough to meet each other on
  one socket. Two families, two search domains (`MaxDomains`), one alias
  (`MaxAliases`, which the code does not bound) and two addresses make each of the
  indices advance and end; the answers (`MCAnswers`) are two kinds of failure, none, one and two
  addresses, an alias, and one with its address. With and without name servers, a proxy, and a dot in the name.
* Map: four keys, two values; `MinCapacity = 4` (16 in the code) and
  `MaxCapacity = 8` let four keys fill the table to where it grows and leave it to
  where it shrinks, with chains that run into each other and around the end.
  Copying is allowed up to `MaxCapacity`.
* Body: three bytes in one or two chunks, or with a length, or up to the end of the
  connection, followed by the next response or cut off at any byte; reads of up to
  four bytes with `MinReadSize = 3` (512) and `PageSize = 4` (the system's) go
  through and around both buffers.
* Pools: five objects (`MaxObjects`), two pools open, three frames (`MaxDepth`): a pop inside
  the release of an object of another one, and an array (`FirstSize = 2`) that
  grows twice, once during a pop.
* HTTP client: two requests, two hosts, one redirect (`Redirects`, 10 in the code),
  three connections (`MaxConnections`; the code bounds them only by how often a
  server closes without an answer): the first request uses two, one of them kept, and
  the second finds it closed. The five replies are kept or dropped under either
  version, with a body that ends, is empty or goes on to the end of the connection.

### Fairness, and why the code justifies it

* Pool: strong fairness of each thread's step. A step that needs a mutex is
  enabled again and again while others take turns; a mutex and the scheduler of
  the system let a thread in eventually. Wake-ups are *not* assumed: a spurious
  wake-up is in no fairness condition, so a missing signal is found.
* Timers: weak fairness of the loop, of time and of each other thread within an
  operation it has begun. No thread is obliged to begin one. The mutex of the
  queue never spans an action, so weak fairness is enough.
* DNS: weak fairness of each query's timeout only, which the timers of the run
  loop justify. The network owes nothing.
* Connects: weak fairness of every step a run loop that keeps running takes for a
  connect: answers to queries (`AnsweredEventually` of the resolver), results of
  attempts (the kernel's timeout), requests of the handshake, and timers. The application's closing and connecting has none.
* `@synchronized`: strong fairness of each thread's step inside a call, as in the
  pool; `Returns` adds the client's part, that nobody stays inside for ever.

## 4. Where the code departs from what it says

Each of the first five is a counterexample of a run.

1. `OFThreadPool.m:218`: the worker signals the count condition where it would
   have to broadcast; of two threads in `waitUntilDone` one is never woken.
2. `OFRunLoop.m:283`, `326`: `assert(queue != nil)` for each object of a batch, but a
   delegate earlier in the batch may have cancelled that object's requests.
3. `OFRunLoop.m:290`: after a delegate that cancelled the requests of its own
   object the request is freed, and one that returns true still has its
   `handleObject:` write its own state.
4. `OFRunLoop.m:1427`: a timer is marked as in a run loop after the mutex was
   released; if the loop has fired it by then the mark stays, and `dealloc`
   asserts that it is not there (`OFTimer.m:488`).
5. `OFDNSResolver.m:1084`: a connection made in the iteration in which the query
   times out is reported by a timer that nothing cancels; `OF_ENSURE(context != nil)`
   fails.

Met while modelling, present in the models, without a run of their own:

* The pipe of the observer holds one byte per `cancel`; a loop that adds a timer
  in its own thread writes to it too and one byte is read per iteration, so the
  pipe can fill and block the writer (`OFKernelEventObserver.m:272`). The
  liveness properties of the timers name it.
* `OFTimer.m:634`: `setFireDate:` changes the date of a timer which another thread
  may have queued again in between (a repeating timer being fired), so the queue can become unsorted;
  the `Timers` instance reschedules a timer that does not repeat.
* `-[OFTimer waitUntilDone]` (line 673) waits once without looking at the flag again, and leaves
  it set when it is woken: a wake-up without reason and a second wait return before the timer
  fires; of two threads that wait the signal of line 610 wakes one.
* poll reports a hang-up as readiness to write to an object that asked to read
  only; `ReadyHasQueue` then fails without any delegate's doing.
* A regular file refused by epoll leaves an empty queue behind; cancelling aborts.
* A TCP reply that sends the resolver to the next server is handled while the old
  connection is still there (`OFDNSResolver.m:742`), and a connection that ends
  before the two bytes of the length fails the `OF_ENSURE` of line 1169. A late
  reply over UDP while the query has a TCP connection reaches the former too.
* `-[OFDNSResolver close]` leaves timers armed: after it a delegate may be called
  again, which is why `CalledOnce` excludes it.
* With no name server both queries for a host are answered inside the calls that ask
  them, the first before the second is counted, and the delegate of the host, and
  of the connect, is called once per family (`OFHostAddressResolver.m:175`;
  `ToldOnce` allows for it).
* A host name without dots while there is no search domain makes `-sendQueries`
  throw out of `asyncConnectToHost:` (`OFHostAddressResolver.m:159`); the delegate is not called.
* Nothing bounds a chain of CNAMEs (`OFHostAddressResolver.m:227`).
* Neither closing a socket nor cancelling its requests reaches a connect that waits
  for a host or a timer. A late failure then closes the new connection of the socket
  (`OFIPSocketAsyncConnector.m:110`), a late success
  throws and its delegate is never told.
* The SOCKS5 handlers do not look at the length read: after the end of the stream they
  judge what an earlier read left in the buffer. A handshake that fails leaves the socket open.
* `-[OFMapTable removeAllObjects]` does not count as a mutation (line 511), and
  `-copy` may choose another capacity than the original's. An enumeration across the former
  is excluded from `EnumeratesOnce`.
* `OFHTTPClient.m:324`: under HTTP/1.1 the connection is kept if the server says `close`,
  and dropped if it says `keep-alive`. The next request is saved by
  being sent again; the connections are made anew for nothing.
* Closing a response whose connection is kept makes the next request to its host throw
  `OFNotOpenException` out of `asyncPerformRequest:` (`OFHTTPClient.m:1060`), after
  which the client remains in progress for ever; `OwnAnswers` names it. A server
  that closes every connection without an answer is asked for ever (line 461).
* A body of `Content-Length: 0` is at its end only after it was read, which may block
  until the server closes; a redirect with such a body never reuses its connection.

## 5. Proofs

| theorem | states | for every |
| --- | --- | --- |
| `OFThreadPool_proofs!TypeCorrect` | `Spec => []TypeOK` | finite set of workers and clients, set of jobs |
| `OFThreadPool_proofs!NoWorkerUsesFreedPool` | `Spec => []NoUseAfterFree` | the same |
| `OFThreadPool_proofs!JobsAreAccounted` | `Spec => []Accounting` | the same |
| `OFThreadPool_proofs!WaitIsForAllJobs` | `Spec => WaitMeansDone` | the same |
| `OFThreadPool_proofs!PoolImplemented` | `Spec => ImplementsJobPool` | the same |
| `OFRunLoopIO_proofs!TypeCorrect` | `Disciplined => (Spec => []TypeOK)` | finite set of objects and descriptors, set of requests, epoll and poll |
| `OFRunLoopIO_proofs!WatchedTruly` | `Disciplined => (Spec => []WatchedIffPending)` | the same |
| `OFRunLoopIO_proofs!CountsAreRight` | `Spec => []CountsAgree` | the same, and any program |
| `OFRunLoopIO_proofs!RefusedOnly` | `Disciplined => (Spec => []OnlyRefusedLeaveEmptyQueues)` | the same |
| `OFRunLoopIO_proofs!RequestsImplemented` | `Disciplined => (Spec => ImplementsAsyncRequests)` | the same |
| `OFRunLoopTimers_proofs!TypeCorrect` | `Spec => []TypeOK` | set of timers and threads, delay, size of the pipe |
| `OFRunLoopTimers_proofs!QueueInOrder` | `Disjoint => (Spec => []Sorted)` | the same |
| `OFRunLoopTimers_proofs!QueuedAreMarked` | `Disjoint => (Spec => []QueuedIsMarked)` | the same |
| `OFDNSResolver_proofs!TypeCorrect` | `Spec => []TypeOK` | queries, servers, attempts |
| `OFDNSResolver_proofs!WaitsHaveTimers` | `Spec => []LiveHasTimer` | the same |
| `OFDNSResolver_proofs!DelegateCalledOnce` | `Spec => []CalledOnce` | the same |
| `OFDNSResolver_proofs!QueriesEnd` | `Spec => []SendsBounded` | the same |
| `OFIPSocketAsyncConnector_proofs!LookupsCount` | `Spec => []OneRoundAtATime` | connects, families, domains, aliases, addresses |
| `OFIPSocketAsyncConnector_proofs!DelegatesToldOnce` | `Spec => []ToldOnce` | the same |
| `OFIPSocketAsyncConnector_proofs!ToldTheTruth` | `Spec => []ToldTruth` | the same |
| `OFHTTPClient_proofs!AnswersAreOwn` | `HTTPSpec => []OwnAnswers` | requests, hosts, replies, redirects, connections |
| `ObjCSync_proofs!TypeCorrect` | `Spec => []TypeOK` | finite set of threads, objects, locks, nesting |
| `ObjCSync_proofs!LocksAreUnique` | `Spec => []OneLockPerObject` | the same |
| `ObjCSync_proofs!LocksStayAllocated` | `Spec => []NoFreedLockUsed` | the same |
| `ObjCSync_proofs!CountsAreExact` | `Spec => []CountAgrees` | the same |
| `ObjCSync_proofs!ExitsFindTheirLock` | `Spec => []ExitsFind` | the same |
| `ObjCSync_proofs!ImplementsMonitors` | `Spec => IsMonitors` | the same |
| `Foundation_proofs!TableIsDictionary` | `MapSpec => []IsDictionary` | keys, objects, hash functions, least capacity |
| `Foundation_proofs!EnumerationOnce` | `MapSpec => []EnumeratesOnce` | the same |
| `Foundation_proofs!ResponseBody` | `ResponseSpec => []BodyInOrder` | messages, pieces they arrive in, sizes of reads and pages |
| `Foundation_proofs!PoolsReleaseOnce` | `PoolSpec => []ReleasedOnce` | number of objects, pools, pops |

The assumptions are the named `ASSUME`s of the modules, which TLC evaluates on every
run. Most say that the sorts of constants do not overlap. The others: there are
finitely many threads, and at least one client has the pool (`ThreadAssumption`,
`SyncAssumption`), finitely many objects and descriptors (`ObjectAssumption`), a
resolver makes an attempt at least (`ResolverAssumption`), an answer that is an
error has no addresses (`LookupAssumption`), a body has a natural number of
pieces (`ReplyAssumption`), a pool array has room for something at first
(`PoolsAssumption`), a hash is a natural number and a table has a place at least
(`MapAssumption`), a read asks for a byte at least (`StreamAssumption`), and what servers
send are messages (`ResponseAssumption`; about a server that sends something else
nothing is said).

Two theorems' hypotheses are about the program, not about sorts. `Disciplined`, of the run
loop, is the program that requests on open objects and cancels before it closes:
without it the books do diverge, since the kernel forgets a descriptor that is closed and
the observer does not. `Disjoint`, of the timers, is that no repeating timer is rescheduled by another thread:
without it `setFireDate:` may change the date of a queued timer, and the
queue becomes unsorted (section 4). Both are what the runs assume, and the code
enforces neither. They are necessary: with `Disciplined = FALSE` TLC refutes that a list's
count is exact, `OnlyRefusedLeaveEmptyQueues` and `ImplementsAsyncRequests`, with a repeating
timer among `Rescheduled` it refutes `Sorted` and `QueuedIsMarked`. `CountsAreRight` has no such
hypothesis: its first part, that a count is never too low, is for any program, and only
`CountsAgree` itself says of the second, that it is exact, that it is for the disciplined ones. The case
in between is real: a program that closes an object with requests and then cancels them
has the observer throw after `-[removeAllObjects]`, and the list stays in the dictionary, empty
and with its old count.

*Pool.* `NoUseAfterFree` is not inductive. `MutexInv` adds the discipline of the
count mutex: it is held exactly in the sections that take it; a worker about to
increment has seen its flag clear while holding it; and once `dealloc` has
finished marking every flag is set. Freeing comes after the marking, which takes
the mutex, so no worker is between its test and its increment then. The typing
invariant needs `HandsInv`, that a dispatch under way has a job, since the list is
a sequence of jobs. What happens to jobs is `Custody`: a job is in one pair of hands or
at one place of the queue, has been performed if those hands are past
performing it, and is lost only when no reference is left. `Accounting` follows by counting
(the sets it adds up are disjoint and their sizes change by one with each
step), `WaitMeansDone` from both: when the counters agree there is nothing in
hands or queued. For the refinement `Stages` reads the stage of a job off where it
is; a step of the pool is one of `JobPool`'s or leaves every stage alone (`QuietStutters`).

*Run loop I/O.* For any program `CoveredQueues`, that lists hold at most what they count, is
inductive as it stands (`CoveredStep`). For the disciplined ones
`IInv` says of the books what `WatchedIffPending` and `CountsAgree` do, and
adds that descriptors are not shared (`Descriptors`), that a request is unmade or at one place
of one queue (`Once`), that the delegate call in progress is for the head of a
queue or, after a cancellation, for a request in none (`Calling`), and that an
event poll is yet to look up has an object (`Targets`). The predicates take the queues and the observer as
parameters, because submitting, cancelling and delivering change them in several steps
inside one action (attach, then watch, then undo if epoll refuses), and each
such step has a lemma. The refinement forgets descriptors, observer and batches: a request the
observer refuses is one that `AsyncRequests` may refuse.

*Timers.* `Sorted` is about the queue and the dates, which others change. `QueueInv` adds
who may change them: a timer that a `setFireDate:` has in hand is out of the queue
and in no other thread's hands (`OutOfQueue`, `Exclusive`, the `@synchronized` of the code), and so is a repeating timer
the loop has in hand. `InsertAtIs` and `RemoveAtIs` say what the operations on the sorted list make of
it, and `CalmKeeps` disposes of the steps that touch neither queue nor dates.

*DNS.* `IInv` is typing, `LiveHasTimer`, `OverOnceAnswered` (an answered query is
neither in the dictionary nor has a timer), `NeverSent` and `Counted`. Sending always arms
the timer; answering always disarms it; a timeout consumes one and either sends
or answers. With `close` in the history the first parts are suspended, as in the
property. `Counted` bounds the sends of a query by its two indices: every server in
each attempt before, every server up to the present one in this one, and one for
going over to TCP.

*Connects.* `ToldOnce` needs to know that a connect which still waits for something was
not reported, and that only one thing of it is under way. `IInv` is `CountsOK` (the
count is that of the queries out, and bounded by the families and aliases, which is most of
`OneRoundAtATime`), `LookingUp` (while an answer or a report of the lookup is on
its way the connect waits for it, and at most one report is), `PhaseOK` and
`ToldOK` (no connect that waits was told of, the others once, or once per
family without name servers). The steps that answer a query split on whether it is the last one
out; without name servers `AsyncResolve` reports as often as there are
families, in one step. For what delegates are told `TInv` adds `Place` (the phase of a connect says how far it
is in its addresses and, unless the application meddled, what the socket is and who made it),
`Alone` (unless the application meddled one connect at a time waits for something, so nobody else
touches the socket) and `Truthful`, the property for what was told already. Meddling
ends the promises about the socket for good, but with a proxy `Alone` stays, because
a connect through one is not made while another waits.

*HTTP.* `OwnAnswers` looks at what was told; that it was right is decided by what is on the
connections. `ClientInv` says it of every connection somebody has a claim on: the rest of an
unread body is exactly what is on its connection, which no other unread response and no
handler shares (`Bodies`); a connection kept is the one of the last response
and has nothing else on it (`Kept`), so that when `Reusable` finds the response at its end, or
without a body, the connection is empty; and the handler's connection has nothing, its own
question, or its own reply on it (`Handled`). Connections given up are not
mentioned: nobody reads from them again. `Once` says that a request is at one place at
a time: not made, at work, waiting in a timer, or told of.

*`@synchronized`.* `IInv` adds to the safety properties: the mutex of the list
protects the sections of a call (`Protected`), a new lock is made only when there
is none (`NoneThere`), and inside equals locked in both directions
(`InsideOwns`, `OwnerInside`). The count of a lock is the cardinality of those
who wait or have not given up their part yet, plus the depth of its owner: it
reaches 0 only if nobody is left, so freeing is safe, and that a thread leaving
an object finds its lock follows. The refinement maps `held` to itself: every
step either stutters or is an entry, which `OwnerInside` shows to exclude
others, or an exit.

*Autorelease pools.* `IInv` adds to `ReleasedOnce` that references lie in the array once each
(`Array`), that what is yet to be autoreleased was not released (`NotYet`), and `Nested`: the
stack of pops and pools goes up through the array, each loop at an object that
is there, the pools of the code it runs above that object. So what a pop inside a
release lets go of is above everything the outer loop has passed.

*Map.* A search goes from the home of a key to the first place never used, and a place where
something was removed does not end it. `MapInv` therefore says where buckets may be: a key has one bucket,
and from the home of each bucket on every place up to it was used (`Sound`); less than three
quarters of the places are taken and the count is that of the buckets (`Roomy`), so that a
search ends; buckets and `contents` are the same keys and objects (`Represents`); and
what an enumerator has returned are the keys of the buckets before its position, each once
(`Enumerated`). A key that is added goes where the search for it ended (`Inserted`), one that is removed leaves a
place still used (`Vacated`). Growing, shrinking and copying put the buckets into an empty table one by one:
`MovedAll` and `CopiedAll` say what the table holds after the first *n* places. They are inductions
over *n*; the induction rule of the library cannot be used, so they assume a least
*n* for which the claim fails (`LeastElement`, from well-foundedness of the natural numbers)
and look at the one before it.

*Bodies.* `BodyInOrder` compares what the application has with the body, while the state is in
three places: the application, the response's buffer, the socket's buffer and wire. `ResponseInv`
names two positions: *q* in the body, before which everything is delivered or in the response's buffer, and
*p* on the wire, after which everything is in the socket (`SockAt`). `Decoded` relates them, with
`_toRead` and the two flags, for each kind of message: *p = q* when the body is sent as it is; with chunks
*p* is *q* and the bytes around the chunks before, and the response is before a
size (`AtSize`), in the data (`InChunk`), at the line end behind it, of which it may have one
byte (`AtLineEnd`), or behind the last one (`AfterLast`). Where chunks begin is chosen once per message (`Cuts`).
One case was not expected: a message that is cut off behind a size, before its line end,
has that size taken, since `tryReadLine` returns the rest of a stream that ended as a line; nothing follows
and the next read reports the truncation (`CutOff`). The lemmas on the socket (`Received`, `SocketReads`,
`SocketTriesLine`) say what the functions of `OFStream` make of a position.

### Not proved

Liveness, and with it anything that needs `ENABLED`, is left to TLC: the prover does
not do fairness of actions (`WaitReturns` and `JobsGetPerformed`, `WorkersExit`, `AddedTimerFires`,
`StopEndsLoop`, `AnsweredEventually`, `ConnectEnds`, `Returns`). Every invariant of the runs that
pass, and every action property, is a theorem. Programs that are not disciplined, and
repeating timers that are rescheduled, have no theorem.

## 6. Plan

In order of importance; what is done is marked.

1. Threads: `JobPool`, `OFThreadPool` (done); then the life of an `OFThread`.
2. Run loop: `AsyncRequests`, `OFRunLoopIO`, `OFRunLoopTimers`, waiting for a timer (done);
   then invalidation from another thread.
3. Runtime: `Monitors`, `ObjCSync`, autorelease pools (done); then weak references
   (`arc.m`), with an abstract object that is either alive or gone.
4. Network: `OFDNSResolver`, hosts, connectors, the HTTP client (done); then the
   server's side of HTTP, request bodies, and `OFDatagramSocket`s shared by queries.
5. Data: `OFMapTable`, the read buffer of `OFStream`, bodies (done); then the write buffer and
   delimiters longer than a byte.
6. Proofs: typing, the safety invariants and the refinements of the pool, run loop, timers,
   resolver, connector, HTTP client, `@synchronized`, autorelease pools, map table and bodies (done); then
   what a program that is not disciplined may still rely on.

## 7. Not modelled

* kqueue and select: the same interface as epoll and poll, on other systems.
* Archives, parsers, strings, hashes, numbers: sequential functions of data; a model
  would repeat them line by line, and test vectors say more.
* Exceptions, forwarding, invocation: assembly and unwinding tables.
* Files, processes, settings, sandbox, tools: thin layers over system calls.
* The HTTP server and cookies, threads, weak references: next in the plan.
* In the parts that are modelled: the body of an HTTP request, a 303 that turns a HEAD request
  into a GET, replies that are not HTTP; the write buffer of a stream; lookups for one family;
  SCTP sockets, which share the connector; exceptions thrown by a pool's job or for lack of
  memory (they end the program); deadlines of a run loop's `runUntilDate:`; nested
  runs of a loop in a handler; several modes of one loop (each has its own state of the
  kind modelled); the 16-bit IDs of queries and what a packet contains; the
  periodic reload of the resolver's settings.

What can go wrong in the parts that are not modelled yet is listed, line by line,
under `hazards` in `PROJECT.json`. Smaller ones met while reading: the receives
on a UDP socket are shared by all queries and the final timeout of one cancels all
of them but one (`OFDNSResolver.m:883`); while a query has a TCP connection a UDP packet
with its ID is taken for its reply (`OFDNSResolver.m:922`); `close` enumerates
the queries while delegates may start new ones (`OFDNSResolver.m:1278`); a timed wait passes a relative time where an absolute
one is taken (`platform/posix/condition.m:52`); moving a weak reference does not
unregister what the destination referred to (`runtime/arc.m:261`); a stop before
the loop has started is forgotten (`OFRunLoop.m:1583`).
