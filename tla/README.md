# TLA+ models of the Linux server examples

The repository holds the programs of a book on Linux servers, each chapter
(`1/` to `7/`) a small server on sockets, epoll, signals, processes or threads.
This directory models the ones with logic of their own, checks them with TLC and
proves the properties that matter most with TLAPS. "README 1.5" below and in the
modules is a section of the repository's README.

    tlc -config MCWebServer.cfg MCWebServer      # a run: see the table of runs
    tlapm ThreadPoolProofs.tla                   # the proofs

## 1. The system and its parts

The programs share code by copying. `threadpool.h` and `locker.h` are in `6/` and
`7/`, the line parser in `2/` and `7/`, the signal pipe in `3/`, `4/`, `5/`, `6/`.

| Component | State | Operations | Meets others by |
|---|---|---|---|
| thread pool (`7/threadpool.h`, `locker.h`) | `m_workqueue`, its mutex, a semaphore, `m_stop` | constructor, destructor, `append`, `run` | callers and workers share the queue |
| web server (`7/main.cpp`, `http_conn.cpp`) | `users[]` indexed by descriptor, `m_user_count`, epoll's registrations | accept, `init`, `read`, `write`, `close_conn`, `process` | main hands a pointer to the pool; main and workers use the same object in turns, through EPOLLONESHOT |
| HTTP parser (`http_conn.cpp` 97-322) | buffer, five indices, `m_check_state` | `parse_line`, `parse_request_line`, `parse_headers`, `parse_content`, `process_read` | called by `process` after each `read` |
| response writer (`http_conn.cpp` 324-532) | write buffer, iovec, mapped file | `do_request`, `add_*`, `process_write`, `write`, `unmap` | filled by a worker, sent by main |
| GET_HOST parser (`2/GET_HOST_test.cpp`) | buffer, indices, check state | the recv loop, `parse_content` | one connection |
| timer list (`4/lst_timer.h`) | head, tail, a node per timer | `add_timer`, `del_timer`, `tick` (`adjust_timer` has no caller) | nodes point to users and users to nodes |
| timer server (`4/4_2_server.cpp`) | `users[]`, timer list, `timeout`, signal pipe | accept, data, end of file, `sig_handler`, `timer_handler`, `cb_func` | SIGALRM through the pipe; `tick` closes descriptors |
| process pool, CGI (`6/processpool.h`, `6_CGI_server.cpp`) | table of children, a pipe to each, signal pipes | `run_parent`, `run_child`, `cgi_conn::process` | an int on a pipe per connection, SIGCHLD, SIGTERM |
| shared-memory chat (`5/5_1_server.cpp`) | `users[]`, `sub_process[]`, shared segments | accept and fork, relay, SIGCHLD, SIGTERM | indices on pipes, data in shared memory |
| chat with poll (`1/1_2_chat_server.cpp`) | `fds[]` with the events bits, `users[].buf`, `users[].write_buf` | accept, error, leave, read, write | pointers into other users' buffers |
| EPOLLONESHOT server (`1/1_5_server.cpp`) | epoll's registrations, `fds_for_new_worker` on main's stack | accept, `worker`, `reset_oneshot` | threads and main through that structure and through epoll |
| LT and ET server (`1/1_4`), TCP/UDP echo server (`1/1_3`) | epoll's ready list, the sockets | accept, `lt`, `et`; the recv and send loop, the datagram | - |
| signal server (`3/3_1_server.cpp`) | signal pipe, `stop_server` | accept, `sig_handler`, the branch of the pipe | signals through the pipe |
| select server (`1/1_1`), `http_conn2.cpp`, `cond` in `locker.h`, the clients | - | one connection; not built; not used; driven by hand | - |

### What is hard about it, and what makes each part correct

* **Thread pool.** Callers and workers interleave at every lock and semaphore
  operation, and the push and its post are not one step. Correct: the critical
  sections exclude one another, no wakeup is lost or spurious, the queue is
  bounded, every accepted pointer is taken once and in order.
* **Web server.** An object belongs to a descriptor, descriptors are reused, and
  an epoll registration, an entry of the queue or a thread may each lead somebody
  to it. Correct: at any moment there is exactly one who may come for an open
  connection (but for those a full queue refused), nothing is carried over from one
  client to the next, the count of users is the number of connections, replies follow requests, every request is
  answered and every client that hangs up is let go.
* **Parsers.** TCP cuts a request anywhere. Correct: the cuts make no difference,
  the indices stay in order, the loop ends.
* **Timers.** A list of nodes, an array of users and reused descriptors point at
  each other; time passes at any moment; the alarm is set by the handler of the
  last one. Correct: a timer closes only the silent client it was made for, no
  client is closed early, all timers are in the list, the tick goes on for ever.
* **Process pool, CGI.** Two edge-triggered descriptors between a connection and
  its child, children that die between two messages, SIGTERM at every moment of a
  child's life. Correct: an announcement always has a connection, children take
  turns, the parent ends after the last child and does end after SIGTERM, a
  complete line is served.
* **Shared-memory chat.** A table compacted while children still use its indices,
  merged SIGCHLDs, termination racing a new client. Correct: table and index
  agree, nobody hears himself, all children are reaped, no child outlives the server.
* **Chat with poll.** The table is compacted and extended while it is scanned, with
  the results of a poll that is over, and what a user is to be sent is a pointer
  into the buffer of another, who may speak again, leave or be replaced on the same
  descriptor. A reset may come between the poll and a send. Correct: the table is the set
  of open connections, the scan skips no event and handles none for another user, a user is
  sent new messages of others in order and the last one surely, SIGPIPE comes in one
  moment only.
* **EPOLLONESHOT, LT, ET, echo and signal servers.** A descriptor is disarmed between
  a report and `reset_oneshot` and data come meanwhile; the argument of a thread is
  overwritten; an edge is reported once; data, the end of the stream and a reset come
  in one edge; signals fill a pipe. Correct: one thread at a time has a socket and gives it back, nothing
  sent is lost at a close, all that arrives is received, a SIGTERM that got into the pipe
  is heeded.

## 2. Modules

    WorkQueue <---(implements)--- ThreadPool <--- MCThreadPool, ThreadPoolProofs
        ^ (uses its actions)
    WebServer <--- MCWebServer, WebServerProofs
        | (implements)
        v
    Custody

    LineParser <--- HttpParse <--- MCHttpParse, ParserProofs
               <--- GetHost   <--- MCGetHost, ParserProofs (instance)

    TimerList <--- TimerServer <--- MCTimerServer, TimerServerProofs

    ShmChat      <--- MCShmChat, ShmChatProofs
    Prefork <---(implements)--- ProcessPool <--- MCProcessPool, ProcessPoolProofs

    PollChat     <--- MCPollChat, PollChatProofs
    EpollServers <--- MCEpollServers, EpollServersProofs

PROJECT.json maps each definition to the lines it stands for. Definitions placed
directly before an action, with a name that extends the action's (`LockNoWait`
before `Lock`), are mutations: plausible mistakes that no specification uses. Each
property is known to fail when its mutation takes the place of the definition.

**WorkQueue** is the contract of the pool: a bounded FIFO queue, items that one
worker each takes, fairness. **ThreadPool** is the code: one action per access to
shared state, from `AppendLock` over `Push` to `Post` for callers and from `Loop`
over `Wait`, `LockWorker`, `Pop` to `Process` for workers. `append` compares with
`>` (line 63), so the capacity of the contract is `MaxRequests + 1`. The
constructor may fail between any two threads. The destructor sets the flag, and then the
members end (`EndMembers`) whatever the detached workers are doing: one that locks, waits
or reads next uses what is gone (`Misuse`), and the model ends there.

**WebServer** composes main, the objects `users[fd]`, the pool (the actions of
WorkQueue, which is what ThreadPool implements), workers, kernel and clients.
Each step of main or of a worker that touches what the other side can see is an
action: `EpollWait` takes a batch, then its events are worked off in any order;
`init` and `close_conn` are split where another thread may come in
(`removefd`, `m_sockfd = -1`, the load and the store of `m_user_count`).
A request is a sequence of pieces, the segments it may arrive in; parsing is
reduced to the verdicts the control flow tells apart. `Clients` is a set of
possible populations, which say of every client whether it comes, its script, keep-alive,
whether it waits for replies, may hang up and may stop reading. The code
registers a new descriptor, counts the user and then resets the object; `InitConn` resets it with
the registration. That makes no difference: main alone calls `epoll_wait`, so nobody can
come to the object in between.

**Custody** is what the design of chapter 7 promises, without the server: an open
connection is in the care of epoll, of the queue or of one thread, it is passed on
(`Report`, `Enqueue`, `Fetch`, `Rearm`) or given up because the queue is full (`Abandon`),
its object is changed by the thread that has it, and a descriptor nobody has any more may be
given to a new connection (`Register`). What threads do with it, the replies and the clients
are not there. WebServer implements it with
`Given`, which says that main has the event it works on and those of the batch behind it.

**LineParser** is `parse_line`, which both parsers have, and a definition of
what a request means when it is looked at as a whole, by sets of positions and
without a machine. **HttpParse** is `process_read`, one action per iteration of
its loop, over a buffer that `Read` fills with any prefix of what is left.
**GetHost** is the loop of chapter 2 with its small buffer. Text is abstracted to
tokens; CR, LF and the NULs that cut lines are bytes at their places.

**TimerList** is `sort_timer_lst` with the pointers it consists of: each operation
is an operator from list to list next to the set of nodes it dereferences.
**TimerServer** is the program around it. When a step dereferences NULL or a
deleted node, or walks round a cycle for ever, the model goes to `pc = "undefined"`
and stays there, and the properties speak of what is before that. This happens
only after a client has sent data (section 5).

**ShmChat** is main and `run_child` of chapter 5 together: one action per system
call that another process can notice. A child is named after its client. Its
start has three stages that SIGTERM meets differently (main's handler with main's
pipe, main's handler with the pipe closed, its own handler), and the test of
`stop_child` and `epoll_wait` are two steps. Segments hold whose data they got. `accept` may
fail. When main ends, its ends of the pipes close, and a child that finds the end of its pipe
ends too. `Crowds` says which clients there may be, which of them talk and which leave.

**ProcessPool** is `run_parent`, `run_child` and `cgi_conn::process` of chapter 6.
What epoll will report to a process is a set of edges, what it has reported a
batch, worked off in any order; the ints in a pipe are a number. A child may die
at any moment (`Crash`) or before it has a handler, when SIGTERM comes. A line is
pieces, of which `"end"` is the one with CR LF; the program it names may be
missing, or runs until it ends at any time (`CgiEnds`). `accept` may fail in a child. A
connection is closed when no process of the server has it: a CGI program that still runs keeps the
copies it inherited, which the model does not follow. `process` is one step, with
all its calls of `recv`: nobody else reads the socket or the buffer.

**Prefork** is what that pool promises its clients, without the parent, epoll, signals and
buffers: a worker accepts only with a ticket, of which there are no more than clients that
wait, and takes the one that has waited longest; only the worker that accepted serves,
and it starts at most one program for a client, when that has sent all of a line. Workers
end at any moment, with their tickets and connections, and a failing `accept` wastes a ticket. In ProcessPool the tickets are
the ints in the pipes and the line is the backlog.

**PollChat** is the chat server of chapter 1. `Poll` writes the results into the
table; then each turn of the `for` is an action, chosen by the first of the tests
that applies: `TurnAway` and `Join` at the listening socket, `TakeError`,
`UserLeft`, `Receive`, `Deliver`, `NothingToDo`. Clients act between any two turns.
A message is its number in `posted`, the order in which the server read them; `buf`
is the message in `users[fd].buf`, `write_buf` the descriptor whose buffer the
pointer leads to. `|= ~POLLIN` sets every bit but POLLIN and clears none, so an
entry asked to write goes on listening. `accept` may fail. A client may stop reading
(`Slow`, `full`), and then it is not writable until it reads again.

The error of a socket is kept as Linux does: a reset of a connection that had not ended is
ECONNRESET, one after the client's FIN is EPIPE, also when the client's host resets because
something was sent to a client that had closed. `getsockopt(SO_ERROR)` takes either away, a
failed `send` takes ECONNRESET; a `send` that finds EPIPE, or no error any more, raises SIGPIPE
(`pc = "killed"`), which nothing in chapter 1 ignores. `Receive` has the branches for an error
and for the end of the stream (130-138); `RecvFindsText` proves that they are never taken.

**EpollServers** is five servers with one loop, of which `server` says which it is:
`"lt"` and `"et"` (`1/1_4`), `"echo"` (`1/1_3`, with a UDP socket), `"oneshot"`
(`1/1_5`) and `"signal"` (`3/3_1`). `EpollWait`, `BatchDone` and `Accept` are common.
`edges` is epoll's ready list, `armed` what it watches; ADD and MOD look whether there
is input already, as the kernel does. In `"oneshot"` the two loads of the thread's
argument, each `recv`, the EAGAIN and `reset_oneshot` are steps of their own; `raced`
says that main used the structure again before a thread had read it. `accept` may fail. The
pipe of the signal server holds `PipeRoom` signals: `Raise` on a full one loses the signal, as the
nonblocking `send` does.

## 3. Runs

| Run | Instance | Distinct states | Question |
|---|---|---|---|
| `pool` | 2 callers, 3 workers, limit 1 | @pool | is the pool right, and is it a WorkQueue, liveness included |
| `server` | five populations of 4 clients, 2 workers, 4 descriptors, 3 users, a queue of 2 places | @server | who may come for a connection and is each step one of Custody, also when the queue refuses; the count, the limits, order of replies; is every request answered, every client that left let go |
| `server_adverse` | 4 like clients, 3 descriptors, full pool, empty files | @server_adverse | is nothing carried over even then |
| `http_parse` | requests of up to 4 lines and bodies with line ends | @http_parse | do cuts make a difference, does the loop end, is parsed text kept |
| `get_host` | requests around a buffer of 7 | @get_host | the same for chapter 2, with the full buffer |
| `timers` | 3 clients, 2 descriptors, 4 ticks | @timers | ownership of timers, the tick, early closing, the list |
| `shm_chat` | 3 silent clients, 2 places, one leaves; 2 that talk, one leaves | @shm_chat | the table, the relay, reaping, the end of all children |
| `process_pool` | 2 children, 2 connections, 1 crash | @process_pool | is the pool a Prefork; hand-over, turns, termination, service |
| `poll_chat` | 3 clients, 2 places | @poll_chat | the table under the scan, the events, what is sent to whom, SIGPIPE |
| `epoll_servers` | 5 servers, 2 clients, 2 threads | @epoll_servers | one thread for a socket, nothing lost, everything received, signals |
| `empty_file` | 2 clients, an empty file | - | where the code does not do what a document says (section 5) |
| `lost_message` | 3 clients, 3 places | - | the same: a message some user is never sent (section 5) |

What the properties say:

* `MutualExclusion`, `WakeupBalance`, `ImplementsWorkQueue` (the bound of the queue,
  its order and that it keeps being emptied are the contract): the pool. `WakeupBalance` is an
  equation between the queue, the semaphore, the callers about to post and the
  workers woken; it makes the empty branch of `run` (85-88) dead code.
* `OneClaim`: the one the design of chapter 7 rests on. epoll's armed descriptor,
  an event of the batch, an entry of the queue and a worker each are a claim on a
  connection; open connections have exactly one, unless `append` refused them, and then
  none. Two are a data race on `users[fd]`, none is a connection nobody will ever look at.
* `ImplementsCustody`: the same about steps. `OneClaim` counts who may come for a
  connection in each state; this says that between two states it went from one to the
  next, that nobody changed an object that was not his, and that main gives one up only when
  the queue is full. A worker that arms its socket before it is through with the object
  breaks it.
* `UserCountExact`: the unlocked counter is right as long as main alone closes (with a
  file of size 0 a worker does, and then it need not be), and the limit tested on it holds
  for the descriptors. `TypeOK` says that the read buffer is never overrun.
* `NothingCarriedOver`: bytes and reply in `users[fd]` belong to the connection
  that has the descriptor. Checked in `server_adverse`, where accept fails, the pool
  refuses and workers close.
* `RepliesFollowRequests`, `RequestsAnswered`, `HangupReleases`: as they are called. The
  last two do not speak of a connection whose request the queue refused, the second not of
  clients that send bytes of no request: leftovers fill the buffer, and `read` then closes.
* `FragmentationIndependence`: between two reads the verdict and `m_linger` are
  those of the bytes read so far, as LineParser defines them, unless a cut is in
  the body. `ParsedTextKept`: `m_url` and `m_host` point into lines nobody writes to
  later. `Returns`: `process_read` ends. `AnswerIsMeaning`, `Closes`: chapter 2.
* `TimerOwnership`, `NoEarlyClose`, `TickNeverStops`, `ListSound`: chapter 4. The last one
  speaks of the time before a client sends or leaves; what happens then is in section 5.
* `TableRight`: `users[]` and `sub_process[]` are inverse to each other whatever
  order children end in. `NoEcho`: an index in the pipes names the sender's segment
  as long as nobody was moved, also when a client that has talked leaves and another one that
  talks gets its place and segment. `ChildrenReaped`. `ChildrenEnd`: when main ends, a child that
  was accepted while main made up its mind ends too, since it finds the end of its pipe; no
  signal is sent to it.
* `HandoverCovered`: ints in the pipes, and events of the listening socket still to
  be answered, are at most the connections that wait, so no `accept` of a child
  finds nothing; and each event of a pipe has an int. `ImplementsPrefork`: who accepts
  whom, in which order, and that a program is started once for a line that is
  complete, through reads in pieces, the full buffer and deaths. `RoundRobin` (until a child
  is reaped), `NoOrphans`, `TerminationCompletes`, `RequestsServed`: chapter 6.
* `TableRight` (of PollChat): the first `user_counter` entries are the open
  descriptors, each once. `ScanComplete`: while the table changes under the scan, what
  poll reported and the scan has not come to is what the rest of the table reports;
  moving the last entry to the gap and not looking at it again would break it, and so
  would an entry of a new user that starts with old results. `HeardRight`: what is sent
  is another's, said after the user came, once, in order. `KilledOnlyBetween`: the server
  can be killed, by a client that ends and then resets its connection between the poll and
  the send, or before it is turned away, and at no other moment: the order of the branches keeps
  sends from a client whose end the poll saw or whose error was taken. `LeaverRemoved`,
  `LastHeard`: who has gone is taken out, who stays and reads is sent the last that others said.
  That it is sent all of it is `NothingSkipped`, and false (section 5).
* `OneHandler`: armed, in `events[]`, with a thread: an open connection of the oneshot
  server is exactly one of these, once. `NothingLost`: what was sent is received before
  a close. `AllServed`: what arrives is received although its edge comes once.
  `SignalsHeeded`: a SIGTERM or SIGINT that got into the pipe ends the server, whatever
  signals are there with it.

### Bounds

| Bound | Why it is enough |
|---|---|
| pool: limit 1, so two entries; 2 callers | full, half full and empty queue, two callers between push and post; what relates threads and queue is proved for all sizes |
| server: `MaxFd` 3 of 4 descriptors, 4 clients, of whom two or three act in most populations | the fourth finds the server full; two share a descriptor one after the other; three at once are one more than the queue holds |
| `BufferPieces` 3 | a buffer that the data fills exactly |
| `MaxRequests` 1 | a queue of two places, which three connections fill, with two workers and with one |
| `MaxStalls` 1, of the client that is slow | a full send buffer once; the next time starts from the same state |
| clients' scripts | two requests on a connection, a split one, a pipelined pair, bytes behind a request; each is a client of its own in `MCWebServer` |
| streams of HttpParse, GetHost | every state of the parser is entered with a good line, a spoilt one, CR and LF apart, and cuts between any two symbols |
| `Slot` 1, `MaxTime` 4 | a timer is due after 3, so one can run out after another was renewed |
| `MaxSends` 2, one client that talks and leaves | two sends between two rounds of the loop leave an edge with nothing to read; the list is disturbed, then closed, expired and its descriptor reused by the silent clients |
| chat: `UserLimit` 2, 3 silent clients, one leaves | a client is turned away, or gets the place and segment of one that left; the last user is moved |
| chat: 2 clients that talk, one of whom leaves | the other one has its place and segment while what it said is on the way |
| process pool: 2 children, `MaxCrashes` 1, SIGTERM once | one child dead and one living, reaped or not, when the next connection or SIGTERM comes |
| poll chat: `UserLimit` 2, 3 clients, two of which may leave, one may reset too, one stops reading | a full table, a descriptor used again, the last entry moved into a gap, a reset before and after a FIN, by the client and by its host, a user that is not writable |
| `MaxSaid` 2, 1 and 0 | a second message replaces the first before it is sent; a silent listener |
| `MaxSent` 2, 2 clients, one may end or reset or do both | data, the end and a reset in one edge, data after the first `recv`; two echoes after a reset, one after a FIN and a reset |
| `Threads` 2 | two threads that start at once, the race for the argument; `epoll_wait` goes on when there is none free |
| `MaxDatagrams` 2; `MaxSignals` 4, `PipeRoom` 3, `SignalBuffer` 2 | two datagrams in one edge; a signal that finds the pipe full, a `recv` of the pipe that leaves a signal |
| `BufferSize` 2, lines of one and two pieces | a line that fills the buffer exactly, one whose client leaves before its end |

`Alike` permutes clients with the same script (`server_adverse`) and the two silent
clients (`timers`); no liveness is checked in these runs. Deadlock is not checked: clients may stop asking, and the parser,
the one-connection server, a destroyed pool, and a server that SIGTERM or SIGPIPE has
ended stop as the programs do.

### Fairness

* ThreadPool: each thread that can go on does (weak fairness per thread, for the
  steps of `append` and of `run`). The mutex is strongly fair to the workers as a
  group and to no single one: a pthread mutex promises no order, but callers do not
  keep it for ever, and each lock hold is short. Nobody has to call `append`.
* WebServer: main, each worker and the hand-out by the pool go on (the last is
  WorkQueue's fairness, which ThreadPool is shown to implement in `pool`); TCP
  delivers what was sent; a client with a full receive buffer reads on in the end.
  Connecting, asking and hanging up have no fairness.
* HttpParse: a worker inside `process_read` goes on. GetHost: the server goes on
  and the client closes in the end.
* ShmChat, ProcessPool: main or parent, and each child, goes on (weak fairness per
  process: they are scheduled). Nobody has to connect, send, leave, terminate, crash
  or let a program end.
* PollChat: the server goes on (weak fairness of its step as a whole: it is one thread
  that runs whenever poll has something). EpollServers: main goes on and so does each
  thread. Clients and signals have no fairness.
* TimerServer: none. `TickNeverStops` states as an invariant what liveness would
  need: there always is a SIGALRM to come, in the pipe or noted.

## 4. Proofs

All for any set of threads, requests, clients and descriptors and any positive
limits, from the assumptions named in the modules (disjoint finite sets of
threads, a null that is no request, positive arguments, as the constructor
demands; names of descriptors, the listening socket and the pipe that differ).

`ThreadPoolProofs`:

* `TypeCorrect`, `MutexCorrect`: `TypeOK` is inductive; `MutualExclusion`, stated as
  "a thread is between lock and unlock exactly when it owns the mutex", is
  inductive with it.
* `WakeupsCorrect`: `WakeupBalance` is inductive with `TypeOK`. Each action changes
  the queue, the semaphore, or one of the two sets of threads by one, in pairs.
  `CardinalitySteps` says what entering and leaving a set does to its size,
  `BalanceKept` that steps which touch none of it keep the sum.
* `EmptyBranchDead`: a worker at `locked` is itself counted by `WakeupBalance`, so
  the queue it looks at is not empty (`WokenFindsPointer`).
* `QueueBounded`: needs `MutualExclusion`: between the test and the push no other
  caller can push, because both hold the lock.
* `PoolIsWorkQueue`: each step of the pool is a step of the contract or leaves its
  variables alone. `Push` is `Submit`, `Pop` is `Take`, the end of `Process` (or the
  unlock that drops a null pointer) is `Finish`, the destructor is `Close`, which
  needs that no `append` is under way (`QuietAfterStop`).

`TimerServerProofs`, for any number of clients and descriptors and any clock:

* `TickAlive` proves `TickNeverStops`. The invariant says where
  the next SIGALRM is (`AlarmChain`) and two facts of the loop it needs (`LoopInv`):
  `epoll_wait` is called with an empty batch, so that taking the edges of the pipe
  loses none, and `tick` runs with `timeout` set, so that there is no second alarm.
  Closing a descriptor drops edges and events of a connection, and a connection is
  never the pipe.
* `TimersOwned`: `TimerOwnership` is not inductive. `OwnerInv` adds that an open connection's
  timer is not deleted and expires a lifetime after the last data (`Lives`), that
  connection, descriptor and timer name each other (`Descriptors`), that the list's pointers
  lead to timers of connections that were accepted, and `HeadGone`. The last one is a
  fact about the code the proof brought out: a node of a disturbed list can be its own `next`,
  so `del_timer` and `tick` can leave a deleted node at the head. That breaks nothing,
  since the next `add_timer` reads it (undefined from there on), and a descriptor
  is given out again only with an `add_timer`.
* `ClosedWhenSilent`: by `HeadGone`, `tick` never calls `cb_func` with a deleted timer
  whose descriptor somebody else has, so the deadline it acts on is the one of the
  connection it closes, and a lifetime after what was heard of it.
* `ListKept`: `OrderInv` says without recursion what the list is (`Listing`: there is
  a sequence that the pointers go along, sorted by `expire`, of the open
  connections' timers). What the walks of `add_timer`, `del_timer` and `tick` return is
  then found by a least counterexample (`ChainIs`), and the sequence is not longer than
  there are timers (`ListingShort`).

`PollChatProofs`, for any number of clients and any `USER_LIMIT`:

* `TableCorrect`: `TableInv` adds to `TypeOK` that the entries and the open
  descriptors are each other's images (`Rows`) and where the loop may be with what
  backlog (`LoopPlace`). That the count of open descriptors is `user_counter`, and with
  it that `accept` has a free descriptor, follows by counting (`TableCounts`, `FreeFd`).
* `KilledAtNoOtherMoment`: `ResetInv` adds what poll's results are still worth when the
  scan comes to them (`StillSo`): an error is still there, text too, and an entry without error
  and hangup is of a client that had not ended at the poll and whose error nobody has taken
  (`NotTaken`). That needs that an error comes with the end of the stream (`ErrorEnds`) and that a
  client has one descriptor and one place in the backlog (`OneFd`, `Queued`).
* `RecvFindsText`, from the same: `recv` is only called where it finds text, so the branches
  for an error and for the end of the stream (`1_2_chat_server.cpp:130-138`) are dead.
* `ScanMissesNothing`: each turn takes one descriptor from those poll reported, and
  closing an entry (`CloseUser`) moves the last entry to where the scan stands (`AheadUserLeft`).
* `HeardIsNew`: the strengthening is about pointers. `Asked`: where an entry is asked to write and has a pointer, the message in
  the buffer it leads to *now* is another's, later than the user and than all it heard.
  It is kept when the owner speaks again, since the new message is later still, and when
  the owner leaves, since nobody clears the buffer. `NoOwn`: no pointer leads to its own
  user's buffer, so a user's new message cannot reach itself.

`EpollServersProofs`, for any clients and threads:

* `NoDataLost`: `Shape` (types, one descriptor for a client, a connection is in the
  backlog once, an event of the listening socket has a connection) and `Ledger`: what was
  sent is what was received and what waits, and a closed connection has nothing waiting.
  A close is only after `recv` has said end or error, which it does when it has no data.
* `OneHandlerHolds`: `Handed` says where the claim on a connection is: main's place is
  never inside a `recv` loop in this server (`MainPlace`), a closed descriptor is with
  nobody (`Untouched`), and armed, reported, started and taken exclude one another and
  leave out no open descriptor (`Claimed`). `ClaimsCounted` turns that into the sum.

`WebServerProofs`, for any number of clients, workers and descriptors:

* `NothingIsCarriedOver`: `NothingCarriedOver` is inductive with the types (`Types`,
  `Places`), also when accept fails, the pool refuses or a worker closes: `init` runs
  between any two connections of a descriptor.
* `OneClaimHolds`, `UserCountHolds` and `ServerTypes` assume `OnlyMainCloses` (no file of
  size 0, for which a worker closes, section 5). `Handed` says where a descriptor is:
  armed, reported, with main, in the queue and with a worker exclude one another
  (`Claimed`), main's place names a descriptor it was given (`MainPlace`), an open one is
  known to its object (`Registered`). `OneClaim` alone does not say which of them it is.
  `Counting`: the counter is the number of open connections, corrected by where main is
  in its increment or decrement. A queue that refuses is in all of this: what `append`
  refused (`refused`) is with nobody (`Claimed`).
* `RepliesFollow` assumes `OnlyMainCloses` and `AnswerableScripts`. `Wired`: a connection is in the backlog once
  and then has one descriptor. `NoReplyYet`: while main or a worker may still read
  or parse for a descriptor it has no reply; this is where the exclusive claim
  is used. `Streams`: of the bytes of a client that are not answered, in `users[fd]`, in the
  socket or on the way, each end of a request belongs to a request of its own,
  later than the last reply (`Fits`). This holds through segments, bytes thrown
  away by `init`, and pipelining. It needs no room in the queue.
* `AnswerableScripts`: a request comes in one piece or two, or in one with bytes of no
  request behind it, and then not followed by one in two pieces. Without the last part the property is
  false: TLC shows such bytes taken for the start of the next request, which is answered
  with 400 while its second half is still to come. The clients of all runs are answerable.

* `ServerKeepsCustody` proves `ImplementsCustody` under `OnlyMainCloses`,
  from its invariant. One lemma for each kind of step: a thread works on what it
  has (`MainWorks`, `WorkerWorks`), main hands on (`CustodyAppend`) or gives up when the queue is
  full (`CustodyRefused`), a worker takes and arms
  (`WorkerTakes`, `WorkerRearms`). `CustodyListen` needs that the descriptor `accept` gives is
  with nobody, which is `Claimed` for one that is not open. A worker that closes is no step of
  Custody: the hypothesis is needed.
* `CustodyIsExclusive`: for whatever implements Custody, no two have one descriptor and
  an open connection is forgotten only when the queue refused it (`ExclusiveStep`). The proof uses Custody's actions
  and nothing of the server.

`ParserProofs`, for any bytes a client sends, any `Content-Length`, any buffer size and any
cuts. `Parsed` says what a parser knows: the line it is in is in the buffer as it came, has no
end before `m_checked_idx`, and no line before it is spoilt. `LineFound` says what
`parse_line` then returns, `LineCut` and `ParsedMore` that cutting a line off and appending
bytes keep it. What a request means is defined by sets of positions; positions before
`m_start_line` mean the same when more bytes come (`EndsStay`, `HeadingStays`), and a header line
adds just its own (`HeadingGrows`, `HeaderMeans`).

* `FragmentsAreOne`: `ParseInv` adds that `m_linger` and `m_content_length` are what the lines
  that have ended say (`InLines`), and, behind the blank line, that the result is
  that of the body as long as `m_checked_idx` is at its first byte (`BodyBehind`).
* `ParsedTextStays`: from the indices and the types (`Frame`) alone, and that the byte before
  `m_checked_idx` is never a CR, without which `parse_line` could write before it.
* `LineFeedStandsAlone`, for the same reason: the branch of `parse_line` for a LF behind a CR
  (`http_conn.cpp:118`) never ends a line. It is dead, since a CR that comes last is looked at
  again.
* `AnswersAreMeant`: the same for GetHost, through an instance, with `HostInv`: in `recv` the line
  is open and nothing is answered yet. It assumes of the buffer's size what GetHost does.

`ShmChatProofs`, for any number of clients and any `USER_LIMIT`:

* `TableStaysRight`, and `EndsWithoutChildren` (main decides to end only when it has reaped all
  children there are): `Table` is inductive with the types, with who is
  in the backlog (`Lined`: once, and without a child) and that an event of the listening
  socket has somebody who waits (`ListenCovered`). `SwapLast` says what the compaction makes
  of the sequence; that the moved user is another than the one that left, unless it is the
  last, is from the table's own inverse.
* `NobodyHearsHimself`: `Segments`. While nobody was moved, a child's index is its place, so
  two children have different ones; what a client said is in its segment only, and the pipe to
  a child never holds its own index. A pipe that is not empty belongs to a child that is
  not reaped (`Pipes`), so an old index is not announced again.

`ProcessPoolProofs`, for any number of children and connections and any number of deaths:

* `HandoverIsCovered`: `Waiting` counts integers as pairs of a child and a number
  (`InPipes`), one more or less for each send and recv (`PipeMore`, `PipeLess`). It needs that
  the backlog holds each waiting connection once (`Lined`).
* `TurnGoesRound`: until a child is reaped, the children before the counter have had one
  connection more than the others (`Turns`); the search then ends at the counter
  (`ChosenAlive`).
* `NobodyIsOrphaned`: `alive` are exactly those not reaped, and `m_stop` is set only when there
  are none (`Ends`). `EndKeeps` is the common part of all ends of children.

* `PoolIsPrefork` proves `ImplementsPrefork`, from that invariant and `Received`: what a client
  has sent is its child's buffer followed by what is on the wire, until it is closed. So a line
  `process` finds complete (`Taken`: what a buffer takes is a beginning of it) was
  sent by that client. The tickets are fewer than the clients that wait whenever the parent
  sends one, because the event it answers was counted (`ContractListen`); the backlog is
  not empty when a child accepts (`ContractAccept`). The ends of children are one lemma
  (`ContractEnd`); the steps of the loops, which the contract does not see, another.
* `PreforkKeepsPromise`: for whatever does what Prefork allows, each ticket has a waiting client and
  programs are started only for clients that are done with. `Promised` is the invariant: a
  client in the line is there once and has no server.

Every invariant and every safety property the runs check, the three refinements included, is
proved, some under the hypotheses above, except that `ExclusiveHandling` and `NothingSkipped`
are false (section 5).
Outside the provers' reach, and left to TLC: everything under fairness
(the liveness half of `ImplementsWorkQueue`, `RequestsAnswered`, `HangupReleases`,
`ChildrenReaped`, `TerminationCompletes`, `RequestsServed`, `Returns`,
`Closes`, `LeaverRemoved`, `LastHeard`, `ChildrenEnd`, `AllServed`, `SignalsHeeded`), and
anything with ENABLED.

## 5. Where code and documents disagree

Two are runs with one property that quotes a document, and a counterexample.

* `empty_file`: for a file of size 0 `process_write` falls through to `default` and
  returns false, so the worker closes the connection, and after `removefd` main may
  give the descriptor to a new client while the worker goes on in the same object.
  README 1.5 says one thread at a time handles a socket. The count of users is
  unlocked and relies on the same.
* `lost_message`: README.md:140 and 206 say that what a user says is sent to every other
  user. A user has one `write_buf`, a pointer to the buffer of whoever spoke last
  (`1_2_chat_server.cpp:146`), and is sent to at the next poll at the earliest. When two speak in one
  scan, or the same one speaks again before the send, the older message is never sent to the users
  it was for. What holds is `LastHeard`, the last message.

Others are behaviour of the models that no property denies:

* Data from a client adds its timer a second time instead of adjusting it
  (`4_2_server.cpp:181`). The list loses what was behind it; later operations build
  cycles or use deleted nodes. This is why TimerServer has `"undefined"`.
* `main.cpp:113` ignores that `append` refused; the request is neither queued nor its
  connection closed or armed, so that nobody comes for it again, a hang-up included. The queue has
  1001 places (the default of `max_requests` at `threadpool.h:14` is 1000, and 63 compares with
  `>`), `MAX_FD` is 65536 (`main.cpp:17`), and a process with the usual 1024 descriptors has
  about 1019 for connections: a few more than there are places. `server` and `server_adverse` have
  the case, with a queue of two.
* `delete pool` (`main.cpp:128`) ends with the members of the pool destroyed under its detached
  workers, and `users` is deleted before it, while workers may be at an object. ThreadPool has
  the first (`Misuse`); only the end of the process follows.
* Every listening socket is edge-triggered and accepted from once per event
  (`main.cpp:97`, `processpool.h:236`, `5_1_server.cpp:213`): of two connections that
  arrive together one waits for the next client. The process pool has this twice,
  with the ints in a child's pipe, and gives connections to a child that has died
  and is not reaped.
* In chapter 5 a child that SIGTERM meets before its handler is installed, or between its test of
  `stop_child` and its `epoll_wait`, is not told to stop; nor is one whose client is accepted after
  SIGTERM, and main goes on until that child ends by itself. A child that is accepted in the
  very batch in which main decides to stop ends by the end of its pipe (`ChildrenEnd`). Data
  and the end of the stream in one edge leave a child that never sees the end.
* A body in two reads never completes, because the loop's condition calls `parse_line`
  on the body and moves `m_checked_idx`, from which `parse_content` counts
  (`http_conn.cpp:310`). `FragmentationIndependence` leaves such cuts out.
* README 5 says each child writes only to its own client's segment. When a client
  leaves, the last user gets its index in `users[]`, but its child goes on with the old
  one, and the next client's child is given the same (`5_1_server.cpp:281`). `NoEcho`
  speaks of the time before.
* `lt()` never closes at the end of a stream (`1_4_server.cpp:51`): epoll reports it again
  and again. `AllServed` does not ask `"lt"` for it.
* The echo server receives one datagram for an edge, so that a second one waits for a
  third, and passes 4 as the length of the address (`1_3_server.cpp:100`). An echo (118) to a
  client that has reset fails, and the next one is a SIGPIPE and the server's end; when the
  client had closed before its host answered an echo with the reset, the next echo already is.
* The chat with poll can be ended in the same way, at the `send` of line 153 and at that of line 95,
  by a client that closes and whose host resets between the poll and the send. Nothing in chapter 1
  handles or ignores SIGPIPE, which chapters 5 to 7 do. `KilledOnlyBetween` says that there is no
  other moment.
* The argument of a new thread is on main's stack (`1_5_server.cpp:121`): the next event may
  give two threads one socket, and an accept may lay an address over it. A thread with a
  descriptor that is not open never ends.
* A signal that finds the pipe of the signal server full is lost (`3_1_server.cpp:38`): the
  `send` fails and nobody looks at what it returned. On a usual Linux about 278 messages of one
  byte fill it. The pipe is read once for an edge (112): what is there beyond 1024, where it
  holds that much, waits for another signal.
* The timer server does not look at what `accept` returned: a failing one makes `users[-1]` the
  new client (`4_2_server.cpp:132-135`). TimerServer has no failing `accept`.
* In the chat with poll, text that comes with the hangup is dropped (`1_2_chat_server.cpp:117`),
  and once a user was asked to write it is asked for ever: `|= ~POLLIN` clears no bit.

## 6. What is not modelled

Of the parts that are: the text of lines and replies, formatting, logging, errors
of `epoll_wait` and of the set-up, integer overflow of `Content-Length`, writes that
take a part of the iovec, the mapping of the file, descriptors beyond `MAX_FD`, a
CGI program that cannot be started after `fork` (`6_CGI_server.cpp:66`: the copy of the
child goes on in its loop), a failing `pthread_create` in chapter 1, the addresses of
datagrams.
Of the modelled programs' headers: `cond` and `adjust_timer`, which nothing calls.
Whole programs:

* `http_conn2.cpp` is in no build and nothing includes it. It is an older copy of
  `http_conn.cpp`: `read()` ends without a value when `recv` fails, `parse_headers` does
  not know HEAD, `Content-Length` goes through `atoi`, a missing file is `NO_REQUEST` and
  never answered. The rest would repeat WebServer and HttpParse word by word.
* The select server serves one connection from one thread and keeps nothing between two
  events.
* The clients are driven by hand; the environment of each server may do what they do.

## 7. Plan

Done, in this order: the thread pool and its contract, the web server on top of
that contract, the parsers, the timer list and server, the shared-memory chat, the
process pool with its CGI connections, the chat with poll, the small epoll servers, the
proofs of section 4, the abstract specifications Custody and Prefork with their refinements.

What is left, most important first:

1. **ResponseWriter**: `write` with a writev that takes any part, `add_response` at
   the end of its buffer, the life of the mapping. Property: a client receives a
   prefix of the reply, and all of it when the connection is kept.
2. `execl` failing in the forked copy of a child (`6_CGI_server.cpp:66`), which takes a model of
   two processes with one epoll and one signal pipe, and the question whether that still is a
   Prefork: the copy reads the child's pipe too.
