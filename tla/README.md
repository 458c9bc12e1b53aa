# Specifications of learn_files

The repository is a collection of programs and annotated examples. This
directory specifies the ones that carry a protocol of their own: first the FTP
server `projects/miniftpd`, the thread pool `UNP/pthread/pthread_pool` and the
shared-memory queue `UNP/system_v/shmfifo`, then four programs on sockets: the
chat room of `UNP/socket`, the server and the client of `C++/boost_asio_*`, and
the control server of `projects/Pelco_Server_interface`. The rest is listed below
with the reason it is left out.

Contents: 1. inventory, 2. plan, 3. the modules and the code, 4. the runs,
5. fairness, 6. the proofs, 7. what the code does against its own words,
8. what is not modelled.

Names in `typewriter` are names of the code or of a module. Line numbers refer
to files under `src/`.

## 1. Inventory

### miniftpd

One listening process forks one process per connection. That process starts a
session: it forks again, so that a session is a pair, the *ftp* process, which
speaks the protocol with the rights of the user, and the *nobody* process, which
keeps the right to connect from port 20.

```
 client ---- control connection ----+
                                    |
 listener --fork--> check_limits --> begin_session --fork--> ftp process
   ^  s_children, s_ip_count_hash,          |                   |   ^
   |  s_pid_ip_hash                         v    parent_fd <==> child_fd
   +---- SIGCHLD ---------------- nobody process --- fd passed ----+
                                            |
 client <--- active data connection --------+
 client ---- passive data connection ---------------------> ftp process
```

| part | state | operations | interacts by |
|---|---|---|---|
| listener (`main.c`) | `s_children`, `s_ip_count_hash`, `s_pid_ip_hash` | the accept loop, `check_limits`, `handle_ip_count`, `handle_sigchld`, `drop_ip_count` | fork, copies in `session_t`, SIGCHLD |
| hash table (`hash.c`) | buckets of doubly linked nodes | alloc, lookup, add, free | called by the loop and by the handler |
| ftp process (`ftpproto.c`) | `session_t`: `port_addr`, `pasv_listen_fd`, `data_fd`, `data_process`, `abor_received`, `restart_pos`; the armed alarm; the descriptor table | one `do_` function per command, the transfer loops, `handle_alarm_timeout`, `handle_sigalrm`, `handle_sigurg` | control connection, data connection, SIGALRM, SIGURG, the socket pair |
| nobody process (`privparent.c`) | its end of the pair, the socket it connects | `minimize_privilege`, the command loop, `privop_pasv_get_data_sock` | the socket pair, descriptor passing |
| `privsock.c`, `sysutil.c` | none of their own | framing of commands, integers, strings and descriptors; timeouts on accept and connect | system calls |
| `parseconf.c`, `str.c`, `tunable.c` | the tunables | read the file once | assigns the tunables |

What is hard, and what correctness means there:

* **Listener.** SIGCHLD runs `handle_sigchld` between any two instructions of the
  loop, and both write the same three tables. The limits are not tested by the
  process that counts but by the forked child, on copies. Signals do not queue.
  Correct means: no more than `max_clients` sessions, no more than `max_per_ip`
  sessions of an address, counts that return to zero with the clients, and no
  process left as a zombie.
* **ftp process.** Two timers share the one alarm of the process and two signal
  handlers run on top of the transfer loops; a command leaves state to a command
  after the next (`REST` then `RETR`, `PASV` then `LIST`); descriptors are small
  numbers the kernel uses again. Correct means: a descriptor kept in `session_t`
  names what it named when it was stored; a reply "Transfer complete." is true;
  an `ABOR` is settled within the command it aborts; each timer ends what it is
  for and nothing else.
* **The pair.** The stream between the processes has no framing; either process
  can die at any step; each holds both ends until it closes one. Correct means:
  both sides agree on what comes next, an answer belongs to its request, and
  neither half of a session outlives a request the other half abandoned.
* **hash table.** A node is unlinked and freed in a signal handler while the
  loop may be in the middle of inserting one.

### UNP/pthread/pthread_pool

`threadpool_t` holds a list of tasks, `counter`, `idle`, `max_threads` and
`quit`, one mutex and one condition variable on which both the threads and
`threadpool_destroy` wait. `threadpool_add_task` signals or creates a thread;
`thread_routine` waits at most two seconds, runs a task without the mutex, and
leaves when it timed out or the pool is quitting; `threadpool_destroy` tests
`quit` without the mutex. Hard: timeouts that race with a new task, signals that
reach the destroyer in place of a thread, spurious wakeups, counters that are
updated later than the event they count. Correct means: every task is run, once,
in order and at most `max_threads` at a time; and the call of
`threadpool_destroy` that ends the pool returns, only when all is done.

### UNP/system_v

`shmfifo` is a queue in shared memory used by several processes: `sem_mutex`,
`sem_full` and `sem_empty` around two indices; the creator fills in the segment
and the semaphores after both exist. Hard: another process between these steps;
a process that dies between P and V; a removal while others hold ids. Correct
means: blocks come out in the order they went in, each once; nothing is lost
from the semaphores; who waits is served as long as nobody died inside a call. `dinning.c` takes two forks in one `semop`; `print.c`
alternates two processes with one semaphore. The other programs wrap one call.

### UNP/miniftpd

Another author's version of the same server. Its nobody process does more: it
also listens for PASV, is asked whether it listens, and accepts; the listener's
port and the yes or no travel over the pair as integers.

### UNP/socket: the chat room

`chatser.cpp` keeps `client_list`, fed by login and logout datagrams, and answers
a login with the whole list, one `sendto` a user, and with news for the others.
`chatcli.cpp` keeps a copy of the list and sends chat messages to the addresses in
it directly. Hard: a datagram is dropped when a buffer is full; a client reads a
count and then so many datagrams, whoever sent them; command numbers of the two
directions, counts and names share one word of a datagram. Correct means: a client
that lost nothing has the server's list in the end, however logins, logouts and
list commands fall among each other.

### boost_asio_server, boost_asio_client

The server hands out connection ids from `m_cnnIdPool` and keeps a map of
handlers. One thread runs all its handlers; hard are the paths after an error,
which go on as if there had been none, and the pool at its last id. Correct means:
every id is in one place, once. The client has an io thread, a thread that
reconnects every second, and a sender, which share `m_isConnected`, `m_chkThread`
and the socket without a lock. Correct means: the flag that gates sending does not
stay set over a dead socket, and the client is connected again once the server is
back.

### Pelco_Server_interface: the control server

`startServer` accepts one client at a time, divides what it receives into frames
(`unionBuf`) and answers them; an inspection runs in a detached thread and reports
on the socket it was started from. Both stamp their answers from `sendSeq2`,
`sendSeq3`, `recvSeq4`, `recvSeq5`, which are two numbers in bytes of which the
lower ones step by two. Hard: a recv ends anywhere; the handler of an SQL request
receives the rest of its statement itself; the buffer outlives the connection; an
inspection can fail without clearing the flag that keeps a second one off; the
carry. Correct means: frames are executed as they were sent, one inspection moves
the track at a time, the numbers count the frames that are to be counted and the
answers.

### The rest

The memory pool (a bump allocator), SGI STL excerpts (sequential algorithms), and
the directories of section 8.

## 2. Plan

Order of work; what a step needs is in the steps before it.

| step | module | state |
|---|---|---|
| 1 | `Listener`: the loop against its handler | done, limits proved |
| 2 | `FtpSession`: one ftp process, its handlers and its descriptors | done for the commands that keep state; invariants and timers proved |
| 3 | `ThreadPool`, `TaskService`: the pool implements the service | done, refinement proved |
| 4 | `PrivSock`: the pair of processes, in both versions of the program | done, invariants proved |
| 5 | `ShmFifo` and the abstract `BoundedQueue` it implements, with initialisation by several processes | done, refinement proved |
| 6 | `Chat`: user lists over datagrams that are lost | done, agreement proved |
| 7 | `AsioServer`: ids and handlers; `AsioClient`: three threads and a socket | done; ids and the flag proved |
| 8 | `PelcoServer`: frames, sequence numbers, the inspection thread | done for the control server; invariants proved |
| 9 | `NetPrograms`: the four programs of steps 6 to 8 under one specification | done, theorems carried over |
| 10 | proof of `ListsAgree` of `Chat`, by an induction on the datagrams that wait | done |

Abstract specifications: `TaskService` (what the pool promises) is implemented by
`ThreadPool`, `BoundedQueue` by `ShmFifo`. Modules meant to be proved about declare
no `RECURSIVE` operator; none of the project does.

## 3. The modules and the code

In every module an action is one handler, or the part of it that no other
process, thread or signal can interrupt with an effect. Guards are the code's
conditions; the name is the code's where it has one.

Definitions whose name carries a suffix after `_` (`StoreChildren_Skip`,
`Decide_LateLeaves`, ...) are not part of the specification. Each is what the
definition it is named after would be with one plausible mistake; the property
meant to catch that mistake does (PROJECT.json "mutants").

### Listener

State: the three globals of `main.c` under their names, the locals of the loop
(`ip`, `pid`, `sess.num_clients`, `sess.num_this_ip`), `mpc` for the place in
the loop, `reg` for the register between a load and a store, one bit for the
pending SIGCHLD, and for each process whether it is in `check_limits`, serving,
or a zombie, with the copies `fork` gave it.

| action | code |
|---|---|
| `Accept`, `AcceptFail` | `accept_timeout` in the loop of `main` |
| `LoadChildren`, `StoreChildren`, `CopyChildren` | `++s_children; sess.num_clients = s_children;` |
| `LookupIp`, `LoadIp`, `StoreIp` | `handle_ip_count` |
| `Fork`, `ForkFail`, `Record` | `fork`, the error path, `hash_add_entry` |
| `Deliver`, `HandlerReap`, `HandlerReturn` | the kernel; `handle_sigchld` and `drop_ip_count`, one turn of its loop at a time |
| `CheckLimits`, `ChildExit` | `check_limits` in the child; the end of a session |

`++s_children` and `++count` are each a load and a store because the Makefile
compiles without optimisation. A load through a pointer to freed memory returns
any value of `Garbage`; a store through it leaves the table alone or ends the
process. `InterruptPoints` names where SIGCHLD may arrive: all points for the
code as it is, fewer to show which windows matter. The two tables are functions;
`hash_add_entry`'s refusal of a key that is present is kept.

### FtpSession

State: the fields of `session_t` that outlive a command, the armed alarm and its
handler, the kernel's descriptor table `fdt` (the lowest free number is handed
out, as POSIX says), the locals of the transfer functions, and three ghosts:
the replies to the current command, whether an ABOR arrived during it, and how
many chunks moved since the data alarm was armed.

A function is cut into steps wherever a signal handler would see or change
something. Two cuts lie between neighbouring statements: `sendfile` or `read` has
moved data, and `limit_rate` has not yet set `data_process` (places `sent` and
`received`); and the data connection is closed, and `data_fd` is not yet -1
(`closed` and `listClosed`). SIGALRM and SIGURG may fall there as everywhere else.

| action | code |
|---|---|
| `ReadCommand`, `CtrlEof` | the loop of `handle_child` |
| `DoPass`, `DoPort`, `DoPasv`, `DoRest`, `DoAbor`, `DoQuit` | the functions of that name |
| `Overflow`, `NoTransferFd`, `StartActive`, `StartPassive`, `Connect`, `Accept` | `get_transfer_fd`, `port_active`, `pasv_active`, `get_port_fd` |
| `OpenRetr`, `OpenUpload`, `OpenList`, `OpenFault` | what precedes the 150 reply in `do_retr`, `upload_common`, `do_list` |
| `SendChunk`, `SendError`, `SendNothing` with `SendReturns` | the `sendfile` of `do_retr`, `ret` holding what it returned |
| `RecvChunk`, `RecvEof` | the `read` of `upload_common` |
| `LimitRate`, `RateZero` | `limit_rate`: `data_process = 1`; the division by a rate of 0 |
| `SendCheck`, `SendDone`, `RecvCheck` | the rest of the two loops |
| `ListEntry` | `list_common` |
| `LoopEnds`, `ListEnds` with `CloseData` | `close(sess->data_fd)` at the end of a transfer |
| `ListDone`, `Finish` with `CloseFile` | `data_fd = -1`; the close of the file, the reply and `check_abor` |
| `BrokenPipe` | SIGPIPE in `sendfile` or `write` |
| `IdleTimeout`, `DataTimeout`, `SigUrg` | `handle_alarm_timeout`, `handle_sigalrm`, `handle_sigurg` |

Time is abstract: an armed alarm may go off at any step. A file is `Size`
chunks. What may fail in a behaviour is `faults`, chosen at its start from
`FaultSets`, so that one run can state what holds without failures and what holds
with all of them; the two timeouts (`tunable`) are chosen in the same way.

### PrivSock

`program` says which of the two programs runs: that of `projects/miniftpd`
("projects") or that of `UNP/miniftpd` ("UNP").

State: the place of each process, the ends of the socket pair each holds, the
bytes in flight each way as a sequence of messages, and for each socket the number
of the request it was made for, `data_fd` of the ftp process included; in UNP also
`ret` of `get_transfer_fd`, whether a PORT waits for its transfer
(`p_sock`) and nobody's listener. A read finds the end of the stream only when
nobody holds the other end; a write then raises SIGPIPE.

| action | code |
|---|---|
| `ChildContext`, `ParentContext` | `priv_sock_set_child_context`; `priv_sock_set_parent_context` and `minimize_privilege` |
| `SendCmd`, `SendAddress` | projects: `get_port_fd`: command, port, length, address |
| `DoPort`, `DoPasv`, `Transfer`, `Ask`, `GetInt`, `Answered` | UNP: `do_port`, `do_pasv`, `get_transfer_fd` and the requests they make |
| `GetResult`, `RecvFd` with `Result`, `AfterFd` | `priv_sock_get_result`, `priv_sock_recv_fd`, and what `get_transfer_fd` does next |
| `CloseData`, `TransferFails` | the end of a transfer; one that returns before it begins, with `data_fd` as it is and the connection open |
| `ReadRequest`, `TcpClient`, `ConnectAndAnswer`, `SendFd` | `handle_parent` and `privop_pasv_get_data_sock` |
| `Handler`, `PasvActive`, `PasvListen`, `PasvAccept` | UNP: `handle_nobody` and its functions of those names |
| `FtpDies` | any end of the ftp process |

### ThreadPool and TaskService

State of `ThreadPool`: `queue`, `counter`, `idle`, `quit` as in `threadpool_t`,
the place of each thread and of each caller of `threadpool_destroy`, and two
ghosts, the tasks that ended and the number of failed creations. A critical
section is one step. A wait is three: waiting; woken or timed out without the
mutex; with the mutex again. Threads and destroyers wait on the same variable
and `Signal` picks any of them.

| action | code |
|---|---|
| `Enter`, `Resume`, `Expire` | `thread_routine` from the top of its loop; after a wakeup; after a timeout |
| `Past`, `Decide` | the rest of that critical section: take a task; the two tests at the end of the loop |
| `RunEnds`, `Relock` | `t->run(t->arg)` returns; the mutex is taken again |
| `AddTask` with `WakeOrCreate` | `threadpool_add_task` |
| `DestroyTest`, `DestroyLock`, `DestroyResume` | the unlocked test, the critical section and the wait of `threadpool_destroy` |
| `TimeOut`, `Spurious` | the clock; a wait that returns for no reason |

`TaskService` is the promise: `Submit`, `Start` the oldest, `Finish`; and for
each caller of `threadpool_destroy` a `Call`, which ends in a `Return` once nothing
is pending or active, or in a `TurnAway` at once, which is allowed only after another
call has begun. The mapping is in `ThreadPool`: submitted is `added`, pending is
`queue`, active is the set of tasks threads hold, and `CallPlace` tells where a
caller is: one that found `quit` set (`threadpool.c:124`) was turned away, and may
go on while tasks are queued or running. So the service promises a caller of
`threadpool_destroy` that the work is done only if it is the first, or tests `quit`
before the first has set it.

### ShmFifo and BoundedQueue

State of `ShmFifo`: the segment the key names (`shm`, `rd_index`, `wr_index`,
`payload`), the values of the three semaphores, the place of each process, who
attached the present segment and which semaphore ids each process has that still
exist. A block holds the number of the put that made it. Each system call and
each access to the header or to a block is a step. Ghosts: `count`, blocks stored
and not taken; `taken`, the last block taken; and `raced`.

| action | code |
|---|---|
| `Probe`, `Make` | the two `shmget` of `shmfifo_init` |
| `SetHead`, `CreateSems`, `SetSems` | the creator: header, `sem_create`, `sem_setval` |
| `OpenSems` | every other process: `sem_open` |
| `CallPut`, `CallGet`, `Enter`, `Leave` | the calls, their two `sem_p` and their two `sem_v` |
| `CopyIn`, `AdvanceWr`, `CopyOut`, `AdvanceRd` | the `memcpy` and the index of `shmfifo_put` and `shmfifo_get` |
| `RemoveSems`, `RemoveShm` | `shmfifo_destroy`; others keep ids that fail and a segment without a key |
| `Die` | external: a process is killed between two steps |

Every failing call of `ipc.c` ends its process, as `ERR_EXIT` does. What a
process dead inside a call had in hand stays there: `sem_p` and `sem_v` are done
without `SEM_UNDO`.

`raced` becomes true at the steps after which nothing is promised: a creator
fills in a header that others have attached, a `sem_setval` overwrites a
semaphore that was used already, or a process creates or opens semaphores that
belong to another segment than the one it attached. The model stops there, since
the header may then hold anything, zero blocks included, and every property says
"unless `raced`". What leads there is in section 7.

`BoundedQueue` is the promise: `Store` at the end if fewer than `Blocks` are
stored, `Take` the oldest, `Remove` everything. The mapping is in `ShmFifo`:
`Contents` is the `count` blocks from `rd_index` on.

### Chat

State: `client_list`; for each client where it is, its name, the users still to
read and its own list; the datagrams waiting at each socket; what the server has
still to send for its current request. A datagram carries the word a reader finds
in it (a command, a count, or the letters of a name) and the user, if there is one:
`Reads` is what a client does with a datagram at the place it has reached, whatever
the sender meant. `ReadAll` folds it over all that waits: the client as it will be.
`Letters` is the number that four letters of a name make. It stands for 32 bits of
text, and is therefore no command and larger than any count of users there can be.

| action | code |
|---|---|
| `Login`, `Receive` | `chat_cli`: the name, the answers, the count, the users, the main loop |
| `List`, `SendMsgTo`, `Exit` | `parse_cmd`, `sendmsgto`, the end of the input |
| `ChatSrv` with `DoLogin`, `DoLogout`, `DoSendList` | `chat_srv` and its functions: the list is changed at once |
| `SendReply` | one `sendto` of such a function; dropped if the receiver's buffer is full or the socket is gone |
| `Killed` | external: a client ends without a logout |

`spoilt` is the history of clients that lost a datagram or were sent a chat
message inside a list; `ListsAgree` excepts them. Datagrams of different senders
meet in any order; those of one sender arrive as they were sent.
(The two programs include `char_public.h`, which the repository does not have; the
file is `chat_public.h`.)

### AsioServer and AsioClient

`AsioServer`: a step is a handler run by `io_service::run`. `accepting` is the id
of the handler that `async_accept` waits for. When the pool is empty `front()` is
undefined, `run` says so, and nothing is promised from there on; with 65536 ids it
takes as many connections.

`AsioClient`: a step is one access to `m_isConnected`, `m_chkThread` or the socket
by one of the three threads (`pc` of `io`, `chk`, `main`). `completions` are the
handlers ready to run. The second creation of the checking thread ends the program
(`terminated`), as `std::terminate` does.

| action | code |
|---|---|
| `Accepted`, `AcceptError` with `Inserted`, `Accept` | the handler in `Server::Accept`, `CreateHandler`, `HandleAcpError` |
| `ReadError` with `RecyclConnid` | `RWHandler::HandleError`, `RecyclConnid` |
| `RunHandler`, `HandleRead`, `HandleConnectError` | the handler in `Connector::Start`, `HandleRead`, `HandleConnectError` |
| `HandleError`, `HandleRWError`, `CheckConnect` | the functions of these names, in the io or the main thread |
| `CheckLoop` | the loop of the checking thread: the test and `Start` |
| `Started`, `Send`, `HandleWrite` | `main`, `Connector::Send`, `RWHandler::HandleWrite` |
| `ConnectEnds`, `ServerDown`, `ServerUp` | external: the network |

### PelcoServer

State: the globals of `Pelco_ServerDlg.cpp` under their names (a pair for the two
bytes of a number), `unionBuf` and the bytes on the way as halves of frames, so
that a recv may end inside one, the place of the server thread and of each
inspection thread, how many numbered sends each has still to make, and of an SQL
statement, which is one frame or up to three, how many frames the client has still
to send (`rest`) and `ackExecuteSQL` to receive (`more`). The ghost `counted` is
updated apart from the code's numbers: where a frame of a kind that is to be
numbered (`Numbered`) is taken from the stream, and where an answer is sent.

| action | code |
|---|---|
| `Accept`, `Break`, `Recv`, `Divide`, `Divided` | `startServer`, with its branch for a frame of no known type |
| `AckConnect` ... `AckQueryHistoryVideo`, `Uncounted` | the handlers: the numbers of sends each may make; the kinds without `recvSeqAdd1` |
| `SqlRecv` with `OfStatement`, `RecvSeqAdd2` | the loops of `ackExecuteSQL`: a recv of one or two frames of the statement |
| `RecvSeqAdd1`, `Answer` with `Carry`, `Plus2` | `recvSeqAdd1`, `setSendSeqAndRecvSeq` in two steps and `send` |
| `StartInspection`, `Begin`, `Stamp`, `Report` | the branch for 0x66; `ackExecuteInspection` |
| `OnTimer` | the pings that set `g_connected_...` |

An inspection reads its frame from an array of a block that the server thread has
left: it finds the frame, or something else and returns (`Begin`). A connection on
which an inspection ran has `mixed` set: two threads then step the same bytes, and
`SeqExact` promises nothing. `spoilt` is the history of a recv that ended inside a frame, brought the rest of an
SQL statement into `unionBuf`, or brought `ackExecuteSQL` more than its statement;
after it, frames may be taken for what they are not, and the model stops
(`misread`).

### NetPrograms

The programs of the last three sections do not interact. `program` chooses the one
that a behaviour is about, the others stay as they begin. The module holds the
assumptions on their constants, the fairness, and one name for each of their
properties.

## 4. The runs

Passing runs are checked completely within their bounds. Every property of a
passing run is violated by a mutant of the definition it depends on.
CHECK_DEADLOCK is FALSE in all of them: a listener that has accepted its last
connection, a session that ended, a pool that was destroyed and a queue whose
processes died or wait for each other do stop.

| run | what it asks | bounds, and why they are enough |
|---|---|---|
| `listener_all` | SIGCHLD at every point: does `s_children` ever undercount, are more than `max_clients` served, is a zombie left? | 4 connections over 3 process ids, limit 2: a third and a fourth client meet the limit, an id is used again, and two SIGCHLDs merge |
| `listener_windows` | without SIGCHLD in three windows: are both counts exact and both limits kept? | 2 addresses, limit 1 for each and 2 in all; an address leaves and comes back |
| `listener_per_ip` | the same limit with SIGCHLD everywhere | refuted |
| `listener_phantom` | does an empty server count nobody, with SIGCHLD everywhere? | refuted |
| `session_all` | every command, failures or none, every timer setting: does `data_fd` never name anything but the data connection, is "Transfer complete." true for RETR and not said of an aborted one, is nothing of a transfer left between commands, are ABORs settled, is each timer kept to its purpose up to the chunk that is not recorded yet; do transfers end? | 3 descriptors, so that a listener, a data socket and a file fill the table and a second PASV exhausts it; 2 chunks, so that a loop has a first, a last and an interrupted turn. Any sequence of commands, unbounded. What a behaviour may suffer (`faults`) and the timers (`tunable`) are chosen at its start. 2,135,286 states |
| `session_both_active` | does PASV then PORT end in the reply the code has for it? | refuted |
| `session_aborted_upload` | is an aborted upload ever reported complete? | refuted |
| `session_stale_abor` | does "ABOR successful." answer an ABOR of this transfer? | refuted |
| `pool_all` | counters, wakeups, order, the limit, refinement of `TaskService`; does every task run and destroy return? | 3 threads for a limit of 2, so that identities are reused and a thread leaves while another starts; 3 tasks, one more than can run; 2 destroyers, so that one finds the other at work or done. 18,121 states |
| `priv_all` | in both programs: do the two processes stay in step whoever dies, does a transfer run only on the connection of its own request, whatever failed before, is it closed by nobody; does each call end; does nobody follow the ftp process? | 4 requests; a fifth adds nothing, since at most one is in flight and the number only tells it from its neighbours and from a connection that a transfer two requests before has left. 2,001 states |
| `shm_all` | processes open, use and remove the queue and die anywhere: is it a bounded queue, is one process at a time inside, do the semaphores account for every block and place, is everyone served unless a process died inside a call? | 2 processes, each of which creates, opens, writes and reads in some behaviour; 2 blocks and 3 puts, so that the queue fills and the ring wraps; 4 calls of `shmfifo_init`, so that a queue is removed and made again while the other process holds ids of the old one; 2 deaths. 230,185 states. The strengthened invariant was checked with 3 processes before its proof, which has no bound on the processes or the blocks |
| `net_all` | chat room: do users that lost nothing agree with the server? Asio server: is each id in one place? client: does the flag follow the socket, does it reconnect? control server: are frames, the single inspection and the numbers kept? | see below. 803,026 states |

Bounds of `net_all`: 3 clients and 2 names, so that a name is refused and a third
user hears of two others; buffers of 4 datagrams, which a login with its list
fills, so that datagrams are lost; 1 list command or chat message. 5 ids: all are
handed out, and come back in every order. 2 outages and 3 lines, so that both
threads can meet the same error; 2 handlers ready when the checking thread
connects. All kinds of frame, the unknown one among them, and SQL statements of one to
three frames; bytes of 4 values in place of 256, so that
the answers of one connection wrap both bytes and the frames carry into the second; 2 connections, so that one finds
what the last has left in `unionBuf`; 2 frames, which a recv may join or split;
inspections of 0 or 1 job.

`listener_all` uses no symmetry, because it checks a liveness property;
`listener_windows` treats process ids and addresses as interchangeable, which
they are: no action tells one from another.

`UIntMax` is 15 in the listener's runs. With four connections no counter comes
near it unless a decrement below zero wraps, which then shows at once.

## 5. Fairness

* **Listener.** A pending signal is delivered, the handler and the loop go on
  where they are, a forked child reaches the end of `check_limits`: the
  scheduler and the kernel see to that. `Accept` and `ChildExit` are not fair:
  nobody has to connect or to leave.
* **FtpSession.** The process runs whenever it does not wait for the client, an
  armed alarm goes off, and a `read` of a closed connection returns. Nothing
  obliges the client to send or to take a byte; `SendChunk`, `RecvChunk` and
  `PeerClose` are not fair. That a transfer ends is then owed to the data timer
  alone, which is what `TransferEnds` is about.
* **ThreadPool.** Each thread that has, or can get, the mutex goes on; a task's
  function returns; a timed wait ends. Fairness is per thread: one thread is not
  starved because another keeps going. Nobody has to add a task or call
  `threadpool_destroy`, and a destroyer's first, unlocked test is not fair.
* **PrivSock.** Both processes go on, and `connect_timeout` returns. Whether it
  succeeds, whether a process dies and whether another request follows is open.
* **AsioClient.** Each thread goes on and a connect ends. Nothing brings the server
  up, and nobody has to type a line. `Reconnects` is about behaviours in which the
  server stays up in the end and (`timely`) a connect and its handler are over
  within the second the checking thread sleeps; otherwise a connect may meet the
  one before it for ever. Of the other three network programs nothing is claimed
  that needs fairness.
* **ShmFifo.** A process that can go on does (weak fairness of `InitStep` and
  `CallStep` for each process). A wait for a semaphore is strongly fair, since
  the kernel keeps the waiters of a semaphore in a queue and serves them in
  turn; with weak fairness a process could be overtaken for ever. Nobody has to
  open, use or remove a queue.

## 6. The proofs

TLAPS proves the following for all values of the constants that satisfy the
assumptions named in the modules: finite sets of processes and threads, at
least one block in a queue, `MaxThreads` at least one and not more than the identities there are, limits
that fit an unsigned integer, and fewer connections than it can count
(`WidthAssumption`: a server that accepts 2^32 connections is outside).

| theorem | module | further assumption |
|---|---|---|
| `TypeCorrect` | `ListenerProofs` | |
| `ChildrenCoveredHolds`, `GlobalLimitHolds` | `ListenerProofs` | none: signals at any point |
| `ChildrenExactHolds`, `NoPhantomHolds` | `ListenerProofs` | no SIGCHLD at `storeChildren` |
| `IpCountsExactHolds`, `PerIpLimitHolds` | `ListenerProofs` | `WindowClosed`: none at `loadIp`, `storeIp`, `record` |
| `TypeCorrect`, `DataFdValidHolds`, `RetrCompleteHolds`, `NoIdleKillInTransferHolds`, `DataTimeoutOnlyWhenStalledHolds` | `FtpSessionProofs` | none: any set of descriptors, any size of file, any failures |
| `IdleHoldsNothingHolds`, `AborSettledHolds` | `FtpSessionProofs` | two descriptors at least |
| `TypeCorrect`, `NeverOutOfStep`, `FdIsOfCall` | `PrivSockProofs` | |
| `TypeCorrect`, `CountersExactHolds`, `NoLostWakeupHolds`, `WorkIsCountedHolds`, `ParallelLimitHolds`, `PoolImplementsService` | `ThreadPoolProofs` | |
| `TypeCorrect`, `MutualExclusionHolds`, `AccountedHolds`, `RingImplementsQueue` | `ShmFifoProofs` | none beyond those in the properties: until the queue was put together wrongly |
| `IdsConservedHolds` | `NetProgramsProofs` | at least one id |
| `FlagFollowsSocketHolds` | `NetProgramsProofs` | |
| `OneInspectionHolds`, `SeqExactHolds`, `FramesIntactHolds` | `PelcoServerProofs`, `NetProgramsProofs` | an even `Byte` |
| `TypeCorrect` | `PelcoServerProofs` | the same |
| `ListsAgreeHolds`, `TypeCorrect` | `ChatProofs`, `NetProgramsProofs` | finitely many names; a buffer holds a datagram |

The assumptions of the third and fourth row are exactly the windows the refuted runs use:
the theorems say that closing a window (blocking SIGCHLD there) is enough, and
which window belongs to which property.

**The limit on clients.** `GlobalLimit` counts processes that serve, but the
test is made by each child on a number copied before it existed, so nothing in
one state relates the two. `CountInv` supplies the relation. `s_children` covers
the processes not yet collected plus the one about to be made
(`ChildrenCovered`, with `ReadCovers` while the value is in a register): the
handler may take its decrement away from the loop, never give it one.
Hence each child is told a number larger than the number of children alive at its
fork. `AdmissionRank` turns this into something every step keeps: of the
children alive, at most `k` were told `k` or less. A fork keeps it because the
new number exceeds the count of all; an exit because sets shrink. With `k =
max_clients` it is the limit. `Bounded` (no counter exceeds the connections
accepted) is there so that unsigned increments are increments.

**Exactness.** `ExactInv` adds that at `storeChildren` the register equals
`s_children`, which is what a handler there destroys.

**The limit of an address.** `IpInv` is the same argument one address at a time,
with exact counts in place of covering ones. It needs the two tables to agree
with the processes (`PidTableExact`), since the handler finds the address of a
process through one table and changes the other.

**The ftp process.** `SInv` adds four things to the types. `Course`: the place in
the code tells the command and bounds the counts of the loops. `Sockets`:
`data_fd` is `None` or an open data socket, or the descriptor just closed, which at
`closed` and `listClosed` is free because nothing is opened there; and past the 150
reply the file is open under another number. That needs the kernel's rule: a new descriptor is a free
one, hence neither of the two (`LowestFree`, which needs the least element of a
set of numbers). `Progress`: what `do_retr` has sent and what it has left make up
the file. `Timers`: the idle alarm is armed only outside a transfer, and while
`data_process` is not set nothing has moved since the alarm was armed but the chunk
whose system call has returned (`Unrecorded`). The two action properties are read
off `Timers`. The exception is as small as the code allows: without it the property
is false, by a SIGALRM between `read` and `data_process = 1`.

`TInv` adds what holds when nothing fails: all descriptors in use are listeners'
or the transfer's, and when the file is to be opened there is a number for it
(`Tidy`). The last conjunct is why the two theorems ask for two descriptors: with
one, PORT then RETR takes the only one for the connection, the file cannot be
opened, and the early return leaves the connection behind although no fault was
injected. A real process has a thousand, so the assumption costs nothing.

**The pair of processes.** `InStep` looks at the head of each stream and at one
process; it follows from `Stage`, which says what both are doing at once: at rest
with nothing in flight; `w` of the words of a request written and `r` of them
read; a request read or waiting; an answer of one word, or of two with a
descriptor. Every step goes from one stage to another, or stays, so the proof has
a lemma for each stage's exits. A death needs no stage of its own: what is
required of a dead process's stream is nothing. `FdIsForCall` needs `Reqs` (all
that is in flight belongs to the last request), `Connected` and, for UNP, `Listener`
(what the ftp process was told of nobody's listener is still so when it uses it).
`Connected` says where `data_fd` names the connection of the last request: in a
transfer, and while UNP's `get_transfer_fd` asks once more with `ret` still 1.
Elsewhere it says nothing, since a transfer that failed leaves any older number in
`data_fd`; that this never reaches a transfer is owed to the return value alone.

**The pool.** `PoolInv` is inductive. `CountersExact` says where each thread is
when it is counted; it holds `counter` to the threads there are plus the failed
creations. `NoLostWakeup` alone is not inductive: a queued task needs a thread on
its way, and a thread that goes to wait needs to know that the queue is empty,
hence the lemmas' `NoWaitAfterQuit`, `WorkIsCounted`, `TaskPlace` (a thread holds a task
exactly while it runs one) and `QuitSet`. The proof describes each step by its
effect on the number of threads at a set of points (`Follows`), so that the
counting is done once (`Move`, `CountsKept`).

**Refinement.** `Work` adds `WorkOrder`: tasks in the queue are in order and all
behind the tasks being run, and no two threads hold the same one. Without it,
taking the head of the queue could add a task to the active ones that is there
already, or the end of one thread's run could remove another's. Every step of
the pool is then a step of `TaskService` or leaves it unchanged. A call that is
turned away needs one fact more: `quit` is set only by a caller that has begun
(`QuitBy`).

**The queue in shared memory.** `QueueInv` is built in three layers. `Handles`
says who can use what: a process has ids only of semaphores that exist, for the
segment it attached; one process at a time creates; a semaphore exists from its
creation to its removal. It is needed because an operation on a queue removed
under the caller must fail rather than change its successor. `Counts` says what
the semaphores hold: with the processes that hold a unit in hand (the dead ones
included) the mutex is at most one, `empty` is `count`, `full` is `Blocks -
count`, with inequalities while a queue is being made or removed. Every step
moves one process from one point to another, so one lemma tells how the number
of processes at a set of points changes, and `Counts` follows by
arithmetic. `Ring`, `OwnBlocks` and `BlocksReal` tie the two indices to `count`
and a copied block to its place; they use mutual exclusion, because another
writer between `CopyIn` and `AdvanceWr` would overwrite the block. That `count`
stays in `0 .. Blocks` is not a separate argument: a writer at `AdvanceWr` holds
a place, so `Counts` leaves room for its block. Refinement (`QueueMaps`) then
reads each step off `Contents`: `AdvanceWr` appends, `AdvanceRd` removes the
head, a removal empties, everything else leaves the sequence as it is.

**Ids.** `IdsConserved` with the types is inductive. The only work is in two lemmas
on sequences without repetitions: what `Tail` and `Append` do to the set of their
elements.

**One inspection.** `OneInspection` is not inductive: it says nothing of two
threads that stopped in an error and left the flag set. The invariant is that no
more than one thread has been started since the flag was last clear, running or
stopped.

**Numbers in two bytes.** `SeqExact` says nothing between the carry and the
addition (`add`), and compares numbers, not bytes. What it compares them with is
counted where frames are taken from the stream and answers are sent, not where the
code counts. `Counted` adds that the lower
byte is even, so that it never meets the value in between, and what the addition
about to come will give. The arithmetic is in two lemmas: the carry at the largest
even lower byte, and the wrap of both. While no inspection ran, no other thread
stamps between the two steps.

**Frames.** `WholeFrames` is about the two buffers: what is on the wire and what
was received are whole frames of the present connection (`Paired`). Every frame says
how many of its statement follow, and the next one says one less (`Expected`,
`Statements`); hence what the wire begins with is what the server expects: the rest of
a statement exactly while it reads one. A buffer that holds the first frame of a
longer statement ends with it (`Received`).
What joining, cutting and consuming do to sequences of halves are lemmas of their
own (`MoreFrames`, `SentFollows`, ...).

The proof showed a flaw of the model that TLC had not: in `Divide` two guards of a
CASE held at once (a handler that sends nothing), where TLA+ leaves the choice open
and TLC takes the first. It is an IF now, with the order of the code.

**The client's flag.** `FlagFollowsSocket` asks for something only when the socket is
dead; a socket that was connected needs it one step earlier. `ClearedSoon` has the
case of a connected socket: a read is outstanding, and closing the socket turns
it into an error in the queue.

**The lists of the chat room.** `ListsAgree` speaks of the clients in the server's
list and of what they have read in the end. It is not inductive: when a client
comes into that list its answer starts with the command, the count and the users,
and the client must be where it reads them as such. `Agreeing` says of every client
that lives and is not spoilt that it is `Fresh` or `Settled`. A fresh client has
done nothing yet: at most one login of it waits at the server or one refusal at the
client, and no list, datagram or reply of anyone names its address (`Heard`), so
neither chat messages nor news reach it. A settled client was accepted once: after all
that waits it is in the main loop with the server's list, it asks for no second
login, and the next reply is read as a command only where the client will take
commands, or is the acceptance itself, at a time when nobody has been told of the
client (`Told`). This last part is why a chat message cannot be taken for the answer
to a login: the server sends a newcomer its own list before it tells the others,
which `OkFirst` records. `Types` adds that names are taken once and that a count
being read down is positive.

What waits is a sequence, and both what a client makes of it (`ReadAll`) and which
replies are for it (`Chosen`) are folds. The induction that they need is done on
sets of numbers, which the provers can use: `RunExists` builds the function from
positions to states, `ReadConcat` and `MailConcat` join the runs of two sequences,
and every step of the room is then an equation between runs. To that end the model
uses `FoldLeft` where it had `SelectSeq`, whose definition is recursive.

`ListRead` is the heart of it: a client that waits for a list and reads a count `n`
and `n` users is in the main loop after the last one, with these users in their
order.

`NetProgramsProofs` shows that a behaviour of `NetPrograms` is one of the chat room
and one of the control server, and carries their theorems over; those of the Asio
server and its client are proved there directly. `TypeCorrect` there is the types of all
four. With it every invariant and every action property that a passing run checks
is stated by a theorem.

Left to TLC: the liveness properties (`ZombiesCollected`, `TransferEnds`,
`DestroyReturns`, `TasksRun`, `NoOrphan`, `CallEnds`, `MutexWaitEnds`,
`BlocksReachReaders`, `Reconnects`), because TLAPS does not reason about fairness
through ENABLED.

## 7. What the code does against its own words

Five runs refute a sentence of the repository; PROJECT.json "findings" quotes it.

* `listener_per_ip` (`main.c:210`): the handler frees the entry whose address
  `handle_ip_count` holds; an address then gets more than `max_per_ip` sessions.
* `listener_phantom` (`main.c:128`): a decrement lost inside `++s_children` stays
  lost; an empty server counts a client.
* `session_both_active` (`ftpproto.c:274`): with PORT and PASV both set,
  `port_active` and `pasv_active` call each other without end.
* `session_aborted_upload` (`ftpproto.c:619`): an upload that ABOR cut short is
  reported complete.
* `session_stale_abor` (`ftpproto.c:917`): an ABOR during LIST aborts the next
  transfer.

The models contain further behaviour of the kind, which no run of its own states:

* STOR after REST writes from position 0, since the branch commented
  "REST+STOR" tests `is_append` (`ftpproto.c:532`, `UploadStart`).
* A LIST that keeps sending is ended by the data timer: `list_common` never sets
  `data_process` (`ftpproto.c:432`; `DataTimeoutOnlyWhenStalled` excepts LIST).
* Without an idle timeout the data alarm outlives its transfer and ends a session
  that waits for a command (`ftpproto.c:121`; `IdleHoldsNothing` asks for an idle
  timeout there).
* A transfer that moves is ended by the data timer if SIGALRM falls after `read` or
  `sendfile` has returned and before `limit_rate` sets `data_process`
  (`ftpproto.c:581`, `848`, `442`; `DataTimeoutOnlyWhenStalled` allows that one chunk).
* An ABOR between `close(sess->data_fd)` and `sess->data_fd = -1` is taken for one of
  a transfer under way: `handle_sigurg` shuts a closed descriptor, which does
  nothing, and `check_abor` answers it; after LIST, nothing does (`ftpproto.c:615`,
  `868`, `920`).
* With a maximum rate of 0, which `tunable.c:15` has as the default and `do_stat`
  calls "No session upload bandwidth limit" (`ftpproto.c:1098`), the first chunk of a
  transfer ends the process by SIGFPE: `limit_rate` divides by the rate
  (`ftpproto.c:468`, `478`, `RateZero`).
* An upload or download that fails between the data connection and the 150 reply
  leaves `data_fd` set and the connection open; the next transfer overwrites the
  number (`ftpproto.c:506`, `781`; `UNP/miniftpd/ftpproto.c:298`, `427`;
  `TransferFails`).
* An ABOR just before `sendfile` or `write` ends the session by SIGPIPE
  (`ftpproto.c:848`, `BrokenPipe`).
* NLST gets no reply at all, its function being empty (`ftpproto.c:927`); a CWD or
  CDUP that fails, and SITE UMASK, get two (`ftpproto.c:680`, `1045`). None of these
  commands is in the model.
* A `sendfile` that fails leaves one byte more to send (`ftpproto.c:859`,
  `SendError`).
* A task may find `idle` positive although nobody waits, and gets neither a wakeup
  nor a thread of its own: `idle` counts threads that were woken and have not yet
  taken the mutex (`threadpool.c:109`, against the comments at `threadpool.c:113`
  and `threadpool.h:21`). The task still runs (`NoLostWakeup`), later.
* A second call of `threadpool_destroy` returns at once while tasks are still queued
  or run (`threadpool.c:124`), so a caller that frees what the tasks use may do so too
  early. `TaskService` promises nothing to a call that was turned away.
* A failed `pthread_create` leaves `counter` one too high, and
  `threadpool_destroy` waits for ever (`threadpool.c:115`). `CountersExact` says
  by how much; `DestroyReturns` and `TasksRun` except it.
* When the nobody process dies alone, the listener counts the session as over
  while the ftp process serves on (`PrivSock` has the state).
* UNP/miniftpd: a second PASV leaves the listener of the first open in nobody
  (`UNP/miniftpd/nobody.c:136`); and a child that ends before its pid is recorded
  stays counted, since the handler skips what it does not find
  (`UNP/miniftpd/main.c:118`; that listener is not modelled).
* A chat message that arrives between a count and its last user is stored as a
  user (`chatcli.cpp:163`); a client that is killed stays in every list.
* After an accept error the server waits on a closed acceptor with another id in
  hand and a handler that was never connected in its map (`Server.hpp:38`). It has
  stopped its `io_service` by then, so no handler runs any more.
* Two threads that meet an error at once both create the checking thread, which
  ends the program (`Connector.hpp:80`).
* A connect that is still under way when the next second's begins makes that one
  fail, and its error closes the socket of the first (`Connector.hpp:34`).
* The rest of a frame stays in `unionBuf` for the next client
  (`Pelco_ServerDlg.cpp:149`); an inspection that cannot report keeps the flag, and
  none is started again (938); `ackAllCall` stamps one buffer and sends others, which
  keep number zero (562, 587).
* A query of history videos is never counted in the receive number, unlike every
  other frame with a handler (1644), nor is a frame of no known type (189); and the
  answers to the query overwrite the numbers just stamped, by the `sprintf` over the
  whole buffer (1676). `SeqExact` says which frames the number stands for.
* `ackExecuteSQL` looks for 0 of `recv`, not for -1 (642): after a reset its loop does
  not end, and no other client is served.
* Two processes that find no segment both create the queue: the second `shmget`
  of `shmfifo_init` lacks IPC_EXCL (`shmfifo.c:16`). The later one resets the
  header and then exits in `sem_create`, or makes the other do so.
* A process that opens the queue before its semaphores exist exits
  (`shmfifo.c:48`); one that opens it between their creation and `sem_setval` may
  put a block that `sem_setval(sem_empty, 0)` makes unreadable (`shmfifo.c:37`).
* A creator or opener overtaken by `shmfifo_destroy` mixes the segment of one
  queue with the semaphores of the next (`shmfifo.c:31`, `shmfifo.c:48`).
* A process that dies inside `shmfifo_put` or `shmfifo_get` takes a place, a
  block or the mutex with it, the last of which stops everybody (`ipc.c:21`;
  `Accounted` counts what is lost, `MutexWaitEnds` excepts it).

## 8. What is not modelled

Of miniftpd: the commands that answer from the file system and keep nothing
(CWD, MKD, SIZE, MDTM, SITE CHMOD, ...); the text of listings; the ASCII type,
which changes no byte on the way; the arithmetic of `limit_rate`, which only
delays unless the rate is 0 (`RateZero`); RNFR and RNTO; `NLST`, `STAT` and `NOOP`; the configuration parser and the string
helpers, which are sequential and finished before the first connection. A
signal while a reply is being written, and the reading of a line from the control
connection by both the handler and the loop, are single steps. `miniftpd_demo` is
an earlier copy of the program; of `UNP/miniftpd` the listener, the transfers and the file commands repeat
it with small changes.

Of the queue: what happens after it was put together wrongly (`raced`); callers
that pass different sizes to `shmfifo_init`; a key reused by another program.

Of the pool: `pthread_mutex` and `pthread_cond` failures, which the code does not
look at, and what destroying a condition variable in use does, which is
undefined.

Of the chat room: the loss of a datagram on its way, other than at a full buffer or
at a socket that is gone, and datagrams of one sender that overtake each other (the
client's server address is 127.0.0.1, where neither happens); names too long for
their field.

Of the Asio programs: what messages hold and how they are put together; the
server's `HandleWrite`, which nothing calls.

Of Pelco_Server_interface: SQL statements of more than three frames, which take
`ackExecuteSQL` round its loop more often (`MaxRest`), and recvs of more than two
frames of one; the text that the numbers are printed in; `HandleTrack.cpp` (coordinates and serial commands to the
track), `ini.cpp`, the database, the dialog, and the SOAP and camera libraries.
About 72,000 of the repository's 93,000 lines of implementation are the
third-party and generated files of this directory (`dhnetsdk.h`, `stdsoap2`,
`soapC`, `spdlog`): the modules cover the programs with a protocol of their own, and
those are a small part of the lines.

Of the repository: `hash.c` with its pointers (`Listener` uses maps); the echo
servers and the small programs of `UNP/socket`, `UNP/pthread` and `UNP/system_v`,
whose state is one table or one counter in a single loop; several ftp sessions on
one file, which take `fcntl` locks (`ftpproto.c:511`); `memory_pool.h` and the STL
excerpts, which no program uses; `C++/boost_asio_test` and
`C++/Pelco_Server函数接口` (fragments), `APUE` and `Linux服务器编程` (examples of
one call), `UNP/posix`, `UNP/PingY`, `UNP/tracertY` (programs whose result is what
the kernel or the network answers), and the Python, JavaScript and web pages.
