# A TLA+ verification of all_projects

`src/` holds some forty small programs in C: UDP and TCP servers, raw-socket
tools, programs built on threads, pipes, signals and System V queues, and Linux
kernel modules. They share idioms, not a process: every program is a system of
its own, made of threads or processes that meet in the kernel (a socket buffer, a
message queue, a pipe, a driver's buffer) or in shared memory. Each program with
interacting parts gets a module; programs with the same code share one.

## 1. Inventory

`PROJECT.json` lists every program. Those with logic of their own:

| Program | State | Operations | Interaction | What is hard | What makes it correct |
|---|---|---|---|---|---|
| `udp_highload_server` | UDP socket buffer, kernel queue of typed messages, the message each thread holds | receive, queue, answer, send; client request; benchmark; exit | main thread and 10 reply threads through **one** System V queue that holds requests and replies | the queue outlives the process; workers reorder; blocking `msgsnd` into a queue only the sender drains | an answer belongs to the last request; no deadlock; every request answered |
| `tcp_udp_epoll/poll/select_server`, `tcp_socket_echo_server`, `udp_socket_echo_server` | listen backlog, datagrams, streams, a thread per connection | wait, accept, echo, exit; clients | sockets | no message boundaries in a stream, clients that die, starvation of one socket by the other, SIGPIPE | the echo is the message sent; nobody waits for ever; one client's death is its own |
| `mutex_store` | stock of each store, demand of each customer, a mutex per store | draw, load, join and cancel | shared memory | amounts computed before the lock is taken; read-modify-write | nothing below zero, no lost update, everybody served, termination |
| `ioctl` | a message buffer and a cursor, an open counter | open, release, read, write, set, get | system calls of several processes | no lock; the copies may sleep | one process at a time; what was set is got; no access outside the buffer |
| `backup/malloc` | a doubly linked list of chunks, the break | malloc, free | calls of one program | long sequences of merging, splitting and trimming | the chunks tile the heap; memory in use is disjoint; no invalid pointer |
| `daemon` | two named pipes, pending signals | start-up handshake, request by SIGUSR1, answer through a pipe | pipes, signals | opens that wait for each other, signals that do not queue, SIGPIPE, several clients | one answer per request, in step |
| `icmp_raw_socket_ping` | table of times, counters | send, receive, SIGINT | a raw socket that sees every ICMP packet of the host | loss, reordering, duplication, foreign replies, a thread nobody joins | only own requests are timed; the table outlives its users; the program ends |
| `icmp_raw_socket_traceroute` | the ttl, the header it is copied to | probe, wait three seconds, next hop | as ping; on one host each sees the other's packets | late and foreign answers | a router is named under its distance |
| `file_manager` | two panels with a current file, the working directory, forms, copy progress | keys: browse, run, copy, delete | `fork`/`execl`; a copying and a displaying thread without a lock | paths built from the working directory, which the panels must follow; a child whose `execl` fails goes on as a second file manager; form fields validated late | only what is marked is deleted or run; a copy is complete and its display ends |
| `dns_proxy_server`, `netfilter` | a red-black tree of answers | two netfilter hooks: one stores answers, one answers queries from the tree; a port filter | packets on several processors | no lock; the tree is searched, then searched again to insert | a query is told what a server has said of its name, and is answered |
| `chardev`, `procfs` (two drivers) | a message and one position for all readers | open, read, write, release | system calls of several processes | positions left behind by another reader | each reader gets the message |
| `queue_chat` | a System V queue | connect, answer | message types are pids | blocking sends into the queue one reads; answers to dead clients; pids used again | every client gets its own answer |
| `sctp` | association, two streams, files named by address | send a file, send messages; a thread per client | SCTP streams, files | no order between streams; clients of one address | a file is what its client has sent so far |
| `named_pipes_&_signal`, `unnamed_pipes` | pipes, pending signals | hand over a pid, signal; `ls` into `cut` | pipes, signals | order of opens, closes and waits | no process waits for ever; signals go to the server |
| `safe_pthread`, `get_cur_dt` of three programs | thread-specific buffers, `localtime`'s structure | format a date | shared memory | one structure for all threads | a thread uses its own text |
| `pcap_sniffer` | the packet, counters | capture, search, recompute checksums, print | the packet buffer | byte order, carries, odd lengths; the checksum is overwritten before it is compared; a search past the packet | verdicts as RFC 1071 gives them |
| `udp_raw_tl/nl/dl_socket_server` | raw socket, server socket | send a hand-made datagram, wait for the echo | raw sockets see every datagram | foreign datagrams, the client's own | the client ends |

### Not modelled

* `mutex`: threads add to a sum under one mutex, the idiom of `mutex_store` with
  less at stake.
* `udp_broadcast_server`, `udp_multicast_server`: a sender in a loop and receivers
  that print; nothing answers, nothing is kept.
* `netlink_socket`, `netlink+kernel`, `sk_buff_icmp_module`, `hello`, `inc_prev`:
  code that prints messages of the kernel, or acts once when it is loaded.
* `fork`, `fork_exec`, `ncurses_form`, `list` (the kernel's own `list.h`), the
  exercises `backup/calc_*`, `backup/define`, `backup/struct`: no state that two
  actors share. `backup/fm_0` to `fm_3` are earlier versions of `file_manager`.
* In `queue_chat`, the second queue: the client starts neither of the threads that
  would use it, so the server's `cln_msg_hndl` never returns from its first
  `msgrcv`. The chat client's `graph.c` and `popup.c` are copies of those of
  `file_manager`, and its main does not call them.
* In all programs: output, logs, command lines, packet dumps, the layout of windows.

## 2. Modules

| Module | Models | State and actions |
|---|---|---|
| `HighloadServer` | `udp_highload_server` | The kernel queue is two FIFO sequences (`reqQ`, `replQ`), since `msgrcv` takes the oldest message of a type, under one capacity `QCap`. `srv_reqs_hndl` is the actions `Main...`, cut at its three calls (`recvfrom`, `msgsnd`, `msgrcv`); `cln_repl_hndl` is `WorkerTake` and `WorkerReply`. `Shutdown` empties what the process owns and leaves the queue; `Restart` finds it again. `SockOf` says whether clients have sockets of their own (`client.c`) or share one (`benchmark.c`). Requests are numbered, which the program does not do, so that properties can tell them apart. |
| `ReplyService` | the promise of such a server | One variable: what became of each client's last request. |
| `EchoServers` | the five echo servers and their clients | `mux` is the server; `EpollLoop`, `PollLoop`, `SelectLoop`, `AcceptLoop`, `RecvfromLoop` are the loops of the main threads, `Handler...` the thread of a connection, which is `lost` when `pthread_create` fails, `Tcp...`, `Udp...` the clients. A connection is two streams whose contents one `recv` returns together (`Merged` when that is more than one message) and the state of the client's end, from `open` to `rst`. |
| `MutexStore` | `mutex_store` | Each access to `st_val` is a step: `CstClamp` reads, `CstTake` writes. `ledger` and `sold` book transfers and are read by properties only. |
| `CharDevice` | `ioctl/chardev.c` | `Device_Open` is tested, loaded and stored in three steps; `device_write` stores and `device_read` fetches one byte a step. |
| `HeapAllocator` | `backup/malloc` | `hdr` maps addresses to headers; sizes are bytes and the header has its real 32. `malloc` is `MallocNothing` (size 0), `MallocWhole`, `MallocSplit`, `MallocGrow`, `free` is `FreeInside`, `FreeAtEnd`, `FreeAgain` (a chunk that is free already) and `FreeNull`. `crashed` says which invalid pointer was followed. |
| `TimeDaemon` | `daemon` | One action per blocking call of the daemon and of a client; `woken` is the set of clients an `open` of the pipe has released. `get_cur_dt` ends the daemon (`exited`) where its `malloc` fails. |
| `Ping` | `icmp_raw_socket_ping` | The two threads, main, the signal handler, and the network as a set of packets. `Counts` has 0 for a start without `-c`; identifiers are cut to `IdMod` when they are sent and compared whole when they come back. |
| `Traceroute` | `icmp_raw_socket_traceroute` | One loop: `Probe`, then `Timeout` or `Receive`, after which the answer may arrive again. `air` is what may still arrive; `printed` pairs the ttl printed with the distance of the router that answered, which the program does not know. |
| `IcmpHost` | both on one host | Composes `Ping` and `Traceroute`: every packet for one also reaches the raw socket of the other, seen through the fields that one reads. |
| `FileManager` | `file_manager` | One action per key of main (`Key...`) and of a form (`Popup...`), with everything its case does up to the last redraw; `copy_file` and `display_copy_status` step by step. `screen` keeps what the user sees (title, marked name, colour) apart from what the program has (`panel`, `cwd`). `parents` is the stack of processes in `waitpid`. Directories in `Deep` have a path that does not fit the 255 bytes given to `getcwd`: the panel's path is "-" and a path built in them starts with whatever the buffer held. A path in `Long` is cut by `get_file_path` (`Cut`), one longer than a form's field by the field (`Field`). |
| `DnsProxy` | `dns_proxy_server`, `netfilter/port_filter.c` | `dns_request_hook` is one step of the sending process, `dns_reply_hook` four (`Search`, `Place`, `Link`, `Color`), which processors interleave. The tree is the set of its records. A search that meets a rebalancing may miss a record; once a record is linked while another is being linked or rebalanced the tree is `torn`, and then a search finds a record of its name, finds none, or never ends. Answers have a type and four bytes; the cache keeps the bytes and gives them out as an address (`AsA`). |
| `SharedReads` | `procfs/procfs.c`, `procfs/procfs_m.c`, `chardev/chardev.c` | Readers like `cat`; a read is decided in `BeginRead` and done in `FinishRead`. |
| `QueueChat` | `queue_chat` | `Server...`, `Client...`, cut at the calls on the queue; messages carry the number of the process that sent them, for the property only. |
| `Pipes` | `unnamed_pipes`, `named_pipes_&_signal` | The ends of the pipe each process has open; one action per blocking call. |
| `ThreadDate` | `get_cur_dt` in `udp_highload_server` and `queue_chat`, `safe_pthread` | `localtime` and `strftime` go field by field through the structure all threads share. |
| `Sctp` | `sctp` | `file_hndl` and `msg_hndl` of the client, `Accept`, `OpenFile`, `RecvFile`, `RecvMsg` of the server; files are sequences of chunks written at an offset, and may hold what an earlier run has left. |
| `InternetChecksum` | `compute_checksum` in six programs | The function on little-endian words, and RFC 1071's definition on big-endian ones. |
| `Packets` | the checksum and print functions of the sniffer and the raw clients | Small IP packets with real checksums, as sent or with one byte damaged; printing returns the packet left and the verdicts shown. |
| `Sniffer` | `pcap_sniffer` | `Capture` and `pckt_hndl`, which is one step per packet. `SameByte` compares as the code does, a `uint8_t` with a signed `char`. |
| `RawUdp` | the three raw UDP clients and their server | `SendTl`, `SendNl`, `SendDl`, `Recv`, `RecvDl`, `Serve`; `layer` says which client runs, `addressed` whether its host has the source address the nl client writes into its packets. |
| `HighloadServerProofs`, `MutexStoreProofs`, `EchoServersProofs`, `FileManagerProofs` | | theorems and proofs about one program |
| `IcmpHostProofs`, `KernelModulesProofs`, `ProcessesProofs`, `ToolsProofs` | | the same about `Ping`, `Traceroute` and `IcmpHost`; `DnsProxy`, `SharedReads` and `CharDevice`; `Sctp`, `ThreadDate`, `Pipes` and `TimeDaemon`; `HeapAllocator`, `InternetChecksum`, `Packets` and `Sniffer` |
| `MC...` | | instances for TLC. `MCKernelModules`, `MCProcesses` and `MCTools` put programs side by side that share nothing: a first variable says which one a behaviour is about, the others stay in their initial state, so the run is the union of theirs. |

An operator whose comment begins with "Mutant of" is a plausible mistake in the
code, next to the definition it replaces; `PROJECT.json` says which property each
one breaks. No specification uses them.

Abstractions, in every module: texts are `"date"`, `"hi"`, `"exit"` or the empty
line, since the code tells only those apart; logging and printing are left out;
a failing system call is a nondeterministic choice, guarded by `MayFail` where
there is such a constant; kernel behaviour that is not in the repository (queues,
pipes, signals, TCP, SCTP, raw sockets) is modelled from how the code uses it.

Undefined behaviour is a choice over its outcomes: `waitpid` called with one
argument of three waits or fails at once (`waits` in Pipes); `st_size` and
`cur_size` are read by the progress display before they are set (`Garbage` in
FileManager); `copy_action_btn_ok` takes `strlen` of a structure (`PopupButton`);
the search string of the sniffer has no end mark (`search_str`); the sniffer looks
for an ICMP packet's IP header in its Ethernet header, so that verdict is free; links of the red-black tree after two insertions at once are
anything (`torn` in DnsProxy); the bytes before a file's name where `getcwd` has failed
(`get_file_path` in FileManager).

Left out of single modules:

* DnsProxy: the failure of `skb_copy_expand`, which `send_reply` does not look at and
  which crashes the kernel, and the UDP checksum `send_reply` leaves as it was. A
  single rebalancing beside a search is taken to make it miss, not to make it circle,
  which holds where stores become visible in program order (x86).
* FileManager: files changed by other programs; a directory named "-"; a cut path that
  names a directory as the source of a copy.
* HeapAllocator: sizes within `H + 7` of 2^64, for which rounding wraps round and the
  chunk is too small; a second `free` of a pointer whose chunk has since been merged
  or given back, which reads whatever lies there.
* TimeDaemon: how soon memory runs out (`sys_log` loses 256 bytes a call; here `malloc`
  may fail at any call); EchoServers: how soon threads do, which nobody joins or
  detaches (here any `pthread_create` may fail).
* Ping: a negative count, and more than 65536 requests, beyond which sequence numbers
  repeat.
* CharDevice: user memory that cannot be read or written.
* RawUdp: calls that fail and end the program.
* Packets: damage to the bytes that say how long a packet is and what it carries.
* SharedReads: loading and unloading of the drivers, and `device_read` is one step (its
  bytes are in CharDevice).

## 3. Runs

| Run | Checks | Shows | Instance and why it is enough |
|---|---|---|---|
| `highload_restart` | `TypeOK`, `AnswerMatches`, `NoSenderBlocks`, `ImplementsReplyService`, `RequestSettles` | With errors, exits and restarts over the old queue no client reads an answer to another request, no thread finds the queue full, the server implements `ReplyService`, and every request is settled: answered while no worker has failed, and out of the server as long as one worker is left. | 2 clients with up to 3 requests each, 2 workers, 2 slots, 2 restarts: enough for two workers to reorder requests, for a reply and a request to share the queue, and for messages of one process to be found by the next. Queue identifier 0, for which no worker runs, is included. |
| `highload_wedge` (violation) | `NeverWedged` | With more clients than slots the main thread waits for ever. | 3 clients, 2 slots. |
| `echo` | `EchoMatches`, `UdpAnswered`, `TcpAnswered`, `HandlerEnds` | The echo is the message sent; a client that has sent something and has a thread is answered; epoll starves no datagram; the thread of a client that says exit, if there is one, ends. | All five servers, a TCP client started again and again (`NewProcess`), so that connections never stop arriving, and two UDP clients; empty lines, and threads that cannot be created. |
| `echo_sigpipe` (violation) | `OnlyMainStops` | One client's death ends the server. | one client of each kind |
| `mutex_store` | `NonNegative`, `NoLostUpdate`, `ExactlyServed`, `Terminates` | Amounts stay right under every interleaving, and the program ends. | One store holding less than a customer draws, two customers and the loader compete for it; draws of 0 and of more than there is. |
| `kernel_modules` | `UnreadGetReturnsMessage`, `ReadStaysInMessage` (ioctl); `AnswersGiven`, `QueriesAnswered` (DnsProxy); `ReadsWholeMessage` (SharedReads) | One process gets what it set and stays in the buffer; whatever two processors do to the tree, queries are told what comes from a server's answer for their name, and they are answered unless insertions have overlapped; readers that follow one another each get the whole message. | A buffer of 4 bytes with all shorter strings, the empty one too; three queries of one name and one of another, two processors, and one query from the port the filter blocks; replies with an address and without one; two readers of messages longer and shorter than their buffers, one of which may leave early. |
| `chardev_exclusive` (violation) | `OneProcessAtATime` | Two processes open the device. | 2 processes |
| `tools` | `Tiled`, `LiveSeparate`, `SearchStaysInList` (HeapAllocator); `VerdictRight`, `MatchPrinted` (Sniffer); `RawClientEnds` (RawUdp) | The chunks tile the heap and the search for one never leaves the list; the checksum in the processor's byte order gives the verdicts of RFC 1071 on whole and damaged packets; a packet is printed for its string and, if that is ASCII, every packet that has it; the raw clients wait past foreign datagrams. | 352 bytes of heap: up to seven chunks; requests of 0, of odd and of multiple sizes, second frees, `free(NULL)`, failures of `sbrk`. Packets of 0 to 3 bytes of data out of 0, 118 and 255: odd and even lengths, sums without a carry, with one, and with a carry that carries again; an ASCII byte and one that is negative as a `char`. One packet, since nothing but counters passes from one to the next. Two foreign datagrams, one of which may stop the server; a host with the nl client's address and one without. |
| `processes` | `AnswersInStep`, `DiesOfKilledClient`, `RequestAnswered` (TimeDaemon); `ConnectAnswered` (QueueChat); `CutGetsAll`, `NoSelfSignal` (Pipes); `DateOwn` (ThreadDate); `FileFaithful` (Sctp) | One client's answers stay in step and a daemon that waits ends only of a killed client or for want of memory; a chat client is answered over what dead clients left in the queue; what `ls` prints reaches `cut`; dates and files of threads do not mix. | 3 clients of the daemon with 2 requests each: one served, one that finds the pipe empty, one after; 3 chat processes on 2 pids and 3 slots, so that a pid is used again; outputs up to twice the pipe; 2 servers and 3 clients over one FIFO name; 2 threads and 4 times; 2 SCTP clients of one address or of two, 2 chunks each, over no files or longer ones of an earlier run. |
| `icmp_host` | `RepliesStamped`, `NoUseAfterFree`, `EndsIfAnswered` (Ping); `HopsAttributed` (Traceroute) | Only stamped requests are timed, the table is freed last, ping with a count ends if it is answered, and no router is named too early, although each program receives the other's packets. | 2 requests, so that replies can be reordered and one lost, or no count; one duplicate to ping, any number to traceroute; an identifier that fits into a packet and one that does not; another ping; a destination two hops away and a ttl up to 3, one beyond. |
| `ping_timeout` (violation) | `Ends` | One lost reply and the program waits for ever. | 2 requests |
| `file_manager` | `CopyComplete`, `CopyEnds`, `OnlyMarkedIsLost`, `RunsWhatIsMarked` | Whatever keys are pressed, the file deleted is the one marked or, if its path is too long, what is left of that path; the program run is the one marked; a copy that ends well is complete and lets its display end. | Three directories, one that cannot be read and one too deep for `getcwd`; files that sort before ".", one larger than the copy buffer and one smaller than the progress bar; a long path whose rest names another file, and one that a field cuts; 2 forms, so that a copy can follow a copy or a deletion; 1 waiting parent. |

Bounds that are not in the code: `MaxSend`, `MaxRestart` (HighloadServer), `MaxReq`
(TimeDaemon), `StoreCap` (MutexStore: the loader stops at it), `HeapMax`
(HeapAllocator), one duplicate (Ping), one outstanding process per client name
(EchoServers), `MaxParents` and `MaxForms` (FileManager), `MaxTtl` (Traceroute, whose
loop has no end), `MaxGot` (SharedReads: readers that overlap can keep each other from
the end of the file), `MaxStarts` (QueueChat), `MaxClock` (ThreadDate), `MaxForeign`
(RawUdp), `MaxData` (Packets). `MaxPackets` is the sniffer's own `-c`. `QCap`, `SockCap`, `Backlog` and `BufLen` stand for limits the system
has, made small so that they are reached.

Deadlock is not checked where the program may stop or wait for ever by
design: clients of a server that has exited, a daemon whose client is gone, ping
after its end, readers and raw clients that are done, a copy that failed.

Type invariants are part of the inductive invariants of section 5, and are a
property of a run where it rests on them (HighloadServer); elsewhere TLC's evaluation
of the actions would fail on a value of the wrong type.

### What the violations show

* **highload_wedge** (`server_core.c:104`). The main thread puts a request with a
  blocking `msgsnd` into the queue from which only it takes replies. Once the
  queue holds nothing but replies, main waits for itself. `Capacity` (below) proves
  that this needs more clients than slots; the benchmark has 10000.
* **chardev_exclusive** (`chardev.c:45`). The comment "We don't want to talk to two
  processes at the same time" does not hold: test and increment are separate.
* **echo_sigpipe** (`server_core.c:34`). A client that closes without reading gets
  one echo after its end, answers with a reset, and the next `send` raises SIGPIPE in
  the whole server. The code behind `send` expects an error of one thread.
* **ping_timeout** (`core.c:432`). The timeout of the command line is printed and
  used nowhere.

Restrictions that matter, seen while modelling and kept visible in the
specifications: an empty line makes a TCP client and its handler wait for each
other, and a connection whose thread could not be created is never served (`TcpAnswered`
speaks of the others); a connection that is closed without
"exit" leaves a thread that spins (`HandlerEnds` speaks of "exit" only); under
`poll` and `select` connections can starve datagrams (`UdpAnswered` speaks of the
others); a write of the whole buffer leaves no NUL in the device
(`ReadStaysInMessage` is checked for shorter ones); `malloc` writes through
`(void*)-1` when `sbrk` fails and `free(NULL)` reads before address 0 (`crashed`, which
`SearchStaysInList` tells from a search that runs out of the list); setting an empty
message changes nothing, so that the one before is got again
(`UnreadGetReturnsMessage`); a
duplicated reply lets ping free its table too early (`NoUseAfterFree` excludes it);
after a turn of traceroute without an answer of its own, a late answer is printed one
line too low, and any echo reply on the host ends it (`HopsAttributed`, `idle`);
without `-c`, or with a process identifier of 65536 or more, which no reply can carry,
ping never ends by itself (`EndsIfAnswered` speaks of the others);
entering a directory whose second name is a program runs it (`RunsWhatIsMarked`); after a
program has run, the colour of the marked line can be drawn in the wrong panel
(`main.c:123-124`, `Shown`); a path too long for `get_file_path` is cut, and what is
deleted is the file its rest names (`OnlyMarkedIsLost`); TAB to a panel whose directory
is too deep for `getcwd` ends the program; a copy that failed leaves the file manager in its
progress display, and one onto itself empties the file (`CopyEnds`, `CopyComplete`);
the DNS cache stores four bytes of a reply whatever it answers and gives them out as an
address (`AnswersGiven`), and overlapping insertions can leave a tree in which searches
never end (`QueriesAnswered`); answers from the DNS cache to the port that `port_filter` blocks are dropped
(`QueriesAnswered`); overlapping readers of the proc files disturb each other
(`tidy`), and a small buffer gets the start of procfs_m's message again and again;
one chat client more than the queue has slots and everybody waits
(`ConnectAnswered`); output of `ls` larger than the pipe blocks `unnamed_pipes` if its
`waitpid` waits (`CutGetsAll`); "exit" can overtake the file in `sctp` and end the
thread early, and clients of one address write into one file (`FileFaithful`); a UDP
packet without a checksum, which the raw clients send, is shown as invalid, and with
`-s` every UDP packet is printed, matching ones twice with the second verdict always
valid (`VerdictRight` speaks of the first); a search string with a byte of 128 or more, or
of one character, is never found (`MatchPrinted`); the nl client gives 192.168.2.1 as
its address and waits for ever on any other host; the dl client's packet is dropped for its
length in the wrong byte order, and its loop never ends (`RawClientEnds`).

## 4. Fairness

* HighloadServer, EchoServers, TimeDaemon, Ping: weak fairness of each thread or
  process, and of each blocking call of a client. The scheduler runs every thread;
  a blocking call returns once it can; no other thread takes away what a client
  waits for. Clients are not obliged to send, calls not obliged to fail.
* TimeDaemon: strong fairness of `Wait` for each signal. `sigwait` chooses among the
  pending signals; a second signal cannot postpone the first for ever, since the
  kernel takes them in order of their number and SIGHUP would have to arrive without
  a pause.
* MutexStore: strong fairness of `Lock`, because every holder sleeps two to four
  seconds before it comes back, and of each random choice: `rand()` draws every
  store and amount again and again. Without the second the program may draw zero
  for ever.
* `UdpAnswered` and `HandlerEnds` need no fairness of the clients.
* DnsProxy (`DnsFairness`): packets on their way are delivered and each processor
  leaves the hook, unless it circles in a torn tree. Nobody need ask, load or unload the module.
* QueueChat (`ChatFairness`): weak fairness of the server's receive and send and of
  each client's receive. `msgsnd` that waits for room goes on once there is room:
  only the server adds answers, so nothing takes the room away for ever.
* Pipes (`PipeFairness`): the processes of `unnamed_pipes` taken together make a step
  while any of them can, once main has started; each can make only finitely many.
* FileManager: weak fairness of the two threads and of main's joins. The display's
  loop, while its condition holds, is no step. No key need ever be pressed.
* RawUdp (`RawFairness`): the client and the server are scheduled, and datagrams
  within one host are not lost.
* IcmpHost: as Ping; traceroute may stop at any time.
* In `MCKernelModules`, `MCProcesses` and `MCTools` the fairness is stated over the
  variables of its own program, and asks nothing of those that do not run.

## 5. Proofs

All theorems hold for every value of the constants that satisfies the assumptions
their modules name: any number of clients, workers, slots, stores, requests, readers,
directories. Each rests on an inductive invariant, which TLC has checked on the
instance of the corresponding run before it was proved.

| Theorem | States | From |
|---|---|---|
| `HighloadServerProofs`: `TypeCorrect`, `AnswerCorrect`, `Capacity`, `Refines` | `TypeOK`, `AnswerMatches`, `NoSenderBlocks`, `ImplementsReplyService` | the last three: `OwnSockets`, every client has a socket of its own, as in `client.c`; `Capacity`: no more clients than slots |
| `MutexStoreProofs`: `TypeCorrect`, `NeverNegative`, `UpdatesKept`, `ServedExactly` | `NonNegative`, `NoLostUpdate`, `ExactlyServed` | |
| `EchoServersProofs`: `EchoCorrect` | `EchoMatches` | `TokenAssumption`: the marks `None`, `Eof`, `Merged` are no messages |
| `IcmpHostProofs`: `TypeCorrect`, `TimesStamped`, `TableFreedLast` of ping alone; `HostTimesStamped`, `HostTableFreedLast`, `RoutersAttributed` of ping beside traceroute | `RepliesStamped`, `NoUseAfterFree`, `HopsAttributed` | `ForeignAssumption`: replies to other programs carry other identifiers; `ProgramsAssumption`: so do traceroute's; `HopsAssumption`: the destination is nearer than the largest ttl the header holds |
| `ProcessesProofs`: `FilesFaithful`, `DatesOwn`, `SelfSignalOnlyIfDead`, `OneAnswerEach`, `CausesOfDeath` | `FileFaithful`, `DateOwn`, `NoSelfSignal`, `AnswersInStep`, `DiesOfKilledClient` | `SelfSignalOnlyIfDead`: no server has pid 0 |
| `KernelModulesProofs`: `CacheTruthful`, `MessagesWhole`, `GetsWhatWasSet`, `ReadsInside` | `AnswersGiven`, `ReadsWholeMessage`, `UnreadGetReturnsMessage`, `ReadStaysInMessage` | `MessagesWhole`: `ReadHypotheses`, readers pass buffers that are not empty; the last two: `CharHypotheses`, strings, empty ones included, that leave room for their NUL and a get of at least the buffer, and `OneProcessAtATime`, which `chardev_exclusive` shows the driver itself does not ensure |
| `ToolsProofs`: `HeapIsTiled`, `HeldIsSeparate`, `StaysInList` | `Tiled`, `LiveSeparate`, `SearchStaysInList` | `SizeAssumption`, `BoundAssumption`: a header takes some bytes, sizes are natural numbers |
| `ToolsProofs`: `ChecksumAgrees`, `VerdictsRight`, `SearchExact` | `compute_checksum(s) = RfcChecksum(s)` for every block `s`, `VerdictRight`, `MatchPrinted` | `ByteAssumption`, `PacketAssumption`, `SearchAssumption`: data and strings are bytes |
| `FileManagerProofs`: `CopiesComplete`, `OnlyMarkedLost`, `RunsMarked` | `CopyComplete`, `OnlyMarkedIsLost`, `RunsWhatIsMarked` | types of the constants (`DisksAssumption`, `PathsAssumption`, `LengthAssumption`, `CopyAssumption`) |

**HighloadServerProofs.** `AnswerMatches` is not inductive: it says nothing about the
messages on their way. The inductive invariant `IInv` adds `OnePlace` (a client's
request is in at most one of the socket buffer, the main thread, the queue, a
worker, the client's buffer, and there once), `Current` (whatever is on its way is
the last request of a client that is not idle; this is what survives a restart,
since a client that has its answer has taken the only copy) and `Routed` (an
answer lies in the socket of its client). `Capacity` follows by counting: every
message in the queue belongs to a different client, the one waiting to be put there
to yet another, hence fewer messages than clients, which are at most `QCap`.
`Refines` goes action by action: under the mapping of `HighloadServer`, which reads
the place of a client's request off the same state, a step changes the state of one
client (`OneState`), of none (`SameStates`), or loses several requests at once
(`Lose`, when the process ends); `OnePlace` is why a step that
loses a message, or a `Shutdown` that loses those the process holds, cannot leave a
second copy that is answered later.

**MutexStoreProofs.** A thread between lock and unlock owns its store's
mutex (`Owns`), hence what it has read is still there when it writes (`Fresh`);
the amount on its way is bounded by the demand, and by the store once it was
clamped under the mutex (`Amounts`); drawn plus still wanted is what was wanted
(`Balance`).

**EchoServersProofs.** A stream is answered in one piece because nothing else is in
it: `Stream` says that the bytes of a connection are nowhere unless its client waits,
and then in one of the two streams or with the thread, alone; `Datagrams` says the
same of UDP, where the client's name has to be found among all datagrams of the
socket. `Waiting` (a connection is accepted once) keeps a second thread from being
started on a stream, `Down` covers the end of the server.

**IcmpHostProofs.** The counters agree with the loop (`Counters`), replies on their way
answer requests that were sent, and those were stamped (`Causal`), and without
duplicates the number of replies counted is the number of different requests answered
(`Once`), so that the last reply arrives after the last request has left. Beside
traceroute the same invariant holds, because what ping overhears is never a reply
with its identifier (`OverheardNotMine`). For traceroute, `Distances` ties every answer
in the air to the ttl of its probe, and `Turns` says that without an idle turn the
only such answer is the current probe's.

**ProcessesProofs.** Sctp: a handler writes to its own client's file (`OwnFile`), and the
stream continues where the file ends (`InOrder`). ThreadDate: a thread's buffer is its
own, and while it is alone in `localtime` the shared structure holds its time
(`OwnBuffer`, `Alone`). Pipes: the server of the FIFO a client has open has passed its
own `open`, and the client lacks a pid only if that server is dead (`Opened`).
TimeDaemon: one client at most has the pid (`OneHolder`), for the daemon writes it once.
Before somebody has it nothing is asked (`Untouched`); afterwards a request of the holder
is in one place, pending, being answered or answered in the pipe (`Holder`). SIGPIPE then
needs a holder that is gone in the middle of a request; `malloc` failing is the other end
a daemon that waits can come to.

**KernelModulesProofs.** DnsProxy: whatever holds an answer (tree, packet, processor)
holds one that a server has given for that name, or its four bytes as an address
(`Truth`). Nothing is assumed of the tree's links: records are never freed and a search
compares names, so a torn tree can hide records but not mix them up. SharedReads: as long as readers follow one another (`tidy`), one
reader at most has the file (`InTurn`) and the global position is what this reader has
got (`Position`), for each of the three ways of keeping it. CharDevice: between calls
there is a NUL at or behind the cursor, and up to it lies the message that was set;
during a call the bytes copied so far are those of the source, and the rest is as it
was. Both survive only because one process at a time copies, hence the hypothesis.

**FileManagerProofs.** Paths are built from the working directory, so the invariant
says that it is the active panel's directory, that the screen shows the panel's
current name and marks the active panel wherever it shows a title (`View`, `Drawn`), and that every process in `waitpid` has kept its own panels in
step (`Stack`), because a child whose `execl` fails goes on with a copy and its parent
with the original. A delete form's path is the marked file's, or what `get_file_path` has left
of it (`FormPaths`). The paths of a directory too deep for `getcwd` all are
"-", so the invariant ties the panel's path to `getcwd` of the working directory, not to
the directory itself; `TabStep` shows that the program ends where that is not enough. During a
copy, the destination's size, the counter and what was read agree (`Progress`).
`KeyEnter` is the longest case: `chdir`, reload and redraw each may fail. For the
program it runs, `FirstTwo` says by induction along the order of names which are the
first two that `scandir` returns; `get_dir_info` drops the first, so the second is
current. The exception in `RunsWhatIsMarked` used to count files that sort before "."
only; the proof failed for a subdirectory there, and for a program between "." and
"..", so the property now names the second entry.

**ToolsProofs, the heap.** The model walks the list with recursive functions, as the
code does. The inductive invariant `HeapInv` says instead that there is a sequence of
addresses `e[1] < ... < e[n]` such that each header links its neighbours (`Linked`), each
chunk ends where the next begins and the last at the break (`Tiles`), and the chunks in
use are those the program holds (`Held`); that `Nth`, `Count` and `Total` follow such a
sequence is proved once (`NthChunk`, `CountChunks`, `SpanOfRun`). Each way through malloc and
free makes a new sequence of the old one: chunks taken out (`MergeChain`), one put in
(`SplitChain`, `GrowRun`), the end cut off (`CutChain`). `LastInUse`, the last chunk is in
use, looks like a detail of `free` and carries `SearchStaysInList`: it is why a search that
fails inside a run of free chunks finds a chunk behind the run, and not the NULL behind
`mem_tail`.

**ToolsProofs, the checksum.** `ChecksumAgrees` is arithmetic modulo M = B * B - 1. Folding
the carries leaves the residue in 1..M, and 0 for 0 only (`FoldsOnes`). The sum in the
processor's byte order times B is congruent to the sum in network order, for each
byte by itself (`Exchanged`), and multiplying a word by B modulo M exchanges its two
bytes, which is how the result is stored. That one damaged byte is noticed
(`ChecksumApart`) is the same arithmetic: it changes the sum by less than M, and not
by 0. `VerdictsRight` then needs what the packet on its way looks like (`Sending`,
`Arrived`: the fields it was sent with and the one byte that differs), and for the run of
the program only that the packet is as it arrived until it is handled (`VerdictInv`).

The attempt to prove `VerdictRight` showed that it was too strong: it exempted UDP
packets that arrive with a zero checksum, but not one sent without a checksum whose
zero was damaged on the way, which the sniffer may well call valid. The property now
exempts the packets sent without a checksum.

**ToolsProofs, the search.** The stored string begins with the one asked for (`Stored`),
bytes that compare equal as `uint8_t` and `char` are equal, ASCII ones always do, and storing the checksums does not touch the data (`PrintedPacket`).

Where a proof needs induction over numbers it uses `SetInduction`: a set that has 0 and
is closed under successor contains all numbers, from the well-foundedness of `<`
(`LeastElement`). Taking sets instead of predicates keeps the induction first-order; the
definitions by recursion in a `LET` (sums, folds, walks along the list) are unfolded by
exhibiting the function and showing it to be the one chosen.

Only model-checked:

* liveness under fairness, which is out of the prover's reach: `RequestSettles`,
  `Terminates`, `UdpAnswered`, `TcpAnswered`, `HandlerEnds`, `RequestAnswered`,
  `EndsIfAnswered`, `QueriesAnswered`, `ConnectAnswered`, `CutGetsAll`, `CopyEnds`,
  `RawClientEnds`.

## 6. What is left

The programs with interacting parts are modelled, and every safety property that a
passing run checks is proved; what is left there is liveness.
