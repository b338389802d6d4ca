# A verification project for the repository

The repository is a collection of single C and C++ functions: 1440 files under
`src/CWE-120/`, one function each, cut out of operating systems, drivers,
daemons, libraries and codecs. `non-vul/CWE-120_non-vul_NNN.c` is written
`nNNN` below and `vul/CWE-120_vul_NNN.c` is written `vNNN`; `n262:53` is line 53
of `non-vul/CWE-120_non-vul_262.c`. There is no build file, no test and no
documentation: the functions, their comments and the order in which they call
each other are all there is. Where consecutive files hold the functions of one
source file of one program, they make up a component with state of its own, and
these components are what can be specified. The project models the ones whose
correctness depends on the order of steps: concurrency, failure, queues, limits.

Each of the sections 2 to 8 belongs to a modelled component or two: the model,
what the run checks, the bounds, what is proved. Section 9 says what stays with
the model checker and why, section 10 lists the findings, section 11 what is not
modelled and the plan.

Every module family has the same layout: `X` is the component (state, one action
per handler or critical section), `XProps` its properties and fairness, `MCX` the
instance for TLC with `X.cfg`, `XProofs` the theorems. Operators whose names end
in `_Bug` are mutations of the definition they precede; no specification uses
them, they document what each property would notice.

## 1. The components

The list below names the groups of files that share state. `PROJECT.json` has
one entry for each, with the reason for the ones that are not modelled.

### 1.1 FUSE: the kernel side of the FUSE device (n255-n323, v053)

`fs/fuse/dev.c` of Linux 3.x. *State*: `struct fuse_conn` (the queues `pending`,
`bg_queue`, `io`, `processing`, `interrupts`, the forget list, the counters of
background requests, the request id counter, the reserved request of a file) and `struct fuse_req` (state,
reference count, flags, wait queue). *Operations*: callers get, send, wait for
and put requests (n314, n318, n262, n297) or send them in the background (n280,
n320, n323); callers that must not fail share one reserved request when there is
no memory (n268, n301, n270); daemon threads read (n309) and write (n279) the device, which ends
requests (n289); the device answers notifications (n265, n288, n291) and an
abort ends everything (n283, n313). *Interaction*: callers, daemon threads,
signals and the abort meet in one lock, `fc->lock`, that is dropped for every
copy and for every end callback, and in the wait queues. *Hard*: every point at
which the lock is dropped. *Correct when*: every request is on the list its
state names; it is freed after its last user and not before; its buffers live as
long as a thread copies; ids find the right request; the background limits hold
and nobody waits on a limit that is not reached; a signal that must reach the
daemon does; an abort frees everybody; a daemon that serves leaves nobody
waiting. **Modelled: section 2.**

### 1.2 YARA command line scanner: file queue and scan threads (n108-n119, n124, n127, v009)

*State*: a ring `file_queue` of `MAX_QUEUED_FILES + 1` slots with head and tail,
two counting semaphores, a mutex, a deadline. *Operations*: `file_queue_put` by
the main thread that walks directories, `file_queue_get` by the scan threads,
`file_queue_finish` at the end. *Hard*: the last file, the deadline, many
consumers that wake up on an empty queue, an error in the producer while
consumers run (v009:243). *Correct when*: every file is scanned once, no slot is
overwritten before it was read, every thread ends, the rules are destroyed after
the last thread has ended. **Modelled: section 3.**

### 1.3 YARA library: compiler, parser, scanner, process memory (n063-n107, n120-n188, v007, v008, v010-v019)

*State*: an arena per compilation, tables of namespaces and externals, a scan
context with matches, chained strings and timeouts, a memory-block iterator.
Sequential. *Correct when*: initialisation and finalisation are balanced
(n143-n147), the iterator gives each block once and in order (v010-v013).

### 1.4 QEMU e1000 network card (n497-n552, v059)

*State*: registers, the transmit and receive descriptor rings, interrupt cause
and mask, the timer of a link that is negotiated. *Hard*: head and tail of the
rings, which belong to two sides, causes raised while others are cleared,
`can_receive` against `receive`. *Correct when*: the line is raised exactly while
an unmasked cause is set; packets are delivered whole, in order, into
descriptors the guest gave; no packet waits while there are buffers; a segmented
payload is sent once. **Modelled: section 7.**

### 1.5 TinyScheme (n324-n496, v054-v058)

*State*: cell segments with a free list, the machine registers, an input stack.
*Hard*: the Deutsch-Schorr-Waite marking, which reverses pointers while it
walks, and the collector running in the middle of an allocation. *Correct when*: the
links come back, what is reachable survives, the free list is exact.
**Modelled: section 6.2.**

### 1.6 ACRN hypervisor: interrupt remapping (n920-n1000, v082, v083)

*State*: remapping entries of virtual machines, `intx` and MSI-X, interrupt
remapping tables and invalidation queues of the DMAR units. *Hard*: entries
added and removed by two virtual machines, tables shared by devices. *Correct
when*: no index is lost or shared and an interrupt reaches the holder of its
source. **Modelled: section 6.1.**

### 1.7 Contiki RPL: storing and non-storing DAO (n203-n212, v022-v024, v252, v253)

*State*: routes with lifetimes, a pending DAO per parent, retransmission timers.
*Hard*: acknowledgements that are lost or late, sequence number wrap. *Correct
when*: a node that is told it is registered is reachable. **Modelled: section 5.**

### 1.8 Drivers and emulated devices

ismt I2C controller (n218-n232, v030), STM32 USB host (n240-n254, v049),
si4713 radio transmitter (n876-n919, v081), Stellaris Ethernet (n873-n875,
v080), KVM emulated MMIO (n582-n587, v062), USB DFU and Bluetooth handlers
(v097 and following singles), LoRaMAC join accept and receive (v436-v439). Each is a
register or a command machine with one lock or one mailbox. **ismt is modelled:
section 4.**

### 1.9 Daemons, protocols and streams

conntrack netlink (n594-n706, v070), PX4 MAVLink receiver (n767-n831, v078),
Moonlight streaming client (v340-v368), EternalTerminal (n213-n217,
v025-v029), FreeRADIUS dictionaries (n189-n202, v020, v021), pjsip and pjmedia
(v033-v048, v146-v151), tcpdump and libpcap (n001-n021, v001-v003), uev event
loop (v372, v373), memcached (v422). Tables, sockets and parsers. Of Moonlight,
the video depacketizer (v357), which turns an unreliable stream of packets into
frames, and the input stream (v345, v347-v351), which queues, batches and sends,
have state of their own that a schedule can upset: **modelled, section 8.**

### 1.10 Codecs, image and document formats

libtiff LogLuv (n707-n755, v076) and its tools (v071-v075, v137-v144), ModPlug
(n022-n052), Exiv2 CIFF (n053-n062), Vorbis (n553-n568, v060), Bento4
(n233-n239, v031, v032, v103), OpenImageIO ICO (n756-n766, v077), Ghostscript
devices (n832-n872, v065-v069, v079), GPAC (v094-v131), ImageMagick (v161,
v326-v331), Wireshark dissectors and several hundred single functions. They
turn bytes into values: their state is a buffer and an index.

## 2. FUSE: `FuseDev`

| module | what it is |
|---|---|
| `FuseDev` | the FUSE connection: requests, queues, waits, signals, reads, writes, interrupts, forgets, retrieves, abort |
| `FuseService` | the abstract service: what a caller may observe of a request |
| `FuseDevProps` | the properties of `FuseDev`, its fairness, the refinement to `FuseService` |
| `MCFuseDev` | the module TLC is given; the `.cfg` files supply the constants |
| `FuseDevProofs` | types, the background limits, and the inductive invariant of the requests, `Inv`: lemmas and theorems, checked by TLAPS |
| `FuseRequestProofs` | what follows from `Inv`: references, buffers, sleeps, results, the refinement; the ids; the counters |

### 2.1 The model

**State.** `fc` is `struct fuse_conn` with every `struct fuse_req` it reaches:
the record fields keep their C names. Lists are sequences of requests;
`fc->io` and `fc->processing` are sets, for nothing observes their order.
`task[r]` is where the caller that owns `r` stands in `fuse_get_req` (n314),
`fuse_request_send` (n318) or `request_wait_answer` (n262); `sig[r]` the signal
pending for it. `thread[d]` is what the daemon thread `d` does inside `read` or
`write`: the request it copies and the phase of the copy. `abort` is the one
thread inside `fuse_abort_conn` (n283). `inbox` holds what the daemon has read
and not answered.

**Steps.** Everything between `spin_lock(&fc->lock)` and `spin_unlock` is one
action; where the code drops the lock in the middle of a function the function
is several actions. So `request_end` (n289) is a state transformer for the part
under the lock, followed by the action that runs the end callback, wakes the
caller and drops the reference (`ThreadEnd`, `SendBackgroundEnd`, `AbortTail`).
A `read` is `ReadRequest`, then any number of `lock_request`/`unlock_request`
pairs with a page fault possible in between (n281, n319, n257, n303), then
`ReadFinish`. A `write` is `WriteReply`, which finds the request by its id, then
the copy, then `WriteFinish`. The abort holds the lock from one step of its
loops to the next: `abort.lock` says so, and disables the actions that take it.

**Operators named after C functions** (`queue_request`, `flush_bg_queue`,
`request_end`, ...) map the connection before the function to the connection
after it. `flush_bg_queue` (n323) is its loop in closed form: the first `n`
requests of `bg_queue` move, where `n` is the room below `max_background`.

**Inputs.** The requests are partitioned: `Sync` (a caller waits), `Background`
(an end callback), `NotifyReply` (the data for `FUSE_NOTIFY_RETRIEVE`, n291).
`Forced` requests ignore signals (`req->force`), `Raw` ones are allocated
without waiting (n305). Ids are taken modulo `UniqueMax`, zero left out, as
n285 does with 64 bits. `NoFail` are requests of `Sync` that `fuse_get_req_nofail`
(n268) gets for one open file: neither a signal nor a closed connection ends their
wait, and when there is no memory (`GetReqNoMemory`) they wait for the request
reserved for the file (n301). `stolen` marks the request that is lent; who drops
its last reference gives it back (n270). Forgets are messages of the set `Forget`.

**The daemon** is any process that answers each message it has read at most
once. It may answer in any order, never, with an error, or answer an interrupt
by ENOSYS, by EAGAIN (which queues it again) or otherwise.

**External code.** `end_io_requests`, `end_requests`, `request_wait`, the list
macros and the initialisation of the connection are not in the repository. They
are modelled from how n283, n313, n262 and n289 use them, and `PROJECT.json`
marks them. The initial state is the connection after the INIT exchange.

**Left out.** `fc->conn_error`, `kill_fasync` and polls (not in the
repository); the store and invalidate notifications (n265, n290, n315, v053),
which touch inodes and no request; the contents and sizes of messages. The branch of n279 for
an aborted request found in `processing` is never taken (`ListsMatchState`), so
`WriteReply` has no such alternative. Forgets queued after an abort stay in the
list: nobody reads them. A retrieve on a connection that is gone keeps its
request (n291:55): `task` is then `leaked` and `RefsHeld` counts it.

### 2.2 `FuseService` and the refinement

A request is new, queued, taken by the daemon, over; its outcome is the reply,
or an error with a reason: `EINTR` only before it is taken, `ECONNABORTED` and
`ENOTCONN` only when the connection is gone, `EIO` when a copy failed. `Status`,
`Over` and `Service` in `FuseDevProps` are the refinement mapping, and
`ImplementsService` is the abstract specification checked as a property: each
step of the connection is a step of the service or a stutter.

### 2.3 What is checked

Both runs check deadlock; `Quiet` is the state in which every caller has gone
home. `Scenarios` (in `MCFuseDev`) are the sets of requests that one behaviour
makes: a run is the union of small instances, each aimed at one kind of race,
and `Within` says which of them has two threads inside the kernel at a time and
which has forgets, and signals a caller with `force`, who ignores it, only before
the other caller has begun.

| run | scenarios | shows |
|---|---|---|
| `fuse` | `{s1}`, `{s2,s3}`, `{s1,b1}`, `{b1,b2,b3}`, `{b1,b2,n1}`; `max_background` 2, congestion at 1; `s2` and `s3` must not fail and share a reserved request, `s2` has `force`, `b3` is allocated without waiting, `n1` answers a retrieve, two forgets come with `s1` alone | the safety properties of `FuseDevProps` |
| `fuse_progress` | `{s1,b1}`, `{b1,b2}`, `{s1,s2}`, which must not fail, one thread, `max_background` 1 | the refinement to `FuseService`, and progress |

`ListsMatchState` relates queues and request states; `RefsHeld` the reference
count and the end callback to who may still touch a request, and the reserved request of
the file to the one caller it is lent to; `CopyKeepsBuffers`
is the promise of n262:53 that a caller leaves only when its buffers are not
being copied; `CountersExact` and `BackgroundLimits` are about the four counters
and the two thresholds; `AnswersFindTheirRequest` and `InterruptPassedOn` follow
an id and a signal from the caller to the daemon and back; `NoLostWakeup` says
that whoever sleeps has somebody to wake it; `ResultFinal` that no late copy
changes an answer. In `fuse_progress`, `CallersGetAway` needs the kernel alone
(the daemon may stop for good) and `EveryoneServed` a daemon that serves: what the
kernel owes a caller (`Owed`: a request, an answer, the end of a background request)
it gives. In `fuse_progress` signals, all of them fatal, come while a background request is
about, and memory runs out while none is (`Restrained`): waiting callers that are
alone share the reserved request undisturbed.

**Bounds.** Two requests suffice for every race of one request against another
(a late answer, a queue order, a place freed for the next); three background
requests against a limit of two reach a full connection with one queued; two
daemon threads let one copy while another reads, ends or aborts, and let one
stand in a retrieve while the other works. In `fuse` the id counter starts at
its maximum, 20, and wraps to 1 at once (ids take the steps of n285); the range
is larger than the ids a run hands out, so that none is given twice.
`RetryLimit` bounds the only steps that can repeat for ever, interrupts the
daemon asks to be sent again and reads of nothing, by the ids they have used.
`UintMax` is larger than any number of requests. The two threads are symmetric.

**Fairness.** `KernelFairness` is weak fairness of the steps a kernel thread
takes once it is inside the kernel: it is scheduled, its locks are free again
and a copy ends (a page fault is answered or fails). The steps of the abort are
such steps; its start is not. `DaemonFairness`, the hypothesis of
`EveryoneServed`, is a daemon whose threads keep reading and that answers the
requests it was given. No fairness is assumed of signals, of new requests or of
answers to interrupts. A caller that must not fail also sends the request it got and
puts it when it has the answer: those who wait for the reserved request depend on it.

### 2.4 What is proved

The theorems hold for any sets of requests, threads and forgets and any
bounds that satisfy `KindAssumption` and `BoundAssumption`.

In `FuseDevProofs`:

* `TypeCorrect`: `Spec => []TypeOK`. `TypeOK` is not inductive: the request a
  thread ends must be a request. `TypeInv` adds that threads and the abort work
  on requests whenever they are not idle (`ThreadsHold`, `AbortHolds`). One
  lemma per operator states that it maps connections to connections
  (`FlushType`, `RequestEndType`, ...), one per actor that its steps keep
  `TypeInv` (`CallerType`, `InsideType`, `ReadTypes`, `WriteType`, `AbortType`).
* `LimitsKept`: `Spec => []BackgroundLimits`. The inductive invariant adds that
  `max_background` is what it was as long as the connection is up, and that the
  connection is down once an abort has begun; without it the thresholds that
  `request_end` compares with `=` (n289:10) would say nothing. Most operators
  leave the seven fields of the invariant alone, except that they may take a
  request out of `bg_queue` (`Frame`); `FlushLimits` shows that the flush
  restores the limits whatever made room, `RequestEndLimits` and
  `SendBackgroundLimits` treat the two operators that count.

In `FuseRequestProofs`, from one inductive invariant, `Inv`, which the last part of
`FuseDevProofs` proves (`Requests_Inv`):

* `References`: `Spec => []RefsHeld`; `Buffers`: `Spec => []CopyKeepsBuffers`;
  `Interrupts`: `Spec => []InterruptPassedOn`; `Wakeups`: `Spec => []NoLostWakeup`;
* `Results`: `Spec => ResultFinal`, an action property;
* `Implements`: `Spec => ImplementsService`, the refinement of section 2.2: the
  initial state maps to one, and each step to a step of `FuseService` or a stutter.

`Inv` is stated request by request. `PerRequest(r)` says that one thread at most
works on `r` (`OneWorker`), on which list the state of `r` puts it (`Placed`),
which error each state allows (`Told`), what its thread does with it (`Worked`),
how far its caller is (`Called`), who is counted in its reference count (`Held`),
whether its callback has run (`Callback`) and when it is taken (`Taken`), and
what makes a sleep of its caller safe (`Sleeps`). `Shared` is what the requests
have in common: no request is twice in a queue, the connection is up until an
abort begins, callers are held back only where a limit or an abort says so, one
caller has the reserved request of the file. None of the parts is inductive
alone: `Held` needs to know who works on `r` (`OneWorker`, `Worked`), which needs
its state to be that of its list (`Placed`). TLC has checked `Inv` on the scenarios
of `fuse`.

The proof treats the request an action works on and all others apart. For the
others `KeptStep` is enough: an action leaves them alone, or takes them from
`bg_queue` to `pending`. The second part of `FuseDevProofs` has, for each operator that moves
requests, the lemma that says so; the closed form of `flush_bg_queue` makes that
possible without induction, since the prefix that moves is named by its length.
The lemmas on one action then talk about one request and its thread.

On interrupts and ids, in the second part of `FuseRequestProofs`:

* `Lists`: `Spec /\ [][IdsFresh]_vars => []ListsMatchState`;
* `Answers`: `Spec /\ [][IdsFresh]_vars => []AnswersFindTheirRequest`;
* `FreshIds`: `Spec /\ []FarFromEnd => [][IdsFresh]_vars`;
* `FirstRound`: both properties from `Spec /\ []FarFromEnd` alone.

No such property holds of a counter that comes round to an id still in use: the
answer to the old request would end the new one. `fuse_get_unique` tests nothing
but zero and counts on 64 bits. `IdsFresh` says it of one step: an id that the step
gives is that of no message the daemon has still to answer, and of no other
request. `FarFromEnd` says it of the counter: `reqctr` has a number left for each
request in `bg_queue` and one more. Of a connection that starts its counter near zero
(what allocates it is not in the repository) this is true until it has given
about 2^64 ids; it excludes nothing but the wrap. `Lists` and `Answers` are more general: they hold across a wrap as well, if
whoever had the low ids has let them go. Run `fuse` starts its counter at the end of
its range, so that the first id wraps, and TLC found neither a step against
`IdsFresh` nor a state against the invariant in it.

The inductive invariant, `Ids`, says that no two ids in use are equal (`IdsApart`), that
a message of the daemon has the id of nobody but the request or interrupt it is about
(`MessagesApart`), that a request gets its id before it is read (`Numbered`), that no
request is twice in `interrupts`, and, for each request, `Asked`: a queued interrupt
is for a request that the daemon has or whose answer is being copied, and the id
of an earlier interrupt is no longer with the daemon. The last part is what makes
the queue free of duplicates: only the answer `EAGAIN` queues an interrupt again, and that
answer consumes the message. Most steps queue nothing and give the daemon nothing
(`Onward`, kept by `OnwardKeeps`); the four that do are treated one by one
(`InterruptedIds`, `InterruptReadIds`, `WriteInterruptReplyIds`, `DeliverIds`).
For `FreshIds`, `Given` describes the ids a step gives as new numbers of the
counter, each given once, also by the loop of `flush_bg_queue`, and `Below` is
the invariant that every id in use was given by the counter.

In the third part of `FuseRequestProofs`:

* `Counters`: `Spec => []CountersExact`. `num_background` is the number of background
  requests that have not ended, `num_waiting` that of the callers and requests the kernel
  has, `active_background` what is left of the former without `bg_queue`, and
  `forget_batch` stays in its bounds.

The sets of requests counted are finite whether or not there are finitely many requests.
The inductive invariant is `Inv /\ Balance`. `Balance` (`Tallied`) says of each
counter that it is the cardinality of such a set. `Inv` is needed where a step counts
down: that the request was counted until now follows from where it is and who works on it
(`ThreadEndTally`, `SendBackgroundTally`, `AbortTailTally`). Most steps work on one
request, which alone may enter or leave the sets (`TalliedOne`, by `OneApart`);
`flush_bg_queue` releases many, and a bijection between the positions it releases and
the requests there shows that it counts each of them once, and none that was counted
before (`FlushTally`). That `RequestBatch` is not zero, part of `BoundAssumption`, is
used for the bounds of `forget_batch`; in the code it is the constant 8 (n309).

Only model-checked: liveness.

## 3. The YARA file queue: `FileQueue`

**Model.** `main` is where the main thread of v009 stands: it creates the scan
threads (v009:214), walks the directory and puts each file (n124, three steps:
wait for an unused slot, store under the mutex, post), then finishes (n111),
joins, destroys the rules. `scanner[t]` is where scan thread `t` stands in n116
and `file_queue_get` (n118): wait, take under the mutex, post, scan. `expired`
is the clock having passed the deadline, which threads look at only between
files (n116:43) and in their waits. `queue_head`, `queue_tail`, `used_slots`,
`unused_slots` are the variables of the C code. The semaphores count; who waits
is whoever is not enabled.

**Runs.** `file_queue`: two threads, four files, a ring of two places and one
slot to tell full from empty, the deadline at any point; four files wrap the ring and
leave both a full queue and two waiting threads. `ImplementsQueue` is the
refinement to `BoundedQueue`, the queue the threads believe to have: first in
first out, each item to one consumer. `AllScanned` says that a scan that reached
no deadline left no file out, `EmptyOnlyAtEnd` that no thread is sent home while
files are to come. With weak fairness of each thread (threads are scheduled, a
scan ends) the tool ends, with or without the deadline (`Terminates`).
`scan_abandoned` is a finding (section 10).

**Proved** (`FileQueueProofs`, any number of threads, slots and files):
`TypeCorrect`, `SlotsKept`, `NeverOverrun`, `EmptyAfterWalk`, and
`EveryFileScanned` (`Spec => []AllScanned`) and `QueueImplemented`
(`Spec => ImplementsQueue`). The first inductive
invariant `Inv` joins to the types that a file is left for a put that has begun,
that threads not yet created do nothing, that the slots between head and tail
hold files (`RingFilled`) and `SlotsCounted`: the semaphores together with the
threads that stand between two calls account for every slot. Counting threads at
a place is counting a set that gains or loses one element (`MovedCount`).
`NeverOverrun` follows because a put waits for an unused slot and each of those is
counted.

For the last two a second invariant, `Flow`, follows the files. `InOrder`: the
ring, read as a sequence, holds the files after the last one taken, in their
order. `Held`: a file is held by one thread at most, from the take to the
scan, and only a file that was taken and not scanned. `Accounted`: a file that
was taken and is held no more was scanned once, unless the deadline has passed.
`WalkOver` and `EmptyEnds`: before the deadline the walk goes to its end, and a
thread that ends leaves an empty ring that nobody fills any more, which is where
`SlotsCounted` is needed. With the join all three give `AllScanned`. `PutContents` and `TakeContents` show that the
index arithmetic of the ring appends to that sequence and removes its head,
wherever it wraps; each step is then a step of `BoundedQueue` or a stutter
(`StepFlow`). Only model-checked: termination.

**Left out.** The walk itself (n115, n113), options, statistics: inputs of the queue. The
contents of a file are its number.

## 4. The ismt I2C controller driver: `Ismt`

**Model.** `pc` is where the one transfer in flight stands in `ismt_access`
(v030; the I2C core serialises transfers): descriptor built, completion armed
(v030:212), submitted (n230), waiting, processing (n228). The ring `hw` has
`ISMT_DESC_ENTRIES` descriptors; `head` is the driver's next one, `fmhp` and `fmtp` are the
controller's pointers as n230 and n226 write them. The controller is external:
it executes descriptors in order, writes the status, then raises the interrupt.
`isr` is the handler, in its three steps for a shared line (n224: read the
status, clear it, complete) and in one for messages (n229); either may
be the one the device has. Two variables are history and guard nothing: `owed`, the slots
the controller was given and has not finished, and `lapped`, whether that was ever the
whole ring. Data are the number of the transfer that produced them; there is one buffer, as in the code.

**Run.** `ismt`: four transfers on a ring of three, with messages and with a
shared line; each may time out at any point. The driver moves `head` on after a timeout
and never compares it with FMTP (v030:236), so that two timeouts are enough to give the
controller the whole ring of three: FMHP meets FMTP and the ring looks empty, and the next
transfer overwrites a descriptor that was not executed. The run goes there, and the properties
say what holds up to it. `DescNotBusy`: as long as the ring was not given whole the
descriptor that is built is never one the controller has, and the one it executes stays as it was
given; and the ring is given whole only after as many timeouts as it has
descriptors less one. `ReadsOwnData`: a read that reports success was executed and
returns its own bytes, although a transfer that was given up may still write
the one buffer. `OrderedWithoutTimeout`: before any timeout every descriptor
that is processed was finished, and the controller sends the bytes of its own
transfer. `AllReturn`: with fair driver, handler and controller each transfer
returns, timeouts or not, unless the ring was given whole; which fails as soon as one completion is lost between n224:7 and
n224:14. `ismt_late` is a finding (section 10).

**Bounds.** Four transfers go round the ring of three, and any of them may time out: the
driver runs into the controller's end of the ring and past it.

**Proved** (`IsmtProofs`, any ring of at least two descriptors, any number of transfers
and of timeouts, without further hypothesis): `NotBusy` (`Spec => []DescNotBusy`), `Ordered`
(`Spec => []OrderedWithoutTimeout`) and `OwnData` (`Spec => ReadsOwnData`). The
inductive invariant counts what the controller owes: unfinished descriptors and
finished ones of which the driver will be told are together no more than the
transfers that timed out, and one while the driver waits (`Behind`), so that the ring is
not given whole before as many timeouts as it has descriptors less one (`LapCounted`).
Until it is, `owed` is the part of the ring from FMTP to FMHP (`OwedAre`), the controller
executes the first of them (`ChipBusy`), and the descriptor of the present transfer has no
status before its execution and its own data after it (`OwnDesc`). Only
model-checked: `AllReturn`.

**Left out.** Probe and remove, register dumps, the block-size checks that refuse
a transfer before the ring is touched (one action, `AccessRefused`).

## 5. RPL registration: `RplDao`

**Model.** A tree of nodes in storing mode with acknowledgements
(`RPL_WITH_STORING`, `RPL_WITH_DAO_ACK`). `node[n]` holds `dao_sequence` and the
fields of the instance n203, n206 and n208 use; `answer` is what the objective
function was told. `route[n][t]` is the state of a route entry. `link[n][m]` is what is
under way: in order, and any message may be lost. Own DAOs (n203, n205), the
retransmission timer (n206: repeat; no global address left, return; all repeats spent, tell
the objective function, or return where lifetimes are infinite, `infinite`), `dao_input_storing` (v023, with No-Path, rejection,
acceptance, forwarding with a number of the router's own, n209) and
`dao_ack_input` (n208, n204) are one action or one alternative each. The tree never gives a
node a DAO from its parent, so the two loop checks of v023 have no effect. A
repeated DAO leaves only when the previous copy has left the link: five seconds
lie between them. Routes do not age during an exchange.

**Run.** `rpl`: a root with room for two routes, a router and two leaves. A node that is
told it was accepted is routed to by every node above it, whatever was lost,
repeated and withdrawn (`AcceptedIsRouted`); a DAO that is not answered will be
repeated or the objective function hears of it, after the last repeat and not before,
except where the handler returns and says nothing: the node had lost its global address
(`silent`, n206:41) or lifetimes are infinite and the repeats are spent (n206:24)
(`NotForgotten`); numbers that wait for an acknowledgement at a router
are distinct, also from that of its own DAO (`NumbersApart`).

**Bounds.** Each node sends at most two DAOs of its own, each at most twice. `Within`
(in `MCRplDao`): either the second leaf takes part, every node registers once and
the router is done with its own address before the second leaf begins, or it does
not and the leaf and the router register, repeat and withdraw again. With infinite
lifetimes, or once an address was lost, only the leaf and the router take part, and they
register once (the leaf twice after an address was lost). Sequence numbers have 8 bits
and start at 240, as the lollipop counter of the code does. What happens where
the counter comes round to zero is listed as a hazard: a fresh route entry is
all zeros, so a DAO with number 0 looks like one that was acknowledged (v023:237).

**What is proved** (`RplDaoProofs`). `Awaiting`: `NotForgotten` and the type
invariant for every tree of nodes, every table size, every number of
retransmissions and every loss, with the same two exceptions. The invariant is the property with
the types of nodes, routes and messages in transit (`NodesOK`, `RoutesOK`, `LinksOK`). `NumbersApart` and `AcceptedIsRouted` stay with TLC.
They are not true without its bounds: sequence numbers of 8 bits come round, and an old
acknowledgement may then be taken for that of a new DAO.

**Left out.** DIO and DIS, changes of parent (and the parent that is gone when the timer
expires, n206:9), non-storing mode (v022) and
multicast, local repair beyond the end of the exchange.

## 6. Tables and heaps

### 6.1 Passthrough interrupts: `Ptirq`

**Model.** `entry` is the table of remapping entries that `ptdev_lock` protects,
`alloc`, `reserved` and `ir_table` are the interrupt remapping table of one DMAR
unit with its two bitmaps, `iec` is the unit's cache and `route` the index a
message was programmed with. `op[p]` is the operation pcpu `p` is in. The
operations of n930, n931, n921, n922, n924 find or add an entry in one step,
under the lock; `dmar_assign_irte` (n949) then runs without it, in the steps
allocate (n990), write, invalidate (n941) and store (n929, n920);
`dmar_free_irte` (v083) runs with the lock held, in the steps clear, flush, free and
release. `Fetch` is the unit reading an entry into its cache at any time.

What the unit compares is the id of the requester, which n949:51 and n949:40 take from the
device or the I/O APIC: `Sid[s]`, the same for all messages of a device. The table entries
carry their source `src` as well, which the unit does not see, for the properties.
`dmar_reserve_irte` (n965) has three steps in `rsv[p]`: it allocates the block under the lock of
the unit, then reads the bitmap of reserved entries, and writes it back with its bits added,
under no lock.

Two histories serve the properties. `entry[i].users` are the machines that
`add_msix_remapping` gave the entry to: it also returns one that belongs to another machine
(n928:8), although n930:9 says "if the entry already be held by others, return error".
`damaged` records what the code does to its own tables: two reservers that interleave lose the bits of
one, and the removal of an entry that never got an index clears an entry and a bit of number
`INVALID_IRTE_ID` (n922:17, n924:19), outside the table and the bitmaps, where v083 has no test and
v082:5 has one. What such a write hits is not known, so it may do damage or not (`MayHit`).

**Run.** `ptirq`: two pcpus, two VMs, three messages, two of them of one device, and two pins, two
indices, which may both be reserved; messages are programmed and removed by either machine, pins move
between the virtual PIC and I/O APIC and from the service VM to another. Until there is damage no
index is lost or shared by two sources (`IrteOwned`), and an interrupt that gets through is taken
for that of a source that has an entry, and goes to a machine that was given this entry, although
entries are freed, taken again and cached in between: v083 invalidates before it frees
(`Delivered`). A message that was removed and is still sent gets through as another one of its
device when that took its index, and is filtered when a source of another device did.

**Bounds.** `Within` (in `MCPtirq`) explores nothing after damage, of which nothing is claimed; it
combines two messages of one device with reserved entries, messages of two devices
without, or pins with one message; with pins or reserved entries only the service VM has the
messages. Two pcpus are symmetric. Two indices make allocation fail and make a freed index the next
one taken; a third source is then one too many. One source is programmed by one pcpu at a time
(`Busy`): the guests and the device model serialise the accesses to a device.

**Proved** (`PtirqProofs`, any sets of pcpus, machines, messages, pins and
indices, any assignment of ids in which no message has that of a pin): `Owned`
(`Spec => []IrteOwned`) and `Delivery` (`Spec => []Delivered`), the latter with any machine
programming any message. The invariants are claimed while `damaged` is false, which it
never becomes again (`DamageStays`).
`dmar_assign_irte` runs without `ptdev_lock`, so the inductive invariant says for
each pcpu at each of its steps which index it has in its hands (`IndexHeld`):
one that was reserved for it, that its entry has already, or that was just
allocated; that no two such claims agree (`Exclusive`), nor any with a block on its way to being
reserved (`Apart`); and that the bitmap is
exactly the union of reserved, set aside, held and claimed indices (`Allocated`). That
`alloc_irtes` returns a free index rests on every set of numbers having a least
element (`MinIn`). For `Delivery`, `Tables` relates each table entry to the
holder of its index or to the pcpu that has just written it, `VmHeld` relates the machine
of an operation to the users of its entry, and `Cached` says that
the cache of the unit agrees with the table except while the operation
that changed the entry has not yet invalidated it.

**Left out.** Virtual interrupt lines and their acknowledgement (n935, n926),
the mask of physical pins, DMA remapping, and what the tables are after the two kinds of damage.

### 6.2 The TinyScheme heap: `SchemeMark`, `SchemeMarkProofs`, `SchemeHeap`

**Marking.** `SchemeMark` is `mark` (n447) label by label: `p`, `t` and the
links it turns round, with a stack of calls for the cells of vectors only.
`scheme_mark` runs it from two roots over *every* heap of four cells, the first
of which may head a vector of up to two cells and the last of which stands for
NIL. In every state there is a path from the root to the cell being visited, across all
calls, from which the heap can be restored (`Restores`, `Frames`), between two roots it is
as it was, and at the end exactly what is reachable is marked (`MarkingSafe`); and
it ends, under weak fairness of a sequential program.

`SchemeMarkProofs` proves `MarkingSafe` for any finite memory, any heap the allocator
builds (`WellFormed`: the cells of a vector are pairs that nothing else points at) and any
sequence of roots, theorem `Marking`. The invariant `Inv` says of one path, a sequence of
distinct cells:

* `Restores`: the link that was followed from a cell of the path holds what the cell was
  reached from, its old value is the next cell, and the atom flag tells which link it is;
  every other link and flag is old.
* `Frames`: the calls under way are those of the vectors on the path, in order, and each
  has saved what its vector was reached from.
* `Shape`: the visited cell is not on the path. For a link this follows from the mark, for
  a cell of a vector from the heap: only its vector leads to it (`InnerIsNew`), and
  vectors do not overlap (`VectorsApart`). A root may have been marked before.
* `Closed`: what is marked and not on the path has its children marked; what is on it has
  those marked that come before the link, or the cell, that was followed.

With `Reached`, that only what the roots reach is marked, the marks at the end are a
set that contains the roots and the children of its members and the least one: `Reach` is
defined as what is in every such set, not by iterating, so that the proof needs no
induction. One lemma per step and outcome moves the path on: `NextRootOn`,
`VisitVectorOn`, `VisitObjectOn`, `VectorNextOn`, `VectorEndOn`, `DownOn`, `StayOn`, `UpOn`,
`ReturnOn`. TLC has checked `Inv` on the run's instance.

**Heap.** `SchemeHeap` takes marking as the set of what is reachable and models
what surrounds it: segments that `malloc` places in any order, or refuses (n445: an
allocation asks for one or two, and every answer is tried), the
free list in address order, `_get_cell` with its collection and growth (n329),
consecutive cells (n398, n434), vectors (n414), the list of recent objects that
hangs from the sink (n487), `gc` (n489), and an evaluator that conses, saves and
restores registers (n332, n466) and forgets the recent list before every primitive (n482,
n442:69). `args` stands for every register that is saved and `value` for one
that is not. A primitive keeps up to three objects in C variables, which `gc` does
not see. The run checks that no allocation disturbs what is in use although it may
collect twice, also between an object and its holder (`AllocKeepsLive`); that the
free list is exact and sorted across segments (`FreeListExact`); that vectors
stay in one segment and share no cell (`VectorsIntact`); that `no_memory` is set only
when what is in use leaves no room, no two cells for an object and its holder or no
run for a vector with a cell for its holder, and the heap could not grow
(`NoMemoryJustified`). The exception is the code's: a vector longer than a segment is
given up after one more segment, with segments left (n434:16-27), for no segment could hold it.

**Bounds.** The heap starts with one segment of three cells, anywhere, and may grow to
three, so that a new segment comes to lie below, above and between segments with free
cells. Vectors of four and six take three and four cells: a segment, and more than one. Three allocations fill the heap, collect with one, two and three
segments, leave runs too short for a vector, and end in `no_memory` in each way: refused by
`malloc`, all segments there, vector too long, no cell for the holder. `MinRecovered` stands for
the eight cells per segment of n329:9. The initial segments (n334:33) are not refused.

**Left out.** The opcodes and data types as such, `reserve_cells` (n360), calls
from foreign functions (n333, n383), which clear the recent list of the
primitive that called them.
## 7. The e1000 network card: `E1000`

**Model.** `s` is `E1000State` with the net layer's queue, the two rings in guest
memory and the timer. QEMU runs every register access, packet, timer and monitor
command under one lock, so each is one step: a write to RDT, TDT, RCTL, TCTL, ICS,
ICR, IMS, IMC or MDIC is an operator that maps the card before it to the card after
it, including everything it calls: a write to TDT sends all that is posted (n522,
n540, n538), in loopback it receives it too, a write to RDT or RCTL hands over the
packets that wait (n520, n532). What races is between the steps: the driver in the
guest, the network, the timer, the administrator, a reset (n531) and a
migration (n502).

The driver is external and is the one these registers are made for: it masks
interrupts in its handler, looks at both rings and the link, and unmasks (`Interrupt`
to `Unmask`). It gives descriptors back in any number and does not zero their
status but for DD, posts jobs of several descriptors and tells the card of
several at once. It posts no descriptor without a buffer, writes valid tail pointers and asks for
segments of at least one unit. Sequence numbers, PSH and FIN are kept of a
packet's headers, since segmentation changes them (n538); data are numbered units.

**Run.** `e1000`. `WholeInOrder`: what the driver takes from the ring are whole
packets, in order and unmixed, although EOP of an earlier packet may be in the
descriptors (v059:71) and packets wait in the net layer. `NothingWaits`: a driver at
rest has no finished descriptor it was not told of, the race of NAPI drivers that
n517 closes by raising what is pending when the mask is set; packets and
descriptors wait only for what the card lacks. `SegmentsExact`: every unit of
payload is sent once, in order, behind its own header, with the sequence number it
must have. `LinkKnown`: STATUS, the PHY and the net layer agree on the link through
negotiation, reset and migration, and the driver knows it.

**Bounds.** Three receive descriptors let a packet take two and leave the one that
stays with the driver; five transmit descriptors hold both jobs that need several;
three packets of one or two buffers fill and wrap the ring. `Within` (in `MCE1000`)
explores receiving, sending and the link one at a time; they meet in loopback, in a
packet that comes while the link changes, and in the causes and the mask, which all
three explore.

**Seen while modelling**, and allowed for by the properties: a payload that is a
multiple of the segment size is followed by a frame that is a header alone
(n540); a reset deletes the negotiation's timer and leaves the link down for good (n531);
the end of a negotiation raises no link interrupt, so the driver polls for it.

**Left out.** VLAN tags, checksums and statistics (data); the address filter, which
makes a packet `hit` or not; EEPROM and the registers that are stored and read.

## 8. The Moonlight client: `VideoDepacketizer`, `InputStream`, `Moonlight`

`Moonlight` puts the two side by side; they run in threads of their own and share
nothing, so `Within` (in `MCMoonlight`) explores one at a time.

**Video.** The stream is fixed in the initial state: frames of one to three packets,
with packets of error correction behind, numbered modulo `IndexMod` as the
server does. The network hands over any packet that is not too far
behind the latest: losses, repeats and reordering are what it
picks. `processRtpPayload` (v357) is one step, with the five ways in which it gives
a frame up (`Rejected`, `Begin`), the numbers it expects next and the waits for an IDR
frame or a frame that succeeds. `isBeforeSignedInt`, `dropFrameState`, NAL parsing and the decoder's
queue are not in the repository: comparison is that of the difference as a signed
number, `dropFrameState` waits for an IDR frame in strict mode and may in the other, and
the start of an IDR frame ends both waits.

**Input.** Threads of the application offer mouse, scroll and controller packets to a
bounded queue (v345, v349-v351); one thread takes a packet, adds those behind it
that can be batched with it, and sends (v348). A sum of moves that is no
short ends a batch, and so does an axis that turns round. The queue
(external) refuses when it is full or shut down; the thread ends
when sending fails or the stream is stopped.

**Run.** `moonlight`. `FramesWhole`: the decoder gets whole frames, in order and none
twice. `GapsCovered`: never a frame that refers to one the decoder did not get
unless the server was told, or the frame needs no other. `InputExact`: at every
moment what was sent, is held and is queued amounts to what was accepted: no motion
lost or carried past a click, no button or last position of an axis skipped.

**Bounds.** Four frames, the stream starting at 0 or near the end of its numbers; a
delay of two packets; a short of 16 values in a range of 32 for 2^16 in 2^24, so that
bursts longer than half a short happen. Queue of three, four events, deltas from -3 to 2.
Frame numbers do not wrap. The code compares indexes as shorts, so `VideoAssumption`
asks that a delay be less than the range of a short, and that range at most half that
of the indexes, as 2^16 and 2^24 are.

**What is proved** (`MoonlightProofs`). The three properties of the run, for every
set of frames and events, every delay the network may cause, and every size of the numbers
and of the queue.

* `InputKept`: `InputExact` from `Spec` alone. The amounts are folds over sequences
  of any length. `NatSetInduction`, an induction over sets of numbers that needs no operator as a
  parameter, gives what a fold does to a sequence one longer (`AmountAppend`), and from that
  come the facts about adding two packets and about the head of a queue (`AddTwo`,
  `AmountFollowed`). The invariant `InputInv` is the property with the types of the
  queues and of the thread: a packet held is the sum of what was taken.
* `FramesKept` and `GapsKnown`: `FramesWhole` and `GapsCovered`. The invariant `VideoInv`
  says where the depacketizer is in the stream (`At`: the last packet taken in is
  packet `k` of the stream, and the chain holds the first packets of its frame up to it), that what is
  decoded is whole and before `startFrameNumber`, and that a gap before the next frame is waited
  for (`WaitsOK`). `StreamInOrder` shows, again by induction, that the stream of the initial
  state is in order; `NextPacket`, that a packet with the next index is the next of the
  stream if it is near; `StaleNear`, that a packet
  not far ahead that looks stale is no more than a short's range ahead. TLC checked `VideoInv` on all
  states of the run before it was proved.

The two theorems of the video assume `[][NoLongOutage]_vars`: either the stream has no more
packets than there are indexes, or no step skips more than half the range of a short. The
code sees nothing but indexes: after a loss of exactly 2^24 packets in the middle of a
frame, the packet that comes has the next index and is joined to it. Every behaviour of
the run satisfies the assumption, since its stream is shorter than the range of its indexes.

**Seen while modelling.** Line 91 of v357 compares the index with the last one plus
one, which is never taken modulo 2^24: the frame in which the index comes round is
dropped whole although nothing was lost. And after a burst of losses longer than 2^15
packets the comparison as shorts refuses good packets until the index has gone
round. Both cost frames, not their integrity, and the project claims no progress of the video.

**Left out.** Statistics, the encryption of input (it works or fails), the stages of
the connection.


## 9. What stays with the model checker

* *Liveness.* `CallersGetAway`, `EveryoneServed`, `Terminates`, `AllReturn` and
  `Marked` hold under fairness on the instances of their runs; the proof system
  does not handle fairness and `ENABLED`.
* *Data built by recursion.* The library's induction theorems take an operator
  as a parameter, which the provers cannot instantiate. Where the data can be described
  by a set of numbers for which a statement holds, `NatSetInduction` of `MoonlightProofs`
  does instead, and `InputKept` and `StreamInOrder` rest on it. `SchemeHeap` and
  `FreeListExact` have recursive operators and no theorems: what
  `find_consecutive_cells` finds is checked on every instance of the run.
* *The network card.* `E1000` has no theorems: `SegmentsExact`, `WholeInOrder` and
  `NothingWaits` are about what folds over rings and queues compute, and with
  `LinkKnown` they are model-checked.
* *Numbers that come round.* `NumbersApart` and `AcceptedIsRouted` of `RplDao` are true of
  exchanges shorter than the range of the 8-bit numbers, as those of the run are.

`PROJECT.json` lists the hazards of the modelled code, each at its line with the
properties that would notice it going wrong, and for each property a mutation of
the model that it rejects.

## 10. Findings

* `scan_abandoned` (`RulesOutliveScans`, v009:246). When `populate_scan_list`
  fails, which it also does when the deadline has passed, `main` leaves by
  `exit_with_code` and destroys the compiled rules while scan threads still scan
  with them; v009:251 says "Wait for scan threads to finish", which only the
  other path does. The run finds the shortest way there: a list that cannot be
  read while a thread scans.
* `ismt_late` (`CompletedBeforeProcessed`, v030:220). A transfer that timed out
  leaves its descriptor with the controller. Its interrupt, when it comes, raises
  the completion the next transfer has just armed (v030:212); that transfer then
  processes a descriptor the controller has not finished and returns `-EIO`,
  whereas n228:8 logs "Processing completed descriptor". `ReadsOwnData` shows
  that no wrong data are returned by it.

## 11. What is not modelled, and the plan

Everything of section 1 that has no section of its own. Most of it is sequential:
parsers, readers, formatters, codecs, whose state is a buffer and an index that
one call builds. Many files are single functions of a program of which nothing
else is here. Inside the modelled components the "Left out" paragraphs say what
is missing.

Next modules, most important first:

1. `Ptirq`: the line of a level-triggered pin, from the interrupt (n927, n935) to its
   acknowledgement (n926), while the pin moves to another machine.
2. The connection stages of Moonlight (v343, v359); the YARA block iterator
   (v010-v013); the USB host enumeration (n240-n254).
3. `RplDao`: expired routes and a second parent.

Next theorems:

1. `E1000`: `LinkKnown` and `NothingWaits`.
2. `E1000`: `WholeInOrder`, with the lemmas about folds of `MoonlightProofs`.
