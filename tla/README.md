# Formal models of the multi-player Tetris server

The repository is a small game server for Windows: `TetrisServer/` is a network
and job library (IOCP sessions, a reader-writer spin lock, actor-like job
queues, a job timer, send and receive buffers, a packet serializer),
`ServerContents/` is the server process built on it and `DummyClient/` a console
client. The game itself is not written yet: packet handlers print what they
receive. What can go wrong is therefore in the library, and nearly all of it is
concurrency. This directory models that library in TLA+, checks the models with
TLC and proves the most important facts with TLAPS.

Paths below are relative to `src/`; `T/` abbreviates `TetrisServer/`.

## Inventory

| component | state | operations | called by | what makes it correct |
|---|---|---|---|---|
| **Job scheduler** `T/JobQueue`, `T/GlobalQueue`, `T/LockQueue.h`, `T/Job.h` | per queue `_jobs`, `_jobCount`; the list of runnable queues; per thread `LCurrentJobQueue` | `Push`, `Execute`, `ClearJobs`; `Push`, `Pop`, `PopAll`, `Clear` of the queues | handlers, jobs, the timer; workers | a queue is run by one thread at a time, in order; no queue with jobs is forgotten; nothing runs twice |
| **Lock** `T/Lock` | `_lockFlag` (writer id, reader count), `_writeCount` | `WriteLock`, `WriteUnlock`, `ReadLock`, `ReadUnlock`, always through the two guards | every `WRITE_LOCK` | a reentrant reader-writer lock; exact counters; a crash only for a reason |
| **Session** `T/Session`, `T/IocpCore`, `T/IocpEvent` | `_connected`, `_sendRegistered`, `_sendQueue`, one reusable event per kind of operation, each with an owner | `Send`, `Connect`, `Disconnect`, four `Register…`, four `Process…`, `HandlerError` | workers that dequeue completions; user code; the service | an event is never used by two operations; buffers leave in order, once; nothing queued is stranded; a connected session always listens |
| **Service** `T/Service` | `_sessions`, `_sessionCount`, its lock | `AddSession`, `ReleaseSession`, `Broadcast`, `CloseService`, `CreateSession`, `Start` | sessions, the application | the set holds the live sessions; broadcasts reach all in one order; no deadlock with the sessions' locks |
| **Receive buffer, framing** `T/RecvBuffer`, `PacketSession::OnRecv` | two cursors and the bytes | `OnWrite`, `OnRead`, `Clean`, `OnRecv` | `ProcessRecv` | packets are handed over whole and in order however the stream is cut; there is always room |
| **Job timer** `T/JobTimer` | a heap of deadlines, `_distributing` | `Reserve`, `Distribute`, `Clear` | `DoTimer`; every worker turn | at most once, in order of deadlines, and in the end |
| **Send buffers** `T/SendBuffer`, `MakeSendBuffer` of both programs | per thread a chunk, its `_usedSize`, `_open`; the pool | `Open`, `Close`, `Reset`, `Pop`, `Push` | packet handlers, the client's menu | a finished packet stays as it was written while anybody refers to it; nothing is written outside of a chunk |
| **Serializer** `T/Serializer`, `T/DeSerializer` | none | `Serialization`, `GetDataSize`, `Deserialization` | packet handlers | decoding gives back what was encoded |
| **Listener** `T/Listener` | one accept event per slot, with the session it waits for | `StartAccept`, `RegisterAccept`, `ProcessAccept` | `ServerService::Start`, completions | a slot is never lost and never used twice; each accept has a session of its own; the next client gets in |
| **Thread manager** `T/ThreadManager` | the threads | `Launch`, `Join`, `DoGlobalQueueWork`, `DistributeReservedJobs` | `main`, workers | workers start after the service, and take turns |
| **Wrappers and globals** `T/SocketUtils`, `T/NetworkConnector`, `T/CoreGlobal`, `T/CoreTLS` | | | | |
| **Application** `ServerContents/`, `DummyClient/` | | handlers, a menu | | |

How they interact: 18 worker threads (`ServerContents/TetrisServer.cpp:10-23`)
repeat: set the end of the time slice, dequeue one completion (`IocpCore::Dispatch`
calls the session's `Process…`, which calls user code and the service), let the
timer push what is due, and run runnable job queues until the slice is over.
Sessions and the service call each other with locks held: `Broadcast` and
`CloseService` call sessions inside the service's lock, `ProcessSend` calls
`RegisterSend` inside the session's (reentrant) lock, and `AddSession` and
`ReleaseSession` take the service's lock with no other held. The worker that
dequeues an accept runs the new session's `ProcessConnect`, which enters the
service and calls `OnConnected`, before it arms the slot again.

Hard behaviours: `_jobCount` and `_jobs` never change together; the lock packs
two facts in one word and keeps a third outside of it; an event is reused as
soon as its completion is handled, so who may start the next operation is
decided by one atomic flag and by call order; every Windows call may be refused,
and then the code undoes what it did in several steps; disconnects come from
four places at once; the count of sessions is reset while releases are under
way; an accept's slot is out of use while its session is welcomed; chunks are
written by one thread while others send from them. The list, with lines, is in `PROJECT.json` under `hazards`.

## Modules

| module | models | state and actions |
|---|---|---|
| `Mailbox` | what a job queue promises | `mail[q]`: post, deliver, discard |
| `JobQueue` | the scheduler at the grain of its atomics and critical sections | `jobs`, `jobCount`, `globalQueue`, `current` are the code's fields; `call[t]` and `exec[t]` are the frames of `Push` and `Execute` on a thread's stack. `Push`, `Enqueue`, `ScheduleGlobal`/`ScheduleInline` are the steps of `JobQueue::Push`; `Take` is `DoGlobalQueueWork`; `PopAll`, `RunJob`, `Finish`/`Continue`/`Yield`, `Repush` those of `Execute` |
| `JobQueueProofs` | | the theorems about `JobQueue` |
| `RWLock` | what the lock promises | `held[t]`: read and write guards |
| `Lock` | the spin lock, one action per access to `_lockFlag` or `_writeCount` | `flag`, `writeCount`; `pc`, `sampled` are the locals of the lock's functions, `guards[t]` the scopes of a thread, `crash` a `CRASH` |
| `LockProofs` | | the theorems about `Lock`, and that it implements `RWLock` |
| `Session` | a session's operations and the completions | `connected`, `registered`, `sendQueue`, `sendBuffers`, `owner` are fields; `op[s][k]` is what Windows does with the event of kind `k`; `todo[t]` is the call stack of a thread as the steps it still has to take. `Connect`, `Complete`, `Dispatch` are the environment's, every other action is a part of the function it is named for |
| `SessionProofs` | | the theorems about `Session` |
| `Service` | the service over those sessions (extends `Session`) | `sessions`, `sessionCount`, `serviceLock`; `AddSession` and `ReleaseSession` of `Session` get their effect here, `Broadcast` and `CloseService` are added |
| `Listener` | the listener and the start of a server, in front of that service (extends `Service`) | `acceptEvents`, `slot[e]` (`AcceptEvent::session`) are fields; `acceptOp[e]` is what Windows does with the event; `phase` is how far `main` is. `Start`/`NewSlot` are `StartAccept`, `RegisterAccept`, `AcceptEx` and `AcceptExRefused` are `RegisterAccept` with its recursion, `ProcessAccept` ends in `ProcessConnect` of `Session` |
| `ServiceProofs` | | the theorems about `Service` and `Listener`, and that those about `Service` and `Session` hold behind a listener |
| `RecvBuffer` | `ProcessRecv`, the cursors, `OnRecv` and `Clean` | `buffer`, `readPos`, `writePos`, `processLen`; `wire` is what the peer has sent |
| `RecvBufferProofs` | | the theorems about `RecvBuffer` |
| `SendBuffer` | `MakeSendBuffer` with `Open`, `Close` and the replacement of chunks | `chunk[t]` (`LSendBufferChunk`), `usedSize`, `open` are fields; `memory[c]` says which packet each byte was written for; `making[t]` holds the locals of `MakeSendBuffer`, whose steps are `Open`, `WriteHeader`, `Serialization`, `Close`; `buffer[p]` is a finished packet until `Drop`; `fault` is the call that left defined behaviour |
| `SendBufferProofs` | | the theorems about `SendBuffer` |
| `JobTimer` | `DoTimer`, `Reserve`, `Distribute`, `Clear` and a worker's call of `Distribute` | `items`, `distributing` and the deadlines are the code's fields; `sampled`, `batch` the locals of a worker in `Distribute`; `reserving` the calls of `Reserve` between the clock and the lock; `held` the queues kept by anything but the timer |
| `JobTimerProofs` | | the theorems about `JobTimer` |
| `Serializer` | `GetDataSize`, `Serialization` and `Deserialization` | `body` is what is written, `memory` what lies in the receive buffer from the packet on, `currentByte` and `result` the decoder's locals; one action per kind of value |
| `SerializerProofs` | | the theorems about `Serializer` |
| `MC…` | | symmetry sets and constant values for TLC |

Session's lock is atomic sections there, except where `ProcessSend` holds it over
a call (`lock[s]`); that the real lock is one is what `Lock` shows. Likewise the
queues inside `JobQueue` are atomic because each of their methods is one critical
section. A session's receive path is one step in `Session` and is refined by
`RecvBuffer`; `Session`'s `EventsNotShared` is what makes the latter sequential.

Each definition named like `PushIfEmpty` or `RepushNothing`, under a comment that
begins with "Mistake", is a wrong variant of the definition that follows it. No
specification uses it: substituted for the right one, it shows that a property
would notice that mistake.

## Runs

| run | question | bounds |
|---|---|---|
| `JobQueueSafety` | may three threads ever run one queue at once, strand a queue, miscount, nest an `Execute`, or break the mailbox? | 3 threads, 2 queues, 4 jobs, 1 `ClearJobs` that finds jobs |
| `JobQueueLive` | is every job run, does a queue become idle? | 2 threads, 1 queue, 3 jobs |
| `Lock` | is it a reentrant reader-writer lock, are its counters exact, does it crash only for a reason, is a free lock taken? | 3 threads, 3 nested guards |
| `SessionSafety` | may events be shared or freed in use, buffers lost, reordered or stranded, a session left deaf? | 3 threads, 1 session, 3 buffers, every event |
| `ListenerSafety` | is every slot armed once, with a session of its own; do all sessions see one order of broadcasts; does a close forget a connected session? | 2 threads, 2 slots, 4 sessions, 2 broadcasts, 1 close, every way an accept fails |
| `ListenerLive` | does the next client get in? | 2 threads, 1 slot, 3 sessions (2 clients), failing accepts; 3 broadcasts, or a close and 1 broadcast |
| `ServiceLive` | is a session released once and does it leave, by how much does the count drift, is what was queued given to Windows? | 2 threads, 1 session, 2 broadcasts, 2 closes; the peer or a refusal may end it |
| `SendBuffer` | may a finished packet be written over; when does `MakeSendBuffer` leave defined behaviour? | 2 threads, 4 packets of 6 sizes, 4 chunks of 6 bytes, 3-bit sizes |
| `RecvBuffer` | are packets handed over whole, at once and in order; does the buffer ever lack room or copy onto itself? | packets of 2 and 3 bytes, a buffer of 3 times 3 bytes, up to 7 bytes on the wire |
| `JobTimer` | is a reserved job pushed once, in the order of deadlines whichever workers push, and at last? | 2 workers, 3 jobs of one queue, 1 of them a member function, 2 ticks |
| `Serializer` | are exactly the bytes written that were counted, is everything read back unchanged? | all collections of up to 2 of 12 values, 2 packets that may lie behind, from any of their bytes on |
| `SerializerBehind` | does the decoder find only what was sent? It does not (below) | the same without empty collections |

Why the bounds are enough: the races of `JobQueue` are between a pusher, an
executor and one thread that finds the queue again, so three threads; four jobs
let a batch run while two more are pushed. In `Lock`, three threads give a
holder and two contenders of either kind, and three guards are the shortest
nesting (write, read, write) whose unlock is refused. In `Session`, three
threads give the completion of a send, a sender that finds it under way and one
that finds it over; one session is enough because sessions share nothing but
the service. An order of broadcasts needs two sessions and two broadcasts, and
`ListenerSafety` lets two slots accept them while two more sessions wait for the
next clients. `AcceptCompletes` lets a client in only while a session is left for
the slot's next accept: the program makes sessions as it needs them. Two threads
suffice there for a broadcast or a close against an accept or a completion, and
three threads on one session are in `SessionSafety`. A second close is what sets
the count right again, so `ServiceLive` has two; an error that resets a session is
left to `SessionSafety`. In `ListenerLive` one slot serves both clients, so the second
one comes while broadcasts and a close traverse the first; a third session is what
the slot waits with when both are there. The only lock that a thread keeps over
several steps while others may want it, but the service's, is the one `ProcessSend` holds over
`RegisterSend`. For a Broadcast to wait for it, inside the service's lock, one buffer
must have been sent and a second queued meanwhile: hence three. A close next to
more than one broadcast (`CloseBound`) is left out, as it makes the run ten times as long.
TLC's symmetry is not sound for liveness. `ServiceLive` does without any, and `InTurnSpec` of
`MCListener` takes interchangeable names in one order instead: the sessions
that are not known yet, the buffers not sent, and the thread that begins when all are
idle (`NamesInTurn`). Such names have the same state at that moment, so that
every behaviour has a renamed one that takes them in order, and a thread in the middle of a
call is never renamed, so that fairness of each thread is kept. `InTurnSpec` stops
when both clients are served and the slot is armed for good (`LastSlotArmed`): `AcceptsGoOn` can
not fail any more.
`SendBuffer`'s chunk holds three packets of 2 bytes with their headers, or one of
5; a packet of 6 never fits, one of 7 wraps to a size of 0 and one of 8 to one of
1, so each of its faults has a size of its own; its properties are proved for all
sizes.
`RecvBuffer` keeps the code's proportions where they matter (a packet is no
longer than a buffer, the array is three buffers or more, while the code has
ten); its properties are proved for all of them.
`JobTimer` needs two workers for one to find `_distributing` set, and three jobs
for a batch of two and one that comes in between; two ticks give an early and a
late deadline and a stale `now`. `Serializer` encodes values one by one, so two
neighbours show every transition of the decoder; the values are the least and
the greatest words, empty and cut strings and arrays, and words that look like
tags. Its wide words have 3 bytes, because TLC's integers have 32 bits. Its properties
are proved for words of any size and any collections.

`CHECK_DEADLOCK` is off where a model may really stop: when the process has
crashed (`Lock`), when all sessions have ended, all buffers are sent and no client is let in any
more, when all packets are made, or when the packet has been decoded.

`TypeOK` of `Session` is checked as part of `ServiceTypeOK`.

### What the properties say about surprising code

- The decoder reads on behind a packet. `GameSession::OnRecvPacket` passes the
  packet's size, which counts the 4 bytes of the header, with a pointer behind
  the header, and `Deserialization` includes index `len`: five bytes too many
  may be taken for tags. `RoundTrip` holds nevertheless, because what was sent comes
  first: the decoder leaves the packet only with all of it read; `OnlyThePacket`, which is what the comment in `DeSerializer.h` says, does
  not. A following packet is enough: the upper byte of ids 1000 and 1001 is 3, the tag
  of a string, so its header and body are read as one more string. If they are
  read as an array without an end, the loop leaves the buffer (`RunAway`).
- Nothing stands in front of a packet that is too long. The assertions of
  `SendBuffer.cpp:43-44` and their kind are comparisons whose result is not used;
  `Open` returns nullptr for more than a chunk, which `MakeSendBuffer`
  dereferences, and sizes are cast to 16 bits before that, so 64 KB are written
  behind a region of a few bytes. `FaultJustified` states that this, and a
  collection that grows while it is written, is all that goes wrong.
- A packet given up because it was not written as counted leaves its region open,
  and the next `Open` of the thread uses it again. That is harmless
  (`SentIntact`), because `_usedSize` moves only in `Close`.
- `ConnectedInService` holds through a `CloseService`, but a session whose accept
  completes during one enters the set after it and stays: a closed service goes on
  accepting. Each slot is armed again when its session has connected, so
  `_maxSessionCount` bounds the pending accepts, not the sessions.
- `main` ignores the result of `Start`: a server that cannot listen runs its
  workers for nobody (the second disjunct of `StartAccept`).
- The timer's order has one exception, which `PushedInOrder` names: a deadline is
  computed before the lock is taken, so a job may enter the heap after a later
  one was taken out. A callback whose queue is gone is dropped; a
  member-function job keeps its queue and is never dropped (`ReservedIsPushed`).
- After a `ClearJobs` that found jobs, `_jobCount` never returns to 0:
  `CountAccounts` states the exact surplus. The queue keeps working but goes
  round the global queue for ever; `QueueDrains` therefore excludes it.
- `CloseService` sets `_sessionCount` to 0 and the releases that follow lower it
  again; `CountDrift` states by how much it is below the size of the set. It stays
  below until the next `CloseService`, which sets the count right.
- A `WSASend`, `WSARecv` or `DisconnectEx` refused with an error other than a
  reset is only logged. `NothingStranded`, `StaysArmed` and `DisconnectedLeaves`
  hold except after that, and `refused` records it: then a connected session is
  left deaf, a queue waits for the next `Send`, or a session stays in the set.
  These three properties, and `QueueDrains` above, describe such a defect and do not
  exclude it: what they show is that there is no other one of that kind.
- A session that called the service with its own lock held would deadlock with a
  `Broadcast`. Nothing does: `ProcessSend` holds it over `RegisterSend`, which may
  disconnect but leaves the release to a later completion, and `ProcessDisconnect` does
  not take it. `DisconnectedLeaves` would notice one that did (`ProcessDisconnectLocked`).
- The comment at `T/Serializer.h:9` says that an array of tag 6 ends in `double_max`.
  `T/DeSerializer.h:10` says `uint64_max`, the code does that, and so does the model.
- A thread with a read guard that asks for a write guard waits for itself until
  the timeout: `ImplementsRWLock` has no step that would let it in. The code
  uses no read guards today.

## Fairness

Every thread is scheduled, so a step its program has already decided on is
weakly fair; what user code decides (to push, send, disconnect, lock) is not
fair at all. Beyond that:

- `JobQueue`: `SF(Yield)`. An `Execute` that goes round its loop for ever meets
  the end of its 64 ms slice, because the clock moves on.
- `Lock`: guards are left again (`WF(Unlock)`). The spin gives nobody a turn, so
  no fairness among contenders is assumed, and none is promised:
  `FreeIsTaken` says that somebody gets the lock, not who.
- `Service`: Windows completes what it accepted, a receive at the latest when
  the session disconnects; some worker dequeues each completion (strong
  fairness, because a worker that is busy is not ready to dequeue). A thread that
  waits for the service's or a session's lock gets it when the lock is free again
  and again (strong fairness per thread). The spin lock does not guarantee that;
  it crashes the process after 10 s instead: the liveness is that of runs in which
  this does not happen.
- `Listener`: in addition `AcceptEx` is not refused for ever, completions of accepts
  are dequeued, and `main` launches the workers. That clients come is not assumed.
- `JobTimer`: the clock moves on, a `Reserve` that has begun ends, and every
  worker takes its turns; whether a worker gets into `Distribute` is not assumed.

## Proofs

`JobQueueProofs`, for any finite set of threads and any queues and jobs: `Typing`,
`NoNestedExecute`, `OneAtATime`, `NoStrandedQueue`, `Accounting` and
`BehavesAsMailbox`. They assume only that the threads are finite and that `None` is
not a queue or a job. No property is inductive alone. The argument is a token: the
right to run `q` is held by the `Push` that found the count 0, by an entry of the
global queue, or by an `Execute`. `SoleOwner` (one token at most) survives a `Push`
only because a count of 0 means that there is none, which is `OwnedWhileCounted`;
and that survives the end of an `Execute` only because the count says whether more
was pushed, which is the accounting of `CountInv`. The inductive invariant is
therefore their conjunction with `LocalInv`, which relates the frames on one
thread's stack. `BehavesAsMailbox` is the refinement of `Mailbox`: the abstract queue
is the rest of the batch that is being executed, then `_jobs`. It is a sequence
only because one thread at a time has a batch of `q`, so it rests on `SoleOwner`;
`Enqueue` maps to a post, `RunJob` to a delivery, `PopAll` and all others to a stutter.

`SessionProofs`, for any threads, sessions and buffers: `EventsUsedOnce`,
`OwnersKept`, `SentInOrder`, `SendersFound` and `ReceivesGoOn`. The inductive
invariant (`SessionsOK`) describes, for each session, its connect, its receive side,
its send side and its disconnect by the frames of the call stacks that work on it. A
frame keeps its depth from the bottom of its stack, so it stays the same frame while
calls come and go above it; a step takes one frame away and puts others in its
place. The properties need each other: that a send has buffers (`KeptWhileInUse`)
follows from `_sendRegistered` being set while the send event is in use, which is
what lets one thread at a time move the queue to it; that nothing is stranded needs
that a flag still set has somebody behind it or a session that ends; and that the
disconnect event is used once follows from `_connected` being false from the one call
that starts it on. That `processConnect` meets no other use of the receive event
needs what a session may not do before it is connected (`Begins`). The lemmas about
the steps are stated for call stacks over any set of calls that includes those of
`Session`, so that they hold in a service as well.

`RecvBufferProofs`, for all sizes of buffers, packets and pieces, provided the array
is at least three buffers and a packet fits in one (the code: ten, and a 16-bit
size in a buffer of 65536): `CursorsInBounds`, `AlwaysRoom`, `CopiesAreDisjoint`,
`NothingLeftBehind` and `PacketsAreWhole`. For the cursors the inductive invariant adds
what `OnRecv` leaves behind: less than a `BufferSize`, since it stops only at an
incomplete packet. For the contents it says that the bytes between the cursors, and
those still to come, are the next ones of the stream, that a packet starts at the read
cursor, and that the header seen there is that packet's.

`JobTimerProofs`, for any workers, any finite set of jobs, any queues and any last
tick: `TypeCorrect` and `DeadlinesInOrder`. `TypeOK` includes that a job is at one place at
a time and so pushed once; a step moves a job from one place to the next
(`Placed`). The order goes from the heap over the batch of the worker in `Distribute` to
the pushes (`InOrder`): it holds across workers only because the next worker gets in
after the last one's batch is pushed (`OneDistributes`).

`SendBufferProofs`, for any threads, packets, sizes, chunk, header and word, provided a
header fits in a chunk and a chunk in a word: `ChunksInBounds`, `FinishedIsIntact`
and `FaultsJustified`. The argument is a division of each chunk at its `_usedSize`:
finished packets lie below it (`Intact`), and only the thread whose chunk it is writes,
at or above it (`Placed`). `Intact` survives another thread's step because no two
threads have one chunk (`ChunksApart`), since a chunk that a thread takes is used by
nobody. `Close` takes exactly what was written off the chunk: what was written as
counted is in the chunk, so its size did not wrap.

`LockProofs`, for any finite set of threads and any depth of nesting: `OneWriter`,
`ExactCounters`, `CrashesJustified`, and `Refinement`, that `Lock` implements `RWLock`. The
inductive invariant (`Tied`) ties each thread to the writer half of the word: only the
thread named there is between two steps of the writer's functions, has a write guard or
touches `_writeCount`, and no other has any guard meanwhile. A thread gets its id there
only when the whole word is 0; that nobody has a guard then follows from the read half's
being the exact number of read guards, and that is why the counters and the exclusion
have to be proved together. The depth of nesting enters only as the length of a stack.

`ServiceProofs`, for any finite set of sessions, any threads and buffers and any number
of closes: `StacksBounded`, `CountKnown`, `ReleasesOnce`, `ConnectedFound`, `OneOrder` and
`SessionsInService`. The inductive invariant is that of the sessions with `Sane`. A
thread that holds the service's lock has a mark at the bottom of the calls that
`Broadcast` or `CloseService` makes, and there is one mark at most (`LockHeld`). While
it is a close's, every session of the set that is still connected has its disconnect
above the mark (`Closing`), so that the set is cleared of none that is connected; with
`Parted`, which divides the known sessions into the set, the swept and the released,
this gives `ConnectedInService` and the count. While it is a broadcast's, only that
broadcast's buffer is on its way to several sessions, and none of them has queued an
earlier broadcast's behind it (`Broadcasting`), which gives the order; it rests on each
buffer's being sent by one call, to a session once (`SentOnce`). What may happen to a
session before it is added (`Entering`) and after its disconnect has begun (`Ending`)
comes from the steps' order in `ProcessConnect` and from `_connected`. `Shallow` bounds
each frame's depth by the calls that its step may still make on top of it (`Height`),
and so the stacks. These six theorems are about `ServiceSpec`, whose users may connect;
the lemmas about the steps are stated for call stacks over any calls that include those
of `Service` (`Serving`), for the theorems about the listener to use. The bound on the
stacks is proved without a listener only: its slots come on top of the service's calls.

The same module, for any finite sets of slots and sessions, and any threads and
buffers, where no slot is a buffer or the result of a completion: `SlotsArmed`,
`ServiceBehindListener` and `SessionsBehindListener`, the invariants of `Service` and
`Session` for the specification in which every session comes from an accept. The
inductive invariant is `Serving` with `Listening`. An event has one user, an `AcceptEx`
or one frame of a call stack (`Armed`). Its session goes through three stages
(`Slotted`): it is new, and nothing works on it, until `ProcessAccept` connects it; then
it is entering the service, above the frame that will arm the slot again; then it is
known. So a slot that is armed again drops a session that is known, or one that failed
before anything was done with it, never one on its way into the service; and two slots
never have the same one. The other steps are done by three
facts: the service's leave the listener's frames and the new sessions alone, and bring
the entering ones further (`Elsewhere`); the listener's frames are on no session, so
their steps keep `Serving`; and the connect of a new session keeps it because nothing
has happened to that session before.

`SerializerProofs`, for a byte and words of any size (a byte must have room for the six
tags, a wide word more than 2 bytes), any collections whose packet's size fits in 16
bits, and any packets behind: `SizesMatch` and `ReadBack`. A word's bytes, a word's value
and a collection's size are recursive functions, and the proofs are inductions over
their arguments; these are done as facts about sets of numbers (`UpTo`, `DownFrom`, from
a least counterexample, `Smallest`), and `LoopExists` shows that such a function is there
at all. From them follow: a word written byte by byte is read as it was
(`WordReadBack`), because what is left of it after all its bytes is 0 when it is at
most the largest (`ShiftedOut`); a value's bytes are as many as `GetDataSize` counts and
each lies where its word does (`EncodedIs`). The inductive invariant (`SerializerInv`)
says while writing that the first values lie behind each other at the places that
`Sizes` names, and while reading that the decoder has read some of the values and is
behind them (`Behind`), or has read all (`Found`). What makes it inductive is the
decoder's second place, at the zero that it leaves behind a string: 0 is no tag, so it is
stepped over. In front of a value the decoder can only read that value: its tag decides
which step is possible, the first zero of a string and the first largest word of an
array are those that were written, so `RunAway` is impossible in the packet. Behind the
packet nothing is known of what is read, but that no step takes a result back or goes
back (`Forwards`).

Only model-checked: liveness, which the prover cannot do.

## Plan

Models: the timer composed with the job queues, so that the workers' turns are one
specification. Proofs: the bound on the call stacks behind a `Listener`.

## Not modelled, and why

- `SocketUtils`, `NetworkConnector`: wrappers without state; the outcomes of the
  calls are choices of `Session` and `Listener`.
- `CoreGlobal`, `ThreadManager::Join` and `InitTLS`: construction of the singletons,
  numbers of threads, the end of the process.
- A session that cannot be registered with the completion port: `CreateSession`
  returns nullptr, which `RegisterAccept` dereferences.
  `Listener::CloseSocket`: nothing calls it.
- `SendBufferManager::Push` and `PushGlobal`: no chunk is made with `PushGlobal` as its
  deleter, so the pool stays empty and `Pop` always makes a chunk.
- Destruction of sessions: `owner`, `_sessions` and the callers' pointers keep a
  session alive; the models have no reuse of a session after its release, except of
  those that never connected.
- The 16-bit halves of `_lockFlag`: 65536 readers or threads are out of reach.
- Time: ticks are abstracted to "may have passed", except in `JobTimer`; a deadline
  beyond 2^64 ms is left out there.
- In `Serializer`, packets of more than 6000 bytes, which no chunk holds, and the wrap
  of 16-bit sizes: those are `SendBuffer`'s.
- The application: handlers without state, `GameSessionManager` without users,
  `Room` and `Packets` without behaviour.
- A peer whose headers do not name the packet's size: `MakeSendBuffer` writes the
  headers on both sides.
