# Verification of affix-base

affix-base is a C++ library: mutexes, polling threads, a reference-counted
pointer, byte buffers, framed messages over asio sockets, a request queue per
socket direction, and a mutual authentication built on all of it. It has no
program of its own and little documentation, so the specification is the
source under `src/affix-base/`, read with `src/unit_test/`.

Contents: [inventory](#inventory) ·
[plan](#plan) ·
[modules and code](#modules-and-code) ·
[runs](#runs) ·
[fairness](#fairness) ·
[proofs](#proofs) ·
[findings](#findings) ·
[limits](#limits)

## Inventory

How the parts use one another, users above what they use:

    async_authenticate ── async_authenticate_remote, _local
            │  callbacks
    socket_io_guard ───── cross_thread_mutex (one per direction)
            │  completion handlers
    transmission (TCP) ── serialize ── asio, tcp::socket

    ptr ── guarded_resource ── recursive mutex      persistent_thread ── ptr<bool>
    nat ── transmission (UDP), byte_buffer, rsa     persistent_thread_group

| component | state | operations | what is hard about it |
|---|---|---|---|
| `cross_thread_mutex` | `m_mutex`, `m_state_mutex`, `m_id`, `m_lock_index` (16 bits) | `lock`, `unlock` | the owner's id and the counter are written outside `m_state_mutex`; unlocking `m_mutex` inside it; counter width |
| `socket_io_guard` | two deques of requests, a recursive mutex for each | `async_send`, `async_receive`, `clear_queues`, the completion handlers | several io threads, callbacks that call the guard again under its mutex, failures and exceptions that stop the pump, clearing a queue whose operation is under way, lock order |
| transmission, TCP | offsets of a send and a receive | `socket_send`, `socket_receive`, async forms | frames cut into different pieces at the two ends, failure inside a frame, empty messages |
| transmission, UDP | offset, start time | `socket_send_data_to`, `socket_receive_data_for` | datagrams treated as a stream, timeout checked after the read |
| `ptr` | the static map address → owners, `m_raw` | constructors, assignment, `link`, `unlink`, `group_link`, `group_unlink` | destructors that call back into the map while it changes, to any depth; `m_raw` read outside the lock; a loop over a vector that shrinks |
| `async_authenticate` | count, the two halves, seed, keys | constructor, callbacks | two peers in lock step, untyped messages, exactly one answer, an undefined return value |
| `persistent_thread` | four shared bools, a `std::function` | `call`, `loop`, `stop_loop`, `join_*`, destructor | everything through plain bools, check and act in separate steps |
| `persistent_thread_group` | one shared trigger | `compile`, `execute`, `join` | triggers that are replaced while the workers poll them; one flag that several workers read and the first one clears |
| `ts_deque` | a deque and a mutex | push, pop, `get` | size then pop; `get()` returns with the mutex locked |
| `byte_buffer` | a deque of bytes | push and pop of values, strings, vectors, tuples, at both ends | elements and sizes in opposite orders at the two ends; a pop that fails half way; tuples pushed at the wrong end |
| `nat` | counters | `socket_external_ip`, `socket_nat_type` | retries whose late answers are read by the next attempt, a vote without trials |
| `string_extensions`, `vector_extensions`, `insertion_index` | none | pure algorithms | both ends, neighbours, overlaps, empty queries |
| `rolling_buffer`, `builder`, `watch` | small sequential objects | | capacity |
| `rsa`, `aes`, `sha` | none | wrappers of Crypto++, forms in chunks and over streams | block sizes, an ignored result, a missing return |
| files, timing, logging, `object`, `ref`, `affix-base-clr` | none that evolves | I/O, formatting | — |

What makes each of them correct:

* **cross_thread_mutex** is a recursive mutex: one holder, re-entry never
  blocks, as many unlocks as locks free it.
* **socket_io_guard**: one socket operation per direction, the one at the
  front; answers once and in order; a queue with requests is being worked on;
  the deques are not read when empty; its two mutexes are not waited for in a
  circle. Each of these has conditions in the code, and the conditions are part
  of the properties.
* **transmission**: messages arrive whole, in order and unchanged, or an end
  reports failure.
* **ptr**: the owners in the map are exactly the ptrs that point there; an
  object lives exactly while it has owners; its last owner deletes it, once; no
  ptr joins the owners of something that is gone.
* **async_authenticate**: one request at a time, one answer per attempt; TRUE
  only after both halves; every attempt ends.
* **persistent_thread**: no call is lost, a join waits for the run, the
  function is not replaced while it runs, the destructor returns.
* **persistent_thread_group**: when a join returns, somebody has run; no worker uses a
  trigger that is gone.
* **byte_buffer**: a deque of whole objects; what is cut off is missed, not made up.
* **string and vector extensions, insertion index**: each function means what a
  definition without its loops says.
* **rsa, aes**: what comes out of a ciphertext, whole or cut, is the front of the text, and it
  is known when a ciphertext that was cut passes for a whole one.
* **nat**: an address is believed only if the returner that was asked has seen it
  since this attempt began; the vote is right while the NAT changes its mapping in
  no more than half of the trials; the call returns.

## Plan

Done, in this order:

1. `RecursiveMutex` (abstract), `CrossThreadMutex`, `CrossThreadMutexProofs`:
   the mutex under everything else, and its refinement.
2. `RequestQueue` (abstract), `SocketIoGuard`, `SocketIoGuardProofs`: the core of the library, over the recursive mutex that
   step 1 provides.
3. `Transmission`, with the numbers of `Serialize`: one direction of a stream, over step 2's
   promise of one operation at a time.
4. `Ptr`, `PtrProofs`: owners and lifetimes, for any objects without cycles.
5. `AsyncAuthenticate`, `AsyncAuthenticateProofs`: two peers over the promises of steps 2
   and 3.
6. `PersistentThread`, `PersistentThreadProofs`.
7. `NatProbe`, `NatProbeProofs`: `socket_nat_type` with its trials and retries, over the
   UDP send and the UDP receive with its timeout.
8. The group, and a second application thread, in `PersistentThread`: they share its
   statements.
9. `Encoding`, `TypedDeque` (abstract), `ByteBuffer`: the push and pop overloads as
   operators, and the buffer as an implementation of a deque of objects.
10. `StringExtensions`, `VectorExtensions`, `Chunks` with `MCAlgorithms`: pure functions
    against reference definitions; `Chunks` uses the vector functions and `Encoding` as
    `rsa.cpp` does.
11. `Induction`: induction over the naturals for a set, recursion, and `FlattenSeq`: what
    `MessageProofs` needs about numbers, frames and lists of any length, and
    `PersistentThreadProofs` about groups of any size.
12. `MessageProofs`: `Transmission` and `ByteBuffer`, in one module since both rest on the
    same lemmas about bytes and numbers.

Abstract specifications worth stating: a recursive mutex, a queue of
requests and a deque of objects (all done), a message channel for `Transmission` (each message
delivered once, in order), a multiset of owners for `Ptr`, a bounded trigger
for `PersistentThread`.

Theorems worth proving next: what the functions of `StringExtensions` and `VectorExtensions`
compute, for texts of any length, by the induction of `Induction`; `PtrProofs` for two threads
that share a source (`group_copy`).

## Modules and code

**CrossThreadMutex** (`cross_thread_mutex.cpp`). One action per step between two
points where another thread can see a difference: taking `m_state_mutex`, reading
the owner and counter, leaving, taking `m_mutex`, writing `m_id`, resetting the
counter; and the same for `unlock()`. `pc[t]` says where in the two functions a
thread is; `todo[t]` counts its lock_guards that have not been destroyed. The read
of `m_id` by one thread while its owner writes it is a data race in the code; each
access is a step of its own.
`RecursiveMutex` is what it implements: `held[t]`, acquired when nobody else holds.

**SocketIoGuard** (`socket_io_guard.cpp`). `deque[d]` are the two queues, `held[d]`
the two recursive mutexes, `inflight[d]` what the socket is doing. An io thread runs
one completion handler at a time (`handler[t]`: arrived, waiting for the mutex; in the
callback). A callback is user code: in it the thread may call the guard again
(`call[t]`), return or throw. `front()` or `pop_front()` of an empty deque is
undefined; it sets `broken` and ends the execution. The history variables say
which of the things happened that void a promise: `stalled` (an operation failed with
more requests behind it, or a callback threw) and `clearedBusy` (a queue was cleared
during its operation). `RequestQueue` is what a direction promises: answer
each request once, in order.

**Transmission** (`transmission.cpp`). `out`, `stream`, `in`: what the sender has
still to write, the bytes between, what the receiver has. Blocking and
asynchronous forms take the same steps; a step moves any number of bytes up to what
asio may. `serialize` and `deserialize` are the little-endian conversions of the
size. A failure may happen at any step.

**Ptr** (`ptr.h`, `guarded_resource.h`). The map is locked by a recursive mutex for a
whole call, so a call is a stack of tasks (`work[t]`) that the holder works off: a
task is a body of a function between two calls, and calling a function pushes its
tasks. Deleting an object pushes the destructors of its members. `call[t]` is the
call that waits for the lock, with the raw pointer it read *before*. `Linked` says what the
application has linked before its threads begin. `MayOwn` restricts who may point where, and
`OwnershipAssumption` says that it has no cycles. `Disciplined` is what an application must
obey for the promises of `ptr` to hold: it copies from another variable (not from a member of
what it may delete, see Findings), and it is one thread, or several that only assign to
variables, and to none that another thread copies from. `MCPtrWorkloads` checks by an ASSUME
which of its applications do.

**AsyncAuthenticate** (`async_authenticate*.cpp`). `sending[p]` and `receiving[p]` are
p's requests in the guard, each with the callback it will run. Each callback is an
action: it ends one request and does what the code does next, which is a record
(requests to make, what to tell `m_callback`, the new count). Seeds are opaque but for
their size; a signature is a record of who signed what. `pop_front()` of
a message of either kind finds a seed in it, as the encoding of both begins with
one. The result of `rsa_try_verify()` on success is undefined in the code, so it is
either value here.

**PersistentThread** (`persistent_thread.cpp`, `persistent_thread_group.cpp`). Each member
function is a sequence of statements, a read or a write of one flag each; `todo[t]` holds
what a thread has still to do, each statement with the worker it is about, and a worker
is a thread whose statements the loop of `init()` renews. `m_call[w]` is the bool that
w's ptr points to: its own, or the group's after `compile()`. The application is either
one or two threads with one worker, or one with a group. It is assumed to obey what it
must in any case: not to run an empty function, to replace the function only
after `join_call()` and while no other thread is in an operation, not to use a destroyed
object, and to join a group before it executes it again. `NoCallLost`, `NeverBroken` and
`JoinedMeansDone` are promises to an application that does not loop, whose threads do not
call at the same time (`looped`, `overlapped`): a join may see a loop between two of its
runs, and two calls may become one run. When the function is replaced while it runs the
behaviour is undefined and the execution ends. `compile()` is called once. For each worker
it is the three writes of `link()` that the worker can see (`LinkTrigger`: the deletion of its
own bool, the null pointer, the pointer to the group's), while the worker polls. `m_call[w]` is
then `Freed` or `Null`; a thread that reads or writes the bool there, or has read the pointer
and is about to use it when the bool is deleted, is broken (`Link`, `Misread`).

**Serialize** (`serialize.h`). An unsigned integer as its bytes, the least significant first:
the sizes in the frames of `Transmission` and in the bodies of `ByteBuffer`.

**Encoding**, **ByteBuffer** (`byte_buffer.h`). An object is its bytes. A push is an
operator on bodies; a pop gives a record, with what it has already done when it fails.
Strings and vectors differ in the width of their sizes only and share `PushList` and
`PopList`; the order of the loops is `PushOrder` and `PopOrder`. `ByteBuffer` keeps beside
the body the objects that it should hold (`items`). The application pops the type that lies
there, as every caller in the library does. `Receive` is `data()` followed by the constructor
at another place, to which only the first bytes came; the buffer is then read from the
front until a pop fails. `TypedDeque` is what it implements: a deque of objects that may
lose objects at its back. Tuples are pushed at the back only (`FrontKinds`), see Findings.

**StringExtensions**, **VectorExtensions** (`string_extensions.cpp`,
`vector_extensions.h`, `insertion_index.h`). One operator per function, in the terms of its
loop where the loop matters: the offset of a search, the last part of a split. The library's
`find` is external.

**Chunks** (`rsa.cpp`, `aes.cpp`). A byte of a ciphertext knows its block and its place, so
that what the ciphers do with cut, moved or blank bytes can be told without their
arithmetic: an RSA chunk of another length throws, one of the right length with wrong bytes
gives an invalid result and no message, CBC decrypts a block behind its predecessor only. The
padding of AES is made of bytes as those of the text are (`Padding`), and what ends in such
bytes is taken for padded (`Unpadded`).
A result says whether there was an exception and what came out before it.

**NatProbe** (`nat.cpp`, and the UDP functions of `transmission.cpp`). `pc` is where
`socket_nat_type()` is; one turn of the receive loop is an action, so that what is on
its way (`net`) and in the socket (`inbox`) may change between two of them. Random data is a
number that grows with each attempt, a response a record of who signed it, what it
returns and the endpoint it reports. `remaps` counts how often the NAT has changed
its mapping, and `since` what that was when the attempt began. A datagram that
stays in `net` after it was delivered is one that is repeated, one that never is
delivered is lost. `Short` is a stranger's datagram that is shorter than a response; strangers
send no other ones.

`MC*` modules hold definitions for TLC only: who calls what, layouts of objects,
finite workloads (`PersistentThread` and `NatProbe` need none). `MCPtrWorkloads` chooses one of
two applications of `ptr`. `MCAlgorithms` has a state for each pair of a text and a query,
reached one character at a time, and the reference definitions. `MCData` puts it beside
`MCByteBuffer`: a behaviour is about one or the other, from their common initial state.

Each module states its types once, as a conjunct of its structural invariant
(`NothingLostInTheStream`, `GroupsAreOwners`, `OneStepAtATime`, `MajorityDecides`, `NeverBroken`,
`BodyHoldsItems`) or of the `IInv` that is proved.

## Runs

| run | question | bounds, and why they are enough |
|---|---|---|
| `mutex` | is it a recursive mutex, and does every call return? | 3 threads, nesting 3, 4 calls each: an owner, a waiter and one in between; re-entry of re-entry; the counter at its largest value |
| `guard` | one operation, order, idle queues, empty deques, circular waits; does every call return and every request get its answer? With everything allowed: callbacks that send, receive and clear, failures, exceptions | 2 io threads and an app thread, 4 requests, 1 clear: a busy front, one behind it, one made in the callback, and one after a clear |
| `transmission` | framing, conservation of bytes, arrival; failures anywhere | bytes of one bit, 2 bytes of size, pieces of 2, 3 messages of 0 to 3 bytes: sizes that need both bytes, messages longer than a piece |
| `ptr` | owners, lifetimes and cascades; copies by two threads | 3 addresses, two of them objects with a member, 3 ptrs of the application, every operation by one thread; or 2 threads that copy, release and relink with a shared source that stays linked |
| `ptr_next` | `p = p->next` (finding) | 2 objects |
| `authenticate` | one request at a time, one answer, TRUE only if earned, every attempt ends | 3 attempts per peer, any orders, 2 sizes, failures: an attempt meets what two earlier ones have left |
| `authenticate_honest` | do honest peers agree? (finding) | 1 attempt, nothing fails |
| `nat` | are late answers refused, is the vote right, does the call return? | 2 trials of 2 attempts, a remapping, a stranger's datagram, 2 datagrams on their way and 2 in the socket: an answer of the attempt before and of the trial before; a vote that is a tie |
| `thread` | what calls, joins, loops, stops and the destructor promise; what the join of a group does | 2 application threads and 5 operations on a worker: a call, a loop, a stop, one more and a join, or two threads that call in turn and at once; 8 operations on a group of 2: a compile, step by step while both workers poll, and three rounds of execute and join |
| `byte_buffer_tuple` | is a tuple pushed at the front popped there? (finding) | 2 objects |
| `data`, first half | is the buffer a deque of objects? | 3 objects of 5 types, empty ones and nested ones, bytes of 4 values, a size of 1 byte and one of 2; every cut |
| `data`, second half | do the functions mean what they should? | texts of 6 and queries of 4 characters over two letters, a quote and a wildcard: empty, at both ends, twice in a row, overlapping, with two wildcards and parts between; chunks of 2 and blocks of 3: texts that end at, before and behind a boundary, and, as characters are 1 to 3, in what looks like padding; every cut |
| `algorithms_ends` | does a text that matches `q*q` begin and end with `q`, and does the search find it there? (finding) | as `data` |

`RecursiveMutex` is mutually exclusive by its own definition, so
`ImplementsRecursiveMutex` contains `MutualExclusion`, which is proved besides.
The counterexamples of the findings are executions of a handful of steps.

What they show beyond "it holds":

* `socket_io_guard` keeps its promises for requests and callbacks of any kind,
  except when a queue is cleared while its operation is under way. Then a request
  made afterwards starts a second operation, and a handler may find an empty deque
  (`OneOperation`, `EmptyOnlyByClear`). After a failure with requests behind it the
  queue stands still until it is cleared (`NeverIdleWithRequests`).
  A receive callback that sends can wait in a circle with `clear_queues()` or with a send
  callback that receives (`CircularWaitNeedsInversion`).
* A single late answer can make every later attempt on the same socket read the answer to
  the one before it, and fail; `FreshAddress` says that none of them is believed.
* A persistent thread may run once more after `stop_loop()` has returned
  (`OneLateRun`), and a `call()` or `loop()` made on the strength of such a join can
  leave the worker waiting for itself for good (`WaitsForItselfOnlyWhenCrossed`).
* The join of a group says that one worker has run (`GroupJoinedMeansOneRan`); the others may
  have missed the trigger, or run after the join, in the next round (`OneLateRun`).
* `compile()` is defined only if no worker polls while it links its trigger
  (`PolledWhileLinked`): TLC finds executions in which one does, and `NeverBroken` says that
  nothing else uses a trigger that is gone. What the other properties say of a group they say
  of the executions in which this did not happen. No comment, doc or test speaks of
  `compile()`, so that it is not listed as a finding; the constructor has started the workers,
  so that an application cannot avoid it.
* An RSA message that was cut decrypts to the front of the text and misses the last chunk at
  the most (`MissesOneChunkAtMost`), although `rsa_decrypt_in_chunks` does not look at
  the result of `pop_front()`; a stream that is cut between two blocks just ends there
  (`StreamsDecryptToTheFront`).
* An AES message that was cut between two blocks is refused, unless the text in front of the cut
  ends in bytes that look like padding (as few as one byte of value 1): then it decrypts to a
  shorter text without an exception (`PassesIfPadded`; it and
  `MissesOneChunkAtMost` are the two halves of `CutMessagesDecryptToTheFront`).
* `string_can_query` misses no text that matches, though it takes the leftmost place of each
  part and never goes back, and accepts no other one if a wildcard ends the query
  (`LeftmostPlacesAreEnough`); of other queries see the findings.

Each property has a mutant: a plausible bug in a definition (the operators marked
`Bug:` in the modules) under which TLC finds the property violated.

## Fairness

* `mutex`: a thread inside `lock()` or `unlock()` runs when it can, and each lock_guard
  is destroyed. `std::mutex` promises no more than that a free mutex is
  taken by somebody; the number of calls is finite, so that no thread is overtaken
  forever.
* `guard`: threads run, operations of the socket complete while an io thread is free, callbacks
  return. The last two are assumptions on the network and the user. `EveryRequestAnswered`
  excepts what the code does not promise: requests behind a failure or an exception
  (`stalled`), and those of a queue that is cleared. Both liveness properties except
  two threads that wait for each other, which needs a receive callback that sends.
* `transmission`: the socket moves bytes when it can. `EveryMessageArrives` is about
  receives for which a whole message was sent; a failure ends a receive too.
* `authenticate`: the io_context runs. Nothing makes an application begin an attempt or
  close the connection, and no fairness says that a connection is ever lost; so a peer may
  wait forever for one that is in no attempt, since nothing in the code tells it. That,
  two peers that both begin with the other one's seed, and a peer whose earlier attempt has
  taken the seed its present one waits for, is what `EveryAttemptEnds` excepts, and only
  while it stays so (`[]Deserted`): any other wait the protocol itself must end.
* `nat`: the caller's thread runs and the clock goes on. Nothing is asked of the network.
* `thread`: every thread runs (weak fairness), the workers too. A join that polls can miss the gap
  between two runs of a loop forever, so `EveryOperationReturns` asks nothing while the
  thread loops.
* `data` has nothing that must happen.

## Proofs

TLAPS checks every proof to the last leaf.

`CrossThreadMutexProofs`, for any set of threads, with `DepthAssumption` (nesting
does not exceed what the counter counts). `IInv` says who is inside
`m_state_mutex` (`StateHeldInside`), that `m_id` names the holder of `m_mutex` or
nobody (`HolderKnown`, `OwnerIsHolder`), and that the counter is the number of the
owner's nested locks (`CounterCounts`, `Places`). Mutual exclusion alone is not
inductive: a re-entry is safe because only the owner can find its own id. From it
follow `TypeCorrect`, `MutualExclusionHolds`, `ReentryHolds`, `UnlockedHolds`, and
`RefinementHolds`: each step is a step of `RecursiveMutex` or a stutter.

`SocketIoGuardProofs`, for any threads, any numbers of requests and any callbacks.
`IInv` adds to the properties how often each thread holds each mutex (`LocksHeld`: once
for a callback, once for a half-finished `clear_queues()`), that one thread holds it
(`OneHolder`), and that io threads call from callbacks only (`CallsInCallbacks`).
There is a lemma per action, `StepInvariant` puts them together, and
`InvariantHolds`, `OneOperationHolds`, `NeverIdleHolds` and `EmptyOnlyByClearHolds`
follow. `CircularWaitHolds` adds `HoldAndWait`: a thread that waits while
it holds a mutex is in a callback or between the two locks of `clear_queues()`.

`AnswersInOrderHolds` stands on top of that `IInv`. It needs besides that requests are told apart (`NamesOnce`: a queue holds each once, and one that a thread is
about to queue is nowhere else) and that only the front of a queue may have been answered,
from the moment its callback begins until `pop_front()` (`AnsweredInFront`, until the
queue is cleared during its operation). Each step of the guard is then a step of
`RequestQueue`, or none, for each direction.

`MessageProofs` proves `Transmission`, for any values a byte may have, any width of a size
greater than none, any length of a piece and any messages the size can count. What the reader
has of its frame, the bytes on their way and what the writer has left are together the frames
of the messages that are pending; when the writer has failed they are only the beginning of
those frames (`Way`, in `OnItsWay`). The rest of `IInv` says that an operation under way has
something left to do (`Sending`, `Receiving`), that no more is begun and sent than the bound
(`Counts`), that an end which was cut does nothing until it is used again (`CutsEnd`), and
that the receives are behind the sends (`Behind`). `Framing` needs that a size that is
complete is the length of the first pending message. This is `SizeComesBack`:
`deserialize(serialize(n)) = n` for every `n` that the bytes can count, by induction over
the digits.

It also proves `ByteBuffer`, for any values of the five types that `ValuesAssumption` allows
(elements that the sizes can count), any number of them, any mix of pushes and pops and a cut
at any byte, if no tuple is pushed at the front. Each object has one way to be written down,
for both ends (`WrittenAs`): a push puts that at an end (`ObjectPushed`), a pop takes it off
and gives the object (`ObjectPopped`), and a pop of a part of it fails (`ObjectMissed`). The
loops are proved first, by induction over their turns, for the elements of any type that is
itself pushed and popped so (`PushLoop`, `ListPopped`, `ListMissed`), then for bytes, and
with that for vectors of vectors; what a push does with the order of a loop at one end, the
pop at either end undoes. `BodyHoldsItems` is inductive but for a buffer that was cut, of
which it says nothing: `Remains` adds that the body is then the objects that lie whole and
the beginning, never all, of the one that the cut went through (`WholeInIs`, `CutThrough`).
So the pop that comes to it fails, and `BodyHoldsItemsHolds` and `ImplementsTypedDequeHolds`
follow: each step is one of `TypedDeque`. `FrontGivesWhatItWasGivenHolds` states for the other
types what `byte_buffer_tuple` finds violated for tuples.

`Induction` does that induction. The library's `NatInduction` takes an operator;
`SetInduction` states it for a set, from the least element that `WFMin` finds outside
of it. `Recursion` (a function defined by recursion exists and obeys its definition) and the
lemmas about `FlattenSeq` follow. `Power`, `deserialize` and the loops of `Encoding` are
recursive functions so that they can be used.

`AsyncAuthenticateProofs`, for any attempts, seeds, sizes and orders of the two peers and a
connection that may be lost at any step. A peer in an attempt has the one request of the half
it is in (`RequestOf`), from which `OneStepAtATimeHolds` follows. `Knows` is what it has
learnt when it has done one half, and both; `AnswersAreSigned` is what a message on its way
proves. `AuthenticHolds` needs besides that what a peer signs is a seed of its remote, which
is not evident: the answer to a seed begins with that seed, `async_recv_seed()` would sign
it, and the stream keeps what earlier attempts left. But a message more than is read is
written only while its writer waits for the answer to its seed (`InStep`), and the seed is
the last thing it wrote (`SeedIsLast`). So a peer that waits for a seed finds the one of
the remote's present attempt (`SeedsAreFreshHolds`). That nobody else can make a signature is
in the model and not proved.

`NatProbeProofs`, for any numbers of trials, attempts, datagrams and remappings. A
datagram never has random data that was not drawn yet, and a response to the present
question tells a mapping since the attempt began (`Known`, for the network, the socket and
the buffer): `FreshAddressHolds`. For the vote, `Phases` says where in the call each
variable is what it should be, `DrawsCounted` that random data is drawn no more often than
the bounds allow, and `VotesCounted` that without a symmetric NAT each vote for it needs a
remapping of its own, as endpoints are stored in the order of their mappings:
`MajorityDecidesHolds`.

`PersistentThreadProofs`, for any threads of the application, any workers and any number of
operations. What a thread has still to do is a chain: a sequence of statements of which each
may follow the one before and the last may be the last (`Chain`). The operations are chains
(for the loops over the elements of a group by induction over their number), and a step
leaves a chain; so the invariants speak of the next statement (`Place`) and of the names
that are still to come. `IInv` has two halves.
`Solo` is that of one thread. While nobody has looped and no two threads called at once
(`Orderly`), a thread that is between the two reads of its wait has seen the trigger cleared,
`m_executing` is set from before the trigger is cleared until the run has ended (`Marked`),
and so a join that ends has seen the worker at rest. In any case a worker that waits for
itself was triggered by somebody when it was busy (`Untriggered`), and after a stop the runs
that have begun and those that are decided are one at the most (`Stopped`).
`Grouped` is that of a group. As one trigger serves all, a join can only be sure of one
worker: there is always one that cleared the trigger, or had begun a run before, and that
every join under way has still to look at or has found done (`OneRuns`). This is why the
invariant speaks of the rest of the list that a join is working on. Since that worker has
begun already, the others that have decided to run are fewer than all (`GroupStopped`). That no
trigger is used while it is gone needs that each trigger is gone only inside the `link()` of
its own worker (`Linked`), and that only a worker that polls may come upon it there: a worker
runs, and a group is executed and joined, only when `compile()` has returned (`Ready`, in
`CompiledFirst`). It follows that `NoCallLostHolds`, `NeverBrokenHolds`,
`OneLateRunHolds`, `WaitsForItselfOnlyWhenCrossedHolds`, `JoinedMeansDoneHolds` and
`GroupJoinedMeansOneRanHolds`. That every operation returns is liveness and model-checked.

`PtrProofs`, for any objects with acyclic ownership (`OwnershipAssumption`), any threads and
any operations of a disciplined application. That the map and the ptrs agree is true between
two operations; within one it is not, and as an invariant it would not be inductive: the
destructor of a member may delete the next object, and that one's members again, while the
first object is still to be freed. So `IInv` is about the stack of tasks, to any depth.
`StackOrder` says that a task below another one is about ptrs and objects that lie higher in
the order of ownership (by the `Rank` that the assumption gives), so that a cascade never
comes back to what is being deleted. What is doomed has no owner in the map and one ptr left,
the one that the `clear` next on the stack is about (`LastPointer`, `StackAdjacent`); the
members of an object are reset before it is freed (`StackResets`); what was allocated is
owned, doomed or about to be linked, by one call only (`NothingLeaks`, `FreshOnce`). A ptr joins
only owners of something that is alive: what a task or a waiting call will link to has an
owner that no task on the stack makes leave (`Anchored`, `CallsReady`). This
is where the discipline is needed, and where `p = p->next` fails. The loops of `group_link` and
`group_unlink` count on as many members as the group had when they began while each turn
takes one away; `Turn` and `LoopsAgree` say that the index stays inside what is left.
There is a lemma per action, and `InductiveInvariant` puts them together. From it follow
`GroupsAreOwnersHolds`, `OwnedExactlyWhileAliveHolds`, `NeverBrokenHolds`,
`CopiesStayValidHolds`, `DeletedByLastOwnerHolds` and `LinksToLiveResourceHolds`; the last
states for a disciplined application the property that `ptr_next` finds violated without the
discipline. Of the two applications of the run `ptr`, the theorems are about the first, and about the
second without its `group_copy`, which is model-checked only.

Model-checked only: liveness and what needs `ENABLED` (out of the prover's reach); and what the
functions of `StringExtensions`, `VectorExtensions` and `Chunks` compute, on all
short inputs: they are folds over sequences, for which the induction is yet to be done.

## Findings

* `ptr.h:32`: `link()` leaves the old group before it joins the new one. In
  `p = p->next`, when `p` owns the node alone, the next node is deleted first and
  `p` becomes an owner of freed memory (`ptr_next`).
* `rsa.cpp:321`: `rsa_try_verify()` returns no value when the verification succeeds;
  honest peers may be told that authentication failed (`authenticate_honest`).
* `byte_buffer.h:211`: `push_front()` of a tuple pushes its second part and then its first to
  the back, under the comment "ALWAYS PUSH TUPLE IN FRONT-FACING ORDER"
  (`byte_buffer_tuple`).
* `string_extensions.cpp:131`: `string_find_all()`, which "finds all locations of a query
  string", skips those that overlap one it has found; and
* `string_extensions.cpp:170`: `string_can_query()`, which determines "if a string (a_query)
  matches another string (a_data)", compares the last part of the query with the end of the
  data wherever the part before it was found (both `algorithms_ends`: `aaa` matches `aa*aa`,
  and the second `aa` is not among the locations).

Comments that say more than the code does, met while modelling, with no run of their own:

* a query without a wildcard has to match the end of the data only (`b` for `ab`), by the
  comparison that the finding about `string_can_query()` is about;
* `string_find_all()` does not return for an empty query, which is found at the same offset in
  every turn;
* the functions of `rsa.h` that try, "(success returns true)", return false for an empty
  result, so that an empty message decrypts successfully to false.

`LeftmostPlacesAreEnough`, `ListsTheLocations` and `CutMessagesDecryptToTheFront` say nothing of
these cases, in which code and comment differ.

`erase_duplicates(a_vec, a_match)` compares with `==` and does not call `a_match`; nothing
says what `a_match` is for, so that this is not a finding, and what `VectorsKeepTheirValues` says of
`erase_duplicates` is about a match that is equality.

Hazards that no comment, doc or test speaks about are not findings; they are
the conditions in the properties above and the list in `PROJECT.json`.

## Limits

* Bools without a lock (`persistent_thread`) and `m_id` are read and written in
  one step each, in program order: what an unoptimised x86 build does. A build
  that keeps a flag in a register may wait forever.
* `transmission` assumes messages shorter than 2^32 bytes, `cross_thread_mutex`
  fewer than 2^16 nested locks, `ptr` acyclic ownership (an object that owns itself through
  others is never deleted). Each is an ASSUME
  or a constant with a comment.
* A function of a `persistent_thread` that is replaced without a join, or by two threads at
  once, is outside the runs: nothing is promised then (see the hazards). So is a group whose
  elements are used one by one, or that is compiled again.
* Likewise in `ptr` nobody assigns to the ptr that another thread copies from: then the
  resource may go between the read of `m_raw` and `link()`, and nothing is promised.
* An AES block that is decrypted behind another one than it was encrypted behind gives arbitrary
  bytes; `Chunks` takes them for bytes that do not end as padding does. No cut puts a block there.
* The loops of `byte_buffer.h` count in an `int`, and a vector's size is narrowed to 32 bits:
  `byte_buffer` and its theorems are about lists that both can count (`ValuesAssumption`).
* Pops into an object of another type than what lies there are not modelled: the bytes do not
  say what they are, and a size that is read out of them may be anything.
* The lifetime of an `async_authenticate` object is modelled up to its answer: no
  request is left then. An object destroyed earlier leaves callbacks that use it.
* The returners that `nat.cpp` asks are not in the repository. Its
  `RETURNER_RESPONSE_SIZE` of 551 is what a challenge, an endpoint and a signature of 4096
  bits take with one size per vector (4+25+4+2+4+512); `byte_buffer` now stores two. `NatProbe`
  takes a response to be as long as the code expects it.

Not modelled:

* `ts_deque`: every operation is one operation of a `std::deque` in one critical section, so that
  a model would be a deque by construction; nothing in the library uses it. What can go wrong is
  the caller's: `size()` then `pop_front()`, or `get()` without `unlock()`.
* `rolling_buffer`, `builder`, `watch`: one assignment each, sequential, not used by the library.
  `builder` writes past its buffer when it is full; its caller has to look at `ready()`.
* `guarded_resource` on its own: a lock_guard and a pointer, seen as the lock of `ptr`.
* Key generation, key files, hashing, the arithmetic of initialization vectors (calls of
  Crypto++), `cast` and `to_string` (formatting), files, timing, logging and the .NET wrapper.
