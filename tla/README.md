# A verification of hitycho

hitycho is a header-only C++17 library over HPX: channels between threads (`pipeline`),
fixed-size "lock free" containers (`atomic`), synchronisation scopes (`sync`), protected
objects (`locking`), timers, and a layer of parsing, encoding, network and system
helpers.  This directory holds TLA+ models of the parts that have state worth reasoning
about, the TLC configurations that check them, and proofs that TLAPS checks.
`PROJECT.json` lists the runs, the mapping from each definition to the lines it models,
the hazards and the findings.

To check a run: `tlc -config <run>.cfg <module>`; to check the proofs: `tlapm
PipelineProofs.tla`, and so for the other modules whose name ends in `Proofs`.

## 1. The system's parts

| Part (source) | State | Operations | What is hard | What makes it correct |
|---|---|---|---|---|
| `pipeline`, `drop_pipeline`, `throw_pipeline` (pipeline.hpp) | ring of S slots, `head_`, `tail_`, `count_`, atomic `closed_`, one mutex, two condition variables | push, pull, drop, drop_if, clear, close | `closed_` is written and both condition variables notified without the mutex; one notification per empty/full transition; drop on overflow | a bounded FIFO; no thread waits for what is there; a close ends once and leaves nothing |
| `notify_pipeline` (pipeline.hpp) over `notify_t` (system.hpp) | the above, and an eventfd or a pipe | signal, clear, wait, release | threads poll the descriptor without the mutex; every error closes it; only push and pull touch it | an item in the ring is always announced; the descriptor survives normal use |
| `stack_t`, `buffer_t` (atomic.hpp) | array, one counter or two indices, all atomic | push, pull, pop | counter and slot are two steps; the index tests | a put stays inside the array and is undone exactly; an item comes out once (it does not) |
| `dictionary_t` (atomic.hpp) | S bucket lists of atomic pointers, a counter | insert, emplace, insert_or_assign, try_emplace, find, contains, at, remove, clear, keys, each | compare-and-swap insertion beside plain-store removal; look-up and insertion are two steps | no insertion is lost; the counter agrees with the lists; no freed node is reached |
| `sequence_t`, `once_t`, `atomic_ref` (atomic.hpp) | one atomic each | fetch-and-add, exchange, store | wrap-around | each value handed out once per round |
| `wait_group`, `group_scope` (sync.hpp) | counter, mutex, condition variable; a pointer per scope | add, release, wait, wait_for, wait_until; move and destruction of a scope | woken waiters test again; timeouts race the last release | a waiter passes only at 0, and passes when it stays 0; a scope releases once |
| `event`, `barrier_scope`, `semaphore_scope` (sync.hpp) | an HPX semaphore or barrier; flags of each scope | wait, signal, drop, moves | moves between scopes | each scope arrives or releases once |
| `exclusive`, `shared`, `exclusive_ptr`, `exclusive_guard`, `reader_ptr`, `writer_ptr` (locking.hpp) | object and mutex; a pointer and an ownership flag per smart pointer | construct, move, destroy, dereference, the base's `unlock()` | ownership of the lock and of the pointer are separate | an object is reached only under its lock; threads do not all wait for each other |
| `once`, `periodic`, `cancel_guard` (timer.hpp) | a shared cancel flag per timer or group; the worker's next deadline | start, cancel, callback | cancel between the test and the callback; slow callbacks | after a cancel one callback more at most; deadlines do not drift |
| `handle_t` (system.hpp), `service` (resolver.hpp), `networks` (networks.hpp) | a descriptor or a list that the system lends | make, assign, move, release, clone, close | numbers are given again once they are closed; lists compare by value | each is closed once, and by its owner |
| `scan::*`, `parse_*` (scan.hpp) | none | pure functions over text | 64-bit wrap, narrowing | the result is the number written, or an exception |
| `strings::*` (strings.hpp) | none | split, join, tokenize, strip, unquote, comparisons | `npos` and counts below zero | join undoes split; no character of a text is lost or doubled |
| `byte_array`, hex and base64 (binary.hpp) | a byte vector | encode, decode, slices, views, changes | padding, the short last block, a sum that wraps | decoding undoes encoding; a view is what its bounds name |
| `memorybuf` and its streams (buffer.hpp) | four pointers into a memory, a size | get, getview, getbody, put, c_str | mixed calls, the ends of the memory | what is read is the memory in order; what is written is the text |
| `socket::address` (sockets.hpp) | a `sockaddr_storage` | assign from sockaddr, addrinfo, text, copy; port, family | a short address over a long one | comparison, hash and text follow the last address given |
| process helpers, look-ups, multicast, finalize, fsys, print, common, expected | at most a wrapped system object | system calls, formatting | - | - |

The parts interact through calls only: `notify_pipeline` overrides the hook `notify()`
that `pipeline` calls inside its critical sections, and owns a `notify_t`; `group_scope`
calls `wait_group::release`; the smart pointers of `locking` own the mutex of the object
they were made from; a `barrier_scope` and a `semaphore_scope` call the HPX object they
point to; `make_socket` gives a `handle_t` the `socket::release` that closes it;
`format_buffer` is a stream over the `memorybuf` it owns; a `periodic` worker shares its
cancel flag with the `cancel_guard`s and tokens of its callers. Nothing is persisted and
nothing is sent over a network by the library itself, so crashes, restarts and lost
messages do not arise; what is hard is the interleaving of threads, long sequences of
moves and assignments between objects that own something, and arithmetic at the ends of
its range.

## 2. Modules

| Module | Models |
|---|---|
| `Channel` | what a pipeline promises: a bounded FIFO with sends, receives, discards, flushes and a two-phase close |
| `Pipeline` | `pipeline` and its two overflow subclasses, thread by thread |
| `PipelineProofs` | theorems of `Pipeline` and `NotifyPipeline` |
| `NotifyPipeline` | `notify_pipeline` with `notify_t`, composed with `Pipeline` |
| `Dictionary` | `dictionary_t`: lists of nodes behind atomic pointers, one step per atomic access |
| `WaitGroup` | `wait_group` and `group_scope` |
| `Timer` | one-shot and periodic timers, cancel tokens and guards |
| `TimerProofs` | theorems of `Timer` |
| `BarrierScope` | `barrier_scope` over an `hpx::barrier` |
| `Semaphores` | `semaphore_scope` and `event` over HPX's semaphores |
| `ScopesProofs` | theorems of `WaitGroup`, `BarrierScope` and `Semaphores` |
| `ReadersWriters` | what `locking` promises: threads that read and write objects, without pointers or moves |
| `Locking` | protected objects and the smart pointers that lock them |
| `Handles` | owners of descriptors and of lists: `handle_t`, `service`, `networks` |
| `OwnershipProofs` | theorems of `Locking` and `Handles` |
| `Containers` | `stack_t` and `buffer_t`, one step per access to a counter, an index or a slot |
| `AtomicProofs` | theorems of `Dictionary` and `Containers` |
| `Scan` | the scanners and parsers |
| `Strings` | the string operations |
| `Binary` | `byte_array` and the codecs |
| `MemoryBuf` | `memorybuf` and the streams over it |
| `Address` | `socket::address` |
| `DataProofs` | theorems of `Binary`, `MemoryBuf` and `Address` |
| `TextProofs` | theorems of `Strings` and `Scan` |
| `SequenceProofs` | lemmas on numbers, sequences and rows for `DataProofs`, `TextProofs` and `OwnershipProofs` |
| `MCPipeline`, `MCNotifyPipeline`, `MCDictionary`, `MCTimer`, `MCContainers` | model values, small sets and symmetry for TLC |
| `MCScopes` | one run for `WaitGroup`, `BarrierScope`, `Semaphores`, `Locking` and `Handles` |
| `MCData` | one run for `Dictionary`, `Containers`, `Scan`, `Strings`, `Binary`, `MemoryBuf` and `Address` |

The classes in `MCScopes` know nothing of each other, and so do those in `MCData`.  The
initial state of such a run picks a `subject`; only the subject moves and the others
stay as they began.  Every behaviour of each class is explored as it would be in a run
of its own, and the state spaces add up instead of multiplying.

### Pipeline

Each variable is a member of the class, with two exceptions: `kind` says which
subclass's `full()` is called, and `pc`/`val` are each thread's place in its call and
its argument or result.  `input` and `output` are the sets of threads asleep on the two
condition variables.

A critical section is one action where nobody can observe or disturb its middle.
Everything under `lock_` is invisible to others except two things: the atomic `closed_`,
which `close()` sets without the lock, and the wait queues, which `close()` notifies
without the lock.  So the model splits a push or a pull into the read of `closed_` and
the predicate (`PushRoom`, `PushFull`, `PushRefused`, `PullItem`, `PullEmpty`,
`PullRefused`), the wait itself (`PushSleep`, `PullSleep`), the eviction of
`drop_pipeline` followed by a second read of `closed_` (`PushEvict`), and the change to
the ring (`PushStore`, `PullTake`); between them the thread holds the lock, and
`close()` may take any of its own steps.  `close()` is four steps: the exchange, one
`notify_all` for each condition variable, and `clear()`.  `drop`, `drop_if` and `clear`
read nothing that can change under them and are one action each.  Spurious wake-ups are
an action of their own.  The HPX mutex and condition variables are not in the
repository; they are modelled by their contract.

`Pipeline` also has the properties and the inductive invariant `IInv`.

### NotifyPipeline

`NotifyStore` and `NotifyTake` are the two steps of `Pipeline` that call `notify()`,
joined with what `notify_t` does; `Silent` is every other step and leaves the descriptor
alone, as the code does.  `backend` chooses the build: the counter of an eventfd is read
as a whole, so only "zero or not" matters and `pending` is 0 or 1; in a pipe it is the
number of bytes.  Any failure of `read`, `write` or `poll` closes the handle
(`Release`), and so does a `read` that finds nothing, a `write` that finds the pipe
full, or a `poll` that is interrupted.

### Dictionary

Nodes are taken from a finite memory `Nodes`, freed and taken again; `new` throws when
there are none.  Every load, store and compare-and-swap of a shared pointer or of the
counter is a step of its own, and so is every `delete`; what a thread does to a node
that no other thread can see is joined with the step before.  `my[t]` holds the local
variables of a call, and one piece of history: `had`, whether the key was in the
dictionary when the call began.  Values are left out: they are only returned.

`remove()` and `clear()` are not safe beside anything else: they unlink with plain
stores of pointers read before, and free at once.  The constant `Alone` says which
operations the callers keep apart from all others.  With `remove` and `clear` alone,
everything else may race and all properties hold; with `Alone` empty, `NothingLost`
fails.  A thread that would follow a pointer into a freed node takes no further step,
since what it does is undefined.

`try_emplace()` moves its key away before it looks for it.  The constant `Moved` says
what is left of a key: itself for an `int`, nothing for a string.

### WaitGroup

All of `wait_group` happens under its mutex, the queueing of sleepers and `notify_all()`
included, so each critical section is one action and the mutex does not appear. A
`wait_for` or `wait_until` has a deadline that was fixed when it was called: `Expire`
may come at any time, after which the thread does not sleep again but answers from the
count.  The callers' side of the contract is in the guards: a scope stands for a unit
that was added (`spare` counts units no scope has taken), `release()` may come once too
often only at 0, the units stay below 2^w, and the destructor runs while nobody else is
inside a wait. Tasks that have a unit may add more while the destructor waits.

### Timer

A timer is a thread; `pc` is its place in `timeout_worker` or `interval_worker`, and
each load of the flag, each wake-up, each callback's beginning and end is a step.  Time
is kept relative: `due[t]` is `next - now()`, and `Tick` takes one from every deadline.
The flag is an atomic, read relaxed: a thread may read it late, which is the same as
reading it before the cancel. `hold` says which token each token variable or
`cancel_guard` has; `Cancel` is `release_token()` or the destructor of a guard, `Move` a
move of a guard or the making of one from a token, `Copy` a copy of a token.  `late`,
`overdue` and `elapsed` are history: callbacks begun after the cancel, whether the
deadline was past then, and the time since the start modulo the interval.

### BarrierScope

A scope is the set of those of `null`, `dropped` and `waited` that hold of its three
members (`barrier_` null, `dropped_`, `waited_`), or it is outside its lifetime.
`Armed` is the condition that `drop()`, `wait()` and the destructor share.  The barrier
is two counters, as in C++20: `expected`, from which a party that drops out takes one,
and `pending`, which an arrival takes one from and the last one resets.  Callers make
one scope per phase while they take part; the scope may be moved to, or assigned over,
any other of the same thread.

### Semaphores

A `semaphore_scope` variable is outside its lifetime, waits in the constructor for a
permit, has one, or was moved from.  An `event` is a handle on one shared semaphore, so
its copies do not appear, and its waits are `Listen` and then `Hear` or, for the timed
ones, `TimeOut`, which finds no signal.  The semaphore is binary, and its contract ends
at 1; `signal()` does not look, so what becomes of a signal that comes before the last
one was heard is left open: it is counted or dropped.  `EnoughPermits` says that the
threads which use the semaphore cannot all be waiting while they hold all the permits
between them: a program that breaks it can deadlock whatever the class does.  It is a
condition of `PermitServed` only; `PermitInv` holds for any number of permits.

### Locking

A smart pointer is its base class, a `std::unique_lock` or `std::shared_lock` (`device`,
`owns`), and `ptr_` (`ptr`).  The two part ways when a caller uses `unlock()` or
`lock()` of the public base class: `bare` remembers such pointers, and the callers'
contract is not to reach the object through them. `inUse` holds the pointers whose
object an expression is just reaching.  `Construct` and `Relock` start to wait, `Locked`
gets the mutex when `Admits` allows.  Threads lock objects in one order, as callers must
who hold several.  `Take` is what `std::exchange` and the move of the base class do
together.  `ImplementsReadersWriters` looks at threads where `LockInv` looks at pointers:
`LockReaders` and `LockWriters` are the threads whose pointers keep an object,
`LockInside` those that reach it.

### Handles

An owner has a number, or `Empty`.  The system lends any number that is free, one it has
just got back among them; `loan` and `system` tell one use of a number from the next,
which no program can see.  `loose` are the loans whose number the caller keeps as an
`int`, after `release()` or `clone()`. `Close` of an owner whose number is no longer its
own would take somebody else's away: this is what `OwnedOnce` forbids.  The callers'
contract is in the guard of `Assign`: a number given to an owner is one of the caller's
own.

### Containers

`read` and `limit` are the local variables that hold what a call has loaded; `at` is the
step it takes next.  `count_ >= S` compares an `int` with a `size_t`, so that a negative
count is refused as a large one (`Refused`, with `Width` for 2^64).  A pull of the stack
reads `data_[count]`, the slot above the top, and past the array when it is full: `Slot`
answers 0 there, which is nobody's item.

### Scan, Strings

Texts grow by one character a step, and every text is given to every operation: the
invariants are statements over all short texts. An operator stands for a function of the
same name. `std::string_view` is modelled by its contract (`find_first_of` and its
neighbours), and the first position is 1. Which letters have a small one is a parameter
(`SmallOf`, from capitals to small letters, no two to one): the run takes two, the
theorems any alphabet.  `split()` and `tokenize()` are loops: a turn is an operator
(`SplitStep`, `TokensStep`) from one state of the local variables to the next, and the
loop is a function of the number of turns. In `Scan` the widths are parameters: `Big` for
2^64, `Small` for 2^32, `HexDigits` for 8, with the relations between them that the code
relies on as assumptions; doubles are pairs of a mantissa and a decimal exponent. The
properties say which number each parser answers, including where this is not the number
written: `parse_unsigned<uint64_t>` wraps, `parse_integer<uint64_t>` throws for every
text since its bound becomes -1, gigabytes are cut to an `unsigned`, and
`parse_hex<uint64_t>` reads no digit.

### Binary, MemoryBuf, Address

In `Binary` an array is a sequence of bytes; a character of an encoded text is its place
in the alphabet. A block of four characters is one number (`BlockNumber`), as the code
builds it: a pad counts as six zero bits wherever it stands, and each pad takes one of
the three bytes away (`PadsOf`).  Of the three parts of
`BinaryInv`, `EncodedBack` says that decoding undoes encoding, that a text which is cut
inside a block or pair of characters is refused whole and one which is cut between them
decodes to the bytes before the cut, and what a foreign character does; `PadsLose` what
a pad in the middle of a block costs, `ViewsAgree` that slices and views are what their
ends name.

In `MemoryBuf` pointers are offsets, and the null pointer is an offset far below the
memory, so that `size()` of an empty input comes out as the code computes it. `taken` is
history, every character that a call answered or skipped, one after another; `viewed` is
history, the views with the delimiter each was to end at.  The delimiter is an argument
of `getview()` (`Delimiters`); the empty one is found where the reader stands.

In `Address` the storage is seven cells: an address of a family overwrites as many as
the family has, and what a longer one left stays behind.  The flow and the scope of a
`sockaddr_in6` are cells that are compared and hashed like the others and that no text
tells of, so that a text without a port makes an equal address again exactly where both
are 0 (`TextWhole`).  `meant` is history, the address last given, against which every
answer is compared.

### What-if definitions

A definition whose name names a slip (`PopHeadUncleared`, `PushStoreLateNotify`,
`CloseNotExchanged`, `NotifyTakeAlways`, ...) is not part of any specification.  It is
the definition that follows it with one plausible mistake; the `mutants` of
`PROJECT.json` pair each with the property that is violated when it takes the original's
place.

## 3. Runs

| Run | Instance | Shows |
|---|---|---|
| `pipeline_mpmc` | 2 producers, 2 consumers, a manager, 2 closers, ring of 2, 2 items, all three classes, symmetry | ring, sections and close are right, somebody is always awake, and the whole implements `Channel` |
| `pipeline_spsc` | 1 producer, 1 consumer, a manager, 2 closers, same ring, with fairness | one thread on each side never waits for what is there, is served, and a close ends |
| `pipeline_stranded` | as mpmc, base class | violation: several consumers, one asleep beside an item |
| `pipeline_close_strands` | 1 + 1 threads and a closer | violation: a thread sleeps through `close()` |
| `notify_pipeline` | 2 producers, 2 consumers, a manager, a closer, both builds, pipe of 3 bytes read 2 at a time | an item is always announced; the handle survives normal use |
| `notify_stale` | the same with 1 consumer | violation: the handle is readable with nothing to pull |
| `dictionary_loses` | 2 threads, nothing alone | violation: `remove()` unlinks another thread's new node |
| `dictionary_twice` | 2 threads, one call at a time, keys that a move empties | violation: `try_emplace()` adds a key that is there |
| `timer` | 2 timers, 2 tokens, 2 holders, interval 2, up to 2 late, with fairness | one callback at most after a cancel, no drift, every timer goes on until it is cancelled |
| `scopes` | a wait group with 2 waiters of which one destroys it and 2 scopes, a barrier of 3 parties with 4 scopes, 4 semaphore scopes of 2 threads with 3 permits, 2 signals, 6 smart pointers of 2 threads on an exclusive and a shared object, 2 handles and 2 lists with 2 numbers each; with fairness | each scope gives back once what it took, whichever way it is moved, assigned and ended; threads read and write objects as with locks of their own and never all wait for each other; who waits is served |
| `data` | a dictionary with 2 threads, 3 keys and 3 nodes, `remove` and `clear` alone; a stack or buffer of 3 with 2 threads; texts of up to 4 and 5 characters; arrays of up to 4 bytes; memories of up to 5 characters; 2 addresses | lists stay well formed, nothing is lost, look-ups miss nothing; puts stay inside the array; parsers, codecs, buffers and addresses answer what a reference definition does |
| `buffer_repeats` | a buffer of 3, 2 threads | violation: the same item is pulled again |

**Bounds and why they are enough.** A ring of 2 is the least in which "empty", "partly
filled" and "full" all differ, so that both notification conditions (`count_ == 0`
before a push, `count_ == S` before a pull) can be true or false, and the indices wrap
after two operations. Two producers and two consumers are the least at which
`notify_one` has a choice; two closers are the least at which the exchange of `closed_`
matters. Two items tell the order of the queue apart. A pipe of 3 bytes read 2 at a time
stands for 65536 read 64 at a time: it can be filled, and a read can leave bytes behind.
In the dictionary two keys in one list make a look-up pass over a node that is not its
own, and three nodes give that list a first, a middle and a last, freed and taken again;
the second list makes `clear()` go on to it; and of two threads one can insert twice
under the other's look-up, or both at once; `SizeMod` 4 is above the number of nodes and
stands for 2^64. In the wait group two waiters show the difference between waking one
and all; two scopes are what a move needs; counts up to 3 allow both scopes and a task
without one. At the barrier three parties let two wait while the third drops out, and a
fourth slot gives one of them something to move to and assign over. Each user of the
semaphore has two scopes, so that it may wait while it holds a permit, and three permits
are the fewest with which one of them can always go on (`EnoughPermits`). Of the pointers two are of one class
and one thread, for moves; the classes that read and write meet at the shared object.
Four loans let a number come back to another owner while the first might still have it.
The stack and buffer of 3 are the smallest their `static_assert` allows; four puts
overfill them, and two takes find a stack empty and make the buffer repeat. Texts of
four characters hold a prefix and two digits, a digit that exceeds every bound, or a
number with a point and an exponent; `Big` = 2048 and `Small` = 128 wrap with four and
three digits. Texts of five hold two quoted tokens or two delimiters around one; the
characters cover each branch of the operations that a property is about. Four bytes are
one base64 block and a short one; the byte values cover 0, a sign bit and all ones. A
memory of four or five holds two delimiters, or one that is broken by another. Two
addresses, each of every family in turn, are what comparison and copying need. Two
timers and two tokens allow a group and a timer outside it; two holders are what a move
needs. An interval of 2 tells a deadline from its neighbours, and `MaxLag` 2 lets a
timer fall a whole interval behind: time waits for it there, which bounds how slow a
callback may be and not what it does. `MaxLoans`, `MaxSignals`, `MaxPuts`, `MaxTakes`
and `MaxPastEnd` end counts that nothing else ends. No other counter grows, and the
state spaces are finite and complete. The proofs then remove the bounds.

**Deadlock** is checked in the passing runs, where a manager can always take a step, or
a call can begin; what it would mean for one thread is the business of the liveness
properties and of `NoStrandedConsumer` and `NoStrandedProducer`.  `scopes` and `data`
turn the check off: when the group has been destroyed, all have left the barrier, the
loans are used up or a text has its full length, nothing is left to do.

**Fairness.**  `pipeline_spsc` uses `FairSpec`: strong fairness of each thread's steps
inside a push, pull or close.  HPX runs every runnable thread, and `hpx::mutex` queues
the threads that wait for it and hands it over, so a thread that finds the mutex free
again and again gets it; this is what strong fairness says.  No fairness is given to
starting calls, to the manager or to spurious wake-ups: a thread that nobody notifies
may sleep for ever.  `scopes` has three parts.  `WGFairness`: weak fairness of each
waiter's own steps, which stay possible until they are taken, and of its deadline; no
task has to end.  `BarrierFairness`: each thread's scopes end, and a thread that takes
part enters the next phase in the end, though it may move spent scopes about first,
which is why entering has strong fairness; a program whose threads stop coming leaves
the others at the barrier, whatever the class does. `SemaphoresFairness`: a thread that
is not waiting gives permits back, and a semaphore that is free again and again serves
everyone who waits, since HPX queues them.  Nothing is assumed of moves and assignments.
`timer` uses `TimerFairSpec`: weak fairness of each timer's thread, whose callbacks are
taken to return, and of time.  Nobody has to cancel.

## 4. Proofs

`PipelineProofs` proves of `Spec`, for any number of threads in each role, any S >= 1
and any set of items, under `PipelineAssumption` (an item is not the empty value, nobody
is both producer and consumer):

- `TypeCorrect`, `RingCorrect`, `SectionsCorrect`, `CloseCorrect`, `NeverAllAsleep`: the
  invariants of `pipeline_mpmc`;
- `SingleConsumerServed`, `SingleProducerServed`: with one thread on a side, the
  properties that fail with several;
- `Refinement`: `Spec => ImplementsChannel`.

The inductive invariant is `IInv`, six named parts.  `SomeoneAwake` is the one that says
something about notification; that it survives `PullSleep` needs `SectionInv` (the ring
is still empty when the thread goes to sleep), that it survives `PushStore` needs
`CallInv` (only consumers are on `output_`), and `NotifyOne` needs `Producers` and
`Consumers` to be disjoint.  `CloseInv` holds because the last step of a close takes the
lock: whoever read `closed_` as false still holds it, by `SectionInv`, so `CloseClear`
waits for them.  `RingInv` carries the wrap-around: `tail_` is `count_` slots after
`head_`, and exactly those slots hold items; its proof rests on lemmas about `%`
(`LapValue`, `LapInjective`, `LapSurjective` and their neighbours), which take care that
no two of the S positions share a slot.

The refinement maps the queue of `Channel` to the `count_` slots from `head_`
(`Contents`), its phase to `closed_` and whether a thread is inside `close()` (`Phase`),
and what a receiver got to the variable of the puller.  A store appends because the slot
it writes is `Slot(count)`; a take, a drop and an eviction take the head; the rest are
stutters, flushes or phase changes.

For `NotifyPipeline` it first proves `NotifyIsPipeline` (`NotifySpec => Spec`), which
brings all the theorems above along, then `ItemsAlwaysAnnounced` from the invariant
itself and `HandleLostOnlyToErrors` from both: a pull that empties the ring finds `count
> 0` before it, hence a readable handle, hence its read cannot fail.

`AtomicProofs` proves `ListsInv`, `NothingLost`, `LookupInv` and `CountInv` of the
dictionary for any number of threads, keys, nodes and lists, under
`DictionaryAssumption` (the nodes are fewer than `SizeMod`, which stands for 2^64) and
the condition `RemoversAlone` that the models already turn on: where `remove` and
`clear` are called, they are called alone.  Without it the theorems are false, as
`dictionary_loses` shows. What a pointer reaches is the least set that has the pointer
and is closed under `next` (`Reached`), so that a fact about a whole list needs no
induction along it: one names the set of nodes that have the fact and shows it closed
(`ReachedLeast`).  The lemmas on lists follow in this way: one that ends never comes
back to a node (`NoReturn`), its nodes are in one order (`ReachedInOrder`), nothing
changes for a pointer that does not reach what is written (`ReachedKept`), and a node
is taken out of it by going past it (`ReachedPast`).  The invariant `DictIInv` adds to
the four properties `ShapeInv`: what each thread holds. A node being linked or freed is
in no list (`HeldInv`); a walk is in its list and has what it looks for still before it
(`WalkInv`), and `remove()` has the node before the one it looks at (`BehindInv`);
`clear()` has the list that it frees for itself (`SweepInv`); no two threads link one
node (`PairInv`).  Each action is a lemma, and `CountInv` counts beside the linked nodes
those that are in a list but not yet in the counter.

It also proves `StoresInBounds` of the stack and the buffer, for any size above 2 and any number of
callers.  A push and a pull of the stack may each have stepped the counter and be about
to step it back, so that the counter alone says little: `StackInv` says what it is, the
puts let in less the takes let in, with those that will turn back added or taken away,
and that what is let in stays within `Size` and a caller each. That a refused call
cannot be let in by a counter that came round needs `Width > Size + 2 *
Cardinality(Callers)`, which 2^64 is for any array and any number of threads.

`ScopesProofs` proves the safety properties of the wait group, the barrier and the
semaphores in the `scopes` run.

- For the wait group, any number of waiters and scopes and any width of the counter.
  `GroupInv` is `WGTypeOK`, `CountInv`, `NoSleeperAtZero` and `DestroyInv` together.
  `CountInv` ties the counter to the cardinality of a set of scopes, so its proof rests
  on lemmas about what adding, removing and replacing one element does to it
  (`ScopeCounts`, `MoveCounts`); with it a count of 0 means that no task is left
  (`NoUnits`), which is what `WaitsMeanDone` and `DestroyCorrect` need.  The upper bound
  of `spare` in `WGTypeOK` needs `CountInv` in turn.
- `PermitInv` is inductive as it stands; `HolderMoved` counts the holders when one comes
  or goes.
- `BarrierInv` holds for any number of parties and scopes.  Besides it `BarrierIInv`
  needs that who has arrived is waiting or gone (`CameInv`) and that a thread has one
  armed scope at most (`OneArmed`), since two would arrive twice; `OneLess` says what a
  set of parties loses when one arrives or leaves.

`TimerProofs` proves `CancelInv` and `DeadlineInv` for any number of timers, tokens and
holders, any interval and any lag.  `TimerIInv` adds to the types where a late
callback's thread can be (`LateIsLast`: in the callback, at the test that ends it, or
gone), that a thread which slips past the second look at the flag was due at the cancel
(`SlipsPast`, from `NotEarly`), and `Paced`: time since the start plus time to the
deadline is a multiple of the interval.  That a multiple stays one when an interval is
added or taken away is the lemma `IntervalStep`.

`OwnershipProofs` proves of `Locking`, for any number of threads, pointers and objects:

- `LockInv`. `LockIInv` adds to it `AccessInv` (who reaches an object has its lock, and
  reaches it alone unless all are readers), `ExclusionInv` (a mutex is locked for one
  pointer or for readers), `WaitInv` (a pointer that waits for a lock neither has one
  nor is in use) and `BareInv` (what `unlock()` has been called of still knows its
  object).  `AccessInv` follows a step at a time: `Access` is guarded by `ptr_` alone and
  not by `owns_lock()`, and only `LockInv` says that a pointer with an object which is
  not bare owns its lock.  Moves and assignments share `MoveStep`.
- `NobodyLockedOut`, from `OrderInv`: a thread waits for one lock at a time, and for one
  that comes after all it has. Callers see to this when they begin to wait; that it
  stays so is up to moves and assignments, which must not leave a lock behind that
  `owns_lock()` no longer shows.  Among finitely many pointers one waits for the last
  object that is waited for (`LastWaits`), and who has that one cannot be waiting.
- `ReadersWritersRefined`: `LockSpec => ImplementsReadersWriters`. What a thread has in
  `ReadersWriters` is what its pointers keep, so that a move is a stutter and an
  assignment gives up at most one object (`GivesBackRefines`).  It needs that a thread
  keeps an object by one pointer only (`AloneInv`): otherwise a pointer that ends would
  give up less than it seems.

It also proves `OwnedOnce` for any
owners and numbers: inductive together with `LoansInv`, that no two numbers have one
loan and no loan is later than the last, so that a new one is nobody's.

`DataProofs` is about what operators compute, for any contents and any lengths, so that
induction over data must be avoided.  Three devices do it. The least element of a set of
numbers exists because `<` is well founded (`LeastNumber`), and "the first place where
..." is such an element.  `FlattenSeq` is a fold; what it answers is the last of a row
of sequences each of which continues the one before (`FlattenIs`), and when every piece
is of three elements but the last the row can be written down (`FlattenRow`, and
`JoinParts` for the parts of one sequence).  A claim about all lengths at which a
shorter one matters is refuted at its least counterexample (`OneShorter`).

- `AddressInv`, for any objects, ports and hosts. `AddressIInv` says that the cells of
  an address begin with those of the sockaddr last given, and that one of no family has
  nothing left of an earlier one (`AddressOf`).  `ComparedIs` takes the comparison from
  the cells to the addresses meant, `TextSays` and `TextMakesAgain` the text.
- `BufferInv`, for any memory and any set of delimiters.  `BufferIInv` adds the pointers
  that do not move, and for an output that what is past the text is zeros.  A view does
  not hold its delimiter because it ends at the first (`FirstViewHolds`), and what has
  been taken stays one stretch of the memory (`BetweenJoined`).
- `BinaryInv`, its three parts one by one, for arrays of any bytes and any length;
  `BinaryIInv` is the types alone, since the content is in the operators. The heart is
  `BlockDecodes`: the number of a block of four characters is the number of the bytes it
  was made from, short blocks included. `WholeText` and `ShortText` say what a whole and
  a cut text decode to (`DecodesPrefix`, and `HexPairs` for the other codec), `LostByte`
  that one more pad in a block is one byte less.  `ViewIsSlice` treats the sum that
  wraps.

`TextProofs` proves `StringsInv`, `TokensWhole` and `ScanInv`. A text may grow by any
character, so that the invariants are statements about every sequence, and nothing but
the types is needed of the state.  What is hard is that these operators are loops over a
text.  A loop is a row of states, each computed from the one before: `RowExists` says
that the row is there, `RowsAgree` that two rows which begin alike and go on alike are
alike, both by the least place at which the opposite would hold.

- Searches (`FindsFirst`, `FindsFirstNot`, `FindsLastNot`): the least or greatest element
  of a set of numbers that is not empty. `SearchExact`, `StripsOnce` and
  `UnquoteMatches` follow from what they answer and from where a part of a text is
  equal to another.
- `SplitsBack` tries every limit up to one more than there can be pieces; the theorem
  says `SplitsWithin` of every natural number.  It has an invariant of the loop,
  `SplitKept`: the pieces so far, joined, and a delimiter are the text up to `prev`, none
  holds a delimiter, and there are as many as turns were taken until no delimiter is
  left or the limit is reached.  When the loop ends, `prev` begins the last piece.
- `TokensWhole` has two arguments. `TokensKept` says that the tokens so far hold what is
  before `prev`, delimiters left out; that a turn keeps it needs `prev` not to be past
  the next delimiter (`TokenLoops`), which a text that starts with one breaks.  For such
  a text the first turn makes the rest a token (`TokensRestart`), and from then on the
  loop goes through the rest as it would through a text of its own, a constant number of
  places later (`TokensShift`, `TokensAgain`).
- For the scanners, `Accumulated` is the number written modulo `Big`.  A scanner of a
  narrow type cannot wrap unseen, since a value within its bound grows to less than ten
  times `Small` and a carry in one step: this is what the relation `10 * Small <= Big`
  is for. Units and seconds need that a remainder may be taken before or after a product.
  A number in two parts (`RealExact`) is the number of the digits put together.
  `Lowered` maps the digits of a hexadecimal text one by one, so that `HexExact`
  compares two numbers of the same digits.

All these theorems rest on the assumptions named in the modules (`PipelineAssumption`,
`LockingAssumption`, `ScanAssumption`, ...), which TLC evaluates in the runs, and on the
library's theorems about finite sets, sequences and well-founded relations.

Only model-checked: `CallsServed`, `CloseDrains`, `WaitServed`,
`WaitForReturns`, `PhaseServed`, `PermitServed`, `TimerServed` and `CancelStops`, which
are liveness under fairness, out of this prover's reach.  Every invariant and every
action property of a passing run is a theorem.

## 5. Findings

- `pipeline_stranded`: a push wakes a consumer only when it finds the ring empty and a
  pull wakes a producer only when it finds it full.  With several threads on a side a
  burst of pushes wakes one of them and the others sleep beside items. What holds
  instead is `SomeoneAwake`: never all of them.
- `pipeline_close_strands`: `close()` notifies without the mutex; a thread between its
  predicate and the queue misses it and sleeps in the closed pipeline.
- `notify_stale`: `drop`, `drop_if` and `clear` empty the ring without clearing the
  handle, which stays readable.
- `dictionary_loses`: `remove()` stores a pointer it read before over a head that may
  have changed; an insertion in between is lost, and stays in the count.
- `dictionary_twice`: `try_emplace()` compares with a key it has moved from, and so adds
  a string that is there; for any key two threads may both find it missing and add it.
- `buffer_repeats`: `buffer_t::pull()` and `pop()` never store the new head but the tail
  they read; the same item is pulled for ever, and a push in between is undone.  `pop()`
  answers the index in place of the item.

Not runs of their own, but part of what the models show: a pull from an empty `stack_t`
is answered (the old count is compared with 0 and not with 1), leaves the count at -1,
and from then on every push is refused; a pull reads the slot above the top.
`subview(offset)` with its default count is refused at every offset but 0, since `offset
+ count` wraps (binary.hpp:284, `ViewsAgree`).  Two link-local addresses that differ in
their scope alone are unequal (sockets.hpp:385) and have one text, from which neither is
made again (`AddressInv`).
`WideWraps`, `UnitsWrap`, `UnquoteMatches`, `TokensWhole` and `AddressInv` state what
the code does at the ends of its ranges, each in its own comment.

## 6. Not modelled, and why

- The pipeline's destructor with threads still inside; that its `close()` does not
  signal the handle of a `notify_pipeline`, so that a thread in `poll()` sleeps on; the
  data race between a `release()` by a poller and a `signal()` in progress on the two
  descriptors of the pipe build (undefined, and the descriptor's number may be reused by
  anything).
- In the dictionary, `operator[]` (it calls `at()` and returns nothing, which is
  undefined), the moves, `keys()` and `each()`, and values: two threads that assign to
  one node race on it.
- In the wait group, the callers' breaches of its contract, a wrapped count among them,
  and what `hpx::mutex::unlock()` may still touch when the group is destroyed by the
  thread it lets in.
- In the timers, the callbacks' arguments, which each call forwards again; and no
  property says that a guard which is assigned to cancels what it held, since the code
  lets that token go and nothing promises otherwise.
- `sequence_t`, `once_t` and `atomic_ref`: one atomic instruction for each operation.
  The accessors of `stack_t` and `buffer_t`, which change nothing.
- `parse_bool` and `match_prefix` of scan.hpp; rounding of doubles; `swap`, comparison
  and the hash of `byte_array`; `std::istream` and `std::ostream` around a `memorybuf`.
- An input whose memory is null, as `data()` of an empty vector may be: `memorybuf` then
  answers a size of 0, while in the model the memory of an input is some memory, empty
  or not.
- Copying an `addrinfo` whose length exceeds the storage (sockets.hpp:291 copies as much
  as it says): the system makes none. Joining and leaving multicast groups,
  `getnameinfo`, and the walks along lists of interfaces and addresses: input and
  output.
- Process creation (`make_argv` ends its list one place too far, system.hpp:105),
  clocks, files, the terminal, formatting, exceptions and small templates: they keep no
  state from one step to the next.

## 7. Plan

What could still be added, in this order:

1. A refinement of `WaitGroup` to a set of tasks.
2. `networks::find` and the iterators over lists of addresses, as operators over short
   lists.
