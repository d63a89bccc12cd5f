# Verification of sml

sml is a header-only C++20 library of small parts for control programs on POSIX
systems: a signal between threads, a thread object, a growing buffer, flags, a
state machine, notification, time measurement and a serial port. Applications
put the parts together (`examples/`); the library has no process of its own.
This directory holds TLA+ models of the parts, the TLC configurations that
check them and TLAPS proofs. Paths are relative to `src/`; `include/` is left
out where a file name says enough.

## 1. The system

| part | state | operations | what is hard |
|---|---|---|---|
| `Signal` (`signal.hpp`) | update flag, cancel flag, id, mutex, condition variable | `update`, `cancel`, `clear`, `wait_update`, `wait_for` | called from many threads; spurious wakeups; a timeout against a late update; one slot |
| `Thread`, `RunnableAdapter` (`thread.hpp`) | `m_runnable`, `m_thread`, `m_started` | constructors, `runnable`, `start`, `join`, destructor, `run`, `stop` | the started thread reads the object later; the destructor joins without stopping; unchecked `m_thread` |
| `StorageBase` (`storage.hpp`) | `m_head`, `m_tail`, `m_end`, `m_capacity`, `m_init`, a block of memory | constructors, copy, move, assignment, `reserve`, `resize`, `copy_from` | five members that must agree; ownership through moves; boundaries |
| `BufferBase` (`buffer.hpp`) | a storage and `m_read` | `append`, `assign`, `push_back`, `read`, `put_back`, `position`, `extract`, `substr`, ... | growth at the boundary; wrap-around of sums; reference to an item across a growth |
| `ByteBuffer` helpers (`byte_buffer.hpp`) | none | conversions of strings and bytes | - |
| `Notification` (`notification.hpp`) | receiver | `connect`, `notify`, move | receiver is held by a raw pointer; no lock |
| `Flag`, `FlagRegister` (`flag.hpp`) | a value, or a word of bits, and a mutex | `update`, `value`; `set`, `reset`, `set_reset`, `is_set`, `clear` | shared by threads, each call atomic and no two of them together |
| `State`, `Fsm` (`fsm.hpp`) | current state, owned; each state's table of next states, held weakly | `dispatch`, `addTransition`, `initial`, `next`; callbacks `exit`, `entry`, `doActivity` | states may expire; a missing transition is a self transition; callbacks may dispatch |
| `MeasureTime` (`measure_time.hpp`) | start time, running flag | `start`, `isExpire`, `isExpireSec` | boundary of the interval; a one-shot timer reports its end once |
| `ChannelBase` (`io/channel.hpp`) | descriptor, status flags, timeout, signal mask | `isReady`, `status`; `connect`, `disconnect`, `read`, `write` of the derived class | outcomes of `pselect`, `errno`, partial writes |
| serial port (`io/serial/`) | descriptor, old and new terminal settings | `connect`, `disconnect`, `read`, `write`, modem lines, parameters | settings that must be put back, also when the process ends in between |
| `Result`, `error_type` (`result.hpp`) | a union and a tag | setters, getters, moves | which member is alive |
| `debug.hpp`, `base.hpp`, `platform.hpp` | a name and an id | logging, aliases, return codes | - |

How the parts meet. A `Thread` runs an entry point of an application class.
Threads meet in a `Signal` (`examples/signal`): one waits, others update or
cancel, and cancel is how a waiting thread is told to end, since
`Thread::~Thread` joins and does not stop anything. In `examples/notification` a
thread calls a receiver that `main` created, through a `Notification`. In the
serial example a writer and a reader thread, each with its own port, take turns
through one `Flag`; a port keeps its status in a `FlagRegister`. The signal
tower drives an `Fsm` from a loop that dispatches whatever event the current
state has left in the context; a state leaves one when its `MeasureTime` has
run out.

What makes each part correct:

- Signal: every wait returns the newest id, an id is returned once, no wakeup
  is lost, a timed wait returns, and callers are never kept out.
- Thread: a running thread always belongs to a living object that can join it,
  its runnable exists, and a join returns when the runnable was stopped.
- Storage: one owner for each block, members that agree with the block.
- Buffer: the contents behave as a sequence with a cursor whatever memory does.
- Notification: a notify reaches the receiver connected last, while it lives.
- Fsm: a state is left only through its exit and entered only through its entry,
  and no callback runs on a destroyed state.
- Signal tower: the lamps show the state, each burns its time, the loop ends.
- Port: descriptor, status bits and terminal settings agree; the settings found
  are put back.
- Serial example: messages are handed over whole, in order, one at a time.
- Result: only the live member of the union is read.

PROJECT.json lists the hazards of this code line by line, with the property
that watches each, or the reason there is none yet.

## 2. The modules

| module | models | role |
|---|---|---|
| `Mailbox` | what `Signal` promises | abstract: a slot, a cancel mark, the open waits |
| `Signal` | `signal.hpp` | statements of each critical section; implements `Mailbox` |
| `Storage` | `storage.hpp` | blocks of memory and the members of objects; operators, no next-state relation of its own |
| `Buffer` | `buffer.hpp` | the public calls of a buffer, over `Storage`; implements `ItemBuffer` |
| `ItemBuffer` | what `BufferBase` promises | abstract: a sequence of items and a cursor, no memory |
| `Thread` | `thread.hpp` | one `Thread`, its owner, the threads it starts |
| `Notification` | `notification.hpp` | notifications, receivers, an owner and threads that notify |
| `Fsm` | `fsm.hpp` | one machine, its states and the application that owns them |
| `MeasureTime` | `measure_time.hpp` | a timer as operators on a record |
| `SignalTower` | `examples/fsm/` | composes `Fsm` and `MeasureTime` with lamps, context and loop |
| `Flag` | `flag.hpp`, `io/status_flag.hpp` | a register as operators on a set of bits |
| `Termios` | `io/serial/params.hpp` | terminal settings and `setup` as operators |
| `Port` | `io/channel.hpp`, `io/serial/` | ports of one process on one device, over `Flag` and `Termios` |
| `HandOver` | what the serial example promises | abstract: messages put and taken in turn |
| `Handshake` | `examples/io/serial/example.cpp` | `main`, writer and reader over the flag and the line; implements `HandOver` |
| `SignalProofs`, `BufferProofs` (with the lemmas about `Storage`), `ThreadProofs`, `NotificationProofs`, `FsmProofs`, `TowerProofs`, `PortProofs`, `HandshakeProofs` | - | the theorems, and the lemmas they rest on |
| `MC*` | - | constants and symmetry for TLC |

### Signal

A caller (`update`, `cancel`, `clear`) and a reader (`wait_update`, `wait_for`)
is a thread with a program counter `pc`; one action is one statement between
`lock` and the release of the lock. `Lock` is the constructor of the
`unique_lock`; `Sleep` releases the mutex and sleeps in one step, as a
condition variable does; `Notify` moves every sleeper to `"relock"`;
`SpuriousWakeup` and `TimeOut` move one. `wait_for` and `wait_update` differ in
`timed`, in `TimeOut`, and in `GiveUp`: after its time has run out a reader gets
the mutex back and tests the predicate again, as `condition_variable::wait_for`
with a predicate does, before it gives up. `wait_update` returns the cancel by
throwing; here both are outcomes in `result`.

`Mailbox` has neither mutex nor program counter. The mapping: `slot` holds
`arg` of a caller between its two assignments (an update takes effect when its
flag is written), otherwise `m_id` while `m_updated` is set; a cancel is there
unless a `clear` is half way through; a wait is over when its outcome is
chosen. It says for instance that the slot is emptied by the wait that returns
it and by nothing else but a `clear`, and that a wait gives up only when at that
moment there is neither an update nor a cancel.

### Storage and Buffer

`room[b]` is the content of the block at address `b`, empty when the allocator
has it. `m_tail` and `m_end` are counted from `m_head`. A call that would write
or read outside the block of the object, give a block back twice or with the
wrong length (`CanRelease`) sets `fault` and leaves the rest alone. An operation
is one action: nothing here is shared between threads. What `resize` does in
three steps (copy away, give back, reserve) is `Reallocate`, which may get the
address that was just given back.

The code leaves preconditions to the caller and tests none of them. Each is a
conjunct of the action that has it (`CopyAssignNeeds`, `MoveAssignNeeds`,
`AssignNeeds`, `PushBackNeeds`, `ExtractNeeds`, `SubstrNeeds`, the bounds of an
index, of `copy_from` and of `update_tail`), and `Careless` names the calls that are
made without it. These operators say what a caller has to see to; they are no
code of the library. The list is a result: it is what a caller has to know for
`NoFault` to hold, and TLC finds a property violated as soon as one of them is
dropped. With `Careless = {}` a buffer implements `ItemBuffer`. Some of the
preconditions are surprising: copy assignment needs an empty target, move
assignment needs equal capacities, `push_back` of an item of the same buffer
needs room, and `push_back` needs a capacity other than zero. `update_tail` moves
the tail by any amount that does not pass the end, over rooms whose contents
were written through `ptr()`.

### Thread

`start` sets `m_started` and creates the thread, then `Reset` stores it in
`m_thread`: in between the new thread may already run, or even be over. `Run` is
the point where the new thread enters the lambda and reads `m_runnable` through
`this`. `join` and the destructor are split where they wait (`BeginJoin`, then
`Joined` or `Destroyed`). An entry point ends because its runnable was stopped
(`EndStopped`) or on its own (`EndByItself`); both belong to the application and
are marked external. `held` are the runnables that the application keeps a
`shared_ptr` to, none at first: it may create one (`Create`), hand it to the
object, and let go of it (`Release`) while the thread runs in it. `fault` records a
null `m_thread` that is used, a joinable `std::thread` that is destroyed
(`std::terminate`), or an object that is read, or destroyed in use. `Careless` again
names the calls made without a precondition: `"never_started"`, `"start_again"`,
`"swap"` (replace the runnable while the thread is about to read it or while
nobody else keeps it alive), `"release"` (let go of a runnable that a thread is in
and the object no longer refers to) and `"join_own"`: `JoinOwn` is an entry point that
calls `join` of the object that started it. `join` resets `m_started`,
`std::thread::join` throws because a thread cannot join itself, and what is left
is a joinable `std::thread` that nothing will join: the next `start` or the
destructor ends the program. That a thread can be created is assumed.

### Notification

The owner constructs, connects, moves and destroys notifications, creates and
releases receivers and starts threads; a thread in `notify` goes through
`"call"`, `"inside"` and `"return"`. `m_reciver[n]` is the receiver that the
function object in `n` has bound by its raw pointer: `Null` for an empty one, `Gone`
for a notification that is not there. `Enter` calls it; an empty function found
at that moment throws, and so may a receiver (`reply` = `"throw"`): both end in the
`catch`. `connected` is a history variable, what the owner has asked for, so that
`Delivered` can compare. `fault` records a receiver called after its end, released
while it runs, or a function object replaced while a thread is calling it.
Preconditions: `"quiet"`, the owner changes nothing while a thread that may notify
runs; `"sound"`, it starts none with a connected receiver gone.

### Fsm

The machine owns its current state, the tables own nothing, the application
owns the states in `held`; a state is `alive` while one of them does. `stack` is the
calls of `dispatch` in progress: an element says which callback runs on which
state for which event. `dispatch` begins with `exit` (or `doActivity` for the event
`stay`), `Exited`, `Entered` and `Done` are the returns of the callbacks, and between
two of them the application may do anything: change tables, release states,
dispatch again. `m_current` is read again after each callback, as the code does.
`inside` is a history variable: the states entered and not left. Preconditions:
`"initial"` is called once, `"release"` does not let go of a state in the middle of
its callback, `"dispatch"` is not called from `exit`, and from other callbacks only
by a state which the application owns. The code tests none of them. `MaxDepth` bounds
dispatches inside each other.

### SignalTower and MeasureTime

A timer is its running flag and its age, which saturates at `MaxAge`: nothing
compares it with a longer interval. `isExpire` is two operators, what it returns
(`Expired`) and what it leaves. `SignalTower` instantiates `Fsm` with the four states
of the example and conjoins with each step of it the effect of the callback that
the step calls: the lamps, the timers, the event slot `m_event` and the cycle
count. `ByHand` is a dispatch by the owner outside the loop, `onAnyEvent` enters the
loop, `Loop` is its test and body, `Tick` lets time pass between any two of these.
Preconditions: `"by_hand"`, no dispatch when all cycles are counted (the loop
compares the count for equality only); `"onAnyEvent"`, the loop is entered only
when an event is waiting or a timer runs.

### Port, Termios and Flag

A register is the set of its bits; each operation is one critical section and so
one step. `Settings` keeps the fields of `struct termios` that `setup` treats
separately and merges those it copies together into `frame`. `Port` has `Ports`
of one process on one device. `connect` is `Connect`, `Open`, `SetUp`;
`disconnect` is `Disconnect`, `restoreTermios`, `Close`, and `then` remembers
whether it was called on its own, by `connect` or by the destructor. `isReady`
is `Ask` and `Answer`, so that two threads may be inside it, one for each
direction. `Crash` is the end of the process at any point and the start of
another. `first`, `inherited`, `asked`, `ready` and `failed` are history
variables. Preconditions, none of which the code tests: `"overlap"`, one port at
a time has the device; `"busy"`, no connect or disconnect while a thread is in
`isReady`, and no `isReady` during one; `"connected"`, `isReady` is asked of a
port with a descriptor only (it does `FD_SET` of whatever `m_fd` is, which is
undefined for -1; without the precondition the model has the answers that may
follow, not the write); `"in_out"`, `isReady` is not asked for both directions
at once; `"std"`, the process begins with descriptors 0 to 2 open; `"tty"`,
`tcgetattr` and `tcsetattr` succeed (without it `Got` and `Put` let them fail,
which nobody notices). TLC finds a property violated as soon as one of the six
is dropped.

### Handshake

`main` connects both ports (either may fail, then no thread starts), joins the
writer and then the reader, and disconnects. Each thread is a program counter
over the statements of its loop; the two loops count differently, as in the code
(`lc++ < LOOP_MAX` and `++lc != LOOP_MAX`). `line` holds the bytes under way.
`write` takes any part of the message, `read` returns any part of what has
arrived, at most `Capacity` bytes. The flag is read twice per round, in `Wait`
and in `Test`. `HandOver` knows only how many messages have been put and which
were received; the mapping is by `put` and `received`, both history variables.

## 3. The runs

| run | question | bounds | result |
|---|---|---|---|
| `signal` | is any wakeup lost, is it a mailbox? | 2 callers, 2 readers, 2 ids, all calls | holds |
| `signal_live` | does every call return? | 2 callers, 1 reader, `update` and `cancel` | holds |
| `buffer` | with careful callers, is a buffer a sequence with a cursor, and is memory used correctly? | 2 objects, 3 addresses, blocks up to 3 rooms, 2 kinds of item, `SizeMod` 4, reads up to position 2 | holds |
| `v_extract_wrap` | does `extract` refuse every length that is over? | as `buffer`, with sums that wrap around | violated |
| `v_copy_assign` | has the target of a copy assignment the size of the source? | as `buffer`, with targets that have contents | violated |
| `thread` | does an active thread always belong to a living object with a living runnable, and do joins end? | 2 runnables, 2 threads of execution | holds |
| `notification` | does each notify reach a living receiver, the one connected last? | 2 notifications, 3 receivers, 2 threads | holds |
| `fsm` | do callbacks pair up, and on living states? | 3 states, events -1, 0, 1, 2, dispatches 2 deep | holds |
| `tower` | do the lamps show the state and burn their time, has the loop always something to come, does it end? | intervals 3, 1, 2, `MaxAge` 4, 2 cycles | holds |
| `port` | do descriptors, settings and status bits agree, across crashes too? | 2 ports, 1 device, descriptors 0 to 4, 3 sets of conditions | holds |
| `handshake` | are messages handed over whole and in order, and do the rounds end? | 8 rounds, a message of 15 bytes, reads up to 15 | holds |
| `v_thread_not_run` | does `join` of a Thread that was not run return FAILURE? | as `thread` | violated |

**signal.** `MutualExclusion` says that holding the mutex and being inside a
critical section is the same, `NoLostWakeup` that nobody sleeps on something
already notified, `ImplementsMailbox` the rest. Two callers are enough to have
an update between another's statements or after another's notification; two
readers are enough for two to be woken by one `notify_all` and compete, and for
one to be asleep while the other takes. Two ids tell an old one from a new one.
No counter is bounded: the state space is finite as it stands.

**signal_live.** `CallsReturn` and `TimedWaitReturns` would hold with any
constants. `WaitReturns` needs one reader (another could take each update) and
no `clear` (it may take the update away before the woken reader gets the
mutex); that is how the documentation describes the use. Two callers compete
with the reader for the mutex. Fairness: weak for the statements of a critical
section (no thread stops inside a call); strong for `Lock`, since a mutex is free
again and again and not continuously: it assumes a mutex that starves nobody
that asks for ever, which glibc's default mutex gives in practice and POSIX
leaves to the scheduler; strong for `TimeOut`, because a spurious wakeup
interrupts it while the deadline, being absolute, does not move. Nothing obliges
a thread to begin a call, and `SpuriousWakeup` is not fair.

**buffer.** All sequences of calls on two buffers, careful in the sense of
section 2. Two objects are enough for everything that relates objects (copy,
move, append of another, results of `substr` and `extract`). Three addresses are
one more than the objects need, so that an allocation has a choice and can reuse
an address. Three rooms leave room for growth: the smallest growing `push_back`
goes from 1 room to 3. Sizes are taken modulo `SizeMod` = 4, but a careful
caller makes no sum of `first` and `length` that wraps around: only the runs
that drop a precondition, as `v_extract_wrap` does, reach those. `MaxRooms` and
`MaxReads` are bounds of the model: a call that would ask for a longer block, or
read further, is not made. Deadlock is checked: there is always a call to make.
`PartIsExact` says what `substr` and `extract` make of any arguments that keep
their preconditions: `extract` the items asked for, or none and `OUT_OF_RANGE`
when they end behind the last item, even if the capacity would allow it;
`substr` those that there are. `Owned` says that each block has exactly one
owner that knows its length.

**thread.** The owner may make any call in any order; threads, stops, ends, and
the application that creates and releases runnables come whenever they like. Two
runnables are needed to replace one by another, two threads of execution to
start one while the name of the last is still in `m_thread`. `StopEndsJoin` says
that a join, or a destructor, returns once the runnable of the thread was
stopped. Fairness: the scheduler runs launched threads, a stopped entry point
returns, and the owner goes on inside a call it has begun; it need not begin
one. The end of a thread nobody stops is not fair: that run may well last for
ever, which is why the property needs the stop.

Every state of this run keeps the five preconditions: that a second `start`, or an
entry point that joins its own object, ends the program is what `NoFault` finds
when they are dropped.

**notification.** `NoFault` says what the preconditions buy. It leaves more than it
seems: receivers may come and go while no thread runs, and one that only a
moved-from or destroyed notification was connected to may be released.
`Delivered` relates the receiver that ran, the code returned and the history
`connected`, with both threads in `notify` of the same object. Three receivers for
two notifications leave one to be exchanged.

**fsm.** All tables over three states are built by `addTransition` along the
way. `RunningStateExists` is the lifetime property: a state owned by the machine
alone is destroyed by the step that leaves it. `InsideCurrent` is about
dispatches inside callbacks; two deep is what one needs to come between
another's callbacks, and the theorems hold for any depth. It holds because no
`exit` dispatches here: with `"dispatch"` in `Careless` one does, the event in
progress takes the machine out of a state whose `exit` was not run, and TLC
finds `InsideCurrent` violated. Three states let a table point to a state that
is neither current nor its predecessor.

**tower.** The intervals keep the order and differences of the example; one lamp
longer than another is what lets a stale timer matter. `LampsShowState` holds at
every instant, `LitItsTime` says no lamp of the loop is cut short (an interval that
is equal does not count as expired), `LoopCanGoOn` that whenever the loop looks for
an event there is one, or the timer of the current state runs and will cause one,
which is the safety half of `LoopEnds`: that the event found by a one-shot
timer is not lost. Fairness: weak for `Loop` and `Continue` (one thread that runs on)
and `Tick` (time passes); dispatches by hand are not fair. Two cycles make the
count both start and stop in the loop, also with one cycle counted by hand.
`MaxAge` is one more than the longest interval.

**port.** Two ports are enough for one to get the device, or the descriptor, that
the other has just let go; five descriptors are the three standard ones and one
for each port, so that an open can also fail for want of one. The three
conditions have every parity and every flow control, and each may follow each
in the same `m_termios`. `SettingsPutBack` relates the device to what it was
before the process, over connects, reconnects, failures and destruction; after
a crash the settings found are those the crash left (`first` is set again), so that
the settings from before a process that crashed are not asked for. The six
preconditions hold throughout: stale bits after an `isReady` for both directions or
during a disconnect, and ports that share the device, are what they exclude.
`BitsShowAnswers` has both
directions asked at once.

**handshake.** The message and the buffer have the sizes of the example; the rounds
are fewer, and nothing but the loop conditions looks at their number.
`ImplementsHandOver` covers safety even after a write that fell short; `RoundsEnd`
excludes that case, where the code really waits for ever. Fairness: weak for
`main` and for each thread; a thread that waits sleeps and looks again, which is
why no stronger fairness is needed, and a `read` that finds bytes returns them.
Deadlock is not checked, because the program ends.

Every property has a mutant in PROJECT.json: a change to one definition of the
kind a bug in that code would be, for which TLC finds the property violated.
The operators `X_Name` in the modules, each placed before its `X`, are those.

### What disagrees with the code

Those with the name of a run are found violated by it. Of the others, those that
break a precondition of section 2 show when its name is put into `Careless`; the
rest were found by reading.

- `storage.hpp:369`: `resize()` asks `resize(m_capacity * 2)`, which adds that to
  the capacity there is; the comment above it says the capacity doubles, and
  `tests/buffer/misc_test.cpp:42` expects 20 after 10. It becomes 30.
- `storage.hpp:275` (`v_copy_assign`): copy assignment writes the source over
  the front of the target and moves the tail on by the source's size from where
  it was. The test (`tests/storage/unit_test.cpp:75`) has an empty target.
- `buffer.hpp:247` (`v_extract_wrap`): `extract` compares the size with `first +
  length`, which wraps around, so that a `first` near the maximum passes and
  items outside the block are copied; its documentation (line 242) promises an
  error.
- `buffer.hpp:261`: `substr` cuts a length that is over; its documentation
  (line 256), the same text as that of `extract`, promises an error, which its
  return type cannot express. `PartIsExact` states what the code does.
- `buffer.hpp:119` (`"push_back"`, `"own_item"`): `push_back` to a buffer without
  capacity writes through a null pointer, since three times zero is zero, and
  `push_back(a[i])` into the full buffer `a` reads the item after its block was given
  back. The documentation (lines 110-115) makes no exception.
- `buffer.hpp:114`: it also says "OUT_OF_RANGE index was arlady full", which is never
  returned, as its own note (line 112) says.
- `thread.hpp:188` (`v_thread_not_run`): `join` uses `m_thread` without asking
  whether there is one; the message in its other branch counts a Thread that was
  not run among the cases where FAILURE is returned. The destructor calls
  `join`.
- `thread.hpp:190`: `join` resets `m_started` before it waits, so that
  `started()` is false while the thread runs; the documentation of `started`
  (line 210) says that false means joined or not started.
- `fsm.hpp:187` (`"dispatch"`): `m_current` is read again after `exit`, so that the
  event is looked up in the table of another state when `exit` has dispatched; the
  documentation (line 176) has the current state's exit first.
- `io/serial/params.hpp:217` (`"tty"`): nobody looks at what `tcgetattr` and
  `tcsetattr` return. `connect`, which is documented (`io/serial/port.hpp:59`)
  to swap the settings, reports OK and sets `opened` with the old ones in force,
  and `disconnect` may write settings back that were never read.
- `io/serial/port.hpp:104`: `read` lets the system write through `data()` up to
  `capacity()` and leaves the size as it was (line 105, which would set it, is a
  comment). `examples/io/serial/example.cpp:66` then reads `buf[i]` of an empty
  `std::string`, which is undefined. `Handshake` models what the example means
  to do.
- `measure_time.hpp:82`: a timer expires when more than the interval has passed;
  its documentation (lines 53 and 74) says equal to or more than.
- `examples/notification/example.cpp:91`-`103`: `main` releases the receiver before it
  joins the thread that notifies it, against both preconditions of `Notification`.
- `examples/io/serial/example.cpp`: the reader makes one round less than the
  writer (`++lc != LOOP_MAX` against `lc++ < LOOP_MAX`), so the last message is
  written and never read. `HandOver` has `Takes` one less than `Puts`.

## 4. The proofs

The theorems hold for all values of the constants that the `ASSUME` of the
module allows: any finite or infinite sets, any sizes.

| theorem | statement |
|---|---|
| `SignalProofs!TypeCorrect` | `Spec => []TypeOK` |
| `SignalProofs!Exclusion` | `Spec => []MutualExclusion` |
| `SignalProofs!WakeupsAreNotLost` | `Spec => []NoLostWakeup` |
| `SignalProofs!Refinement` | `Spec => MB!Spec`, which is `ImplementsMailbox` |
| `ThreadProofs!TypeCorrect`, `CarefulIsSafe`, `ThreadsAreAttached`, `StartedIsRight`, `RunnablesOutliveThreads` | `Spec => []` of `TypeOK`, `NoFault`, `Attached`, `StartedIsJoinable`, `RunnableExists`, when `Careless = {}` |
| `NotificationProofs!TypeCorrect` | `Spec => []TypeOK` |
| `NotificationProofs!CarefulIsSafe`, `NotifyDelivers` | `Spec => []` of `NoFault`, `Delivered`, when `Careless = {}` |
| `FsmProofs!TypeCorrect` | `Spec => []TypeOK` |
| `FsmProofs!StatesOutliveCallbacks`, `EntryExitPair` | `Spec => []` of `RunningStateExists`, `InsideCurrent`, when `Careless = {}` |
| `PortProofs!TypeCorrect` | `Spec => []TypeOK` |
| `PortProofs!DescriptorsAreOwned`, `SettingsAreRestored`, `ConnectedWorks`, `StatusIsRight` | `Spec => []` of `OpenedHasFd`, `SettingsPutBack`, `WorksAsAsked`, `BitsShowAnswers`, when `Careless = {}` |
| `HandshakeProofs!TypeCorrect` | `Spec => []TypeOK` |
| `HandshakeProofs!Refinement` | `Spec => H!Spec`, which is `ImplementsHandOver` |
| `BufferProofs!TypeCorrect`, `CarefulIsSafe`, `BlocksAreOwned` | `Spec => []` of `TypeOK`, `NoFault`, `Owned`, when `Careless = {}` |
| `BufferProofs!Refinement` | `Spec => IB!Spec`, which is `ImplementsItemBuffer`, when `Careless = {}` |
| `BufferProofs!PartsAreExact` | `Spec => PartIsExact`, when `Careless = {}` |
| `TowerProofs!TypeCorrect` | `Spec => []TypeOK`, when nothing is dispatched by hand with all cycles counted |
| `TowerProofs!LampsAreRight`, `LampsAreLitTheirTime` | `Spec => []LampsShowState`, `Spec => LitItsTime`, for any `Careless` |
| `TowerProofs!LoopHasNext` | `Spec => []LoopCanGoOn`, when the loop is entered with an event waiting or a timer running |

**Signal** (`SignalAssumption`: callers are not readers, the special values are
no ids or threads). `TypeOK` is inductive by itself. `MutualExclusion` is inductive
relative to it: each statement either stays inside the section with the same
owner, takes the free mutex or gives it back. `NoLostWakeup` is inductive
relative to both: a reader falls asleep only in the step that found nothing
pending, and that with the mutex held, so no caller is between its two
statements; a flag is set only by a caller which is then at `"set_id"` or
`"notify"`; `Notify` empties the set of sleepers. The refinement needs one more
fact, `IdInv`: whenever the update flag is set and no caller is between flag and
id, `m_id` is an id, not `NoSignal`, so that a `TakeUpdate` is a `Take` of
`Mailbox` and not a step that returns nothing. `MailboxStep` then has one case per
action of `Signal`: seven of them are steps of `Mailbox`, the others leave the
mapped variables alone.

**Thread** (`ThreadAssumption`: null is no runnable and no thread). None of the
properties is inductive alone, not even the types: that a thread which enters `run`
has a runnable to enter rests on the rest. That `Reset` and `Destroy` find no joinable
`std::thread` rests on `StartedIsJoinable`; that `Run` finds the object alive rests on
`Attached`; that `start` may reuse `m_thread` and `runnable` may replace the
runnable rests on there being no thread that `Attached` does not account for.
`IInv` is their conjunction with `Placed`, which says where in its calls the owner
may be. `Careless = {}` stands for the five preconditions that the code leaves
to its caller; `v_thread_not_run` shows what happens without `"never_started"`.

**Buffer** (`StorageAssumption`, `BufferAssumption`). The inductive invariant
`BufferOK` is the types, `NoFault` and `Owned` (as `StorageOK`) and the types of the
read position and of what a call returns. One lemma per operation of
`StorageBase` says that from a state in which `StorageOK` holds, with the
operation's precondition, it leads to one in which it holds, and which items the
object has then, every other object keeping its own: `NowHolds(o, items)`, or for
a move `NowGivenBy(o, p)`. Two lemmas carry the argument: `Rehoused` (one object
keeps its block, gives it up or exchanges it for a free one) and `HandedOver` (a
block goes from one object to another). Below them are lemmas on sequences:
`FrontOfPad` (what `reserve` and the writes behind it leave in a new block),
`WrittenBehind`, `WrittenFront`, `WrittenOne` (what a write in place leaves among
the first items), `PartOfFront` (a part of the block that ends inside the
contents is a part of the contents).

Then every call of `BufferBase`, made with care, is shown to meet the precondition
of the operation it uses: that growing by `n` leaves room for `n` more, that a
write without growing ends inside the block, and that the part `substr` and
`extract` copy lies in the contents although the sum of their arguments is taken
modulo `SizeMod`. With what it says of the items this is the refinement, one case
per call: whether `append` reallocates or writes in place, the contents are what
they were with the new items behind them; `copy_from` and copy assignment replace
only empty contents; `update_tail` adds the items that lie in the next rooms. Ends
of objects matter too: one that is destroyed or moved from holds `<<>>` in the
mapping. That sizes beyond `MaxRooms` are not asked for is a guard of the model;
since `MaxRooms` is any number, the theorems do not depend on it.

**Notification** (`NotificationAssumption`: `Null` and `Gone` are no receivers).
Neither `NoFault` nor `Delivered` is inductive: both need that a function object
holds what was connected (`m_reciver` and `connected` agree, `Gone` aside), that
while a thread runs every connected receiver lives, and that a call in progress
belongs to a running thread and to a notification that is there. With `"quiet"` the
owner's actions have no thread running, so no call in progress to disturb; with
`"sound"` the first thread to start finds the receivers alive.

**Fsm** (`FsmAssumption`: the events are integers, the depth any natural number).
`RunningStateExists` is not inductive by itself: `CallsOwned` adds that every call
below the innermost one is on a state which the application owns and is not in
`exit`, and that the innermost is on the current state or on one so owned. Then
a step that leaves the current state destroys it only when no callback is on
it. `InsideCurrent` is inductive relative to that.

**SignalTower** (`TowerAssumption`: the intervals are shorter than `MaxAge`, the
limit of the count is a number). The machine needs no theorem of `FsmProofs`:
its tables are never changed and every state is held by the tower, so that
`Machine` can say more than holds of `Fsm` in general, that one dispatch at most
is in progress, in a callback of the current state, and that `inside` is the
current state except during `exit`. With it `LampsShowState` is inductive: the
step that begins `exit` switches off the lamp of the state it leaves, the step
that begins `entry` switches on the lamp of the state it enters. `LitItsTime`
needs two more facts. `Timed`: from its entry to its exit a state's timer is as
old as the light of its lamp, since both are set back by the same step and age
together. `Due_Expired`: an event that waits for the loop while a state is in no
callback of its entry was put there by that state's `doActivity`, whose timer
had then run out. So the dispatch of the loop that switches a lamp off comes
after the interval, however late it comes and whatever was dispatched by hand
before; both theorems hold without the preconditions. The bound of the count in
`TypeOK` needs `"by_hand"`, and `LoopCanGoOn` needs `"onAnyEvent"`. For the
latter `Alarm` says where, at every point of a dispatch of the loop, the next
event will come from: while `exit` runs the event in progress is one that leads
to a lamp; in and after `entry` the timer of that lamp's state runs, or it has
run out and its event is in the slot.

**Port** (`PortAssumption`: the conditions used are conditions, the devices found
are settings, the process has room for a descriptor beyond the standard three).
The types hold for every application, careful or not, but not by themselves: a
descriptor stays in its range of open ones only while nobody else gives it back.
`Held` adds that a port in the middle of a connect or disconnect has a descriptor,
that one whose bit says opened has one and is between calls, and that no two have
the same. The rest needs the six preconditions. `Single` (one port at a time has
the device) and `Known` (descriptors 0 to 2 are open, so that a port never gets one
of them and never takes it for none) make `OpenedHasFd` inductive. `Restores` says
where the settings found are at every step: in the members of the port that
holds the device, or in the device. `WorksAsAsked` rests on `setupWorks`, that what
`setup` makes of any settings means the conditions it was given. `Asking`
(`isReady` is in progress on connected ports only) and `Answers` (the bits show the
answers at every point of a call) give `BitsShowAnswers`.

**Handshake** (`HandshakeAssumption`: the lengths and the rounds are at least one).
`Turns` ties the flag to the count of messages put and taken: who may be past its
test is decided by it. `Pieces` says that what the reader has collected and what
is on the line are, one after the other, the first bytes of the current message,
so that a piece either ends with the terminator and empties the line, or has
none; `Emptied` that the line is empty whenever no message is under way. `Rounds`
bounds the messages by the rounds begun, and `Joined` says what `main` waits for.
With these, `Hand` of the writer is a `Put` and `Hand` of the reader a `Take` of the
whole message; every other step leaves both variables of `HandOver` alone.

Checked by TLC only: the liveness properties `CallsReturn`, `TimedWaitReturns`,
`WaitReturns`, `StopEndsJoin`, `LoopEnds` and `RoundsEnd` (fairness and `ENABLED` are
out of the prover's reach), and the violations. Every other property of the runs
is a theorem.

## 5. Not modelled

- `debug.hpp`, `base.hpp`, `platform.hpp`: output, names and aliases.
- `result.hpp`: a value type used by one thread. Read for this project, one member
  looks wrong: `error(error_type&&)` (line 145) builds an error in a Result that
  holds a value and leaves `m_has_value` true, so `has_value` still says yes and the
  destructor runs the value's on an error.
- `byte_buffer.hpp`: conversions without state on top of `BufferBase`.
- In `StorageBase`: an allocation that fails inside `resize`, content types whose
  constructors throw, `shrink_to_fit` (protected, never called), `clear_all` (does
  not compile when used), the `reserve` overload marked as not working.
- In `Thread`: a `std::thread` that cannot be created. The constructor throws
  inside the `noexcept` `start` (`thread.hpp:156`), so the program ends there.
  Two threads that call one object, moves of `RunnableAdapter`, `sleep` and
  `yield`.
- In `Signal`: the clock. A timeout may run out at any time after the wait began.
- In `Notification`: move assignment, whose body (`notification.hpp:94`-`97`) returns
  nothing, so that any use is undefined; receivers that change the notification
  they are called from.
- In `Port`: what `FD_SET` of a descriptor -1 writes, which `fcntl` and
  `tcflush` return, modem lines, moves of `Parameters`, a null set of
  conditions, the signal mask and the timeout of `pselect`. Reads and writes are
  in `Handshake`.
- In `MeasureTime`: `isExpireSec`, `start_acquire` and `acquire`, which compute with
  the same two members.

## 6. Plan

1. `Storage` with an allocation that fails: which members are left in which state,
   as a second next-state relation whose result is a list of what may still be
   called.
2. Two threads that call one `Thread` object.
3. Proofs: theorems that assume only those preconditions which they need, where
   `Careless = {}` asks for all.
