--------------------------- MODULE NotifyPipeline ---------------------------
(***************************************************************************)
(* hitycho::system::notify_pipeline<T, S> (src/pipeline.hpp) over notify_t *)
(* (src/system.hpp): a pipeline whose push() and pull() also signal and    *)
(* clear a file descriptor, which other threads poll WITHOUT the lock.     *)
(* The descriptor is an eventfd where there is one and a pipe elsewhere;   *)
(* any error of read(), write() or poll() closes it for good.              *)
(***************************************************************************)
EXTENDS Pipeline

CONSTANTS
    PipeCap,    \* bytes a pipe holds (65536 on Linux)
    ReadChunk,  \* bytes clear() reads from a pipe (64)
    Backends    \* the builds modelled

ASSUME NotifyAssumption ==
    /\ PipeCap \in Nat \ {0}
    /\ ReadChunk \in Nat \ {0}
    /\ Backends \subseteq {"eventfd", "pipe"}

VARIABLES
    backend,    \* what the build's notify_t is made of
    handle,     \* is_open(): the descriptor is open
    pending     \* what a read would find: 0 or 1 for an eventfd, bytes for a pipe

fd == <<handle, pending>>
notifyVars == <<vars, backend, fd>>

NotifyTypeOK ==
    /\ TypeOK
    /\ backend \in Backends
    /\ handle \in BOOLEAN
    /\ pending \in IF backend = "eventfd" THEN {0, 1} ELSE 0..PipeCap

\* The constructor leaves the handle closed when the system has none to give.
NotifyInit ==
    /\ Init
    /\ backend \in Backends
    /\ handle \in BOOLEAN
    /\ pending = 0

-----------------------------------------------------------------------------
(* notify_t                                                                *)

Release == handle' = FALSE /\ pending' = 0

\* signal(): a full pipe refuses the byte with EAGAIN.  The counter of an
\* eventfd adds up and is read as a whole, so above 0 its value is all one.
Signal ==
    \/ ~handle /\ UNCHANGED fd
    \/ handle /\ backend = "eventfd" /\ pending' = 1 /\ UNCHANGED handle
    \/ /\ handle /\ backend = "pipe" /\ pending < PipeCap
       /\ pending' = pending + 1
       /\ UNCHANGED handle
    \/ handle /\ backend = "pipe" /\ pending = PipeCap /\ Release

\* clear(): one read, which fails with EAGAIN when there is nothing to read.
Unread == IF backend = "pipe" /\ pending > ReadChunk THEN pending - ReadChunk ELSE 0

ClearHandle ==
    \/ ~handle /\ UNCHANGED fd
    \/ handle /\ pending > 0 /\ pending' = Unread /\ UNCHANGED handle
    \/ handle /\ pending = 0 /\ Release

-----------------------------------------------------------------------------
(* The pipeline's own steps: notify() is called inside the critical        *)
(* sections of push() and pull() and nowhere else.                         *)

NotifyStore(t) ==
    /\ PushStore(t)
    /\ IF count = 0 THEN Signal ELSE UNCHANGED fd
    /\ UNCHANGED backend

\* clear() of the handle after every pull(), not only one that empties.
NotifyTakeAlways(t) ==
    /\ PullTake(t)
    /\ ClearHandle
    /\ UNCHANGED backend

NotifyTake(t) ==
    /\ PullTake(t)
    /\ IF count = 1 THEN ClearHandle ELSE UNCHANGED fd
    /\ UNCHANGED backend

\* Everything else, drop(), clear() and close() included, leaves it alone.
Silent ==
    /\ \/ \E t \in Producers : PushWaits(t) \/ \E v \in Items : PushCall(t, v)
       \/ \E t \in Consumers : PullWaits(t) \/ PullCall(t)
       \/ \E t \in Managers : Drop(t) \/ DropIf(t) \/ Clear(t)
       \/ \E t \in Closers : Close(t) \/ CloseFirst(t)
       \/ \E t \in Threads : SpuriousWake(t)
    /\ UNCHANGED <<backend, fd>>

\* wait(): poll() interrupted by a signal handler fails like any error.
PollInterrupted ==
    /\ handle
    /\ Release
    /\ UNCHANGED <<vars, backend>>

NotifyNext ==
    \/ \E t \in Producers : NotifyStore(t)
    \/ \E t \in Consumers : NotifyTake(t)
    \/ Silent
    \/ PollInterrupted

NotifySpec == NotifyInit /\ [][NotifyNext]_notifyVars

-----------------------------------------------------------------------------
\* ItemsAnnounced: while the handle is open a pipeline that holds an item is
\* readable, so that a thread that waits by poll() alone misses none, though
\* items come and go through operations that do not touch the handle and a
\* pull() that empties the pipeline reads whatever earlier ones left.
ItemsAnnounced == handle /\ count > 0 => pending > 0

\* HandleLost: pull() never closes the handle by reading it when there is
\* nothing to read; it is lost only to an interrupted poll() or, in a build
\* with pipes, to a push() that finds the pipe full of signals nobody cleared.
HandleLost ==
    [][handle /\ ~handle' =>
         \/ UNCHANGED vars
         \/ count' = count + 1 /\ backend = "pipe" /\ pending = PipeCap]_notifyVars

\* ReadableHasItem: the handle is readable only while there is an item to pull
\* ("notify clears when emptied", src/pipeline.hpp:109).
ReadableHasItem == handle /\ pending > 0 => count > 0
=============================================================================
