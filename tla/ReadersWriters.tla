--------------------------- MODULE ReadersWriters ---------------------------
(***************************************************************************)
(* What hitycho::lock promises the threads of a program, without pointers, *)
(* moves or mutexes: a thread reads an object while no thread may write    *)
(* it, writes it while no other thread may do either, and reaches it at no *)
(* other time ("the idea that locking is access", FEATURES.md:53-54).      *)
(***************************************************************************)
CONSTANTS
    Threads,    \* those of the program
    Objects     \* what is protected

VARIABLES
    readers,    \* object -> threads that have it for reading
    writers,    \* object -> the thread that has it for writing, or none
    inside      \* object -> threads that are reaching it now

rwVars == <<readers, writers, inside>>

RWInit ==
    /\ readers = [o \in Objects |-> {}]
    /\ writers = [o \in Objects |-> {}]
    /\ inside = [o \in Objects |-> {}]

ToRead(t, o) ==
    /\ writers[o] = {}
    /\ t \notin readers[o]
    /\ readers' = [readers EXCEPT ![o] = @ \cup {t}]
    /\ UNCHANGED <<writers, inside>>

ToWrite(t, o) ==
    /\ writers[o] = {} /\ readers[o] = {}
    /\ writers' = [writers EXCEPT ![o] = {t}]
    /\ UNCHANGED <<readers, inside>>

\* A thread gives up an object it has, never while it is reaching it.
GiveUp(t, o) ==
    /\ t \in readers[o] \cup writers[o]
    /\ t \notin inside[o]
    /\ readers' = [readers EXCEPT ![o] = @ \ {t}]
    /\ writers' = [writers EXCEPT ![o] = @ \ {t}]
    /\ UNCHANGED inside

Reach(t, o) ==
    /\ t \in readers[o] \cup writers[o]
    /\ inside' = [inside EXCEPT ![o] = @ \cup {t}]
    /\ UNCHANGED <<readers, writers>>

Leave(t, o) ==
    /\ t \in inside[o]
    /\ inside' = [inside EXCEPT ![o] = @ \ {t}]
    /\ UNCHANGED <<readers, writers>>

RWNext ==
    \E t \in Threads, o \in Objects :
        ToRead(t, o) \/ ToWrite(t, o) \/ GiveUp(t, o) \/ Reach(t, o) \/ Leave(t, o)

RWSpec == RWInit /\ [][RWNext]_rwVars
=============================================================================
