------------------------------- MODULE Handles ------------------------------
(***************************************************************************)
(* Owners of what the operating system lends: handle_t (src/system.hpp),   *)
(* which closes a descriptor, that of a socket included, and service and   *)
(* networks (src/resolver.hpp, src/networks.hpp), which free a list.       *)
(*                                                                         *)
(* The system gives a number or an address again as soon as it has it      *)
(* back, so that an owner which closes twice, or keeps what is closed,     *)
(* closes somebody else's: `lent` tells apart what had the same number at  *)
(* different times.                                                        *)
(***************************************************************************)
EXTENDS Integers, FiniteSets

CONSTANTS
    Owners,     \* variables of class handle_t, service or networks
    Lists,      \* those of them that are service or networks
    Numbers,    \* descriptors and addresses of lists
    Addresses,  \* those of them that are addresses
    MaxLoans    \* bound: times the system lends something

ASSUME HandlesAssumption ==
    /\ Lists \subseteq Owners
    /\ Numbers \subseteq Nat
    /\ Addresses \subseteq Numbers
    /\ MaxLoans \in Nat

Empty == -1     \* no descriptor, or nullptr

VARIABLES
    system,     \* number -> the loan that has it, or 0
    value,      \* owner -> handle_ or list_
    loan,       \* history: owner -> the loan it was given
    loose,      \* loans whose number the caller keeps in a variable of its own
    loans       \* history: loans so far

handleVars == <<system, value, loan, loose, loans>>

HandlesTypeOK ==
    /\ system \in [Numbers -> 0..MaxLoans]
    /\ value \in [Owners -> Numbers \cup {Empty}]
    /\ loan \in [Owners -> 0..MaxLoans]
    /\ loose \subseteq 1..MaxLoans
    /\ loans \in 0..MaxLoans

HandlesInit ==
    /\ system = [n \in Numbers |-> 0]
    /\ value = [h \in Owners |-> Empty]
    /\ loan = [h \in Owners |-> 0]
    /\ loose = {}
    /\ loans = 0

Fits(h, n) == (h \in Lists) = (n \in Addresses)

\* open(), socket(), dup(), getaddrinfo() or getifaddrs() has given n.
Lent(n) ==
    /\ loans < MaxLoans
    /\ system[n] = 0
    /\ loans' = loans + 1

\* What the system has after close(), release() or free..addr...(value[h]).
Returned(h) == IF value[h] = Empty THEN system ELSE [system EXCEPT ![value[h]] = 0]

-----------------------------------------------------------------------------
(* AssignKeeps takes no part in HandlesSpec: it is Assign with a slip that *)
(* breaks a property.                                                      *)

\* make_handle(), make_socket(), lookup() and networks(): a new value for h.
Make(h, n) ==
    /\ value[h] = Empty
    /\ Fits(h, n)
    /\ Lent(n)
    /\ system' = [system EXCEPT ![n] = loans + 1]
    /\ value' = [value EXCEPT ![h] = n]
    /\ loan' = [loan EXCEPT ![h] = loans + 1]
    /\ UNCHANGED loose

\* close() and the destructors.
Close(h) ==
    /\ system' = Returned(h)
    /\ value' = [value EXCEPT ![h] = Empty]
    /\ loan' = [loan EXCEPT ![h] = 0]
    /\ UNCHANGED <<loose, loans>>

\* handle_t::release(): the number is the caller's now.
ReleaseHandle(h) ==
    /\ h \notin Lists
    /\ value[h] # Empty
    /\ loose' = loose \cup {loan[h]}
    /\ value' = [value EXCEPT ![h] = Empty]
    /\ loan' = [loan EXCEPT ![h] = 0]
    /\ UNCHANGED <<system, loans>>

\* The caller has a number of its own, by clone() or from the system.
Obtain(n) ==
    /\ Lent(n)
    /\ system' = [system EXCEPT ![n] = loans + 1]
    /\ loose' = loose \cup {loans + 1}
    /\ UNCHANGED <<value, loan>>

AssignKeeps(h, n) ==
    /\ Fits(h, n)
    /\ system[n] \in loose
    /\ value' = [value EXCEPT ![h] = n]
    /\ loan' = [loan EXCEPT ![h] = system[n]]
    /\ loose' = loose \ {system[n]}
    /\ UNCHANGED <<system, loans>>

\* h = n: h closes what it had and takes a number that was the caller's.
Assign(h, n) ==
    /\ Fits(h, n)
    /\ system[n] \in loose
    /\ system' = Returned(h)
    /\ value' = [value EXCEPT ![h] = n]
    /\ loan' = [loan EXCEPT ![h] = system[n]]
    /\ loose' = loose \ {system[n]}
    /\ UNCHANGED loans

\* Lists are compared by what they point to, handles by their own address:
\* only what is the same object, or two empty lists, is left as it is.
Unaffected(h, g) == h = g \/ (h \in Lists /\ value[h] = value[g])

\* h = std::move(g), and the move constructor for an h that is empty.
MoveOwner(h, g) ==
    /\ (h \in Lists) = (g \in Lists)
    /\ ~Unaffected(h, g)
    /\ system' = Returned(h)
    /\ value' = [value EXCEPT ![h] = value[g], ![g] = Empty]
    /\ loan' = [loan EXCEPT ![h] = loan[g], ![g] = 0]
    /\ UNCHANGED <<loose, loans>>

\* The caller closes a number of its own.
CloseLoose(n) ==
    /\ system[n] \in loose
    /\ loose' = loose \ {system[n]}
    /\ system' = [system EXCEPT ![n] = 0]
    /\ UNCHANGED <<value, loan, loans>>

HandlesNext ==
    \/ \E h \in Owners, n \in Numbers : Make(h, n) \/ Assign(h, n)
    \/ \E h \in Owners : Close(h) \/ ReleaseHandle(h)
    \/ \E h, g \in Owners : MoveOwner(h, g)
    \/ \E n \in Numbers : Obtain(n) \/ CloseLoose(n)

HandlesSpec == HandlesInit /\ [][HandlesNext]_handleVars

-----------------------------------------------------------------------------
\* OwnedOnce: an owner's number is still that of the loan it was given, no loan
\* has two owners, and none is without one: nothing leaks, nothing is closed
\* twice, and nobody closes a number that has come to mean something else.
OwnedOnce ==
    /\ HandlesTypeOK
    /\ \A h \in Owners : IF value[h] = Empty THEN loan[h] = 0 ELSE
         system[value[h]] = loan[h] /\ loan[h] # 0
    /\ \A h, g \in Owners : h # g /\ loan[h] # 0 => loan[h] # loan[g]
    /\ \A n \in Numbers : system[n] # 0 =>
         system[n] \in loose <=> ~\E h \in Owners : loan[h] = system[n]
=============================================================================
