------------------------------- MODULE Address ------------------------------
(***************************************************************************)
(* hitycho::socket::address (src/sockets.hpp): a sockaddr_storage that     *)
(* socket addresses of several families and lengths are written over, one  *)
(* after another.  The storage is a row of cells: the family, the port,    *)
(* and cells that each family gives its own meaning.  A sockaddr is the    *)
(* first cells of such a row.                                              *)
(***************************************************************************)
EXTENDS Integers, Sequences, FiniteSets, SequencesExt

CONSTANTS
    Names,      \* address objects
    Ports,      \* port numbers
    Hosts       \* contents of a cell of an address or a path

ASSUME AddressAssumption ==
    /\ 0 \in Ports
    /\ 0 \in Hosts

VARIABLES
    storage,    \* object -> its cells
    meant       \* history: object -> the sockaddr it was last given or made

addressVars == <<storage, meant>>

\* sockaddr_in has the address in cell 3 and zeros in cell 4; sockaddr_in6
\* has the flow in cell 3, its address in cells 4 and 5 and the scope in cell
\* 6; sockaddr_un has a path from cell 2 on.
addrlen(family) ==
    CASE family = "inet" -> 4 [] family = "inet6" -> 6 [] family = "unix" -> 7 [] OTHER -> 0

MaxLen == 7
Family(cells) == cells[1]
Zeroes == <<"unspec", 0, 0, 0, 0, 0, 0>>

\* What callers pass: socket addresses as the system makes them.  Those of
\* network interfaces name the scope of a link-local address.
Sockaddrs ==
    {<<"inet", p, h, 0>> : p \in Ports, h \in Hosts}
    \cup {<<"inet6", p, flow, h, k, scope>> :
             p \in Ports, flow \in Hosts, h \in Hosts, k \in Hosts, scope \in Hosts}
    \cup {<<"unix", h, h, k, k, k, k>> : h \in Hosts, k \in Hosts}
    \cup {<<"other">>, <<"unspec">>}

Overlay(cells, from, n) == [i \in 1..MaxLen |-> IF i <= n THEN from[i] ELSE cells[i]]
Whole(from) == Overlay(Zeroes, from, Len(from))

-----------------------------------------------------------------------------
(* Questions                                                               *)

port(cells) == IF Family(cells) \in {"inet", "inet6"} THEN cells[2] ELSE 0

is_any(cells) ==
    \/ Family(cells) = "unspec"
    \/ Family(cells) = "inet" /\ cells[3] = 0
    \/ Family(cells) = "inet6" /\ cells[4] = 0 /\ cells[5] = 0

valid(cells) ==
    /\ Family(cells) # "unspec"
    /\ Family(cells) \in {"inet", "inet6"} => port(cells) # 0

Compared(cells) == SubSeq(cells, 1, addrlen(Family(cells)))

Equal(a, b) == addrlen(Family(a)) = addrlen(Family(b)) /\ Compared(a) = Compared(b)
Unequal(a, b) == addrlen(Family(a)) = addrlen(Family(b)) /\ Compared(a) # Compared(b)

\* std::hash reads these cells.
Hashed(cells) == Compared(cells)

\* A text is <<host>> or <<host, port>>; a host is written by family and
\* cells, without the flow and the scope.  "*" stands for an unspecified
\* address; others have no text.
TextOf(cells) ==
    LET host == CASE Family(cells) = "unspec" -> <<"*">>
                  [] Family(cells) = "inet" -> <<"v4", cells[3]>>
                  [] Family(cells) = "inet6" -> <<"v6", cells[4], cells[5]>>
                  [] OTHER -> <<>>
    IN  IF port(cells) # 0 THEN <<host, port(cells)>> ELSE <<host>>

Texts ==
    {<<<<"*">>>>, <<<<"[*]">>>>} \cup {<<<<"v4", h>>>> : h \in Hosts}
    \cup {<<<<"v6", h, k>>>> : h \in Hosts, k \in Hosts}

\* A host with a port is refused, as is a host that inet_pton() cannot read.
from_string(text, p) ==
    LET host == text[1]
    IN  IF Len(text) > 1 \/ host = <<>> THEN <<>>
        ELSE CASE host[1] = "*" -> <<"inet", p, 0, 0>>
               [] host[1] = "[*]" -> <<"inet6", p, 0, 0, 0, 0>>
               [] host[1] = "v4" -> <<"inet", p, host[2], 0>>
               [] host[1] = "v6" -> <<"inet6", p, 0, host[2], host[3], 0>>

-----------------------------------------------------------------------------
(* Changes.  AssignAsInet takes no part in the specification: it is       *)
(* Assign with a slip that breaks a property.                              *)

Becomes(a, cells, value) ==
    /\ storage' = [storage EXCEPT ![a] = cells]
    /\ meant' = [meant EXCEPT ![a] = value]

AssignAsInet(a) ==
    \E from \in Sockaddrs :
        Becomes(a, Overlay(storage[a], from, Min({Len(from), 4})),
                IF addrlen(Family(from)) = 0 THEN meant[a] ELSE from)

\* assign(): a sockaddr of another family changes nothing.
Assign(a) ==
    \E from \in Sockaddrs :
        Becomes(a, Overlay(storage[a], from, addrlen(Family(from))),
                IF addrlen(Family(from)) = 0 THEN meant[a] ELSE from)

\* assign() of a null pointer clears all of the storage.
AssignNull(a) == Becomes(a, Zeroes, <<"unspec">>)

\* From an addrinfo: as many cells as it says, and none when it says none.
AssignInfo(a) ==
    \E from \in {s \in Sockaddrs : addrlen(Family(s)) # 0} :
        Becomes(a, Overlay(storage[a], from, Len(from)), from)

\* operator= and the constructor from a sockaddr_storage
AssignCopy(a) ==
    \/ \E b \in Names \ {a} : Becomes(a, storage[b], meant[b])
    \/ \E from \in Sockaddrs : Becomes(a, Whole(from), from)

AssignText(a) ==
    \E text \in Texts, p \in Ports :
        Becomes(a, Whole(from_string(text, p)), from_string(text, p))

\* port(value) throws for the families that have none.
SetPort(a, p) ==
    /\ Family(storage[a]) \in {"inet", "inet6"}
    /\ Becomes(a, [storage[a] EXCEPT ![2] = p], [meant[a] EXCEPT ![2] = p])

PortIf(a, p) == port(storage[a]) = 0 /\ SetPort(a, p)

FamilyIf(a) ==
    \E family \in {"inet", "inet6"} :
        /\ Family(storage[a]) = "unspec"
        /\ Becomes(a, [storage[a] EXCEPT ![1] = family],
                   SubSeq(<<family, 0, 0, 0, 0, 0>>, 1, addrlen(family)))

AddressInit ==
    /\ storage = [a \in Names |-> Zeroes]
    /\ meant = [a \in Names |-> <<"unspec">>]

AddressNext ==
    \E a \in Names :
        \/ Assign(a) \/ AssignNull(a) \/ AssignInfo(a) \/ AssignCopy(a) \/ AssignText(a)
        \/ \E p \in Ports : SetPort(a, p) \/ PortIf(a, p)
        \/ FamilyIf(a)

AddressSpec == AddressInit /\ [][AddressNext]_addressVars

-----------------------------------------------------------------------------
Known(value) == addrlen(Family(value)) # 0

\* A text says nothing of these cells of a sockaddr_in6.
TextWhole(cells) == Family(cells) = "inet6" => cells[3] = 0 /\ cells[6] = 0

\* AddressInv: every question about an address has the answer that the
\* sockaddr it was last given has, whatever longer one the storage held
\* before: what the shorter one left behind it is never compared, hashed or
\* written.  Addresses of one family are equal or unequal, and equal exactly
\* when they hash the same cells; those of two families are neither equal
\* nor, to operator!=, different; those of no known family are all equal.
\* A text without a port is read again, with the same text; to an equal
\* address exactly where there is no flow and no scope, which are compared and
\* hashed but never written: two link-local addresses that differ have one
\* text.  A text with a port cannot be read.
AddressInv ==
    \A a \in Names :
        LET cells == storage[a]
            clean == Whole(meant[a])
            again == from_string(TextOf(cells), 0)
        IN  /\ Compared(cells) = Compared(clean)
            /\ <<Family(cells), port(cells), is_any(cells), valid(cells), TextOf(cells)>>
                 = <<Family(clean), port(clean), is_any(clean), valid(clean), TextOf(clean)>>
            /\ Family(cells) \in {"inet", "inet6"} =>
                 IF port(cells) # 0 THEN again = <<>>
                 ELSE /\ again # <<>>
                      /\ TextOf(Whole(again)) = TextOf(cells)
                      /\ Equal(Whole(again), cells) <=> TextWhole(cells)
            /\ \A b \in Names :
                 /\ ~(Equal(cells, storage[b]) /\ Unequal(cells, storage[b]))
                 /\ Equal(cells, storage[b]) <=> (Hashed(cells) = Hashed(storage[b]))
                 /\ (Known(meant[a]) /\ Known(meant[b])) =>
                      (Equal(cells, storage[b]) <=> meant[a] = meant[b])
                 /\ (Known(meant[a]) /\ Family(meant[a]) # Family(meant[b])) =>
                      ~Equal(cells, storage[b]) /\ ~Unequal(cells, storage[b])
                 /\ ~Known(meant[a]) /\ ~Known(meant[b]) => Equal(cells, storage[b])
=============================================================================
