----------------------------- MODULE DataProofs -----------------------------
(***************************************************************************)
(* Proofs about addresses, the buffers of streams, and views of byte       *)
(* arrays and their text, whatever the contents and the sizes.             *)
(***************************************************************************)
EXTENDS Address, MemoryBuf, Binary, SequenceProofs

-----------------------------------------------------------------------------
(* Addresses.                                                              *)

Families == {"inet", "inet6", "unix", "other", "unspec"}
Cell == Families \cup Ports \cup Hosts

\* The cells of an address begin with those of the sockaddr that it stands
\* for; an address that stands for none has nothing left of an earlier one.
AddressOf(cells, value) ==
    /\ Family(cells) = Family(value)
    /\ \A i \in 1..addrlen(Family(value)) : cells[i] = value[i]
    /\ Family(value) = "unspec" => cells = Zeroes

AddressIInv ==
    /\ storage \in [Names -> [1..MaxLen -> Cell]]
    /\ meant \in [Names -> Sockaddrs]
    /\ \A a \in Names : AddressOf(storage[a], meant[a])

LEMMA SockaddrForms ==
    ASSUME NEW s \in Sockaddrs
    PROVE  \/ \E p \in Ports, h \in Hosts : s = <<"inet", p, h, 0>>
           \/ \E p \in Ports, f, h, k, z \in Hosts : s = <<"inet6", p, f, h, k, z>>
           \/ \E h, k \in Hosts : s = <<"unix", h, h, k, k, k, k>>
           \/ s = <<"other">>
           \/ s = <<"unspec">>
BY DEF Sockaddrs

LEMMA SockaddrFacts ==
    ASSUME NEW s \in Sockaddrs
    PROVE  /\ s \in Seq(Cell)
           /\ Family(s) \in Families
           /\ Len(s) \in 1..7
           /\ Known(s) => Len(s) = addrlen(Family(s))
           /\ ~Known(s) => Len(s) = 1
           /\ addrlen(Family(s)) <= Len(s)
           /\ Known(s) <=> Family(s) \in {"inet", "inet6", "unix"}
           /\ addrlen(Family(s)) \in {0, 4, 6, 7}
<1> USE AddressAssumption DEF Families, Cell, Family, Known, addrlen
<1>1. CASE \E p \in Ports, h \in Hosts : s = <<"inet", p, h, 0>>
  BY <1>1
<1>2. CASE \E p \in Ports, f, h, k, z \in Hosts : s = <<"inet6", p, f, h, k, z>>
  BY <1>2
<1>3. CASE \E h, k \in Hosts : s = <<"unix", h, h, k, k, k, k>>
  BY <1>3
<1>4. CASE s = <<"other">>
  BY <1>4
<1>5. CASE s = <<"unspec">>
  BY <1>5
<1> QED
  BY <1>1, <1>2, <1>3, <1>4, <1>5, SockaddrForms

\* Writing a sockaddr over a row of cells.
LEMMA OverlayFacts ==
    ASSUME NEW cells \in [1..MaxLen -> Cell], NEW s \in Sockaddrs, NEW n \in 0..MaxLen, n <= Len(s)
    PROVE  /\ Overlay(cells, s, n) \in [1..MaxLen -> Cell]
           /\ \A i \in 1..n : Overlay(cells, s, n)[i] = s[i]
           /\ n = 0 => Overlay(cells, s, n) = cells
<1>1. \A i \in 1..n : s[i] \in Cell
  BY SockaddrFacts
<1>2. Overlay(cells, s, n) \in [1..MaxLen -> Cell]
  BY <1>1 DEF Overlay, MaxLen
<1>3. \A i \in 1..n : Overlay(cells, s, n)[i] = s[i]
  BY DEF Overlay, MaxLen
<1>4. n = 0 => Overlay(cells, s, n) = cells
  BY <1>2 DEF Overlay, MaxLen
<1> QED
  BY <1>2, <1>3, <1>4

LEMMA ZeroCells == Zeroes \in [1..MaxLen -> Cell] /\ Family(Zeroes) = "unspec"
BY AddressAssumption DEF Zeroes, MaxLen, Cell, Families, Family

LEMMA SameRow ==
    ASSUME NEW f \in [1..MaxLen -> Cell], NEW g \in [1..MaxLen -> Cell],
           \A i \in 1..MaxLen : f[i] = g[i]
    PROVE  f = g
<1>1. f = [i \in 1..MaxLen |-> f[i]] /\ g = [i \in 1..MaxLen |-> g[i]]
  OBVIOUS
<1>2. [i \in 1..MaxLen |-> f[i]] = [i \in 1..MaxLen |-> g[i]]
  OBVIOUS
<1> QED
  BY <1>1, <1>2

LEMMA WholeFacts ==
    ASSUME NEW s \in Sockaddrs
    PROVE  Whole(s) \in [1..MaxLen -> Cell] /\ AddressOf(Whole(s), s)
<1> DEFINE n == Len(s)
<1>1. n \in 1..7 /\ addrlen(Family(s)) <= n /\ Family(s) = s[1] /\ addrlen(Family(s)) \in Nat
  BY SockaddrFacts DEF Family
<1>2. /\ Whole(s) \in [1..MaxLen -> Cell]
      /\ \A i \in 1..n : Whole(s)[i] = s[i]
  <2> HIDE DEF n
  <2>1. n \in 0..MaxLen /\ n <= n
    BY <1>1 DEF MaxLen
  <2> QED
    BY <2>1, ZeroCells, OverlayFacts DEF Whole, n
<1> HIDE DEF n
<1>3. Family(Whole(s)) = Family(s)
  BY <1>1, <1>2 DEF Family
<1>4. ASSUME Family(s) = "unspec"
      PROVE  Whole(s) = Zeroes
  <2>1. n = 1 /\ s[1] = "unspec"
    BY <1>4, <1>1, SockaddrFacts DEF n
  <2>2. \A i \in 1..MaxLen : Whole(s)[i] = Zeroes[i]
    BY <2>1, <1>2 DEF Whole, Overlay, Zeroes, MaxLen, n
  <2> QED
    BY <1>2, <2>2, ZeroCells, SameRow, Zenon
<1>5. \A i \in 1..addrlen(Family(s)) : Whole(s)[i] = s[i]
  BY <1>1, <1>2
<1> QED
  BY <1>2, <1>3, <1>4, <1>5 DEF AddressOf

LEMMA TextsName ==
    ASSUME NEW t \in Texts, NEW p \in Ports
    PROVE  from_string(t, p) \in Sockaddrs
<1>1. CASE t = <<<<"*">>>>
  BY <1>1, AddressAssumption DEF from_string, Sockaddrs
<1>2. CASE t = <<<<"[*]">>>>
  BY <1>2, AddressAssumption DEF from_string, Sockaddrs
<1>3. CASE \E h \in Hosts : t = <<<<"v4", h>>>>
  BY <1>3, AddressAssumption DEF from_string, Sockaddrs
<1>4. CASE \E h, k \in Hosts : t = <<<<"v6", h, k>>>>
  BY <1>4, AddressAssumption DEF from_string, Sockaddrs
<1> QED
  BY <1>1, <1>2, <1>3, <1>4 DEF Texts

\* A step that gives one object cells and the sockaddr they stand for.
LEMMA BecomesKeeps ==
    ASSUME AddressIInv, NEW a \in Names, NEW cells \in [1..MaxLen -> Cell], NEW value \in Sockaddrs,
           AddressOf(cells, value), Becomes(a, cells, value)
    PROVE  AddressIInv'
BY DEF AddressIInv, Becomes

LEMMA OverlaidIs ==
    ASSUME NEW cells \in [1..MaxLen -> Cell], NEW s \in Sockaddrs, Known(s)
    PROVE  /\ Overlay(cells, s, Len(s)) \in [1..MaxLen -> Cell]
           /\ AddressOf(Overlay(cells, s, Len(s)), s)
<1> DEFINE n == Len(s)
<1>1. n \in 1..7 /\ addrlen(Family(s)) = n /\ Family(s) \in {"inet", "inet6", "unix"}
  BY SockaddrFacts
<1>2. n \in 0..MaxLen /\ n <= n
  BY <1>1 DEF MaxLen
<1> HIDE DEF n
<1>3. /\ Overlay(cells, s, n) \in [1..MaxLen -> Cell]
      /\ \A i \in 1..n : Overlay(cells, s, n)[i] = s[i]
  BY <1>2, OverlayFacts DEF n
<1>4. AddressOf(Overlay(cells, s, n), s)
  BY <1>1, <1>3 DEF AddressOf, Family
<1> QED
  BY <1>3, <1>4 DEF n

\* An address with a port, or one with none yet, is given another port or a
\* family.
LEMMA PortIsSet ==
    ASSUME NEW c \in [1..MaxLen -> Cell], NEW s \in Sockaddrs, AddressOf(c, s),
           Family(c) \in {"inet", "inet6"}, NEW p \in Ports
    PROVE  /\ [c EXCEPT ![2] = p] \in [1..MaxLen -> Cell]
           /\ [s EXCEPT ![2] = p] \in Sockaddrs
           /\ AddressOf([c EXCEPT ![2] = p], [s EXCEPT ![2] = p])
<1>1. [c EXCEPT ![2] = p] \in [1..MaxLen -> Cell]
  BY DEF Cell, MaxLen
<1>2. Family(s) \in {"inet", "inet6"} /\ \A i \in 1..addrlen(Family(s)) : c[i] = s[i]
  BY DEF AddressOf
<1>3. CASE \E q \in Ports, h \in Hosts : s = <<"inet", q, h, 0>>
  <2>1. PICK q \in Ports, h \in Hosts : s = <<"inet", q, h, 0>>
    BY <1>3
  <2>2. [s EXCEPT ![2] = p] = <<"inet", p, h, 0>>
    BY <2>1
  <2>3. AddressOf([c EXCEPT ![2] = p], [s EXCEPT ![2] = p])
    BY <1>2, <2>1, <2>2 DEF AddressOf, Family, addrlen, MaxLen
  <2> QED
    BY <1>1, <2>2, <2>3 DEF Sockaddrs
<1>4. CASE \E q \in Ports, f, h, k, z \in Hosts : s = <<"inet6", q, f, h, k, z>>
  <2>1. PICK q \in Ports, f \in Hosts, h \in Hosts, k \in Hosts, z \in Hosts :
            s = <<"inet6", q, f, h, k, z>>
    BY <1>4
  <2>2. [s EXCEPT ![2] = p] = <<"inet6", p, f, h, k, z>>
    BY <2>1
  <2>3. AddressOf([c EXCEPT ![2] = p], [s EXCEPT ![2] = p])
    BY <1>2, <2>1, <2>2 DEF AddressOf, Family, addrlen, MaxLen
  <2> QED
    BY <1>1, <2>2, <2>3 DEF Sockaddrs
<1> QED
  BY <1>2, <1>3, <1>4, SockaddrForms DEF Family

LEMMA FamilyIsSet ==
    ASSUME NEW family \in {"inet", "inet6"}
    PROVE  LET c == [Zeroes EXCEPT ![1] = family]
               s == SubSeq(<<family, 0, 0, 0, 0, 0>>, 1, addrlen(family))
           IN  c \in [1..MaxLen -> Cell] /\ s \in Sockaddrs /\ AddressOf(c, s)
<1>1. [Zeroes EXCEPT ![1] = family] \in [1..MaxLen -> Cell]
  BY ZeroCells DEF Cell, Families, MaxLen
<1>2. CASE family = "inet"
  <2>1. SubSeq(<<family, 0, 0, 0, 0, 0>>, 1, addrlen(family)) = <<"inet", 0, 0, 0>>
    <3> DEFINE s == <<family, 0, 0, 0, 0, 0>>
               t == <<"inet", 0, 0, 0>>
    <3>1. /\ s \in Seq({family, 0}) /\ t \in Seq({family, 0})
          /\ Len(t) <= Len(s) /\ \A i \in 1..Len(t) : s[i] = t[i]
          /\ Len(t) = addrlen(family)
      BY <1>2 DEF addrlen
    <3> QED
      BY <3>1, FirstOf
  <2> QED
    BY <1>1, <1>2, <2>1, AddressAssumption DEF AddressOf, Sockaddrs, Family, addrlen, Zeroes
<1>3. CASE family = "inet6"
  <2>1. SubSeq(<<family, 0, 0, 0, 0, 0>>, 1, addrlen(family)) = <<"inet6", 0, 0, 0, 0, 0>>
    <3> DEFINE s == <<family, 0, 0, 0, 0, 0>>
               t == <<"inet6", 0, 0, 0, 0, 0>>
    <3>1. /\ s \in Seq({family, 0}) /\ t \in Seq({family, 0})
          /\ Len(t) <= Len(s) /\ \A i \in 1..Len(t) : s[i] = t[i]
          /\ Len(t) = addrlen(family)
      BY <1>3 DEF addrlen
    <3> QED
      BY <3>1, FirstOf
  <2> QED
    BY <1>1, <1>3, <2>1, AddressAssumption DEF AddressOf, Sockaddrs, Family, addrlen, Zeroes
<1> QED
  BY <1>2, <1>3

LEMMA AddressStep == AddressIInv /\ [AddressNext]_addressVars => AddressIInv'
<1> SUFFICES ASSUME AddressIInv, [AddressNext]_addressVars
             PROVE  AddressIInv'
  OBVIOUS
<1> USE DEF AddressIInv
<1>1. ASSUME NEW a \in Names, Assign(a)
      PROVE  AddressIInv'
  <2>1. PICK from \in Sockaddrs :
            Becomes(a, Overlay(storage[a], from, addrlen(Family(from))),
                    IF addrlen(Family(from)) = 0 THEN meant[a] ELSE from)
    BY <1>1 DEF Assign
  <2>2. CASE Known(from)
    <3>1. addrlen(Family(from)) = Len(from) /\ addrlen(Family(from)) # 0
      BY <2>2, SockaddrFacts DEF Known
    <3> QED
      BY <2>1, <2>2, <3>1, OverlaidIs, BecomesKeeps
  <2>3. CASE ~Known(from)
    <3>1. addrlen(Family(from)) = 0 /\ 0 <= Len(from) /\ 0 \in 0..MaxLen
      BY <2>3, SockaddrFacts DEF Known, MaxLen
    <3>2. Overlay(storage[a], from, 0) = storage[a]
      BY <3>1, OverlayFacts
    <3> QED
      BY <2>1, <3>1, <3>2, BecomesKeeps
  <2> QED
    BY <2>2, <2>3
<1>2. ASSUME NEW a \in Names, AssignNull(a)
      PROVE  AddressIInv'
  <2>1. <<"unspec">> \in Sockaddrs /\ AddressOf(Zeroes, <<"unspec">>)
    BY DEF Sockaddrs, AddressOf, Family, addrlen, Zeroes
  <2> QED
    BY <1>2, <2>1, ZeroCells, BecomesKeeps DEF AssignNull
<1>3. ASSUME NEW a \in Names, AssignInfo(a)
      PROVE  AddressIInv'
  BY <1>3, OverlaidIs, BecomesKeeps DEF AssignInfo, Known
<1>4. ASSUME NEW a \in Names, AssignCopy(a)
      PROVE  AddressIInv'
  BY <1>4, WholeFacts, BecomesKeeps DEF AssignCopy
<1>5. ASSUME NEW a \in Names, AssignText(a)
      PROVE  AddressIInv'
  BY <1>5, TextsName, WholeFacts, BecomesKeeps DEF AssignText
<1>6. ASSUME NEW a \in Names, NEW p \in Ports, SetPort(a, p)
      PROVE  AddressIInv'
  BY <1>6, PortIsSet, BecomesKeeps DEF SetPort
<1>7. ASSUME NEW a \in Names, FamilyIf(a)
      PROVE  AddressIInv'
  <2>1. storage[a] = Zeroes
    BY <1>7 DEF FamilyIf, AddressOf
  <2> QED
    BY <1>7, <2>1, FamilyIsSet, BecomesKeeps DEF FamilyIf
<1>8. CASE UNCHANGED addressVars
  BY <1>8 DEF addressVars
<1> QED
  BY <1>1, <1>2, <1>3, <1>4, <1>5, <1>6, <1>7, <1>8 DEF AddressNext, PortIf

\* What is compared and hashed is the sockaddr itself, of a known family.
LEMMA ComparedIs ==
    ASSUME NEW c \in [1..MaxLen -> Cell], NEW s \in Sockaddrs, AddressOf(c, s)
    PROVE  Compared(c) = IF Known(s) THEN s ELSE <<>>
<1>1. /\ c \in Seq(Cell) /\ Len(c) = 7
      /\ Family(c) = Family(s)
      /\ \A i \in 1..addrlen(Family(s)) : c[i] = s[i]
  <2>1. c \in [1..7 -> Cell] /\ 7 \in Nat
    BY DEF MaxLen
  <2> QED
    BY <2>1, RowIsSeq DEF AddressOf
<1>2. CASE Known(s)
  <2>1. s \in Seq(Cell) /\ Len(s) = addrlen(Family(s)) /\ Len(s) <= 7
    BY <1>2, SockaddrFacts
  <2>2. SubSeq(c, 1, Len(s)) = s
    BY <1>1, <2>1, FirstOf
  <2> QED
    BY <1>1, <1>2, <2>1, <2>2 DEF Compared
<1>3. CASE ~Known(s)
  BY <1>1, <1>3, SubSeqEmpty DEF Compared, Known
<1> QED
  BY <1>2, <1>3

\* Cells that stand for one sockaddr answer alike.
LEMMA AnswersAgree ==
    ASSUME NEW c \in [1..MaxLen -> Cell], NEW d \in [1..MaxLen -> Cell], NEW s \in Sockaddrs,
           AddressOf(c, s), AddressOf(d, s)
    PROVE  <<Family(c), port(c), is_any(c), valid(c), TextOf(c)>>
             = <<Family(d), port(d), is_any(d), valid(d), TextOf(d)>>
<1>1. Family(c) = Family(s) /\ Family(d) = Family(s)
  BY DEF AddressOf
<1>2. \A i \in 1..addrlen(Family(s)) : c[i] = d[i]
  BY DEF AddressOf
<1>3. CASE Family(s) = "unspec"
  BY <1>3 DEF AddressOf
<1>4. CASE Family(s) = "inet"
  <2>1. c[1] = d[1] /\ c[2] = d[2] /\ c[3] = d[3]
    BY <1>2, <1>4 DEF addrlen
  <2> QED
    BY <1>1, <1>4, <2>1 DEF port, is_any, valid, TextOf
<1>5. CASE Family(s) = "inet6"
  <2>1. c[1] = d[1] /\ c[2] = d[2] /\ c[4] = d[4] /\ c[5] = d[5]
    BY <1>2, <1>5 DEF addrlen
  <2> QED
    BY <1>1, <1>5, <2>1 DEF port, is_any, valid, TextOf
<1>6. CASE Family(s) \in {"unix", "other"}
  BY <1>1, <1>6 DEF port, is_any, valid, TextOf
<1> QED
  BY <1>3, <1>4, <1>5, <1>6, SockaddrFacts DEF Families

\* The text of an address without a port is read to what it says of it.
LEMMA TextSays ==
    ASSUME NEW c \in [1..MaxLen -> Cell], NEW s \in Sockaddrs, AddressOf(c, s),
           Family(c) \in {"inet", "inet6"}, port(c) = 0
    PROVE  LET again == from_string(TextOf(c), 0)
           IN  /\ again \in Sockaddrs
               /\ Family(again) = Family(s)
               /\ TextOf(Whole(again)) = TextOf(c)
               /\ again = s <=> TextWhole(c)
<1>1. Family(c) = Family(s) /\ \A i \in 1..addrlen(Family(s)) : c[i] = s[i]
  BY DEF AddressOf
<1>2. CASE \E p \in Ports, h \in Hosts : s = <<"inet", p, h, 0>>
  <2>1. PICK p \in Ports, h \in Hosts : s = <<"inet", p, h, 0>>
    BY <1>2
  <2>2. Family(c) = "inet" /\ c[2] = p /\ c[3] = h
    BY <1>1, <2>1 DEF Family, addrlen
  <2>3. p = 0 /\ TextOf(c) = <<<<"v4", h>>>>
    BY <2>2 DEF port, TextOf
  <2>4. from_string(<<<<"v4", h>>>>, 0) = s
    BY <2>1, <2>3 DEF from_string
  <2>5. TextOf(Whole(s)) = TextOf(c)
    BY WholeFacts, AnswersAgree
  <2> QED
    BY <2>2, <2>3, <2>4, <2>5 DEF TextWhole
<1>3. CASE \E p \in Ports, f, h, k, z \in Hosts : s = <<"inet6", p, f, h, k, z>>
  <2>1. PICK p \in Ports, f \in Hosts, h \in Hosts, k \in Hosts, z \in Hosts :
            s = <<"inet6", p, f, h, k, z>>
    BY <1>3
  <2>2. Family(c) = "inet6" /\ c[2] = p /\ c[3] = f /\ c[4] = h /\ c[5] = k /\ c[6] = z
    BY <1>1, <2>1 DEF Family, addrlen
  <2>3. p = 0 /\ TextOf(c) = <<<<"v6", h, k>>>>
    BY <2>2 DEF port, TextOf
  <2> DEFINE again == <<"inet6", 0, 0, h, k, 0>>
  <2>4. from_string(<<<<"v6", h, k>>>>, 0) = again
    BY DEF from_string
  <2>5. again \in Sockaddrs /\ Family(again) = "inet6" /\ Family(s) = "inet6"
    BY <2>1, AddressAssumption DEF Sockaddrs, Family
  <2>6. TextOf(Whole(again)) = <<<<"v6", h, k>>>>
    <3>1. AddressOf(Whole(again), again)
      BY <2>5, WholeFacts
    <3>2. /\ Family(Whole(again)) = "inet6" /\ Whole(again)[2] = 0
          /\ Whole(again)[4] = h /\ Whole(again)[5] = k
      BY <2>5, <3>1 DEF AddressOf, addrlen
    <3> QED
      BY <3>2 DEF TextOf, port
  <2>7. again = s <=> f = 0 /\ z = 0
    BY <2>1, <2>3
  <2> QED
    BY <2>2, <2>3, <2>4, <2>5, <2>6, <2>7 DEF TextWhole
<1> QED
  BY <1>1, <1>2, <1>3, SockaddrForms DEF Family

\* What is read from the text of an address equals it where the text says all.
LEMMA TextMakesAgain ==
    ASSUME NEW c \in [1..MaxLen -> Cell], NEW s \in Sockaddrs, AddressOf(c, s),
           Family(c) \in {"inet", "inet6"}
    PROVE  LET again == from_string(TextOf(c), 0)
           IN  IF port(c) # 0 THEN again = <<>>
               ELSE /\ again # <<>>
                    /\ TextOf(Whole(again)) = TextOf(c)
                    /\ Equal(Whole(again), c) <=> TextWhole(c)
<1> DEFINE again == from_string(TextOf(c), 0)
<1>1. CASE port(c) # 0
  <2>1. Len(TextOf(c)) = 2
    BY <1>1 DEF TextOf
  <2> QED
    BY <1>1, <2>1 DEF from_string
<1>2. CASE port(c) = 0
  <2>1. /\ again \in Sockaddrs
        /\ Family(again) = Family(s)
        /\ TextOf(Whole(again)) = TextOf(c)
        /\ again = s <=> TextWhole(c)
    BY <1>2, TextSays
  <2> HIDE DEF again
  <2>2. Family(c) = Family(s) /\ Known(s) /\ Known(again) /\ Len(again) # 0
    BY <2>1, SockaddrFacts DEF AddressOf, Known, addrlen
  <2>3. /\ Family(Whole(again)) = Family(c)
        /\ Compared(Whole(again)) = again
        /\ Compared(c) = s
    BY <2>1, <2>2, WholeFacts, ComparedIs DEF AddressOf
  <2>4. Equal(Whole(again), c) <=> again = s
    BY <2>3 DEF Equal
  <2>5. again # <<>>
    BY <2>2
  <2> QED
    BY <1>2, <2>1, <2>4, <2>5 DEF again
<1> QED
  BY <1>1, <1>2

LEMMA AddressesSound == AddressIInv => AddressInv
<1> SUFFICES ASSUME AddressIInv, NEW a \in Names
             PROVE  LET cells == storage[a]
                        clean == Whole(meant[a])
                        again == from_string(TextOf(cells), 0)
                    IN  /\ Compared(cells) = Compared(clean)
                        /\ <<Family(cells), port(cells), is_any(cells), valid(cells), TextOf(cells)>>
                             = <<Family(clean), port(clean), is_any(clean), valid(clean), TextOf(clean)>>
                        /\ Family(cells) \in {"inet", "inet6"} =>
                             IF port(cells) # 0 THEN again = <<>>
                             ELSE /\ again # <<>>
                                  /\ TextOf(Whole(again)) = TextOf(cells)
                                  /\ Equal(Whole(again), cells) <=> TextWhole(cells)
                        /\ \A b \in Names :
                             /\ ~(Equal(cells, storage[b]) /\ Unequal(cells, storage[b]))
                             /\ Equal(cells, storage[b]) <=> (Hashed(cells) = Hashed(storage[b]))
                             /\ (Known(meant[a]) /\ Known(meant[b])) =>
                                  (Equal(cells, storage[b]) <=> meant[a] = meant[b])
                             /\ (Known(meant[a]) /\ Family(meant[a]) # Family(meant[b])) =>
                                  ~Equal(cells, storage[b]) /\ ~Unequal(cells, storage[b])
                             /\ ~Known(meant[a]) /\ ~Known(meant[b]) => Equal(cells, storage[b])
  BY DEF AddressInv
<1> DEFINE c == storage[a]
           s == meant[a]
<1>1. /\ c \in [1..MaxLen -> Cell] /\ s \in Sockaddrs /\ AddressOf(c, s)
      /\ Whole(s) \in [1..MaxLen -> Cell] /\ AddressOf(Whole(s), s)
  BY WholeFacts DEF AddressIInv
<1>2. Compared(c) = Compared(Whole(s))
  BY <1>1, ComparedIs
<1>3. <<Family(c), port(c), is_any(c), valid(c), TextOf(c)>>
        = <<Family(Whole(s)), port(Whole(s)), is_any(Whole(s)), valid(Whole(s)), TextOf(Whole(s))>>
  BY <1>1, AnswersAgree
<1>4. Family(c) \in {"inet", "inet6"} =>
        LET again == from_string(TextOf(c), 0)
        IN  IF port(c) # 0 THEN again = <<>>
            ELSE /\ again # <<>>
                 /\ TextOf(Whole(again)) = TextOf(c)
                 /\ Equal(Whole(again), c) <=> TextWhole(c)
  BY <1>1, TextMakesAgain
<1>5. ASSUME NEW b \in Names
      PROVE  /\ ~(Equal(c, storage[b]) /\ Unequal(c, storage[b]))
             /\ Equal(c, storage[b]) <=> (Hashed(c) = Hashed(storage[b]))
             /\ (Known(s) /\ Known(meant[b])) => (Equal(c, storage[b]) <=> s = meant[b])
             /\ (Known(s) /\ Family(s) # Family(meant[b])) =>
                  ~Equal(c, storage[b]) /\ ~Unequal(c, storage[b])
             /\ ~Known(s) /\ ~Known(meant[b]) => Equal(c, storage[b])
  <2> DEFINE d == storage[b]
             t == meant[b]
  <2>1. d \in [1..MaxLen -> Cell] /\ t \in Sockaddrs /\ AddressOf(d, t)
    BY DEF AddressIInv
  <2>2. /\ Compared(c) = IF Known(s) THEN s ELSE <<>>
        /\ Compared(d) = IF Known(t) THEN t ELSE <<>>
        /\ Family(c) = Family(s) /\ Family(d) = Family(t)
    BY <1>1, <2>1, ComparedIs DEF AddressOf
  <2>3. /\ s \in Seq(Cell) /\ t \in Seq(Cell)
        /\ Known(s) => Len(s) = addrlen(Family(s)) /\ Len(s) # 0
        /\ Known(t) => Len(t) = addrlen(Family(t)) /\ Len(t) # 0
        /\ ~Known(s) => addrlen(Family(s)) = 0
        /\ ~Known(t) => addrlen(Family(t)) = 0
    BY <1>1, <2>1, SockaddrFacts DEF Known
  <2>4. (Known(s) /\ Family(s) # Family(t)) => addrlen(Family(s)) # addrlen(Family(t))
    BY <1>1, <2>1, SockaddrFacts DEF Known, addrlen, Families
  <2>5. Compared(c) = Compared(d) <=> addrlen(Family(c)) = addrlen(Family(d)) /\ Compared(c) = Compared(d)
    BY <2>2, <2>3
  <2> HIDE DEF c, s, d, t
  <2>6. /\ ~(Equal(c, d) /\ Unequal(c, d))
        /\ Equal(c, d) <=> (Hashed(c) = Hashed(d))
        /\ (Known(s) /\ Known(t)) => (Equal(c, d) <=> s = t)
        /\ (Known(s) /\ Family(s) # Family(t)) => ~Equal(c, d) /\ ~Unequal(c, d)
        /\ ~Known(s) /\ ~Known(t) => Equal(c, d)
    BY <2>2, <2>3, <2>4, <2>5 DEF Equal, Unequal, Hashed
  <2> QED
    BY <2>6 DEF c, s, d, t
<1> QED
  BY <1>2, <1>3, <1>4, <1>5

\* AddressesAnswerAlike: whatever sequence of calls wrote over an address,
\* with sockaddrs of whatever families and lengths, every question about it
\* has the answer of the sockaddr it was last given, comparisons and hashes
\* agree, and a text is read again to an equal address exactly where the
\* address has neither a flow nor a scope, which texts leave out.
THEOREM AddressesAnswerAlike == AddressSpec => []AddressInv
<1>1. AddressInit => AddressIInv
  <2> SUFFICES ASSUME AddressInit
               PROVE  AddressIInv
    OBVIOUS
  <2>1. <<"unspec">> \in Sockaddrs /\ AddressOf(Zeroes, <<"unspec">>)
    BY DEF Sockaddrs, AddressOf, Family, addrlen, Zeroes
  <2> QED
    BY <2>1, ZeroCells DEF AddressInit, AddressIInv
<1> QED
  BY <1>1, AddressStep, AddressesSound, PTL DEF AddressSpec

-----------------------------------------------------------------------------
(* The buffers of streams.                                                 *)

\* An input is read forward and never written; an output has zeros behind
\* what it has accepted.
InputInv ==
    /\ gptr \in 0..egptr
    /\ egptr = Len(memory) /\ size_ = Len(memory)
    /\ epptr = NullPtr
    /\ taken = Between(0, gptr)
    /\ \A view \in viewed : view.delim # <<>> => ~Holds(view.text, view.delim)

OutputInv ==
    /\ gptr = NullPtr /\ egptr = NullPtr /\ size_ = 0
    /\ Len(memory) = Capacity + 1 /\ epptr = Capacity
    /\ pptr \in 0..Capacity
    /\ written = Between(0, pptr)
    /\ \A i \in (pptr + 1)..(Capacity + 1) : memory[i] = Zero
    /\ refused > 0 => pptr = Capacity
    /\ taken = <<>>

BufferIInv ==
    /\ memory \in Seq(Characters)
    /\ refused \in Nat
    /\ input => InputInv
    /\ ~input => OutputInv

LEMMA BetweenFacts ==
    ASSUME memory \in Seq(Characters), NEW i \in Nat, NEW j \in i..Len(memory)
    PROVE  /\ Between(i, j) \in Seq(Characters)
           /\ Len(Between(i, j)) = j - i
           /\ \A k \in 1..(j - i) : Between(i, j)[k] = memory[i + k]
<1>1. Len(memory) \in Nat
  BY LenProperties
<1>2. \A k \in (i + 1)..j : memory[k] \in Characters
  BY <1>1, ElementOfSeq
<1>3. /\ Between(i, j) \in Seq(Characters)
      /\ Len(Between(i, j)) = IF i + 1 <= j THEN j - (i + 1) + 1 ELSE 0
      /\ \A k \in 1..(j - (i + 1) + 1) : Between(i, j)[k] = memory[(i + 1) + k - 1]
  BY <1>1, <1>2, SubSeqProperties DEF Between
<1> QED
  BY <1>1, <1>3

LEMMA PrefixFacts ==
    ASSUME memory \in Seq(Characters), NEW p \in 0..Len(memory)
    PROVE  /\ Between(0, p) \in Seq(Characters)
           /\ Len(Between(0, p)) = p
           /\ \A k \in 1..p : Between(0, p)[k] = memory[k]
<1>1. Len(memory) \in Nat
  BY LenProperties
<1>2. \A k \in 1..p : memory[k] \in Characters
  BY <1>1, ElementOfSeq
<1>3. /\ Between(0, p) \in Seq(Characters)
      /\ Len(Between(0, p)) = IF 1 <= p THEN p - 1 + 1 ELSE 0
      /\ \A k \in 1..(p - 1 + 1) : Between(0, p)[k] = memory[1 + k - 1]
  BY <1>1, <1>2, SubSeqProperties DEF Between
<1> QED
  BY <1>1, <1>3

LEMMA BetweenJoined ==
    ASSUME memory \in Seq(Characters), NEW i \in Nat, NEW k \in i..Len(memory), NEW j \in k..Len(memory)
    PROVE  Between(i, k) \o Between(k, j) = Between(i, j)
<1>1. Len(memory) \in Nat
  BY LenProperties
<1>2. i + 1 \in 1..(Len(memory) + 1) /\ k \in (i + 1 - 1)..Len(memory) /\ j \in k..Len(memory)
  BY <1>1
<1> QED
  BY <1>2, ConcatAdjacentSubSeq DEF Between

\* The place of the first delimiter, when there is one.
LEMMA EndsFacts ==
    ASSUME memory \in Seq(Characters), gptr \in 0..egptr, egptr = Len(memory),
           NEW delim \in Seq(Characters), Ends(delim) # {}
    PROVE  /\ Min(Ends(delim)) \in gptr..(egptr - Len(delim))
           /\ Between(Min(Ends(delim)), Min(Ends(delim)) + Len(delim)) = delim
           /\ \A end \in Ends(delim) : Min(Ends(delim)) <= end
<1>1. Len(delim) \in Nat /\ egptr \in Nat
  BY LenProperties
<1>2. Ends(delim) \in SUBSET Nat
  BY <1>1 DEF Ends
<1>3. Min(Ends(delim)) \in Ends(delim) /\ \A end \in Ends(delim) : Min(Ends(delim)) <= end
  BY <1>2, LeastNumber
<1> QED
  BY <1>3 DEF Ends

LEMMA BumpKeeps ==
    ASSUME memory \in Seq(Characters), input, InputInv,
           NEW n \in Nat, NEW skipped \in Seq(Characters),
           gptr + n + Len(skipped) <= egptr,
           skipped = Between(gptr + n, gptr + n + Len(skipped)),
           Bump(n, skipped)
    PROVE  gptr' \in 0..egptr /\ taken' = Between(0, gptr')
<1> DEFINE m == gptr + n
           e == gptr + n + Len(skipped)
<1>1. Len(skipped) \in Nat /\ egptr \in Nat /\ egptr = Len(memory) /\ gptr \in 0..egptr
  BY LenProperties DEF InputInv
<1>2. gptr' = e /\ taken' = (Between(0, gptr) \o Between(gptr, m)) \o skipped
  BY DEF Bump, InputInv
<1>3. /\ m \in gptr..Len(memory) /\ e \in m..Len(memory) /\ m \in Nat /\ e \in Nat /\ e <= egptr
      /\ gptr \in 0..Len(memory) /\ m \in 0..Len(memory)
  BY <1>1
<1>4. skipped = Between(m, e)
  OBVIOUS
<1> HIDE DEF m, e
<1>5. Between(0, gptr) \o Between(gptr, m) = Between(0, m)
  BY <1>3, BetweenJoined
<1>6. Between(0, m) \o Between(m, e) = Between(0, e)
  BY <1>3, BetweenJoined
<1>7. gptr' \in 0..egptr
  BY <1>1, <1>2, <1>3
<1>8. taken' = Between(0, m) \o Between(m, e)
  BY <1>2, <1>4, <1>5, Zenon
<1> QED
  BY <1>2, <1>6, <1>7, <1>8, Zenon

LEMMA FirstViewHolds ==
    ASSUME memory \in Seq(Characters), InputInv, NEW delim \in Seq(Characters),
           Ends(delim) # {}, delim # <<>>
    PROVE  ~Holds(View(delim).text, delim)
<1> DEFINE m == Min(Ends(delim))
           d == Len(delim)
           text == Between(gptr, m)
<1>1. d \in Nat \ {0} /\ egptr \in Nat /\ egptr = Len(memory) /\ gptr \in 0..egptr
  BY EmptySeq, LenProperties DEF InputInv
<1>2. m \in gptr..(egptr - d) /\ \A end \in Ends(delim) : m <= end
  BY <1>1, EndsFacts
<1> HIDE DEF m, d
<1>3. m \in gptr..Len(memory) /\ m \in Nat /\ gptr \in Nat
  BY <1>1, <1>2
<1>4. /\ text \in Seq(Characters) /\ Len(text) = m - gptr
      /\ \A k \in 1..(m - gptr) : text[k] = memory[gptr + k]
  BY <1>3, BetweenFacts
<1>5. ASSUME NEW i \in 0..(Len(text) - d), SubSeq(text, i + 1, i + d) = delim
      PROVE  FALSE
  <2> HIDE DEF text
  <2> DEFINE from == gptr + i
             to == gptr + i + d
             first == i + 1
             last == i + d
  <2>1. /\ i \in Nat /\ last <= m - gptr /\ from \in Nat /\ to <= m
        /\ from \in Int /\ to \in from..Len(memory) /\ to - from = d
        /\ first \in Int /\ last \in Int /\ last - first + 1 = d /\ first <= last
        /\ from \in gptr..(egptr - d) /\ from < m
    BY <1>1, <1>3, <1>4
  <2>2. \A k \in first..last : text[k] \in Characters
    BY <1>1, <1>4, <2>1, ElementOfSeq
  <2>3. \A k \in 1..d : text[first + k - 1] = memory[from + k]
    BY <1>1, <1>3, <1>4, <2>1
  <2>4. SubSeq(text, first, last) = delim
    BY <1>5
  <2>5. from + d = to
    OBVIOUS
  <2> HIDE DEF from, to, first, last
  <2>6. \A k \in 1..(last - first + 1) : SubSeq(text, first, last)[k] = text[first + k - 1]
    BY <2>1, <2>2, SubSeqProperties
  <2>7. /\ Between(from, to) \in Seq(Characters)
        /\ Len(Between(from, to)) = to - from
        /\ \A k \in 1..(to - from) : Between(from, to)[k] = memory[from + k]
    BY <2>1, BetweenFacts
  <2>8. \A k \in 1..d : delim[k] = memory[from + k]
    BY <2>1, <2>3, <2>4, <2>6
  <2>9. Between(from, to) = delim
    BY <2>1, <2>7, <2>8, SeqEqual DEF d
  <2>10. from \in Ends(delim)
    BY <2>1, <2>5, <2>9 DEF Ends, d
  <2> QED
    BY <1>2, <1>3, <2>1, <2>10
<1> QED
  BY <1>5 DEF Holds, View, m, d

LEMMA BufferStarts == BufferInit => BufferIInv
<1> SUFFICES ASSUME BufferInit
             PROVE  BufferIInv
  OBVIOUS
<1> USE MemoryBufAssumption
<1>1. CASE BufferOutput
  <2>1. memory = [i \in 1..(Capacity + 1) |-> Zero] /\ Capacity + 1 \in Nat
    BY <1>1 DEF BufferOutput
  <2>2. memory \in [1..(Capacity + 1) -> Characters]
    BY <2>1
  <2>3. memory \in Seq(Characters)
    BY <2>1, <2>2, SeqDef
  <2>4. Len(memory) = Capacity + 1 /\ \A i \in 1..(Capacity + 1) : memory[i] = Zero
    BY <2>1
  <2>5. Between(0, 0) = <<>>
    BY SubSeqEmpty DEF Between
  <2> QED
    BY <1>1, <2>3, <2>4, <2>5 DEF BufferInit, BufferOutput, BufferIInv, OutputInv, input
<1>2. CASE \E n \in 0..Capacity : BufferInput(n)
  <2>1. PICK n \in 0..Capacity : BufferInput(n)
    BY <1>2
  <2>2. memory \in [1..n -> Characters] /\ n \in Nat
    BY <2>1 DEF BufferInput
  <2>3. memory \in Seq(Characters)
    BY <2>2, RowIsSeq
  <2>4. Len(memory) = n
    BY <2>2, RowIsSeq
  <2>5. Between(0, 0) = <<>>
    BY SubSeqEmpty DEF Between
  <2> QED
    BY <2>1, <2>2, <2>3, <2>4, <2>5
      DEF BufferInit, BufferInput, BufferIInv, InputInv, input
<1> QED
  BY <1>1, <1>2 DEF BufferInit

\* Taking characters one by one or as a body.
LEMMA TakeKeeps ==
    ASSUME BufferIInv, NEW n \in Nat, egptr - gptr >= n, n # 0, Bump(n, <<>>), UNCHANGED viewed
    PROVE  BufferIInv'
<1>1. input /\ memory \in Seq(Characters) /\ InputInv
  BY MemoryBufAssumption DEF BufferIInv, OutputInv
<1>2. /\ <<>> \in Seq(Characters) /\ Len(<<>>) = 0
      /\ gptr \in Nat /\ egptr \in Nat
  BY <1>1, LenProperties DEF InputInv
<1>3. gptr + n + Len(<<>>) <= egptr
  BY <1>2
<1>4. <<>> = Between(gptr + n, gptr + n + Len(<<>>))
  BY <1>2, SubSeqEmpty DEF Between
<1>5. gptr' \in 0..egptr /\ taken' = Between(0, gptr')
  BY <1>1, <1>2, <1>3, <1>4, BumpKeeps
<1>6. UNCHANGED <<memory, size_, egptr, pptr, epptr, written, refused, viewed>>
  BY DEF Bump
<1> QED
  BY <1>1, <1>5, <1>6 DEF BufferIInv, InputInv, input, Between, Holds

LEMMA ViewKeeps ==
    ASSUME BufferIInv, NEW delim \in Delimiters, GetView(delim)
    PROVE  BufferIInv'
<1>1. /\ delim \in Seq(Characters) /\ Len(delim) \in Nat /\ Ends(delim) # {}
      /\ Bump(Min(Ends(delim)) - gptr, delim) /\ viewed' = viewed \cup {View(delim)}
      /\ memory \in Seq(Characters)
      /\ UNCHANGED <<memory, size_, egptr, pptr, epptr, written, refused>>
  BY MemoryBufAssumption, LenProperties DEF GetView, BufferIInv, Bump
<1>2. CASE input
  <2> DEFINE m == Min(Ends(delim))
             n == m - gptr
  <2>1. InputInv /\ gptr \in 0..egptr /\ egptr \in Nat /\ egptr = Len(memory)
    BY <1>1, <1>2, LenProperties DEF BufferIInv, InputInv
  <2>2. m \in gptr..(egptr - Len(delim)) /\ Between(m, m + Len(delim)) = delim
    BY <1>1, <2>1, EndsFacts
  <2>3. n \in Nat /\ gptr + n = m /\ gptr + n + Len(delim) <= egptr
    BY <1>1, <2>1, <2>2
  <2>4. Bump(n, delim)
    BY <1>1
  <2> HIDE DEF n
  <2>5. gptr' \in 0..egptr /\ taken' = Between(0, gptr')
    BY <1>1, <1>2, <2>1, <2>2, <2>3, <2>4, BumpKeeps
  <2>6. \A view \in viewed' : view.delim # <<>> => ~Holds(view.text, view.delim)
    <3>1. View(delim).delim = delim
      BY DEF View
    <3>2. delim # <<>> => ~Holds(View(delim).text, delim)
      BY <1>1, <2>1, FirstViewHolds
    <3>3. \A view \in viewed : view.delim # <<>> => ~Holds(view.text, view.delim)
      BY <2>1 DEF InputInv
    <3> QED
      BY <1>1, <3>1, <3>2, <3>3
  <2> QED
    BY <1>1, <1>2, <2>1, <2>5, <2>6 DEF BufferIInv, InputInv, input, Between, Holds
<1>3. CASE ~input
  <2>1. OutputInv /\ gptr = NullPtr /\ egptr = NullPtr /\ taken = <<>> /\ NullPtr \in Int
    BY <1>3, MemoryBufAssumption DEF BufferIInv, OutputInv
  <2>2. Ends(delim) \subseteq {NullPtr} /\ Len(delim) = 0
    BY <1>1, <2>1 DEF Ends
  <2>3. Min(Ends(delim)) = NullPtr /\ delim = <<>>
    <3>1. Ends(delim) = {NullPtr}
      BY <1>1, <2>2
    <3>2. \A x : x \in {NullPtr} /\ (\A y \in {NullPtr} : x =< y) <=> x = NullPtr
      BY <2>1
    <3>3. Min({NullPtr}) = NullPtr
      BY <3>2 DEF Min
    <3>4. delim = <<>>
      BY <1>1, <2>2, EmptySeq
    <3> QED
      BY <3>1, <3>3, <3>4
  <2>4. gptr' = NullPtr /\ taken' = <<>>
    <3>1. Between(NullPtr, NullPtr) = <<>>
      BY <2>1, SubSeqEmpty DEF Between
    <3> QED
      BY <1>1, <2>1, <2>2, <2>3, <3>1 DEF Bump
  <2> QED
    BY <1>1, <1>3, <2>1, <2>4 DEF BufferIInv, OutputInv, input, Between
<1> QED
  BY <1>2, <1>3

LEMMA PutKeeps ==
    ASSUME BufferIInv, NEW c \in Characters, PutChar(c)
    PROVE  BufferIInv'
<1> USE MemoryBufAssumption
<1>1. CASE ~writable
  <2>1. /\ refused' = refused + 1
        /\ UNCHANGED <<memory, size_, gptr, egptr, pptr, epptr, taken, viewed, written>>
    BY <1>1 DEF PutChar
  <2>2. input => InputInv'
    BY <2>1 DEF BufferIInv, InputInv, Between, Holds
  <2>3. ~input => OutputInv'
    BY <1>1, <2>1 DEF BufferIInv, OutputInv, Between, writable
  <2> QED
    BY <2>1, <2>2, <2>3 DEF BufferIInv, input
<1>2. CASE writable
  <2>1. ~input /\ OutputInv /\ pptr \in 0..(Capacity - 1) /\ memory \in Seq(Characters)
    BY <1>2 DEF BufferIInv, InputInv, OutputInv, input, writable
  <2>2. /\ memory' = [memory EXCEPT ![pptr + 1] = c]
        /\ pptr' = pptr + 1
        /\ written' = Append(written, c)
        /\ UNCHANGED <<size_, gptr, egptr, epptr, taken, refused>>
    BY <1>2 DEF PutChar
  <2>3. /\ Len(memory) = Capacity + 1 /\ pptr + 1 \in 1..Len(memory) /\ pptr + 1 \in Nat
    BY <2>1 DEF OutputInv
  <2>4. /\ memory' \in Seq(Characters) /\ Len(memory') = Len(memory)
        /\ memory'[pptr + 1] = c
        /\ \A i \in 1..Len(memory) : i # pptr + 1 => memory'[i] = memory[i]
    BY <2>1, <2>2, <2>3, ExceptSeq, LenProperties
  <2>5. written' = Between(0, pptr)'
    <3> DEFINE p == pptr
               q == pptr + 1
    <3>1. p \in 0..Len(memory) /\ q \in 0..Len(memory') /\ 0 \in Nat /\ q = p + 1
      BY <2>1, <2>3, <2>4
    <3>2. /\ Between(0, p) \in Seq(Characters) /\ Len(Between(0, p)) = p
          /\ \A k \in 1..p : Between(0, p)[k] = memory[k]
      BY <2>1, <3>1, PrefixFacts
    <3>3. /\ SubSeq(memory', 1, q) \in Seq(Characters) /\ Len(SubSeq(memory', 1, q)) = q
          /\ \A k \in 1..q : SubSeq(memory', 1, q)[k] = memory'[k]
      <4>1. \A k \in 1..q : memory'[k] \in Characters
        BY <2>4, <3>1, ElementOfSeq
      <4> HIDE DEF q
      <4> QED
        BY <3>1, <4>1, SubSeqProperties
    <3>4. written = Between(0, p)
      BY <2>1 DEF OutputInv
    <3>5. /\ Append(written, c) \in Seq(Characters) /\ Len(Append(written, c)) = q
          /\ \A k \in 1..p : Append(written, c)[k] = written[k]
          /\ Append(written, c)[q] = c
      BY <3>2, <3>4
    <3>6. \A k \in 1..q : Append(written, c)[k] = SubSeq(memory', 1, q)[k]
      BY <2>3, <2>4, <3>1, <3>2, <3>3, <3>4, <3>5
    <3> HIDE DEF q
    <3>7. Append(written, c) = SubSeq(memory', 1, q)
      BY <3>3, <3>5, <3>6, SeqEqual
    <3> QED
      BY <2>2, <3>7 DEF Between, q
  <2>6. \A i \in (pptr' + 1)..(Capacity + 1) : memory'[i] = Zero
    BY <2>1, <2>2, <2>3, <2>4 DEF OutputInv
  <2> QED
    BY <2>1, <2>2, <2>3, <2>4, <2>5, <2>6 DEF BufferIInv, OutputInv, input
<1> QED
  BY <1>1, <1>2

LEMMA TerminateKeeps ==
    ASSUME BufferIInv, Terminate
    PROVE  BufferIInv'
<1> USE MemoryBufAssumption
<1>1. ~input /\ OutputInv /\ memory \in Seq(Characters)
  BY DEF BufferIInv, Terminate
<1>2. /\ size = pptr /\ pptr \in 0..Capacity /\ pptr + 1 \in 1..Len(memory)
      /\ Len(memory) = Capacity + 1 /\ memory[pptr + 1] = Zero
  BY <1>1 DEF OutputInv, size
<1>3. /\ memory' = [memory EXCEPT ![pptr + 1] = Zero]
      /\ UNCHANGED <<size_, gptr, egptr, pptr, epptr, taken, viewed, written, refused>>
  BY <1>2 DEF Terminate
<1>4. memory' = memory
  <2>1. /\ memory' \in Seq(Characters) /\ Len(memory') = Len(memory)
        /\ \A i \in 1..Len(memory) : memory'[i] = memory[i]
    BY <1>1, <1>2, <1>3, ExceptSeq, LenProperties
  <2> QED
    BY <1>1, <2>1, SeqEqual
<1> QED
  BY <1>1, <1>3, <1>4 DEF BufferIInv, OutputInv, input, Between

LEMMA BufferStep == BufferIInv /\ [BufferNext]_bufferVars => BufferIInv'
<1> SUFFICES ASSUME BufferIInv, [BufferNext]_bufferVars
             PROVE  BufferIInv'
  OBVIOUS
<1>1. CASE GetChar
  <2>1. /\ gptr < egptr /\ Bump(1, <<>>) /\ UNCHANGED viewed
        /\ input => gptr \in Int /\ egptr \in Int
        /\ ~input => gptr = egptr /\ gptr \in Int
    BY <1>1, LenProperties, MemoryBufAssumption DEF GetChar, readable, BufferIInv, InputInv, OutputInv
  <2>2. egptr - gptr >= 1 /\ 1 \in Nat /\ 1 # 0
    BY <2>1
  <2> QED
    BY <2>1, <2>2, TakeKeeps
<1>2. CASE GetBody
  <2>1. PICK n \in 1..(Capacity + 1) : egptr - gptr >= n /\ Bump(n, <<>>) /\ UNCHANGED viewed
    BY <1>2 DEF GetBody
  <2>2. n \in Nat /\ n # 0
    BY <2>1
  <2> QED
    BY <2>1, <2>2, TakeKeeps
<1>3. CASE \E delim \in Delimiters : GetView(delim)
  BY <1>3, ViewKeeps
<1>4. CASE Terminate
  BY <1>4, TerminateKeeps
<1>5. CASE \E c \in Characters : PutChar(c)
  BY <1>5, PutKeeps
<1>6. CASE UNCHANGED bufferVars
  BY <1>6 DEF bufferVars, BufferIInv, InputInv, OutputInv, input, Between, Holds
<1> QED
  BY <1>1, <1>2, <1>3, <1>4, <1>5, <1>6 DEF BufferNext

\* The text of an output ends where what was written has its first zero, or
\* where it ends.
LEMMA TextIsWritten ==
    ASSUME memory \in Seq(Characters), OutputInv
    PROVE  Text = UpToZero(written)
<1> DEFINE p == pptr
           Z == {i \in DOMAIN memory : memory[i] = Zero}
           W == {i \in DOMAIN written : written[i] = Zero} \cup {Len(written) + 1}
           z == Min(Z)
           w == Min(W)
<1> USE MemoryBufAssumption
<1>1. /\ p \in 0..Len(memory) /\ p \in Nat /\ p + 1 \in 1..Len(memory)
      /\ Len(memory) = Capacity + 1 /\ DOMAIN memory = 1..Len(memory)
      /\ written = Between(0, p) /\ memory[p + 1] = Zero
  BY LenProperties DEF OutputInv
<1>2. /\ written \in Seq(Characters) /\ Len(written) = p /\ DOMAIN written = 1..p
      /\ \A k \in 1..p : written[k] = memory[k]
  BY <1>1, PrefixFacts, LenProperties
<1>3. p + 1 \in Z /\ Z \in SUBSET Nat /\ p + 1 \in W /\ W \in SUBSET Nat
  BY <1>1, <1>2
<1>4. z \in Z /\ (\A y \in Z : z <= y) /\ w \in W /\ (\A y \in W : w <= y)
  BY <1>3, LeastNumber
<1>5. \A i \in 1..p : i \in Z <=> i \in W
  BY <1>1, <1>2
<1>6. \A i \in Z \cup W : i \in Nat /\ i >= 1
  BY <1>1, <1>2
<1>7. Text = SubSeq(memory, 1, z - 1) /\ UpToZero(written) = SubSeq(written, 1, w - 1)
  BY DEF Text, UpToZero
<1> HIDE DEF Z, W, z, w, p
<1>8. z \in Nat /\ w \in Nat /\ z <= p + 1 /\ w <= p + 1 /\ z >= 1 /\ w >= 1
  BY <1>3, <1>4, <1>6
<1>9. z = w
  <2>1. z <= p => z \in W
    BY <1>4, <1>5, <1>8
  <2>2. w <= p => w \in Z
    BY <1>4, <1>5, <1>8
  <2>3. z <= p => w <= z
    BY <1>4, <2>1
  <2>4. w <= p => z <= w
    BY <1>4, <2>2
  <2> QED
    BY <1>1, <1>8, <2>3, <2>4
<1>10. SubSeq(memory, 1, w - 1) = SubSeq(written, 1, w - 1)
  <2> DEFINE n == w - 1
  <2>1. n \in 0..p /\ n \in 0..Len(memory) /\ n \in Nat
    BY <1>1, <1>8
  <2> HIDE DEF n
  <2>2. /\ \A k \in 1..n : memory[k] \in Characters /\ written[k] \in Characters
        /\ \A k \in 1..n : memory[k] = written[k]
    BY <1>1, <1>2, <2>1, ElementOfSeq
  <2>3. /\ SubSeq(memory, 1, n) \in Seq(Characters) /\ SubSeq(written, 1, n) \in Seq(Characters)
        /\ Len(SubSeq(memory, 1, n)) = n /\ Len(SubSeq(written, 1, n)) = n
        /\ \A k \in 1..n : SubSeq(memory, 1, n)[k] = memory[k] /\ SubSeq(written, 1, n)[k] = written[k]
    BY <2>1, <2>2, SubSeqProperties
  <2>4. SubSeq(memory, 1, n) = SubSeq(written, 1, n)
    BY <2>2, <2>3, SeqEqual
  <2> QED
    BY <2>4 DEF n
<1> QED
  BY <1>7, <1>9, <1>10

LEMMA BuffersSound == BufferIInv => BufferInv
<1> SUFFICES ASSUME BufferIInv
             PROVE  BufferInv
  OBVIOUS
<1> USE MemoryBufAssumption
<1>1. memory \in Seq(Characters) /\ Len(memory) \in Nat /\ refused \in Nat
  BY LenProperties DEF BufferIInv
<1>2. ASSUME input
      PROVE  /\ taken = Between(0, gptr)
             /\ \A view \in viewed : view.delim # <<>> => ~Holds(view.text, view.delim)
             /\ gptr <= egptr
             /\ used = Len(taken)
             /\ size = IF memory = <<>> THEN NullPtr ELSE Len(memory)
  <2>1. InputInv /\ gptr \in 0..Len(memory) /\ egptr = Len(memory) /\ size_ = Len(memory)
    BY <1>2 DEF BufferIInv, InputInv
  <2>2. Len(taken) = gptr
    BY <1>1, <2>1, PrefixFacts DEF InputInv
  <2>3. memory = <<>> <=> Len(memory) = 0
    BY <1>1, EmptySeq
  <2> QED
    BY <1>1, <1>2, <2>1, <2>2, <2>3 DEF InputInv, used, size, input
<1>3. ASSUME ~input
      PROVE  /\ written = Between(0, pptr)
             /\ size = Len(written)
             /\ size + 1 \in DOMAIN memory
             /\ memory[size + 1] = Zero
             /\ Text = UpToZero(written)
             /\ refused > 0 => Len(written) = Capacity
             /\ taken = <<>>
  <2>1. OutputInv
    BY <1>3 DEF BufferIInv
  <2>2. /\ pptr \in 0..Len(memory) /\ pptr + 1 \in 1..(Capacity + 1) /\ size = pptr
        /\ Len(memory) = Capacity + 1 /\ DOMAIN memory = 1..Len(memory)
    BY <1>1, <2>1, LenProperties DEF OutputInv, size
  <2>3. Len(written) = pptr
    BY <1>1, <2>1, <2>2, PrefixFacts DEF OutputInv
  <2> QED
    BY <1>1, <2>1, <2>2, <2>3, TextIsWritten DEF OutputInv
<1> QED
  BY <1>2, <1>3 DEF BufferInv

\* BuffersKeepOrder: of memory of any size, whatever calls take it and
\* whatever their delimiters are, what has been taken is its beginning, each
\* view ends at the first delimiter, and nothing past the end is taken; and
\* an output of any size keeps what it accepted, terminated inside its array.
THEOREM BuffersKeepOrder == BufferSpec => []BufferInv
BY BufferStarts, BufferStep, BuffersSound, PTL DEF BufferSpec

-----------------------------------------------------------------------------
(* Hexadecimal text, and views of an array.                                *)

ByteSeq == Seq(0..255)

LEMMA MinOfTwo ==
    ASSUME NEW i \in Int, NEW j \in Int
    PROVE  Min({i, j}) = IF i <= j THEN i ELSE j
<1> DEFINE m == IF i <= j THEN i ELSE j
<1>1. \A x : x \in {i, j} /\ (\A y \in {i, j} : x =< y) <=> x = m
  OBVIOUS
<1> HIDE DEF m
<1>2. Min({i, j}) = m
  BY <1>1 DEF Min
<1> QED
  BY <1>2 DEF m

LEMMA HalfBytes ==
    ASSUME NEW x \in 0..255
    PROVE  x \div 16 \in 0..15 /\ x % 16 \in 0..15 /\ (16 * (x \div 16)) + (x % 16) = x
OBVIOUS

LEMMA HexDigitsOf ==
    ASSUME NEW d \in ByteSeq
    PROVE  /\ encode_hex(d) \in Seq(0..15)
           /\ Len(encode_hex(d)) = 2 * Len(d)
           /\ \A k \in 1..Len(d) :
                encode_hex(d)[(2 * k) - 1] = d[k] \div 16 /\ encode_hex(d)[2 * k] = d[k] % 16
<1> DEFINE L == Len(d)
           h == encode_hex(d)
           n == 2 * L
<1>1. L \in Nat /\ \A k \in 1..L : d[k] \in 0..255
  BY LenProperties, ElementOfSeq DEF ByteSeq
<1>2. n \in Nat /\ h = [k \in 1..n |-> IF k % 2 = 1 THEN d[(k + 1) \div 2] \div 16 ELSE d[k \div 2] % 16]
  BY <1>1 DEF encode_hex
<1> HIDE DEF h
<1>3. ASSUME NEW k \in 1..n
      PROVE  h[k] \in 0..15
  <2>1. CASE k % 2 = 1
    <3>1. (k + 1) \div 2 \in 1..L
      BY <1>1, <2>1
    <3>2. d[(k + 1) \div 2] \in 0..255
      BY <1>1, <3>1
    <3>3. h[k] = d[(k + 1) \div 2] \div 16
      BY <1>2, <2>1
    <3> DEFINE x == d[(k + 1) \div 2]
    <3> HIDE DEF x
    <3>4. x \div 16 \in 0..15
      BY <3>2, HalfBytes DEF x
    <3> QED
      BY <3>3, <3>4 DEF x
  <2>2. CASE k % 2 # 1
    <3>1. k \div 2 \in 1..L
      BY <1>1, <2>2
    <3>2. d[k \div 2] \in 0..255
      BY <1>1, <3>1
    <3>3. h[k] = d[k \div 2] % 16
      BY <1>2, <2>2
    <3> DEFINE x == d[k \div 2]
    <3> HIDE DEF x
    <3>4. x % 16 \in 0..15
      BY <3>2, HalfBytes DEF x
    <3> QED
      BY <3>3, <3>4 DEF x
  <2> QED
    BY <2>1, <2>2
<1>4. ASSUME NEW k \in 1..L
      PROVE  h[(2 * k) - 1] = d[k] \div 16 /\ h[2 * k] = d[k] % 16
  <2>1. /\ (2 * k) - 1 \in 1..n /\ 2 * k \in 1..n
        /\ ((2 * k) - 1) % 2 = 1 /\ (2 * k) % 2 # 1
        /\ (((2 * k) - 1) + 1) \div 2 = k /\ (2 * k) \div 2 = k
    BY <1>1
  <2> QED
    BY <1>2, <2>1
<1> HIDE DEF n
<1> DEFINE Nibble == 0..15
<1>5. h \in [1..n -> Nibble]
  BY <1>2, <1>3
<1> HIDE DEF Nibble
<1>6. h \in Seq(Nibble) /\ Len(h) = n
  BY <1>2, <1>5, RowIsSeq
<1> QED
  BY <1>4, <1>6, Zenon DEF h, n, Nibble

LEMMA HexDecodes ==
    ASSUME NEW d \in ByteSeq
    PROVE  decode_hex_text(encode_hex(d)) = d
<1> DEFINE L == Len(d)
           h == encode_hex(d)
           back == [k \in 1..(Len(h) \div 2) |-> (16 * h[(2 * k) - 1]) + h[2 * k]]
<1>1. L \in Nat /\ (\A k \in 1..L : d[k] \in 0..255) /\ d = [k \in 1..L |-> d[k]]
  BY LenProperties, ElementOfSeq DEF ByteSeq
<1>2. /\ h \in Seq(0..15) /\ Len(h) = 2 * L
      /\ \A k \in 1..L : h[(2 * k) - 1] = d[k] \div 16 /\ h[2 * k] = d[k] % 16
  BY HexDigitsOf
<1> HIDE DEF h, L
<1>3. Len(h) % 2 = 0 /\ Len(h) \div 2 = L
  BY <1>1, <1>2
<1>4. ToSet(h) \subseteq 0..15
  BY <1>2, LenProperties, ElementOfSeq DEF ToSet
<1>5. decode_hex_text(h) = back
  BY <1>3, <1>4 DEF decode_hex_text
<1>6. ASSUME NEW k \in 1..L
      PROVE  (16 * h[(2 * k) - 1]) + h[2 * k] = d[k]
  <2>1. h[(2 * k) - 1] = d[k] \div 16 /\ h[2 * k] = d[k] % 16 /\ d[k] \in 0..255
    BY <1>1, <1>2
  <2> QED
    BY <2>1, HalfBytes
<1>7. back = [k \in 1..L |-> d[k]]
  BY <1>3, <1>6
<1> QED
  BY <1>1, <1>5, <1>7 DEF h

\* A text of pairs is the text of the bytes that the pairs stand for.
LEMMA HexPairs ==
    ASSUME NEW d \in ByteSeq, NEW m \in 0..Len(d)
    PROVE  decode_hex_text(SubSeq(encode_hex(d), 1, 2 * m)) = SubSeq(d, 1, m)
<1> DEFINE h == encode_hex(d)
           e == SubSeq(d, 1, m)
           g == encode_hex(e)
           Nibble == 0..15
<1>1. Len(d) \in Nat /\ m \in Nat /\ m <= Len(d)
  BY LenProperties DEF ByteSeq
<1>2. e \in ByteSeq /\ Len(e) = m /\ \A k \in 1..m : e[k] = d[k]
  BY <1>1, FirstPart DEF ByteSeq
<1>3. h \in Seq(Nibble) /\ Len(h) = 2 * Len(d)
  BY HexDigitsOf
<1> HIDE DEF e, Nibble
<1>4. g \in Seq(0..15) /\ Len(g) = 2 * m
  BY <1>2, HexDigitsOf
<1>5. ASSUME NEW i \in 1..(2 * m)
      PROVE  h[i] = g[i]
  <2>1. /\ i \in 1..(2 * Len(d)) /\ i \in 1..(2 * Len(e))
        /\ i % 2 = 1 => (i + 1) \div 2 \in 1..m
        /\ i % 2 # 1 => i \div 2 \in 1..m
    BY <1>1, <1>2
  <2> QED
    BY <1>2, <2>1 DEF encode_hex
<1> HIDE DEF g, h
<1>6. SubSeq(h, 1, Len(g)) = g
  <2>1. /\ h \in Seq(Nibble) /\ g \in Seq(Nibble) /\ Len(g) <= Len(h)
        /\ \A i \in 1..Len(g) : h[i] = g[i]
    BY <1>1, <1>3, <1>4, <1>5 DEF Nibble
  <2> QED
    BY <2>1, FirstOf
<1>7. decode_hex_text(g) = e
  BY <1>2, HexDecodes DEF g
<1> QED
  BY <1>4, <1>6, <1>7 DEF e, h

LEMMA HexRefuses ==
    ASSUME NEW d \in ByteSeq, NEW i \in DOMAIN encode_hex(d)
    PROVE  /\ decode_hex_text(SubSeq(encode_hex(d), 1, i - 1)) =
                IF (i - 1) % 2 # 0 THEN Invalid ELSE SubSeq(d, 1, (i - 1) \div 2)
           /\ decode_hex_text([encode_hex(d) EXCEPT ![i] = Alien]) = Invalid
<1> DEFINE h == encode_hex(d)
           g == [h EXCEPT ![i] = Alien]
<1>1. /\ h \in Seq(0..15) /\ Len(h) \in Nat /\ DOMAIN h = 1..Len(h) /\ i \in 1..Len(h)
      /\ Len(h) = 2 * Len(d)
  BY HexDigitsOf, LenProperties
<1> HIDE DEF h
<1>2. ASSUME (i - 1) % 2 # 0
      PROVE  decode_hex_text(SubSeq(h, 1, i - 1)) = Invalid
  <2> DEFINE n == i - 1
  <2>1. n \in 0..Len(h) /\ n % 2 # 0 /\ n \in Nat
    BY <1>1, <1>2
  <2> HIDE DEF n
  <2>2. \A k \in 1..n : h[k] \in 0..15
    <3> DEFINE Nibble == 0..15
    <3>1. h \in Seq(Nibble) /\ \A k \in 1..n : k \in 1..Len(h)
      BY <1>1, <2>1
    <3> HIDE DEF Nibble
    <3>2. \A k \in 1..n : h[k] \in Nibble
      BY <3>1, ElementOfSeq
    <3> QED
      BY <3>2 DEF Nibble
  <2>3. Len(SubSeq(h, 1, n)) = n
    BY <2>1, <2>2, SubSeqProperties
  <2>4. decode_hex_text(SubSeq(h, 1, n)) = Invalid
    BY <2>1, <2>3 DEF decode_hex_text
  <2> QED
    BY <2>4 DEF n
<1>3. ASSUME (i - 1) % 2 = 0
      PROVE  decode_hex_text(SubSeq(h, 1, i - 1)) = SubSeq(d, 1, (i - 1) \div 2)
  <2> DEFINE m == (i - 1) \div 2
  <2>1. m \in 0..Len(d) /\ 2 * m = i - 1
    <3> DEFINE L == Len(d)
    <3>1. L \in Nat /\ i \in 1..(2 * L)
      BY <1>1, LenProperties DEF ByteSeq
    <3> HIDE DEF L
    <3>2. (i - 1) \div 2 \in 0..L /\ 2 * ((i - 1) \div 2) = i - 1
      BY <1>3, <3>1
    <3> QED
      BY <3>2 DEF L
  <2> HIDE DEF m
  <2>2. decode_hex_text(SubSeq(h, 1, 2 * m)) = SubSeq(d, 1, m)
    BY <2>1, HexPairs DEF h
  <2> QED
    BY <2>1, <2>2 DEF m
<1>4. DOMAIN g = DOMAIN h /\ g[i] = Alien
  BY <1>1
<1>5. Alien \in ToSet(g) /\ Alien \notin 0..15
  BY <1>1, <1>4 DEF ToSet, Alien
<1>6. decode_hex_text(g) = Invalid
  BY <1>5 DEF decode_hex_text
<1> QED
  BY <1>2, <1>3, <1>6 DEF h

\* A slice is what is left when the bytes behind and before it are removed.
LEMMA SliceIsRest ==
    ASSUME NEW d \in ByteSeq, NEW start \in Nat, NEW end \in Nat
    PROVE  slice(d, start, end) =
             IF start > Len(d) \/ start > end THEN Invalid
             ELSE remove_prefix(remove_suffix(d, Len(d) - Min({end, Len(d)})), start)
<1> DEFINE L == Len(d)
           a == Min({end, L})
           kept == remove_suffix(d, L - a)
<1>1. L \in Nat /\ (\A i \in 1..L : d[i] \in 0..255) /\ d \in Seq(0..255)
  BY LenProperties, ElementOfSeq DEF ByteSeq
<1> HIDE DEF L
<1>2. a = (IF end <= L THEN end ELSE L) /\ a \in 0..L
  BY <1>1, MinOfTwo
<1>3. slice(d, start, end) = IF start > a THEN Invalid ELSE SubSeq(d, start + 1, a)
  BY DEF slice, L
<1>4. kept = IF L - a >= L THEN <<>> ELSE SubSeq(d, 1, L - (L - a))
  BY DEF remove_suffix, L
<1> HIDE DEF a, kept
<1>5. start > a <=> start > L \/ start > end
  BY <1>1, <1>2
<1>6. ASSUME start <= a
      PROVE  remove_prefix(kept, start) = SubSeq(d, start + 1, a)
  <2>1. CASE a = 0
    <3>1. kept = <<>> /\ start = 0
      BY <1>1, <1>6, <1>4, <2>1
    <3>2. SubSeq(d, start + 1, a) = <<>>
      BY <2>1, <3>1, SubSeqEmpty
    <3>3. remove_prefix(<<>>, 0) = <<>>
      BY DEF remove_prefix
    <3> QED
      BY <3>1, <3>2, <3>3
  <2>2. CASE a # 0
    <3>1. kept = SubSeq(d, 1, a)
      <4>1. ~(L - a >= L) /\ L - (L - a) = a
        BY <1>1, <1>2, <2>2
      <4> QED
        BY <1>4, <4>1
    <3>2. /\ a \in 1..L /\ 1 \in 1..L /\ 1 \in Int /\ a \in Int /\ L \in Nat
      BY <1>1, <1>2, <2>2
    <3>3. \A i \in 1..a : d[i] \in 0..255
      BY <1>1, <3>2
    <3>4. kept \in ByteSeq /\ Len(kept) = a
      BY <3>1, <3>2, <3>3, SubSeqProperties DEF ByteSeq
    <3>5. CASE start = a
      BY <1>6, <3>2, <3>4, <3>5, SubSeqEmpty DEF remove_prefix
    <3>6. CASE start # a
      <4> DEFINE m == start + 1
      <4>1. m \in 1..a /\ a \in 1..a /\ m \in 1..(a - 1 + 1) /\ a \in 1..(a - 1 + 1)
        BY <1>6, <3>2, <3>6
      <4>2. remove_prefix(kept, start) = SubSeq(kept, m, a)
        BY <1>6, <3>2, <3>4, <3>6 DEF remove_prefix
      <4> HIDE DEF m
      <4>3. SubSeq(SubSeq(d, 1, a), m, a) = SubSeq(d, 1 + m - 1, 1 + a - 1)
        <5>1. d \in Seq(0..255) /\ 1 \in 1..Len(d) /\ a \in 1..Len(d)
          BY <1>1, <3>2 DEF L
        <5> QED
          BY <4>1, <5>1, SubSeqOfSubSeq
      <4>4. 1 + m - 1 = m /\ 1 + a - 1 = a
        BY <3>2, <4>1
      <4> QED
        BY <3>1, <4>2, <4>3, <4>4 DEF m
    <3> QED
      BY <3>5, <3>6
  <2> QED
    BY <2>1, <2>2
<1>7. CASE start > a
  BY <1>3, <1>5, <1>7 DEF L
<1>8. CASE ~(start > a)
  <2>1. start <= a /\ ~(start > L \/ start > end)
    BY <1>1, <1>2, <1>5, <1>8
  <2>2. slice(d, start, end) = remove_prefix(kept, start)
    BY <1>3, <1>6, <1>8, <2>1
  <2> QED
    BY <2>1, <2>2 DEF L, kept, a
<1> QED
  BY <1>7, <1>8

\* A view whose end wraps ends before it starts.
LEMMA ViewIsSlice ==
    ASSUME NEW d \in ByteSeq, Len(d) <= MaxBytes, NEW offset \in 0..SizeMax, NEW count \in 0..SizeMax
    PROVE  subview(d, offset, count) =
             IF offset + count > SizeMax THEN Invalid ELSE slice(d, offset, offset + count)
<1> DEFINE L == Len(d)
           end == (offset + count) % (SizeMax + 1)
<1>1. L \in Nat /\ SizeMax \in Nat /\ offset \in Nat /\ count \in Nat
  BY LenProperties, BinaryAssumption DEF ByteSeq
<1>2. end = IF offset + count > SizeMax THEN offset + count - (SizeMax + 1) ELSE offset + count
  <2>1. CASE offset + count > SizeMax
    <3> DEFINE x == offset + count - (SizeMax + 1)
    <3>1. x \in 0..SizeMax /\ offset + count = x + (SizeMax + 1)
      BY <1>1, <2>1
    <3> QED
      BY <1>1, <2>1, <3>1
  <2>2. CASE ~(offset + count > SizeMax)
    BY <1>1, <2>2
  <2> QED
    BY <2>1, <2>2
<1>3. end \in Int
  BY <1>1, <1>2
<1>4. subview(d, offset, count) =
        IF offset > Min({end, L}) THEN Invalid ELSE SubSeq(d, offset + 1, Min({end, L}))
  BY DEF subview
<1> HIDE DEF end
<1>5. Min({end, L}) = IF end <= L THEN end ELSE L
  BY <1>1, <1>3, MinOfTwo
<1>6. CASE offset + count > SizeMax
  <2>1. offset > end /\ offset > Min({end, L})
    BY <1>1, <1>2, <1>5, <1>6
  <2> QED
    BY <1>4, <1>6, <2>1
<1>7. CASE ~(offset + count > SizeMax)
  BY <1>2, <1>4, <1>7 DEF slice
<1> QED
  BY <1>6, <1>7

LEMMA ViewsSound ==
    ASSUME buffer_ \in ByteSeq, Len(buffer_) <= MaxBytes
    PROVE  ViewsAgree
<1>1. ASSUME NEW start \in 0..(MaxBytes + 1), NEW end \in (0..(MaxBytes + 1)) \cup {SizeMax}
      PROVE  slice(buffer_, start, end) =
               IF start > Len(buffer_) \/ start > end THEN Invalid
               ELSE remove_prefix(remove_suffix(buffer_, Len(buffer_) - Min({end, Len(buffer_)})), start)
  <2>1. start \in Nat /\ end \in Nat
    BY BinaryAssumption
  <2> QED
    BY <2>1, SliceIsRest
<1>2. \A offset, count \in 0..SizeMax :
        subview(buffer_, offset, count) =
          IF offset + count > SizeMax THEN Invalid ELSE slice(buffer_, offset, offset + count)
  BY ViewIsSlice
<1> QED
  BY <1>1, <1>2 DEF ViewsAgree

-----------------------------------------------------------------------------
(* Base64.  A block of the text is four characters, block k those from     *)
(* 4k - 3 on, and stands for three bytes of the array or for what is left  *)
(* of them.                                                                *)

\* The last byte of block k.
LastOf(d, k) == IF 3 * k <= Len(d) THEN 3 * k ELSE Len(d)

\* Block k of a text.
BlockOf(b, k) == SubSeq(b, (4 * k) - 3, 4 * k)

\* What is padding in a block counts one.
PadAt(block, j) == IF block[j] = Pad THEN 1 ELSE 0
Pads(block) == PadAt(block, 1) + PadAt(block, 2) + PadAt(block, 3) + PadAt(block, 4)

\* The numbers of three bytes and of four sextets, and the first that is none.
OfBytes(x, y, z) == (x * 65536) + (y * 256) + z
OfSextets(a, b, c, e) == (262144 * a) + (4096 * b) + (64 * c) + e
Above == 16777216

\* The bytes of a number below 2^24.
ThreeOf(t) == <<t \div 65536, (t \div 256) % 256, t % 256>>

LEMMA BlockCount ==
    ASSUME NEW n \in Nat
    PROVE  Blocks(n, 3) \in Nat /\ n <= 3 * Blocks(n, 3) /\ 3 * Blocks(n, 3) <= n + 2
BY DEF Blocks

\* A number below 2^24 is its four sextets.
LEMMA SextetsAre ==
    ASSUME NEW t \in Nat, t < Above
    PROVE  OfSextets(Sextet(t, 0), Sextet(t, 1), Sextet(t, 2), Sextet(t, 3)) = t
<1>1. /\ Sextet(t, 0) = (t \div 262144) % 64
      /\ Sextet(t, 1) = (t \div 4096) % 64
      /\ Sextet(t, 2) = (t \div 64) % 64
      /\ Sextet(t, 3) = t % 64
  BY SMT DEF Sextet, Places
<1>2. (262144 * ((t \div 262144) % 64)) + (4096 * ((t \div 4096) % 64)) + (64 * ((t \div 64) % 64)) + (t % 64) = t
  BY SMT DEF Above
<1> QED
  BY <1>1, <1>2, SMT DEF OfSextets

LEMMA SextetRange ==
    ASSUME NEW t \in Nat, NEW j \in 0..3
    PROVE  Sextet(t, j) \in 0..63
<1>1. Places[j + 1] \in Nat \ {0}
  BY SMT DEF Places
<1> DEFINE p == Places[j + 1]
<1> HIDE DEF p
<1>2. t \div p \in Nat
  BY <1>1, SMT DEF p
<1>3. (t \div p) % 64 \in 0..63
  BY <1>2
<1> QED
  BY <1>3 DEF p, Sextet

\* Three bytes are a number below 2^24.
LEMMA ThreeBytes ==
    ASSUME NEW x \in Nat, NEW y \in Nat, NEW z \in Nat, x < 256, y < 256, z < 256
    PROVE  /\ OfBytes(x, y, z) \in Nat /\ OfBytes(x, y, z) < Above
           /\ ThreeOf(OfBytes(x, y, z)) = <<x, y, z>>
<1> DEFINE t == OfBytes(x, y, z)
<1>1. t \in Nat /\ t < Above
  BY SMT DEF OfBytes, Above
<1>2. t \div 65536 = x /\ (t \div 256) % 256 = y /\ t % 256 = z
  BY SMT DEF OfBytes
<1> HIDE DEF t
<1>3. ThreeOf(t) = <<x, y, z>>
  BY <1>2, SMT DEF ThreeOf
<1> QED
  BY <1>1, <1>3 DEF t

\* The sextets of the bytes that are not there are 0.
LEMMA NoBytes ==
    ASSUME NEW x \in Nat, NEW y \in Nat
    PROVE  /\ Sextet(OfBytes(x, y, 0), 3) = 0
           /\ Sextet(OfBytes(x, 0, 0), 2) = 0 /\ Sextet(OfBytes(x, 0, 0), 3) = 0
<1>1. Sextet(OfBytes(x, y, 0), 3) = 0
  BY SMT DEF OfBytes, Sextet, Places
<1>2. Sextet(OfBytes(x, 0, 0), 3) = 0
  BY SMT DEF OfBytes, Sextet, Places
<1>3. Sextet(OfBytes(x, 0, 0), 2) = 0
  BY SMT DEF OfBytes, Sextet, Places
<1> QED
  BY <1>1, <1>2, <1>3

LEMMA Octets == \A v \in 0..255 : v \in Nat /\ v < 256
OBVIOUS

\* The byte of an array at a place, 0 behind its end.
ByteAt(d, i) == IF i <= Len(d) THEN d[i] ELSE 0

LEMMA ByteAtIs ==
    ASSUME NEW d \in ByteSeq, NEW i \in Nat, i >= 1
    PROVE  ByteAt(d, i) \in Nat /\ ByteAt(d, i) < 256
<1>1. Len(d) \in Nat /\ \A k \in 1..Len(d) : d[k] \in 0..255
  BY LenProperties, ElementOfSeq DEF ByteSeq
<1>2. ASSUME i <= Len(d)
      PROVE  d[i] \in 0..255
  BY <1>1, <1>2
<1>3. ASSUME i <= Len(d)
      PROVE  d[i] \in Nat /\ d[i] < 256
  BY <1>2, <1>3, Octets, Zenon
<1> QED
  BY <1>3 DEF ByteAt

\* The number of the bytes from i on.
LEMMA TripleIs ==
    ASSUME NEW d \in ByteSeq, NEW i \in Nat, i >= 1
    PROVE  Triple(d, i) = OfBytes(ByteAt(d, i), ByteAt(d, i + 1), ByteAt(d, i + 2))
BY SMT DEF Triple, ByteAt, OfBytes

OfThree(t, x, y, z) ==
    /\ x \in Nat /\ y \in Nat /\ z \in Nat /\ x < 256 /\ y < 256 /\ z < 256
    /\ t \in Nat /\ t < Above
    /\ t = OfBytes(x, y, z)
    /\ ThreeOf(t) = <<x, y, z>>

LEMMA TripleNumber ==
    ASSUME NEW d \in ByteSeq, NEW i \in Nat, i >= 1
    PROVE  OfThree(Triple(d, i), ByteAt(d, i), ByteAt(d, i + 1), ByteAt(d, i + 2))
<1> DEFINE x == ByteAt(d, i)
           y == ByteAt(d, i + 1)
           z == ByteAt(d, i + 2)
<1>1. x \in Nat /\ y \in Nat /\ z \in Nat /\ x < 256 /\ y < 256 /\ z < 256
  BY ByteAtIs
<1>2. Triple(d, i) = OfBytes(x, y, z)
  BY TripleIs
<1> HIDE DEF x, y, z
<1>3. /\ Triple(d, i) \in Nat /\ Triple(d, i) < Above
      /\ ThreeOf(Triple(d, i)) = <<x, y, z>>
  BY <1>1, <1>2, ThreeBytes
<1> QED
  BY <1>1, <1>2, <1>3 DEF OfThree, x, y, z

\* A character in its block.
LEMMA EncodedAt ==
    ASSUME NEW d \in ByteSeq, NEW k \in 1..Blocks(Len(d), 3), NEW j \in 0..3
    PROVE  encode_b64(d)[(4 * k) - 3 + j] =
             IF j > 1 /\ (3 * k) - 3 + j > Len(d) THEN Pad ELSE Sextet(Triple(d, (3 * k) - 2), j)
<1> DEFINE n == Blocks(Len(d), 3)
           at == (4 * k) - 3 + j
<1>1. n \in Nat /\ Len(d) \in Nat
  BY LenProperties, BlockCount DEF ByteSeq
<1>2. /\ at \in 1..(4 * n) /\ (at - 1) \div 4 = k - 1 /\ (at - 1) % 4 = j
      /\ (3 * (k - 1)) + 1 = (3 * k) - 2
      /\ (3 * k) - 2 + j - 1 = (3 * k) - 3 + j
  BY <1>1
<1> HIDE DEF at
<1>3. encode_b64(d)[at] =
        IF ((at - 1) % 4) > 1 /\ (3 * ((at - 1) \div 4)) + 1 + ((at - 1) % 4) - 1 > Len(d)
          THEN Pad ELSE Sextet(Triple(d, (3 * ((at - 1) \div 4)) + 1), (at - 1) % 4)
  BY <1>2 DEF encode_b64
<1>4. encode_b64(d)[at] =
        IF j > 1 /\ (3 * k) - 2 + j - 1 > Len(d) THEN Pad ELSE Sextet(Triple(d, (3 * k) - 2), j)
  BY <1>2, <1>3
<1> QED
  BY <1>2, <1>4 DEF at

LEMMA EncodedText ==
    ASSUME NEW d \in ByteSeq
    PROVE  encode_b64(d) \in Seq(0..64) /\ Len(encode_b64(d)) = 4 * Blocks(Len(d), 3)
<1> DEFINE n == Blocks(Len(d), 3)
           b == encode_b64(d)
<1>1. n \in Nat /\ Len(d) \in Nat /\ 3 * n <= Len(d) + 2
  BY LenProperties, BlockCount DEF ByteSeq
<1>2. ASSUME NEW at \in 1..(4 * n)
      PROVE  b[at] \in 0..64
  <2> DEFINE k == ((at - 1) \div 4) + 1
             j == (at - 1) % 4
             i == (3 * k) - 2
  <2>1. k \in 1..n /\ j \in 0..3 /\ at = (4 * k) - 3 + j /\ i \in Nat /\ i >= 1
    BY <1>1
  <2> HIDE DEF k, j, b
  <2>2. b[at] = IF j > 1 /\ (3 * k) - 3 + j > Len(d) THEN Pad ELSE Sextet(Triple(d, i), j)
    BY <2>1, EncodedAt DEF b
  <2> HIDE DEF i
  <2>3. Triple(d, i) \in Nat
    BY <2>1, TripleNumber DEF OfThree
  <2>4. Sextet(Triple(d, i), j) \in 0..63
    BY <2>1, <2>3, SextetRange
  <2> QED
    BY <2>2, <2>4 DEF Pad
<1>3. b = [at \in 1..(4 * n) |-> b[at]]
  BY DEF encode_b64
<1> DEFINE l == 4 * n
<1>4. l \in Nat
  BY <1>1
<1> HIDE DEF b, l
<1>5. b \in [1..l -> 0..64]
  BY <1>2, <1>3 DEF l
<1>6. b \in Seq(0..64) /\ Len(b) = l
  BY <1>4, <1>5, RowIsSeq
<1> QED
  BY <1>6 DEF b, l

\* How many characters of a block are padding.
LEMMA PadsCount ==
    ASSUME NEW block
    PROVE  PadsOf(block) = Pads(block) /\ Pads(block) \in 0..4
<1> DEFINE P(m) == {j \in 1..m : block[j] = Pad}
<1>1. IsFiniteSet(P(0)) /\ Cardinality(P(0)) = 0
  <2>1. P(0) = {}
    OBVIOUS
  <2> QED
    BY <2>1, FS_EmptySet
<1>2. ASSUME NEW m \in {1, 2, 3, 4}, IsFiniteSet(P(m - 1)), Cardinality(P(m - 1)) \in Nat
      PROVE  IsFiniteSet(P(m)) /\ Cardinality(P(m)) = Cardinality(P(m - 1)) + PadAt(block, m)
  <2>1. m \notin P(m - 1)
    OBVIOUS
  <2>2. CASE block[m] = Pad
    <3>1. P(m) = P(m - 1) \cup {m}
      BY <2>2
    <3> HIDE DEF P
    <3>2. IsFiniteSet(P(m - 1) \cup {m}) /\ Cardinality(P(m - 1) \cup {m}) = Cardinality(P(m - 1)) + 1
      BY <1>2, <2>1, FS_AddElement
    <3> QED
      BY <2>2, <3>1, <3>2 DEF PadAt
  <2>3. CASE block[m] # Pad
    <3>1. P(m) = P(m - 1)
      BY <2>3
    <3> HIDE DEF P
    <3> QED
      BY <1>2, <2>3, <3>1 DEF PadAt
  <2> QED
    BY <2>2, <2>3
<1> HIDE DEF P
<1>3. \A m \in {1, 2, 3, 4} : PadAt(block, m) \in 0..1
  BY DEF PadAt
<1>4. IsFiniteSet(P(1)) /\ Cardinality(P(1)) = PadAt(block, 1)
  BY <1>1, <1>2, <1>3
<1>5. IsFiniteSet(P(2)) /\ Cardinality(P(2)) = PadAt(block, 1) + PadAt(block, 2)
  BY <1>2, <1>3, <1>4
<1>6. IsFiniteSet(P(3)) /\ Cardinality(P(3)) = PadAt(block, 1) + PadAt(block, 2) + PadAt(block, 3)
  BY <1>2, <1>3, <1>5
<1>7. Cardinality(P(4)) = PadAt(block, 1) + PadAt(block, 2) + PadAt(block, 3) + PadAt(block, 4)
  BY <1>2, <1>3, <1>6
<1> QED
  BY <1>3, <1>7 DEF P, Pads, PadsOf

LEMMA SixBits ==
    ASSUME NEW c \in Int
    PROVE  c % 64 \in Nat /\ c % 64 < 64
OBVIOUS

\* What a block of four characters decodes to.
LEMMA DecodedIs ==
    ASSUME NEW block \in Seq(Int), Len(block) = 4
    PROVE  /\ BlockNumber(block) = OfSextets(block[1] % 64, block[2] % 64, block[3] % 64, block[4] % 64)
           /\ BlockNumber(block) \in Nat
           /\ BlockNumber(block) < Above
<1>1. block[1] \in Int /\ block[2] \in Int /\ block[3] \in Int /\ block[4] \in Int
  <2>1. 1 \in 1..Len(block) /\ 2 \in 1..Len(block) /\ 3 \in 1..Len(block) /\ 4 \in 1..Len(block)
    OBVIOUS
  <2> QED
    BY <2>1, ElementOfSeq
<1> DEFINE At(j) == block[j] % 64
<1>2. /\ At(1) \in Nat /\ At(2) \in Nat /\ At(3) \in Nat /\ At(4) \in Nat
      /\ At(1) < 64 /\ At(2) < 64 /\ At(3) < 64 /\ At(4) < 64
  BY <1>1, SixBits
<1>3. /\ Places[1] * (block[1] % Pad) = 262144 * At(1)
      /\ Places[2] * (block[2] % Pad) = 4096 * At(2)
      /\ Places[3] * (block[3] % Pad) = 64 * At(3)
      /\ Places[4] * (block[4] % Pad) = At(4)
  BY <1>2, SMT DEF Places, Pad
<1> HIDE DEF At
<1>4. BlockNumber(block) = OfSextets(At(1), At(2), At(3), At(4))
  BY <1>3, SMT DEF BlockNumber, OfSextets
<1>5. BlockNumber(block) \in Nat /\ BlockNumber(block) < Above
  BY <1>2, <1>4, SMTT(20) DEF OfSextets, Above
<1> QED
  BY <1>4, <1>5 DEF At

LEMMA BytesOf ==
    ASSUME NEW t \in Nat, t < Above
    PROVE  ThreeOf(t) \in ByteSeq /\ Len(ThreeOf(t)) = 3
<1> DEFINE x == t \div 65536
           y == (t \div 256) % 256
           z == t % 256
<1>1. x \in Nat /\ x < 256
  BY SMT DEF Above
<1>2. y \in 0..255 /\ z \in 0..255
  BY SMT
<1>3. ThreeOf(t) = <<x, y, z>>
  BY SMT DEF ThreeOf
<1> HIDE DEF x, y, z
<1>4. x \in 0..255
  BY <1>1
<1> QED
  BY <1>2, <1>3, <1>4 DEF ByteSeq

\* How many bytes a block loses is how many of its characters are padding.
LEMMA DecodedLength ==
    ASSUME NEW block \in Seq(Int), Len(block) = 4
    PROVE  /\ Decoded(block) \in ByteSeq
           /\ Len(Decoded(block)) = IF Pads(block) > 3 THEN 0 ELSE 3 - Pads(block)
           /\ \A i \in 1..Len(Decoded(block)) : Decoded(block)[i] = ThreeOf(BlockNumber(block))[i]
<1> DEFINE n == 3 - Pads(block)
           three == ThreeOf(BlockNumber(block))
           Octet == 0..255
<1>1. three \in Seq(Octet) /\ Len(three) = 3
  BY DecodedIs, BytesOf DEF ByteSeq
<1>2. Decoded(block) = SubSeq(three, 1, n) /\ Pads(block) \in 0..4
  BY PadsCount, SMT DEF Decoded, ThreeOf
<1> HIDE DEF three
<1>3. n \in Int /\ n <= 3
  BY <1>2
<1> HIDE DEF n, Octet
<1>4. /\ SubSeq(three, 1, n) \in Seq(Octet)
      /\ Len(SubSeq(three, 1, n)) = IF 1 <= n THEN n ELSE 0
      /\ \A i \in 1..n : SubSeq(three, 1, n)[i] = three[i]
  BY <1>1, <1>3, FirstPart
<1>5. Len(Decoded(block)) = IF n < 1 THEN 0 ELSE n
  BY <1>2, <1>3, <1>4
<1>6. \A i \in 1..Len(Decoded(block)) : Decoded(block)[i] = three[i]
  BY <1>2, <1>3, <1>4, <1>5
<1>7. Len(Decoded(block)) = IF Pads(block) > 3 THEN 0 ELSE 3 - Pads(block)
  BY <1>2, <1>5 DEF n
<1> QED
  BY <1>2, <1>4, <1>6, <1>7 DEF ByteSeq, three, Octet

LEMMA TextInts ==
    ASSUME NEW text \in Seq(0..64)
    PROVE  text \in Seq(Int)
<1> DEFINE S == 0..64
<1>1. S \subseteq Int /\ text \in Seq(S)
  OBVIOUS
<1> HIDE DEF S
<1> QED
  BY <1>1, SeqOfMore

\* The characters of a block of a text.
LEMMA BlockOfText ==
    ASSUME NEW n \in Nat, NEW text \in Seq(0..64), Len(text) = 4 * n, NEW k \in 1..n
    PROVE  /\ BlockOf(text, k) \in Seq(Int) /\ Len(BlockOf(text, k)) = 4
           /\ \A j \in 1..4 : BlockOf(text, k)[j] = text[(4 * k) - 4 + j]
<1> DEFINE from == (4 * k) - 3
           to == 4 * k
<1>1. /\ from \in Nat /\ from >= 1 /\ to \in Int /\ to <= 4 * n /\ to = from + 3
      /\ \A j \in Int : from + j - 1 = (4 * k) - 4 + j
  OBVIOUS
<1>2. text \in Seq(Int)
  BY TextInts
<1> HIDE DEF from, to
<1>3. /\ SubSeq(text, from, to) \in Seq(Int)
      /\ Len(SubSeq(text, from, to)) = IF from <= to THEN to - from + 1 ELSE 0
      /\ \A i \in 1..(to - from + 1) : SubSeq(text, from, to)[i] = text[from + i - 1]
  BY <1>1, <1>2, PartOf
<1>4. BlockOf(text, k) = SubSeq(text, from, to)
  BY DEF BlockOf, from, to
<1>5. to - from + 1 = 4 /\ from <= to
  BY <1>1
<1>6. \A j \in 1..4 : BlockOf(text, k)[j] = text[(4 * k) - 4 + j]
  BY <1>1, <1>3, <1>4, <1>5
<1> QED
  BY <1>3, <1>4, <1>5, <1>6

LEMMA BlockIs ==
    ASSUME NEW d \in ByteSeq, NEW k \in 1..Blocks(Len(d), 3)
    PROVE  /\ BlockOf(encode_b64(d), k) \in Seq(Int)
           /\ Len(BlockOf(encode_b64(d), k)) = 4
           /\ \A j \in 1..4 : BlockOf(encode_b64(d), k)[j] = encode_b64(d)[(4 * k) - 4 + j]
<1>1. Blocks(Len(d), 3) \in Nat
  BY LenProperties, BlockCount DEF ByteSeq
<1>2. encode_b64(d) \in Seq(0..64) /\ Len(encode_b64(d)) = 4 * Blocks(Len(d), 3)
  BY EncodedText
<1> QED
  BY <1>1, <1>2, BlockOfText

\* A block of the text of an array decodes to the bytes that it stands for.
LEMMA BlockDecodes ==
    ASSUME NEW d \in ByteSeq, NEW k \in 1..Blocks(Len(d), 3)
    PROVE  Decoded(BlockOf(encode_b64(d), k)) = SubSeq(d, (3 * k) - 2, LastOf(d, k))
<1> DEFINE L == Len(d)
           i == (3 * k) - 2
           x == ByteAt(d, i)
           y == ByteAt(d, i + 1)
           z == ByteAt(d, i + 2)
           t == Triple(d, i)
           block == BlockOf(encode_b64(d), k)
           last == LastOf(d, k)
<1>1. L \in Nat /\ i \in Nat /\ i >= 1 /\ i <= L /\ k \in Nat
  <2>1. L \in Nat /\ Blocks(L, 3) \in Nat /\ 3 * Blocks(L, 3) <= L + 2
    BY LenProperties, BlockCount DEF ByteSeq
  <2> QED
    BY <2>1
<1>2. /\ x \in Nat /\ y \in Nat /\ z \in Nat /\ x < 256 /\ y < 256 /\ z < 256
      /\ t \in Nat /\ t < Above /\ t = OfBytes(x, y, z) /\ ThreeOf(t) = <<x, y, z>>
  <2>1. OfThree(t, x, y, z)
    <3> HIDE DEF L, i
    <3> QED
      BY <1>1, TripleNumber
  <2> HIDE DEF t, x, y, z
  <2> QED
    BY <2>1 DEF OfThree
<1>3. /\ x = d[i]
      /\ i + 1 <= L => y = d[i + 1]
      /\ i + 2 <= L => z = d[i + 2]
      /\ i + 1 > L => y = 0 /\ z = 0
      /\ i + 2 > L => z = 0
  BY <1>1 DEF ByteAt
<1>4. /\ block \in Seq(Int) /\ Len(block) = 4
      /\ block[1] = Sextet(t, 0)
      /\ block[2] = Sextet(t, 1)
      /\ block[3] = IF i + 1 > L THEN Pad ELSE Sextet(t, 2)
      /\ block[4] = IF i + 2 > L THEN Pad ELSE Sextet(t, 3)
  <2> DEFINE b == encode_b64(d)
  <2>1. /\ b[(4 * k) - 3 + 0] = Sextet(t, 0)
        /\ b[(4 * k) - 3 + 1] = Sextet(t, 1)
        /\ b[(4 * k) - 3 + 2] = IF (3 * k) - 3 + 2 > L THEN Pad ELSE Sextet(t, 2)
        /\ b[(4 * k) - 3 + 3] = IF (3 * k) - 3 + 3 > L THEN Pad ELSE Sextet(t, 3)
    <3> HIDE DEF b, t
    <3>1. ASSUME NEW j \in 0..3
          PROVE  b[(4 * k) - 3 + j] = IF j > 1 /\ (3 * k) - 3 + j > L THEN Pad ELSE Sextet(t, j)
      BY EncodedAt DEF b, t
    <3> QED
      BY <3>1
  <2>2. /\ block \in Seq(Int) /\ Len(block) = 4
        /\ \A j \in 1..4 : block[j] = b[(4 * k) - 4 + j]
    BY BlockIs
  <2>3. /\ (4 * k) - 4 + 1 = (4 * k) - 3 + 0 /\ (4 * k) - 4 + 2 = (4 * k) - 3 + 1
        /\ (4 * k) - 4 + 3 = (4 * k) - 3 + 2 /\ (4 * k) - 4 + 4 = (4 * k) - 3 + 3
        /\ (3 * k) - 3 + 2 = i + 1 /\ (3 * k) - 3 + 3 = i + 2
    BY <1>1
  <2> HIDE DEF b, t, block, i
  <2>4. /\ block[1] = b[(4 * k) - 4 + 1] /\ block[2] = b[(4 * k) - 4 + 2]
        /\ block[3] = b[(4 * k) - 4 + 3] /\ block[4] = b[(4 * k) - 4 + 4]
    BY <2>2
  <2> QED
    BY <2>1, <2>2, <2>3, <2>4
<1> HIDE DEF i, x, y, z, t, block, L
<1>5. /\ i + 1 > L => Sextet(t, 2) = 0
      /\ i + 2 > L => Sextet(t, 3) = 0
  <2>1. ASSUME i + 1 > L
        PROVE  Sextet(t, 2) = 0
    BY <1>2, <1>3, <2>1, NoBytes
  <2>2. ASSUME i + 2 > L
        PROVE  Sextet(t, 3) = 0
    BY <1>2, <1>3, <2>2, NoBytes
  <2> QED
    BY <2>1, <2>2
<1>6. /\ Sextet(t, 0) \in 0..63 /\ Sextet(t, 1) \in 0..63
      /\ Sextet(t, 2) \in 0..63 /\ Sextet(t, 3) \in 0..63
  BY <1>2, SextetRange
<1>7. /\ block[1] % 64 = Sextet(t, 0) /\ block[2] % 64 = Sextet(t, 1)
      /\ block[3] % 64 = Sextet(t, 2) /\ block[4] % 64 = Sextet(t, 3)
  <2>1. \A c \in 0..63 : c % 64 = c
    OBVIOUS
  <2>2. Pad % 64 = 0
    BY DEF Pad
  <2> QED
    BY <1>4, <1>5, <1>6, <2>1, <2>2
<1>8. BlockNumber(block) = t
  BY <1>2, <1>4, <1>7, DecodedIs, SextetsAre
<1>9. Pads(block) = IF i + 1 > L THEN 2 ELSE IF i + 2 > L THEN 1 ELSE 0
  <2>1. \A c \in 0..63 : c # Pad
    BY DEF Pad
  <2>2. /\ PadAt(block, 1) = 0 /\ PadAt(block, 2) = 0
        /\ PadAt(block, 3) = IF i + 1 > L THEN 1 ELSE 0
        /\ PadAt(block, 4) = IF i + 2 > L THEN 1 ELSE 0
    BY <1>4, <1>6, <2>1 DEF PadAt
  <2>3. i + 1 > L => i + 2 > L
    BY <1>1
  <2> QED
    BY <2>2, <2>3 DEF Pads
<1>10. /\ Decoded(block) \in Seq(0..255)
       /\ Len(Decoded(block)) = IF i + 1 > L THEN 1 ELSE IF i + 2 > L THEN 2 ELSE 3
       /\ \A j \in 1..Len(Decoded(block)) : Decoded(block)[j] = ThreeOf(t)[j]
  <2>1. /\ Decoded(block) \in ByteSeq
        /\ Len(Decoded(block)) = IF Pads(block) > 3 THEN 0 ELSE 3 - Pads(block)
        /\ \A j \in 1..Len(Decoded(block)) : Decoded(block)[j] = ThreeOf(BlockNumber(block))[j]
    BY <1>4, DecodedLength
  <2> QED
    BY <1>8, <1>9, <2>1 DEF ByteSeq
<1>11. last \in Nat /\ last <= L /\ last = IF i + 1 > L THEN i ELSE IF i + 2 > L THEN i + 1 ELSE i + 2
  BY <1>1 DEF LastOf, i, L
<1>12. /\ SubSeq(d, i, last) \in Seq(0..255)
       /\ Len(SubSeq(d, i, last)) = IF i <= last THEN last - i + 1 ELSE 0
       /\ \A j \in 1..(last - i + 1) : SubSeq(d, i, last)[j] = d[i + j - 1]
  <2> DEFINE Octet == 0..255
  <2>1. d \in Seq(Octet) /\ last \in Int /\ last <= Len(d)
    BY <1>11 DEF ByteSeq, L
  <2> HIDE DEF Octet, last
  <2>2. /\ SubSeq(d, i, last) \in Seq(Octet)
        /\ Len(SubSeq(d, i, last)) = IF i <= last THEN last - i + 1 ELSE 0
        /\ \A j \in 1..(last - i + 1) : SubSeq(d, i, last)[j] = d[i + j - 1]
    BY <1>1, <2>1, PartOf
  <2> QED
    BY <2>2 DEF Octet
<1> HIDE DEF last
<1>13. Len(Decoded(block)) = Len(SubSeq(d, i, last)) /\ Len(Decoded(block)) = last - i + 1
  BY <1>1, <1>10, <1>11, <1>12
<1>14. ASSUME NEW j \in 1..Len(Decoded(block))
       PROVE  Decoded(block)[j] = SubSeq(d, i, last)[j]
  <2>1. Decoded(block)[j] = <<x, y, z>>[j] /\ SubSeq(d, i, last)[j] = d[i + j - 1]
    BY <1>2, <1>10, <1>12, <1>13
  <2>2. j \in {1, 2, 3} /\ i + j - 1 <= L
    BY <1>1, <1>10, <1>11, <1>13
  <2>3. CASE j = 1
    BY <1>1, <1>3, <2>1, <2>3
  <2>4. CASE j = 2
    BY <1>1, <1>3, <2>1, <2>2, <2>4
  <2>5. CASE j = 3
    BY <1>1, <1>3, <2>1, <2>2, <2>5
  <2> QED
    BY <2>2, <2>3, <2>4, <2>5
<1>15. Decoded(block) = SubSeq(d, i, last)
  BY <1>10, <1>12, <1>13, <1>14, SeqEqual
<1> QED
  BY <1>15 DEF block, i, last

\* What a text decodes to: its blocks, one behind the other.
Parts(text, n) == [k \in 1..n |-> Decoded(BlockOf(text, k))]

LEMMA DecodeIs ==
    ASSUME NEW n \in Nat, NEW text \in Seq(0..64), Len(text) = 4 * n
    PROVE  /\ decode_b64(text) = FlattenSeq(Parts(text, n))
           /\ Parts(text, n) \in [1..n -> ByteSeq]
<1>1. Len(text) % 4 = 0 /\ Len(text) \div 4 = n
  OBVIOUS
<1>2. Alien \notin ToSet(text)
  <2>1. \A v \in ToSet(text) : v \in 0..64
    BY ToSetIn
  <2>2. Alien \notin 0..64
    BY DEF Alien
  <2> QED
    BY <2>1, <2>2
<1>3. decode_b64(text) = FlattenSeq([k \in 1..(Len(text) \div 4) |-> Decoded(SubSeq(text, (4 * k) - 3, 4 * k))])
  BY <1>1, <1>2 DEF decode_b64
<1>4. decode_b64(text) = FlattenSeq(Parts(text, n))
  BY <1>1, <1>3 DEF Parts, BlockOf
<1>5. \A k \in 1..n : Decoded(BlockOf(text, k)) \in ByteSeq
  BY BlockOfText, DecodedLength
<1> QED
  BY <1>4, <1>5 DEF Parts

LEMMA DecodeBytes ==
    ASSUME NEW n \in Nat \ {0}, NEW text \in Seq(0..64), Len(text) = 4 * n
    PROVE  decode_b64(text) \in ByteSeq
<1>1. n \in Nat /\ Parts(text, n) \in [1..n -> ByteSeq] /\ decode_b64(text) = FlattenSeq(Parts(text, n))
  BY DecodeIs
<1> DEFINE Octet == 0..255
           seqs == Parts(text, n)
<1>2. seqs \in [1..n -> Seq(Octet)]
  BY <1>1 DEF ByteSeq
<1> HIDE DEF Octet, seqs
<1>3. FlattenSeq(seqs) \in Seq(Octet)
  BY <1>2, FlattenIn
<1> QED
  BY <1>1, <1>3 DEF ByteSeq, Octet, seqs

\* The first blocks of the text of an array decode to the array's first bytes.
LEMMA PartsOfPrefix ==
    ASSUME NEW d \in ByteSeq, NEW m \in 0..Blocks(Len(d), 3)
    PROVE  /\ m \in Nat
           /\ SubSeq(encode_b64(d), 1, 4 * m) \in Seq(0..64)
           /\ Len(SubSeq(encode_b64(d), 1, 4 * m)) = 4 * m
           /\ \A k \in 1..m : Parts(SubSeq(encode_b64(d), 1, 4 * m), m)[k] = SubSeq(d, (3 * k) - 2, LastOf(d, k))
<1> DEFINE b == encode_b64(d)
           l == 4 * m
           Six == 0..64
           text == SubSeq(b, 1, l)
<1>1. Blocks(Len(d), 3) \in Nat
  BY LenProperties, BlockCount DEF ByteSeq
<1>2. m \in Nat /\ l \in Nat /\ l \in Int /\ l <= 4 * Blocks(Len(d), 3)
  BY <1>1
<1>3. b \in Seq(Six) /\ Len(b) = 4 * Blocks(Len(d), 3)
  BY EncodedText
<1> HIDE DEF b, Six, l
<1>4. /\ text \in Seq(Six)
      /\ Len(text) = IF 1 <= l THEN l ELSE 0
      /\ \A i \in 1..l : text[i] = b[i]
  BY <1>2, <1>3, FirstPart
<1>5. Len(text) = l
  BY <1>2, <1>4
<1> HIDE DEF text
<1>6. text \in Seq(0..64) /\ Len(text) = 4 * m
  BY <1>4, <1>5 DEF Six, l
<1>7. ASSUME NEW k \in 1..m
      PROVE  Parts(text, m)[k] = SubSeq(d, (3 * k) - 2, LastOf(d, k))
  <2>1. k \in 1..Blocks(Len(d), 3)
    BY <1>1, <1>2
  <2>2. /\ BlockOf(text, k) \in Seq(Int) /\ Len(BlockOf(text, k)) = 4
        /\ \A j \in 1..4 : BlockOf(text, k)[j] = text[(4 * k) - 4 + j]
    BY <1>2, <1>6, BlockOfText
  <2>3. /\ BlockOf(b, k) \in Seq(Int) /\ Len(BlockOf(b, k)) = 4
        /\ \A j \in 1..4 : BlockOf(b, k)[j] = b[(4 * k) - 4 + j]
    BY <2>1, BlockIs DEF b
  <2>4. \A j \in 1..4 : (4 * k) - 4 + j \in 1..l
    BY <1>2 DEF l
  <2>5. \A j \in 1..4 : BlockOf(text, k)[j] = BlockOf(b, k)[j]
    BY <1>4, <2>2, <2>3, <2>4
  <2>6. BlockOf(text, k) = BlockOf(b, k)
    BY <2>2, <2>3, <2>5, SeqEqual
  <2>7. Decoded(BlockOf(b, k)) = SubSeq(d, (3 * k) - 2, LastOf(d, k))
    BY <2>1, BlockDecodes DEF b
  <2> QED
    BY <2>6, <2>7 DEF Parts
<1> QED
  BY <1>2, <1>6, <1>7 DEF text, b, l

LEMMA DecodesPrefix ==
    ASSUME NEW d \in ByteSeq, NEW m \in 0..Blocks(Len(d), 3)
    PROVE  decode_b64(SubSeq(encode_b64(d), 1, 4 * m)) = SubSeq(d, 1, LastOf(d, m))
<1> DEFINE L == Len(d)
           text == SubSeq(encode_b64(d), 1, 4 * m)
           seqs == Parts(text, m)
           Octet == 0..255
           last(k) == LastOf(d, k)
<1>1. L \in Nat /\ Blocks(L, 3) \in Nat /\ 3 * Blocks(L, 3) <= L + 2 /\ d \in Seq(Octet)
  BY LenProperties, BlockCount DEF ByteSeq
<1>2. /\ m \in Nat /\ text \in Seq(0..64) /\ Len(text) = 4 * m
      /\ \A k \in 1..m : seqs[k] = SubSeq(d, (3 * k) - 2, last(k))
  BY PartsOfPrefix
<1> HIDE DEF text
<1>3. decode_b64(text) = FlattenSeq(seqs) /\ seqs \in [1..m -> Seq(Octet)]
  BY <1>2, DecodeIs DEF ByteSeq
<1>4. ASSUME NEW k \in 0..m
      PROVE  /\ last(k) \in Nat /\ last(k) <= L
             /\ k < m => last(k) = 3 * k
             /\ k >= 1 => (3 * k) - 3 <= last(k)
  BY <1>1, <1>2 DEF LastOf, L
<1> HIDE DEF seqs, L, Octet, last
<1>5. CASE m = 0
  <2>1. seqs \in Seq(Seq(Octet)) /\ Len(seqs) = 0
    BY <1>2, <1>3, <1>5, RowIsSeq
  <2>2. seqs = <<>>
    BY <2>1, EmptySeq
  <2>3. FlattenSeq(seqs) = <<>>
    BY <2>1, <2>2 DEF FlattenSeq
  <2>4. last(0) = 0
    BY <1>1 DEF last, LastOf, L
  <2>5. SubSeq(d, 1, 0) = <<>>
    BY SubSeqEmpty
  <2> QED
    BY <1>3, <1>5, <2>3, <2>4, <2>5 DEF last, text
<1>6. CASE m # 0
  <2> DEFINE F == [k \in 1..m |-> SubSeq(d, 1, last(k))]
  <2>1. m \in Nat \ {0} /\ m \in 1..m /\ 1 \in 1..m
    BY <1>2, <1>6
  <2>2. F \in [1..m -> Seq(Octet)]
    <3>1. ASSUME NEW k \in 1..m
          PROVE  SubSeq(d, 1, last(k)) \in Seq(Octet)
      <4>1. last(k) \in Int /\ last(k) <= Len(d)
        BY <1>2, <1>4 DEF L
      <4> QED
        BY <1>1, <4>1, FirstPart
    <3> QED
      BY <3>1
  <2>3. F[1] = seqs[1]
    <3>1. (3 * 1) - 2 = 1
      OBVIOUS
    <3> QED
      BY <1>2, <2>1, <3>1
  <2>4. ASSUME NEW k \in 2..m
        PROVE  F[k] = F[k - 1] \o seqs[k]
    <3> DEFINE p == last(k - 1)
               q == last(k)
    <3>1. /\ k \in 1..m /\ k - 1 \in 1..m /\ k - 1 \in 0..m /\ k \in 0..m /\ k >= 1 /\ k - 1 < m
          /\ 3 * (k - 1) = (3 * k) - 3 /\ (3 * k) - 3 + 1 = (3 * k) - 2
      BY <1>2
    <3>2. p \in Nat /\ q \in Nat /\ p = (3 * k) - 3 /\ p <= q /\ q <= Len(d) /\ p + 1 = (3 * k) - 2
      BY <1>4, <3>1 DEF L
    <3>3. F[k - 1] = SubSeq(d, 1, p) /\ F[k] = SubSeq(d, 1, q)
      BY <3>1
    <3> HIDE DEF p, q, F
    <3>4. SubSeq(d, 1, p) \o SubSeq(d, p + 1, q) = SubSeq(d, 1, q)
      BY <1>1, <3>2, JoinParts
    <3>5. seqs[k] = SubSeq(d, p + 1, q)
      BY <1>2, <3>1, <3>2 DEF q
    <3> QED
      BY <3>3, <3>4, <3>5
  <2>5. F[m] = SubSeq(d, 1, last(m))
    BY <2>1
  <2> HIDE DEF F
  <2>6. IsRow(F, seqs, Octet, m)
    BY <2>2, <2>3, <2>4 DEF IsRow
  <2>7. FlattenSeq(seqs) = F[m]
    BY <1>3, <2>1, <2>6, FlattenIs
  <2> QED
    BY <1>3, <2>5, <2>7 DEF text, last
<1> QED
  BY <1>5, <1>6

LEMMA WholeText ==
    ASSUME NEW d \in ByteSeq
    PROVE  decode_b64(encode_b64(d)) = d
<1> DEFINE n == Blocks(Len(d), 3)
           b == encode_b64(d)
<1>1. n \in Nat /\ Len(d) \in Nat /\ Len(d) <= 3 * n /\ d \in Seq(0..255)
  BY LenProperties, BlockCount DEF ByteSeq
<1>2. b \in Seq(0..64) /\ Len(b) = 4 * n
  BY EncodedText
<1> HIDE DEF b
<1>3. ASSUME NEW S, NEW s \in Seq(S)
      PROVE  SubSeq(s, 1, Len(s)) = s
  <2>1. Len(s) \in Nat /\ Len(s) <= Len(s)
    BY LenProperties
  <2> QED
    BY <2>1, FirstOf
<1>4. SubSeq(b, 1, 4 * n) = b
  BY <1>2, <1>3
<1>5. SubSeq(d, 1, Len(d)) = d
  BY <1>1, <1>3
<1>6. n \in 0..n /\ LastOf(d, n) = Len(d)
  BY <1>1 DEF LastOf
<1>7. decode_b64(SubSeq(b, 1, 4 * n)) = SubSeq(d, 1, LastOf(d, n))
  BY <1>6, DecodesPrefix DEF b
<1> QED
  BY <1>4, <1>5, <1>6, <1>7 DEF b

\* A text that ends early.
LEMMA ShortText ==
    ASSUME NEW d \in ByteSeq, NEW i \in 1..Len(encode_b64(d))
    PROVE  decode_b64(SubSeq(encode_b64(d), 1, i - 1)) =
             IF (i - 1) % 4 # 0 THEN Invalid ELSE SubSeq(d, 1, 3 * ((i - 1) \div 4))
<1> DEFINE n == Blocks(Len(d), 3)
           b == encode_b64(d)
           l == i - 1
<1>1. n \in Nat /\ Len(d) \in Nat /\ 3 * n <= Len(d) + 2
  BY LenProperties, BlockCount DEF ByteSeq
<1>2. b \in Seq(0..64) /\ Len(b) = 4 * n
  BY EncodedText
<1>3. l \in Nat /\ l < 4 * n
  BY <1>1, <1>2
<1> HIDE DEF b, l
<1>4. CASE l % 4 # 0
  <2>1. b \in Seq(Int) /\ l \in Int /\ l <= Len(b)
    BY <1>1, <1>2, <1>3, TextInts
  <2>2. Len(SubSeq(b, 1, l)) = IF 1 <= l THEN l ELSE 0
    BY <2>1, FirstPart
  <2>3. Len(SubSeq(b, 1, l)) = l
    BY <1>3, <2>2
  <2>4. decode_b64(SubSeq(b, 1, l)) = Invalid
    BY <1>4, <2>3 DEF decode_b64
  <2> QED
    BY <1>4, <2>4 DEF b, l
<1>5. CASE l % 4 = 0
  <2> DEFINE m == l \div 4
  <2>1. m \in 0..n /\ 4 * m = l /\ m < n
    BY <1>1, <1>3, <1>5
  <2>2. LastOf(d, m) = 3 * m
    BY <1>1, <2>1 DEF LastOf
  <2>3. decode_b64(SubSeq(b, 1, 4 * m)) = SubSeq(d, 1, LastOf(d, m))
    BY <2>1, DecodesPrefix DEF b
  <2>4. decode_b64(SubSeq(b, 1, l)) = SubSeq(d, 1, 3 * m)
    BY <2>1, <2>2, <2>3
  <2> QED
    BY <1>5, <2>4 DEF b, l
<1> QED
  BY <1>4, <1>5

\* A text in which a character is replaced.
LEMMA ReplacedText ==
    ASSUME NEW d \in ByteSeq, NEW i \in 1..Len(encode_b64(d))
    PROVE  /\ decode_b64([encode_b64(d) EXCEPT ![i] = Alien]) = Invalid
           /\ decode_b64([encode_b64(d) EXCEPT ![i] = Pad]) # Invalid
<1> DEFINE n == Blocks(Len(d), 3)
           b == encode_b64(d)
           Six == 0..64
<1>1. n \in Nat
  BY LenProperties, BlockCount DEF ByteSeq
<1>2. b \in Seq(Six) /\ Len(b) = 4 * n /\ i \in 1..Len(b) /\ Pad \in Six
  BY EncodedText DEF Pad
<1> HIDE DEF b, Six
<1>3. decode_b64([b EXCEPT ![i] = Alien]) = Invalid
  <2>1. i \in DOMAIN b
    BY <1>2, LenProperties
  <2>2. DOMAIN [b EXCEPT ![i] = Alien] = DOMAIN b /\ [b EXCEPT ![i] = Alien][i] = Alien
    BY <2>1
  <2>3. Alien \in ToSet([b EXCEPT ![i] = Alien])
    BY <2>1, <2>2 DEF ToSet
  <2> QED
    BY <2>3 DEF decode_b64
<1>4. decode_b64([b EXCEPT ![i] = Pad]) # Invalid
  <2> DEFINE c == [b EXCEPT ![i] = Pad]
  <2>1. c \in Seq(Six) /\ Len(c) = Len(b)
    BY <1>2, ExceptSeq
  <2> HIDE DEF c
  <2>2. n \in Nat \ {0} /\ c \in Seq(0..64) /\ Len(c) = 4 * n
    BY <1>1, <1>2, <2>1 DEF Six
  <2>3. decode_b64(c) \in Seq(0..255)
    BY <2>2, DecodeBytes DEF ByteSeq
  <2>4. Invalid \notin Seq(0..255)
    <3>1. ASSUME Invalid \in Seq(0..255)
          PROVE  FALSE
      <4>1. 1 \in 1..Len(Invalid) /\ Invalid[1] = -1
        BY DEF Invalid
      <4>2. Invalid[1] \in 0..255
        BY <3>1, <4>1, ElementOfSeq
      <4> QED
        BY <4>1, <4>2
    <3> QED
      BY <3>1
  <2> QED
    BY <2>3, <2>4 DEF c
<1> QED
  BY <1>3, <1>4 DEF b

LEMMA CodecsSound ==
    ASSUME buffer_ \in ByteSeq
    PROVE  EncodedBack
<1> DEFINE b == encode_b64(buffer_)
           h == encode_hex(buffer_)
<1>1. b \in Seq(0..64) /\ Len(b) = 4 * Blocks(Len(buffer_), 3) /\ DOMAIN b = 1..Len(b)
  BY EncodedText, LenProperties
<1>2. decode_b64(b) = buffer_ /\ decode_hex_text(h) = buffer_
  BY WholeText, HexDecodes
<1>3. ASSUME NEW i \in DOMAIN b
      PROVE  /\ decode_b64(SubSeq(b, 1, i - 1)) =
                  IF (i - 1) % 4 # 0 THEN Invalid ELSE SubSeq(buffer_, 1, 3 * ((i - 1) \div 4))
             /\ decode_b64([b EXCEPT ![i] = Alien]) = Invalid
             /\ decode_b64([b EXCEPT ![i] = Pad]) # Invalid
  BY <1>1, ShortText, ReplacedText
<1>4. ASSUME NEW i \in DOMAIN h
      PROVE  /\ decode_hex_text(SubSeq(h, 1, i - 1)) =
                  IF (i - 1) % 2 # 0 THEN Invalid ELSE SubSeq(buffer_, 1, (i - 1) \div 2)
             /\ decode_hex_text([h EXCEPT ![i] = Alien]) = Invalid
  BY HexRefuses
<1> QED
  BY <1>1, <1>2, <1>3, <1>4 DEF EncodedBack

\* A block with a pad put over one of its characters.
LEMMA OneMorePad ==
    ASSUME NEW block \in Seq(Int), Len(block) = 4, NEW other \in Seq(Int), Len(other) = 4,
           NEW j \in 1..4, block[j] # Pad, other[j] = Pad,
           \A i \in 1..4 : i # j => other[i] = block[i],
           Len(Decoded(block)) >= 1
    PROVE  Len(Decoded(other)) = Len(Decoded(block)) - 1
<1>1. PadAt(block, j) = 0 /\ PadAt(other, j) = 1
  BY DEF PadAt
<1>2. \A i \in 1..4 : (i # j => PadAt(other, i) = PadAt(block, i)) /\ PadAt(block, i) \in 0..1
  BY DEF PadAt
<1>3. Pads(other) = Pads(block) + 1
  <2>1. j = 1 \/ j = 2 \/ j = 3 \/ j = 4
    OBVIOUS
  <2> QED
    BY <1>1, <1>2, <2>1 DEF Pads
<1>4. /\ Len(Decoded(block)) = IF Pads(block) > 3 THEN 0 ELSE 3 - Pads(block)
      /\ Len(Decoded(other)) = IF Pads(other) > 3 THEN 0 ELSE 3 - Pads(other)
      /\ Pads(block) \in 0..4
  BY DecodedLength, PadsCount
<1> QED
  BY <1>3, <1>4

LEMMA LostByte ==
    ASSUME NEW d \in ByteSeq, NEW i \in 1..Len(encode_b64(d)), encode_b64(d)[i] # Pad
    PROVE  Len(decode_b64([encode_b64(d) EXCEPT ![i] = Pad])) = Len(d) - 1
<1> DEFINE n == Blocks(Len(d), 3)
           b == encode_b64(d)
           c == [b EXCEPT ![i] = Pad]
           m == ((i - 1) \div 4) + 1
           j == ((i - 1) % 4) + 1
           Six == 0..64
           Octet == 0..255
<1>1. n \in Nat /\ Len(d) \in Nat /\ 3 * n <= Len(d) + 2
  BY LenProperties, BlockCount DEF ByteSeq
<1>2. b \in Seq(Six) /\ Len(b) = 4 * n /\ i \in 1..Len(b) /\ Pad \in Six /\ b[i] # Pad
  BY EncodedText DEF Pad
<1>3. decode_b64(b) = d
  BY WholeText
<1> HIDE DEF b, Six, n
<1>4. n \in Nat \ {0} /\ m \in 1..n /\ j \in 1..4 /\ i = (4 * m) - 4 + j
  <2>1. i \in Nat /\ i >= 1 /\ i <= 4 * n
    BY <1>1, <1>2
  <2> QED
    BY <1>1, <2>1
<1> HIDE DEF m, j
<1>5. /\ c \in Seq(Six) /\ Len(c) = 4 * n
      /\ \A k \in 1..Len(b) : c[k] = IF k = i THEN Pad ELSE b[k]
  BY <1>2, ExceptSeq
<1> HIDE DEF c
<1>6. /\ decode_b64(b) = FlattenSeq(Parts(b, n)) /\ Parts(b, n) \in [1..n -> Seq(Octet)]
      /\ decode_b64(c) = FlattenSeq(Parts(c, n)) /\ Parts(c, n) \in [1..n -> Seq(Octet)]
  BY <1>1, <1>2, <1>5, DecodeIs DEF Six, ByteSeq
<1>7. ASSUME NEW k \in 1..n
      PROVE  /\ BlockOf(b, k) \in Seq(Int) /\ Len(BlockOf(b, k)) = 4
             /\ BlockOf(c, k) \in Seq(Int) /\ Len(BlockOf(c, k)) = 4
             /\ \A l \in 1..4 : BlockOf(c, k)[l] = IF k = m /\ l = j THEN Pad ELSE BlockOf(b, k)[l]
             /\ k = m => BlockOf(b, k)[j] # Pad
  <2>1. /\ BlockOf(b, k) \in Seq(Int) /\ Len(BlockOf(b, k)) = 4
        /\ \A l \in 1..4 : BlockOf(b, k)[l] = b[(4 * k) - 4 + l]
    BY <1>1, <1>2, BlockOfText DEF Six
  <2>2. /\ BlockOf(c, k) \in Seq(Int) /\ Len(BlockOf(c, k)) = 4
        /\ \A l \in 1..4 : BlockOf(c, k)[l] = c[(4 * k) - 4 + l]
    BY <1>1, <1>5, BlockOfText DEF Six
  <2>3. ASSUME NEW l \in 1..4
        PROVE  /\ (4 * k) - 4 + l \in 1..Len(b)
               /\ (4 * k) - 4 + l = i <=> k = m /\ l = j
    BY <1>1, <1>2, <1>4
  <2>4. ASSUME NEW l \in 1..4
        PROVE  BlockOf(c, k)[l] = IF k = m /\ l = j THEN Pad ELSE BlockOf(b, k)[l]
    <3> DEFINE at == (4 * k) - 4 + l
    <3>1. at \in 1..Len(b) /\ (at = i <=> k = m /\ l = j)
      BY <2>3
    <3>2. BlockOf(c, k)[l] = c[at] /\ BlockOf(b, k)[l] = b[at]
      BY <2>1, <2>2
    <3> HIDE DEF at
    <3> QED
      BY <1>5, <3>1, <3>2
  <2>5. k = m => BlockOf(b, k)[j] # Pad
    BY <1>2, <1>4, <2>1
  <2> QED
    BY <2>1, <2>2, <2>4, <2>5
<1>8. ASSUME NEW k \in 1..n, k # m
      PROVE  Len(Parts(c, n)[k]) = Len(Parts(b, n)[k])
  <2>1. BlockOf(c, k) = BlockOf(b, k)
    <3>1. /\ BlockOf(b, k) \in Seq(Int) /\ BlockOf(c, k) \in Seq(Int)
          /\ Len(BlockOf(c, k)) = Len(BlockOf(b, k))
          /\ \A l \in 1..Len(BlockOf(c, k)) : BlockOf(c, k)[l] = BlockOf(b, k)[l]
      BY <1>7, <1>8
    <3> QED
      BY <3>1, SeqEqual
  <2> QED
    BY <2>1 DEF Parts
<1>9. Len(Parts(c, n)[m]) = Len(Parts(b, n)[m]) - 1
  <2>1. Len(Decoded(BlockOf(b, m))) >= 1
    <3> DEFINE from == (3 * m) - 2
               to == LastOf(d, m)
    <3>1. /\ from \in Nat /\ from >= 1 /\ to \in Int /\ to <= Len(d) /\ from <= to
      BY <1>1, <1>4 DEF LastOf
    <3>2. d \in Seq(Octet)
      BY DEF ByteSeq
    <3>3. m \in 1..Blocks(Len(d), 3)
      BY <1>4 DEF n
    <3>4. Decoded(BlockOf(b, m)) = SubSeq(d, from, to)
      BY <3>3, BlockDecodes DEF b
    <3> HIDE DEF from, to, Octet
    <3>5. Len(SubSeq(d, from, to)) = IF from <= to THEN to - from + 1 ELSE 0
      BY <3>1, <3>2, PartOf
    <3> QED
      BY <3>1, <3>4, <3>5
  <2>2. Len(Decoded(BlockOf(c, m))) = Len(Decoded(BlockOf(b, m))) - 1
    BY <1>4, <1>7, <2>1, OneMorePad
  <2> QED
    BY <1>4, <2>2 DEF Parts
<1> HIDE DEF Octet
<1>10. Len(FlattenSeq(Parts(c, n))) = Len(FlattenSeq(Parts(b, n))) - 1
  <2> DEFINE seqs == Parts(b, n)
             others == Parts(c, n)
  <2>1. /\ seqs \in [1..n -> Seq(Octet)] /\ others \in [1..n -> Seq(Octet)]
        /\ ShorterAt(others, seqs, m, n)
    BY <1>6, <1>8, <1>9 DEF ShorterAt
  <2> HIDE DEF seqs, others, n
  <2>2. n \in Nat \ {0} /\ m \in 1..n
    BY <1>4
  <2>3. Len(FlattenSeq(others)) = Len(FlattenSeq(seqs)) - 1
    BY <2>1, <2>2, OneShorter
  <2> QED
    BY <2>3 DEF seqs, others
<1> QED
  BY <1>3, <1>6, <1>10, Zenon DEF c, b

LEMMA PadsSound ==
    ASSUME buffer_ \in ByteSeq
    PROVE  PadsLose
<1>1. DOMAIN encode_b64(buffer_) = 1..Len(encode_b64(buffer_))
  BY EncodedText, LenProperties
<1> QED
  BY <1>1, LostByte DEF PadsLose

-----------------------------------------------------------------------------
(* The array, whatever calls are made on it.                               *)

BinaryIInv == buffer_ \in ByteSeq /\ Len(buffer_) <= MaxBytes

\* Removing bytes of an array leaves an array that is no longer.
LEMMA PartBytes ==
    ASSUME NEW d \in ByteSeq, NEW m \in Nat, m >= 1, NEW n \in Int, n <= Len(d)
    PROVE  SubSeq(d, m, n) \in ByteSeq /\ Len(SubSeq(d, m, n)) <= Len(d)
<1> DEFINE Octet == 0..255
<1>1. d \in Seq(Octet) /\ Len(d) \in Nat
  BY LenProperties DEF ByteSeq
<1> HIDE DEF Octet
<1>2. /\ SubSeq(d, m, n) \in Seq(Octet)
      /\ Len(SubSeq(d, m, n)) = IF m <= n THEN n - m + 1 ELSE 0
  BY <1>1, PartOf
<1>3. Len(SubSeq(d, m, n)) <= Len(d)
  BY <1>1, <1>2
<1> QED
  BY <1>2, <1>3 DEF ByteSeq, Octet

LEMMA FirstBytes ==
    ASSUME NEW d \in ByteSeq, NEW n \in Int, n <= Len(d)
    PROVE  SubSeq(d, 1, n) \in ByteSeq /\ Len(SubSeq(d, 1, n)) <= Len(d)
<1> DEFINE m == 1
<1>1. m \in Nat /\ m >= 1
  OBVIOUS
<1> HIDE DEF m
<1>2. SubSeq(d, m, n) \in ByteSeq /\ Len(SubSeq(d, m, n)) <= Len(d)
  BY <1>1, PartBytes
<1> QED
  BY <1>2 DEF m

\* A row of bytes is an array.
LEMMA RowOfBytes ==
    ASSUME NEW n \in Nat, NEW row \in [1..n -> 0..255]
    PROVE  row \in ByteSeq /\ Len(row) = n
<1> DEFINE Octet == 0..255
<1>1. row \in [1..n -> Octet]
  OBVIOUS
<1> HIDE DEF Octet
<1>2. row \in Seq(Octet) /\ Len(row) = n
  BY <1>1, RowIsSeq
<1> QED
  BY <1>2 DEF ByteSeq, Octet

LEMMA NoBytesAtAll == <<>> \in ByteSeq /\ Len(<<>>) = 0
BY EmptySeq DEF ByteSeq

LEMMA BinaryStep ==
    ASSUME BinaryIInv, [BinaryNext]_buffer_
    PROVE  BinaryIInv'
<1> DEFINE d == buffer_
           L == Len(buffer_)
<1>1. d \in ByteSeq /\ L \in Nat /\ L <= MaxBytes /\ MaxBytes \in Nat /\ DOMAIN d = 1..L
  BY LenProperties, BinaryAssumption DEF BinaryIInv, ByteSeq
<1>2. \A b \in Bytes : b \in 0..255
  BY BinaryAssumption
<1>3. \A i \in 1..L : d[i] \in 0..255
  BY ElementOfSeq DEF BinaryIInv, ByteSeq
<1>4. CASE ByteAppend
  <2>1. PICK other \in {<<b>> : b \in Bytes} \cup {<<>>, buffer_} :
          Room(L + Len(other)) /\ buffer_' = d \o other
    BY <1>4 DEF ByteAppend
  <2>2. other \in ByteSeq
    <3>1. ASSUME NEW b \in Bytes
          PROVE  <<b>> \in ByteSeq
      BY <1>2 DEF ByteSeq
    <3> QED
      BY <1>1, <2>1, <3>1, NoBytesAtAll
  <2>3. d \o other \in ByteSeq /\ Len(d \o other) = L + Len(other)
    <3> DEFINE Octet == 0..255
    <3>1. d \in Seq(Octet) /\ other \in Seq(Octet)
      BY <1>1, <2>2 DEF ByteSeq
    <3> HIDE DEF Octet
    <3>2. d \o other \in Seq(Octet) /\ Len(d \o other) = L + Len(other)
      BY <3>1, ConcatProperties
    <3> QED
      BY <3>2 DEF ByteSeq, Octet
  <2> QED
    BY <2>1, <2>3 DEF BinaryIInv, Room
<1>5. CASE BytePrefix
  <2>1. PICK n \in 1..(MaxBytes + 1) : buffer_' = IF n >= L THEN <<>> ELSE SubSeq(d, n + 1, L)
    BY <1>5 DEF BytePrefix, remove_prefix
  <2>2. SubSeq(d, n + 1, L) \in ByteSeq /\ Len(SubSeq(d, n + 1, L)) <= L
    <3> DEFINE m == n + 1
    <3>1. m \in Nat /\ m >= 1 /\ L \in Int /\ L <= L
      BY <1>1
    <3> HIDE DEF m
    <3>2. SubSeq(d, m, L) \in ByteSeq /\ Len(SubSeq(d, m, L)) <= L
      BY <1>1, <3>1, PartBytes
    <3> QED
      BY <3>2 DEF m
  <2>3. buffer_' \in ByteSeq /\ Len(buffer_') <= L /\ Len(buffer_') \in Int
    BY <1>1, <2>1, <2>2, NoBytesAtAll, LenProperties DEF ByteSeq
  <2> QED
    BY <1>1, <2>3 DEF BinaryIInv
<1>6. CASE ByteSuffix
  <2>1. PICK n \in 1..(MaxBytes + 1) : buffer_' = IF n >= L THEN <<>> ELSE SubSeq(d, 1, L - n)
    BY <1>6 DEF ByteSuffix, remove_suffix
  <2>2. SubSeq(d, 1, L - n) \in ByteSeq /\ Len(SubSeq(d, 1, L - n)) <= L
    BY <1>1, <2>1, FirstBytes
  <2>3. buffer_' \in ByteSeq /\ Len(buffer_') <= L /\ Len(buffer_') \in Int
    BY <1>1, <2>1, <2>2, NoBytesAtAll, LenProperties DEF ByteSeq
  <2> QED
    BY <1>1, <2>3 DEF BinaryIInv
<1>7. CASE ByteBack
  <2>1. CASE \E b \in Bytes : Room(L + 1) /\ buffer_' = Append(d, b)
    <3>1. PICK b \in Bytes : L + 1 <= MaxBytes /\ buffer_' = Append(d, b)
      BY <2>1 DEF Room
    <3>2. Append(d, b) \in ByteSeq /\ Len(Append(d, b)) = L + 1
      BY <1>1, <1>2, AppendProperties DEF ByteSeq
    <3> QED
      BY <3>1, <3>2 DEF BinaryIInv
  <2>2. CASE buffer_' = SubSeq(d, 1, L - 1)
    <3>1. SubSeq(d, 1, L - 1) \in ByteSeq /\ Len(SubSeq(d, 1, L - 1)) <= L
      BY <1>1, FirstBytes
    <3>2. Len(buffer_') \in Int
      BY <2>2, <3>1, LenProperties DEF ByteSeq
    <3>3. buffer_' \in ByteSeq /\ Len(buffer_') <= L
      BY <2>2, <3>1
    <3> QED
      BY <1>1, <3>2, <3>3 DEF BinaryIInv
  <2> QED
    BY <1>7, <2>1, <2>2 DEF ByteBack
<1>8. CASE ByteResize
  <2>1. PICK n \in 0..MaxBytes : buffer_' = [i \in 1..n |-> IF i <= L THEN d[i] ELSE 0]
    BY <1>8 DEF ByteResize
  <2>2. n \in Nat /\ buffer_' \in [1..n -> 0..255]
    BY <1>1, <1>3, <2>1
  <2>3. buffer_' \in ByteSeq /\ Len(buffer_') = n
    BY <2>2, RowOfBytes
  <2> QED
    BY <2>1, <2>3 DEF BinaryIInv
<1>9. CASE ByteFill
  <2>1. CASE buffer_' = <<>>
    BY <1>1, <2>1, NoBytesAtAll DEF BinaryIInv
  <2>2. CASE \E b \in Bytes : buffer_' = [i \in DOMAIN buffer_ |-> b]
    <3>1. buffer_' \in [1..L -> 0..255]
      BY <1>1, <1>2, <2>2
    <3> QED
      BY <1>1, <3>1, RowOfBytes DEF BinaryIInv
  <2>3. CASE \E b, c \in Bytes :
               buffer_' = [i \in DOMAIN buffer_ |-> IF buffer_[i] = b THEN c ELSE buffer_[i]]
    <3>1. buffer_' \in [1..L -> 0..255]
      BY <1>1, <1>2, <1>3, <2>3
    <3> QED
      BY <1>1, <3>1, RowOfBytes DEF BinaryIInv
  <2> QED
    BY <1>9, <2>1, <2>2, <2>3 DEF ByteFill
<1>10. CASE ByteMade
  <2>1. CASE \E start, end \in 0..MaxBytes :
               slice(buffer_, start, end) # Invalid /\ buffer_' = slice(buffer_, start, end)
    <3>1. PICK start \in 0..MaxBytes, end \in 0..MaxBytes :
            slice(d, start, end) # Invalid /\ buffer_' = slice(d, start, end)
      BY <2>1
    <3> DEFINE a == Min({end, L})
               m == start + 1
    <3>2. a \in Int /\ a <= L /\ m \in Nat /\ m >= 1
      BY <1>1, <3>1, MinOfTwo
    <3>3. buffer_' = SubSeq(d, m, a)
      BY <3>1 DEF slice
    <3> HIDE DEF a, m
    <3>4. SubSeq(d, m, a) \in ByteSeq /\ Len(SubSeq(d, m, a)) <= L
      BY <1>1, <3>2, PartBytes
    <3>5. Len(buffer_') \in Int
      BY <3>3, <3>4, LenProperties DEF ByteSeq
    <3>6. buffer_' \in ByteSeq /\ Len(buffer_') <= L
      BY <3>3, <3>4
    <3> QED
      BY <1>1, <3>5, <3>6 DEF BinaryIInv
  <2>2. CASE buffer_' = decode_b64(encode_b64(buffer_))
    BY <1>1, <2>2, WholeText DEF BinaryIInv
  <2>3. CASE buffer_' = decode_hex_text(encode_hex(buffer_))
    BY <1>1, <2>3, HexDecodes DEF BinaryIInv
  <2> QED
    BY <1>10, <2>1, <2>2, <2>3 DEF ByteMade
<1>11. CASE UNCHANGED buffer_
  BY <1>11 DEF BinaryIInv
<1> QED
  BY <1>4, <1>5, <1>6, <1>7, <1>8, <1>9, <1>10, <1>11 DEF BinaryNext

LEMMA BinaryAlways == BinarySpec => []BinaryIInv
<1>1. BinaryInit => BinaryIInv
  BY NoBytesAtAll, BinaryAssumption DEF BinaryInit, BinaryIInv
<1> QED
  BY <1>1, BinaryStep, PTL DEF BinarySpec

\* TextsComeBack: whatever an array holds and however long it is, each of
\* its texts decodes to it; a text that is cut inside a block, or that holds a
\* foreign character, is refused whole, and one that is cut between blocks
\* decodes to the bytes of the blocks before the cut (encode and decode in
\* util).
THEOREM TextsComeBack == BinarySpec => []EncodedBack
<1>1. BinaryIInv => EncodedBack
  BY CodecsSound DEF BinaryIInv
<1> QED
  BY <1>1, BinaryAlways, PTL

\* PadsTakeBytes: a pad put over a character of any array's text loses one
\* byte of the array (decode_b64 counts pads wherever they stand).
THEOREM PadsTakeBytes == BinarySpec => []PadsLose
<1>1. BinaryIInv => PadsLose
  BY PadsSound DEF BinaryIInv
<1> QED
  BY <1>1, BinaryAlways, PTL

\* ViewsStayInside: for arrays of any length and a size_t of any width, a
\* slice and a view are the bytes that their bounds name or are refused
\* (slice, subview, remove_prefix and remove_suffix).
THEOREM ViewsStayInside == BinarySpec => []ViewsAgree
<1>1. BinaryIInv => ViewsAgree
  BY ViewsSound DEF BinaryIInv
<1> QED
  BY <1>1, BinaryAlways, PTL

\* BytesAnswerAlike: the three together, for arrays of any bytes and length
\* (byte_array and the codecs of util).
THEOREM BytesAnswerAlike == BinarySpec => []BinaryInv
BY TextsComeBack, PadsTakeBytes, ViewsStayInside, PTL DEF BinaryInv
=============================================================================
