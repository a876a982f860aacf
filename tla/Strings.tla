------------------------------ MODULE Strings -------------------------------
(***************************************************************************)
(* The operations of src/strings.hpp.  A text is a sequence of one-        *)
(* character strings, grown by one character a step; every reachable text  *)
(* is given to every operation.  Positions count from 1, and a search that *)
(* finds nothing answers the position after the last (npos in the code).   *)
(***************************************************************************)
EXTENDS Integers, Sequences, FiniteSets, SequencesExt

CONSTANTS
    Symbols,    \* the characters texts are made of
    SmallOf,    \* the small letter of each capital
    MaxSymbols, \* bound: characters of a text
    Pieces      \* the prefixes, suffixes and needles looked for

ASSUME StringsAssumption ==
    /\ MaxSymbols \in Nat
    /\ Pieces \subseteq Seq(Symbols)
    /\ \A c, d \in DOMAIN SmallOf :
         SmallOf[c] \notin DOMAIN SmallOf /\ (SmallOf[c] = SmallOf[d] => c = d)

VARIABLE str

Npos(s) == Len(s) + 1
Sub(s, i, j) == SubSeq(s, i, Min({j, Len(s)}))
Onward(s, i) == Sub(s, i, Len(s))

find_first_of(s, C, from) == Min({i \in from..Len(s) : s[i] \in C} \cup {Npos(s)})
find_first_not_of(s, C, from) == Min({i \in from..Len(s) : s[i] \notin C} \cup {Npos(s)})
find_last_not_of(s, C) == Max({i \in 1..Len(s) : s[i] \notin C} \cup {0})

\* Where p stands in s.
Finds(s, p) == {i \in 1..(Len(s) - Len(p) + 1) : Sub(s, i, i + Len(p) - 1) = p}

-----------------------------------------------------------------------------
(* The operations.  SplitBeyond and TokensUnskipped take no part in the    *)
(* specification: they are SplitStep and TokensStep with slips that break  *)
(* a property.                                                             *)

\* std::tolower and std::toupper
Lower(c) == IF c \in DOMAIN SmallOf THEN SmallOf[c] ELSE c
Upper(c) ==
    IF \E d \in DOMAIN SmallOf : SmallOf[d] = c
      THEN CHOOSE d \in DOMAIN SmallOf : SmallOf[d] = c ELSE c
to_lower(s) == [i \in DOMAIN s |-> Lower(s[i])]
to_upper(s) == [i \in DOMAIN s |-> Upper(s[i])]

starts_case(s, p) ==
    /\ p # <<>>
    /\ Len(s) >= Len(p)
    /\ \A i \in DOMAIN p : to_lower(Sub(s, 1, Len(p)))[i] = to_lower(p)[i]

ends_case(s, p) ==
    /\ p # <<>>
    /\ Len(s) >= Len(p)
    /\ \A i \in DOMAIN p : to_lower(Onward(s, Len(s) - Len(p) + 1))[i] = to_lower(p)[i]

starts_with(s, p) == Finds(s, p) # {} /\ Min(Finds(s, p)) = 1

\* rfind() answers the last place.
ends_with(s, p) ==
    /\ Len(s) >= Len(p)
    /\ Finds(s, p) # {}
    /\ Onward(s, Max(Finds(s, p))) = p

contains(s, p) == Finds(s, p) # {}

Space == " "
Blanks == {Space, "\n"}

trim(s) == Sub(s, 1, find_last_not_of(s, Blanks))

strip(s) ==
    IF find_last_not_of(s, Blanks) = 0 THEN <<>>
    ELSE Sub(s, find_first_not_of(s, Blanks, 1), find_last_not_of(s, Blanks))

Quote == "\""
Apostrophe == "'"
Brace == "{"
EndBrace == "}"
Pairs == <<Quote, Quote, Apostrophe, Apostrophe, Brace, EndBrace>>

\* The first place of c in Pairs, counted from 0.
PairOf(c) == find_first_of(Pairs, {c}, 1) - 1
Opens(c) == PairOf(c) < Len(Pairs) /\ PairOf(c) % 2 = 0

\* The place in Pairs is compared with the size of the text.
unquote(s) ==
    IF Len(s) < 2 \/ PairOf(s[1]) > Len(s) \/ ~Opens(s[1]) THEN s
    ELSE IF s[Len(s)] = Pairs[PairOf(s[1]) + 2] THEN Sub(s, 2, Len(s) - 1) ELSE s

is_quoted(s) == Len(s) >= 2 /\ Opens(s[1]) /\ s[Len(s)] = Pairs[PairOf(s[1]) + 2]

is_line(s) == s # <<>> /\ s[Len(s)] = "\n"

is_unsigned(s) ==
    s # <<>> /\ ToSet(s) \subseteq {"0", "1", "2", "3", "4", "5", "6", "7", "8", "9"}

is_integer(s) == s # <<>> /\ is_unsigned(IF s[1] = "-" THEN Onward(s, 2) ELSE s)

SplitBeyond(s, C, max, count, loop) ==
    LET current == find_first_of(s, C, loop.prev)
    IN  IF current = Npos(s) \/ (max # 0 /\ count > max) THEN loop
        ELSE [prev |-> current + 1,
              result |-> Append(loop.result, Sub(s, loop.prev, current - 1))]

\* A limit counts the piece after the last delimiter that splits.
SplitStep(s, C, max, count, loop) ==
    LET current == find_first_of(s, C, loop.prev)
    IN  IF current = Npos(s) \/ (max # 0 /\ count >= max) THEN loop
        ELSE [prev |-> current + 1,
              result |-> Append(loop.result, Sub(s, loop.prev, current - 1))]

split(s, C, max) ==
    LET loop[n \in 0..Len(s)] ==
            IF n = 0 THEN [prev |-> 1, result |-> <<>>]
            ELSE SplitStep(s, C, max, n, loop[n - 1])
        done == loop[Len(s)]
    IN  Append(done.result, Onward(s, done.prev))

join(list, delim) ==
    FlattenSeq([k \in DOMAIN list |-> IF k = 1 THEN list[k] ELSE delim \o list[k]])

\* tokenize() looks for the first delimiter from the start of the text and
\* not from its first token.  substr() takes a count below 0 for one that
\* reaches the end.
TokensStart(s, C) ==
    LET first == find_first_not_of(s, C, 1)
    IN  [prev |-> IF first = Npos(s) THEN 1 ELSE first,
         current |-> find_first_of(s, C, 1), result |-> <<>>]

\* Where the quoted token at i ends; 0 when none starts there, or none ends.
\* (For a closing brace the code reads one place past the pairs, which is the
\* end of the literal: a character that no text holds.)
QuoteEnds(s, i) ==
    IF ~Opens(s[i]) THEN 0
    ELSE LET close == find_first_of(s, {Pairs[PairOf(s[i]) + 2]}, i + 1)
         IN  IF close = Npos(s) THEN 0 ELSE close

TokensUnskipped(s, C, loop) ==
    LET quote == QuoteEnds(s, loop.prev)
        end == IF quote # 0 THEN quote ELSE loop.current
        token == IF quote # 0 THEN Sub(s, loop.prev, quote)
                 ELSE IF end < loop.prev THEN Onward(s, loop.prev)
                 ELSE Sub(s, loop.prev, end - 1)
        next == find_first_not_of(s, C, end)
        prev == IF next = Npos(s) THEN end + 1 ELSE next
    IN  [prev |-> prev, current |-> find_first_of(s, C, prev),
         result |-> Append(loop.result, token)]

TokensStep(s, C, loop) ==
    LET quote == QuoteEnds(s, loop.prev)
        end == IF quote # 0 THEN quote ELSE loop.current
        token == IF quote # 0 THEN Sub(s, loop.prev, quote)
                 ELSE IF end < loop.prev THEN Onward(s, loop.prev)
                 ELSE Sub(s, loop.prev, end - 1)
        next == find_first_not_of(s, C, end + 1)
        prev == IF next = Npos(s) THEN end + 1 ELSE next
    IN  [prev |-> prev, current |-> find_first_of(s, C, prev),
         result |-> Append(loop.result, token)]

\* Each turn of the loop ends at a later place of the text.
tokenize(s, C) ==
    LET loop[n \in 0..Len(s)] ==
            IF n = 0 THEN TokensStart(s, C)
            ELSE IF loop[n - 1].current = Npos(s) THEN loop[n - 1]
            ELSE TokensStep(s, C, loop[n - 1])
        done == loop[Len(s)]
    IN  IF done.prev <= Len(s) THEN Append(done.result, Onward(s, done.prev)) ELSE done.result

-----------------------------------------------------------------------------
StringsInit == str = <<>>

Types ==
    /\ Len(str) < MaxSymbols
    /\ \E c \in Symbols : str' = Append(str, c)

StringsSpec == StringsInit /\ [][Types]_str

-----------------------------------------------------------------------------
Less(s, C) == FlattenSeq([i \in DOMAIN s |-> IF s[i] \in C THEN <<>> ELSE <<s[i]>>])

\* SearchExact: the searches that go through find() and rfind() answer as
\* comparing the ends of the text would, the empty piece included; those
\* that ignore case answer as the others on texts of one case, but for the
\* empty piece, which they refuse.
SearchExact ==
    \A p \in Pieces :
        /\ starts_with(str, p) <=> IsPrefix(p, str)
        /\ ends_with(str, p) <=> IsSuffix(p, str)
        /\ contains(str, p) <=> \E i \in 0..Len(str) : starts_with(Onward(str, i + 1), p)
        /\ starts_case(str, p) <=> p # <<>> /\ starts_with(to_upper(str), to_upper(p))
        /\ ends_case(str, p) <=> p # <<>> /\ ends_with(to_lower(str), to_lower(p))

\* SplitsWithin: joining the pieces of a text gives the text back; there are
\* no more pieces than the limit, where 0 is none; and only the last piece may
\* hold a delimiter, and only where the limit is reached.
SplitsWithin(max) ==
    LET list == split(str, {Space}, max)
    IN  /\ join(list, <<Space>>) = str
        /\ max > 0 => Len(list) <= max
        /\ \A k \in 1..(Len(list) - 1) : Space \notin ToSet(list[k])
        /\ (max = 0 \/ Len(list) < max) => Space \notin ToSet(list[Len(list)])

\* SplitsBack: so it is with no limit, with every limit up to the number of
\* pieces there can be, and with one beyond it.
SplitsBack == \A max \in 0..(Len(str) + 2) : SplitsWithin(max)

\* StripsOnce: strip and trim are idempotent and take blanks only.
StripsOnce ==
    /\ strip(strip(str)) = strip(str)
    /\ trim(strip(str)) = strip(str)
    /\ strip(trim(str)) = strip(str)
    /\ IsPrefix(trim(str), str)
    /\ Less(strip(str), Blanks) = Less(str, Blanks)

\* UnquoteMatches: unquote takes the marks off the texts that is_quoted
\* names and off no other, except a text in braces of fewer than four
\* characters, which it leaves as it is.
UnquoteMatches ==
    unquote(str) = IF is_quoted(str) /\ (str[1] = Brace => Len(str) >= 4)
                     THEN Sub(str, 2, Len(str) - 1) ELSE str

\* TokensWhole: the tokens of a text that does not start with a delimiter
\* hold its characters in order, each once; a delimiter in front of the
\* first token, unless that is quoted, makes the rest of the text one more
\* token, before the others.
TokensWhole ==
    LET start == Onward(str, find_first_not_of(str, {Space}, 1))
        tokens == tokenize(str, {Space})
    IN  /\ start = str => Less(FlattenSeq(tokens), {Space}) = Less(str, {Space})
        /\ (start \notin {str, <<>>} /\ QuoteEnds(start, 1) = 0) =>
             tokens = <<start>> \o tokenize(start, {Space})

StringsInv == SearchExact /\ SplitsBack /\ StripsOnce /\ UnquoteMatches
=============================================================================
