----------------------------- MODULE MemoryBuf ------------------------------
(***************************************************************************)
(* util::memorybuf and the streams over it (src/buffer.hpp).  A pointer is *)
(* the number of characters between it and the start of the memory; the    *)
(* null pointer is NullPtr, so that a null pointer less the start of the   *)
(* memory is what the code computes with, in the width of a size_t.        *)
(***************************************************************************)
EXTENDS Integers, Sequences, FiniteSets, SequencesExt

CONSTANTS
    Characters, \* what is read and written; Zero is among them
    Zero,       \* the character 0
    Delimiters, \* what getview() is asked to look for
    Capacity,   \* S: the characters of a format_buffer
    NullPtr,    \* the null pointer, counted from the start of the memory
    MaxPastEnd  \* bound: writes that find no room

ASSUME MemoryBufAssumption ==
    /\ Zero \in Characters
    /\ Delimiters \subseteq Seq(Characters)
    /\ Capacity \in Nat
    /\ MaxPastEnd \in Nat
    /\ NullPtr \in Int
    /\ NullPtr < 0

VARIABLES
    memory,     \* the characters in memory
    size_,
    gptr,
    egptr,
    pptr,
    epptr,
    taken,      \* history: what the calls answered and skipped, in order
    viewed,     \* history: the views answered, each with its delimiter
    written,    \* history: what was accepted
    refused     \* history: writes that were not

bufferVars == <<memory, size_, gptr, egptr, pptr, epptr, taken, viewed, written, refused>>

input == pptr = NullPtr

\* input(): the memory is all there to be read.
BufferInput(n) ==
    /\ memory \in [1..n -> Characters]
    /\ size_ = n
    /\ gptr = 0 /\ egptr = n
    /\ pptr = NullPtr /\ epptr = NullPtr

\* output(): S characters to be written, and one for c_str().
BufferOutput ==
    /\ memory = [i \in 1..(Capacity + 1) |-> Zero]
    /\ size_ = 0
    /\ gptr = NullPtr /\ egptr = NullPtr
    /\ pptr = 0 /\ epptr = Capacity

BufferInit ==
    /\ BufferOutput \/ \E n \in 0..Capacity : BufferInput(n)
    /\ taken = <<>>
    /\ viewed = {}
    /\ written = <<>>
    /\ refused = 0

-----------------------------------------------------------------------------
(* BumpedShort takes no part in the specification: it is GetView with a    *)
(* slip that breaks a property.                                            *)

size == IF size_ # 0 THEN size_ ELSE pptr
used == IF size_ # 0 THEN gptr ELSE 0
readable == gptr < egptr
writable == pptr # epptr

Between(i, j) == SubSeq(memory, i + 1, j)

\* The call answers n characters and skips what follows them.
Bump(n, skipped) ==
    /\ gptr' = gptr + n + Len(skipped)
    /\ taken' = taken \o Between(gptr, gptr + n) \o skipped
    /\ UNCHANGED <<memory, size_, egptr, pptr, epptr, written, refused>>

\* get() of the stream: underflow() sees a character or the end.
GetChar == readable /\ Bump(1, <<>>) /\ UNCHANGED viewed

\* The body is the next n characters or nothing.
GetBody ==
    \E n \in 1..(Capacity + 1) : egptr - gptr >= n /\ Bump(n, <<>>) /\ UNCHANGED viewed

\* Where a delimiter stands in what is left.
Ends(delim) == {end \in gptr..(egptr - Len(delim)) : Between(end, end + Len(delim)) = delim}

View(delim) == [text |-> Between(gptr, Min(Ends(delim))), delim |-> delim]

BumpedShort(delim) ==
    /\ Ends(delim) # {}
    /\ gptr' = Min(Ends(delim))
    /\ taken' = taken \o View(delim).text \o delim
    /\ viewed' = viewed \cup {View(delim)}
    /\ UNCHANGED <<memory, size_, egptr, pptr, epptr, written, refused>>

\* The view reaches up to the first delimiter, which is skipped.
GetView(delim) ==
    /\ Ends(delim) # {}
    /\ Bump(Min(Ends(delim)) - gptr, delim)
    /\ viewed' = viewed \cup {View(delim)}

\* overflow(), the stream's own path to an empty output included
PutChar(c) ==
    IF writable
      THEN /\ memory' = [memory EXCEPT ![pptr + 1] = c]
           /\ pptr' = pptr + 1
           /\ written' = Append(written, c)
           /\ UNCHANGED <<size_, gptr, egptr, epptr, taken, viewed, refused>>
      ELSE /\ refused < MaxPastEnd
           /\ refused' = refused + 1
           /\ UNCHANGED <<memory, size_, gptr, egptr, pptr, epptr, taken, viewed, written>>

\* c_str() of a format_buffer ends the text where the output has come to.
Terminate ==
    /\ ~input
    /\ memory' = [memory EXCEPT ![size + 1] = Zero]
    /\ UNCHANGED <<size_, gptr, egptr, pptr, epptr, taken, viewed, written, refused>>

BufferNext ==
    \/ GetChar \/ GetBody \/ Terminate
    \/ \E delim \in Delimiters : GetView(delim)
    \/ \E c \in Characters : PutChar(c)

BufferSpec == BufferInit /\ [][BufferNext]_bufferVars

-----------------------------------------------------------------------------
\* The text that to_string() makes: up to the first zero.
Text ==
    LET zeros == {i \in DOMAIN memory : memory[i] = Zero}
    IN  SubSeq(memory, 1, Min(zeros) - 1)

UpToZero(s) == SubSeq(s, 1, Min({i \in DOMAIN s : s[i] = Zero} \cup {Len(s) + 1}) - 1)

Holds(s, d) == \E i \in 0..(Len(s) - Len(d)) : SubSeq(s, i + 1, i + Len(d)) = d

\* BufferInv: what the calls on an input have answered, with the delimiters
\* between, is the memory's own beginning, in order and without a gap,
\* however the calls are mixed, and used() says how much; no call takes past
\* the end, and no view holds its delimiter.  What an output has accepted is
\* the memory's beginning, the terminator is inside the array, and the text
\* it ends is what was written.  size() is right but for an input of no
\* characters.
BufferInv ==
    /\ input =>
         /\ taken = Between(0, gptr)
         /\ \A view \in viewed : view.delim # <<>> => ~Holds(view.text, view.delim)
         /\ gptr <= egptr
         /\ used = Len(taken)
         /\ size = IF memory = <<>> THEN NullPtr ELSE Len(memory)
    /\ ~input =>
         /\ written = Between(0, pptr)
         /\ size = Len(written)
         /\ size + 1 \in DOMAIN memory
         /\ memory[size + 1] = Zero
         /\ Text = UpToZero(written)
         /\ refused > 0 => Len(written) = Capacity
         /\ taken = <<>>
=============================================================================
