------------------------------- MODULE Binary -------------------------------
(***************************************************************************)
(* hitycho::byte_array and the codecs of util (src/binary.hpp).  A byte is *)
(* a number; a character of an encoded text is the place of the character  *)
(* in the alphabet of its codec, Pad for the equals sign, and Alien for    *)
(* every character that neither alphabet holds.                            *)
(***************************************************************************)
EXTENDS Integers, Sequences, FiniteSets, SequencesExt

CONSTANTS
    Bytes,      \* the bytes that are stored
    MaxBytes,   \* bound: bytes of an array
    SizeMax     \* the largest size_t

ASSUME BinaryAssumption ==
    /\ Bytes \subseteq 0..255
    /\ 0 \in Bytes
    /\ MaxBytes \in Nat
    /\ SizeMax \in Nat
    /\ SizeMax > MaxBytes

VARIABLE buffer_

Pad == 64
Alien == 65
Invalid == <<-1>>   \* what a call that throws answers

Blocks(n, size) == (n + size - 1) \div size

-----------------------------------------------------------------------------
(* The codecs.  decode_b64_ragged takes no part in the specification: it   *)
(* is decode_b64 with a slip that breaks a property.                       *)

\* The three bytes from i on as one number, zero where the data ends.
Triple(data, i) ==
    LET At(k) == IF k <= Len(data) THEN data[k] ELSE 0
    IN  (At(i) * 65536) + (At(i + 1) * 256) + At(i + 2)

Places == <<262144, 4096, 64, 1>>
Sextet(number, j) == (number \div Places[j + 1]) % 64

\* The last block may be short: one byte makes two characters, two make
\* three, and the block is padded to four.
encode_b64(data) ==
    [k \in 1..(4 * Blocks(Len(data), 3)) |->
        LET i == (3 * ((k - 1) \div 4)) + 1
            j == (k - 1) % 4
        IN  IF j > 1 /\ i + j - 1 > Len(data) THEN Pad ELSE Sextet(Triple(data, i), j)]

encode_hex(data) ==
    [k \in 1..(2 * Len(data)) |->
        IF k % 2 = 1 THEN data[(k + 1) \div 2] \div 16 ELSE data[k \div 2] % 16]

\* A pad counts as six zero bits wherever it stands, and takes the last of
\* the block's bytes away.
BlockNumber(block) ==
    LET At(j) == Places[j] * (block[j] % Pad)
    IN  At(1) + At(2) + At(3) + At(4)

PadsOf(block) == Cardinality({j \in 1..4 : block[j] = Pad})

Decoded(block) ==
    LET number == BlockNumber(block)
    IN  SubSeq(<<number \div 65536, (number \div 256) % 256, number % 256>>, 1, 3 - PadsOf(block))

decode_b64_ragged(in) ==
    IF Alien \in ToSet(in) THEN Invalid
    ELSE FlattenSeq([k \in 1..(Len(in) \div 4) |-> Decoded(SubSeq(in, (4 * k) - 3, 4 * k))])

decode_b64(in) ==
    IF Len(in) % 4 # 0 \/ Alien \in ToSet(in) THEN Invalid
    ELSE FlattenSeq([k \in 1..(Len(in) \div 4) |-> Decoded(SubSeq(in, (4 * k) - 3, 4 * k))])

decode_hex_text(in) ==
    IF Len(in) % 2 # 0 \/ ~(ToSet(in) \subseteq 0..15) THEN Invalid
    ELSE [k \in 1..(Len(in) \div 2) |-> (16 * in[(2 * k) - 1]) + in[2 * k]]

-----------------------------------------------------------------------------
(* byte_array                                                              *)

BinaryInit == buffer_ = <<>>

Room(n) == n <= MaxBytes

\* append() of another array, of raw memory, and operator+=
ByteAppend ==
    \E other \in {<<b>> : b \in Bytes} \cup {<<>>, buffer_} :
        /\ Room(Len(buffer_) + Len(other))
        /\ buffer_' = buffer_ \o other

remove_prefix(data, n) == IF n >= Len(data) THEN <<>> ELSE SubSeq(data, n + 1, Len(data))
remove_suffix(data, n) == IF n >= Len(data) THEN <<>> ELSE SubSeq(data, 1, Len(data) - n)

BytePrefix == \E n \in 1..(MaxBytes + 1) : buffer_' = remove_prefix(buffer_, n)
ByteSuffix == \E n \in 1..(MaxBytes + 1) : buffer_' = remove_suffix(buffer_, n)

\* pop_back() of an empty vector is not a call that a caller may make.
ByteBack ==
    \/ \E b \in Bytes : Room(Len(buffer_) + 1) /\ buffer_' = Append(buffer_, b)
    \/ buffer_ # <<>> /\ buffer_' = SubSeq(buffer_, 1, Len(buffer_) - 1)

ByteResize ==
    \E n \in 0..MaxBytes :
        buffer_' = [i \in 1..n |-> IF i <= Len(buffer_) THEN buffer_[i] ELSE 0]

ByteFill ==
    \/ buffer_' = <<>>
    \/ \E b \in Bytes : buffer_' = [i \in DOMAIN buffer_ |-> b]
    \/ \E b, c \in Bytes :
           buffer_' = [i \in DOMAIN buffer_ |-> IF buffer_[i] = b THEN c ELSE buffer_[i]]

slice(data, start, end) ==
    LET actual_end == Min({end, Len(data)})
    IN  IF start > actual_end THEN Invalid ELSE SubSeq(data, start + 1, actual_end)

\* The end of a view is offset + count in a size_t.
subview(data, offset, count) ==
    LET actual_end == Min({(offset + count) % (SizeMax + 1), Len(data)})
    IN  IF offset > actual_end THEN Invalid ELSE SubSeq(data, offset + 1, actual_end)

\* An array is made from a slice of another, or from an encoded text.
ByteMade ==
    \/ \E start, end \in 0..MaxBytes :
           /\ slice(buffer_, start, end) # Invalid
           /\ buffer_' = slice(buffer_, start, end)
    \/ buffer_' = decode_b64(encode_b64(buffer_))
    \/ buffer_' = decode_hex_text(encode_hex(buffer_))

BinaryNext ==
    ByteAppend \/ BytePrefix \/ ByteSuffix \/ ByteBack \/ ByteResize \/ ByteFill \/ ByteMade

BinarySpec == BinaryInit /\ [][BinaryNext]_buffer_

-----------------------------------------------------------------------------
\* EncodedBack: an encoded array decodes to itself; a text that is cut inside
\* a block of characters is refused whole, and one that is cut between blocks
\* decodes to the bytes of the blocks that are left; a character of neither
\* alphabet has a text refused whole, and a pad never does.
EncodedBack ==
    LET b64 == encode_b64(buffer_)
        hex == encode_hex(buffer_)
    IN  /\ decode_b64(b64) = buffer_
        /\ decode_hex_text(hex) = buffer_
        /\ Len(b64) = 4 * Blocks(Len(buffer_), 3)
        /\ \A i \in DOMAIN b64 :
             /\ decode_b64(SubSeq(b64, 1, i - 1)) =
                  IF (i - 1) % 4 # 0 THEN Invalid ELSE SubSeq(buffer_, 1, 3 * ((i - 1) \div 4))
             /\ decode_b64([b64 EXCEPT ![i] = Alien]) = Invalid
             /\ decode_b64([b64 EXCEPT ![i] = Pad]) # Invalid
        /\ \A i \in DOMAIN hex :
             /\ decode_hex_text(SubSeq(hex, 1, i - 1)) =
                  IF (i - 1) % 2 # 0 THEN Invalid ELSE SubSeq(buffer_, 1, (i - 1) \div 2)
             /\ decode_hex_text([hex EXCEPT ![i] = Alien]) = Invalid

\* PadsLose: a pad put over any character of a text takes one byte away from
\* the text's bytes, wherever in its block it stands.
PadsLose ==
    LET b64 == encode_b64(buffer_)
    IN  \A i \in {k \in DOMAIN b64 : b64[k] # Pad} :
          Len(decode_b64([b64 EXCEPT ![i] = Pad])) = Len(buffer_) - 1

\* ViewsAgree: a slice is the bytes between its ends and a view those its
\* offset and count name; what a view answers is what remove_prefix and
\* remove_suffix would leave; and a view whose end wraps is refused, the
\* default count at any offset but 0 among them.
ViewsAgree ==
    /\ \A start \in 0..(MaxBytes + 1), end \in (0..(MaxBytes + 1)) \cup {SizeMax} :
         slice(buffer_, start, end) =
           IF start > Len(buffer_) \/ start > end THEN Invalid
           ELSE remove_prefix(remove_suffix(buffer_, Len(buffer_) - Min({end, Len(buffer_)})), start)
    /\ \A offset, count \in 0..SizeMax :
         subview(buffer_, offset, count) =
           IF offset + count > SizeMax THEN Invalid ELSE slice(buffer_, offset, offset + count)

\* BinaryInv: texts come back, a pad costs its byte, and views are what their
\* bounds name, whatever calls have made the array.
BinaryInv == EncodedBack /\ PadsLose /\ ViewsAgree
=============================================================================
