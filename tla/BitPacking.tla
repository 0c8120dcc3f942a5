----------------------------- MODULE BitPacking -----------------------------
(***************************************************************************)
(* Some bits of every element of a vector, written one after the other     *)
(* into the words of a shorter one, and back.  Which bits, and in which    *)
(* order, is a layout: a sequence of bit numbers, the same for every       *)
(* element.                                                                *)
(***************************************************************************)
EXTENDS Integers, Sequences, FiniteSetsExt, Vectors

CONSTANT WORD_BITS      \* MAX_BITS_NUMBER

ASSUME WordBitsPositive == WORD_BITS \in Nat \ {0}

getBit(x, i) == (x \div 2 ^ i) % 2

\* Bits 0 .. WORD_BITS - 1 as a word.
Word(bits) == SumSet({bits[p] * 2 ^ p : p \in DOMAIN bits})

(***************************************************************************)
(* Layouts.                                                                *)
(***************************************************************************)
\* simple_bit_compress: every step-th bit, each so many times.
SimpleLayout(start, step, end, repetition) ==
    LET bits_per_element == ((end - start + 1) \div step) * repetition
    IN  [k \in 1 .. bits_per_element |-> start + ((k - 1) \div repetition) * step]

\* alternating_bit_compress: chunks of bits that are taken, with gaps between them.
AlternatingLayout(start, step, included, excluded, direction) ==
    LET chunk == included + excluded
        bits_per_chunk == included \div step
        full == ((WORD_BITS - start) \div chunk) * bits_per_chunk
        last == Least(included, (WORD_BITS - start) % chunk) \div step
        offset == IF direction = -1 THEN included - 1 ELSE 0
    IN  [k \in 1 .. full + last |->
            start + offset + ((k - 1) \div bits_per_chunk) * chunk
            + ((k - 1) % bits_per_chunk) * step * direction]

(***************************************************************************)
(* Packing.                                                                *)
(***************************************************************************)
compress(x, layout) ==
    LET per == Len(layout)
        total == per * Len(x)
        bitAt(k) == IF k < total THEN getBit(x[(k \div per) + 1], layout[(k % per) + 1]) ELSE 0
    IN  [w \in 1 .. div_ceil(total, WORD_BITS) |->
            Word([p \in 0 .. WORD_BITS - 1 |-> bitAt((w - 1) * WORD_BITS + p)])]

\* The bits go back to where they were; the other bits of y stay.
decompress(y, packed, layout) ==
    LET per == Len(layout)
        stored(k) == getBit(packed[(k \div WORD_BITS) + 1], k % WORD_BITS)
        bitOf(e, b) ==
            LET at == {k \in 1 .. per : layout[k] = b}
            IN  IF at = {} THEN getBit(y[e], b) ELSE stored((e - 1) * per + Max(at) - 1)
    IN  [e \in 1 .. Len(y) |-> Word([b \in 0 .. WORD_BITS - 1 |-> bitOf(e, b)])]

\* One bit of every element, as many as the words of the result hold.
pack_from(words, source, position) ==
    compress(slice(source, 0, Least(words * WORD_BITS, Len(source))), <<position>>)

unpack_from(y, source, position) == decompress(y, source, <<position>>)

\* A vector of words for every bit.
bit_decomposition(x) ==
    [b \in 1 .. WORD_BITS |-> pack_from(div_ceil(Len(x), WORD_BITS), x, b - 1)]
=============================================================================
