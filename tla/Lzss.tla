-------------------------------- MODULE Lzss --------------------------------
(***************************************************************************)
(* The compressions of mqb-lzss.  The Storer-Szymanski encoder and decoder *)
(* keep a circular window and a circular lookahead; here the window is the *)
(* tail of what went before and the lookahead the head of what is left.    *)
(* The stream is a sequence of bytes: a flag byte, first item in its high  *)
(* bit, then eight items, a literal or a two-byte reference.               *)
(***************************************************************************)
EXTENDS Bytes, FiniteSets, FiniteSetsExt, SequencesExt

CONSTANTS WINDOW_SIZE, MAX_CODED

\* 1023 and 64 in the source; a reference has 10 bits of distance and 6 of
\* length, so a match of MAX_CODED bytes is cut by one.
ASSUME SizesAssumption == WINDOW_SIZE \in 1..1023 /\ MAX_CODED \in 4..64

MAX_UNCODED == 2

\* What the encoder's window holds before the first byte.
EncoderFill == 17

Fill(byte) == [i \in 1..WINDOW_SIZE |-> byte]

Window(history) == SubSeq(history, Len(history) - WINDOW_SIZE + 1, Len(history))

\* How many bytes of the lookahead the window repeats from offset i on; a
\* match never runs into the lookahead itself.
MatchLength(window, i, ahead) ==
    Max({k \in 0..LeastOf(Len(ahead), WINDOW_SIZE - i) :
            \A j \in 1..k : window[i + j] = ahead[j]})

\* The longest match, the latest of equally long ones.
find_match(window, ahead) ==
    LET matches == {<<MatchLength(window, i, ahead), i>> : i \in 0..WINDOW_SIZE - 1}
        longest == Max({m[1] : m \in matches})
    IN  [length |-> longest, offset |-> Max({m[2] : m \in {x \in matches : x[1] = longest}})]

\* The items of input, each with the number of bytes it stands for: one pass of
\* the encoder's loop after the other.
Items(input) ==
    LET history(pos) == Fill(EncoderFill) \o SubSeq(input, 1, pos)
        ahead(pos) == SubSeq(input, pos + 1, LeastOf(pos + MAX_CODED, Len(input)))
        reference(dist, length) ==
            [ref |-> TRUE, size |-> length,
             bytes |-> <<(dist \div 256) + length * 4, dist % 256>>]
        item(byte, m) ==
            IF m.length <= MAX_UNCODED
            THEN [ref |-> FALSE, size |-> 1, bytes |-> <<byte>>]
            ELSE reference(WINDOW_SIZE - m.offset, LeastOf(m.length, MAX_CODED - 1))
        next(pos) == item(input[pos + 1], find_match(Window(history(pos)), ahead(pos)))
        pushed(s, i) == [pos |-> s.pos + i.size, items |-> Append(s.items, i)]
        pass(s) == IF s.pos < Len(input) THEN pushed(s, next(s.pos)) ELSE s
        loop[k \in 0..Len(input)] ==
            IF k = 0 THEN [pos |-> 0, items |-> <<>>] ELSE pass(loop[k - 1])
    IN  loop[Len(input)].items

NoOp == [ref |-> TRUE, size |-> 0, bytes |-> <<0, 0>>]

\* The flag byte before the k-th item; an item that is not there counts as a
\* literal.
Flags(items, k) ==
    SumOf([j \in 1..8 |->
              IF k + j - 1 <= Len(items) /\ items[k + j - 1].ref THEN PlaceValue[9 - j] ELSE 0])

\* The bytes of the items, each eight of them behind their flags.
Stream(items) ==
    LET flags(k) == IF k % 8 = 1 THEN <<Flags(items, k)>> ELSE <<>>
        stream[k \in 0..Len(items)] ==
            IF k = 0 THEN <<>> ELSE stream[k - 1] \o flags(k) \o items[k].bytes
    IN  stream[Len(items)]

\* How many no-op references go into the last, unfilled group of an exactly
\* padded stream: until it is aligned or the group is full.
NoOps(items) ==
    LET free == (8 - (Len(items) % 8)) % 8
    IN  Min({free} \union {j \in 0..free : (Len(Stream(items)) + 2 * j) % 16 = 0})

\* What still misses to 16 is written as flag bytes of no-op references: an
\* even remainder takes one group more, so that the last flag has no items.
ExactTail(size) ==
    LET remainder == 16 - (size % 16)
        r == IF remainder = 16 THEN 0
             ELSE IF remainder % 2 = 1 THEN remainder ELSE remainder + 16
    IN  [i \in 1..r |-> IF (i - 1) % 17 = 0 THEN 255 ELSE 0]

encode(input, padding) ==
    LET exact(items) == items \o [i \in 1..NoOps(items) |-> NoOp]
        padded(stream) ==
            CASE padding = "None"     -> stream
              [] padding = "AesBlock" -> stream \o Zeros((16 - (Len(stream) % 16)) % 16)
              [] padding = "Exact"    -> stream \o ExactTail(Len(stream))
    IN  padded(Stream(IF padding = "Exact" THEN exact(Items(input)) ELSE Items(input)))

\* The bytes a reference repeats, the ones it has itself just written included.
Copied(history, dist, length) ==
    LET copy[k \in 0..length] ==
            IF k = 0 THEN history
            ELSE LET h == copy[k - 1] IN Append(h, h[Len(h) + 1 - dist])
    IN  copy[length]

\* One flag bit read and its item unpacked; s.pos bytes are consumed, and the
\* stream ends where an item is cut off.  A distance of 0 stands for `zero`.
Unpack(input, s, k, zero) ==
    LET reload == (k - 1) % 8 = 0
        pos == IF reload THEN s.pos + 1 ELSE s.pos
        flags == IF reload /\ pos <= Len(input) THEN input[pos] ELSE s.flags
        ref == (flags \div PlaceValue[8 - ((k - 1) % 8)]) % 2 = 1
        need == IF ref THEN 2 ELSE 1
    IN  IF s.done \/ pos + need > Len(input) THEN [s EXCEPT !.done = TRUE]
        ELSE [done |-> FALSE, pos |-> pos + need, flags |-> flags,
              out |-> IF ref
                      THEN LET dist == (input[pos + 1] % 4) * 256 + input[pos + 2]
                           IN  Copied(s.out, IF dist = 0 THEN zero ELSE dist,
                                      input[pos + 1] \div 4)
                      ELSE Append(s.out, input[pos + 1])]

Unpacked(input, start, zero) ==
    LET after[k \in 0..Len(input)] ==
            IF k = 0
            THEN [done |-> FALSE, pos |-> 0, flags |-> 0, out |-> start]
            ELSE Unpack(input, after[k - 1], k, zero)
    IN  after[Len(input)].out

\* The decoder, from a window full of one byte (the repository's own starts
\* from 0x20).
decode_from(fill, input) ==
    LET out == Unpacked(input, Fill(fill), WINDOW_SIZE)
    IN  SubSeq(out, WINDOW_SIZE + 1, Len(out))

\* The decompressor of vendor files has no window to start from and stops at
\* the size the file states.
decompress_lzss10(input, size) ==
    LET out == Unpacked(input, <<>>, 0)
    IN  SubSeq(out, 1, LeastOf(size, Len(out)))

\* The decompressor of Simos8: an eleven-byte header (signifier, bits of the
\* offset, bits of the length, size), then literals, or after the signifier a
\* reference and the literal that follows it.  Unwritten bytes stay zero.
decompress_legacy(input) ==
    LET size == input[7]
        pair(pos) == input[pos] * 256 + input[pos + 1]
        copy(out, w) ==
            LET length == LeastOf(w % (2 ^ input[3]), size - Len(out))
            IN  Copied(out, w \div (2 ^ (16 - input[2])), length)
        literal(s) == IF s.pos < Len(input) /\ Len(s.out) < size
                      THEN [pos |-> s.pos + 1, out |-> Append(s.out, input[s.pos + 1])]
                      ELSE s
        step(s) == IF s.pos < Len(input) /\ input[s.pos + 1] = input[1] /\ Len(s.out) < size
                   THEN IF s.pos + 2 >= Len(input) THEN [s EXCEPT !.pos = Len(input)]
                        ELSE literal([pos |-> s.pos + 3, out |-> copy(s.out, pair(s.pos + 2))])
                   ELSE literal(s)
        after[k \in 0..Len(input)] ==
            IF k = 0 THEN [pos |-> 11, out |-> <<>>] ELSE step(after[k - 1])
        out == after[Len(input)].out
    IN  out \o [i \in 1..(size - Len(out)) |-> 0]
=============================================================================
