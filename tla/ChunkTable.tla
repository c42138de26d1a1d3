----------------------------- MODULE ChunkTable -----------------------------
(* The chunk table of a .crom, pkg/format/format.go: encodeTableColumns and
   decodeTableColumns, with the unsigned arithmetic of their differences, and
   SerializeChunkTable and ParseChunkTable of the older, fixed layout.

   An integer of 64 bits has Bits bits here, one of 32 bits SizeBits, and a byte
   of a varint carries DigitBits bits and a mark that more follow. *)
EXTENDS Integers, Sequences

CONSTANTS Bits, SizeBits, DigitBits

ASSUME WidthAssumption == Bits \in Nat \ {0} /\ SizeBits \in 1..Bits /\ DigitBits \in Nat \ {0}

Wrap(x) == x % 2^Bits
Signed(u) == IF u < 2^(Bits - 1) THEN u ELSE u - 2^Bits
Literal == 2^Bits - 1    \* LiteralCodebookID

\* v << 1, and all its bits turned when v is negative.
Zigzag(v) == IF v >= 0 THEN Wrap(2 * v) ELSE 2^Bits - 1 - Wrap(2 * v)
Unzigzag(u) == IF u % 2 = 0 THEN u \div 2 ELSE -(u \div 2) - 1

\* binary.AppendUvarint: low digits first, all but the last one marked.
More == 2^DigitBits
Uvarint(v) ==
    LET digits[x \in 0..(2^Bits - 1)] ==
            IF x < More THEN <<x>> ELSE <<More + (x % More)>> \o digits[x \div More]
    IN  digits[v]

\* binary.Uvarint: the value and the digits read, none when s ends first.
ReadUvarint(s) ==
    LET ends == {i \in DOMAIN s : s[i] < More}
        n == CHOOSE i \in ends : \A j \in ends : i <= j
        value[i \in 0..Len(s)] == IF i = 0 THEN 0 ELSE value[i - 1] + (s[i] % More) * More^(i - 1)
    IN  IF ends = {} THEN [n |-> 0, v |-> 0] ELSE [n |-> n, v |-> value[n]]

After(s, n) == SubSeq(s, n + 1, Len(s))
-----------------------------------------------------------------------------
\* The columns so far, and what the next entry is expected to have.
NoColumns == [cols |-> [i \in 1..4 |-> << >>], prev |-> 0, next |-> 0]

AddToColumns(k, e) ==
    LET id == IF e.id = Literal THEN <<0>>
              ELSE Uvarint(Wrap(Zigzag(Signed(Wrap(e.id - k.prev))) + 1))
        more == <<id, Uvarint(Zigzag(Signed(Wrap(e.offset - k.next)))), Uvarint(e.dsize),
                  Uvarint(e.size)>>
    IN  [cols |-> [i \in 1..4 |-> k.cols[i] \o more[i]],
         prev |-> IF e.id = Literal THEN k.prev ELSE Wrap(e.id + 1),
         next |-> Wrap(e.offset + e.dsize)]

EncodeTableColumns(entries) ==
    LET upto[n \in 0..Len(entries)] ==
            IF n = 0 THEN NoColumns ELSE AddToColumns(upto[n - 1], entries[n])
        cols == upto[Len(entries)].cols
        column(i) == Uvarint(Len(cols[i])) \o cols[i]
    IN  column(1) \o column(2) \o column(3) \o column(4)
            \o [i \in DOMAIN entries |-> entries[i].index]

Malformed == [ok |-> FALSE, entries |-> << >>]

\* The four columns, each behind its length, and what follows them.
Columns(data) ==
    LET cut[n \in 0..4] ==
            IF n = 0 THEN [ok |-> TRUE, cols |-> << >>, rest |-> data]
            ELSE LET k == cut[n - 1]
                     size == ReadUvarint(k.rest)
                 IN  IF ~k.ok \/ size.n = 0 \/ size.v > Len(k.rest) - size.n
                     THEN [k EXCEPT !.ok = FALSE]
                     ELSE [ok |-> TRUE,
                           cols |-> Append(k.cols, SubSeq(k.rest, size.n + 1, size.n + size.v)),
                           rest |-> After(k.rest, size.n + size.v)]
    IN  cut[4]

\* A mistake: the expected ID is the one before.
NextEntrySameId(k, index) ==
    LET read == [i \in 1..4 |-> ReadUvarint(k.cols[i])]
        id == IF read[1].v = 0 THEN Literal ELSE Wrap(k.prev + Unzigzag(read[1].v - 1))
        e == [id |-> id, offset |-> Wrap(k.next + Unzigzag(read[2].v)),
              dsize |-> read[3].v % 2^SizeBits, size |-> read[4].v % 2^SizeBits, index |-> index]
    IN  [ok |-> k.ok /\ \A i \in 1..4 : read[i].n > 0, entries |-> Append(k.entries, e),
         cols |-> [i \in 1..4 |-> After(k.cols[i], read[i].n)],
         prev |-> IF read[1].v = 0 THEN k.prev ELSE id, next |-> Wrap(e.offset + e.dsize)]

\* One entry: the next varint of every column.
NextEntry(k, index) ==
    LET read == [i \in 1..4 |-> ReadUvarint(k.cols[i])]
        id == IF read[1].v = 0 THEN Literal ELSE Wrap(k.prev + Unzigzag(read[1].v - 1))
        e == [id |-> id, offset |-> Wrap(k.next + Unzigzag(read[2].v)),
              dsize |-> read[3].v % 2^SizeBits, size |-> read[4].v % 2^SizeBits, index |-> index]
    IN  [ok |-> k.ok /\ \A i \in 1..4 : read[i].n > 0, entries |-> Append(k.entries, e),
         cols |-> [i \in 1..4 |-> After(k.cols[i], read[i].n)],
         prev |-> IF read[1].v = 0 THEN k.prev ELSE Wrap(id + 1),
         next |-> Wrap(e.offset + e.dsize)]

DecodeTableColumns(data, count) ==
    LET c == Columns(data)
        upto[n \in 0..count] ==
            IF n = 0 THEN [ok |-> TRUE, entries |-> << >>, cols |-> c.cols, prev |-> 0, next |-> 0]
            ELSE NextEntry(upto[n - 1], c.rest[n])
        r == upto[count]
    IN  IF ~c.ok \/ Len(c.rest) # count \/ ~r.ok THEN Malformed
        ELSE [ok |-> TRUE, entries |-> r.entries]
-----------------------------------------------------------------------------
(* The fixed layout: little-endian fields; the index only from version 7 on. *)

LittleEndian(v, bits) == [i \in 1..bits |-> (v \div 2^(i - 1)) % 2]
ReadLittleEndian(s) ==
    LET value[i \in 0..Len(s)] == IF i = 0 THEN 0 ELSE value[i - 1] + s[i] * 2^(i - 1)
    IN  value[Len(s)]

EntrySize(withIndex) == 2 * Bits + 2 * SizeBits + (IF withIndex THEN 1 ELSE 0)

SerializeChunkTable(entries, withIndex) ==
    LET field(e) == LittleEndian(e.id, Bits) \o LittleEndian(e.offset, Bits)
                    \o LittleEndian(e.dsize, SizeBits) \o LittleEndian(e.size, SizeBits)
                    \o (IF withIndex THEN <<e.index>> ELSE << >>)
        upto[n \in 0..Len(entries)] == IF n = 0 THEN << >> ELSE upto[n - 1] \o field(entries[n])
    IN  upto[Len(entries)]

ParseChunkTable(data, count, withIndex) ==
    LET entry(i) ==
            LET at(from, n) == SubSeq(data, i * EntrySize(withIndex) + from + 1,
                                      i * EntrySize(withIndex) + from + n)
            IN  [id |-> ReadLittleEndian(at(0, Bits)), offset |-> ReadLittleEndian(at(Bits, Bits)),
                 dsize |-> ReadLittleEndian(at(2 * Bits, SizeBits)),
                 size |-> ReadLittleEndian(at(2 * Bits + SizeBits, SizeBits)),
                 index |-> IF withIndex THEN at(2 * Bits + 2 * SizeBits, 1)[1] ELSE 0]
    IN  IF Len(data) < count * EntrySize(withIndex) THEN Malformed
        ELSE [ok |-> TRUE, entries |-> [i \in 1..count |-> entry(i - 1)]]
=============================================================================
