------------------------------ MODULE Bitfield ------------------------------
(***************************************************************************)
(* The Bitfield class: bits kept in bytes, most significant bit first, as  *)
(* BITFIELD messages, the pieces of a torrent and the blocks of a piece    *)
(* use it.                                                                 *)
(*                                                                         *)
(* A byte is the set of the offsets of its ones, 0 the most significant,   *)
(* so that &, |, ^ and ~ of bytes are operations on sets and a mask made   *)
(* by a shift is an interval.                                              *)
(***************************************************************************)
EXTENDS Sequences, FiniteSetsExt

CONSTANTS
  ByteBits,  \* bits per byte
  MaxBytes   \* bound: the length of a Bitfield

BitfieldAssumption == ByteBits \in Nat \ {0} /\ MaxBytes \in Nat \ {0}

Offsets == 0 .. ByteBits - 1
Bytes == SUBSET Offsets
MaxBits == ByteBits * MaxBytes

VARIABLE m_bytes

-----------------------------------------------------------------------------
(* Reading *)

size(b) == ByteBits * Len(b)

\* Where bit i is: its byte, and the offset there (bit_mask).
byte(i) == (i \div ByteBits) + 1
bit_mask(i) == i % ByteBits

\* Bit i, for i < size(b); any other i throws.
get(b, i) == bit_mask(i) \in b[byte(i)]

count(b) ==
  LET upto[k \in 0 .. Len(b)] == IF k = 0 THEN 0 ELSE upto[k - 1] + Cardinality(b[k])
  IN upto[Len(b)]

\* The first offset from `from' on of a byte whose bit is val, if there is one.
InByte(set, val, from) ==
  LET found == {o \in from .. ByteBits - 1 : (o \in set) = val}
  IN IF found = {} THEN {} ELSE {Min(found)}

\* The first position from `start' on with value val, in a set; {} for none.
\* The rest of the byte of `start' is looked at first, then whole bytes.
next(b, val, start) ==
  LET first == byte(start)
      partial == IF bit_mask(start) > 0 /\ first <= Len(b)
                 THEN InByte(b[first], val, bit_mask(start)) ELSE {}
      whole == IF bit_mask(start) > 0 THEN first + 1 ELSE first
      hits == {k \in whole .. Len(b) : InByte(b[k], val, 0) # {}}
      At(k, offsets) == {ByteBits * (k - 1) + o : o \in offsets}
  IN IF start > size(b) THEN {}
     ELSE IF partial # {} THEN At(first, partial)
     ELSE IF hits # {} THEN At(Min(hits), InByte(b[Min(hits)], val, 0))
     ELSE {}

-----------------------------------------------------------------------------
(* Writing *)

\* Bitfield(n)
zeros(n) == [k \in 1 .. (n \div ByteBits) + (IF n % ByteBits # 0 THEN 1 ELSE 0) |-> {}]

\* b with a mask put in or taken out of a byte.
masked(b, k, mask, val) ==
  [b EXCEPT ![k] = IF val THEN b[k] \cup mask ELSE b[k] \ mask]

\* Proxy::operator=, which grows the vector for a position beyond it.
assign(b, i, val) ==
  LET grown == [k \in 1 .. byte(i) |-> IF k <= Len(b) THEN b[k] ELSE {}]
  IN masked(IF Len(b) < byte(i) THEN grown ELSE b, byte(i), {bit_mask(i)}, val)

\* Mutant: the mask of the first byte leaves out the bit of `start'.
first_mask_short(start) == {o \in Offsets : o > bit_mask(start)}

\* 0xFF >> start % 8
first_mask(start) == {o \in Offsets : o >= bit_mask(start)}

\* 0xFF << (8 - bit_end % 8)
last_mask(bit_end) == {o \in Offsets : o < bit_mask(bit_end)}

\* Whether fill() throws.
fill_throws(b, n, start) == n > 0 /\ byte(start + n - 1) > Len(b)

fill(b, n, val, start) ==
  LET bit_end == start + n
      first == byte(start)
      last == byte(bit_end - 1)
      \* The bits of a single byte are assigned one by one.
      single == masked(b, first, {bit_mask(i) : i \in start .. bit_end - 1}, val)
      head == bit_mask(start) > 0
      tail == bit_mask(bit_end) > 0
      b1 == IF head THEN masked(b, first, first_mask(start), val) ELSE b
      b2 == IF tail THEN masked(b1, last, last_mask(bit_end), val) ELSE b1
      from == IF head THEN first + 1 ELSE first
      to == IF tail THEN last - 1 ELSE last
  IN IF n = 0 THEN b
     ELSE IF first = last THEN single
     ELSE [k \in 1 .. Len(b) |->
             IF from <= k /\ k <= to THEN (IF val THEN Offsets ELSE {}) ELSE b2[k]]

Smaller(m, n) == IF m < n THEN m ELSE n

\* operator- and operator+: as long as the shorter of the two.
minus(b, c) == [k \in 1 .. Smaller(Len(b), Len(c)) |-> b[k] \ (b[k] \cap c[k])]
plus(b, c) == [k \in 1 .. Smaller(Len(b), Len(c)) |-> b[k] \cup c[k]]

-----------------------------------------------------------------------------
(* How Piece uses it for its blocks *)

\* The first block of `blocks' whose bit is not set: whole bytes are stored,
\* so the position found may lie beyond the last block.
first_free(b, blocks) == {i \in next(b, FALSE, 0) : i <= blocks - 1}

-----------------------------------------------------------------------------
(* Any sequence of calls *)

Bitfields == UNION {[1 .. n -> Bytes] : n \in 0 .. MaxBytes}

BitfieldInit == m_bytes = <<>>

BitfieldNext ==
  \/ \E n \in 0 .. MaxBits : m_bytes' = zeros(n)
  \/ \E i \in 0 .. MaxBits - 1, val \in BOOLEAN : m_bytes' = assign(m_bytes, i, val)
  \/ \E n, start \in 0 .. MaxBits, val \in BOOLEAN :
       /\ ~fill_throws(m_bytes, n, start)
       /\ m_bytes' = fill(m_bytes, n, val, start)
  \/ \E other \in Bitfields :
       m_bytes' = minus(m_bytes, other) \/ m_bytes' = plus(m_bytes, other)

Calls == BitfieldInit /\ [][BitfieldNext]_m_bytes

-----------------------------------------------------------------------------
(* Properties *)

\* The positions of the ones: the set that the bytes stand for.
Ones(b) == {i \in 0 .. size(b) - 1 : get(b, i)}

\* Putting the positions `added' into a set, or taking them out.
Put(set, added, val) == IF val THEN set \cup added ELSE set \ added

\* Each call that writes does to the set just what it says and leaves every
\* other bit alone, within a byte, across bytes and where the length changes
\* (Proxy::operator=, fill, operator-, operator+).
WritesAgreeWithSets ==
  LET ones == Ones(m_bytes) IN
  /\ \A i \in 0 .. MaxBits - 1, val \in BOOLEAN :
       Ones(assign(m_bytes, i, val)) = Put(ones, {i}, val)
  /\ \A n, start \in 0 .. MaxBits, val \in BOOLEAN :
       IF n = 0 \/ start + n <= size(m_bytes)
       THEN /\ ~fill_throws(m_bytes, n, start)
            /\ Ones(fill(m_bytes, n, val, start)) = Put(ones, start .. start + n - 1, val)
            /\ size(fill(m_bytes, n, val, start)) = size(m_bytes)
       ELSE fill_throws(m_bytes, n, start)
  /\ \A other \in Bitfields :
       LET both == 0 .. Smaller(size(m_bytes), size(other)) - 1
       IN /\ Ones(minus(m_bytes, other)) = (ones \ Ones(other)) \cap both
          /\ Ones(plus(m_bytes, other)) = (ones \cup Ones(other)) \cap both

\* next() skips nothing and finds nothing that is not there, wherever in a
\* byte it starts; it accepts a start just behind the end.
NextIsFirst ==
  \A val \in BOOLEAN, start \in 0 .. size(m_bytes) + 1 :
    LET there == {i \in 0 .. size(m_bytes) - 1 : i >= start /\ get(m_bytes, i) = val}
    IN next(m_bytes, val, start) = IF there = {} THEN {} ELSE {Min(there)}

CountIsCardinality == count(m_bytes) = Cardinality(Ones(m_bytes))

\* For every number of blocks kept in these bytes, Piece finds a free block
\* exactly while there is one, in spite of the bits that pad the last byte
\* (Piece::next_offset, Piece::set_block).
FreeBlocksAreFound ==
  \A blocks \in 1 .. size(m_bytes) :
    Len(zeros(blocks)) = Len(m_bytes) =>
      LET free == 0 .. blocks - 1 \ Ones(m_bytes)
      IN first_free(m_bytes, blocks) = IF free = {} THEN {} ELSE {Min(free)}

\* All of this: each call, on the bytes that any other calls left.
BitfieldAgreesWithSets ==
  WritesAgreeWithSets /\ NextIsFirst /\ CountIsCardinality /\ FreeBlocksAreFound

\* Subtracting another bitfield takes its ones away and no others
\* (bitfield.hpp): not so when the other one is shorter.
MinusIsDifference ==
  \A other \in Bitfields : Ones(minus(m_bytes, other)) = Ones(m_bytes) \ Ones(other)

=============================================================================
