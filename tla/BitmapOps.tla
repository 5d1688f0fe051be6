----------------------------- MODULE BitmapOps -----------------------------
(***************************************************************************)
(* Bitmap, BitmapBuf and BitmapSpans (core/bitmap.h, core/bitmap.cpp) and  *)
(* SlicedRunIterator (core/util.h): one bit per cluster, kept in words of  *)
(* BlockBits bits, changed and read through masks.                         *)
(*                                                                         *)
(* A word is the set of its bits that are 1, so & is \cap, | is \cup and a *)
(* mask is a set of bits. A bitmap's buffer is a whole number of bytes,    *)
(* but the code reads and writes it in words: the last word may reach past *)
(* the buffer, into memory that belongs to something else.                 *)
(***************************************************************************)
EXTENDS Integers, FiniteSets, FiniteSetsExt

CONSTANTS BlockBits,  \* bits of a word
          ByteBits    \* bits of a byte

ASSUME BlockAssumption ==
  /\ BlockBits \in Nat \ {0} /\ ByteBits \in Nat \ {0}
  /\ BlockBits % ByteBits = 0

Bit == 0 .. BlockBits - 1
Words(size) == 0 .. (size + BlockBits - 1) \div BlockBits - 1
BufferEnd(size) == ByteBits * ((size + ByteBits - 1) \div ByteBits)

BitmapOf(size) == [size : {size}, data : [Words(size) -> SUBSET Bit]]

IsSet(b, i) == i % BlockBits \in b.data[i \div BlockBits]
BitsIn(b, S) == {i \in S : IsSet(b, i)}
Memory(b) == 0 .. BlockBits * Cardinality(Words(b.size)) - 1
AllBits(b) == BitsIn(b, 0 .. b.size - 1)

\* The bits of memory, from 0 up to the end of the last word, as a bitmap.
FromBits(size, S) ==
  [size |-> size,
   data |-> [w \in Words(size) |-> {k \in Bit : w * BlockBits + k \in S}]]

-----------------------------------------------------------------------------
(* Masks, "inclusive of both sides".                                       *)

BitsUntil(last) == 0 .. last
BitsAfter(first) == first .. BlockBits - 1
BitsBetween(first, last) == BitsAfter(first) \cap BitsUntil(last)

\* What set() and clear() touch of word w.
RangeMask(w, lo, hi) ==
  LET start == lo \div BlockBits
      end == hi \div BlockBits
  IN IF w = start /\ w = end THEN BitsBetween(lo % BlockBits, hi % BlockBits)
     ELSE IF w = start THEN BitsAfter(lo % BlockBits)
     ELSE IF w = end THEN BitsUntil(hi % BlockBits)
     ELSE IF start < w /\ w < end THEN Bit
     ELSE {}

\* set and clear; lo > hi is the empty run. They assert hi < size.
Set(b, lo, hi) ==
  IF lo > hi THEN b
  ELSE [b EXCEPT !.data = [w \in DOMAIN @ |-> @[w] \cup RangeMask(w, lo, hi)]]
Clear(b, lo, hi) ==
  IF lo > hi THEN b
  ELSE [b EXCEPT !.data = [w \in DOMAIN @ |-> @[w] \ RangeMask(w, lo, hi)]]

-----------------------------------------------------------------------------
(* Operations word by word. The last word may be partial.                  *)

FullWords(b) == 0 .. b.size \div BlockBits - 1
Partial(b) == b.size % BlockBits

\* Mutant: the last word is masked up to the end of its byte.
LastMaskBytes(b) == BitsUntil(ByteBits * ((Partial(b) + ByteBits - 1) \div ByteBits) - 1)

LastMask(b) == BitsUntil(Partial(b) - 1)

\* The word that an operation, the pairs of bits that give a one, has for two.
WordOf(op, x, y) == {i \in Bit : <<i \in x, i \in y>> \in op}

\* apply_operation3; dest may be a or b.
Operation3(op, a, b, dest) ==
  [dest EXCEPT !.data = [w \in DOMAIN @ |->
     IF w \in FullWords(a) THEN WordOf(op, a.data[w], b.data[w])
     ELSE (@[w] \ LastMask(a)) \cup
          (WordOf(op, a.data[w], b.data[w]) \cap LastMask(a))]]

Complement(a, dest)  == Operation3({<<FALSE, FALSE>>}, a, a, dest)
And(a, b, dest)      == Operation3({<<TRUE, TRUE>>}, a, b, dest)
Or(a, b, dest)       == Operation3((BOOLEAN \X BOOLEAN) \ {<<FALSE, FALSE>>}, a, b, dest)
Xor(a, b, dest)      == Operation3({<<TRUE, FALSE>>, <<FALSE, TRUE>>}, a, b, dest)
AndNot(a, b, dest)   == Operation3({<<TRUE, FALSE>>}, a, b, dest)

\* operator= and clone copy bytes, which are fewer than the words have.
CopyTo(a, dest) ==
  FromBits(dest.size, BitsIn(a, 0 .. BufferEnd(a.size) - 1)
                      \cup BitsIn(dest, {i \in Memory(dest) : i >= BufferEnd(a.size)}))

\* Counting by apply_operation1: rem bits from word w on.
CountFrom(b, w, rem) ==
  LET end == w + rem \div BlockBits
  IN MapThenSumSet(LAMBDA v : Cardinality(b.data[v]), w .. end - 1)
     + IF rem % BlockBits = 0 THEN 0
       ELSE Cardinality(b.data[end] \cap BitsUntil((rem % BlockBits) - 1))

BitCount(b) == CountFrom(b, 0, b.size)

\* Mutant: a range that starts inside a word ends one bit early.
BitCountBetweenShort(b, first, last) ==
  LET w == first \div BlockBits
      f == first - w * BlockBits
      l == last - w * BlockBits
  IN IF f = 0 THEN CountFrom(b, w, l + 1)
     ELSE IF l < BlockBits THEN Cardinality(b.data[w] \cap BitsBetween(f, l))
     ELSE Cardinality(b.data[w] \cap BitsAfter(f)) + CountFrom(b, w + 1, l - BlockBits)

\* bitCount(first, last): a partial word at the start, then as above.
BitCountBetween(b, first, last) ==
  LET w == first \div BlockBits
      f == first - w * BlockBits
      l == last - w * BlockBits
  IN IF f = 0 THEN CountFrom(b, w, l + 1)
     ELSE IF l < BlockBits THEN Cardinality(b.data[w] \cap BitsBetween(f, l))
     ELSE Cardinality(b.data[w] \cap BitsAfter(f)) + CountFrom(b, w + 1, l + 1 - BlockBits)

\* isZero leaves the loop at the first word that is not 0. Then the last step
\* runs with more than a word left and shifts by a negative count, but whatever
\* mask comes of it, all it can store is FALSE once more.
IsZero(b) ==
  /\ \A w \in FullWords(b) : b.data[w] = {}
  /\ Partial(b) > 0 => b.data[b.size \div BlockBits] \cap LastMask(b) = {}

\* compareBitmaps, into a new buffer r.
SameBits(a, b, r) == IsZero(Xor(a, b, r))

-----------------------------------------------------------------------------
(* BitmapSpans::Iterator: ptr is the word, offset and length the run of 1s.*)

EndPtr == -1
EndSpan == [ptr |-> EndPtr, offset |-> 0, length |-> 0]

\* Whole words equal to W, from ptr on, that end before the limit.
WholeWords(b, ptr, pos, limit, W) ==
  Min({k \in 0 .. Cardinality(Words(b.size)) :
         ~(pos + k * BlockBits + BlockBits < limit /\ b.data[ptr + k] = W)})

\* "On entrance, must point to 0." The rest of the open word, whole words of
\* 0s, then the word that has a 1.
Skip0s(b, s) ==
  LET at   == s.offset + s.length
      bit  == at % BlockBits
      open == Min({BlockBits - 1 - bit, b.size - 1 - at})
      ones == {k \in 1 .. open : bit + k \in b.data[s.ptr]}
      from == at + open + 1
      whole == WholeWords(b, s.ptr + 1, from, b.size, {})
      to   == from + whole * BlockBits
      ptr  == s.ptr + 1 + whole
      next == {k \in 0 .. b.size - to - 1 : k \in b.data[ptr]}
  IN IF at >= b.size THEN EndSpan
     ELSE IF ones # {} THEN [ptr |-> s.ptr, offset |-> at + Min(ones), length |-> 0]
     ELSE IF to >= b.size \/ next = {} THEN EndSpan
     ELSE [ptr |-> ptr, offset |-> to + Min(next), length |-> 0]

\* Mutant: the open word is followed to its end, past the last bit.
Eat1sOver(b, s) ==
  LET rest == b.size - s.offset
      bit  == s.offset % BlockBits
      open == BlockBits - 1 - bit
      zeros == {k \in 1 .. open : bit + k \notin b.data[s.ptr]}
      from == open + 1
      whole == WholeWords(b, s.ptr + 1, from, rest, Bit)
      to   == from + whole * BlockBits
      ptr  == s.ptr + 1 + whole
      more == Min({k \in 0 .. rest - to : k = rest - to \/ k \notin b.data[ptr]})
  IN IF zeros # {} THEN [s EXCEPT !.length = Min(zeros)]
     ELSE IF to >= rest THEN [s EXCEPT !.length = to, !.ptr = ptr]
     ELSE [s EXCEPT !.length = to + more, !.ptr = ptr]

\* "On entrance, must point to 1." The same for 1s, up to the last bit.
Eat1s(b, s) ==
  LET rest == b.size - s.offset
      bit  == s.offset % BlockBits
      open == Min({BlockBits - 1 - bit, rest - 1})
      zeros == {k \in 1 .. open : bit + k \notin b.data[s.ptr]}
      from == open + 1
      whole == WholeWords(b, s.ptr + 1, from, rest, Bit)
      to   == from + whole * BlockBits
      ptr  == s.ptr + 1 + whole
      more == Min({k \in 0 .. rest - to : k = rest - to \/ k \notin b.data[ptr]})
  IN IF zeros # {} THEN [s EXCEPT !.length = Min(zeros)]
     ELSE IF to >= rest THEN [s EXCEPT !.length = to, !.ptr = ptr]
     ELSE [s EXCEPT !.length = to + more, !.ptr = ptr]

Eaten(b, s) == IF s.ptr = EndPtr THEN s ELSE Eat1s(b, s)
FirstSpan(b) ==
  LET start == [ptr |-> 0, offset |-> 0, length |-> 0]
  IN Eaten(b, IF IsSet(b, 0) THEN start ELSE Skip0s(b, start))
NextSpan(b, s) == Eaten(b, Skip0s(b, s))

-----------------------------------------------------------------------------
(* SlicedRunIterator over the spans: span is the base iterator, run what   *)
(* is left of its run, chunk the piece of at most max clusters.            *)

Run(offset, length) == [offset |-> offset, length |-> length]

ConsumeChunk(span, run, max) ==
  LET length == Min({max, run.length})
  IN [span |-> span, active |-> TRUE, chunk |-> Run(run.offset, length),
      run |-> Run(run.offset + length, run.length - length)]

OnSpan(span, it, max) ==
  IF span.ptr = EndPtr THEN [it EXCEPT !.span = span, !.active = FALSE]
  ELSE ConsumeChunk(span, Run(span.offset, span.length), max)

NoSlice == [span |-> EndSpan, active |-> FALSE, chunk |-> Run(0, 0), run |-> Run(0, 0)]
FirstSlice(b, max) == OnSpan(FirstSpan(b), NoSlice, max)
NextSlice(b, it, max) ==
  IF it.run.length > 0 THEN ConsumeChunk(it.span, it.run, max)
  ELSE OnSpan(NextSpan(b, it.span), it, max)
=============================================================================
