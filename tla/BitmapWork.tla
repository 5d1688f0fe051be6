----------------------------- MODULE BitmapWork -----------------------------
(***************************************************************************)
(* What the program does with its bitmaps: a map of clusters is filled run *)
(* by run, combined with another one, asked, and walked slice by slice     *)
(* (MftScan, main2, ClusterProcessor). Beside each bitmap stands the set   *)
(* of clusters it is meant to hold.                                        *)
(***************************************************************************)
EXTENDS BitmapOps

CONSTANTS Sizes,        \* how many bits the bitmaps may have
          MaxLen,       \* clusters of a slice
          Contents(_),  \* what bitmaps of a size may start with
          MaxOps        \* bound: changes before the walk

ASSUME WorkAssumption ==
  /\ Sizes \subseteq Nat \ {0} /\ MaxLen \in Nat \ {0} /\ MaxOps \in Nat
  /\ \A size \in Sizes : Contents(size) \subseteq [{"a", "b"} -> SUBSET (0 .. size - 1)]

VARIABLES bm,    \* the bitmaps
          bits,  \* history: what they are meant to hold
          ops,   \* changes so far
          it,    \* the slice iterator over bitmap a
          upTo,  \* history: the end of the slices before this one
          pc     \* "edit", "walk", "done"

vars == <<bm, bits, ops, it, upTo, pc>>

Names == {"a", "b"}
Size == bm["a"].size
Index == 0 .. Size - 1
Padding(size) == {i \in 0 .. BlockBits * Cardinality(Words(size)) - 1 : i >= size}
Slack(b) == BitsIn(b, {i \in Padding(b.size) : i < BufferEnd(b.size)})
Foreign(b) == BitsIn(b, {i \in Padding(b.size) : i >= BufferEnd(b.size)})

TypeOK ==
  /\ Size \in Sizes
  /\ bm \in [Names -> BitmapOf(Size)]
  /\ bits \in [Names -> SUBSET Index]
  /\ ops \in 0 .. MaxOps
  /\ upTo \in 0 .. Size
  /\ pc \in {"edit", "walk", "done"}

\* A bitmap read from $Bitmap has 1s after its last bit, a new one 0s; behind
\* the buffer is whatever the heap has there.
Init ==
  /\ \E size \in Sizes : \E padding \in [Names -> {{}, Padding(size)}] :
       /\ bits \in Contents(size)
       /\ bm = [n \in Names |-> FromBits(size, bits[n] \cup padding[n])]
  /\ ops = 0
  /\ it = NoSlice
  /\ upTo = 0
  /\ pc = "edit"

Edit(n, b, S) ==
  /\ pc = "edit" /\ ops < MaxOps
  /\ bm' = [bm EXCEPT ![n] = b]
  /\ bits' = [bits EXCEPT ![n] = S]
  /\ ops' = ops + 1
  /\ UNCHANGED <<it, upTo, pc>>

\* The empty run has hi = lo - 1.
SetRun(lo, hi) == Edit("a", Set(bm["a"], lo, hi), bits["a"] \cup lo .. hi)
ClearRun(lo, hi) == Edit("a", Clear(bm["a"], lo, hi), bits["a"] \ lo .. hi)

\* The result replaces one of the operands, as in main2 for antimft, or is new.
Combine(n) ==
  LET a == bm["a"]  b == bm["b"]  A == bits["a"]  B == bits["b"]
  IN \/ Edit(n, And(a, b, bm[n]), A \cap B)
     \/ Edit(n, Or(a, b, bm[n]), A \cup B)
     \/ Edit(n, Xor(a, b, bm[n]), (A \ B) \cup (B \ A))
     \/ Edit(n, AndNot(a, b, bm[n]), A \ B)
     \/ Edit(n, Complement(a, bm[n]), Index \ A)

Copy == Edit("b", CopyTo(bm["a"], bm["b"]), bits["a"])

Walk ==
  /\ pc = "edit"
  /\ it' = FirstSlice(bm["a"], MaxLen)
  /\ pc' = IF it'.active THEN "walk" ELSE "done"
  /\ UNCHANGED <<bm, bits, ops, upTo>>

Step ==
  /\ pc = "walk"
  /\ upTo' = it.chunk.offset + it.chunk.length
  /\ it' = NextSlice(bm["a"], it, MaxLen)
  /\ pc' = IF it'.active THEN "walk" ELSE "done"
  /\ UNCHANGED <<bm, bits, ops>>

Done == pc = "done" /\ UNCHANGED vars

Next ==
  \/ \E lo \in Index : \E hi \in lo - 1 .. Size - 1 : SetRun(lo, hi) \/ ClearRun(lo, hi)
  \/ \E n \in Names : Combine(n)
  \/ Copy
  \/ Walk
  \/ Step
  \/ Done

Spec == Init /\ [][Next]_vars

-----------------------------------------------------------------------------
\* Masks at both ends of a range, across words and in the partial last word hit
\* the bits that were meant and no others. (set, clear, apply_operation3)
BitsExact == \A n \in Names : AllBits(bm[n]) = bits[n]

\* Questions are answered for the bits of the map alone, whatever follows them
\* in the last word: the counts, of any range and of an empty one, and the
\* comparison that decides whether a session may go on. (bitCount, isZero)
AnswersExact ==
  /\ \A n \in Names :
       /\ IsZero(bm[n]) = (bits[n] = {})
       /\ BitCount(bm[n]) = Cardinality(bits[n])
       /\ \A lo \in Index : \A hi \in lo - 1 .. Size - 1 :
            BitCountBetween(bm[n], lo, hi) = Cardinality(bits[n] \cap lo .. hi)
  /\ SameBits(bm["a"], bm["b"], FromBits(Size, {})) = (bits["a"] = bits["b"])

BitmapInv == TypeOK /\ BitsExact /\ AnswersExact

\* The slices are the 1s, each once and in order: nothing between two of them,
\* none longer than MaxLen, none cut short inside a run, nothing left at the
\* end. (BitmapSpans::Iterator, SlicedRunIterator)
SlicesExact ==
  LET c == it.chunk
      end == c.offset + c.length
  IN /\ pc = "walk" =>
          /\ c.length \in 1 .. MaxLen
          /\ upTo .. end - 1 \cap bits["a"] = c.offset .. end - 1
          /\ c.length = MaxLen \/ end \notin bits["a"]
     /\ pc = "done" => bits["a"] \subseteq 0 .. upTo - 1

\* The words are read and written back past the last bit of the map, and past
\* the end of the buffer. The memory that lies there always keeps its value; the
\* unused bits of the last byte keep theirs, whatever the other operand has in
\* its own, but that copying brings those of the bitmap that is copied.
\* (apply_operation3, set, clear, operator=)
ForeignKept ==
  [][\A n \in Names :
       /\ Foreign(bm'[n]) = Foreign(bm[n])
       /\ \/ Slack(bm'[n]) = Slack(bm[n])
          \/ Copy /\ n = "b" /\ Slack(bm'["b"]) = Slack(bm["a"])]_vars
=============================================================================
