------------------------------ MODULE DataRuns ------------------------------
(***************************************************************************)
(* DataRunIterator (core/mftutil.h:62-126, core/mftutil.cpp:8-32): the     *)
(* runs that the mapping pairs of a chunk stand for. A pair has the octets *)
(* of a length and those of an offset, lowest first; the nibbles of its    *)
(* header byte are how many there are. An offset counts from the run       *)
(* before; a pair without one is a sparse run, which has no place and does *)
(* not move the next one.                                                  *)
(***************************************************************************)
EXTENDS Integers, Sequences

LOCAL SX == INSTANCE SequencesExt

Octet == 0 .. 255
LcnOctets == 3          \* bound: sizeof(LCN), which is 8
LcnValues == 256 ^ LcnOctets
SignBit == LcnValues \div 2   \* LCN_SIGN_BIT

Pair == [length : Seq(Octet), offset : Seq(Octet)]

ReadUnsignedValue(octets) ==
  SX!FoldRight(LAMBDA o, value : o + 256 * value, octets, 0)

\* Mutant: the sign is taken from the first octet.
ReadSignedValueOfFirst(octets) ==
  ReadUnsignedValue(octets)
    - (IF octets # <<>> /\ octets[1] >= 128 THEN 256 ^ Len(octets) ELSE 0)

\* The last octet has the sign.
ReadSignedValue(octets) ==
  ReadUnsignedValue(octets)
    - (IF octets # <<>> /\ octets[Len(octets)] >= 128 THEN 256 ^ Len(octets) ELSE 0)

\* An LCN is a signed integer of LcnOctets octets.
Wrapped(n) == ((n + SignBit) % LcnValues) - SignBit

\* offset |= LCN_SIGN_BIT and offset &= ~LCN_SIGN_BIT
WithSignBit(offset) == IF offset < 0 THEN offset ELSE offset - SignBit
WithoutSignBit(offset) == IF offset < 0 THEN offset + SignBit ELSE offset

OffsetAfter(offset, pair) ==
  IF pair.offset = <<>> THEN WithSignBit(offset)
  ELSE Wrapped(WithoutSignBit(offset) + ReadSignedValue(pair.offset))

\* readCurrent() until the end, with DRI_SKIP_SPARSE.
DataRunsOf(pairs) ==
  SX!FoldLeft(
    LAMBDA it, pair :
      LET offset == OffsetAfter(it.offset, pair)
          run == [lcn |-> offset, len |-> ReadUnsignedValue(pair.length)]
      IN [offset |-> offset,
          runs |-> IF offset < 0 THEN it.runs ELSE Append(it.runs, run)],
    [offset |-> 0, runs |-> <<>>], pairs).runs
=============================================================================
