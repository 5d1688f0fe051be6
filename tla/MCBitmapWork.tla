---------------------------- MODULE MCBitmapWork ----------------------------
(* One, two and three bits of a second word, two whole words, and one bit of *)
(* a third: with unused bits in the last byte, behind it, in both, in        *)
(* neither. Bitmap a is anything; b is empty or a run across a border of     *)
(* words, or all but two.                                                    *)
EXTENDS BitmapWork

MCSizes == 5 .. 9
MCOperands(size) == {S \cap 0 .. size - 1 : S \in {{}, 3 .. 4, 2 .. 8}}
MCContents(size) == {[n \in {"a", "b"} |-> IF n = "a" THEN A ELSE B] :
                       A \in SUBSET (0 .. size - 1), B \in MCOperands(size)}
=============================================================================
