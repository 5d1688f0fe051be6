------------------------------ MODULE MCPairs ------------------------------
(* The mapping pairs that NTFS writes for a sequence of runs: every number  *)
(* in as few octets as keep its sign.                                       *)
LOCAL INSTANCE Integers
LOCAL INSTANCE Sequences

Fits(n, octets) == n >= -(2 ^ (8 * octets - 1)) /\ n < 2 ^ (8 * octets - 1)

Octets(n) ==
  LET least == CHOOSE k \in 1 .. 3 : Fits(n, k) /\ \A j \in 1 .. k - 1 : ~Fits(n, j)
  IN [i \in 1 .. least |-> ((n % 2 ^ (8 * least)) \div 2 ^ (8 * (i - 1))) % 256]

Pairs(runs) ==
  [r \in DOMAIN runs |->
     [length |-> Octets(runs[r].len),
      offset |-> Octets(runs[r].lcn - (IF r = 1 THEN 0 ELSE runs[r - 1].lcn))]]
=============================================================================
