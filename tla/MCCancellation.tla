--------------------------- MODULE MCCancellation ---------------------------
(* Three sessions competing for two keys issued by two upstreams.           *)
EXTENDS Cancellation, TLC

CONSTANTS s1, s2, s3, r1, r2, t1, t2, k1, k2

Interchangeable ==
  Permutations({s1, s2, s3}) \cup Permutations({r1, r2})
    \cup Permutations({t1, t2}) \cup Permutations({k1, k2})
=============================================================================
