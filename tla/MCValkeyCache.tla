--------------------------- MODULE MCValkeyCache ----------------------------
(***************************************************************************)
(* Instances of ValkeyCache for TLC.                                       *)
(***************************************************************************)
EXTENDS ValkeyCache

O(ms, pct, off) == [CacheTTL |-> ms, jitterPct |-> pct, disableCSC |-> off]

\* No expiry; a band of several seconds, with and without client-side caching;
\* a band whose rounded ends lie outside it; bands without a whole second,
\* above one second and below.
MCOptions == {O(0, 0, FALSE), O(2000, 50, FALSE), O(2000, 50, TRUE),
              O(3700, 10, FALSE), O(1500, 15, FALSE), O(400, 50, FALSE)}

=============================================================================
