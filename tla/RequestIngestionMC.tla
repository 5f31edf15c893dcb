------------------------- MODULE RequestIngestionMC -------------------------
EXTENDS RequestIngestion, TLC

CONSTANTS a, k1, k2, plain, other, hook, again, ext

\* Call a delivers a webhook under a key of its own.  The others use one key, with
\* up to three bodies: two without an externalRequestId, and the webhook's.
MCSends ==
  [c \in Call |-> IF c = a THEN {<<k2, again>>} ELSE {k1} \X {plain, other, hook}]

MCExternal == [b \in Body |-> IF b \in {hook, again} THEN ext ELSE None]

MCSymmetry == Permutations(Call \ {a})
=============================================================================
