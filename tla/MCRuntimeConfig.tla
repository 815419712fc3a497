--------------------------- MODULE MCRuntimeConfig ---------------------------
EXTENDS RuntimeConfig

CONSTANTS First, Second, Size, Limit

MCDataIds == <<First, Second>>

\* Both documents define Size, the first alone Limit.
MCInitially == <<[k \in Keys |-> 10], [k \in Keys |-> IF k = Size THEN 20 ELSE 0]>>

MCEdits == {<<2, Size>>}

=============================================================================
