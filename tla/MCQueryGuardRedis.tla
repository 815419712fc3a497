------------------------- MODULE MCQueryGuardRedis -------------------------
(***************************************************************************)
(* Three requests of one user sharing the Redis counters, while a command  *)
(* may raise and the rate's key may expire.                                *)
(***************************************************************************)
EXTENDS QueryGuardRedis

MCRequests == 1..3
MCUsers == {"u"}
MCUserOf == <<"u", "u", "u">>

OSErrors == {"OSError"}

Everywhere == Stations

RateKeys == MCUsers

=============================================================================
