------------------------ MODULE MCQueryGuardMemory ------------------------
(***************************************************************************)
(* Four threads of two users on a guard with one slot, one place to wait   *)
(* and two attempts per user and window: every refusal and every overtaking*)
(* of a waiting thread happens.                                            *)
(***************************************************************************)
EXTENDS QueryGuardMemory

MCRequests == 1..4
MCUsers == {"u", "v"}
MCUserOf == <<"u", "u", "u", "v">>

=============================================================================
