----------------------------- MODULE MCWorkflow -----------------------------
(***************************************************************************)
(* Small instances of Workflow.  The ceilings keep the proportions that    *)
(* matter: synthesis is the longest stage, one retry round just fits in    *)
(* what a quick first round leaves of the total.                           *)
(***************************************************************************)
EXTENDS Workflow

\* No deadline, one that expires mid-run, one already past on arrival.
MCDeadlines == {10, 6, -1}

=============================================================================
