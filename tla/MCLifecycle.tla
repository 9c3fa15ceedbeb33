---------------------------- MODULE MCLifecycle -----------------------------
(***************************************************************************)
(* A small instance of Lifecycle: two requests of any kind beside the      *)
(* sampler, a pool of one connection or two, a schema of two objects.      *)
(***************************************************************************)
EXTENDS Lifecycle, TLC

Env(url, max, min, migrate, sample) ==
    [url |-> url, max |-> max, min |-> min, migrate |-> migrate, sample |-> sample]

\* The defaults, no migration and no sampling, and three that are refused.
MCEnvs == { Env(TRUE, 1, 1, TRUE, TRUE), Env(TRUE, 2, 0, FALSE, FALSE),
            Env(FALSE, 1, 1, TRUE, TRUE), Env(TRUE, 1, 2, TRUE, TRUE),
            Env(TRUE, 0, 0, TRUE, TRUE) }
=============================================================================
