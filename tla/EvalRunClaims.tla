---------------------------- MODULE EvalRunClaims ----------------------------
(***************************************************************************)
(* What the worker's settings say of an eval run and the code does not     *)
(* keep.                                                                   *)
(***************************************************************************)
EXTENDS EvalRun

\* lo_worker/main.py:92, "arq re-enqueues with backoff" and jobs that exhaust
\* max_tries are dead-lettered "so a failed eval run is never silently lost": an
\* accepted run that arq has ended the job of is terminal or dead-lettered. An
\* attempt that raises before the last one is not followed by another, and no
\* handler runs in one that is interrupted.
NeverSilentlyLost ==
    job \in {"failed", "dropped"} /\ api = "committed" => Accounted
=============================================================================
