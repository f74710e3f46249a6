----------------------- MODULE MCRepositoryLifecycle -----------------------
(***************************************************************************)
(* A small instance of RepositoryLifecycle for TLC.                        *)
(***************************************************************************)
EXTENDS RepositoryLifecycle, TLC

CONSTANTS a1, a2, p1
=============================================================================
