--------------------------- MODULE MCAccountSync ---------------------------
(***************************************************************************)
(* Small instances of AccountSync for TLC.                                 *)
(***************************************************************************)
EXTENDS AccountSync, TLC

CONSTANTS d1, d2, t1, t2, google, github

TwoDevices == (t1 :> d1) @@ (t2 :> d2)

DriveAndGitHub == <<google, github>>
\* Two snapshots are the seeds of the devices.  The longer a schedule of
\* failures and requests, the fewer the changes it is tried with.
FewFaultsAndActs ==
  {[made |-> 5, fault |-> 1, act |-> 0], [made |-> 5, fault |-> 0, act |-> 1],
   [made |-> 4, fault |-> 1, act |-> 1], [made |-> 3, fault |-> 1, act |-> 2]}
=============================================================================
