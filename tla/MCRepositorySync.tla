-------------------------- MODULE MCRepositorySync --------------------------
(***************************************************************************)
(* Small instances of RepositorySync for TLC.  Paths and contents are      *)
(* interchangeable, so their permutations are symmetries of every safety   *)
(* run; the liveness run has none.                                         *)
(***************************************************************************)
EXTENDS RepositorySync, TLC

Symmetry == Permutations(Paths) \cup Permutations(Values)

AuthorFeatures == {"edit", "commit", "foreign"}

\* The explicit operations of the repository dialog, beside the periodic check
PullPushFeatures == AuthorFeatures \cup {"pull", "push", "fetch", "failure"}

\* The background full sync, whose tab may close at every step
SyncFeatures == AuthorFeatures \cup {"sync", "lostReply", "crash"}

\* ... and whose requests may fail as well
DrainFeatures == SyncFeatures \cup {"failure"}

\* Everything else the tab can do to the working copy
TabFeatures ==
    AuthorFeatures \cup {"asset", "editAndCommit", "remoteWins", "push", "overwrite",
                         "restore", "publish", "endRace", "lostReply", "failure", "crash"}

\* The instances of the findings
RereadFeatures == AuthorFeatures \cup {"sync", "push", "endRace"}
ChoiceFeatures == AuthorFeatures \cup {"sync"}
OverwriteFeatures == AuthorFeatures \cup {"overwrite"}
RollbackFeatures == AuthorFeatures \cup {"publish", "failure"}
=============================================================================
