---------------------------- MODULE WorkingCopy ----------------------------
(***************************************************************************)
(* The data of one book's local working copy and what each transaction on  *)
(* it does to one row: repository/localRepository.ts, with the planning    *)
(* and matching rules of repository/repositoryService.ts.                  *)
(*                                                                         *)
(* A file's text or blob is a member of Values; its SHA-256 (currentHash,  *)
(* baseHash) and its git blob SHA (baseSha) both identify the content, so  *)
(* all of them are the content itself.  Absent stands for "no content": a  *)
(* path the remote tree does not hold, or a base that is undefined.  The   *)
(* branch also holds files nobody touches: a tree of it is never empty.    *)
(***************************************************************************)
EXTENDS Naturals

CONSTANTS
    Paths,     \* the file paths of the book that anybody edits
    Values,    \* the contents a file may have
    Absent,    \* no content
    NoRow,     \* the files store has no row for a path
    NoEntry    \* a local commit does not touch a path

ASSUME SentinelAssumption == Absent \notin Values

Contents == Values \cup {Absent}

Status == {"clean", "new", "modified", "deleted"}

\* LocalRepositoryFile
Row == [cur : Values, base : Contents, status : Status, committed : BOOLEAN]

\* LocalCommitFile
Entry == [status : Status \ {"clean"}, hash : Values]

ASSUME NoRowAssumption == NoRow \notin Row
ASSUME NoEntryAssumption == NoEntry \notin Entry

\* The files store and a remote tree, by path
Files == [Paths -> Row \cup {NoRow}]
Trees == [Paths -> Contents]

-----------------------------------------------------------------------------
(* What a row says                                                         *)

\* The row's file does not exist for the reader of the working copy
Gone(row) == row = NoRow \/ row.status = "deleted"

\* What the reader of the working copy sees
View(row) == IF Gone(row) THEN Absent ELSE row.cur

BaseOf(row) == IF row = NoRow THEN Absent ELSE row.base

\* listDirtyLocalFiles
Dirty(row) == row # NoRow /\ row.status # "clean" /\ ~row.committed

\* "localChanged" of the sync plan, and what requireClean refuses
LocalChanged(row) == row # NoRow /\ (row.status # "clean" \/ row.committed)

\* localFileVersion / sameLocalFiles: the base is not part of a version
Version(row) == IF row = NoRow THEN <<>> ELSE <<row.cur, row.status, row.committed>>
SameFiles(expected, current) ==
    \A p \in Paths : Version(expected[p]) = Version(current[p])

-----------------------------------------------------------------------------
(* Local writes                                                            *)

StatusAfterWrite(row, value) ==
    CASE row = NoRow -> "new"
      [] row # NoRow /\ row.status = "new" -> "new"
      [] row # NoRow /\ row.status # "new" /\ row.base = value -> "clean"
      [] OTHER -> "modified"

\* prepareCleanLocalFile and the rows the remote tree is written as
CleanRow(value) ==
    [cur |-> value, base |-> value, status |-> "clean", committed |-> FALSE]

\* writeLocalTextScoped / writeLocalBinaryScoped, from the row read earlier
Written(existing, value) ==
    [cur |-> value, base |-> BaseOf(existing),
     status |-> StatusAfterWrite(existing, value), committed |-> FALSE]

\* applyLocalFileChangesAtomically, from the row read earlier: a file put
\* back to its base stays in the next commit
Replaced(existing, value) ==
    [Written(existing, value) EXCEPT
        !.status = IF BaseOf(existing) = value THEN "modified" ELSE @]

\* A deletion that finds row
Deleted(row, committed) ==
    IF row.status = "new" THEN NoRow
    ELSE [row EXCEPT !.status = "deleted", !.committed = committed]

\* applyLocalTextFileMutations skips a mutation that changes nothing
Unaffected(row, value) ==
    IF value = Absent THEN Gone(row)
    ELSE row # NoRow /\ row.status = "clean" /\ row.cur = value

\* applyLocalTextFileMutations, the row it leaves; commit says whether the
\* same transaction also commits
Mutated(row, value, commit) ==
    IF Unaffected(row, value) THEN row
    ELSE IF value = Absent THEN Deleted(row, commit)
    ELSE LET status == StatusAfterWrite(row, value) IN
         [cur |-> value, base |-> BaseOf(row),
          status |-> IF commit THEN "clean" ELSE status,
          committed |-> commit /\ status # "clean"]

\* Mutant: a file put back to its base is committed as well
MutationEntryOfAnyWrite(row, value) ==
    CASE Unaffected(row, value) -> NoEntry
      [] ~Unaffected(row, value) /\ value = Absent ->
            IF row.status = "new" THEN NoEntry
            ELSE [status |-> "deleted", hash |-> row.cur]
      [] OTHER -> [status |-> StatusAfterWrite(row, value), hash |-> value]

\* ... and the entry it adds to the commit
MutationEntry(row, value) ==
    CASE Unaffected(row, value) -> NoEntry
      [] ~Unaffected(row, value) /\ value = Absent ->
            IF row.status = "new" THEN NoEntry
            ELSE [status |-> "deleted", hash |-> row.cur]
      [] OTHER ->
            LET status == StatusAfterWrite(row, value) IN
            IF status = "clean" THEN NoEntry ELSE [status |-> status, hash |-> value]

-----------------------------------------------------------------------------
(* Local commits                                                           *)

\* Mutant: a commit leaves the status of its rows alone
CommittedKeepingStatus(row) ==
    IF Dirty(row) THEN [row EXCEPT !.committed = TRUE] ELSE row

\* createLocalCommit: every dirty row goes into the commit
CommittedRow(row) ==
    IF ~Dirty(row) THEN row
    ELSE [row EXCEPT !.committed = TRUE,
                     !.status = IF @ = "deleted" THEN "deleted" ELSE "clean"]

\* Mutant: committed deletions are left out of the commit
CommitEntryOfWrite(row) ==
    IF Dirty(row) /\ row.status # "deleted"
    THEN [status |-> row.status, hash |-> row.cur] ELSE NoEntry

CommitEntry(row) ==
    IF Dirty(row) THEN [status |-> row.status, hash |-> row.cur] ELSE NoEntry

\* localFileMatchesCommitResult, and matchesCommit of the push
MatchesCommit(row, entry) ==
    /\ row # NoRow
    /\ row.committed
    /\ row.cur = entry.hash
    /\ row.status = IF entry.status = "deleted" THEN "deleted" ELSE "clean"

\* The commits that touch path, and the entry of the last one: the Map that a
\* reader of several commits fills after it sorted them (compareLocalCommitOrder)
Touching(cs, path) == {c \in cs : c.files[path] # NoEntry}
LatestEntry(cs, path) ==
    IF Touching(cs, path) = {} THEN NoEntry
    ELSE LET last == CHOOSE c \in Touching(cs, path) :
                        \A d \in Touching(cs, path) : d.order <= c.order
         IN last.files[path]

\* A reader that does not sort meets the commits by their keys, which are
\* random: every sequence of them, and the entry the Map is left with
KeyOrders(cs) ==
    {key \in [cs -> {c.order : c \in cs}] : \A c, d \in cs : key[c] = key[d] => c = d}
LastRead(cs, key, path) ==
    IF Touching(cs, path) = {} THEN NoEntry
    ELSE LET last == CHOOSE c \in Touching(cs, path) :
                        \A d \in Touching(cs, path) : key[d] <= key[c]
         IN last.files[path]

\* Mutant: only committed writes become dirty again, not committed deletions
UncommittedWrite(row, entry) ==
    IF entry # NoEntry /\ MatchesCommit(row, entry) /\ row.status = "clean"
    THEN [row EXCEPT !.status = entry.status, !.committed = FALSE]
    ELSE row

\* restoreUnpushedCommitsAsDirty
Uncommitted(row, entry) ==
    IF entry # NoEntry /\ MatchesCommit(row, entry)
    THEN [row EXCEPT !.status = entry.status, !.committed = FALSE]
    ELSE row

-----------------------------------------------------------------------------
(* Settlements: what is left of a row after the remote took it             *)

\* Mutant: whatever the row holds by now counts as pushed
SettledUnseen(row, entry, pushed) ==
    IF row = NoRow \/ pushed = Absent THEN NoRow ELSE CleanRow(row.cur)

\* markLocalCommitsPushed: entry is what was pushed for the row's path,
\* pushed the content the remote now holds there
Settled(row, entry, pushed) ==
    CASE row = NoRow \/ entry = NoEntry -> row
      [] row # NoRow /\ entry # NoEntry /\ MatchesCommit(row, entry) ->
            IF pushed = Absent THEN NoRow
            ELSE [row EXCEPT !.base = row.cur, !.status = "clean", !.committed = FALSE]
      [] OTHER ->
            LET kept(status) == IF row.status = "deleted" THEN "deleted" ELSE status IN
            IF pushed = Absent
            THEN [row EXCEPT !.base = Absent, !.committed = FALSE, !.status = kept("new")]
            ELSE [row EXCEPT !.base = entry.hash, !.committed = FALSE,
                             !.status = kept("modified")]

\* settleLocalSourceOverwriteAtomically: expected is the row the overwrite
\* published, row what the files store holds now
OverwriteSettled(expected, row) ==
    CASE expected = NoRow -> row
      [] expected # NoRow /\ expected.status = "deleted" ->
            IF row = NoRow \/ Version(row) = Version(expected) THEN NoRow
            ELSE [row EXCEPT !.base = Absent,
                             !.status = IF row.committed \/ @ = "deleted" THEN @ ELSE "new"]
      [] expected # NoRow /\ expected.status # "deleted" /\ row = NoRow ->
            [expected EXCEPT !.base = expected.cur, !.committed = FALSE,
                             !.status = "deleted"]
      [] OTHER ->
            [row EXCEPT !.base = expected.cur,
                        !.committed = row.committed /\ Version(row) # Version(expected),
                        !.status = IF row.committed \/ row.cur = expected.cur
                                   THEN "clean" ELSE "modified"]

-----------------------------------------------------------------------------
(* Taking the remote tree                                                  *)

\* Mutant: a clean row is reused without a look at its base
PulledUnlessChanged(captured, remote) ==
    CASE remote = Absent -> NoRow
      [] remote # Absent /\ captured # NoRow /\ ~LocalChanged(captured) -> captured
      [] OTHER -> CleanRow(remote)

\* The row a pull prepares for a path that holds remote: the local bytes are
\* reused when the captured row is clean and has that blob as its base
Pulled(captured, remote) ==
    CASE remote = Absent -> NoRow
      [] /\ remote # Absent
         /\ captured # NoRow
         /\ captured.base = remote
         /\ ~LocalChanged(captured) -> [CleanRow(remote) EXCEPT !.cur = captured.cur]
      [] OTHER -> CleanRow(remote)

\* Mutant: a local change the remote has made too is kept, not taken over
PlanKeepingEqual(row, remote) ==
    LET remoteChanged == remote # BaseOf(row) IN
    CASE LocalChanged(row) /\ remoteChanged ->
            IF View(row) # remote THEN "conflict" ELSE "keep"
      [] LocalChanged(row) /\ ~remoteChanged -> "keep"
      [] ~LocalChanged(row) /\ remote = Absent -> "delete"
      [] OTHER -> IF remoteChanged THEN "write" ELSE "keep"

\* Mutant: both sides' changes of a file are no conflict, the local one stays
PlanWithoutConflicts(row, remote) ==
    LET remoteChanged == remote # BaseOf(row) IN
    CASE LocalChanged(row) -> "keep"
      [] ~LocalChanged(row) /\ remote = Absent -> "delete"
      [] OTHER -> IF remoteChanged THEN "write" ELSE "keep"

\* The plan of a full sync for a path: what to do with its row
Plan(row, remote) ==
    LET remoteChanged == remote # BaseOf(row) IN
    CASE LocalChanged(row) /\ remoteChanged ->
            IF View(row) # remote THEN "conflict"
            ELSE IF remote = Absent THEN "delete" ELSE "write"
      [] LocalChanged(row) /\ ~remoteChanged -> "keep"
      [] ~LocalChanged(row) /\ remote = Absent -> "delete"
      [] OTHER -> IF remoteChanged THEN "write" ELSE "keep"

\* The user's choice for a path replaces the plan
Resolved(choice, row, remote) ==
    CASE choice = "none" -> Plan(row, remote)
      [] choice = "local" -> "keep"
      [] OTHER -> IF remote = Absent THEN "delete" ELSE "write"

\* applyRemoteMergeAtomically
Merged(decision, row, remote) ==
    CASE decision = "delete" -> NoRow
      [] decision = "write" -> CleanRow(remote)
      [] OTHER -> row

\* RepositorySyncConflict: what a resolution must still find
Conflict(path, row, remote) ==
    [path |-> path, hash |-> IF row = NoRow THEN Absent ELSE row.cur,
     base |-> BaseOf(row), deleted |-> Gone(row), changed |-> LocalChanged(row),
     remote |-> remote]

Conflicts == [path : Paths, hash : Contents, base : Contents, deleted : BOOLEAN,
              changed : BOOLEAN, remote : Contents]
=============================================================================
