---------------------------- MODULE Replenishment ----------------------------
(***************************************************************************)
(* Replenishment files of the backend: uploads that are files on disk and  *)
(* rows of the database, written one after the other by handlers without a *)
(* lock between them.                                                      *)
(*                                                                         *)
(* Uploads of pairs (an image and its table) are the older form.  Every    *)
(* listing first gives the files of pairs rows of their own, so that they  *)
(* can be renamed and deleted like any other file; the rows share the path *)
(* of the pair.                                                            *)
(*                                                                         *)
(* A stored name is a fresh uuid: a path is the pair and the kind of the   *)
(* file, or the upload, and is written once.                               *)
(***************************************************************************)
EXTENDS Naturals, FiniteSets

CONSTANTS
    Reqs,       \* requests the server works on at a time
    Pairs,      \* ids of pairs
    NoPair,     \* source_item_id is None
    Uploads,    \* names of single files
    MaxId,      \* bound: row ids
    MaxFails    \* bound: requests that raise, and restarts

ASSUME NoPairAssumption == NoPair \notin Pairs
ASSUME UploadsAssumption == Uploads \cap (Pairs \X {"image", "text"}) = {}
ASSUME FiniteAssumption == IsFiniteSet(Pairs) /\ IsFiniteSet(Uploads)
ASSUME BoundsAssumption == MaxId \in Nat /\ MaxFails \in Nat

VARIABLES
    disk,       \* files in REPLENISHMENT_DIR
    pairs,      \* rows of replenishment_items
    rows,       \* rows of replenishment_files
    req,        \* what each request has done so far
    deleted,    \* history: paths of rows whose delete was committed
    removed,    \* history: paths whose delete went through, file included
    lost,       \* history: paths of rows deleted by a request that had read another
    fails

vars == <<disk, pairs, rows, req, deleted, removed, lost, fails>>

------------------------------------------------------------------------------
Kinds == {"image", "text"}
FilesOf(p) == {p} \X Kinds
PairPaths == Pairs \X Kinds
Paths == PairPaths \cup Uploads
Ids == 1 .. MaxId
Names == {"given", "renamed"}

Row == [id : Ids, path : Paths, source : Pairs \cup {NoPair}, name : Names]

\* A selected row, as a listing needs it
Entry == [id : Ids, path : Paths]

Idle == [pc |-> "idle", files |-> {}, left |-> {}, id |-> 0, pair |-> NoPair,
         due |-> {}, late |-> FALSE]

\* files: what a writer brings, what the migration knows and adds, what a
\* listing will show, the path a delete or a rename read.  left: the selected
\* rows whose file a listing has still to look at.  History: due, what a
\* listing found when it began, and late, that what it knows of migrated files
\* is not all any more, as another listing has migrated.
Request == [pc : {"idle", "write", "known", "items", "add", "select", "answer",
                  "delete", "unlink", "rename"},
            files : SUBSET Paths, left : SUBSET Entry, id : 0 .. MaxId,
            pair : Pairs \cup {NoPair}, due : SUBSET Paths, late : BOOLEAN]

PathsOf(rs) == {x.path : x \in rs}
With(id) == {x \in rows : x.id = id}

Init ==
    /\ pairs \in SUBSET Pairs            \* pairs of an older version
    /\ disk = pairs \X Kinds
    /\ rows = {}
    /\ req = [r \in Reqs |-> Idle]
    /\ deleted = {} /\ removed = {} /\ lost = {}
    /\ fails = 0

Goes(r, state) == req' = [req EXCEPT ![r] = state]
Step(r, pc) == Goes(r, [req[r] EXCEPT !.pc = pc])
Ends(r) == Goes(r, Idle)
History == <<deleted, removed, lost, fails>>

\* Handlers that write are coroutines: from their last await to their answer
\* nothing else runs on the loop, and no request begins or is answered
LoopFree == \A r \in Reqs : req[r].pc # "write"

Begins(r) == LoopFree /\ req[r] = Idle

------------------------------------------------------------------------------
(* Uploads: a single file, an archive of files, a pair.  The files are       *)
(* written one by one, then their rows are committed together.               *)

\* Names nobody has used
Fresh == Paths \ (disk \cup deleted \cup lost \cup PathsOf(rows) \cup pairs \X Kinds
                       \cup UNION {req[r].files : r \in Reqs})

CreateFile(r) ==
    /\ Begins(r)
    /\ \E f \in Uploads \cap Fresh : Goes(r, [Idle EXCEPT !.pc = "write", !.files = {f}])
    /\ UNCHANGED <<disk, pairs, rows, History>>

\* Members with another suffix, or empty, are left out; none at all is a 422
CreateArchive(r) ==
    /\ Begins(r)
    /\ \E fs \in SUBSET (Uploads \cap Fresh) :
          fs # {} /\ Goes(r, [Idle EXCEPT !.pc = "write", !.files = fs])
    /\ UNCHANGED <<disk, pairs, rows, History>>

CreatePair(r) ==
    /\ Begins(r)
    /\ \E p \in Pairs :
          FilesOf(p) \subseteq Fresh
          /\ Goes(r, [Idle EXCEPT !.pc = "write", !.files = FilesOf(p), !.pair = p])
    /\ UNCHANGED <<disk, pairs, rows, History>>

WriteFile(r) ==
    /\ req[r].pc = "write"
    /\ \E f \in req[r].files \ disk : disk' = disk \cup {f}
    /\ UNCHANGED <<pairs, rows, req, History>>

\* SQLite gives the ids after the largest in use
LastId(n) ==
    /\ n \in {0} \cup {x.id : x \in rows}
    /\ \A x \in rows : x.id <= n

\* Rows for the files in the domain of source
AddRows(source) ==
    \E n \in 0 .. MaxId : \E id \in [DOMAIN source -> Ids] :
        /\ LastId(n)
        /\ {id[f] : f \in DOMAIN source} = (n + 1) .. (n + Cardinality(DOMAIN source))
        /\ rows' = rows \cup {[id |-> id[f], path |-> f, source |-> source[f],
                               name |-> "given"] : f \in DOMAIN source}

\* Mutant: the rows are committed before the files are written
CommitEarly(r) ==
    /\ req[r].pc = "write"
    /\ IF req[r].pair # NoPair
          THEN pairs' = pairs \cup {req[r].pair} /\ UNCHANGED rows
          ELSE AddRows([f \in req[r].files |-> NoPair]) /\ UNCHANGED pairs
    /\ Ends(r)
    /\ UNCHANGED <<disk, History>>

CommitWrite(r) ==
    /\ req[r].pc = "write"
    /\ req[r].files \subseteq disk
    /\ IF req[r].pair # NoPair
          THEN pairs' = pairs \cup {req[r].pair} /\ UNCHANGED rows
          ELSE AddRows([f \in req[r].files |-> NoPair]) /\ UNCHANGED pairs
    /\ Ends(r)
    /\ UNCHANGED <<disk, History>>

------------------------------------------------------------------------------
(* The listing: it migrates, selects the rows, looks for the file of each,   *)
(* and answers those whose file was there.                                   *)

\* Mutant: older pairs are migrated when the service starts, not by the listing
ListUnmigrated(r) ==
    /\ Begins(r)
    /\ Goes(r, [Idle EXCEPT !.pc = "select",
                !.due = disk \cap (PathsOf(rows) \cup pairs \X Kinds)])
    /\ UNCHANGED <<disk, pairs, rows, History>>

ListFiles(r) ==
    /\ Begins(r)
    /\ Goes(r, [Idle EXCEPT !.pc = "known",
                !.due = disk \cap (PathsOf(rows) \cup pairs \X Kinds)])
    /\ UNCHANGED <<disk, pairs, rows, History>>

\* Mutant: a renamed entry is taken for a new file
ReadUnrenamed(r) ==
    /\ req[r].pc = "known"
    /\ Goes(r, [req[r] EXCEPT !.pc = "items",
                !.files = PathsOf({x \in rows : x.source # NoPair /\ x.name = "given"})])
    /\ UNCHANGED <<disk, pairs, rows, History>>

\* known: the files that have a row already, as their pair and kind
ReadKnown(r) ==
    /\ req[r].pc = "known"
    /\ Goes(r, [req[r] EXCEPT !.pc = "items",
                !.files = PathsOf({x \in rows : x.source # NoPair})])
    /\ UNCHANGED <<disk, pairs, rows, History>>

\* Files of pairs that are not known and are on disk
ReadItems(r) ==
    /\ req[r].pc = "items"
    /\ LET new == ((pairs \X Kinds) \ req[r].files) \cap disk
       IN  Goes(r, [req[r] EXCEPT !.pc = IF new = {} THEN "select" ELSE "add", !.files = new])
    /\ UNCHANGED <<disk, pairs, rows, History>>

CommitMigration(r) ==
    /\ req[r].pc = "add"
    /\ AddRows([f \in req[r].files |-> f[1]])
    /\ req' = [q \in Reqs |->
                 IF q = r THEN [req[r] EXCEPT !.pc = "select"]
                 ELSE IF req[q].pc \in {"items", "add"} THEN [req[q] EXCEPT !.late = TRUE]
                 ELSE req[q]]
    /\ UNCHANGED <<disk, pairs, History>>

SelectRows(r) ==
    /\ req[r].pc = "select"
    /\ Goes(r, [req[r] EXCEPT !.pc = "answer", !.files = {},
                !.left = {[id |-> x.id, path |-> x.path] : x \in rows}])
    /\ UNCHANGED <<disk, pairs, rows, History>>

\* is_file of one row, which is shown if its file is there.  Their order, by the
\* time of creation, is any; deletes go on between two of them.
CheckFile(r) ==
    /\ req[r].pc = "answer"
    /\ \E e \in req[r].left :
          Goes(r, [req[r] EXCEPT !.left = @ \ {e}, !.files = @ \cup ({e.path} \cap disk)])
    /\ UNCHANGED <<disk, pairs, rows, History>>

Answer(r) ==
    /\ LoopFree
    /\ req[r].pc = "answer" /\ req[r].left = {}
    /\ Ends(r)
    /\ UNCHANGED <<disk, pairs, rows, History>>

------------------------------------------------------------------------------
(* Delete and rename: the row is read, then changed by its id.  The file of  *)
(* a deleted row is removed after the commit.                                *)

\* A row that is not there is answered 404
Edits(r, pc) ==
    /\ Begins(r)
    /\ \E x \in rows : Goes(r, [Idle EXCEPT !.pc = pc, !.id = x.id, !.files = {x.path}])
    /\ UNCHANGED <<disk, pairs, rows, History>>

DeleteFile(r) == Edits(r, "delete")
RenameFile(r) == Edits(r, "rename")

\* A row that is gone by now is no error here
CommitDelete(r) ==
    /\ req[r].pc = "delete"
    /\ rows' = rows \ With(req[r].id)
    /\ deleted' = deleted \cup req[r].files
    /\ lost' = lost \cup (PathsOf(With(req[r].id)) \ req[r].files)
    /\ Step(r, "unlink")
    /\ UNCHANGED <<disk, pairs, removed, fails>>

\* Mutant: the delete ends with the row
UnlinkForgotten(r) ==
    /\ req[r].pc = "unlink"
    /\ removed' = removed \cup req[r].files
    /\ Ends(r)
    /\ UNCHANGED <<disk, pairs, rows, deleted, lost, fails>>

Unlink(r) ==
    /\ req[r].pc = "unlink"
    /\ disk' = disk \ req[r].files
    /\ removed' = removed \cup req[r].files
    /\ Ends(r)
    /\ UNCHANGED <<pairs, rows, deleted, lost, fails>>

\* An update that finds no row raises
CommitRename(r) ==
    /\ req[r].pc = "rename"
    /\ rows' = (rows \ With(req[r].id))
                  \cup {[x EXCEPT !.name = "renamed"] : x \in With(req[r].id)}
    /\ Ends(r)
    /\ UNCHANGED <<disk, pairs, History>>

------------------------------------------------------------------------------
\* The disk is full, the database is locked, a file cannot be removed: the
\* request raises at any of its steps, and nothing it did is undone
Raise(r) ==
    /\ fails < MaxFails
    /\ req[r] # Idle
    /\ fails' = fails + 1
    /\ Ends(r)
    /\ UNCHANGED <<disk, pairs, rows, deleted, removed, lost>>

BackendRestart ==
    /\ fails < MaxFails
    /\ \E r \in Reqs : req[r] # Idle
    /\ fails' = fails + 1
    /\ req' = [r \in Reqs |-> Idle]
    /\ UNCHANGED <<disk, pairs, rows, deleted, removed, lost>>

Next ==
    \/ \E r \in Reqs :
          \/ CreateFile(r) \/ CreateArchive(r) \/ CreatePair(r)
          \/ WriteFile(r) \/ CommitWrite(r)
          \/ ListFiles(r) \/ ReadKnown(r) \/ ReadItems(r) \/ CommitMigration(r)
          \/ SelectRows(r) \/ CheckFile(r) \/ Answer(r)
          \/ DeleteFile(r) \/ CommitDelete(r) \/ Unlink(r)
          \/ RenameFile(r) \/ CommitRename(r)
          \/ Raise(r)
    \/ BackendRestart

Spec == Init /\ [][Next]_vars

------------------------------------------------------------------------------
(* Properties.                                                               *)

TypeOK ==
    /\ disk \subseteq Paths
    /\ pairs \subseteq Pairs
    /\ rows \subseteq Row
    /\ req \in [Reqs -> Request]
    /\ deleted \subseteq Paths /\ removed \subseteq deleted /\ lost \subseteq Paths
    /\ fails \in 0 .. MaxFails

\* The path of every row and of every pair is a file, unless a delete of that
\* very path was committed: neither a failed request nor a restart between
\* two writes leaves a row behind that nobody can open (the files are written
\* before the commit, and removed after it).
FilesKept == \A f \in PathsOf(rows) \cup pairs \X Kinds : f \in disk \/ f \in deleted

\* As long as nothing raised, a server at rest has no file on disk that no
\* row and no pair points at.  The exception is real: SQLite gives the id of
\* a deleted last row to the next upload, and a second delete of the old row
\* takes the new one away and leaves its file.
NoStrayFile ==
    fails = 0 /\ (\A r \in Reqs : req[r] = Idle)
        => disk \subseteq PathsOf(rows) \cup (pairs \X Kinds) \cup lost

ShowsWhatIsThere(r) == req[r].due \ (deleted \cup lost) \subseteq req[r].files

\* What the look at one more row adds to the listing
Finds(r) == req'[r].files \ req[r].files

\* A listing shows every file that was there when it began and that nobody
\* deleted until it answers, those of pairs stored by an older version
\* included.  It shows no file whose delete had gone through when it looked:
\* also not by the second row that two migrations may give a file.
ListsTruthful ==
    [][\A r \in Reqs :
          /\ Answer(r) => ShowsWhatIsThere(r)
          /\ CheckFile(r) => Finds(r) \cap removed = {}]_vars

\* A listing gives a file of an older pair no second row, whatever was listed,
\* renamed, deleted or cut off before, unless another listing migrated since
\* it read what is known: two first listings at a time show every file twice.
MigratesOnce ==
    [][\A r \in Reqs :
          CommitMigration(r) /\ ~ req[r].late => req[r].files \cap PathsOf(rows) = {}]_vars
==============================================================================
