------------------------- MODULE Replenishment_proofs -------------------------
(***************************************************************************)
(* Safety of the replenishment files, for any requests, pairs and uploads. *)
(***************************************************************************)
EXTENDS Replenishment, FiniteSetTheorems, TLAPS

\* What a request holds is told by its step.
Held ==
    \A r \in Reqs :
        /\ req[r].pc = "write" =>
              IF req[r].pair = NoPair THEN req[r].files \subseteq Uploads
                                      ELSE req[r].files = FilesOf(req[r].pair)
        /\ req[r].pc = "add" => req[r].files \subseteq PairPaths \cap (disk \cup deleted)
        /\ req[r].pc = "unlink" => req[r].files \subseteq deleted

TypeInv == TypeOK /\ Held

------------------------------------------------------------------------------
\* The types of the fields of a request.
LEMMA RequestTypes ==
    ASSUME TypeOK, NEW r \in Reqs
    PROVE  /\ req[r].pc \in {"idle", "write", "known", "items", "add", "select", "answer",
                             "delete", "unlink", "rename"}
           /\ req[r].files \subseteq Paths /\ req[r].id \in 0..MaxId
           /\ req[r].pair \in Pairs \cup {NoPair} /\ req[r].due \subseteq Paths
           /\ req[r].late \in BOOLEAN /\ req[r].left \subseteq Entry
  BY DEF TypeOK, Request

\* A request that goes to a state of the right type leaves the others alone.
LEMMA GoesTypes ==
    ASSUME req \in [Reqs -> Request], NEW r \in Reqs, NEW state \in Request, Goes(r, state)
    PROVE  /\ req' \in [Reqs -> Request] /\ req'[r] = state
           /\ \A q \in Reqs : q # r => req'[q] = req[q]
  BY DEF Goes

\* An idle request has the type of a request.
LEMMA IdleType == Idle \in Request
<1>1. 0 \in 0..MaxId
  BY BoundsAssumption
<1> QED
  BY <1>1 DEF Idle, Request

\* Rows that are added have an id, and the paths and sources they are added for.
LEMMA AddedRows ==
    ASSUME NEW files, NEW source \in [files -> Pairs \cup {NoPair}], files \subseteq Paths,
           rows \subseteq Row, AddRows(source)
    PROVE  /\ rows' \subseteq Row /\ rows \subseteq rows'
           /\ \A x \in rows' \ rows : x.path \in files /\ x.source = source[x.path]
           /\ PathsOf(rows') = PathsOf(rows) \cup files
<1>1. PICK n \in 0..MaxId, id \in [DOMAIN source -> Ids] :
          rows' = rows \cup {[id |-> id[f], path |-> f, source |-> source[f],
                              name |-> "given"] : f \in DOMAIN source}
  BY DEF AddRows
<1>2. rows' = rows \cup {[id |-> id[f], path |-> f, source |-> source[f],
                          name |-> "given"] : f \in files}
  BY <1>1
<1>3. rows' \subseteq Row
  BY <1>1, <1>2 DEF Row, Names
<1> DEFINE Added == {[id |-> id[f], path |-> f, source |-> source[f], name |-> "given"] : f \in files}
<1>4. \A x \in Added : x.path \in files /\ x.source = source[x.path]
  OBVIOUS
<1>5. ASSUME NEW f \in files PROVE \E x \in Added : x.path = f
  <2>1. [id |-> id[f], path |-> f, source |-> source[f], name |-> "given"] \in Added
    OBVIOUS
  <2> QED
    BY <2>1
<1>6. rows' = rows \cup Added
  BY <1>2
<1>7. PathsOf(rows') = PathsOf(rows) \cup files
  BY <1>4, <1>5, <1>6 DEF PathsOf
<1> QED
  BY <1>3, <1>4, <1>6, <1>7

\* Init has the types.
LEMMA InitTypes == Init => TypeInv
<1> SUFFICES ASSUME Init PROVE TypeInv
  OBVIOUS
<1>1. fails \in 0..MaxFails
  BY BoundsAssumption DEF Init
<1>2. disk \subseteq Paths /\ req \in [Reqs -> Request]
  BY IdleType DEF Init, Paths, PairPaths
<1> QED
  BY <1>1, <1>2 DEF Init, TypeInv, TypeOK, Held, Idle

\* The first step of an upload, a listing or an edit.
Beginning(r) ==
    CreateFile(r) \/ CreateArchive(r) \/ CreatePair(r) \/ ListFiles(r)
    \/ DeleteFile(r) \/ RenameFile(r)

\* What a request holds after its first step.
Began(state) ==
    /\ state.late = FALSE /\ state.left = {}
    /\ \/ /\ state.pc = "write" /\ state.files \subseteq Fresh /\ state.due = {}
          /\ IF state.pair = NoPair THEN state.files \subseteq Uploads
                                    ELSE state.files = FilesOf(state.pair)
       \/ state.pc = "known" /\ state.due = disk \cap (PathsOf(rows) \cup pairs \X Kinds)
          /\ state.files = {}
       \/ /\ state.pc \in {"delete", "rename"} /\ state.due = {}
          /\ \E x \in rows : state.id = x.id /\ state.files = {x.path}

\* A first step reads, and changes nothing but its request.
LEMMA FirstSteps ==
    ASSUME TypeInv, NEW r \in Reqs, Beginning(r)
    PROVE  /\ UNCHANGED <<disk, pairs, rows, deleted, removed, lost, fails>>
           /\ LoopFree /\ req[r] = Idle
           /\ req' \in [Reqs -> Request] /\ Began(req'[r])
           /\ \A q \in Reqs : q # r => req'[q] = req[q]
<1> USE DEF TypeInv
<1>1. /\ UNCHANGED <<disk, pairs, rows, deleted, removed, lost, fails>>
      /\ LoopFree /\ req[r] = Idle
  BY DEF Beginning, CreateFile, CreateArchive, CreatePair, ListFiles, DeleteFile, RenameFile,
         Edits, History, Begins
<1>2. PICK state \in Request : Goes(r, state) /\ Began(state)
  <2>1. CASE CreateFile(r)
    <3>1. PICK f \in Uploads \cap Fresh : Goes(r, [Idle EXCEPT !.pc = "write", !.files = {f}])
      BY <2>1 DEF CreateFile
    <3>2. [Idle EXCEPT !.pc = "write", !.files = {f}] \in Request
      BY IdleType DEF Request, Idle, Paths
    <3> QED
      BY <3>1, <3>2 DEF Idle, Began
  <2>2. CASE CreateArchive(r)
    <3>1. PICK fs \in SUBSET (Uploads \cap Fresh) :
              Goes(r, [Idle EXCEPT !.pc = "write", !.files = fs])
      BY <2>2 DEF CreateArchive
    <3>2. [Idle EXCEPT !.pc = "write", !.files = fs] \in Request
      BY IdleType DEF Request, Idle, Paths
    <3> QED
      BY <3>1, <3>2 DEF Idle, Began
  <2>3. CASE CreatePair(r)
    <3>1. PICK p \in Pairs :
              /\ FilesOf(p) \subseteq Fresh
              /\ Goes(r, [Idle EXCEPT !.pc = "write", !.files = FilesOf(p), !.pair = p])
      BY <2>3 DEF CreatePair
    <3>2. [Idle EXCEPT !.pc = "write", !.files = FilesOf(p), !.pair = p] \in Request
      BY IdleType DEF Request, Idle, Paths, PairPaths, FilesOf
    <3> QED
      BY <3>1, <3>2, NoPairAssumption DEF Idle, Began
  <2>4. CASE ListFiles(r)
    <3> DEFINE due == disk \cap (PathsOf(rows) \cup pairs \X Kinds)
    <3>1. Goes(r, [Idle EXCEPT !.pc = "known", !.due = due])
      BY <2>4 DEF ListFiles
    <3>2. [Idle EXCEPT !.pc = "known", !.due = due] \in Request
      BY IdleType DEF Request, Idle, TypeOK
    <3> QED
      BY <3>1, <3>2 DEF Idle, Began
  <2>5. CASE DeleteFile(r) \/ RenameFile(r)
    <3>1. PICK pc \in {"delete", "rename"}, x \in rows :
              Goes(r, [Idle EXCEPT !.pc = pc, !.id = x.id, !.files = {x.path}])
      BY <2>5 DEF DeleteFile, RenameFile, Edits
    <3>2. x.id \in 0..MaxId /\ x.path \in Paths
      BY BoundsAssumption DEF TypeOK, Row, Ids
    <3>3. [Idle EXCEPT !.pc = pc, !.id = x.id, !.files = {x.path}] \in Request
      BY <3>2, IdleType DEF Request, Idle
    <3> QED
      BY <3>1, <3>3 DEF Idle, Began
  <2> QED
    BY <2>1, <2>2, <2>3, <2>4, <2>5 DEF Beginning
<1> QED
  BY <1>1, <1>2, GoesTypes DEF TypeOK

\* The last step of a request.
LEMMA LastSteps ==
    ASSUME TypeInv, NEW r \in Reqs, Ends(r)
    PROVE  /\ req' \in [Reqs -> Request] /\ req'[r] = Idle
           /\ \A q \in Reqs : q # r => req'[q] = req[q]
  BY IdleType, GoesTypes DEF Ends, TypeInv, TypeOK

\* What is answered, or left by a request that raises.
Leaves(r) == Answer(r) \/ Unlink(r) \/ Raise(r)

\* An upload is committed: its files are those of the new rows, or of the new pair.
LEMMA Commits ==
    ASSUME TypeInv, NEW r \in Reqs, CommitWrite(r)
    PROVE  /\ UNCHANGED <<disk, deleted, removed, lost, fails>> /\ Ends(r)
           /\ req[r].pc = "write" /\ req[r].files \subseteq disk
           /\ pairs \subseteq pairs' /\ pairs' \subseteq Pairs
           /\ rows \subseteq rows' /\ rows' \subseteq Row
           /\ \A x \in rows' \ rows : x.path \in req[r].files \cap Uploads /\ x.source = NoPair
           /\ PathsOf(rows') \cup pairs' \X Kinds
                = (PathsOf(rows) \cup pairs \X Kinds) \cup req[r].files
<1> USE DEF TypeInv
<1>1. /\ UNCHANGED <<disk, deleted, removed, lost, fails>> /\ Ends(r)
      /\ req[r].pc = "write" /\ req[r].files \subseteq disk
  BY DEF CommitWrite, History
<1>2. CASE req[r].pair # NoPair
  <2>1. pairs' = pairs \cup {req[r].pair} /\ UNCHANGED rows
    BY <1>2 DEF CommitWrite
  <2>2. req[r].pair \in Pairs /\ req[r].files = {req[r].pair} \X Kinds
    BY <1>1, <1>2, RequestTypes DEF Held, FilesOf
  <2>3. pairs' \X Kinds = (pairs \X Kinds) \cup req[r].files
    BY <2>1, <2>2
  <2> QED
    BY <1>1, <2>1, <2>2, <2>3 DEF TypeOK
<1>3. CASE req[r].pair = NoPair
  <2>1. AddRows([f \in req[r].files |-> NoPair]) /\ UNCHANGED pairs
    BY <1>3 DEF CommitWrite
  <2>2. req[r].files \subseteq Uploads /\ req[r].files \subseteq Paths
    BY <1>1, <1>3, RequestTypes DEF Held
  <2>3. /\ rows' \subseteq Row /\ rows \subseteq rows'
        /\ \A x \in rows' \ rows : x.path \in req[r].files /\ x.source = NoPair
        /\ PathsOf(rows') = PathsOf(rows) \cup req[r].files
    BY <2>1, <2>2, AddedRows DEF TypeOK
  <2> QED
    BY <1>1, <2>1, <2>2, <2>3 DEF TypeOK
<1> QED
  BY <1>2, <1>3

\* A listing reads on.
Reading(r) == ReadKnown(r) \/ ReadItems(r) \/ SelectRows(r) \/ CheckFile(r)

\* Only its step, its files and the rows it has left change.
LEMMA Reads ==
    ASSUME TypeInv, NEW r \in Reqs, Reading(r)
    PROVE  /\ UNCHANGED <<disk, pairs, rows, deleted, removed, lost, fails>>
           /\ req' \in [Reqs -> Request]
           /\ \A q \in Reqs : q # r => req'[q] = req[q]
           /\ req'[r].due = req[r].due /\ req'[r].late = req[r].late
           /\ \/ /\ req[r].pc = "known" /\ req'[r].pc = "items"
                 /\ req'[r].files = PathsOf({x \in rows : x.source # NoPair})
              \/ /\ req[r].pc = "items" /\ req'[r].pc \in {"select", "add"}
                 /\ req'[r].files = ((pairs \X Kinds) \ req[r].files) \cap disk
                 /\ req'[r].pc = "select" => req'[r].files = {}
              \/ /\ req[r].pc = "select" /\ req'[r].pc = "answer"
                 /\ req'[r].files = {} /\ PathsOf(req'[r].left) = PathsOf(rows)
              \/ /\ req[r].pc = "answer" /\ req'[r].pc = "answer"
                 /\ \E e \in req[r].left : /\ req'[r].left = req[r].left \ {e}
                                           /\ req'[r].files = req[r].files \cup ({e.path} \cap disk)
           /\ req[r].pc \in {"known", "items"} => req'[r].left = req[r].left
<1> USE DEF TypeInv
<1>1. UNCHANGED <<disk, pairs, rows, deleted, removed, lost, fails>>
  BY DEF Reading, ReadKnown, ReadItems, SelectRows, CheckFile, History
<1>2. PICK pc \in {"items", "select", "add", "answer"}, files \in SUBSET Paths, left \in SUBSET Entry :
          /\ Goes(r, [req[r] EXCEPT !.pc = pc, !.files = files, !.left = left])
          /\ \/ /\ req[r].pc = "known" /\ pc = "items" /\ left = req[r].left
                /\ files = PathsOf({x \in rows : x.source # NoPair})
             \/ /\ req[r].pc = "items" /\ pc \in {"select", "add"} /\ left = req[r].left
                /\ files = ((pairs \X Kinds) \ req[r].files) \cap disk
                /\ pc = "select" => files = {}
             \/ /\ req[r].pc = "select" /\ pc = "answer"
                /\ files = {} /\ PathsOf(left) = PathsOf(rows)
             \/ /\ req[r].pc = "answer" /\ pc = "answer"
                /\ \E e \in req[r].left : left = req[r].left \ {e}
                                           /\ files = req[r].files \cup ({e.path} \cap disk)
  <2>0. req[r] \in Request /\ req[r].left \in SUBSET Entry /\ req[r].files \in SUBSET Paths
    BY RequestTypes DEF TypeOK
  <2>1. \A rs \in SUBSET rows : PathsOf(rs) \subseteq Paths
    BY DEF TypeOK, PathsOf, Row
  <2>2. CASE ReadKnown(r)
    <3> DEFINE files == PathsOf({x \in rows : x.source # NoPair})
    <3>1. [req[r] EXCEPT !.pc = "items", !.files = files]
            = [req[r] EXCEPT !.pc = "items", !.files = files, !.left = req[r].left]
      BY <2>0 DEF Request
    <3>2. Goes(r, [req[r] EXCEPT !.pc = "items", !.files = files, !.left = req[r].left])
          /\ req[r].pc = "known" /\ files \in SUBSET Paths
      BY <2>1, <2>2, <3>1 DEF ReadKnown
    <3> QED
      BY <2>0, <3>2
  <2>3. CASE ReadItems(r)
    <3> DEFINE new == ((pairs \X Kinds) \ req[r].files) \cap disk
               pc == IF new = {} THEN "select" ELSE "add"
    <3>1. new \in SUBSET Paths
      BY DEF TypeOK
    <3>2. [req[r] EXCEPT !.pc = pc, !.files = new]
            = [req[r] EXCEPT !.pc = pc, !.files = new, !.left = req[r].left]
      BY <2>0 DEF Request
    <3>3. Goes(r, [req[r] EXCEPT !.pc = pc, !.files = new, !.left = req[r].left])
          /\ req[r].pc = "items"
      BY <2>3, <3>2 DEF ReadItems
    <3>4. pc \in {"select", "add"} /\ (pc = "select" => new = {})
      OBVIOUS
    <3> HIDE DEF new, pc
    <3>5. new = ((pairs \X Kinds) \ req[r].files) \cap disk
      BY DEF new
    <3> QED
      BY <2>0, <3>1, <3>3, <3>4, <3>5
  <2>4. CASE SelectRows(r)
    <3> DEFINE left == {[id |-> x.id, path |-> x.path] : x \in rows}
    <3>1. left \in SUBSET Entry
      BY DEF TypeOK, Row, Entry
    <3>2. PathsOf(left) = PathsOf(rows)
      <4>1. ASSUME NEW x \in rows PROVE \E e \in left : e.path = x.path
        <5>1. [id |-> x.id, path |-> x.path] \in left
          OBVIOUS
        <5> QED
          BY <5>1
      <4>2. \A e \in left : \E x \in rows : e.path = x.path
        OBVIOUS
      <4> QED
        BY <4>1, <4>2 DEF PathsOf
    <3>3. Goes(r, [req[r] EXCEPT !.pc = "answer", !.files = {}, !.left = left])
          /\ req[r].pc = "select"
      BY <2>4 DEF SelectRows
    <3> HIDE DEF left
    <3> QED
      BY <3>1, <3>2, <3>3
  <2>5. CASE CheckFile(r)
    <3>1. PICK e \in req[r].left :
              Goes(r, [req[r] EXCEPT !.left = @ \ {e}, !.files = @ \cup ({e.path} \cap disk)])
      BY <2>5 DEF CheckFile
    <3> DEFINE left == req[r].left \ {e}
               files == req[r].files \cup ({e.path} \cap disk)
    <3>2. left \in SUBSET Entry /\ files \in SUBSET Paths
      BY <2>0 DEF TypeOK
    <3>3. req[r].pc = "answer"
      BY <2>5 DEF CheckFile
    <3>4. [req[r] EXCEPT !.left = @ \ {e}, !.files = @ \cup ({e.path} \cap disk)]
            = [req[r] EXCEPT !.pc = "answer", !.files = files, !.left = left]
      BY <2>0, <3>3 DEF Request
    <3> QED
      BY <3>1, <3>2, <3>3, <3>4
  <2> QED
    BY <2>2, <2>3, <2>4, <2>5 DEF Reading
<1>3. [req[r] EXCEPT !.pc = pc, !.files = files, !.left = left] \in Request
  BY DEF TypeOK, Request
<1>4. /\ req' \in [Reqs -> Request]
      /\ req'[r] = [req[r] EXCEPT !.pc = pc, !.files = files, !.left = left]
      /\ \A q \in Reqs : q # r => req'[q] = req[q]
  BY <1>2, <1>3, GoesTypes DEF TypeOK
<1>5. /\ req'[r].pc = pc /\ req'[r].files = files /\ req'[r].left = left
      /\ req'[r].due = req[r].due /\ req'[r].late = req[r].late
  BY <1>4 DEF TypeOK, Request
<1> QED
  BY <1>1, <1>2, <1>4, <1>5

\* What a step of another request leaves of a request.
Same(q) ==
    /\ req'[q].pc = req[q].pc /\ req'[q].files = req[q].files /\ req'[q].pair = req[q].pair
    /\ req'[q].due = req[q].due /\ req'[q].id = req[q].id /\ req'[q].left = req[q].left

\* A migration gives every file a row, and tells the listings that know less.
LEMMA Migrates ==
    ASSUME TypeInv, NEW r \in Reqs, CommitMigration(r)
    PROVE  /\ UNCHANGED <<disk, pairs, deleted, removed, lost, fails>>
           /\ req' \in [Reqs -> Request]
           /\ req[r].pc = "add" /\ req'[r].pc = "select" /\ req'[r].due = req[r].due
           /\ req'[r].files = req[r].files /\ req'[r].left = req[r].left
           /\ \A q \in Reqs : q # r =>
                 Same(q) /\ req'[q].late = (req[q].late \/ req[q].pc \in {"items", "add"})
           /\ rows \subseteq rows' /\ rows' \subseteq Row
           /\ \A x \in rows' \ rows : x.path \in PairPaths /\ x.source # NoPair
           /\ PathsOf(rows') = PathsOf(rows) \cup req[r].files
<1> USE DEF TypeInv
<1>1. UNCHANGED <<disk, pairs, deleted, removed, lost, fails>> /\ req[r].pc = "add"
  BY DEF CommitMigration, History
<1>2. [req[r] EXCEPT !.pc = "select"] \in Request /\ \A q \in Reqs : [req[q] EXCEPT !.late = TRUE] \in Request
  BY DEF TypeOK, Request
<1>3. /\ req' \in [Reqs -> Request] /\ req'[r] = [req[r] EXCEPT !.pc = "select"]
      /\ \A q \in Reqs : q # r =>
            req'[q] = IF req[q].pc \in {"items", "add"} THEN [req[q] EXCEPT !.late = TRUE] ELSE req[q]
  BY <1>2 DEF CommitMigration, TypeOK
<1>4. \A q \in Reqs : q # r =>
          Same(q) /\ req'[q].late = (req[q].late \/ req[q].pc \in {"items", "add"})
  BY <1>3 DEF TypeOK, Request, Same
<1>5. req'[r].pc = "select" /\ req'[r].due = req[r].due /\ req'[r].files = req[r].files
      /\ req'[r].left = req[r].left
  BY <1>3 DEF TypeOK, Request
<1>6. AddRows([f \in req[r].files |-> f[1]]) /\ req[r].files \subseteq PairPaths
  BY <1>1 DEF CommitMigration, Held
<1>7. [f \in req[r].files |-> f[1]] \in [req[r].files -> Pairs \cup {NoPair}]
  BY <1>6 DEF PairPaths
<1>8. /\ rows' \subseteq Row /\ rows \subseteq rows'
      /\ \A x \in rows' \ rows : x.path \in req[r].files /\ x.source = x.path[1]
      /\ PathsOf(rows') = PathsOf(rows) \cup req[r].files
  BY <1>6, <1>7, RequestTypes, AddedRows DEF TypeOK
<1>9. \A x \in rows' \ rows : x.path \in PairPaths /\ x.source # NoPair
  BY <1>6, <1>8, NoPairAssumption DEF PairPaths
<1> QED
  BY <1>1, <1>3, <1>4, <1>5, <1>8, <1>9

\* A delete takes the rows of its id.
LEMMA Deletes ==
    ASSUME TypeInv, NEW r \in Reqs, CommitDelete(r)
    PROVE  /\ UNCHANGED <<disk, pairs, removed, fails>>
           /\ req' \in [Reqs -> Request]
           /\ req[r].pc = "delete" /\ req'[r].pc = "unlink" /\ req'[r].files = req[r].files
           /\ req'[r].due = req[r].due /\ req'[r].left = req[r].left
           /\ \A q \in Reqs : q # r => Same(q) /\ req'[q].late = req[q].late
           /\ rows' = rows \ With(req[r].id) /\ rows' \subseteq Row
           /\ deleted' = deleted \cup req[r].files
           /\ lost' = lost \cup (PathsOf(With(req[r].id)) \ req[r].files)
           /\ deleted' \subseteq Paths /\ lost' \subseteq Paths
<1> USE DEF TypeInv
<1>1. /\ UNCHANGED <<disk, pairs, removed, fails>> /\ req[r].pc = "delete"
      /\ rows' = rows \ With(req[r].id)
      /\ deleted' = deleted \cup req[r].files
      /\ lost' = lost \cup (PathsOf(With(req[r].id)) \ req[r].files)
  BY DEF CommitDelete
<1>2. [req[r] EXCEPT !.pc = "unlink"] \in Request
  BY DEF TypeOK, Request
<1>3. /\ req' \in [Reqs -> Request] /\ req'[r] = [req[r] EXCEPT !.pc = "unlink"]
      /\ \A q \in Reqs : q # r => req'[q] = req[q]
  BY <1>2, GoesTypes DEF CommitDelete, Step, TypeOK
<1>4. \A q \in Reqs : q # r => Same(q) /\ req'[q].late = req[q].late
  BY <1>3 DEF Same
<1>5. req'[r].pc = "unlink" /\ req'[r].files = req[r].files /\ req'[r].due = req[r].due
      /\ req'[r].left = req[r].left
  BY <1>3 DEF TypeOK, Request
<1>6. deleted' \subseteq Paths /\ lost' \subseteq Paths /\ rows' \subseteq Row
  BY <1>1, RequestTypes DEF TypeOK, PathsOf, With, Row
<1> QED
  BY <1>1, <1>3, <1>4, <1>5, <1>6

\* A rename keeps the ids, paths and sources of all rows.
LEMMA Renames ==
    ASSUME TypeInv, NEW r \in Reqs, CommitRename(r)
    PROVE  /\ UNCHANGED <<disk, pairs, deleted, removed, lost, fails>> /\ Ends(r)
           /\ req[r].pc = "rename"
           /\ rows' \subseteq Row /\ PathsOf(rows') = PathsOf(rows)
           /\ rows \ rows' \subseteq With(req[r].id)
           /\ \A x \in rows' : \E y \in rows :
                 x.id = y.id /\ x.path = y.path /\ x.source = y.source
                 /\ (y.id # req[r].id => x = y) /\ (y.id = req[r].id => x.name = "renamed")
           /\ \A y \in rows : \E x \in rows' :
                 x.id = y.id /\ x.path = y.path /\ x.source = y.source
<1> USE DEF TypeInv
<1> DEFINE new(x) == [x EXCEPT !.name = "renamed"]
<1>1. /\ UNCHANGED <<disk, pairs, deleted, removed, lost, fails>> /\ Ends(r)
      /\ req[r].pc = "rename"
      /\ rows' = (rows \ With(req[r].id)) \cup {new(x) : x \in With(req[r].id)}
  BY DEF CommitRename, History
<1>2. \A x \in rows : new(x) \in Row /\ new(x).id = x.id /\ new(x).path = x.path
                      /\ new(x).source = x.source /\ new(x).name = "renamed"
  BY DEF TypeOK, Row, Names
<1>3. rows' \subseteq Row
  BY <1>1, <1>2 DEF TypeOK, With
<1>4. \A x \in rows' : \E y \in rows :
          x.id = y.id /\ x.path = y.path /\ x.source = y.source
          /\ (y.id # req[r].id => x = y) /\ (y.id = req[r].id => x.name = "renamed")
  <2> SUFFICES ASSUME NEW x \in rows'
               PROVE  \E y \in rows :
                         x.id = y.id /\ x.path = y.path /\ x.source = y.source
                         /\ (y.id # req[r].id => x = y) /\ (y.id = req[r].id => x.name = "renamed")
    OBVIOUS
  <2>1. CASE x \in rows \ With(req[r].id)
    BY <2>1 DEF With
  <2>2. CASE x \in {new(y) : y \in With(req[r].id)}
    <3>1. PICK y \in With(req[r].id) : x = new(y)
      BY <2>2
    <3> QED
      BY <1>2, <3>1 DEF With
  <2> QED
    BY <1>1, <2>1, <2>2
<1>5. \A y \in rows : \E x \in rows' : x.id = y.id /\ x.path = y.path /\ x.source = y.source
  <2> SUFFICES ASSUME NEW y \in rows
               PROVE  \E x \in rows' : x.id = y.id /\ x.path = y.path /\ x.source = y.source
    OBVIOUS
  <2>1. CASE y \in With(req[r].id)
    <3>1. new(y) \in rows'
      BY <1>1, <2>1
    <3> QED
      BY <1>2, <3>1
  <2>2. CASE y \notin With(req[r].id)
    BY <1>1, <2>2
  <2> QED
    BY <2>1, <2>2
<1>6. PathsOf(rows') = PathsOf(rows)
  BY <1>4, <1>5 DEF PathsOf
<1> QED
  BY <1>1, <1>3, <1>4, <1>5, <1>6

\* Every step keeps the types.
LEMMA StepsKeepTypes == TypeInv /\ [Next]_vars => TypeInv'
<1> SUFFICES ASSUME TypeInv, [Next]_vars PROVE TypeInv'
  OBVIOUS
<1> USE DEF TypeInv, History
<1>1. ASSUME NEW r \in Reqs, Beginning(r) PROVE TypeInv'
  <2>1. TypeOK'
    BY <1>1, FirstSteps DEF TypeOK
  <2>2. Held'
    BY <1>1, FirstSteps DEF Held, Began
  <2> QED
    BY <2>1, <2>2
<1>2. ASSUME NEW r \in Reqs, WriteFile(r) PROVE TypeInv'
  <2>1. UNCHANGED <<pairs, rows, req, deleted, removed, lost, fails>>
    BY <1>2 DEF WriteFile
  <2>2. PICK f \in req[r].files : disk' = disk \cup {f}
    BY <1>2 DEF WriteFile
  <2>3. f \in Paths
    BY <2>2, RequestTypes
  <2> QED
    BY <2>1, <2>2, <2>3 DEF TypeOK, Held
<1>3. ASSUME NEW r \in Reqs, Ends(r), disk' \subseteq disk, disk \subseteq disk' \cup deleted,
             pairs' \subseteq Pairs, rows' \subseteq Row,
             UNCHANGED <<deleted, lost>>, removed' \subseteq deleted, fails' \in 0..MaxFails
      PROVE  TypeInv'
  <2>1. Held'
    BY <1>3, LastSteps DEF Held, Idle
  <2> QED
    BY <1>3, <2>1, LastSteps DEF TypeOK
<1>4. ASSUME NEW r \in Reqs, CommitWrite(r) PROVE TypeInv'
  BY <1>3, <1>4, Commits DEF TypeOK
<1>5. ASSUME NEW r \in Reqs, Reading(r) PROVE TypeInv'
  <2>1. pairs \X Kinds \subseteq PairPaths
    BY DEF TypeOK, PairPaths
  <2>2. TypeOK'
    BY <1>5, Reads DEF TypeOK
  <2>3. Held'
    BY <1>5, <2>1, Reads DEF Held
  <2> QED
    BY <2>2, <2>3
<1>6. ASSUME NEW r \in Reqs, CommitMigration(r) PROVE TypeInv'
  <2>1. TypeOK'
    BY <1>6, Migrates DEF TypeOK
  <2>2. Held'
    BY <1>6, Migrates DEF Held, Same
  <2> QED
    BY <2>1, <2>2
<1>7. ASSUME NEW r \in Reqs, CommitDelete(r) PROVE TypeInv'
  <2>1. TypeOK'
    BY <1>7, Deletes DEF TypeOK
  <2>2. Held'
    BY <1>7, Deletes DEF Held, Same
  <2> QED
    BY <2>1, <2>2
<1>8. ASSUME NEW r \in Reqs, Leaves(r) PROVE TypeInv'
  <2>1. fails < MaxFails => fails + 1 \in 0..MaxFails
    BY BoundsAssumption DEF TypeOK
  <2>2. Ends(r) /\ UNCHANGED <<pairs, rows, deleted, lost>> /\ fails' \in 0..MaxFails
    BY <1>8, <2>1 DEF Leaves, Answer, Unlink, Raise, TypeOK
  <2>3. disk' \subseteq disk /\ disk \subseteq disk' \cup deleted /\ removed' \subseteq deleted
    BY <1>8 DEF Leaves, Answer, Unlink, Raise, Held, TypeOK
  <2> QED
    BY <1>3, <2>2, <2>3 DEF TypeOK
<1>9. ASSUME NEW r \in Reqs, CommitRename(r) PROVE TypeInv'
  BY <1>3, <1>9, Renames DEF TypeOK
<1>10. CASE BackendRestart
  <2>1. fails + 1 \in 0..MaxFails /\ fails' = fails + 1
    BY <1>10, BoundsAssumption DEF BackendRestart, TypeOK
  <2>2. req' \in [Reqs -> Request] /\ \A r \in Reqs : req'[r].pc = "idle"
    BY <1>10, IdleType DEF BackendRestart, Idle
  <2> QED
    BY <1>10, <2>1, <2>2 DEF BackendRestart, TypeOK, Held
<1>11. CASE UNCHANGED vars
  BY <1>11 DEF vars, TypeOK, Held
<1> QED
  BY <1>1, <1>2, <1>4, <1>5, <1>6, <1>7, <1>8, <1>9, <1>10, <1>11
     DEF Next, Beginning, Reading, Leaves

\* TypeInv holds in every state.
LEMMA TypesAlways == Spec => []TypeInv
<1> QED
  BY InitTypes, StepsKeepTypes, PTL DEF Spec

\* The types hold in every state of every behaviour.
THEOREM TypeCorrect == Spec => []TypeOK
<1>1. TypeInv => TypeOK
  BY DEF TypeInv
<1> QED
  BY <1>1, TypesAlways, PTL

------------------------------------------------------------------------------
\* A file that a row or a pair points at goes only after a delete was committed.
LEMMA StepsKeepFiles == TypeInv /\ FilesKept /\ [Next]_vars => FilesKept'
<1> SUFFICES ASSUME TypeInv, FilesKept, [Next]_vars PROVE FilesKept'
  OBVIOUS
<1> USE DEF FilesKept
<1>1. ASSUME NEW r \in Reqs, CommitWrite(r) PROVE FilesKept'
  BY <1>1, Commits
<1>2. ASSUME NEW r \in Reqs, CommitMigration(r) PROVE FilesKept'
  BY <1>2, Migrates DEF TypeInv, Held
<1>3. ASSUME NEW r \in Reqs, CommitDelete(r) PROVE FilesKept'
  BY <1>3, Deletes DEF PathsOf
<1>4. ASSUME NEW r \in Reqs, CommitRename(r) PROVE FilesKept'
  BY <1>4, Renames
<1>5. ASSUME disk \subseteq disk' \cup deleted, UNCHANGED <<pairs, rows, deleted>> PROVE FilesKept'
  BY <1>5
<1>6. ASSUME NEW r \in Reqs, Unlink(r) PROVE FilesKept'
  BY <1>5, <1>6 DEF Unlink, TypeInv, Held
<1>7. ASSUME NEW r \in Reqs, Beginning(r) PROVE FilesKept'
  BY <1>5, <1>7, FirstSteps
<1>8. ASSUME NEW r \in Reqs, Reading(r) PROVE FilesKept'
  BY <1>5, <1>8, Reads
<1>9. ASSUME NEW r \in Reqs, WriteFile(r) \/ Answer(r) \/ Raise(r) PROVE FilesKept'
  BY <1>5, <1>9 DEF WriteFile, Answer, Raise, History
<1>10. CASE BackendRestart \/ UNCHANGED vars
  BY <1>5, <1>10 DEF BackendRestart, vars
<1> QED
  BY <1>1, <1>2, <1>3, <1>4, <1>6, <1>7, <1>8, <1>9, <1>10 DEF Next, Beginning, Reading

\* Every row and every pair has its file, unless its delete was committed: for
\* any number of requests that fail or are lost anywhere.
THEOREM FilesAreKept == Spec => []FilesKept
<1>1. Init => FilesKept
  BY DEF Init, FilesKept, PathsOf
<1> QED
  BY <1>1, TypesAlways, StepsKeepFiles, PTL DEF Spec

------------------------------------------------------------------------------
(* One upload is written at a time, and nobody else knows its files.         *)

Used == deleted \cup lost \cup PathsOf(rows) \cup pairs \X Kinds

\* A listing has nothing left that was not in use.
LeftInv == \A r \in Reqs : PathsOf(req[r].left) \subseteq Used

\* Every step keeps LeftInv: what is in use stays in use.
LEMMA StepsKeepLeft == TypeInv /\ LeftInv /\ [Next]_vars => LeftInv'
<1> SUFFICES ASSUME TypeInv, LeftInv, [Next]_vars PROVE LeftInv'
  OBVIOUS
<1>1. ASSUME Used \subseteq Used',
             \A r \in Reqs : req'[r].left = {} \/ PathsOf(req'[r].left) \subseteq Used
      PROVE  LeftInv'
  BY <1>1 DEF LeftInv, PathsOf
<1>2. ASSUME NEW r \in Reqs, req'[r] = Idle, \A q \in Reqs : q # r => req'[q] = req[q]
      PROVE  \A q \in Reqs : req'[q].left = {} \/ PathsOf(req'[q].left) \subseteq Used
  BY <1>2 DEF LeftInv, Idle
<1>3. ASSUME NEW r \in Reqs, Beginning(r) PROVE LeftInv'
  <2>1. Used' = Used /\ \A q \in Reqs : q # r => req'[q] = req[q]
    BY <1>3, FirstSteps DEF Used, PathsOf
  <2>2. req'[r].left = {}
    BY <1>3, FirstSteps DEF Began
  <2> QED
    BY <1>1, <2>1, <2>2 DEF LeftInv
<1>4. ASSUME NEW r \in Reqs, CommitWrite(r) PROVE LeftInv'
  <2>1. Used \subseteq Used'
    BY <1>4, Commits DEF Used
  <2> QED
    BY <1>1, <1>2, <1>4, <2>1, Commits, LastSteps
<1>5. ASSUME NEW r \in Reqs, Reading(r) PROVE LeftInv'
  <2>1. Used' = Used /\ \A q \in Reqs : q # r => req'[q] = req[q]
    BY <1>5, Reads DEF Used, PathsOf
  <2>2. PathsOf(req'[r].left) \subseteq PathsOf(req[r].left) \cup PathsOf(rows)
    BY <1>5, Reads DEF PathsOf
  <2> QED
    BY <1>1, <2>1, <2>2 DEF LeftInv, Used
<1>6. ASSUME NEW r \in Reqs, CommitMigration(r) PROVE LeftInv'
  <2>1. Used \subseteq Used' /\ req'[r].left = req[r].left /\ \A q \in Reqs : q # r => Same(q)
    BY <1>6, Migrates DEF Used
  <2> QED
    BY <1>1, <2>1 DEF LeftInv, Same
<1>7. ASSUME NEW r \in Reqs, CommitDelete(r) PROVE LeftInv'
  <2>1. Used \subseteq Used'
    BY <1>7, Deletes DEF Used, PathsOf
  <2>2. req'[r].left = req[r].left /\ \A q \in Reqs : q # r => Same(q)
    BY <1>7, Deletes
  <2> QED
    BY <1>1, <2>1, <2>2 DEF LeftInv, Same
<1>8. ASSUME NEW r \in Reqs, CommitRename(r) PROVE LeftInv'
  <2>1. Used \subseteq Used'
    BY <1>8, Renames DEF Used
  <2> QED
    BY <1>1, <1>2, <1>8, <2>1, Renames, LastSteps
<1>9. ASSUME NEW r \in Reqs, Leaves(r) PROVE LeftInv'
  <2>1. Ends(r) /\ Used \subseteq Used'
    BY <1>9 DEF Leaves, Answer, Unlink, Raise, History, Used, PathsOf
  <2> QED
    BY <1>1, <1>2, <2>1, LastSteps
<1>10. CASE BackendRestart
  <2>1. Used \subseteq Used' /\ \A r \in Reqs : req'[r] = Idle
    BY <1>10 DEF BackendRestart, Used, PathsOf
  <2> QED
    BY <1>1, <2>1 DEF Idle
<1>11. ASSUME UNCHANGED <<req, deleted, lost, rows, pairs>> PROVE LeftInv'
  BY <1>11 DEF LeftInv, Used, PathsOf
<1>12. ASSUME NEW r \in Reqs, WriteFile(r) PROVE LeftInv'
  BY <1>11, <1>12 DEF WriteFile, History
<1>13. CASE UNCHANGED vars
  BY <1>11, <1>13 DEF vars
<1> QED
  BY <1>3, <1>4, <1>5, <1>6, <1>7, <1>8, <1>9, <1>10, <1>12, <1>13
     DEF Next, Beginning, Reading, Leaves

\* LeftInv holds in every state.
LEMMA LeftAlways == Spec => []LeftInv
<1>1. Init => LeftInv
  BY DEF Init, LeftInv, Idle, PathsOf
<1> QED
  BY <1>1, TypesAlways, StepsKeepLeft, PTL DEF Spec

WriterInv ==
    \A r, q \in Reqs :
        req[r].pc = "write" =>
            /\ req[r].files \cap Used = {}
            /\ q # r => req[q].pc # "write" /\ req[q].files \cap req[r].files = {}

\* What is new in Used, and in the files of a request, comes from Used and from
\* the files of requests.
LEMMA StepsKeepWriters == TypeInv /\ LeftInv /\ WriterInv /\ [Next]_vars => WriterInv'
<1> SUFFICES ASSUME TypeInv, LeftInv, WriterInv, [Next]_vars PROVE WriterInv'
  OBVIOUS
<1> USE DEF WriterInv
<1>1. ASSUME NEW r \in Reqs, Beginning(r) PROVE WriterInv'
  <2>1. Used' = Used /\ \A q \in Reqs : q # r => req'[q] = req[q]
    BY <1>1, FirstSteps DEF Used, PathsOf
  <2>2. Began(req'[r]) /\ \A q \in Reqs : req[q].pc # "write"
    BY <1>1, FirstSteps DEF LoopFree
  <2>3. req'[r].pc = "write" =>
            req'[r].files \cap Used = {} /\ \A q \in Reqs : req[q].files \cap req'[r].files = {}
    BY <2>2 DEF Began, Fresh, Used
  <2> QED
    BY <2>1, <2>2, <2>3
<1>2. ASSUME NEW r \in Reqs, CommitWrite(r) PROVE WriterInv'
  <2>1. req'[r] = Idle /\ \A q \in Reqs : q # r => req'[q] = req[q] /\ req[q].pc # "write"
    BY <1>2, Commits, LastSteps
  <2> QED
    BY <2>1 DEF Idle
<1>3. ASSUME NEW r \in Reqs, Reading(r) PROVE WriterInv'
  <2>1. Used' = Used /\ \A q \in Reqs : q # r => req'[q] = req[q]
    BY <1>3, Reads DEF Used, PathsOf
  <2>2. req'[r].pc # "write" /\ req'[r].files \subseteq Used \cup req[r].files
    BY <1>3, Reads DEF LeftInv, Used, PathsOf
  <2>3. req[r].pc # "write"
    BY <1>3, Reads
  <2> QED
    BY <2>1, <2>2, <2>3
<1>4. ASSUME NEW r \in Reqs, CommitMigration(r) PROVE WriterInv'
  <2>1. Used' = Used \cup req[r].files /\ req[r].pc # "write" /\ req'[r].pc # "write"
        /\ req'[r].files = req[r].files /\ \A q \in Reqs : q # r => Same(q)
    BY <1>4, Migrates DEF Used
  <2> QED
    BY <2>1 DEF Same
<1>5. ASSUME NEW r \in Reqs, CommitDelete(r) PROVE WriterInv'
  <2>1. req[r].pc # "write" /\ req'[r].pc # "write"
        /\ req'[r].files = req[r].files /\ \A q \in Reqs : q # r => Same(q)
    BY <1>5, Deletes
  <2>2. Used' \subseteq Used \cup req[r].files
    BY <1>5, Deletes DEF Used, PathsOf, With
  <2> QED
    BY <2>1, <2>2 DEF Same
<1>6. ASSUME NEW r \in Reqs, Ends(r), Used' = Used PROVE WriterInv'
  BY <1>6, LastSteps DEF Idle
<1>7. ASSUME NEW r \in Reqs, CommitRename(r) PROVE WriterInv'
  <2>1. Used' = Used
    BY <1>7, Renames DEF Used
  <2> QED
    BY <1>6, <1>7, <2>1, Renames
<1>8. ASSUME NEW r \in Reqs, Leaves(r) PROVE WriterInv'
  <2>1. Ends(r) /\ Used' = Used
    BY <1>8 DEF Leaves, Answer, Unlink, Raise, History, Used, PathsOf
  <2> QED
    BY <1>6, <2>1
<1>9. CASE BackendRestart
  BY <1>9 DEF BackendRestart, Idle
<1>10. ASSUME UNCHANGED <<req, deleted, lost, rows, pairs>> PROVE WriterInv'
  BY <1>10 DEF Used, PathsOf
<1>11. ASSUME NEW r \in Reqs, WriteFile(r) PROVE WriterInv'
  BY <1>10, <1>11 DEF WriteFile, History
<1>12. CASE UNCHANGED vars
  BY <1>10, <1>12 DEF vars
<1> QED
  BY <1>1, <1>2, <1>3, <1>4, <1>5, <1>7, <1>8, <1>9, <1>11, <1>12 DEF Next, Beginning, Reading, Leaves

\* WriterInv holds in every state.
LEMMA WritersAlways == Spec => []WriterInv
<1>1. Init => WriterInv
  BY DEF Init, WriterInv, Idle
<1> QED
  BY <1>1, TypesAlways, LeftAlways, StepsKeepWriters, PTL DEF Spec

------------------------------------------------------------------------------
(* As long as nothing raised, every file on disk is told by a row, a pair or *)
(* a request, or its row was lost.                                           *)

HeldBy(pcs) == UNION {req[r].files : r \in {q \in Reqs : req[q].pc \in pcs}}

StrayInv ==
    fails = 0 => disk \subseteq PathsOf(rows) \cup pairs \X Kinds \cup lost
                                    \cup HeldBy({"write", "unlink"})

\* Files that a request holds at its step stay held while it does not move.
LEMMA HeldOn ==
    ASSUME NEW pcs, NEW r \in Reqs,
           \A q \in Reqs : q # r => req'[q].pc = req[q].pc /\ req'[q].files = req[q].files
    PROVE  /\ HeldBy(pcs) \subseteq HeldBy(pcs)' \cup (IF req[r].pc \in pcs THEN req[r].files ELSE {})
           /\ req'[r].pc \in pcs => req'[r].files \subseteq HeldBy(pcs)'
  BY DEF HeldBy

\* Every step keeps StrayInv.
LEMMA StepsKeepStrays == TypeInv /\ StrayInv /\ [Next]_vars => StrayInv'
<1> SUFFICES ASSUME TypeInv, StrayInv, [Next]_vars, fails' = 0 PROVE StrayInv'
  BY DEF StrayInv
<1> DEFINE pcs == {"write", "unlink"}
<1>1. fails = 0
  <2>1. fails' = fails \/ fails' = fails + 1
    BY FirstSteps, Reads
       DEF Next, Beginning, Reading, WriteFile, CommitWrite, CommitMigration, Answer, CommitDelete,
           Unlink, CommitRename, Raise, BackendRestart, History, vars
  <2> QED
    BY <2>1 DEF TypeInv, TypeOK
<1>2. disk \subseteq PathsOf(rows) \cup pairs \X Kinds \cup lost \cup HeldBy(pcs)
  BY <1>1 DEF StrayInv
<1> USE DEF StrayInv
<1>3. ASSUME NEW r \in Reqs, Beginning(r) PROVE StrayInv'
  <2>1. UNCHANGED <<disk, pairs, rows, lost>> /\ req[r].pc \notin pcs
    BY <1>3, FirstSteps DEF Idle
  <2>2. HeldBy(pcs) \subseteq HeldBy(pcs)'
    BY <1>3, <2>1, FirstSteps, HeldOn
  <2> QED
    BY <1>2, <2>1, <2>2 DEF PathsOf
<1>4. ASSUME NEW r \in Reqs, WriteFile(r) PROVE StrayInv'
  <2>1. UNCHANGED <<pairs, rows, lost, req>> /\ disk' \subseteq disk \cup req[r].files
        /\ req[r].pc = "write"
    BY <1>4 DEF WriteFile, History
  <2>2. req[r].files \subseteq HeldBy(pcs)
    BY <2>1 DEF HeldBy
  <2> QED
    BY <1>2, <2>1, <2>2 DEF PathsOf, HeldBy
<1>5. ASSUME NEW r \in Reqs, CommitWrite(r) PROVE StrayInv'
  <2>1. HeldBy(pcs) \subseteq HeldBy(pcs)' \cup req[r].files
    BY <1>5, Commits, LastSteps, HeldOn
  <2> QED
    BY <1>2, <1>5, <2>1, Commits
<1>6. ASSUME NEW r \in Reqs, Reading(r) PROVE StrayInv'
  <2>1. UNCHANGED <<disk, pairs, rows, lost>> /\ req[r].pc \notin pcs
    BY <1>6, Reads
  <2>2. HeldBy(pcs) \subseteq HeldBy(pcs)'
    <3>1. /\ \A q \in Reqs : q # r => req'[q].pc = req[q].pc /\ req'[q].files = req[q].files
          /\ req[r].pc \notin pcs
      BY <1>6, Reads
    <3>2. /\ HeldBy(pcs) \subseteq HeldBy(pcs)' \cup (IF req[r].pc \in pcs THEN req[r].files ELSE {})
          /\ req'[r].pc \in pcs => req'[r].files \subseteq HeldBy(pcs)'
      BY <3>1, HeldOn
    <3> QED
      BY <3>1, <3>2
  <2> QED
    BY <1>2, <2>1, <2>2 DEF PathsOf
<1>7. ASSUME NEW r \in Reqs, CommitMigration(r) PROVE StrayInv'
  <2>1. HeldBy(pcs) \subseteq HeldBy(pcs)'
    <3>1. /\ \A q \in Reqs : q # r => req'[q].pc = req[q].pc /\ req'[q].files = req[q].files
          /\ req[r].pc \notin pcs
      BY <1>7, Migrates DEF Same
    <3>2. /\ HeldBy(pcs) \subseteq HeldBy(pcs)' \cup (IF req[r].pc \in pcs THEN req[r].files ELSE {})
          /\ req'[r].pc \in pcs => req'[r].files \subseteq HeldBy(pcs)'
      BY <3>1, HeldOn
    <3> QED
      BY <3>1, <3>2
  <2> QED
    BY <1>2, <1>7, <2>1, Migrates
<1>8. ASSUME NEW r \in Reqs, CommitDelete(r) PROVE StrayInv'
  <2>1. HeldBy(pcs) \cup req[r].files \subseteq HeldBy(pcs)'
    <3>1. /\ \A q \in Reqs : q # r => req'[q].pc = req[q].pc /\ req'[q].files = req[q].files
          /\ req[r].pc \notin pcs /\ req'[r].pc \in pcs /\ req'[r].files = req[r].files
      BY <1>8, Deletes DEF Same
    <3>2. /\ HeldBy(pcs) \subseteq HeldBy(pcs)' \cup (IF req[r].pc \in pcs THEN req[r].files ELSE {})
          /\ req'[r].pc \in pcs => req'[r].files \subseteq HeldBy(pcs)'
      BY <3>1, HeldOn
    <3> QED
      BY <3>1, <3>2
  <2>2. PathsOf(rows) \subseteq PathsOf(rows') \cup lost' \cup req[r].files
    BY <1>8, Deletes DEF PathsOf
  <2> QED
    BY <1>2, <1>8, <2>1, <2>2, Deletes
<1>9. ASSUME NEW r \in Reqs, Unlink(r) \/ Answer(r) PROVE StrayInv'
  <2>1. Ends(r) /\ UNCHANGED <<pairs, rows, lost>> /\ req[r].pc # "write"
        /\ disk' \subseteq disk /\ (req[r].pc = "unlink" => disk' = disk \ req[r].files)
    BY <1>9 DEF Unlink, Answer, History
  <2>2. HeldBy(pcs) \subseteq HeldBy(pcs)' \cup (IF req[r].pc \in pcs THEN req[r].files ELSE {})
    BY <2>1, LastSteps, HeldOn
  <2> QED
    BY <1>2, <2>1, <2>2 DEF PathsOf
<1>10. ASSUME NEW r \in Reqs, CommitRename(r) PROVE StrayInv'
  <2>1. HeldBy(pcs) \subseteq HeldBy(pcs)'
    <3>1. /\ \A q \in Reqs : q # r => req'[q].pc = req[q].pc /\ req'[q].files = req[q].files
          /\ req[r].pc \notin pcs
      BY <1>10, Renames, LastSteps
    <3>2. /\ HeldBy(pcs) \subseteq HeldBy(pcs)' \cup (IF req[r].pc \in pcs THEN req[r].files ELSE {})
          /\ req'[r].pc \in pcs => req'[r].files \subseteq HeldBy(pcs)'
      BY <3>1, HeldOn
    <3> QED
      BY <3>1, <3>2
  <2> QED
    BY <1>2, <1>10, <2>1, Renames
<1>11. ~ BackendRestart /\ \A r \in Reqs : ~ Raise(r)
  BY <1>1 DEF BackendRestart, Raise
<1>12. CASE UNCHANGED vars
  BY <1>2, <1>12 DEF vars, PathsOf, HeldBy
<1> QED
  BY <1>3, <1>4, <1>5, <1>6, <1>7, <1>8, <1>9, <1>10, <1>11, <1>12 DEF Next, Beginning, Reading

\* A server at rest has no stray file, as long as nothing raised and no row was
\* lost to an id that was given away again.
THEOREM NoStrayFiles == Spec => []NoStrayFile
<1>1. Init => StrayInv
  BY DEF Init, StrayInv
<1>2. StrayInv => NoStrayFile
  BY DEF StrayInv, NoStrayFile, HeldBy, Idle
<1> QED
  BY <1>1, <1>2, TypesAlways, StepsKeepStrays, PTL DEF Spec

------------------------------------------------------------------------------
(* What a listing has found so far covers what it has to show.               *)

Due(r) == req[r].due \ (deleted \cup lost)

ListInv ==
    \A r \in Reqs :
        /\ req[r].due \subseteq disk \cup deleted
        /\ req[r].pc = "known" => Due(r) \subseteq PathsOf(rows) \cup pairs \X Kinds
        /\ req[r].pc = "items" => /\ Due(r) \subseteq PathsOf(rows) \cup pairs \X Kinds
                                  /\ req[r].files \subseteq PathsOf(rows) \cup deleted \cup lost
        /\ req[r].pc = "add" => Due(r) \subseteq PathsOf(rows) \cup req[r].files
        /\ req[r].pc = "select" => Due(r) \subseteq PathsOf(rows)
        /\ req[r].pc = "answer" => Due(r) \subseteq req[r].files \cup PathsOf(req[r].left)

\* Nothing a listing relies on gets lost without being told.
Monotone ==
    /\ disk \subseteq disk' \cup deleted'
    /\ PathsOf(rows) \subseteq PathsOf(rows') \cup deleted' \cup lost'
    /\ pairs \subseteq pairs' /\ deleted \subseteq deleted' /\ lost \subseteq lost'

\* A request that is left alone keeps its part of ListInv.
LEMMA ListsLeftAlone ==
    ASSUME ListInv, Monotone, NEW q \in Reqs, Same(q)
    PROVE  /\ req'[q].due \subseteq disk' \cup deleted'
           /\ req'[q].pc = "known" => Due(q)' \subseteq PathsOf(rows') \cup pairs' \X Kinds
           /\ req'[q].pc = "items" =>
                 /\ Due(q)' \subseteq PathsOf(rows') \cup pairs' \X Kinds
                 /\ req'[q].files \subseteq PathsOf(rows') \cup deleted' \cup lost'
           /\ req'[q].pc = "add" => Due(q)' \subseteq PathsOf(rows') \cup req'[q].files
           /\ req'[q].pc = "select" => Due(q)' \subseteq PathsOf(rows')
           /\ req'[q].pc = "answer" => Due(q)' \subseteq req'[q].files \cup PathsOf(req'[q].left)
<1>1. Due(q)' \subseteq Due(q) /\ Due(q)' \cap (deleted' \cup lost') = {}
  BY DEF Monotone, Same, Due
<1>2. pairs \X Kinds \subseteq pairs' \X Kinds
  BY DEF Monotone
<1> QED
  BY <1>1, <1>2 DEF ListInv, Monotone, Same

\* Every step keeps ListInv.
LEMMA StepsKeepLists == TypeInv /\ ListInv /\ [Next]_vars => ListInv'
<1> SUFFICES ASSUME TypeInv, ListInv, [Next]_vars PROVE ListInv'
  OBVIOUS
<1>1. ASSUME Monotone, NEW r \in Reqs, \A q \in Reqs : q # r => Same(q), req'[r] = Idle
      PROVE  ListInv'
  BY <1>1, ListsLeftAlone DEF ListInv, Idle
<1>2. ASSUME NEW r \in Reqs, Beginning(r) PROVE ListInv'
  <2>1. Monotone /\ UNCHANGED <<disk, pairs, rows, deleted, lost>>
    BY <1>2, FirstSteps DEF Monotone
  <2>2. Began(req'[r]) /\ \A q \in Reqs : q # r => Same(q)
    BY <1>2, FirstSteps DEF Same
  <2> QED
    BY <2>1, <2>2, ListsLeftAlone DEF ListInv, Began, Due
<1>3. ASSUME NEW r \in Reqs, CommitWrite(r) PROVE ListInv'
  <2>1. Monotone
    BY <1>3, Commits DEF Monotone, PathsOf
  <2> QED
    BY <1>1, <1>3, <2>1, Commits, LastSteps DEF Same
<1>4. ASSUME NEW r \in Reqs, Reading(r) PROVE ListInv'
  <2>1. Monotone /\ UNCHANGED <<disk, pairs, rows, deleted, lost>>
    BY <1>4, Reads DEF Monotone
  <2>2. /\ \A q \in Reqs : q # r => Same(q)
        /\ req'[r].due = req[r].due /\ Due(r)' = Due(r)
    BY <1>4, <2>1, Reads DEF Same, Due
  <2>3. CASE req[r].pc = "known"
    <3>1. req'[r].pc = "items" /\ req'[r].files \subseteq PathsOf(rows)
      BY <1>4, <2>3, Reads DEF PathsOf
    <3> QED
      BY <2>1, <2>2, <2>3, <3>1, ListsLeftAlone DEF ListInv
  <2>4. CASE req[r].pc = "items"
    <3>1. /\ req'[r].pc \in {"select", "add"}
          /\ req'[r].files = ((pairs \X Kinds) \ req[r].files) \cap disk
          /\ req'[r].pc = "select" => req'[r].files = {}
      BY <1>4, <2>4, Reads
    <3>2. Due(r) \subseteq PathsOf(rows) \cup req'[r].files
      BY <2>4, <3>1 DEF ListInv, Due
    <3> QED
      BY <2>1, <2>2, <3>1, <3>2, ListsLeftAlone DEF ListInv
  <2>5. CASE req[r].pc = "select"
    <3>1. req'[r].pc = "answer" /\ PathsOf(req'[r].left) = PathsOf(rows)
      BY <1>4, <2>5, Reads
    <3> QED
      BY <2>1, <2>2, <2>5, <3>1, ListsLeftAlone DEF ListInv
  <2>6. CASE req[r].pc = "answer"
    <3>1. PICK e \in req[r].left :
              /\ req'[r].pc = "answer" /\ req'[r].left = req[r].left \ {e}
              /\ req'[r].files = req[r].files \cup ({e.path} \cap disk)
      BY <1>4, <2>6, Reads
    <3>2. PathsOf(req[r].left) \subseteq PathsOf(req'[r].left) \cup {e.path}
      BY <3>1 DEF PathsOf
    <3>3. Due(r) \subseteq disk
      BY DEF ListInv, Due
    <3>4. Due(r) \subseteq req'[r].files \cup PathsOf(req'[r].left)
      BY <2>6, <3>1, <3>2, <3>3 DEF ListInv
    <3>5. /\ req'[r].due \subseteq disk' \cup deleted' /\ req'[r].pc = "answer"
          /\ Due(r)' \subseteq req'[r].files \cup PathsOf(req'[r].left)
      BY <2>1, <2>2, <3>1, <3>4 DEF ListInv
    <3> QED
      BY <2>1, <2>2, <3>5, ListsLeftAlone DEF ListInv
  <2> QED
    BY <1>4, <2>3, <2>4, <2>5, <2>6, Reads
<1>5. ASSUME NEW r \in Reqs, CommitMigration(r) PROVE ListInv'
  <2>1. Monotone /\ Due(r)' = Due(r)
    BY <1>5, Migrates DEF Monotone, Due
  <2>2. /\ \A q \in Reqs : q # r => Same(q)
        /\ req[r].pc = "add" /\ req'[r].pc = "select" /\ req'[r].due = req[r].due
        /\ PathsOf(rows') = PathsOf(rows) \cup req[r].files
    BY <1>5, Migrates
  <2> QED
    BY <2>1, <2>2, ListsLeftAlone DEF ListInv, Monotone
<1>6. ASSUME NEW r \in Reqs, CommitDelete(r) PROVE ListInv'
  <2>1. Monotone
    BY <1>6, Deletes DEF Monotone, PathsOf
  <2>2. req'[r].pc = "unlink" /\ req'[r].due = req[r].due /\ \A q \in Reqs : q # r => Same(q)
    BY <1>6, Deletes
  <2> QED
    BY <2>1, <2>2, ListsLeftAlone DEF ListInv, Monotone
<1>7. ASSUME NEW r \in Reqs, CommitRename(r) PROVE ListInv'
  <2>1. Monotone
    BY <1>7, Renames DEF Monotone
  <2> QED
    BY <1>1, <1>7, <2>1, Renames, LastSteps DEF Same
<1>8. ASSUME NEW r \in Reqs, Leaves(r) PROVE ListInv'
  <2>1. Monotone /\ Ends(r)
    BY <1>8 DEF Leaves, Answer, Unlink, Raise, History, Monotone, TypeInv, Held
  <2> QED
    BY <1>1, <2>1, LastSteps DEF Same
<1>9. CASE BackendRestart
  <2>1. \A r \in Reqs : req'[r] = Idle
    BY <1>9 DEF BackendRestart
  <2> QED
    BY <2>1 DEF ListInv, Idle
<1>10. ASSUME disk \subseteq disk', UNCHANGED <<req, deleted, lost, rows, pairs>> PROVE ListInv'
  <2>1. Monotone /\ \A q \in Reqs : Same(q)
    BY <1>10 DEF Monotone, Same
  <2> QED
    BY <2>1, ListsLeftAlone DEF ListInv
<1>11. ASSUME NEW r \in Reqs, WriteFile(r) PROVE ListInv'
  BY <1>10, <1>11 DEF WriteFile, History
<1>12. CASE UNCHANGED vars
  BY <1>10, <1>12 DEF vars
<1> QED
  BY <1>2, <1>3, <1>4, <1>5, <1>6, <1>7, <1>8, <1>9, <1>11, <1>12 DEF Next, Beginning, Reading, Leaves

\* ListInv holds in every state.
LEMMA ListsAlways == Spec => []ListInv
<1>1. Init => ListInv
  BY DEF Init, ListInv, Idle
<1> QED
  BY <1>1, TypesAlways, StepsKeepLists, PTL DEF Spec

------------------------------------------------------------------------------
(* A file that was removed does not come back: names are used once.          *)

RemovedInv == removed \cap disk = {}

\* Only a writer adds files to the disk, and its files were never used.
LEMMA StepsKeepRemoved == TypeInv /\ WriterInv /\ RemovedInv /\ [Next]_vars => RemovedInv'
<1> SUFFICES ASSUME TypeInv, WriterInv, RemovedInv, [Next]_vars PROVE RemovedInv'
  OBVIOUS
<1> USE DEF RemovedInv
<1>1. ASSUME NEW r \in Reqs, WriteFile(r) PROVE RemovedInv'
  <2>1. req[r].files \cap removed = {}
    BY <1>1 DEF WriteFile, WriterInv, Used, TypeInv, TypeOK
  <2> QED
    BY <1>1, <2>1 DEF WriteFile, History
<1>2. CASE UNCHANGED <<disk, removed>>
  BY <1>2
<1>3. ASSUME NEW r \in Reqs, Unlink(r) PROVE RemovedInv'
  BY <1>3 DEF Unlink
<1> QED
  BY <1>1, <1>2, <1>3, FirstSteps, Reads
     DEF Next, Beginning, Reading, CommitWrite, CommitMigration, Answer, CommitDelete, CommitRename,
         Raise, BackendRestart, History, vars

\* RemovedInv holds in every state.
LEMMA RemovedAlways == Spec => []RemovedInv
<1>1. Init => RemovedInv
  BY DEF Init, RemovedInv
<1> QED
  BY <1>1, TypesAlways, WritersAlways, StepsKeepRemoved, PTL DEF Spec

------------------------------------------------------------------------------
(* A migration that was not overtaken knows every row of a pair.             *)

OnceInv ==
    /\ \A x \in rows : x.source = NoPair => x.path \in Uploads
    /\ \A r \in Reqs : ~ req[r].late =>
          /\ req[r].pc = "items" => \A x \in rows : x.source # NoPair => x.path \in req[r].files
          /\ req[r].pc = "add" => req[r].files \cap PathsOf(rows) = {}

\* Every step keeps OnceInv.
LEMMA StepsKeepOnce == TypeInv /\ OnceInv /\ [Next]_vars => OnceInv'
<1> SUFFICES ASSUME TypeInv, OnceInv, [Next]_vars PROVE OnceInv'
  OBVIOUS
<1> USE DEF OnceInv
<1>1. ASSUME NEW r \in Reqs, Beginning(r) PROVE OnceInv'
  BY <1>1, FirstSteps DEF Began, PathsOf
<1>2. ASSUME NEW r \in Reqs, CommitWrite(r) PROVE OnceInv'
  <2>1. /\ rows \subseteq rows'
        /\ \A x \in rows' \ rows : x.path \in Uploads /\ x.source = NoPair
        /\ req'[r] = Idle /\ \A q \in Reqs : q # r => req'[q] = req[q]
    BY <1>2, Commits, LastSteps
  <2>2. \A q \in Reqs : req[q].pc = "add" => req[q].files \cap Uploads = {}
    BY UploadsAssumption DEF TypeInv, Held, PairPaths, Kinds
  <2> QED
    BY <2>1, <2>2 DEF Idle, PathsOf
<1>3. ASSUME NEW r \in Reqs, Reading(r) PROVE OnceInv'
  <2>1. UNCHANGED rows /\ (\A q \in Reqs : q # r => req'[q] = req[q]) /\ req'[r].late = req[r].late
    BY <1>3, Reads
  <2>2. CASE req[r].pc = "known"
    <3>1. req'[r].pc = "items" /\ req'[r].files = PathsOf({x \in rows : x.source # NoPair})
      BY <1>3, <2>2, Reads
    <3> QED
      BY <2>1, <3>1 DEF PathsOf
  <2>3. CASE req[r].pc = "items"
    <3>1. /\ req'[r].pc \in {"select", "add"}
          /\ req'[r].files \subseteq (pairs \X Kinds) \ req[r].files
      BY <1>3, <2>3, Reads
    <3>2. (pairs \X Kinds) \cap Uploads = {}
      BY UploadsAssumption DEF TypeInv, TypeOK, Kinds
    <3>3. ~ req[r].late => req'[r].files \cap PathsOf(rows) = {}
      BY <2>3, <3>1, <3>2 DEF PathsOf
    <3> QED
      BY <2>1, <3>1, <3>3 DEF PathsOf
  <2>4. CASE req[r].pc \in {"select", "answer"}
    <3>1. req'[r].pc = "answer"
      BY <1>3, <2>4, Reads
    <3> QED
      BY <2>1, <3>1 DEF PathsOf
  <2> QED
    BY <1>3, <2>2, <2>3, <2>4, Reads
<1>4. ASSUME NEW r \in Reqs, CommitMigration(r) PROVE OnceInv'
  BY <1>4, Migrates DEF Same
<1>5. ASSUME NEW r \in Reqs, CommitDelete(r) PROVE OnceInv'
  <2>1. rows' \subseteq rows /\ PathsOf(rows') \subseteq PathsOf(rows)
    BY <1>5, Deletes DEF PathsOf
  <2> QED
    BY <1>5, <2>1, Deletes DEF Same
<1>6. ASSUME NEW r \in Reqs, CommitRename(r) PROVE OnceInv'
  <2>1. /\ \A x \in rows' : \E y \in rows : x.path = y.path /\ x.source = y.source
        /\ PathsOf(rows') = PathsOf(rows)
    BY <1>6, Renames
  <2>2. req'[r] = Idle /\ \A q \in Reqs : q # r => req'[q] = req[q]
    BY <1>6, Renames, LastSteps
  <2> QED
    BY <2>1, <2>2 DEF Idle
<1>7. ASSUME NEW r \in Reqs, Leaves(r) PROVE OnceInv'
  <2>1. UNCHANGED rows /\ Ends(r)
    BY <1>7 DEF Leaves, Answer, Unlink, Raise, History
  <2> QED
    BY <2>1, LastSteps DEF Idle, PathsOf
<1>8. CASE BackendRestart
  BY <1>8 DEF BackendRestart, Idle
<1>9. CASE UNCHANGED <<rows, req>>
  BY <1>9 DEF PathsOf
<1> QED
  BY <1>1, <1>2, <1>3, <1>4, <1>5, <1>6, <1>7, <1>8, <1>9
     DEF Next, Beginning, Reading, Leaves, WriteFile, History, vars

\* OnceInv holds in every state.
LEMMA OnceAlways == Spec => []OnceInv
<1>1. Init => OnceInv
  BY DEF Init, OnceInv, Idle
<1> QED
  BY <1>1, TypesAlways, StepsKeepOnce, PTL DEF Spec

\* A listing is complete, and shows no file whose delete went through before
\* the listing looked at it: for any requests at a time.
THEOREM ListsAreTruthful == Spec => ListsTruthful
<1>1. ASSUME ListInv, NEW r \in Reqs, Answer(r) PROVE ShowsWhatIsThere(r)
  <2>1. Due(r) \subseteq req[r].files \cup PathsOf(req[r].left) /\ req[r].left = {}
    BY <1>1 DEF Answer, ListInv
  <2> QED
    BY <2>1 DEF ShowsWhatIsThere, Due, PathsOf
<1>2. ASSUME TypeInv, RemovedInv, NEW r \in Reqs, CheckFile(r) PROVE Finds(r) \cap removed = {}
  <2>1. req[r].pc = "answer" /\ Reading(r)
    BY <1>2 DEF CheckFile, Reading
  <2>2. req'[r].files \subseteq req[r].files \cup disk
    BY <1>2, <2>1, Reads
  <2> QED
    BY <1>2, <2>2 DEF Finds, RemovedInv
<1>3. TypeInv /\ ListInv /\ RemovedInv =>
          [\A r \in Reqs :
              /\ Answer(r) => ShowsWhatIsThere(r)
              /\ CheckFile(r) => Finds(r) \cap removed = {}]_vars
  BY <1>1, <1>2
<1> QED
  BY <1>3, TypesAlways, ListsAlways, RemovedAlways, PTL DEF ListsTruthful

\* A migration that no other one overtook gives no file a second row: for any
\* requests at a time.
THEOREM PairsMigrateOnce == Spec => MigratesOnce
<1>1. OnceInv =>
          [\A r \in Reqs :
              CommitMigration(r) /\ ~ req[r].late => req[r].files \cap PathsOf(rows) = {}]_vars
  BY DEF CommitMigration, OnceInv
<1> QED
  BY <1>1, OnceAlways, PTL DEF MigratesOnce
==============================================================================
