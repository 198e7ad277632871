------------------------- MODULE GallerySearch_proofs -------------------------
(***************************************************************************)
(* Proofs about GallerySearch, for every number of searches, images,       *)
(* restarts and encoders.                                                  *)
(*                                                                         *)
(* One invariant per property, each inductive over the type invariant:     *)
(* BoundedInv, no set of vectors is larger than the gallery, gives         *)
(* SingleResolves; OfEncoderInv, vectors in memory are of the installed    *)
(* encoder, gives SameEncoder; CoveredInv, each step of a search holds at  *)
(* least the images the previous one promised, gives NothingMissing.       *)
(***************************************************************************)
EXTENDS GallerySearch, FiniteSetTheorems, TLAPS

------------------------------------------------------------------------------
(* Types *)

\* The initial states are well typed.
LEMMA InitTypes == Init => TypeOK
  BY BoundsAssumption
     DEF Init, TypeOK, Typed, NamesArchives, Meta, NoVectors, Vectors, NotCached, Cached,
         NewSearch, Search, Kinds, Reasons, InService, Locked

\* A step that appends an archive keeps the numbers in use.
LEMMA AppendKeepsGenerations ==
    ASSUME TypeOK, NEW v \in Vectors, archives' = Append(archives, v)
    PROVE  /\ archives' \in Seq(Vectors)
           /\ Len(archives') = Len(archives) + 1
           /\ archives'[Len(archives) + 1] = v
           /\ \A g \in 1 .. Len(archives) : archives'[g] = archives[g]
  BY DEF TypeOK, Typed

\* What a step of search s leaves alone, and what it makes of s.
LEMMA OneSearchMoves ==
    ASSUME TypeOK, NEW s \in Searches, NEW r \in Search,
           search' = [search EXCEPT ![s] = r],
           r.pc \in InService => r.snap.generation \in 1 .. Len(archives),
           UNCHANGED archives
    PROVE  /\ search' \in [Searches -> Search]
           /\ search'[s] = r
           /\ \A t \in Searches \ {s} : search'[t] = search[t]
           /\ \A t \in Searches :
                  search'[t].pc \in InService =>
                      search'[t].snap.generation \in 1 .. Len(archives')
  BY DEF TypeOK, Typed, NamesArchives

\* The records a step makes of one search
LEMMA MovedRecord ==
    ASSUME NEW r \in Search, NEW pc \in Active
    PROVE  [r EXCEPT !.pc = pc] \in Search
  BY DEF Search

\* ... the last of them the record of a search that is refused
LEMMA RefusedRecord ==
    ASSUME NEW r \in Search, NEW reason \in Reasons
    PROVE  [r EXCEPT !.pc = "refused", !.reason = reason] \in Search
  BY DEF Search, Over

\* Every step keeps the types.
LEMMA StepsKeepTypes == TypeOK /\ [Next]_vars => TypeOK'
<1> SUFFICES ASSUME TypeOK, [Next]_vars PROVE TypeOK'
  OBVIOUS
<1> USE DEF OfServices
<1>1. Len(archives) \in Nat /\ search \in [Searches -> Search] /\ meta \in Meta
      /\ database \in Vectors /\ cache \in Cached /\ encoder \in Nat
      /\ replaces \subseteq Nat /\ restarts \in Nat /\ migrating \in Nat
  BY BoundsAssumption DEF TypeOK, Typed
<1>2. NoVectors \in Vectors /\ NotCached \in Cached
  BY DEF NoVectors, Vectors, NotCached, Cached
<1>3. \A g \in 1 .. Len(archives) : archives[g] \in Vectors
  BY DEF TypeOK, Typed
<1>4. ASSUME NEW n \in 1 .. MaxImages, Publish(n) PROVE TypeOK'
  <2>1. meta.size + n \in Nat
    BY <1>1 DEF Meta
  <2>2. [encoder |-> encoder, size |-> meta.size + n] \in Vectors
    BY <1>1, <2>1 DEF Vectors
  <2>3. archives' \in Seq(Vectors) /\ Len(archives') = Len(archives) + 1
    BY <1>4, <2>2, AppendKeepsGenerations DEF Publish
  <2>4. replaces' = replaces \cup {meta.size + n}
    BY <1>4 DEF Publish
  <2>5. replaces' \subseteq Nat
    BY <1>1, <2>1, <2>4
  <2>6. meta' \in Meta
    BY <1>1, <1>4, <2>1 DEF Publish, Meta
  <2>7. NamesArchives'
    BY <1>1, <1>4, <2>3 DEF Publish, TypeOK, NamesArchives
  <2> QED
    BY <1>4, <2>3, <2>5, <2>6, <2>7 DEF Publish, TypeOK, Typed
<1>5. ASSUME NEW size \in replaces, ReplaceDatabase(size) \/ ReplaceFails(size)
      PROVE  TypeOK'
  <2>1. NamesArchives'
    BY <1>5 DEF ReplaceDatabase, ReplaceFails, TypeOK, NamesArchives
  <2>2. replaces' = replaces \ {size}
    BY <1>5 DEF ReplaceDatabase, ReplaceFails
  <2>3. replaces' \subseteq Nat
    BY <1>1, <2>2
  <2>4. database' \in Vectors
    BY <1>1, <1>5 DEF ReplaceDatabase, ReplaceFails, Vectors
  <2> QED
    BY <1>5, <2>1, <2>3, <2>4 DEF ReplaceDatabase, ReplaceFails, TypeOK, Typed
<1>6. ASSUME NEW s \in Searches, NEW kind \in Kinds, Ask(s, kind) PROVE TypeOK'
  <2> DEFINE r == [NewSearch EXCEPT !.pc = "asked", !.kind = kind, !.known = meta.size]
  <2>1. r \in Search /\ r.pc = "asked"
    BY <1>1 DEF NewSearch, Search, Meta, Vectors, NoVectors, Active, Reasons
  <2>2. search' = [search EXCEPT ![s] = r] /\ r.pc \notin InService
    BY <1>6, <2>1 DEF Ask, InService, Locked
  <2> HIDE DEF r
  <2> QED
    BY <1>6, <2>1, <2>2, OneSearchMoves DEF Ask, TypeOK, Typed, NamesArchives
<1>7. ASSUME NEW s \in Searches, SearchStep(s) \/ SearchFails(s) PROVE TypeOK'
  <2>1. PICK r \in Search :
          /\ search' = [search EXCEPT ![s] = r]
          /\ r.pc \in InService => r.snap.generation \in 1 .. Len(archives)
    <3>1. search[s] \in Search
      BY <1>1
    <3>2. CASE ReadGallery(s)
      <4> DEFINE r == [search[s] EXCEPT !.pc = "queued", !.snap = meta]
      <4>1. r \in Search /\ r.snap = meta
        BY <1>1, <3>1 DEF Search, Active, InService
      <4>2. search' = [search EXCEPT ![s] = r]
        BY <1>1, <3>2 DEF ReadGallery
      <4>3. meta.generation \in 1 .. Len(archives)
        BY <3>2 DEF ReadGallery, SearchReady, TypeOK, NamesArchives
      <4> QED
        BY <4>1, <4>2, <4>3
    <3>3. CASE CacheHit(s)
      <4> DEFINE r == [search[s] EXCEPT !.pc = "ranked", !.vectors = cache.vectors]
      <4>1. r \in Search /\ r.pc = "ranked"
        BY <1>1, <3>1 DEF Cached, Search, Active
      <4>2. search' = [search EXCEPT ![s] = r]
        BY <1>1, <3>3 DEF CacheHit
      <4> QED
        BY <4>1, <4>2 DEF InService, Locked
    \* What stays in the ML service keeps the generation it read
    <3>4. ASSUME search[s].pc \in InService, NEW pc \in {"header", "archive"}, Moves(s, pc)
          PROVE  \E r \in Search :
                   /\ search' = [search EXCEPT ![s] = r]
                   /\ r.pc \in InService => r.snap.generation \in 1 .. Len(archives)
      <4> DEFINE r == [search[s] EXCEPT !.pc = pc]
      <4>1. r \in Search
        BY <3>1, <3>4, MovedRecord DEF Active, InService, Locked
      <4>2. r.snap = search[s].snap
        BY <3>1 DEF Search
      <4>3. search' = [search EXCEPT ![s] = r]
        BY <3>4 DEF Moves
      <4>4. search[s].snap.generation \in 1 .. Len(archives)
        BY <3>4 DEF TypeOK, NamesArchives
      <4> QED
        BY <4>1, <4>2, <4>3, <4>4
    <3>5. ASSUME NEW reason \in Reasons, Refuses(s, reason)
          PROVE  \E r \in Search :
                   /\ search' = [search EXCEPT ![s] = r]
                   /\ r.pc \in InService => r.snap.generation \in 1 .. Len(archives)
      <4> DEFINE r == [search[s] EXCEPT !.pc = "refused", !.reason = reason]
      <4>1. r \in Search
        BY <3>1, RefusedRecord
      <4>2. r.pc = "refused"
        BY <3>1 DEF Search
      <4>3. search' = [search EXCEPT ![s] = r]
        BY <3>5 DEF Refuses
      <4> QED
        BY <4>1, <4>2, <4>3 DEF InService, Locked
    <3>6. CASE CacheMiss(s)
      BY <3>4, <3>6 DEF CacheMiss, InService
    <3>7. CASE LoadHeader(s)
      <4>1. search[s].pc \in InService
        BY <3>7 DEF LoadHeader, InService, Locked
      <4>2. CASE search' = [search EXCEPT ![s].pc = "rows", ![s].header = database.size]
        <5> DEFINE r == [search[s] EXCEPT !.pc = "rows", !.header = database.size]
        <5>1. r \in Search /\ r.snap = search[s].snap
          BY <1>1, <3>1 DEF Search, Vectors, Active, InService, Locked
        <5>2. search' = [search EXCEPT ![s] = r]
          BY <4>2
        <5>3. search[s].snap.generation \in 1 .. Len(archives)
          BY <4>1 DEF TypeOK, NamesArchives
        <5> QED
          BY <5>1, <5>2, <5>3
      <4> QED
        BY <3>4, <3>5, <3>7, <4>1, <4>2 DEF LoadHeader, Reasons
    <3>8. CASE LoadRows(s)
      <4>1. search[s].pc \in InService
        BY <3>8 DEF LoadRows, InService, Locked
      <4>2. CASE search' = [search EXCEPT ![s].pc = "ranked", ![s].vectors = database]
        <5> DEFINE r == [search[s] EXCEPT !.pc = "ranked", !.vectors = database]
        <5>1. r \in Search /\ r.pc = "ranked"
          BY <1>1, <3>1 DEF Search, Active
        <5>2. search' = [search EXCEPT ![s] = r]
          BY <4>2
        <5> QED
          BY <5>1, <5>2 DEF InService, Locked
      <4> QED
        BY <3>4, <3>5, <3>8, <4>1, <4>2 DEF LoadRows, Reasons
    <3>9. CASE CopyArchive(s)
      <4>1. search[s].snap.generation \in 1 .. Len(archives)
        BY <3>9 DEF CopyArchive, TypeOK, NamesArchives, InService, Locked
      <4>2. CASE search' = [search EXCEPT ![s].pc = "header", ![s].reloading = TRUE]
        <5> DEFINE r == [search[s] EXCEPT !.pc = "header", !.reloading = TRUE]
        <5>1. r \in Search /\ r.snap = search[s].snap
          BY <3>1 DEF Search, Active, InService, Locked
        <5>2. search' = [search EXCEPT ![s] = r]
          BY <4>2
        <5> QED
          BY <4>1, <5>1, <5>2
      <4> QED
        BY <3>5, <3>9, <4>2 DEF CopyArchive, Reasons
    <3>10. CASE Answer(s)
      <4> DEFINE r == [search[s] EXCEPT !.pc = "answered", !.resolved = LookedUp(s)]
      <4>1. LookedUp(s) \in Nat
        BY <1>1, <3>1 DEF LookedUp, Meta, Search
      <4>2. r \in Search /\ r.pc = "answered"
        BY <3>1, <4>1 DEF Search, Over
      <4>3. search' = [search EXCEPT ![s] = r]
        BY <3>10 DEF Answer
      <4> QED
        BY <4>2, <4>3 DEF InService, Locked
    <3>11. CASE SearchFails(s)
      BY <3>5, <3>11 DEF SearchFails, Reasons
    <3> QED
      BY <1>7, <3>2, <3>3, <3>6, <3>7, <3>8, <3>9, <3>10, <3>11 DEF SearchStep
  <2>2. archives' = archives /\ meta' = meta /\ UNCHANGED <<serving, encoder, replaces, migrating, restarts, searched>>
    BY <1>7 DEF SearchStep, ReadGallery, CacheHit, CacheMiss, LoadHeader, LoadRows,
                CopyArchive, Answer, SearchFails
  <2>3. /\ search' \in [Searches -> Search]
        /\ \A t \in Searches :
               search'[t].pc \in InService =>
                   search'[t].snap.generation \in 1 .. Len(archives')
    BY <2>1, <2>2, OneSearchMoves
  <2>4. database' \in Vectors
    BY <1>1, <1>3, <1>7
       DEF SearchStep, ReadGallery, CacheHit, CacheMiss, LoadHeader, LoadRows,
           CopyArchive, Answer, SearchFails, TypeOK, NamesArchives, InService, Locked
  <2>5. cache' \in Cached /\ cache'.generation \in 0 .. Len(archives)
    BY <1>1, <1>7
       DEF SearchStep, ReadGallery, CacheHit, CacheMiss, LoadHeader, LoadRows,
           CopyArchive, Answer, SearchFails, TypeOK, NamesArchives, InService, Locked, Cached
  <2>6. holder' \in Searches \cup {NoOne}
    BY <1>7
       DEF SearchStep, ReadGallery, CacheHit, CacheMiss, LoadHeader, LoadRows,
           CopyArchive, Answer, SearchFails, Releases, TypeOK, Typed
  <2> QED
    BY <2>2, <2>3, <2>4, <2>5, <2>6 DEF TypeOK, Typed, NamesArchives
<1>8. ASSUME NEW pcs, pcs \in {InService, Active}, Forgets(pcs), UNCHANGED archives
      PROVE  /\ search' \in [Searches -> Search]
             /\ \A t \in Searches : search'[t].pc \notin InService
             /\ cache' \in Cached /\ cache'.generation = 0
             /\ holder' = NoOne /\ replaces' = {}
  <2>1. \A t \in Searches : search[t] \in Search
    BY <1>1
  <2>2. \A t \in Searches : search'[t] = IF search[t].pc \in pcs
           THEN [search[t] EXCEPT !.pc = "refused", !.reason = "unavailable"] ELSE search[t]
    BY <1>8 DEF Forgets
  <2>3. \A t \in Searches : search'[t] \in Search
    BY <2>1, <2>2, RefusedRecord DEF Reasons
  <2>4. ASSUME NEW t \in Searches PROVE search'[t].pc \notin InService
    <3>1. CASE search[t].pc \in pcs
      <4>1. search'[t].pc = "refused"
        BY <2>1, <2>2, <3>1 DEF Search
      <4> QED
        BY <4>1 DEF InService, Locked
    <3>2. CASE search[t].pc \notin pcs
      <4>1. InService \subseteq pcs
        BY <1>8 DEF Active
      <4> QED
        BY <2>2, <3>2, <4>1
    <3> QED
      BY <3>1, <3>2
  <2> QED
    BY <1>2, <1>8, <2>3, <2>4 DEF Forgets, NotCached
<1>9. CASE ServiceRestart
  <2>1. Forgets(InService) /\ UNCHANGED archives
    BY <1>9 DEF ServiceRestart
  <2> QED
    BY <1>8, <1>9, <2>1 DEF ServiceRestart, TypeOK, Typed, NamesArchives
<1>10. CASE SwitchEncoder
  <2>1. Forgets(Active) /\ UNCHANGED archives
    BY <1>10 DEF SwitchEncoder
  <2>2. encoder' \in 1 .. MaxEncoders
    BY <1>10, BoundsAssumption DEF SwitchEncoder, TypeOK, Typed
  <2>3. NamesArchives'
    BY <1>1, <1>8, <1>10, <2>1 DEF SwitchEncoder, TypeOK, NamesArchives
  <2> QED
    BY <1>1, <1>8, <1>10, <2>1, <2>2, <2>3 DEF SwitchEncoder, TypeOK, Typed
<1>11. CASE MigrateSave
  <2>1. [encoder |-> encoder, size |-> meta.size] \in Vectors
    BY <1>1 DEF Vectors, Meta
  <2>2. archives' \in Seq(Vectors) /\ Len(archives') = Len(archives) + 1
    BY <1>11, <2>1, AppendKeepsGenerations DEF MigrateSave
  <2>3. migrating' = Len(archives) + 1 /\ UNCHANGED <<meta, cache, search>>
    BY <1>11 DEF MigrateSave
  <2>4. migrating' \in Nat
    BY <1>1, <2>3
  <2>5. NamesArchives'
    BY <1>1, <2>2, <2>3 DEF TypeOK, NamesArchives
  <2> QED
    BY <1>11, <2>2, <2>4, <2>5 DEF MigrateSave, TypeOK, Typed
<1>12. CASE MigrateSwitch
  BY <1>1, <1>12 DEF MigrateSwitch, TypeOK, Typed, NamesArchives, Meta
<1>13. CASE MigrationDies \/ StartServices
  <2>1. NamesArchives'
    BY <1>1, <1>13 DEF MigrationDies, StartServices, TypeOK, NamesArchives
  <2>2. migrating' \in Nat /\ restarts' \in Nat
    BY <1>1, <1>13 DEF MigrationDies, StartServices
  <2>3. serving' \in BOOLEAN
    BY <1>13 DEF MigrationDies, StartServices, TypeOK, Typed
  <2> QED
    BY <1>13, <2>1, <2>2, <2>3 DEF MigrationDies, StartServices, TypeOK, Typed
<1>14. CASE UNCHANGED vars
  BY <1>14 DEF vars, TypeOK, Typed, NamesArchives
<1> QED
  BY <1>4, <1>5, <1>6, <1>7, <1>9, <1>10, <1>11, <1>12, <1>13, <1>14
     DEF Next, Import, Operate

\* Every reachable state is well typed, whatever is restarted or switched.
THEOREM TypeCorrect == Spec => []TypeOK
  BY InitTypes, StepsKeepTypes, PTL DEF Spec

------------------------------------------------------------------------------
(* A single search resolves what it ranked: nothing is larger than the       *)
(* gallery, and the gallery only grows.                                      *)

BoundedInv ==
    /\ \A g \in 1 .. Len(archives) : archives[g].size <= meta.size
    /\ database.size <= meta.size
    /\ \A size \in replaces : size <= meta.size
    /\ cache.vectors.size <= meta.size
    /\ \A s \in Searches : search[s].vectors.size <= meta.size
    /\ SingleResolves

\* The gallery starts with nothing to outgrow it.
LEMMA InitBounded == Init => BoundedInv
  BY DEF Init, BoundedInv, SingleResolves, NoVectors, NotCached, NewSearch

\* Archives, database, cache and searches never hold more than was published.
LEMMA StepsKeepBounded == TypeOK /\ BoundedInv /\ [Next]_vars => BoundedInv'
<1> SUFFICES ASSUME TypeOK, BoundedInv, [Next]_vars PROVE BoundedInv'
  OBVIOUS
<1> USE DEF OfServices
<1>1. /\ Len(archives) \in Nat /\ archives \in Seq(Vectors) /\ meta \in Meta
      /\ \A g \in 1 .. Len(archives) : archives[g].size \in Nat
      /\ database.size \in Nat /\ cache.vectors.size \in Nat
      /\ \A size \in replaces : size \in Nat
      /\ search \in [Searches -> Search]
  <2>1. /\ archives \in Seq(Vectors) /\ meta \in Meta /\ replaces \subseteq Nat
        /\ database \in Vectors /\ cache \in Cached /\ search \in [Searches -> Search]
    BY DEF TypeOK, Typed
  <2>2. Len(archives) \in Nat /\ \A g \in 1 .. Len(archives) : archives[g] \in Vectors
    BY <2>1
  <2> QED
    BY <2>1, <2>2 DEF Vectors, Cached
<1>2. \A s \in Searches : search[s].vectors.size \in Nat /\ search[s].resolved \in Nat
  BY <1>1 DEF Search, Vectors
<1>3. ASSUME NEW n \in 1 .. MaxImages, Publish(n) PROVE BoundedInv'
  <2>1. /\ meta'.size = meta.size + n /\ meta.size \in Nat /\ n \in Nat
        /\ archives' = Append(archives, [encoder |-> encoder, size |-> meta.size + n])
        /\ replaces' = replaces \cup {meta.size + n}
        /\ database' = database /\ cache' = cache /\ search' = search
    BY <1>1, <1>3 DEF Publish, Meta
  <2>2. \A g \in 1 .. Len(archives') : archives'[g].size <= meta'.size
    BY <1>1, <2>1 DEF BoundedInv
  <2> QED
    BY <1>1, <1>2, <2>1, <2>2 DEF BoundedInv, SingleResolves
<1>4. ASSUME NEW size \in replaces, ReplaceDatabase(size) \/ ReplaceFails(size)
      PROVE  BoundedInv'
  BY <1>4 DEF ReplaceDatabase, ReplaceFails, BoundedInv, SingleResolves
<1>5. ASSUME NEW s \in Searches, NEW kind \in Kinds, Ask(s, kind) PROVE BoundedInv'
  <2>1. search'[s].vectors = NoVectors /\ search'[s].pc = "asked"
    BY <1>1, <1>5 DEF Ask, NewSearch
  <2>2. search'[s].vectors.size = 0
    BY <2>1 DEF NoVectors
  <2>3. \A t \in Searches \ {s} : search'[t] = search[t]
    BY <1>1, <1>5 DEF Ask
  <2>4. meta.size \in Nat
    BY <1>1 DEF Meta
  <2> QED
    BY <1>5, <2>1, <2>2, <2>3, <2>4 DEF Ask, BoundedInv, SingleResolves
<1>6. ASSUME NEW s \in Searches, SearchStep(s) \/ SearchFails(s) PROVE BoundedInv'
  <2>1. UNCHANGED <<archives, meta, replaces>>
    BY <1>6 DEF SearchStep, ReadGallery, CacheHit, CacheMiss, LoadHeader, LoadRows,
                CopyArchive, Answer, SearchFails
  <2>2. database'.size <= meta.size
    BY <1>1, <1>6
       DEF SearchStep, ReadGallery, CacheHit, CacheMiss, LoadHeader, LoadRows, CopyArchive,
           Answer, SearchFails, BoundedInv, TypeOK, NamesArchives, InService, Locked
  <2>3. cache'.vectors.size <= meta.size
    BY <1>6 DEF SearchStep, ReadGallery, CacheHit, CacheMiss, LoadHeader, LoadRows,
                CopyArchive, Answer, SearchFails, BoundedInv
  <2>4. \A t \in Searches \ {s} : search'[t] = search[t]
    BY <1>1, <1>6 DEF SearchStep, ReadGallery, CacheHit, CacheMiss, LoadHeader, LoadRows,
                CopyArchive, Answer, SearchFails, Moves, Refuses
  <2>5. search'[s].vectors \in {search[s].vectors, cache.vectors, database}
    BY <1>1, <1>6 DEF SearchStep, ReadGallery, CacheHit, CacheMiss, LoadHeader, LoadRows,
                CopyArchive, Answer, SearchFails, Moves, Refuses, Search
  <2>6. search'[s].pc = "answered" =>
            /\ search'[s].resolved = LookedUp(s)
            /\ search'[s].vectors = search[s].vectors /\ search'[s].kind = search[s].kind
    BY <1>1, <1>6
       DEF SearchStep, ReadGallery, CacheHit, CacheMiss, LoadHeader, LoadRows,
           CopyArchive, Answer, SearchFails, Moves, Refuses, Search, Active, InService, Locked
  <2>7. search'[s].vectors.size <= meta.size
    BY <2>5 DEF BoundedInv
  <2>8. search'[s].pc = "answered" /\ search'[s].kind = "single" =>
            search'[s].vectors.size <= search'[s].resolved
    BY <2>6, <2>7 DEF LookedUp
  <2> QED
    BY <2>1, <2>2, <2>3, <2>4, <2>7, <2>8 DEF BoundedInv, SingleResolves
<1>7. ASSUME NEW pcs, Forgets(pcs), UNCHANGED <<archives, meta, database>> PROVE BoundedInv'
  <2>1. \A t \in Searches :
          /\ search'[t].vectors = search[t].vectors
          /\ search'[t] = search[t] \/ search'[t].pc = "refused"
    BY <1>1, <1>7 DEF Forgets, Search
  <2>2. cache'.vectors.size = 0 /\ replaces' = {} /\ meta.size \in Nat
    BY <1>1, <1>7 DEF Forgets, NotCached, NoVectors, Meta
  <2> QED
    BY <1>7, <2>1, <2>2 DEF BoundedInv, SingleResolves
<1>8. CASE ServiceRestart \/ SwitchEncoder
  BY <1>7, <1>8 DEF ServiceRestart, SwitchEncoder
<1>9. CASE MigrateSave
  <2>1. /\ archives' = Append(archives, [encoder |-> encoder, size |-> meta.size])
        /\ UNCHANGED <<meta, database, replaces, cache, search>>
    BY <1>9 DEF MigrateSave
  <2>2. meta.size \in Nat
    BY <1>1 DEF Meta
  <2>3. \A g \in 1 .. Len(archives') : archives'[g].size <= meta.size
    BY <1>1, <2>1, <2>2 DEF BoundedInv
  <2> QED
    BY <2>1, <2>3 DEF BoundedInv, SingleResolves
<1>10. CASE MigrateSwitch \/ MigrationDies \/ StartServices
  <2>1. meta'.size = meta.size /\ UNCHANGED <<archives, database, replaces, cache, search>>
    BY <1>1, <1>10 DEF MigrateSwitch, MigrationDies, StartServices, Meta
  <2> QED
    BY <2>1 DEF BoundedInv, SingleResolves
<1>11. CASE UNCHANGED vars
  BY <1>11 DEF vars, BoundedInv, SingleResolves
<1> QED
  BY <1>3, <1>4, <1>5, <1>6, <1>8, <1>9, <1>10, <1>11 DEF Next, Import, Operate

\* Every image a single search ranked can be shown, whatever is imported,
\* restarted or migrated while the search runs.
THEOREM SinglesResolve == Spec => []SingleResolves
<1>1. Init => TypeOK /\ BoundedInv
  BY InitTypes, InitBounded
<1>2. TypeOK /\ BoundedInv /\ [Next]_vars => (TypeOK /\ BoundedInv)'
  BY StepsKeepTypes, StepsKeepBounded
<1>3. BoundedInv => SingleResolves
  BY DEF BoundedInv
<1> QED
  BY <1>1, <1>2, <1>3, PTL DEF Spec

\* A search that was ranked is answered by the backend only.
LEMMA OnlyAnswerAnswers ==
    ASSUME TypeOK, [Next]_vars, NEW s \in Searches,
           search[s].pc = "ranked", search'[s].pc = "answered"
    PROVE  Answer(s)
<1>1. search \in [Searches -> Search]
  BY DEF TypeOK, Typed
<1>2. search' # search
  OBVIOUS
<1>3. ~ Import
  BY <1>2 DEF Import, Publish, ReplaceDatabase, ReplaceFails
<1>4. ~ Operate
  <2>1. CASE ServiceRestart \/ SwitchEncoder
    <3>1. PICK pcs : search'[s] = IF search[s].pc \in pcs
                          THEN [search[s] EXCEPT !.pc = "refused", !.reason = "unavailable"]
                          ELSE search[s]
      BY <2>1 DEF ServiceRestart, SwitchEncoder, Forgets
    <3>2. search[s] \in Search
      BY <1>1
    <3> QED
      BY <3>1, <3>2 DEF Search
  <2>2. CASE MigrateSave \/ MigrateSwitch \/ MigrationDies \/ StartServices
    BY <1>2, <2>2 DEF MigrateSave, MigrateSwitch, MigrationDies, StartServices
  <2> QED
    BY <2>1, <2>2 DEF Operate
<1>5. ASSUME NEW t \in Searches, NEW kind \in Kinds PROVE ~ Ask(t, kind)
  BY <1>1 DEF Ask, NewSearch, Over
<1>6. ASSUME NEW t \in Searches, SearchStep(t) \/ SearchFails(t) PROVE Answer(s)
  <2>1. t = s
    BY <1>1, <1>6 DEF SearchStep, ReadGallery, CacheHit, CacheMiss, LoadHeader, LoadRows,
         CopyArchive, Answer, SearchFails, Moves, Refuses
  <2>2. ~ (ReadGallery(s) \/ CacheHit(s) \/ CacheMiss(s) \/ LoadHeader(s) \/ LoadRows(s)
             \/ CopyArchive(s))
    BY DEF ReadGallery, CacheHit, CacheMiss, LoadHeader, LoadRows, CopyArchive
  <2>3. ~ SearchFails(s)
    <3>1. search[s] \in Search
      BY <1>1
    <3> QED
      BY <1>1, <3>1 DEF SearchFails, Refuses, Search
  <2> QED
    BY <1>6, <2>1, <2>2, <2>3 DEF SearchStep
<1> QED
  BY <1>2, <1>3, <1>4, <1>5, <1>6 DEF Next, vars

\* A batch shows what it ranked, unless an import was published since it read
\* the gallery.
THEOREM BatchesResolve == Spec => BatchResolves
<1>1. Init => TypeOK /\ BoundedInv
  BY InitTypes, InitBounded
<1>2. TypeOK /\ BoundedInv /\ [Next]_vars => (TypeOK /\ BoundedInv)'
  BY StepsKeepTypes, StepsKeepBounded
<1>3. TypeOK /\ BoundedInv /\ [Next]_vars =>
        [\A s \in Searches :
           /\ search[s].kind = "batch" /\ search[s].known = meta.size
           /\ search[s].pc = "ranked" /\ search'[s].pc = "answered"
           => search'[s].vectors.size <= search'[s].resolved]_vars
  <2> SUFFICES ASSUME TypeOK, BoundedInv, [Next]_vars, NEW s \in Searches,
                      search[s].kind = "batch", search[s].known = meta.size,
                      search[s].pc = "ranked", search'[s].pc = "answered"
               PROVE  search'[s].vectors.size <= search'[s].resolved
    OBVIOUS
  <2>1. Answer(s)
    BY OnlyAnswerAnswers
  <2>2. search \in [Searches -> Search] /\ search[s].vectors.size <= meta.size
    BY DEF TypeOK, Typed, BoundedInv
  <2> QED
    BY <2>1, <2>2 DEF Answer, LookedUp, Search
<1> QED
  BY <1>1, <1>2, <1>3, PTL DEF Spec, BatchResolves

------------------------------------------------------------------------------
(* Vectors that left SQLite are of the installed encoder.                    *)

OfEncoderInv ==
    /\ SameEncoder
    /\ \A s \in Searches : search[s].pc = "rows" => database.encoder = encoder

\* A search only ever takes vectors of the encoder that embedded its query.
LEMMA StepsKeepEncoder == TypeOK /\ OfEncoderInv /\ [Next]_vars => OfEncoderInv'
<1> SUFFICES ASSUME TypeOK, OfEncoderInv, [Next]_vars PROVE OfEncoderInv'
  OBVIOUS
<1> USE DEF OfServices
<1>1. search \in [Searches -> Search]
  BY DEF TypeOK, Typed
<1>2. ASSUME NEW n \in 1 .. MaxImages, Publish(n) PROVE OfEncoderInv'
  BY <1>2 DEF Publish, OfEncoderInv, SameEncoder
<1>3. ASSUME NEW size \in replaces, ReplaceDatabase(size) \/ ReplaceFails(size)
      PROVE  OfEncoderInv'
  <2>1. database' = database \/ database'.encoder = encoder
    BY <1>3 DEF ReplaceDatabase, ReplaceFails
  <2> QED
    BY <1>3, <2>1 DEF ReplaceDatabase, ReplaceFails, OfEncoderInv, SameEncoder
<1>4. ASSUME NEW s \in Searches, NEW kind \in Kinds, Ask(s, kind) PROVE OfEncoderInv'
  <2>1. search'[s].pc = "asked" /\ \A t \in Searches \ {s} : search'[t] = search[t]
    BY <1>1, <1>4 DEF Ask, NewSearch
  <2> QED
    BY <1>4, <2>1 DEF Ask, OfEncoderInv, SameEncoder
<1>5. ASSUME NEW s \in Searches, SearchStep(s) \/ SearchFails(s) PROVE OfEncoderInv'
  <2>1. encoder' = encoder /\ \A t \in Searches \ {s} : search'[t] = search[t]
    BY <1>1, <1>5 DEF SearchStep, ReadGallery, CacheHit, CacheMiss, LoadHeader, LoadRows,
                CopyArchive, Answer, SearchFails, Moves, Refuses
  <2>2. database' = database \/ database'.encoder = encoder
    BY <1>5 DEF SearchStep, ReadGallery, CacheHit, CacheMiss, LoadHeader, LoadRows,
                CopyArchive, Answer, SearchFails, Readable
  <2>3. search'[s].pc = "rows" => LoadHeader(s)
    BY <1>1, <1>5
       DEF SearchStep, ReadGallery, CacheHit, CacheMiss, LoadRows, CopyArchive, Answer,
           SearchFails, Moves, Refuses, Search
  <2>4. LoadHeader(s) /\ search'[s].pc = "rows" => database'.encoder = encoder
    BY <1>1 DEF LoadHeader, Moves, Refuses, Search
  <2>5. search'[s].pc = "ranked" =>
            \/ search[s].pc = "queued" /\ Hits(s) /\ search'[s].vectors = cache.vectors
            \/ search[s].pc = "rows" /\ search'[s].vectors = database
    BY <1>1, <1>5
       DEF SearchStep, ReadGallery, CacheHit, CacheMiss, LoadHeader, LoadRows,
           CopyArchive, Answer, SearchFails, Moves, Refuses, Search
  <2>6. search[s].pc = "queued" /\ Hits(s) => cache # NotCached
    BY DEF Hits, NotCached, TypeOK, NamesArchives, InService
  <2>7. search'[s].pc = "ranked" => search'[s].vectors.encoder = encoder
    BY <2>5, <2>6 DEF OfEncoderInv, SameEncoder
  <2>8. cache' = cache \/ LoadRows(s)
    BY <1>5 DEF SearchStep, ReadGallery, CacheHit, CacheMiss, LoadHeader,
                CopyArchive, Answer, SearchFails
  <2>9. LoadRows(s) => search[s].pc = "rows" /\ (cache' = cache \/ cache'.vectors = database)
    BY DEF LoadRows
  <2> QED
    BY <2>1, <2>2, <2>3, <2>4, <2>7, <2>8, <2>9 DEF OfEncoderInv, SameEncoder
<1>6. CASE ServiceRestart
  <2>1. \A t \in Searches : search'[t] = search[t] \/ search'[t].pc = "refused"
    BY <1>1, <1>6 DEF ServiceRestart, Forgets, Search
  <2> QED
    BY <1>6, <2>1 DEF ServiceRestart, Forgets, OfEncoderInv, SameEncoder
<1>7. CASE SwitchEncoder
  <2>1. \A t \in Searches : search'[t].pc \notin {"ranked", "rows"}
    BY <1>1, <1>7 DEF SwitchEncoder, Forgets, Search, Active, InService, Locked
  <2> QED
    BY <1>7, <2>1 DEF SwitchEncoder, Forgets, OfEncoderInv, SameEncoder
<1>8. CASE MigrateSave \/ MigrateSwitch \/ MigrationDies \/ StartServices
  BY <1>8 DEF MigrateSave, MigrateSwitch, MigrationDies, StartServices, OfEncoderInv, SameEncoder
<1>9. CASE UNCHANGED vars
  BY <1>9 DEF vars, OfEncoderInv, SameEncoder
<1> QED
  BY <1>2, <1>3, <1>4, <1>5, <1>6, <1>7, <1>8, <1>9 DEF Next, Import, Operate

\* No query is ever compared with vectors of another encoder.
THEOREM OneEncoder == Spec => []SameEncoder
<1>1. Init => TypeOK /\ OfEncoderInv
  <2>1. Init => OfEncoderInv
    BY DEF Init, OfEncoderInv, SameEncoder, NewSearch
  <2> QED
    BY <2>1, InitTypes
<1>2. TypeOK /\ OfEncoderInv /\ [Next]_vars => (TypeOK /\ OfEncoderInv)'
  BY StepsKeepTypes, StepsKeepEncoder
<1>3. OfEncoderInv => SameEncoder
  BY DEF OfEncoderInv
<1> QED
  BY <1>1, <1>2, <1>3, PTL DEF Spec

------------------------------------------------------------------------------
(* Nothing is missing: the promise known <= snap <= vectors is handed from   *)
(* step to step.                                                             *)

\* A generation in use stands for as many images as its archive has
GenerationsCovered ==
    /\ meta.generation # 0 => archives[meta.generation].size = meta.size
    /\ migrating # 0 => ~serving /\ archives[migrating].size = meta.size
    /\ cache.generation # 0 => cache.vectors.size >= archives[cache.generation].size
    /\ replaces \subseteq {meta.size}

SearchCovered(s) ==
    /\ search[s].pc \in {"asked", "queued"} => ~search[s].reloading
    /\ search[s].pc = "asked" => search[s].known <= meta.size
    /\ search[s].pc \in InService =>
           /\ search[s].known <= search[s].snap.size
           /\ search[s].snap.size <= meta.size
           /\ archives[search[s].snap.generation].size = search[s].snap.size
    /\ search[s].pc \in Locked => holder = s
    /\ search[s].pc \in {"header", "rows"} /\ search[s].reloading =>
           database.size >= search[s].snap.size
    /\ search[s].pc \in {"ranked", "answered"} =>
           search[s].vectors.size >= search[s].known

CoveredInv == GenerationsCovered /\ \A s \in Searches : SearchCovered(s)

\* No search owes an image at first.
LEMMA InitCovered == Init => CoveredInv
  BY DEF Init, CoveredInv, GenerationsCovered, SearchCovered, NewSearch, NotCached,
         InService, Locked

\* Steps of imports and of the operator: searches stay, the gallery may grow
LEMMA OthersKeepSearchCovered ==
    ASSUME TypeOK, TypeOK', CoveredInv, NEW s \in Searches,
           search'[s] = search[s], holder' = holder, meta'.size >= meta.size,
           \A g \in 1 .. Len(archives) : archives'[g] = archives[g],
           database' = database \/ database'.size >= meta.size
    PROVE  SearchCovered(s)'
<1>1. /\ search[s] \in Search /\ meta \in Meta /\ meta.size \in Nat
      /\ search[s].known \in Nat /\ search[s].snap.size \in Nat
      /\ meta'.size \in Nat /\ database'.size \in Nat
  BY DEF TypeOK, Typed, Search, Meta, Vectors
<1>2. SearchCovered(s)
  BY DEF CoveredInv
<1>3. search[s].pc \in InService =>
          archives'[search[s].snap.generation] = archives[search[s].snap.generation]
  BY DEF TypeOK, NamesArchives
<1>4. (search[s].pc \in {"header", "rows"} => search[s].pc \in InService)
  BY DEF InService, Locked
<1>5. search[s].pc \in InService => search[s].snap.size <= meta.size
  BY <1>2 DEF SearchCovered
<1>6. search[s].pc \in {"header", "rows"} /\ search[s].reloading =>
          database'.size >= search[s].snap.size
  <2>1. CASE database' = database
    BY <1>2, <2>1 DEF SearchCovered
  <2>2. CASE database'.size >= meta.size /\ database' # database
    <3>1. database'.size >= meta.size
      BY <2>2
    <3>2. ASSUME search[s].pc \in InService PROVE database'.size >= search[s].snap.size
      <4>1. search[s].snap.size <= meta.size
        BY <1>5, <3>2
      <4> QED
        BY <1>1, <3>1, <4>1, <2>2
    <3> QED
      BY <1>4, <3>2
  <2> QED
    BY <2>1, <2>2
<1> QED
  <2>1. search[s].pc = "asked" => search[s].known <= meta'.size
    BY <1>1, <1>2 DEF SearchCovered
  <2>2. search[s].pc \in InService => search[s].snap.size <= meta'.size
    BY <1>1, <1>5
  <2> QED
    BY <1>2, <1>3, <1>6, <2>1, <2>2 DEF SearchCovered

\* A step of search s leaves another search t covered: what t relies on while
\* it holds the lock, nobody else changes.
LEMMA OtherSearchesStayCovered ==
    ASSUME TypeOK, CoveredInv, NEW s \in Searches, SearchStep(s) \/ SearchFails(s),
           NEW t \in Searches \ {s}
    PROVE  SearchCovered(t)'
<1> USE DEF OfServices
<1>1. search \in [Searches -> Search]
  BY DEF TypeOK, Typed
<1>2. search'[t] = search[t] /\ UNCHANGED <<meta, archives>>
  BY <1>1 DEF SearchStep, ReadGallery, CacheHit, CacheMiss, LoadHeader, LoadRows,
              CopyArchive, Answer, SearchFails, Moves, Refuses
<1>3. SearchCovered(t) /\ SearchCovered(s)
  BY DEF CoveredInv
<1>4. ASSUME search[t].pc \in Locked PROVE holder' = t /\ database' = database
  <2>1. holder = t /\ t # NoOne
    BY <1>3, <1>4, NoOneAssumption DEF SearchCovered
  <2>2. search[s].pc \notin Locked
    BY <1>3, <2>1 DEF SearchCovered
  <2>3. database' = database
    BY <2>2 DEF SearchStep, ReadGallery, CacheHit, CacheMiss, LoadHeader, LoadRows,
              CopyArchive, Answer, SearchFails, Locked
  <2>4. holder' = holder
    BY <2>1 DEF SearchStep, ReadGallery, CacheHit, CacheMiss, LoadHeader, LoadRows,
              CopyArchive, Answer, SearchFails, Releases
  <2> QED
    BY <2>1, <2>3, <2>4
<1> QED
  BY <1>2, <1>3, <1>4 DEF SearchCovered, Locked

\* A step of search s keeps its own promise, and a cache entry it makes holds
\* what its generation stands for.
LEMMA SearchStaysCovered ==
    ASSUME TypeOK, TypeOK', CoveredInv, NEW s \in Searches, SearchStep(s) \/ SearchFails(s)
    PROVE  SearchCovered(s)' /\ GenerationsCovered'
<1> USE DEF OfServices
<1>1. /\ search \in [Searches -> Search] /\ search[s] \in Search /\ meta \in Meta
      /\ UNCHANGED <<serving, meta, archives, replaces, migrating>>
  BY DEF TypeOK, Typed, SearchStep, ReadGallery, CacheHit, CacheMiss, LoadHeader, LoadRows,
         CopyArchive, Answer, SearchFails
<1>2. /\ search[s].known \in Nat /\ search[s].snap.size \in Nat /\ meta.size \in Nat
      /\ database.size \in Nat /\ cache.vectors.size \in Nat
  BY <1>1 DEF TypeOK, Typed, Search, Meta, Vectors, Cached
<1>3. SearchCovered(s) /\ GenerationsCovered
  BY DEF CoveredInv
<1>4. cache' = cache => GenerationsCovered'
  BY <1>1, <1>3 DEF GenerationsCovered
<1>5. CASE ReadGallery(s)
  <2>1. /\ search'[s].pc = "queued" /\ search'[s].snap = meta
        /\ search'[s].known = search[s].known /\ search'[s].reloading = search[s].reloading
        /\ search[s].pc = "asked" /\ cache' = cache
    BY <1>1, <1>5 DEF ReadGallery, Search
  <2>2. archives[meta.generation].size = meta.size
    BY <1>1, <1>3, <1>5 DEF ReadGallery, SearchReady, GenerationsCovered
  <2> QED
    BY <1>1, <1>2, <1>3, <1>4, <2>1, <2>2 DEF SearchCovered, Locked
<1>6. CASE CacheHit(s)
  <2>1. /\ search'[s].pc = "ranked" /\ search'[s].vectors = cache.vectors
        /\ search'[s].known = search[s].known
        /\ search[s].pc = "queued" /\ cache.generation = search[s].snap.generation
        /\ cache' = cache
    BY <1>1, <1>6 DEF CacheHit, Hits, Search
  <2>2. search[s].pc \in InService /\ search[s].snap.generation \in 1 .. Len(archives)
    BY <2>1 DEF InService, TypeOK, NamesArchives
  <2>3. cache.vectors.size >= archives[search[s].snap.generation].size
    BY <1>3, <2>1, <2>2 DEF GenerationsCovered
  <2>4. cache.vectors.size >= search[s].known
    BY <1>2, <1>3, <2>2, <2>3 DEF SearchCovered
  <2> QED
    BY <1>4, <2>1, <2>4 DEF SearchCovered, InService, Locked
<1>7. CASE CacheMiss(s)
  <2>1. search' = [search EXCEPT ![s] = [search[s] EXCEPT !.pc = "header"]]
        /\ search[s].pc = "queued" /\ holder' = s /\ cache' = cache
    BY <1>7 DEF CacheMiss, Moves
  <2>2. /\ search'[s].pc = "header" /\ search'[s].known = search[s].known
        /\ search'[s].snap = search[s].snap /\ search'[s].reloading = search[s].reloading
    BY <1>1, <2>1 DEF Search
  <2> QED
    BY <1>1, <1>3, <1>4, <2>1, <2>2 DEF SearchCovered, InService
<1>8. ASSUME NEW reason, Refuses(s, reason) PROVE SearchCovered(s)'
  <2>1. search'[s].pc = "refused"
    BY <1>1, <1>8 DEF Refuses, Search
  <2> QED
    BY <2>1 DEF SearchCovered, InService, Locked
<1>9. ASSUME Moves(s, "archive"), search[s].pc \in Locked, holder' = holder
      PROVE  SearchCovered(s)'
  <2>1. /\ search'[s].pc = "archive" /\ search'[s].known = search[s].known
        /\ search'[s].snap = search[s].snap
    BY <1>1, <1>9 DEF Moves, Search
  <2> QED
    BY <1>1, <1>3, <1>9, <2>1 DEF SearchCovered, InService
<1>10. CASE LoadHeader(s)
  <2>1. search[s].pc = "header" /\ search[s].pc \in Locked /\ UNCHANGED <<cache, database>>
    BY <1>10 DEF LoadHeader, Locked
  <2>2. ASSUME search' = [search EXCEPT ![s].pc = "rows", ![s].header = database.size],
               holder' = holder
        PROVE  SearchCovered(s)'
    <3>1. /\ search'[s].pc = "rows" /\ search'[s].known = search[s].known
          /\ search'[s].snap = search[s].snap /\ search'[s].reloading = search[s].reloading
      BY <1>1, <2>2 DEF Search
    <3> QED
      BY <1>1, <1>3, <2>1, <2>2, <3>1 DEF SearchCovered, InService
  <2> QED
    BY <1>4, <1>8, <1>9, <1>10, <2>1, <2>2 DEF LoadHeader
<1>11. CASE LoadRows(s)
  <2>1. /\ search[s].pc = "rows" /\ search[s].pc \in Locked /\ search[s].pc \in InService
        /\ database' = database
    BY <1>11 DEF LoadRows, InService, Locked
  <2>2. CASE Refuses(s, "incomplete") /\ cache' = cache
    BY <1>4, <1>8, <2>2
  <2>3. CASE Moves(s, "archive") /\ UNCHANGED <<holder, cache>>
    BY <1>4, <1>9, <2>1, <2>3
  <2>4. ASSUME search[s].reloading \/ database.size = search[s].snap.size,
               search' = [search EXCEPT ![s].pc = "ranked", ![s].vectors = database],
               cache' = [generation |-> search[s].snap.generation, vectors |-> database]
        PROVE  SearchCovered(s)' /\ GenerationsCovered'
    <3>1. database.size >= search[s].snap.size
      BY <1>2, <1>3, <2>1, <2>4 DEF SearchCovered
    <3>2. /\ search[s].known <= search[s].snap.size
          /\ archives[search[s].snap.generation].size = search[s].snap.size
      BY <1>3, <2>1 DEF SearchCovered
    <3>3. search'[s].pc = "ranked" /\ search'[s].vectors = database
          /\ search'[s].known = search[s].known
      BY <1>1, <2>4 DEF Search
    <3>4. database.size >= search[s].known
      BY <1>2, <3>1, <3>2
    <3>5. SearchCovered(s)'
      BY <3>3, <3>4 DEF SearchCovered, InService, Locked
    <3>6. cache'.vectors.size >= archives[cache'.generation].size
      BY <2>4, <3>1, <3>2
    <3> QED
      BY <1>1, <1>3, <3>5, <3>6 DEF GenerationsCovered
  <2> QED
    BY <1>11, <2>2, <2>3, <2>4 DEF LoadRows
<1>12. CASE CopyArchive(s)
  <2>1. /\ search[s].pc = "archive" /\ search[s].pc \in Locked /\ search[s].pc \in InService
        /\ cache' = cache
    BY <1>12 DEF CopyArchive, InService, Locked
  <2>2. ASSUME database' = archives[search[s].snap.generation], holder' = holder,
               search' = [search EXCEPT ![s].pc = "header", ![s].reloading = TRUE]
        PROVE  SearchCovered(s)'
    <3>1. /\ search'[s].pc = "header" /\ search'[s].known = search[s].known
          /\ search'[s].snap = search[s].snap
      BY <1>1, <2>2 DEF Search
    <3>2. database'.size >= search'[s].snap.size
      BY <1>2, <1>3, <2>1, <2>2, <3>1 DEF SearchCovered
    <3> QED
      BY <1>1, <1>3, <2>1, <2>2, <3>1, <3>2 DEF SearchCovered, InService
  <2> QED
    BY <1>4, <1>8, <1>12, <2>1, <2>2 DEF CopyArchive
<1>13. CASE Answer(s)
  <2>1. /\ search'[s].pc = "answered" /\ search'[s].vectors = search[s].vectors
        /\ search'[s].known = search[s].known /\ search[s].pc = "ranked" /\ cache' = cache
    BY <1>1, <1>13 DEF Answer, Search
  <2> QED
    BY <1>3, <1>4, <2>1 DEF SearchCovered, InService, Locked
<1>14. CASE SearchFails(s)
  BY <1>4, <1>8, <1>14 DEF SearchFails
<1> QED
  BY <1>5, <1>6, <1>7, <1>10, <1>11, <1>12, <1>13, <1>14 DEF SearchStep

\* The steps of Next that no search takes
LEMMA OthersKeepCovered ==
    ASSUME MaxReplaces <= 1, TypeOK, TypeOK', CoveredInv
    PROVE  /\ Import \/ Operate => CoveredInv'
           /\ \A s \in Searches : \A kind \in Kinds : Ask(s, kind) => CoveredInv'
<1>1. /\ search \in [Searches -> Search] /\ meta \in Meta /\ meta.size \in Nat
      /\ archives \in Seq(Vectors) /\ Len(archives) \in Nat /\ GenerationsCovered
      /\ \A s \in Searches : SearchCovered(s)
      /\ NamesArchives
  BY DEF TypeOK, Typed, Meta, CoveredInv
<1>2. ASSUME NEW n \in 1 .. MaxImages, Publish(n) PROVE CoveredInv'
  <2>1. /\ meta' = [generation |-> Len(archives) + 1, size |-> meta.size + n]
        /\ archives' = Append(archives, [encoder |-> encoder, size |-> meta.size + n])
        /\ replaces' = replaces \cup {meta.size + n}
        /\ Cardinality(replaces) < MaxReplaces
        /\ UNCHANGED <<serving, database, cache, holder, search, migrating>> /\ serving
    BY <1>2 DEF Publish
  <2>2. replaces = {}
    <3>1. IsFiniteSet(replaces)
      BY <1>1, FS_Singleton, FS_Subset DEF GenerationsCovered
    <3>2. Cardinality(replaces) \in Nat
      BY <3>1, FS_CardinalityType
    <3>3. Cardinality(replaces) = 0
      BY <2>1, <3>2, BoundsAssumption
    <3> QED
      BY <3>1, <3>3, FS_EmptySet
  <2>3. \A g \in 1 .. Len(archives) : archives'[g] = archives[g]
    BY <1>1, <2>1
  <2>4. archives'[Len(archives) + 1].size = meta.size + n
    BY <1>1, <2>1
  <2>5. migrating = 0
    BY <1>1, <2>1 DEF GenerationsCovered
  <2>6. cache.generation # 0 => archives'[cache.generation] = archives[cache.generation]
    BY <1>1, <2>3 DEF NamesArchives
  <2>7. GenerationsCovered'
    BY <1>1, <2>1, <2>2, <2>4, <2>5, <2>6 DEF GenerationsCovered
  <2>8. meta'.size >= meta.size
    BY <1>1, <2>1
  <2>9. \A s \in Searches : SearchCovered(s)'
    BY <2>1, <2>3, <2>8, OthersKeepSearchCovered
  <2> QED
    BY <2>7, <2>9 DEF CoveredInv
<1>3. ASSUME NEW size \in replaces, ReplaceDatabase(size) \/ ReplaceFails(size)
      PROVE  CoveredInv'
  <2>1. size = meta.size
    BY <1>1 DEF GenerationsCovered
  <2>2. /\ UNCHANGED <<serving, meta, archives, cache, holder, search, migrating>>
        /\ replaces' = replaces \ {size}
        /\ database' = database \/ database'.size >= meta.size
    BY <1>1, <1>3, <2>1 DEF ReplaceDatabase, ReplaceFails
  <2>3. GenerationsCovered'
    BY <1>1, <2>2 DEF GenerationsCovered
  <2>4. \A s \in Searches : SearchCovered(s)'
    BY <1>1, <2>2, OthersKeepSearchCovered
  <2> QED
    BY <2>3, <2>4 DEF CoveredInv
<1>4. ASSUME NEW s \in Searches, NEW kind \in Kinds, Ask(s, kind) PROVE CoveredInv'
  <2>1. /\ search'[s].pc = "asked" /\ search'[s].known = meta.size
        /\ search'[s].reloading = FALSE
        /\ \A t \in Searches \ {s} : search'[t] = search[t]
        /\ UNCHANGED <<serving, meta, archives, database, replaces, cache, holder, migrating>>
    BY <1>1, <1>4 DEF Ask, NewSearch
  <2>2. SearchCovered(s)'
    BY <1>1, <2>1 DEF SearchCovered, InService, Locked
  <2>3. \A t \in Searches \ {s} : SearchCovered(t)'
    BY <1>1, <2>1 DEF SearchCovered
  <2>4. GenerationsCovered'
    BY <1>1, <2>1 DEF GenerationsCovered
  <2> QED
    BY <2>2, <2>3, <2>4 DEF CoveredInv
<1>5. ASSUME NEW pcs, pcs \in {InService, Active}, Forgets(pcs),
             UNCHANGED <<meta, archives, migrating>>, serving, migrating = 0
      PROVE  CoveredInv'
  <2>1. cache'.generation = 0 /\ replaces' = {}
    BY <1>5 DEF Forgets, NotCached
  <2>2. GenerationsCovered'
    BY <1>1, <1>5, <2>1 DEF GenerationsCovered
  <2>3. ASSUME NEW t \in Searches PROVE SearchCovered(t)'
    <3>1. \/ search'[t].pc = "refused"
          \/ search'[t] = search[t] /\ search[t].pc \notin InService
      BY <1>1, <1>5 DEF Forgets, Search, Active
    <3>2. SearchCovered(t)
      BY <1>1
    <3> QED
      BY <1>5, <3>1, <3>2 DEF SearchCovered, InService, Locked
  <2> QED
    BY <2>2, <2>3 DEF CoveredInv
<1>6. CASE ServiceRestart \/ SwitchEncoder
  BY <1>1, <1>5, <1>6 DEF ServiceRestart, SwitchEncoder, GenerationsCovered
<1>7. CASE MigrateSave
  <2>1. /\ archives' = Append(archives, [encoder |-> encoder, size |-> meta.size])
        /\ migrating' = Len(archives) + 1 /\ ~serving
        /\ UNCHANGED <<serving, meta, database, replaces, cache, holder, search>>
    BY <1>7 DEF MigrateSave
  <2>2. \A g \in 1 .. Len(archives) : archives'[g] = archives[g]
    BY <1>1, <2>1
  <2>3. archives'[Len(archives) + 1].size = meta.size
    BY <1>1, <2>1
  <2>4. /\ meta.generation # 0 => archives'[meta.generation] = archives[meta.generation]
        /\ cache.generation # 0 => archives'[cache.generation] = archives[cache.generation]
    BY <1>1, <2>2 DEF NamesArchives
  <2>5. GenerationsCovered'
    BY <1>1, <2>1, <2>3, <2>4 DEF GenerationsCovered
  <2>6. \A s \in Searches : SearchCovered(s)'
    BY <1>1, <2>1, <2>2, OthersKeepSearchCovered
  <2> QED
    BY <2>5, <2>6 DEF CoveredInv
<1>8. CASE MigrateSwitch \/ MigrationDies \/ StartServices
  <2>1. /\ UNCHANGED <<archives, database, replaces, cache, holder, search>>
        /\ meta'.size = meta.size /\ migrating' = 0
        /\ meta'.generation \in {meta.generation, migrating}
    BY <1>1, <1>8 DEF MigrateSwitch, MigrationDies, StartServices, Meta
  <2>2. GenerationsCovered'
    BY <1>1, <2>1 DEF GenerationsCovered
  <2>3. \A s \in Searches : SearchCovered(s)'
    BY <1>1, <2>1, OthersKeepSearchCovered
  <2> QED
    BY <2>2, <2>3 DEF CoveredInv
<1> QED
  BY <1>2, <1>3, <1>4, <1>6, <1>7, <1>8 DEF Import, Operate

\* When every build reaches SQLite before the next one is published, a search
\* ranks all the images that were published when it was asked.
THEOREM NoneMissing ==
    ASSUME MaxReplaces <= 1
    PROVE  Spec => []NothingMissing
<1>1. Init => TypeOK /\ CoveredInv
  BY InitTypes, InitCovered
<1>2. TypeOK /\ CoveredInv /\ [Next]_vars => (TypeOK /\ CoveredInv)'
  <2> SUFFICES ASSUME TypeOK, CoveredInv, [Next]_vars PROVE TypeOK' /\ CoveredInv'
    OBVIOUS
  <2>1. TypeOK'
    BY StepsKeepTypes
  <2>2. ASSUME NEW s \in Searches, SearchStep(s) \/ SearchFails(s) PROVE CoveredInv'
    <3>1. SearchCovered(s)' /\ GenerationsCovered'
      BY <2>1, <2>2, SearchStaysCovered
    <3>2. \A t \in Searches \ {s} : SearchCovered(t)'
      BY <2>2, OtherSearchesStayCovered
    <3> QED
      BY <3>1, <3>2 DEF CoveredInv
  <2>3. CASE UNCHANGED vars
    <3>1. UNCHANGED <<serving, meta, archives, database, replaces, cache, holder, search, migrating>>
      BY <2>3 DEF vars
    <3>2. GenerationsCovered'
      BY <3>1 DEF CoveredInv, GenerationsCovered
    <3>3. \A s \in Searches : SearchCovered(s)'
      BY <3>1 DEF CoveredInv, SearchCovered
    <3> QED
      BY <2>1, <3>2, <3>3 DEF CoveredInv
  <2> QED
    BY <2>1, <2>2, <2>3, OthersKeepCovered DEF Next
<1>3. CoveredInv => NothingMissing
  BY DEF CoveredInv, SearchCovered, NothingMissing
<1> QED
  BY <1>1, <1>2, <1>3, PTL DEF Spec
==============================================================================
