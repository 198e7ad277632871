---------------------------- MODULE GallerySearch ----------------------------
(***************************************************************************)
(* Searching one user gallery while images are imported into it, the ML    *)
(* service restarts, and the encoder is switched and the gallery migrated. *)
(*                                                                         *)
(* A search is answered by two processes.  The backend checks the gallery, *)
(* asks the ML service to rank, and resolves the ranked ids to image URLs. *)
(* The ML service reads meta.json, and under the cache lock takes the      *)
(* vectors from its memory, or from SQLite, or from the archive meta.json  *)
(* names, which it then copies into SQLite.                                *)
(*                                                                         *)
(* GalleryImport shows that a gallery is an append-only sequence of images *)
(* with distinct labels; here a version of it is its length, and a set of  *)
(* vectors is that length and the encoder that made them.                  *)
(***************************************************************************)
EXTENDS Naturals, Sequences, FiniteSets

CONSTANTS
    Searches,      \* searches the clients have open at the same time
    NoOne,         \* nobody, where a search could be
    MinImages,     \* images a gallery needs to be searched (10 in the code)
    MaxImages,     \* bound: images of the gallery
    MaxReplaces,   \* bound: builds that published but did not reach SQLite yet
    MaxSearches,   \* bound: searches asked
    MaxRestarts,   \* bound: restarts of the ML service, and failed migrations
    MaxEncoders    \* bound: encoder versions installed

ASSUME NoOneAssumption == NoOne \notin Searches
ASSUME MinImagesAssumption == MinImages \in Nat \ {0}
ASSUME BoundsAssumption ==
    /\ MaxImages \in Nat
    /\ MaxReplaces \in Nat
    /\ MaxSearches \in Nat
    /\ MaxRestarts \in Nat
    /\ MaxEncoders \in Nat \ {0}

VARIABLES
    serving,    \* the services run; they are stopped to switch the encoder
    encoder,    \* version of the installed encoder
    meta,       \* meta.json: the published generation and how many images it has
    archives,   \* vectors in gallery_NNNN.npz, by generation
    database,   \* vectors of the gallery's namespace in SQLite
    replaces,   \* published sizes whose build has yet to replace them in SQLite
    cache,      \* _gallery_cache: generation and vectors
    holder,     \* the search that holds _gallery_cache_lock
    search,     \* the searches
    migrating,  \* the archive migrate_galleries.py wrote for meta, 0 for none
    searched, restarts

vars == <<serving, encoder, meta, archives, database, replaces, cache, holder,
          search, migrating, searched, restarts>>

------------------------------------------------------------------------------
(* Data *)

Vectors == [encoder : Nat, size : Nat]
NoVectors == [encoder |-> 0, size |-> 0]   \* replace refuses an empty gallery

Meta == [generation : Nat, size : Nat]

Cached == [generation : Nat, vectors : Vectors]
NotCached == [generation |-> 0, vectors |-> NoVectors]

Kinds == {"single", "batch"}

\* Steps of a search: with the backend, in the ML service without and with
\* the cache lock, and over.
Locked == {"header", "rows", "archive"}
InService == {"queued"} \cup Locked
Active == {"asked", "ranked"} \cup InService
Over == {"answered", "refused"}

Reasons == {"none", "incomplete", "encoder", "unavailable"}

Search ==
    [pc : {"idle"} \cup Active \cup Over,
     kind : Kinds,
     known : Nat,         \* images when the backend checked the gallery
     snap : Meta,         \* meta.json as the ML service read it
     header : Nat,        \* item_count of the header load selected
     reloading : BOOLEAN, \* load is called the second time
     vectors : Vectors,   \* what was ranked
     resolved : Nat,      \* images the ranked ids were looked up in
     reason : Reasons]

NewSearch == [pc |-> "idle", kind |-> "single", known |-> 0,
              snap |-> [generation |-> 0, size |-> 0], header |-> 0,
              reloading |-> FALSE, vectors |-> NoVectors, resolved |-> 0,
              reason |-> "none"]

\* public_gallery and the checks of _custom_gallery
SearchReady(m) == m.generation # 0 /\ m.size >= MinImages

Init ==
    /\ serving = TRUE
    /\ encoder = 1
    /\ meta = [generation |-> 0, size |-> 0]
    /\ archives = <<>>
    /\ database = NoVectors
    /\ replaces = {}
    /\ cache = NotCached
    /\ holder = NoOne
    /\ search = [s \in Searches |-> NewSearch]
    /\ migrating = 0
    /\ searched = 0
    /\ restarts = 0

------------------------------------------------------------------------------
(* Imports, as GalleryImport shows them to a search: build_gallery saves an  *)
(* archive and switches meta.json to it, and replaces the vectors in SQLite  *)
(* later, perhaps after the next import was published.                       *)

\* _read_gallery refuses the vectors of another encoder
Readable(generation) == archives[generation].encoder = encoder

\* Mutant: once there is a gallery, SQLite is replaced with the archive that was
\* saved, and the switch of meta.json fails
ReplaceWithoutPublish(n) ==
    /\ serving
    /\ meta.generation # 0 => Readable(meta.generation)
    /\ meta.size + n <= MaxImages
    /\ IF meta.generation = 0
         THEN meta' = [generation |-> Len(archives) + 1, size |-> n] ELSE UNCHANGED meta
    /\ archives' = Append(archives, [encoder |-> encoder, size |-> meta.size + n])
    /\ database' = [encoder |-> encoder, size |-> meta.size + n]
    /\ Len(archives) < MaxImages
    /\ UNCHANGED <<serving, encoder, replaces, cache, holder, search, migrating,
                   searched, restarts>>

Publish(n) ==
    /\ serving
    /\ meta.generation # 0 => Readable(meta.generation)
    /\ meta.size + n <= MaxImages
    /\ Cardinality(replaces) < MaxReplaces
    /\ archives' = Append(archives, [encoder |-> encoder, size |-> meta.size + n])
    /\ meta' = [generation |-> Len(archives) + 1, size |-> meta.size + n]
    /\ replaces' = replaces \cup {meta.size + n}
    /\ UNCHANGED <<serving, encoder, database, cache, holder, search, migrating,
                   searched, restarts>>

ReplaceDatabase(size) ==
    /\ database' = [encoder |-> encoder, size |-> size]
    /\ replaces' = replaces \ {size}
    /\ UNCHANGED <<serving, encoder, meta, archives, cache, holder, search,
                   migrating, searched, restarts>>

\* SQLite is busy for longer than the timeout, or the disk is full
ReplaceFails(size) ==
    /\ replaces' = replaces \ {size}
    /\ UNCHANGED <<serving, encoder, meta, archives, database, cache, holder,
                   search, migrating, searched, restarts>>

------------------------------------------------------------------------------
(* One search.  Only the named fields of the search change in a step.        *)

\* Mutant: the lock is taken and released by hand, not with a context manager
ReleasesUnlessRefused(s) ==
    holder' = IF holder = s /\ search'[s].pc # "refused" THEN NoOne ELSE holder

Releases(s) == holder' = IF holder = s THEN NoOne ELSE holder

Moves(s, pc) == search' = [search EXCEPT ![s].pc = pc]

Refuses(s, reason) ==
    search' = [search EXCEPT ![s].pc = "refused", ![s].reason = reason]

OfServices == <<serving, encoder, archives, replaces, migrating, restarts>>

\* Backend: the gallery is ready, or the client gets 409.  A batch also keeps
\* the images it will resolve the ranked ids with.
Ask(s, kind) ==
    /\ serving
    /\ search[s].pc \in {"idle"} \cup Over
    /\ searched < MaxSearches
    /\ SearchReady(meta)
    /\ search' = [search EXCEPT
           ![s] = [NewSearch EXCEPT !.pc = "asked", !.kind = kind, !.known = meta.size]]
    /\ searched' = searched + 1
    /\ UNCHANGED <<serving, encoder, meta, archives, database, replaces, cache,
                   holder, migrating, restarts>>

\* ML service: meta.json is read before the cache lock is taken
ReadGallery(s) ==
    /\ search[s].pc = "asked"
    /\ SearchReady(meta)
    /\ search' = [search EXCEPT ![s].pc = "queued", ![s].snap = meta]
    /\ UNCHANGED <<OfServices, meta, database, cache, holder, searched>>

\* Mutant: any cached gallery is good enough
HitsAny(s) == cache.generation # 0

Hits(s) == cache.generation = search[s].snap.generation

CacheHit(s) ==
    /\ search[s].pc = "queued" /\ holder = NoOne
    /\ Hits(s)
    /\ search' = [search EXCEPT ![s].pc = "ranked", ![s].vectors = cache.vectors]
    /\ UNCHANGED <<OfServices, meta, database, cache, holder, searched>>

CacheMiss(s) ==
    /\ search[s].pc = "queued" /\ holder = NoOne
    /\ ~Hits(s)
    /\ holder' = s
    /\ Moves(s, "header")
    /\ UNCHANGED <<OfServices, meta, database, cache, searched>>

\* Mutant: the encoder of the stored vectors is not compared
LoadHeaderUnchecked(s) ==
    /\ search[s].pc = "header"
    /\ IF database = NoVectors THEN Moves(s, "archive")
       ELSE search' = [search EXCEPT ![s].pc = "rows", ![s].header = database.size]
    /\ UNCHANGED <<OfServices, meta, database, cache, searched, holder>>

\* load, the first SELECT: no gallery, a gallery of another encoder, or a count
LoadHeader(s) ==
    /\ search[s].pc = "header"
    /\ IF database = NoVectors THEN Moves(s, "archive") /\ UNCHANGED holder
       ELSE IF database.encoder # encoder THEN Refuses(s, "encoder") /\ Releases(s)
       ELSE /\ search' = [search EXCEPT ![s].pc = "rows", ![s].header = database.size]
            /\ UNCHANGED holder
    /\ UNCHANGED <<OfServices, meta, database, cache, searched>>

\* load, the second SELECT, outside of the first one's transaction, and what
\* _custom_gallery does with the rows.  A load after the archive was copied
\* is not compared with meta.json again.
LoadRows(s) ==
    /\ search[s].pc = "rows"
    /\ IF database.size # search[s].header
       THEN Refuses(s, "incomplete") /\ Releases(s) /\ UNCHANGED cache
       ELSE IF ~search[s].reloading /\ database.size # search[s].snap.size
       THEN Moves(s, "archive") /\ UNCHANGED <<holder, cache>>
       ELSE /\ search' = [search EXCEPT ![s].pc = "ranked", ![s].vectors = database]
            /\ cache' = [generation |-> search[s].snap.generation, vectors |-> database]
            /\ Releases(s)
    /\ UNCHANGED <<OfServices, meta, database, searched>>

\* SQLite does not have what meta.json describes: copy the archive into it
CopyArchive(s) ==
    /\ search[s].pc = "archive"
    /\ IF Readable(search[s].snap.generation)
       THEN /\ database' = archives[search[s].snap.generation]
            /\ search' = [search EXCEPT ![s].pc = "header", ![s].reloading = TRUE]
            /\ UNCHANGED holder
       ELSE Refuses(s, "encoder") /\ Releases(s) /\ UNCHANGED database
    /\ UNCHANGED <<OfServices, meta, cache, searched>>

\* Mutant: the metadata read before the ranking resolves a single search too
LookedUpEarly(s) == search[s].known

\* The images the ranked ids are looked up in: a single search reads meta.json
\* again after the ranking, a batch uses what it read before
LookedUp(s) == IF search[s].kind = "single" THEN meta.size ELSE search[s].known

Answer(s) ==
    /\ search[s].pc = "ranked"
    /\ search' = [search EXCEPT ![s].pc = "answered", ![s].resolved = LookedUp(s)]
    /\ UNCHANGED <<OfServices, meta, database, cache, holder, searched>>

\* Bad image, unreadable file, busy database, or an answer that comes too late
SearchFails(s) ==
    /\ search[s].pc \in Active
    /\ Refuses(s, "unavailable")
    /\ Releases(s)
    /\ UNCHANGED <<OfServices, meta, database, cache, searched>>

SearchStep(s) ==
    \/ ReadGallery(s)
    \/ CacheHit(s)
    \/ CacheMiss(s)
    \/ LoadHeader(s)
    \/ LoadRows(s)
    \/ CopyArchive(s)
    \/ Answer(s)

------------------------------------------------------------------------------
(* Restarts, and the switch to another encoder with the services stopped     *)

\* What the ML service keeps in memory, and the requests it works on, are lost
Forgets(pcs) ==
    /\ cache' = NotCached
    /\ holder' = NoOne
    /\ replaces' = {}
    /\ search' = [s \in Searches |->
           IF search[s].pc \in pcs
           THEN [search[s] EXCEPT !.pc = "refused", !.reason = "unavailable"]
           ELSE search[s]]

ServiceRestart ==
    /\ serving
    /\ restarts < MaxRestarts
    /\ restarts' = restarts + 1
    /\ Forgets(InService)
    /\ UNCHANGED <<serving, encoder, meta, archives, database, migrating, searched>>

SwitchEncoder ==
    /\ serving
    /\ encoder < MaxEncoders
    /\ serving' = FALSE
    /\ encoder' = encoder + 1
    /\ Forgets(Active)
    /\ UNCHANGED <<meta, archives, database, migrating, searched, restarts>>

\* migrate_galleries.py, for a gallery whose archive is of another encoder:
\* embed the stored images, save an archive under the next free number
MigrateSave ==
    /\ ~serving /\ migrating = 0
    /\ meta.generation # 0 /\ ~Readable(meta.generation)
    /\ archives' = Append(archives, [encoder |-> encoder, size |-> meta.size])
    /\ migrating' = Len(archives) + 1
    /\ UNCHANGED <<serving, encoder, meta, database, replaces, cache, holder,
                   search, searched, restarts>>

\* ... and switch meta.json to it.  SQLite is left alone.
MigrateSwitch ==
    /\ migrating # 0
    /\ meta' = [meta EXCEPT !.generation = migrating]
    /\ migrating' = 0
    /\ UNCHANGED <<serving, encoder, archives, database, replaces, cache, holder,
                   search, searched, restarts>>

MigrationDies ==
    /\ migrating # 0
    /\ restarts < MaxRestarts
    /\ restarts' = restarts + 1
    /\ migrating' = 0
    /\ UNCHANGED <<serving, encoder, meta, archives, database, replaces, cache,
                   holder, search, searched>>

StartServices ==
    /\ ~serving /\ migrating = 0
    /\ serving' = TRUE
    /\ UNCHANGED <<encoder, meta, archives, database, replaces, cache, holder,
                   search, migrating, searched, restarts>>

------------------------------------------------------------------------------
Import ==
    \/ \E n \in 1 .. MaxImages : Publish(n)
    \/ \E size \in replaces : ReplaceDatabase(size) \/ ReplaceFails(size)

Operate ==
    \/ ServiceRestart
    \/ SwitchEncoder
    \/ MigrateSave
    \/ MigrateSwitch
    \/ MigrationDies
    \/ StartServices

Next ==
    \/ Import
    \/ \E s \in Searches :
           \/ \E kind \in Kinds : Ask(s, kind)
           \/ SearchStep(s)
           \/ SearchFails(s)
    \/ Operate

Spec == Init /\ [][Next]_vars

\* A request that is being answered goes on; nobody has to ask, import, restart
Fairness == \A s \in Searches : WF_vars(SearchStep(s))

FairSpec == Spec /\ Fairness

------------------------------------------------------------------------------
(* Properties *)

Typed ==
    /\ serving \in BOOLEAN
    /\ encoder \in 1 .. MaxEncoders
    /\ meta \in Meta
    /\ archives \in Seq(Vectors)
    /\ database \in Vectors
    /\ replaces \subseteq Nat
    /\ cache \in Cached
    /\ holder \in Searches \cup {NoOne}
    /\ search \in [Searches -> Search]
    /\ migrating \in Nat
    /\ searched \in Nat
    /\ restarts \in Nat

\* A generation number that is in use names an archive
NamesArchives ==
    /\ meta.generation \in 0 .. Len(archives)
    /\ migrating \in 0 .. Len(archives)
    /\ cache.generation \in 0 .. Len(archives)
    /\ \A s \in Searches :
           search[s].pc \in InService => search[s].snap.generation \in 1 .. Len(archives)

\* The type invariant; meta.json and every copy of it name archives that exist.
TypeOK == Typed /\ NamesArchives

\* Every image a single search ranked is one the backend can show, although
\* an import may be published between any two steps of the search.
SingleResolves ==
    \A s \in Searches :
        search[s].pc = "answered" /\ search[s].kind = "single" =>
            search[s].vectors.size <= search[s].resolved

\* The same of a batch, if nothing was published since it was asked: the batch
\* resolves its ids with the images it read before it embeds and ranks, and an
\* import published meanwhile makes it rank images it cannot show.
BatchResolves ==
    [][\A s \in Searches :
           /\ search[s].kind = "batch" /\ search[s].known = meta.size
           /\ search[s].pc = "ranked" /\ search'[s].pc = "answered"
           => search'[s].vectors.size <= search'[s].resolved]_vars

\* A search ranks every image that was published when it was asked, whether
\* its vectors come from memory, SQLite or an archive.  Holds as long as no
\* build is still on its way to SQLite when the next one is published.
NothingMissing ==
    \A s \in Searches :
        search[s].pc = "answered" => search[s].vectors.size >= search[s].known

\* A query is never compared with vectors of another encoder: neither those a
\* search is about to rank nor those kept in memory for the next one.
SameEncoder ==
    /\ cache # NotCached => cache.vectors.encoder = encoder
    /\ \A s \in Searches :
           search[s].pc = "ranked" => search[s].vectors.encoder = encoder

\* A search is not refused for vectors that are being replaced by an import;
\* it is: load reads the count and the rows in two transactions.
NeverTorn == \A s \in Searches : search[s].reason # "incomplete"

\* A gallery whose archive is of the installed encoder, migrated or built with
\* it, is not refused as one of another encoder; it is, when SQLite was left.
MigratedIsSearchable ==
    [][\A s \in Searches :
           search[s].reason # "encoder" /\ search'[s].reason = "encoder" =>
               ~Readable(search[s].snap.generation)]_vars

\* Every search is answered or refused: the cache lock is released on every
\* path, errors included.
SearchEnds ==
    \A s \in Searches : search[s].pc \in Active ~> search[s].pc \in Over
==============================================================================
