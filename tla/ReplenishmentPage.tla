-------------------------- MODULE ReplenishmentPage --------------------------
(***************************************************************************)
(* The page of uploaded files.  Its list is changed in place by uploads,   *)
(* which put an item before they are answered, and by deletes, and is      *)
(* replaced by what the backend lists when the page was loaded and after   *)
(* every archive.  Items are objects: one that was replaced is another     *)
(* object than the one a handler holds.                                    *)
(***************************************************************************)
EXTENDS Naturals, SequencesExt

CONSTANTS
    MaxPending,     \* bound: files uploaded
    MaxArchives,    \* bound: archives uploaded
    MaxDeletes,     \* bound: clicks on delete
    MaxLosses       \* bound: answers that do not arrive

VARIABLES
    files, lastFile,    \* ids of the backend's rows, and the last one given
    items,              \* the list: objects, told by the upload or the listing
                        \* they come from
    pending,            \* uploadFile, by file: where it is, and the id it got
    listings,           \* loadExistingEntries, by archive (0: the load of the page)
    deletes,            \* deleteFile, by click: where it is, its object and id
    crossed,            \* a listing went on beside an upload, a delete or a listing
    lost                \* answers that did not arrive

vars == <<files, lastFile, items, pending, listings, deletes, crossed, lost>>

Uploads == 1..MaxPending
Listings == 0..MaxArchives
Deletes == 1..MaxDeletes

UploadItem(u) == [from |-> "upload", n |-> u, id |-> 0]
ListedItem(n, id) == [from |-> "listing", n |-> n, id |-> id]
IdOf(item) == IF item.from = "upload" THEN pending[item.n].id ELSE item.id

Init ==
    /\ files \in {{}, {1}} /\ lastFile = 1
    /\ items = <<>>
    /\ pending = [u \in Uploads |-> [at |-> "new", id |-> 0, stored |-> 0]]
    /\ listings = [n \in Listings |->
                      [at |-> IF n = 0 THEN "asking" ELSE "new", ids |-> {}]]
    /\ deletes = [d \in Deletes |-> [at |-> "new", item |-> UploadItem(0), id |-> 0]]
    /\ crossed = FALSE /\ lost = 0

Backend == <<files, lastFile>>
ListingUnderWay == \E n \in Listings : listings[n].at \in {"asking", "read"}
ChangeUnderWay ==
    \/ \E u \in Uploads : pending[u].at \in {"sent", "stored"}
    \/ \E d \in Deletes : deletes[d].at \in {"sent", "deleted"}

Lost == lost < MaxLosses /\ lost' = lost + 1

------------------------------------------------------------------------------
(* uploadFile *)

Upload(u) ==
    /\ pending[u].at = "new" /\ \A v \in 1..(u - 1) : pending[v].at # "new"
    /\ pending' = [pending EXCEPT ![u].at = "sent"]
    /\ items' = <<UploadItem(u)>> \o items
    /\ crossed' = (crossed \/ ListingUnderWay)
    /\ UNCHANGED <<Backend, listings, deletes, lost>>

Stores(u) ==
    /\ pending[u].at = "sent"
    /\ lastFile' = lastFile + 1 /\ files' = files \cup {lastFile'}
    /\ pending' = [pending EXCEPT ![u].at = "stored", ![u].stored = lastFile']
    /\ UNCHANGED <<items, listings, deletes, crossed, lost>>

\* The object in the list, if it is still there, gets the id
Stored(u) ==
    /\ pending[u].at = "stored"
    /\ pending' = [pending EXCEPT ![u].at = "saved", ![u].id = pending[u].stored]
    /\ UNCHANGED <<Backend, items, listings, deletes, crossed, lost>>

\* The file is refused; its item stays, with an error
Refused(u) ==
    /\ pending[u].at = "sent"
    /\ pending' = [pending EXCEPT ![u].at = "error"]
    /\ UNCHANGED <<Backend, items, listings, deletes, crossed, lost>>

UploadLost(u) ==
    /\ pending[u].at = "stored" /\ Lost
    /\ pending' = [pending EXCEPT ![u].at = "error"]
    /\ UNCHANGED <<Backend, items, listings, deletes, crossed>>

------------------------------------------------------------------------------
(* loadExistingEntries and uploadArchive *)

\* An archive was stored; its listing is asked for
Archive(n) ==
    /\ n > 0 /\ listings[n].at = "new" /\ \A m \in 1..(n - 1) : listings[m].at # "new"
    /\ lastFile' = lastFile + 1 /\ files' = files \cup {lastFile'}
    /\ listings' = [listings EXCEPT ![n].at = "asking"]
    /\ crossed' = (crossed \/ ListingUnderWay \/ ChangeUnderWay)
    /\ UNCHANGED <<items, pending, deletes, lost>>

Lists(n) ==
    /\ listings[n].at = "asking"
    /\ listings' = [listings EXCEPT ![n] = [at |-> "read", ids |-> files]]
    /\ UNCHANGED <<Backend, items, pending, deletes, crossed, lost>>

\* Mutant: what was listed is put before what the list shows
ListedAppending(n) ==
    /\ listings[n].at = "read"
    /\ listings' = [listings EXCEPT ![n].at = "done"]
    /\ items' = [i \in 1..Cardinality(listings[n].ids) |->
                    ListedItem(n, SetToSeq(listings[n].ids)[i])] \o items
    /\ UNCHANGED <<Backend, pending, deletes, crossed, lost>>

\* The list is replaced; items that wait for their answer are dropped
Listed(n) ==
    /\ listings[n].at = "read"
    /\ listings' = [listings EXCEPT ![n].at = "done"]
    /\ items' = [i \in 1..Cardinality(listings[n].ids) |->
                    ListedItem(n, SetToSeq(listings[n].ids)[i])]
    /\ UNCHANGED <<Backend, pending, deletes, crossed, lost>>

ListingLost(n) ==
    /\ listings[n].at = "read" /\ Lost
    /\ listings' = [listings EXCEPT ![n].at = "done"]
    /\ UNCHANGED <<Backend, items, pending, deletes, crossed>>

------------------------------------------------------------------------------
(* deleteFile *)

Delete(d) ==
    /\ deletes[d].at = "new" /\ \A e \in 1..(d - 1) : deletes[e].at # "new"
    /\ \E i \in DOMAIN items :
        deletes' = [deletes EXCEPT ![d] = [at |-> "sent", item |-> items[i], id |-> IdOf(items[i])]]
    /\ crossed' = (crossed \/ ListingUnderWay)
    /\ UNCHANGED <<Backend, items, pending, listings, lost>>

\* An item without an id, or one that was deleted, is refused
Serves(d) ==
    /\ deletes[d].at = "sent"
    /\ files' = files \ {deletes[d].id}
    /\ deletes' = [deletes EXCEPT ![d].at = IF deletes[d].id \in files THEN "deleted" ELSE "done"]
    /\ UNCHANGED <<lastFile, items, pending, listings, crossed, lost>>

\* items.splice(items.indexOf(item), 1): without the item in the list the index
\* is -1, and the last one is taken away
Without(item) ==
    IF item \in ToSet(items)
        THEN RemoveAt(items, CHOOSE i \in DOMAIN items : items[i] = item)
        ELSE IF items = <<>> THEN items ELSE Front(items)

Deleted(d) ==
    /\ deletes[d].at = "deleted"
    /\ deletes' = [deletes EXCEPT ![d].at = "done"]
    /\ items' = Without(deletes[d].item)
    /\ UNCHANGED <<Backend, pending, listings, crossed, lost>>

DeleteLost(d) ==
    /\ deletes[d].at = "deleted" /\ Lost
    /\ deletes' = [deletes EXCEPT ![d].at = "done"]
    /\ UNCHANGED <<Backend, items, pending, listings, crossed>>

------------------------------------------------------------------------------
Next ==
    \/ \E u \in Uploads : Upload(u) \/ Stores(u) \/ Stored(u) \/ Refused(u) \/ UploadLost(u)
    \/ \E n \in Listings : Archive(n) \/ Lists(n) \/ Listed(n) \/ ListingLost(n)
    \/ \E d \in Deletes : Delete(d) \/ Serves(d) \/ Deleted(d) \/ DeleteLost(d)

Spec == Init /\ [][Next]_vars

------------------------------------------------------------------------------
(* Properties *)

TypeOK ==
    /\ files \subseteq 1..lastFile /\ lastFile \in 1..(1 + MaxPending + MaxArchives)
    /\ \A i \in DOMAIN items : IdOf(items[i]) \in 0..lastFile
    /\ \A u \in Uploads : pending[u].at \in {"new", "sent", "stored", "saved", "error"}
    /\ \A n \in Listings : listings[n].at \in {"new", "asking", "read", "done"}
    /\ \A d \in Deletes : deletes[d].at \in {"new", "sent", "deleted", "done"}
    /\ crossed \in BOOLEAN /\ lost \in 0..MaxLosses

\* When nothing is under way the list shows the files of the backend, each once,
\* however uploads, deletes and archives followed each other: unless an answer
\* was lost, or a listing went on beside one of them.
ListTruth ==
    ~ ListingUnderWay /\ ~ ChangeUnderWay /\ ~ crossed /\ lost = 0 =>
        /\ {IdOf(item) : item \in ToSet(items)} \ {0} = files
        /\ \A i, j \in DOMAIN items :
              IdOf(items[i]) = IdOf(items[j]) => i = j \/ IdOf(items[i]) = 0
==============================================================================
