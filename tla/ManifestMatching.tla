--------------------------- MODULE ManifestMatching --------------------------
(***************************************************************************)
(* Which row of a BBox table belongs to an image.  The rule is written     *)
(* twice: the backend matches the manifest of an import and of a batch,    *)
(* and the page matches before it sends a batch.                           *)
(*                                                                         *)
(* A name is a path without regard to case: its folders, and the stem and  *)
(* the extension of its last part.  The names of a table do not repeat.    *)
(***************************************************************************)
EXTENDS Naturals, Sequences

Base(name) == <<name.stem, name.ext>>
Bare(name) == [name EXCEPT !.dir = <<>>]

\* The name without its first n folders
From(name, n) == [name EXCEPT !.dir = SubSeq(@, n + 1, Len(@))]

\* The longest proper suffix of the path that has a row, the last part alone
\* left out
PathSuffix(name, table) ==
    LET hits == {n \in 1..(Len(name.dir) - 1) : From(name, n) \in table}
    IN IF hits = {} THEN {} ELSE {From(name, CHOOSE n \in hits : \A m \in hits : n <= m)}

SameBase(name, table) == {row \in table : Base(row) = Base(name)}
SameStem(name, table) == {row \in table : row.stem = name.stem}

FirstNonempty(a, b) == IF a # {} THEN a ELSE b

\* _match_manifest_rows: the whole name, a suffix of its path, its last part,
\* its stem
ServerCandidates(name, table) ==
    FirstNonempty({name} \cap table,
    FirstNonempty(PathSuffix(name, table),
    FirstNonempty(SameBase(name, table), SameStem(name, table))))

\* Mutant: the stem is tried before the last part of the path
PageStemFirst(name, table) ==
    FirstNonempty({name} \cap table,
    FirstNonempty(PathSuffix(name, table),
    FirstNonempty({Bare(name)} \cap table,
    FirstNonempty(SameStem(name, table), SameBase(name, table)))))

\* matchRows: the same, and a row that is the last part alone before all rows
\* that end with it
PageCandidates(name, table) ==
    FirstNonempty({name} \cap table,
    FirstNonempty(PathSuffix(name, table),
    FirstNonempty({Bare(name)} \cap table,
    FirstNonempty(SameBase(name, table), SameStem(name, table)))))

ExactlyOne(rows) == \E row \in rows : rows = {row}

\* Exactly one row for every image, and no row for two
Matches(candidates) ==
    /\ \A n \in DOMAIN candidates : ExactlyOne(candidates[n])
    /\ \A m, n \in DOMAIN candidates : candidates[m] = candidates[n] => m = n

RowOf(candidates) == CHOOSE row \in candidates : TRUE

ServerAccepts(names, table) == Matches([n \in names |-> ServerCandidates(n, table)])
PageAccepts(names, table) == Matches([n \in names |-> PageCandidates(n, table)])

------------------------------------------------------------------------------
(* Properties *)

\* What the backend accepts the page accepts too, with the same rows; what the
\* page accepts and the backend refuses has an image in a folder, a row that is
\* its bare name, and another row that ends with it.  The page never sends a
\* batch that the backend would read with other boxes.
Agree(names, table) ==
    /\ ServerAccepts(names, table) =>
           \A n \in names : PageCandidates(n, table) = ServerCandidates(n, table)
    /\ PageAccepts(names, table) /\ ~ ServerAccepts(names, table) =>
           \E n \in names : n # Bare(n) /\ Bare(n) \in table
                            /\ \E row \in table \ {Bare(n)} : Base(row) = Base(n)
==============================================================================
