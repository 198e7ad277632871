-------------------------- MODULE MCOrganizerExport --------------------------
(* A small instance of OrganizerExport for TLC.  Two families of inputs: the *)
(* forms an input may take, under one set of scores, and one input under all *)
(* scores of a gallery of four.                                              *)
EXTENDS OrganizerExport, TLC

CONSTANTS a, b, c, d, e, f   \* image ids

MCIds == {a, b, c, d, e, f}

\* A booster that breaks the order when a cosine is repeated after a fall
MCBooster(sorted) ==
    [r \in 1 .. TopK |-> IF r = 1 \/ sorted[r] = sorted[r - 1] THEN 1 ELSE 0]

Csv(ids, bom, spaced, badBox) == [ids |-> ids, bom |-> bom, spaced |-> spaced, badBox |-> badBox]
Plain(ids) == Csv(ids, FALSE, {}, FALSE)

Galleries == {Plain(<<a, b, c, d>>), Csv(<<a, b, c, d>>, TRUE, {}, FALSE),
              Csv(<<d, b, c, a>>, FALSE, {b}, FALSE), Csv(<<a, b, c, d>>, TRUE, {d}, FALSE),
              Plain(<<a, b, c>>), Plain(<<a, b, a, d>>), Csv(<<a, b, c>>, FALSE, {}, TRUE)}
Queries == {Plain(<<e, f>>), Plain(<<e>>), Csv(<<f, e>>, TRUE, {}, FALSE), Plain(<<e, d>>)}
Images == {[gallery |-> <<a, b, c, d>>, query |-> <<e, f>>],
           [gallery |-> <<c, b, a>>, query |-> <<f>>],
           [gallery |-> <<a, b, c, d, e, f>>, query |-> <<e, f, d>>],
           [gallery |-> <<a, b, b, c>>, query |-> <<e, f>>]}

\* Scores of the first four ids: a best cosine of two, and cohorts with many ties
Four == {a, b, c, d}
Scores == {x \in [Four -> 0 .. 2] : \E i \in Four : x[i] = 2}
Rates(p, q, r, s) == (a :> p) @@ (b :> q) @@ (c :> r) @@ (d :> s)
Ranked == [Four -> 0 .. 1] \cup {Rates(0, 1, 2, 3), Rates(2, 3, 0, 1)}
All(y) == [i \in MCIds |-> IF i \in DOMAIN y THEN y[i] ELSE 0]
SomeScores == [raw |-> Rates(2, 0, 1, 2), scores |-> Rates(0, 1, 2, 1)]

Call(kind, gallery, query, images, partial, limit, s) ==
    [kind |-> kind, csv |-> [gallery |-> gallery, query |-> query], images |-> images,
     partial |-> partial, limit |-> limit, raw |-> All(s.raw), scores |-> All(s.scores)]

Kinds == {"zip", "directory", "components"}
\* A directory has no name twice
Forms == {x \in {Call(kind, g, q, i, p, l, SomeScores) :
                    kind \in Kinds, g \in Galleries, q \in Queries,
                    i \in Images, p \in BOOLEAN, l \in {0, 3}} :
             x.kind = "directory" => NoRepeat(x.images["gallery"])}
RankingOf(query, x, y) ==
    Call("zip", Plain(<<a, b, c, d>>), Plain(query),
         [gallery |-> <<a, b, c, d, e, f>>, query |-> <<>>], FALSE, 0, [raw |-> x, scores |-> y])
Rankings == {RankingOf(<<e, f>>, x, y) : x \in Scores, y \in Ranked}
              \cup {RankingOf(<<e>>, x, SomeScores.scores) : x \in Scores}
MCInputs == Forms \cup Rankings
==============================================================================
