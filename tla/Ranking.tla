------------------------------- MODULE Ranking -------------------------------
(***************************************************************************)
(* How a query is answered once its similarities are known: three          *)
(* implementations of one rule.  The export ranks by the scores of the     *)
(* cohort (AQE) and refuses by the raw cosine; the ML service answers a    *)
(* batch the same way and a single query by the raw cosine alone.          *)
(*                                                                         *)
(* Scores are whole numbers here; a vector of them is a sequence, one for  *)
(* each record of the gallery.  The booster is any function of the sorted  *)
(* cosines.                                                                *)
(***************************************************************************)
EXTENDS Integers, Sequences, FiniteSets

CONSTANTS
    TopK,         \* candidates that are ranked and judged (10)
    Preserved,    \* the first of them need no booster (3)
    Threshold,    \* of the raw cosine
    Booster(_),   \* its score of each of the sorted cosines
    BoosterThreshold

ASSUME TopKAssumption == TopK \in Nat \ {0} /\ Preserved \in Nat /\ Threshold \in Int

Elements(s) == {s[i] : i \in DOMAIN s}
Prefix(s, n) == IF n = 0 \/ n > Len(s) THEN s ELSE SubSeq(s, 1, n)

\* np.argsort(-scores, kind="stable"): positions, best first, ties in order
Place(scores, i) ==
    Cardinality({j \in DOMAIN scores : \/ scores[j] > scores[i]
                                       \/ scores[j] = scores[i] /\ j <= i})
Order(scores) ==
    [place \in DOMAIN scores |-> CHOOSE i \in DOMAIN scores : Place(scores, i) = place]

Best(scores, k) == SubSeq(Order(scores), 1, k)

\* policy.accepted on cosines in descending order: one Boolean for each
Accepted(sorted) ==
    [r \in 1 .. TopK |-> /\ sorted[r] >= Threshold
                         /\ r <= Preserved \/ Booster(sorted)[r] >= BoosterThreshold]

\* What the policy demands of its booster, or it raises
PolicyAnswers(sorted) ==
    \A r \in 2 .. TopK : /\ Booster(sorted)[r] <= Booster(sorted)[r - 1]
                         /\ Accepted(sorted)[r] => Accepted(sorted)[r - 1]

Sorted(cosines) == [r \in 1 .. TopK |-> cosines[Order(cosines)[r]]]
Cosines(raw, ranked) == [r \in 1 .. TopK |-> raw[ranked[r]]]

\* Mutant: what is accepted in cosine order is taken to be in ranked order
JudgeUnrestored(raw, ranked) ==
    Accepted(Sorted(Cosines(raw, ranked)))

\* raw_top_scores, sorted for the policy, and the verdicts put back in the
\* order the candidates were ranked in
Judge(raw, ranked) ==
    LET cosines == Cosines(raw, ranked)
        order == Order(cosines)
        verdict == Accepted(Sorted(cosines))
    IN  [r \in 1 .. TopK |-> \E place \in 1 .. TopK : order[place] = r /\ verdict[place]]

\* The members of a ranking for which test holds, in its order
Keep(ranked, test) ==
    LET kept[n \in 0 .. Len(ranked)] ==
            IF n = 0 THEN <<>>
            ELSE IF ranked[n] \in test THEN Append(kept[n - 1], ranked[n])
            ELSE kept[n - 1]
    IN  kept[Len(ranked)]

\* One query of export: a row of submission.csv and its rows of candidates.csv
ExportRow(raw, scores) ==
    LET ranked == Best(scores, TopK)
        verdict == Judge(raw, ranked)
    IN  [ranked |-> ranked,
         accepted |-> Keep(ranked, {ranked[r] : r \in {p \in 1 .. TopK : verdict[p]}})]

\* Mutant: the first of the cohort's order are judged as if they were the
\* first of the cosine's
BatchUnsorted(raw, scores, topk) ==
    LET internal == Best(scores, TopK)
        verdict == Accepted(Cosines(raw, internal))
        visible == SubSeq(Order(scores), 1, topk)
    IN  [ranked |-> visible,
         accepted |-> Keep(visible, {internal[r] : r \in {p \in 1 .. TopK : verdict[p]}})]

\* One query of search_batch in its cohort; topk is how many the client sees
BatchAnswer(raw, scores, topk) ==
    LET internal == Best(scores, TopK)
        cosines == Cosines(raw, internal)
        order == Order(cosines)
        verdict == Accepted(Sorted(cosines))
        ids == {internal[order[place]] : place \in {p \in 1 .. TopK : verdict[p]}}
        visible == SubSeq(Order(scores), 1, topk)
    IN  [ranked |-> visible, accepted |-> Keep(visible, ids)]

\* search: the raw cosine ranks and judges
SearchAnswer(raw, topk) ==
    LET verdict == Accepted(Sorted(raw))
        ids == {Order(raw)[r] : r \in {p \in 1 .. TopK : verdict[p]}}
        visible == SubSeq(Order(raw), 1, topk)
    IN  [ranked |-> visible, accepted |-> Keep(visible, ids)]
==============================================================================
