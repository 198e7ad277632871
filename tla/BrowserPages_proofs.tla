-------------------------- MODULE BrowserPages_proofs -------------------------
(***************************************************************************)
(* Safety of the pages, for all their inputs and bounds: the rule that     *)
(* pairs images with the rows of a table, the batch search, the search     *)
(* with one image, the checks and downloads of the export, the polls of    *)
(* the gallery, the list of uploaded files, and the types of all of them.  *)
(***************************************************************************)
EXTENDS BrowserPages, FiniteSetTheorems, SequenceTheorems, TLAPS

\* The bare name keeps stem and extension.
LEMMA BareKeepsBase ==
    ASSUME NEW name, IsName(name)
    PROVE  Many!Base(Many!Bare(name)) = Many!Base(name)
  BY DEF IsName, Many!Base, Many!Bare

\* The two rules differ only for an image whose bare name has a row, and
\* another row ends with it.
LEMMA CandidatesDiffer ==
    ASSUME NEW name, IsName(name), NEW table,
           Many!PageCandidates(name, table) # Many!ServerCandidates(name, table)
    PROVE  /\ name # Many!Bare(name) /\ Many!Bare(name) \in table
           /\ Many!ServerCandidates(name, table) = Many!SameBase(name, table)
           /\ \E row \in table \ {Many!Bare(name)} : Many!Base(row) = Many!Base(name)
<1>1. {name} \cap table = {} /\ Many!Bare(name) \in table
  BY DEF Many!PageCandidates, Many!ServerCandidates, Many!FirstNonempty
<1>2. Many!Bare(name) \in Many!SameBase(name, table)
  BY <1>1, BareKeepsBase DEF Many!SameBase
<1>3. Many!ServerCandidates(name, table) = Many!SameBase(name, table)
  BY <1>1, <1>2 DEF Many!PageCandidates, Many!ServerCandidates, Many!FirstNonempty
<1>4. Many!PageCandidates(name, table) = {Many!Bare(name)}
  BY <1>1, <1>2 DEF Many!PageCandidates, Many!ServerCandidates, Many!FirstNonempty
<1>5. PICK row \in Many!SameBase(name, table) : row # Many!Bare(name)
  BY <1>2, <1>3, <1>4
<1> QED
  BY <1>1, <1>3, <1>5 DEF Many!SameBase

\* Page and backend agree about any images and any table.
LEMMA RulesAgree ==
    ASSUME NEW names, \A n \in names : IsName(n), NEW table
    PROVE  Many!Agree(names, table)
<1> DEFINE Same(n) == Many!PageCandidates(n, table) = Many!ServerCandidates(n, table)
<1>1. ASSUME Many!ServerAccepts(names, table), NEW n \in names PROVE Same(n)
  <2> SUFFICES ASSUME ~ Same(n) PROVE FALSE
    OBVIOUS
  <2>1. Many!ExactlyOne(Many!SameBase(n, table))
    BY <1>1, CandidatesDiffer DEF Many!ServerAccepts, Many!Matches
  <2>2. PICK row \in table \ {Many!Bare(n)} : Many!Base(row) = Many!Base(n)
    BY CandidatesDiffer
  <2>3. {row, Many!Bare(n)} \subseteq Many!SameBase(n, table)
    BY <2>2, CandidatesDiffer, BareKeepsBase DEF Many!SameBase
  <2> QED
    BY <2>1, <2>2, <2>3 DEF Many!ExactlyOne
<1>2. ASSUME Many!PageAccepts(names, table), ~ Many!ServerAccepts(names, table)
      PROVE  \E n \in names :
                n # Many!Bare(n) /\ Many!Bare(n) \in table
                /\ \E row \in table \ {Many!Bare(n)} : Many!Base(row) = Many!Base(n)
  <2>1. PICK n \in names : ~ Same(n)
    <3> SUFFICES ASSUME \A n \in names : Same(n) PROVE FALSE
      OBVIOUS
    <3>1. [n \in names |-> Many!PageCandidates(n, table)]
            = [n \in names |-> Many!ServerCandidates(n, table)]
      OBVIOUS
    <3> QED
      BY <1>2, <3>1 DEF Many!PageAccepts, Many!ServerAccepts
  <2> QED
    BY <2>1, CandidatesDiffer
<1> QED
  BY <1>1, <1>2 DEF Many!Agree

------------------------------------------------------------------------------
\* A choice of images is a sequence of names.
LEMMA NamesChosen ==
    ASSUME NEW names \in Selections \cup {<<>>}
    PROVE  /\ names \in Seq({names[j] : j \in DOMAIN names})
           /\ \A j \in DOMAIN names : IsName(names[j])
<1>1. CASE names = <<>>
  <2>1. DOMAIN <<>> = {} /\ \A S : <<>> \in Seq(S)
    BY EmptySeq
  <2> QED
    BY <1>1, <2>1
<1>2. CASE names \in Selections
  BY <1>2, NamesAssumption
<1> QED
  BY <1>1, <1>2

\* What the user chose.
Chosen == images \in Selections \cup {<<>>} /\ csv \in Csvs \cup {NoCsv}

\* Only choices change it.
LEMMA StepsKeepChosen == Chosen /\ [Next]_vars => Chosen'
<1> SUFFICES ASSUME Chosen, [Next]_vars PROVE Chosen'
  OBVIOUS
<1> USE DEF Chosen
<1>1. CASE UNCHANGED <<images, csv>>
  BY <1>1
<1>2. ASSUME Many!ChooseImages PROVE Chosen'
  BY <1>2 DEF Many!ChooseImages
<1>3. ASSUME Many!ChooseCsv PROVE Chosen'
  BY <1>3 DEF Many!ChooseCsv
<1> QED
  BY <1>1, <1>2, <1>3
     DEF Next, vars, ofMany, Many!Next, Many!Inputs, Many!Parsed, Many!Click, Many!Send,
         Many!NotSent, Many!Serve, Many!Refuse, Many!Show, Many!ShowRefusal

\* The batch page and the backend read every table the same way: whatever the
\* user chose, nothing is searched with another box than the page shows.
THEOREM TablesReadAlike == Spec => []MatchAgrees
<1>1. Init => Chosen
  BY DEF Init, Many!Init, Chosen
<1>2. Chosen => MatchAgrees
  <2> SUFFICES ASSUME Chosen, csv # NoCsv PROVE Many!Agree(Many!Elements(images), csv)
    BY DEF MatchAgrees, Many!MatchAgrees
  <2>1. \A n \in Many!Elements(images) : IsName(n)
    BY NamesChosen DEF Chosen, Many!Elements
  <2> QED
    BY <2>1, RulesAgree
<1> QED
  BY <1>1, <1>2, StepsKeepChosen, PTL DEF Spec

Rank(valid, i) == Many!Cardinality({m \in valid : m <= i})

\* Members of a finite set of numbers have different ranks in it.
LEMMA RanksDiffer ==
    ASSUME NEW n \in Nat, NEW valid \in SUBSET (1..n), NEW i \in valid
    PROVE  /\ Many!Cardinality(valid) = Cardinality(valid) /\ Cardinality(valid) \in Nat
           /\ Rank(valid, i) \in 1..Cardinality(valid)
           /\ \A j \in valid : Rank(valid, j) = Rank(valid, i) => j = i
<1> DEFINE Upto(j) == {m \in valid : m <= j}
<1>1. \A S : Many!Cardinality(S) = Cardinality(S)
  BY DEF Many!Cardinality, Cardinality
<1>2. IsFiniteSet(valid)
  <2>1. IsFiniteSet(1..n)
    BY FS_Interval
  <2> QED
    BY <2>1, FS_Subset
<1>3. \A j : Upto(j) \in SUBSET valid /\ Rank(valid, j) = Cardinality(Upto(j))
  BY <1>1 DEF Rank
<1> HIDE DEF Upto
<1>4. \A j : IsFiniteSet(Upto(j)) /\ Cardinality(Upto(j)) <= Cardinality(valid)
             /\ Cardinality(Upto(j)) \in Nat
  BY <1>2, <1>3, FS_Subset, FS_CardinalityType
<1>5. Cardinality(valid) \in Nat
  BY <1>2, FS_CardinalityType
<1>6. i \in Upto(i)
  BY DEF Upto
<1>7. Cardinality(Upto(i)) # 0
  BY <1>4, <1>6, FS_EmptySet
<1>8. \A j, k \in valid : j < k => Upto(j) \in SUBSET Upto(k) /\ k \notin Upto(j) /\ k \in Upto(k)
  <2> SUFFICES ASSUME NEW j \in valid, NEW k \in valid, j < k
               PROVE  Upto(j) \in SUBSET Upto(k) /\ k \notin Upto(j) /\ k \in Upto(k)
    OBVIOUS
  <2>1. j \in Nat /\ k \in Nat /\ \A m \in valid : m \in Nat
    OBVIOUS
  <2>2. ~ (k <= j) /\ k <= k /\ \A m \in valid : m <= j => m <= k
    BY <2>1
  <2> QED
    BY <2>2 DEF Upto
<1>9. \A j, k \in valid : j < k => Cardinality(Upto(j)) # Cardinality(Upto(k))
  <2> SUFFICES ASSUME NEW j \in valid, NEW k \in valid, j < k, Cardinality(Upto(j)) = Cardinality(Upto(k))
               PROVE  FALSE
    OBVIOUS
  <2>1. Upto(j) = Upto(k)
    BY <1>4, <1>8, FS_Subset
  <2> QED
    BY <1>8, <2>1
<1>10. ASSUME NEW j \in valid, Rank(valid, j) = Rank(valid, i) PROVE j = i
  <2>1. Cardinality(Upto(j)) = Cardinality(Upto(i))
    BY <1>3, <1>10
  <2>2. ~ (j < i) /\ ~ (i < j)
    BY <1>9, <2>1
  <2> QED
    BY <2>2
<1>11. Rank(valid, i) \in 1..Cardinality(valid)
  BY <1>3, <1>4, <1>5, <1>7
<1> QED
  BY <1>1, <1>5, <1>10, <1>11

QueryOf(names, table, i) ==
    <<[image |-> names[i], box |-> Many!Box(table, Many!RowOf(Many!ServerCandidates(names[i], table)))]>>

\* The answer at each position of a reply is that to the image there, or an error,
\* whichever of the images were ranked together.
LEMMA RepliesAreBeside ==
    ASSUME NEW S, NEW names \in Seq(S), NEW table, NEW valid \in SUBSET DOMAIN names
    PROVE  /\ Len(Many!Reply(names, table, valid)) = Len(names)
           /\ \A i \in DOMAIN names :
                 Many!Reply(names, table, valid)[i]
                     = IF i \in valid THEN QueryOf(names, table, i) ELSE Many!Failed
<1> DEFINE n == Len(names)
           c == Many!Cardinality(valid)
           Nth(k) == CHOOSE i \in valid : Rank(valid, i) = k
           ranked == [k \in 1..c |-> QueryOf(names, table, Nth(k))]
           At(i) == Many!Position(names, valid, i)
           reply == [i \in DOMAIN names |->
                        IF i \in valid /\ At(i) \in DOMAIN ranked THEN ranked[At(i)] ELSE Many!Failed]
<1>1. n \in Nat /\ DOMAIN names = 1..n /\ valid \in SUBSET (1..n)
  BY LenProperties
<1>2. Many!Reply(names, table, valid) = reply
  BY DEF Many!Reply, QueryOf, Rank
<1>3. \A i \in 1..n : At(i) = Rank(valid, i)
  <2> SUFFICES ASSUME NEW i \in 1..n PROVE At(i) = Rank(valid, i)
    OBVIOUS
  <2>1. {k \in 1..i : k \in valid} = {m \in valid : m <= i}
    BY <1>1
  <2> QED
    BY <2>1 DEF Many!Position, Rank
<1>4. \A i \in valid : Rank(valid, i) \in 1..c /\ Nth(Rank(valid, i)) = i
  <2> SUFFICES ASSUME NEW i \in valid PROVE Rank(valid, i) \in 1..c /\ Nth(Rank(valid, i)) = i
    OBVIOUS
  <2>1. /\ Rank(valid, i) \in 1..c
        /\ \A j \in valid : Rank(valid, j) = Rank(valid, i) => j = i
    BY <1>1, RanksDiffer
  <2> QED
    BY <2>1
<1>5. reply \in [1..n -> {reply[i] : i \in 1..n}]
  BY <1>1
<1>6. Len(reply) = n
  <2> HIDE DEF reply
  <2> QED
    BY <1>1, <1>5, SeqDef, LenProperties
<1>7. ASSUME NEW i \in DOMAIN names
      PROVE  reply[i] = IF i \in valid THEN QueryOf(names, table, i) ELSE Many!Failed
  <2> HIDE DEF At, Nth
  <2>1. CASE i \in valid
    <3>1. At(i) \in DOMAIN ranked /\ Nth(At(i)) = i
      BY <1>1, <1>3, <1>4, <2>1
    <3> QED
      BY <2>1, <3>1
  <2>2. CASE i \notin valid
    BY <2>2
  <2> QED
    BY <2>1, <2>2
<1> HIDE DEF reply
<1> QED
  BY <1>2, <1>6, <1>7

Tables == Csvs \cup {NoCsv}
Choices == Selections \cup {<<>>}
Replies ==
    {<<>>} \cup UNION {UNION {{Many!Reply(names, table, valid) : valid \in SUBSET DOMAIN names}
                              : names \in Choices} : table \in Tables}

\* Types of the inputs, and of the submit handlers: where each is, and what it holds.
InputTypes ==
    /\ images \in Choices /\ {csv, rows} \subseteq Tables /\ parses \subseteq Csvs
    /\ canSearch \in BOOLEAN /\ mixed \in BOOLEAN /\ overlap \in BOOLEAN
    /\ choices \in 0..MaxChoices

SearchTypes ==
    searches \in [Many!Searches ->
        [at : {"new", "loading", "sent", "answered", "refused", "done"},
         images : Choices, checked : Tables, manifest : Tables, reply : Replies]]

\* A reply is that to the images of its handler, read with the table it sent,
\* whichever of them were valid, and that table was accepted.
Answers(search) ==
    \/ search.reply = <<>>
    \/ /\ Many!ServerAccepts(Many!Elements(search.images), search.manifest)
       /\ \E valid \in SUBSET DOMAIN search.images :
             search.reply = Many!Reply(search.images, search.manifest, valid)

\* The page holds the rows of the table in the input, or knows that it may not.
RowsOfTable ==
    /\ rows \in {NoCsv, csv} \/ mixed
    /\ \A s \in Many!Searches : searches[s].checked = searches[s].manifest \/ mixed

\* The cards are those of a search that is over, which keeps its images and reply.
CardsOfSearch ==
    \/ results = Many!NoResults
    \/ \E s \in Many!Searches :
          /\ searches[s].at = "done"
          /\ results = [search |-> s, cards |-> Many!Cards(s)]

\* Without overlap no search is under way beside another one, or beside the cards.
OneAtATime ==
    ~ overlap =>
        /\ \A s, t \in Many!Searches : Many!UnderWay(s) /\ Many!UnderWay(t) => s = t
        /\ results.search # 0 => \A s \in Many!Searches : ~ Many!UnderWay(s)

AnswersRight == \A s \in Many!Searches : Answers(searches[s])

ManyInv == InputTypes /\ SearchTypes /\ AnswersRight /\ RowsOfTable /\ CardsOfSearch /\ OneAtATime

\* The page begins with nothing chosen.
LEMMA ManyBegins == ASSUME Many!Init PROVE ManyInv
<1>1. InputTypes
  <2>1. MaxChoices \in Nat
    BY PagesAssumption
  <2>2. choices = 0 /\ 0 \in 0..MaxChoices
    BY <2>1 DEF Many!Init
  <2> QED
    BY <2>2 DEF Many!Init, InputTypes, Choices, Tables
<1>2. Many!New \in [at : {"new", "loading", "sent", "answered", "refused", "done"},
                    images : Choices, checked : Tables, manifest : Tables, reply : Replies]
  BY DEF Many!New, Choices, Tables, Replies
<1>3. \A s \in Many!Searches : searches[s] = Many!New
  BY DEF Many!Init
<1>4. SearchTypes
  BY <1>2 DEF Many!Init, SearchTypes
<1>5. AnswersRight /\ RowsOfTable
  BY <1>3 DEF Many!Init, AnswersRight, Answers, RowsOfTable, Many!New
<1>6. CardsOfSearch /\ OneAtATime
  BY <1>3 DEF Many!Init, CardsOfSearch, OneAtATime, Many!New, Many!UnderWay
<1> QED
  BY <1>1, <1>4, <1>5, <1>6 DEF ManyInv

\* A handler that moves on, with what it holds.
LEMMA HandlerMoves ==
    ASSUME ManyInv, NEW s \in Many!Searches,
           NEW at \in {"new", "loading", "sent", "answered", "refused", "done"}, Many!Goes(s, at)
    PROVE  /\ SearchTypes' /\ searches'[s].at = at
           /\ \A t \in Many!Searches :
                 /\ t # s => searches'[t] = searches[t]
                 /\ searches'[t].images = searches[t].images /\ searches'[t].reply = searches[t].reply
                 /\ searches'[t].checked = searches[t].checked
                 /\ searches'[t].manifest = searches[t].manifest
<1>1. SearchTypes
  BY DEF ManyInv
<1>2. searches' = [searches EXCEPT ![s].at = at]
  BY DEF Many!Goes
<1>3. SearchTypes'
  BY <1>1, <1>2 DEF SearchTypes
<1>4. /\ searches'[s].at = at
      /\ \A t \in Many!Searches :
            /\ t # s => searches'[t] = searches[t]
            /\ searches'[t].images = searches[t].images /\ searches'[t].reply = searches[t].reply
            /\ searches'[t].checked = searches[t].checked
            /\ searches'[t].manifest = searches[t].manifest
  BY <1>1, <1>2 DEF SearchTypes
<1> QED
  BY <1>3, <1>4

\* What the handlers hold stays as it is while they move on.
LEMMA HeldStays ==
    ASSUME ManyInv,
           \A t \in Many!Searches :
              /\ searches'[t].images = searches[t].images /\ searches'[t].reply = searches[t].reply
              /\ searches'[t].checked = searches[t].checked
              /\ searches'[t].manifest = searches[t].manifest,
           UNCHANGED <<rows, csv, mixed>>
    PROVE  /\ AnswersRight' /\ RowsOfTable'
           /\ \A t \in Many!Searches : Many!Cards(t)' = Many!Cards(t)
<1>1. AnswersRight /\ RowsOfTable
  BY DEF ManyInv
<1>2. AnswersRight'
  <2> SUFFICES ASSUME NEW t \in Many!Searches PROVE Answers(searches'[t])
    BY DEF AnswersRight
  <2>1. Answers(searches[t])
    BY <1>1 DEF AnswersRight
  <2> QED
    BY <2>1 DEF Answers
<1>3. RowsOfTable'
  BY <1>1 DEF RowsOfTable
<1>4. \A t \in Many!Searches : Many!Cards(t)' = Many!Cards(t)
  BY DEF Many!Cards, Many!Files
<1> QED
  BY <1>2, <1>3, <1>4

\* A choice of files or the end of a reading changes the inputs alone.
LEMMA InputsKeep ==
    ASSUME ManyInv, UNCHANGED <<searches, results, overlap>>, InputTypes', RowsOfTable'
    PROVE  ManyInv'
<1>1. SearchTypes' /\ AnswersRight'
  BY DEF ManyInv, SearchTypes, AnswersRight
<1>2. \A t \in Many!Searches : /\ Many!Cards(t)' = Many!Cards(t)
                               /\ Many!UnderWay(t)' <=> Many!UnderWay(t)
  BY DEF Many!Cards, Many!Files, Many!UnderWay
<1>3. CardsOfSearch' /\ OneAtATime'
  BY <1>2 DEF ManyInv, CardsOfSearch, OneAtATime
<1> QED
  BY <1>1, <1>3 DEF ManyInv

\* The user chooses, and tables are read.
LEMMA ChoicesKeep ==
    ASSUME ManyInv, Many!ChooseImages \/ Many!ChooseCsv \/ \E c \in Csvs : Many!Parsed(c)
    PROVE  ManyInv'
<1>0. InputTypes /\ RowsOfTable
  BY DEF ManyInv
<1>1. ASSUME Many!Chooses PROVE choices' \in 0..MaxChoices
  <2>1. MaxChoices \in Nat /\ choices \in 0..MaxChoices /\ choices < MaxChoices /\ choices' = choices + 1
    BY <1>0, <1>1, PagesAssumption DEF InputTypes, Many!Chooses
  <2> QED
    BY <2>1
<1>2. CASE Many!ChooseImages
  <2>1. InputTypes'
    BY <1>0, <1>1, <1>2 DEF Many!ChooseImages, InputTypes, Choices
  <2>2. RowsOfTable'
    BY <1>0, <1>2 DEF Many!ChooseImages, RowsOfTable
  <2> QED
    BY <1>2, <2>1, <2>2, InputsKeep DEF Many!ChooseImages
<1>3. CASE Many!ChooseCsv
  <2>1. InputTypes'
    BY <1>0, <1>1, <1>3 DEF Many!ChooseCsv, InputTypes, Tables
  <2>2. RowsOfTable'
    BY <1>0, <1>3 DEF Many!ChooseCsv, RowsOfTable
  <2> QED
    BY <1>3, <2>1, <2>2, InputsKeep DEF Many!ChooseCsv
<1>4. ASSUME NEW c \in Csvs, Many!Parsed(c) PROVE ManyInv'
  <2>1. InputTypes'
    BY <1>0, <1>4 DEF Many!Parsed, InputTypes, Tables
  <2>2. RowsOfTable'
    BY <1>0, <1>4 DEF Many!Parsed, RowsOfTable
  <2> QED
    BY <1>4, <2>1, <2>2, InputsKeep DEF Many!Parsed
<1> QED
  BY <1>2, <1>3, <1>4

\* A search begins, is not sent, is refused, and the refusal is shown.
LEMMA RefusalsKeep ==
    ASSUME ManyInv, NEW s \in Many!Searches,
           Many!Click(s) \/ Many!NotSent(s) \/ Many!Refuse(s) \/ Many!ShowRefusal(s)
    PROVE  ManyInv'
<1>1. /\ UNCHANGED <<images, csv, rows, parses, mixed, choices, results, overlap>>
      /\ canSearch' \in BOOLEAN
      /\ \/ searches[s].at \in {"new", "loading"} /\ \E at \in {"loading", "done"} : Many!Goes(s, at)
         \/ searches[s].at \in {"sent", "answered", "refused"}
            /\ \E at \in {"refused", "done"} : Many!Goes(s, at)
  BY DEF Many!Click, Many!NotSent, Many!Refuse, Many!ShowRefusal, Many!Inputs, ManyInv, InputTypes
<1>2. PICK at \in {"loading", "refused", "done"} :
        Many!Goes(s, at) /\ searches[s].at # "done"
        /\ (at = "refused" => searches[s].at \in {"sent", "answered", "refused"})
  BY <1>1
<1>3. /\ SearchTypes' /\ searches'[s].at = at
      /\ \A t \in Many!Searches :
            /\ t # s => searches'[t] = searches[t]
            /\ searches'[t].images = searches[t].images /\ searches'[t].reply = searches[t].reply
            /\ searches'[t].checked = searches[t].checked
            /\ searches'[t].manifest = searches[t].manifest
  BY <1>2, HandlerMoves
<1>4. AnswersRight' /\ RowsOfTable' /\ \A t \in Many!Searches : Many!Cards(t)' = Many!Cards(t)
  BY <1>1, <1>3, HeldStays
<1>5. InputTypes'
  BY <1>1 DEF ManyInv, InputTypes
<1>6. CardsOfSearch'
  <2>1. \A t \in Many!Searches : searches[t].at = "done" => searches'[t].at = "done"
    BY <1>2, <1>3
  <2> QED
    BY <1>1, <1>3, <1>4, <2>1 DEF ManyInv, CardsOfSearch
<1>7. OneAtATime'
  <2>1. \A t \in Many!Searches : Many!UnderWay(t)' => Many!UnderWay(t)
    BY <1>2, <1>3 DEF Many!UnderWay
  <2> QED
    BY <1>1, <2>1 DEF ManyInv, OneAtATime
<1> QED
  BY <1>3, <1>4, <1>5, <1>6, <1>7 DEF ManyInv

\* A search is sent.
LEMMA SendKeeps == ASSUME ManyInv, NEW s \in Many!Searches, Many!Send(s) PROVE ManyInv'
<1> DEFINE sent == [at |-> "sent", images |-> images, checked |-> rows, manifest |-> csv, reply |-> <<>>]
<1>1. /\ UNCHANGED <<images, csv, rows, parses, mixed, choices>>
      /\ searches' = [searches EXCEPT ![s] = sent]
      /\ canSearch' = FALSE /\ results' = Many!NoResults
      /\ overlap' = (overlap \/ \E t \in Many!Searches : Many!UnderWay(t))
      /\ rows # NoCsv
  <2>1. [Many!New EXCEPT !.at = "sent", !.images = images, !.checked = rows, !.manifest = csv] = sent
    <3> DEFINE From(at, ims, cs, cm) ==
                   [at |-> at, images |-> ims, checked |-> cs, manifest |-> cm, reply |-> <<>>]
    <3>1. Many!New = From("new", <<>>, NoCsv, NoCsv)
      BY DEF Many!New
    <3>2. [From("new", <<>>, NoCsv, NoCsv) EXCEPT !.at = "sent"] = From("sent", <<>>, NoCsv, NoCsv)
      OBVIOUS
    <3>3. [From("sent", <<>>, NoCsv, NoCsv) EXCEPT !.images = images] = From("sent", images, NoCsv, NoCsv)
      OBVIOUS
    <3>4. [From("sent", images, NoCsv, NoCsv) EXCEPT !.checked = rows] = From("sent", images, rows, NoCsv)
      OBVIOUS
    <3>5. [From("sent", images, rows, NoCsv) EXCEPT !.manifest = csv] = sent
      OBVIOUS
    <3> HIDE DEF From, sent
    <3> QED
      BY <3>1, <3>2, <3>3, <3>4, <3>5
  <2>2. searches' = [searches EXCEPT ![s] =
            [Many!New EXCEPT !.at = "sent", !.images = images, !.checked = rows, !.manifest = csv]]
    BY DEF Many!Send
  <2> HIDE DEF sent
  <2> QED
    BY <2>1, <2>2 DEF Many!Send, Many!Inputs, Many!Complete
<1>2. InputTypes /\ SearchTypes /\ AnswersRight /\ RowsOfTable
  BY DEF ManyInv
<1>3. sent \in [at : {"new", "loading", "sent", "answered", "refused", "done"},
                images : Choices, checked : Tables, manifest : Tables, reply : Replies]
  BY <1>2 DEF InputTypes, Replies
<1>4. /\ SearchTypes' /\ searches'[s] = sent
      /\ \A t \in Many!Searches : t # s => searches'[t] = searches[t]
  BY <1>1, <1>2, <1>3 DEF SearchTypes
<1>5. InputTypes'
  <2>1. overlap' \in BOOLEAN
    BY <1>1, <1>2 DEF InputTypes, Many!UnderWay
  <2> QED
    BY <1>1, <1>2, <2>1 DEF InputTypes
<1>6. AnswersRight'
  BY <1>2, <1>4 DEF AnswersRight, Answers
<1>7. RowsOfTable'
  BY <1>1, <1>2, <1>4 DEF RowsOfTable
<1>8. CardsOfSearch'
  BY <1>1 DEF CardsOfSearch, Many!NoResults
<1>9. OneAtATime'
  <2> SUFFICES ASSUME ~ overlap' PROVE OneAtATime'
    BY DEF OneAtATime
  <2>1. \A t \in Many!Searches : ~ Many!UnderWay(t)
    BY <1>1
  <2>2. \A t \in Many!Searches : t # s => ~ Many!UnderWay(t)'
    BY <1>4, <2>1 DEF Many!UnderWay
  <2> QED
    BY <1>1, <2>2 DEF OneAtATime, Many!NoResults
<1> QED
  BY <1>4, <1>5, <1>6, <1>7, <1>8, <1>9 DEF ManyInv

\* A search is answered.
LEMMA ServeKeeps == ASSUME ManyInv, NEW s \in Many!Searches, Many!Serve(s) PROVE ManyInv'
<1>1. /\ UNCHANGED <<images, csv, rows, parses, mixed, choices, canSearch, results, overlap>>
      /\ searches[s].at = "sent"
      /\ Many!ServerAccepts(Many!Elements(searches[s].images), searches[s].manifest)
  BY DEF Many!Serve, Many!Inputs
<1>2. PICK valid \in SUBSET DOMAIN searches[s].images :
        searches' = [searches EXCEPT
            ![s].at = "answered",
            ![s].reply = Many!Reply(searches[s].images, searches[s].manifest, valid)]
  BY DEF Many!Serve
<1>3. InputTypes /\ SearchTypes /\ AnswersRight /\ RowsOfTable
  BY DEF ManyInv
<1>4. PICK reply : reply = Many!Reply(searches[s].images, searches[s].manifest, valid)
  OBVIOUS
<1>5. reply \in Replies
  <2>1. searches[s].images \in Choices /\ searches[s].manifest \in Tables
    BY <1>3 DEF SearchTypes
  <2> QED
    BY <1>4, <2>1 DEF Replies
<1>6. /\ SearchTypes' /\ searches'[s].at = "answered" /\ searches'[s].reply = reply
      /\ searches'[s].images = searches[s].images
      /\ searches'[s].checked = searches[s].checked /\ searches'[s].manifest = searches[s].manifest
      /\ \A t \in Many!Searches : t # s => searches'[t] = searches[t]
  <2>1. searches' = [searches EXCEPT ![s].at = "answered", ![s].reply = reply]
    BY <1>2, <1>4
  <2> QED
    BY <1>3, <1>5, <2>1 DEF SearchTypes
<1>7. AnswersRight'
  <2>1. Answers(searches'[s])
    BY <1>1, <1>4, <1>6 DEF Answers
  <2> QED
    BY <1>3, <1>6, <2>1 DEF AnswersRight
<1>8. InputTypes' /\ RowsOfTable'
  BY <1>1, <1>3, <1>6 DEF InputTypes, RowsOfTable
<1>9. CardsOfSearch'
  <2>1. \A t \in Many!Searches : searches[t].at = "done" => t # s
    BY <1>1
  <2>2. \A t \in Many!Searches : t # s => Many!Cards(t)' = Many!Cards(t)
    BY <1>6 DEF Many!Cards, Many!Files
  <2> QED
    BY <1>1, <1>6, <2>1, <2>2 DEF ManyInv, CardsOfSearch
<1>10. OneAtATime'
  <2>1. \A t \in Many!Searches : Many!UnderWay(t)' <=> Many!UnderWay(t)
    BY <1>1, <1>6 DEF Many!UnderWay
  <2> QED
    BY <1>1, <2>1 DEF ManyInv, OneAtATime
<1> QED
  BY <1>6, <1>7, <1>8, <1>9, <1>10 DEF ManyInv

\* The answer is shown.
LEMMA ShowKeeps == ASSUME ManyInv, NEW s \in Many!Searches, Many!Show(s) PROVE ManyInv'
<1>1. /\ UNCHANGED <<images, csv, rows, parses, mixed, choices, overlap>>
      /\ searches[s].at = "answered"
      /\ results' = [search |-> s, cards |-> Many!Cards(s)]
      /\ canSearch' = TRUE /\ Many!Goes(s, "done")
  BY DEF Many!Show, Many!Inputs
<1>2. /\ SearchTypes' /\ searches'[s].at = "done"
      /\ \A t \in Many!Searches :
            /\ t # s => searches'[t] = searches[t]
            /\ searches'[t].images = searches[t].images /\ searches'[t].reply = searches[t].reply
            /\ searches'[t].checked = searches[t].checked
            /\ searches'[t].manifest = searches[t].manifest
  BY <1>1, HandlerMoves
<1>3. AnswersRight' /\ RowsOfTable' /\ \A t \in Many!Searches : Many!Cards(t)' = Many!Cards(t)
  BY <1>1, <1>2, HeldStays
<1>4. InputTypes'
  BY <1>1 DEF ManyInv, InputTypes
<1>5. CardsOfSearch'
  BY <1>1, <1>2, <1>3 DEF CardsOfSearch
<1>6. OneAtATime'
  <2> SUFFICES ASSUME ~ overlap PROVE \A t \in Many!Searches : ~ Many!UnderWay(t)'
    BY <1>1 DEF OneAtATime
  <2>1. \A t \in Many!Searches : Many!UnderWay(t) => t = s
    BY <1>1 DEF ManyInv, OneAtATime, Many!UnderWay
  <2> QED
    BY <1>2, <2>1 DEF Many!UnderWay
<1> QED
  BY <1>2, <1>3, <1>4, <1>5, <1>6 DEF ManyInv

\* Each step of the page keeps the invariant, and the other pages leave it alone.
LEMMA ManyStepsKeep == ManyInv /\ [Next]_vars => ManyInv'
<1> SUFFICES ASSUME ManyInv, [Next]_vars PROVE ManyInv'
  OBVIOUS
<1>1. CASE Many!Next
  BY <1>1, ChoicesKeep, RefusalsKeep, SendKeeps, ServeKeeps, ShowKeeps DEF Many!Next
<1>2. CASE UNCHANGED ofMany
  <2>1. UNCHANGED <<images, csv, rows, parses, searches, canSearch, results, mixed, overlap, choices>>
    BY <1>2 DEF ofMany
  <2>2. InputTypes' /\ RowsOfTable'
    BY <2>1 DEF ManyInv, InputTypes, RowsOfTable
  <2> QED
    BY <2>1, <2>2, InputsKeep
<1> QED
  BY <1>1, <1>2 DEF Next, vars

\* What the cards of a search show.
LEMMA ShownRight ==
    ASSUME ManyInv, NEW s \in Many!Searches,
           NEW i \in DOMAIN Many!Cards(s), Many!Cards(s)[i].answer # Many!Failed
    PROVE  /\ Many!Cards(s)[i].answer[1].image = Many!Cards(s)[i].file
           /\ \/ Many!Cards(s)[i].answer[1].box
                    = Many!Box(searches[s].checked,
                               Many!RowOf(Many!PageCandidates(Many!Cards(s)[i].file, searches[s].checked)))
              \/ mixed
<1>1. PICK names, table, reply :
        names = searches[s].images /\ table = searches[s].manifest /\ reply = searches[s].reply
  OBVIOUS
<1>2. names \in Choices /\ (searches[s].checked = table \/ mixed) /\ Answers(searches[s])
  BY <1>1 DEF ManyInv, SearchTypes, AnswersRight, RowsOfTable
<1>3. names \in Seq({names[j] : j \in DOMAIN names}) /\ \A j \in DOMAIN names : IsName(names[j])
  BY <1>2, NamesChosen DEF Choices
<1>4. i \in DOMAIN reply /\ Many!Cards(s)[i].file = names[i] /\ Many!Cards(s)[i].answer = reply[i]
  BY <1>1 DEF Many!Cards, Many!Files
<1>5. reply # <<>>
  BY <1>4
<1>6. PICK valid \in SUBSET DOMAIN names :
        Many!ServerAccepts(Many!Elements(names), table) /\ reply = Many!Reply(names, table, valid)
  BY <1>1, <1>2, <1>5 DEF Answers
<1>7. i \in DOMAIN names
  BY <1>4, <1>6 DEF Many!Reply
<1>8. reply[i] = QueryOf(names, table, i)
  BY <1>3, <1>4, <1>6, <1>7, RepliesAreBeside
<1>9. Many!PageCandidates(names[i], table) = Many!ServerCandidates(names[i], table)
  <2>1. \A n \in Many!Elements(names) : IsName(n)
    BY <1>3 DEF Many!Elements
  <2>2. names[i] \in Many!Elements(names)
    BY <1>7 DEF Many!Elements
  <2>3. Many!Agree(Many!Elements(names), table)
    BY <2>1, RulesAgree
  <2> QED
    BY <1>6, <2>2, <2>3 DEF Many!Agree
<1>10. /\ reply[i][1].image = names[i]
      /\ reply[i][1].box = Many!Box(table, Many!RowOf(Many!ServerCandidates(names[i], table)))
  BY <1>8 DEF QueryOf
<1> QED
  BY <1>2, <1>4, <1>9, <1>10

\* A card of the batch page shows the answer to the image beside it, in the box
\* that the page found for it, whichever images failed and whatever was chosen
\* meanwhile, and the cards are those of the last search that was sent.
THEOREM CardsAreRight == Spec => []CardsRight
<1>1. Init => ManyInv
  BY ManyBegins DEF Init
<1>2. ManyInv => CardsRight
  <2> SUFFICES ASSUME ManyInv PROVE CardsRight
    OBVIOUS
  <2>1. Many!CardsRight
    <3>1. CASE results = Many!NoResults
      BY <3>1 DEF Many!CardsRight, Many!NoResults
    <3>2. ASSUME NEW s \in Many!Searches,
                 results = [search |-> s, cards |-> Many!Cards(s)]
          PROVE  Many!CardsRight
      <4>1. results.search = s /\ results.cards = Many!Cards(s)
        BY <3>2
      <4> QED
        BY <3>2, <4>1, ShownRight DEF Many!CardsRight
    <3> QED
      BY <3>1, <3>2 DEF ManyInv, CardsOfSearch
  <2>2. Many!CardsOfLastSearch
    <3> SUFFICES ASSUME results.search # 0, ~ overlap, NEW s \in (results.search + 1)..MaxSearches
                 PROVE  searches[s].at \in {"new", "loading", "done"}
      BY DEF Many!CardsOfLastSearch
    <3>1. PICK r \in Many!Searches : results.search = r
      BY DEF ManyInv, CardsOfSearch, Many!NoResults
    <3>2. s \in Many!Searches
      BY <3>1, PagesAssumption DEF Many!Searches
    <3>3. ~ Many!UnderWay(s)
      BY <3>2 DEF ManyInv, OneAtATime
    <3> QED
      BY <3>2, <3>3 DEF ManyInv, SearchTypes, Many!UnderWay
  <2> QED
    BY <2>1, <2>2 DEF CardsRight
<1> QED
  BY <1>1, <1>2, ManyStepsKeep, PTL DEF Spec

------------------------------------------------------------------------------
(* One image.                                                                *)

Sent(s) == analyses[s].at = "sent"

\* The image is not known to change while a search is under way, and a box is
\* drawn on the image that is shown.
SoloInv ==
    /\ analyses \in [Solo!Searches ->
           [at : {"new", "loading", "sent", "done"}, image : Images \cup {NoImage},
            box : [on : Images \cup {NoImage}, large : BOOLEAN]]]
    /\ image \in Images \cup {NoImage} /\ opening \subseteq Images
    /\ box \in [on : Images \cup {NoImage}, large : BOOLEAN]
    /\ {enabled, replaced} \subseteq BOOLEAN
    /\ box # Solo!NoBox => box.on = image
    /\ \A s \in Solo!Searches : Sent(s) => \/ analyses[s].image = image
                                           \/ replaced
    /\ modal # Solo!NoModal => modal.search \in Solo!Searches /\ analyses[modal.search].at = "done"

ShownInv == SoloInv /\ SearchShown

\* The page starts with no image, no box and no search.
LEMMA SoloBegins == Init => ShownInv
<1> SUFFICES ASSUME Init PROVE ShownInv
  OBVIOUS
<1>1. Solo!Init
  BY DEF Init
<1>2. \A s \in Solo!Searches : analyses[s] = Solo!New
  BY <1>1 DEF Solo!Init
<1>3. analyses \in [Solo!Searches ->
         [at : {"new", "loading", "sent", "done"}, image : Images \cup {NoImage},
          box : [on : Images \cup {NoImage}, large : BOOLEAN]]]
  BY <1>1 DEF Solo!Init, Solo!New, Solo!NoBox
<1>4. \A s \in Solo!Searches : analyses[s].at = "new"
  BY <1>2 DEF Solo!New
<1>5. SoloInv
  BY <1>1, <1>3, <1>4 DEF Solo!Init, SoloInv, Sent, Solo!NoBox
<1>6. SearchShown
  BY <1>1, <1>4 DEF Solo!Init, SearchShown, Solo!BoxOnImage, Solo!ButtonBack,
                    Solo!ResultBesideImage
<1> QED
  BY <1>5, <1>6 DEF ShownInv

\* A box that is new was drawn on the image, and is rendered.
LEMMA BoxSteps ==
    ASSUME ShownInv, UNCHANGED <<image, opening, analyses, modal, replaced>>,
           box' \in [on : Images \cup {NoImage}, large : BOOLEAN],
           box' # Solo!NoBox => box'.on = image,
           Solo!Renders
    PROVE  ShownInv'
<1> USE DEF ShownInv, SoloInv, SearchShown, Solo!Renders
<1>1. enabled' \in BOOLEAN
  OBVIOUS
<1>2. SoloInv'
  BY <1>1 DEF Sent
<1>3. Solo!BoxOnImage' /\ Solo!ButtonBack' /\ Solo!ResultBesideImage'
  BY DEF Solo!BoxOnImage, Solo!ButtonBack, Solo!ResultBesideImage, Solo!UnderWay
<1> QED
  BY <1>2, <1>3

\* A search that goes on or ends keeps its image and its box.
LEMMA GoesKeeps ==
    ASSUME SoloInv, NEW s \in Solo!Searches, NEW at \in {"loading", "done"}, Solo!Goes(s, at)
    PROVE  /\ analyses' \in [Solo!Searches ->
                  [at : {"new", "loading", "sent", "done"}, image : Images \cup {NoImage},
                   box : [on : Images \cup {NoImage}, large : BOOLEAN]]]
           /\ analyses'[s].at = at
           /\ \A t \in Solo!Searches :
                 /\ analyses'[t].image = analyses[t].image /\ analyses'[t].box = analyses[t].box
                 /\ t # s => analyses'[t] = analyses[t]
  BY DEF SoloInv, Solo!Goes

\* A search that was not under way begins or ends.
LEMMA ClicksAndRefusals ==
    ASSUME ShownInv, NEW s \in Solo!Searches, NEW at \in {"loading", "done"}, Solo!Goes(s, at),
           analyses[s].at \in {"new", "loading"},
           UNCHANGED <<image, opening, box, modal, replaced>>,
           UNCHANGED <<commonGallery, enabled>> \/ Solo!Renders
    PROVE  ShownInv'
<1> USE DEF ShownInv, SearchShown
<1>1. enabled' \in BOOLEAN
  BY DEF Solo!Renders, SoloInv
<1>2. SoloInv'
  BY <1>1, GoesKeeps DEF SoloInv, Sent
<1>3. Solo!BoxOnImage' /\ Solo!ResultBesideImage'
  BY GoesKeeps DEF SoloInv, Solo!BoxOnImage, Solo!ResultBesideImage
<1>4. Solo!ButtonBack'
  BY GoesKeeps DEF SoloInv, Solo!ButtonBack, Solo!Renders, Solo!UnderWay
<1> QED
  BY <1>2, <1>3, <1>4

\* Every step of the page keeps ShownInv.
LEMMA SoloStepsKeep == ShownInv /\ Solo!Next => ShownInv'
<1> SUFFICES ASSUME ShownInv, Solo!Next PROVE ShownInv'
  OBVIOUS
<1> DEFINE Boxes == [on : Images \cup {NoImage}, large : BOOLEAN]
<1>1. Solo!NoBox \in Boxes /\ \A large \in BOOLEAN : [on |-> image, large |-> large] \in Boxes
  BY DEF ShownInv, SoloInv, Solo!NoBox
<1>2. CASE UNCHANGED <<image, box, commonGallery, enabled, analyses, modal, replaced>>
           /\ opening' \subseteq Images
  BY <1>2 DEF ShownInv, SoloInv, SearchShown, Sent, Solo!BoxOnImage, Solo!ButtonBack,
              Solo!ResultBesideImage, Solo!UnderWay
<1>3. ASSUME NEW i \in Images, Solo!Choose(i) PROVE ShownInv'
  BY <1>2, <1>3 DEF Solo!Choose, Solo!OfSearches, ShownInv, SoloInv
<1>4. ASSUME NEW i \in Images, Solo!Opened(i) PROVE ShownInv'
  <2>1. /\ image' = i /\ box' = Solo!NoBox /\ opening' \subseteq Images /\ enabled' = FALSE
        /\ UNCHANGED <<analyses, modal>> /\ replaced' \in BOOLEAN
        /\ replaced => replaced'
        /\ (\E s \in Solo!Searches : Sent(s)) => replaced'
    BY <1>4 DEF Solo!Opened, Solo!Renders, Solo!OfSearches, Solo!NoBox, Solo!UnderWay, Sent,
                ShownInv, SoloInv
  <2>2. SoloInv'
    BY <1>1, <2>1 DEF ShownInv, SoloInv, Sent
  <2>3. Solo!BoxOnImage' /\ Solo!ButtonBack' /\ Solo!ResultBesideImage'
    BY <2>1 DEF ShownInv, SoloInv, SearchShown, Solo!BoxOnImage, Solo!ButtonBack,
                Solo!ResultBesideImage, Solo!NoBox
  <2> QED
    BY <2>2, <2>3 DEF ShownInv, SearchShown
<1>5. CASE Solo!PointerDown \/ Solo!PointerMoves \/ Solo!PointerUp \/ Solo!Clear
  <2>1. UNCHANGED <<image, opening, analyses, modal, replaced>> /\ Solo!Renders
    BY <1>5 DEF Solo!PointerDown, Solo!PointerMoves, Solo!PointerUp, Solo!Clear, Solo!OfSearches
  <2>2. box' = Solo!NoBox \/ \E large \in BOOLEAN : box' = [on |-> image, large |-> large]
    BY <1>5 DEF Solo!PointerDown, Solo!PointerMoves, Solo!PointerUp, Solo!Clear
  <2>3. box' \in Boxes /\ (box' # Solo!NoBox => box'.on = image)
    BY <1>1, <2>2
  <2> QED
    BY <2>1, <2>3, BoxSteps
<1>6. CASE Solo!FocusAnswered
  BY <1>6, BoxSteps DEF Solo!FocusAnswered, Solo!OfSearches, ShownInv, SoloInv
<1>7. CASE Solo!Focus \/ Solo!FocusFails
  BY <1>2, <1>7 DEF Solo!Focus, Solo!FocusFails, Solo!OfSearches, ShownInv, SoloInv
<1>8. ASSUME NEW s \in Solo!Searches, Solo!Click(s) \/ Solo!NotSent(s) PROVE ShownInv'
  BY <1>8, ClicksAndRefusals DEF Solo!Click, Solo!NotSent
<1>9. ASSUME NEW s \in Solo!Searches, Solo!Send(s) PROVE ShownInv'
  <2>1. CASE Solo!Goes(s, "done") /\ Solo!Renders /\ UNCHANGED replaced
    BY <1>9, <2>1, ClicksAndRefusals DEF Solo!Send
  <2>2. CASE /\ box # Solo!NoBox
             /\ analyses' = [analyses EXCEPT ![s] = [at |-> "sent", image |-> image, box |-> box]]
             /\ enabled' = FALSE
             /\ replaced' = (replaced \/ \E t \in Solo!Searches : Solo!UnderWay(t))
    <3>1. /\ UNCHANGED <<image, opening, box, modal>> /\ analyses[s].at = "loading"
          /\ replaced' \in BOOLEAN /\ (replaced => replaced')
      BY <1>9, <2>2 DEF Solo!Send, ShownInv, SoloInv
    <3>2. /\ analyses' \in [Solo!Searches ->
                 [at : {"new", "loading", "sent", "done"}, image : Images \cup {NoImage}, box : Boxes]]
          /\ analyses'[s] = [at |-> "sent", image |-> image, box |-> box]
          /\ \A t \in Solo!Searches : t # s => analyses'[t] = analyses[t]
      BY <2>2 DEF ShownInv, SoloInv
    <3>3. SoloInv'
      BY <2>2, <3>1, <3>2 DEF ShownInv, SoloInv, Sent
    <3>4. Solo!BoxOnImage'
      BY <2>2, <3>1, <3>2 DEF ShownInv, SoloInv, SearchShown, Solo!BoxOnImage
    <3>5. Solo!ButtonBack'
      BY <3>2 DEF Solo!ButtonBack, Solo!UnderWay
    <3>6. Solo!ResultBesideImage'
      BY <3>1, <3>2 DEF ShownInv, SoloInv, SearchShown, Solo!ResultBesideImage
    <3> QED
      BY <3>3, <3>4, <3>5, <3>6 DEF ShownInv, SearchShown
  <2> QED
    BY <1>9, <2>1, <2>2 DEF Solo!Send
<1>10. ASSUME NEW s \in Solo!Searches, Solo!Show(s) PROVE ShownInv'
  <2>1. /\ analyses[s].at = "sent" /\ Solo!Goes(s, "done") /\ Solo!Renders
        /\ modal' \in {[search |-> s, beside |-> image], modal}
        /\ UNCHANGED <<image, opening, box, commonGallery, replaced>>
    BY <1>10 DEF Solo!Show
  <2>2. enabled' \in BOOLEAN
    BY <2>1 DEF Solo!Renders, ShownInv, SoloInv
  <2>3. SoloInv'
    BY <2>1, <2>2, GoesKeeps DEF ShownInv, SoloInv, Sent
  <2>4. Solo!BoxOnImage' /\ Solo!ButtonBack'
    BY <2>1, GoesKeeps DEF ShownInv, SoloInv, SearchShown, Solo!BoxOnImage, Solo!ButtonBack,
                           Solo!Renders
  <2>5. Solo!ResultBesideImage'
    BY <2>1, GoesKeeps DEF ShownInv, SoloInv, SearchShown, Sent, Solo!ResultBesideImage
  <2> QED
    BY <2>3, <2>4, <2>5 DEF ShownInv, SearchShown
<1>11. CASE Solo!CloseModal
  BY <1>11 DEF Solo!CloseModal, ShownInv, SoloInv, SearchShown, Sent, Solo!BoxOnImage,
               Solo!ButtonBack, Solo!ResultBesideImage, Solo!UnderWay
<1> QED
  BY <1>3, <1>4, <1>5, <1>6, <1>7, <1>8, <1>9, <1>10, <1>11 DEF Solo!Next

\* Each step keeps ShownInv.
LEMMA ShownKept == ShownInv /\ [Next]_vars => ShownInv'
<1>1. ShownInv /\ UNCHANGED ofSolo => ShownInv'
  BY DEF ofSolo, ShownInv, SoloInv, SearchShown, Sent, Solo!BoxOnImage, Solo!ButtonBack,
         Solo!ResultBesideImage, Solo!UnderWay
<1> QED
  BY <1>1, SoloStepsKeep DEF Next, vars

\* One image is searched with a box that was drawn on it, its result is shown
\* beside it, and the button comes back: for any images, clicks and answers.
THEOREM SearchesAreShown == Spec => []SearchShown
<1>1. ShownInv => SearchShown
  BY DEF ShownInv
<1> QED
  BY <1>1, ShownKept, SoloBegins, PTL DEF Spec

------------------------------------------------------------------------------
(* The export.                                                               *)

Told == {"none"} \cup Export!Ledger!Unfinished \cup Export!Ledger!Final

\* Where an upload is, and where it has a job.
Places == {"new", "sent", "receive", "opened", "parts", "start", "accepted", "refused", "abort",
           "unstopped", "done", "failed", "left"}
Placed == {"receive", "opened", "parts", "start", "accepted", "abort", "unstopped", "left"}
Upload == [kind : {"none", "zip", "parts"}, job : Jobs \cup {NoJob}, at : Places]

\* The types of what the page and the service keep; checks are of jobs.
ExportTypes ==
    /\ report \in [Jobs -> Told]
    /\ uploads \in [Export!Starts -> Upload]
    /\ checks \in [Export!Checks ->
           [at : {"off", "asking", "read", "waiting"}, job : Jobs \cup {NoJob}, got : Told]]
    /\ {remembered, downloads} \subseteq Jobs \cup {NoJob}
    /\ \A u \in Export!Starts :
          uploads[u].at \in Placed => uploads[u].job \in Jobs
    /\ \A c \in Export!Checks : checks[c].at # "off" => checks[c].job \in Jobs

\* A click on the abort button is for a job.
ClickTypes == clicked = Export!NoClick \/ clicked \in [at : {"sent", "aborted"}, job : Jobs]

\* What the service does keeps the types of the ledger, and what is completed.
LEMMA LedgerSteps ==
    ASSUME ExportTypes, NEW j \in Jobs,
           \/ Export!Ledger!Opens(j) \/ Export!Ledger!Starts(j) \/ Export!Ledger!Runs(j)
           \/ Export!Ledger!Ends(j) \/ Export!Ledger!Stops(j)
    PROVE  /\ report' \in [Jobs -> Told]
           /\ \A k \in Jobs : report[k] = "completed" => report'[k] = "completed"
<1>1. PICK state \in Told : report' = [report EXCEPT ![j] = state]
  BY DEF Export!Ledger!Opens, Export!Ledger!Starts, Export!Ledger!Runs, Export!Ledger!Ends,
         Export!Ledger!Stops, Export!Ledger!Becomes, Told, Export!Ledger!Unfinished,
         Export!Ledger!Final
<1>2. report[j] # "completed"
  BY DEF Export!Ledger!Opens, Export!Ledger!Starts, Export!Ledger!Runs, Export!Ledger!Ends,
         Export!Ledger!Stops, Export!Ledger!Unfinished
<1> QED
  BY <1>1, <1>2 DEF ExportTypes, Upload, Places

\* What changes neither checks nor downloads, and begins no upload.
Quietly ==
    /\ UNCHANGED <<checks, downloads, late>>
    /\ \A u \in Export!Starts : Export!Active(u)' => Export!Active(u)

\* An upload goes from one of its places to another.
LEMMA UploadGoes ==
    ASSUME ExportTypes, NEW u \in Export!Starts, NEW j \in Jobs \cup {NoJob},
           NEW at \in Places \ {"new", "sent"},
           \/ Export!Replies(u, at, j)
           \/ Export!Goes(u, at) /\ j = uploads[u].job,
           at \in Placed => j \in Jobs,
           Export!Active(u)
    PROVE  /\ uploads' \in [Export!Starts -> Upload]
           /\ \A v \in Export!Starts :
                 uploads'[v].at \in Placed
                    => uploads'[v].job \in Jobs
           /\ \A v \in Export!Starts : Export!Active(v)' => Export!Active(v)
           /\ uploads'[u].at = at
           /\ \A v \in Export!Starts : v # u => uploads'[v] = uploads[v]
<1>1. CASE Export!Goes(u, at) /\ j = uploads[u].job
  <2>1. /\ uploads' \in [Export!Starts -> Upload]
        /\ uploads'[u].at = at /\ uploads'[u].job = j
        /\ \A v \in Export!Starts : v # u => uploads'[v] = uploads[v]
    BY <1>1 DEF ExportTypes, Upload, Places, Export!Goes
  <2> QED
    BY <2>1 DEF ExportTypes, Export!Active
<1>2. CASE Export!Replies(u, at, j)
  <2>1. /\ uploads' \in [Export!Starts -> Upload]
        /\ uploads'[u].at = at /\ uploads'[u].job = j
        /\ \A v \in Export!Starts : v # u => uploads'[v] = uploads[v]
    BY <1>2 DEF ExportTypes, Upload, Places, Export!Replies
  <2> QED
    BY <2>1 DEF ExportTypes, Export!Active
<1> QED
  BY <1>1, <1>2

\* Steps of the service, of uploads up to their acceptance, and of the buttons.
LEMMA QuietSteps ==
    ASSUME ExportTypes, ClickTypes,
           \/ Export!ServiceStep \/ Export!Chooses \/ Export!AbortClicked
           \/ Export!AbortArrives \/ Export!AbortAnswered \/ Export!AbortLost
           \/ \E u \in Export!Starts :
                 \/ Export!Arrives(u) \/ Export!Received(u) \/ Export!StartArrives(u)
                 \/ Export!Opened(u) \/ Export!PartsSent(u) \/ Export!Refused(u)
                 \/ Export!Aborts(u) \/ Export!AnswerLost(u)
    PROVE  /\ ExportTypes' /\ Quietly
           /\ \A k \in Jobs : report[k] = "completed" => report'[k] = "completed"
<1> DEFINE Result == /\ ExportTypes' /\ Quietly
                     /\ \A k \in Jobs : report[k] = "completed" => report'[k] = "completed"
<1> USE DEF Export!OnlyUploads, Export!OfStarts, Export!page, Placed
<1>1. ASSUME UNCHANGED <<uploads, checks, downloads, late>>, remembered' \in Jobs \cup {NoJob},
             \/ UNCHANGED report
             \/ \E j \in Jobs : \/ Export!Ledger!Opens(j) \/ Export!Ledger!Starts(j)
                                \/ Export!Ledger!Runs(j) \/ Export!Ledger!Ends(j)
                                \/ Export!Ledger!Stops(j)
      PROVE  Result
  <2>1. /\ report' \in [Jobs -> Told]
        /\ \A k \in Jobs : report[k] = "completed" => report'[k] = "completed"
    BY <1>1, LedgerSteps DEF ExportTypes, Upload, Places
  <2> QED
    BY <1>1, <2>1 DEF ExportTypes, Upload, Places, Quietly, Export!Active
<1>2. ASSUME NEW u \in Export!Starts, NEW j \in Jobs \cup {NoJob},
             NEW at \in Places \ {"new", "sent"},
             \/ Export!Replies(u, at, j)
             \/ Export!Goes(u, at) /\ j = uploads[u].job,
             at \in Placed => j \in Jobs,
             Export!Active(u), UNCHANGED <<checks, downloads, late>>,
             remembered' \in Jobs \cup {NoJob},
             \/ UNCHANGED report
             \/ \E k \in Jobs : Export!Ledger!Opens(k) \/ Export!Ledger!Starts(k) \/ Export!Ledger!Stops(k)
      PROVE  Result
  <2>1. /\ report' \in [Jobs -> Told]
        /\ \A k \in Jobs : report[k] = "completed" => report'[k] = "completed"
    BY <1>2, LedgerSteps DEF ExportTypes, Upload, Places
  <2> QED
    BY <1>2, <2>1, UploadGoes DEF ExportTypes, Upload, Places, Quietly
<1>3. CASE Export!ServiceStep
  BY <1>1, <1>3 DEF Export!ServiceStep, ExportTypes, Upload, Places
<1>4. CASE \/ Export!Chooses \/ Export!AbortClicked
           \/ Export!AbortArrives \/ Export!AbortAnswered \/ Export!AbortLost
  <2>1. UNCHANGED <<uploads, checks, downloads, late>> /\ remembered' \in Jobs \cup {NoJob}
    BY <1>4 DEF Export!Chooses, Export!AbortClicked, Export!AbortArrives, Export!AbortAnswered,
                Export!AbortLost, ExportTypes
  <2>2. UNCHANGED report \/ \E j \in Jobs : Export!Ledger!Stops(j)
    <3>1. CASE Export!AbortArrives
      BY <3>1 DEF Export!AbortArrives, Export!AbortsAtService, ClickTypes, Export!NoClick
    <3>2. CASE Export!Chooses \/ Export!AbortClicked \/ Export!AbortAnswered \/ Export!AbortLost
      BY <3>2 DEF Export!Chooses, Export!AbortClicked, Export!AbortAnswered, Export!AbortLost
    <3> QED
      BY <1>4, <3>1, <3>2
  <2> QED
    BY <1>1, <2>1, <2>2
<1>5. ASSUME NEW u \in Export!Starts, Export!Arrives(u) PROVE Result
  <2>1. /\ Export!Active(u) /\ UNCHANGED <<checks, downloads, late, remembered>>
        /\ remembered \in Jobs \cup {NoJob} /\ uploads[u].job \in Jobs \cup {NoJob}
    BY <1>5 DEF Export!Arrives, Export!Active, ExportTypes, Upload, Places
  <2> QED
    BY <1>2, <1>5, <2>1 DEF Export!Arrives, Places
<1>6. ASSUME NEW u \in Export!Starts,
             Export!Received(u) \/ Export!StartArrives(u) \/ Export!Aborts(u)
      PROVE  Result
  <2>1. /\ Export!Active(u) /\ UNCHANGED <<checks, downloads, late, remembered>>
        /\ remembered \in Jobs \cup {NoJob} /\ uploads[u].job \in Jobs
    BY <1>6 DEF Export!Received, Export!StartArrives, Export!Aborts, Export!Active, ExportTypes,
                Upload, Places
  <2>2. /\ \E at \in {"accepted", "refused", "abort", "unstopped"} : Export!Goes(u, at)
        /\ \/ UNCHANGED report
           \/ Export!Ledger!Starts(uploads[u].job) \/ Export!Ledger!Stops(uploads[u].job)
    BY <1>6 DEF Export!Received, Export!StartArrives, Export!Aborts, Export!AbortsAtService
  <2> QED
    BY <1>2, <2>1, <2>2 DEF Places
<1>7. ASSUME NEW u \in Export!Starts, Export!Opened(u) \/ Export!PartsSent(u) PROVE Result
  <2>1. /\ Export!Active(u) /\ UNCHANGED <<checks, downloads, late, report>>
        /\ remembered' \in Jobs \cup {NoJob} /\ uploads[u].job \in Jobs
        /\ \E at \in {"parts", "start", "abort"} : Export!Goes(u, at)
    BY <1>7 DEF Export!Opened, Export!PartsSent, Export!Active, ExportTypes, Upload, Places
  <2> QED
    BY <1>2, <2>1 DEF Places
<1>8. ASSUME NEW u \in Export!Starts, Export!Refused(u) PROVE Result
  <2>1. /\ Export!Active(u) /\ UNCHANGED <<checks, downloads, late, report>>
        /\ remembered' \in Jobs \cup {NoJob} /\ uploads[u].job \in Jobs \cup {NoJob}
        /\ Export!Goes(u, "failed") \/ (Export!Goes(u, "left") /\ uploads[u].job \in Jobs)
    BY <1>8 DEF Export!Refused, Export!Active, Export!Forgets, ExportTypes, Upload, Places
  <2> QED
    BY <1>2, <2>1 DEF Places
<1>9. ASSUME NEW u \in Export!Starts, Export!AnswerLost(u) PROVE Result
  <2>1. /\ Export!Active(u) /\ UNCHANGED <<checks, downloads, late, report>>
        /\ remembered' \in Jobs \cup {NoJob} /\ uploads[u].job \in Jobs \cup {NoJob}
        /\ Export!Goes(u, "failed") \/ (Export!Goes(u, "abort") /\ uploads[u].job \in Jobs)
    BY <1>9 DEF Export!AnswerLost, Export!Forgets, ExportTypes, Upload, Places
  <2> QED
    BY <1>2, <2>1 DEF Places
<1> QED
  BY <1>3, <1>4, <1>5, <1>6, <1>7, <1>8, <1>9

Check == [at : {"off", "asking", "read", "waiting"}, job : Jobs \cup {NoJob}, got : Told]

\* The checks: one reads the state of its job, waits, is repeated or ends.
LEMMA CheckSteps ==
    ASSUME ExportTypes, NEW c \in Export!Checks, Export!CheckStep(c) \/ Export!CheckFails(c)
    PROVE  /\ ExportTypes' /\ UNCHANGED <<report, uploads, late>>
           /\ checks[c].at # "off" /\ checks[c].job \in Jobs
           /\ \A d \in Export!Checks : d # c => checks'[d] = checks[d]
           /\ \/ checks'[c].at = "off" /\ checks[c].job \in settled'
              \/ checks'[c].at # "off" /\ checks'[c].job = checks[c].job /\ UNCHANGED downloads
           /\ checks'[c].at = "read" => checks'[c].got = report[checks[c].job]
           /\ \/ UNCHANGED downloads
              \/ /\ downloads' = checks[c].job /\ checks[c].at = "read"
                 /\ checks[c].got = "completed"
<1> USE DEF Export!OfStarts, Check
<1>1. UNCHANGED <<report, uploads, late, remembered>> /\ checks[c].at # "off" /\ checks[c].job \in Jobs
  BY DEF Export!CheckStep, Export!Reads, Export!ShowsEnd, Export!ShowsCollecting,
         Export!ShowsProgress, Export!CheckFails, Export!Fires, Export!Answer, Export!UnderWay,
         ExportTypes, Upload, Places
<1>2. /\ checks \in [Export!Checks -> Check] /\ downloads \in Jobs \cup {NoJob}
      /\ "none" \in Told /\ report[checks[c].job] \in Told
  BY <1>1 DEF ExportTypes, Upload, Places, Told
<1>3. ASSUME checks' \in [Export!Checks -> Check], downloads' \in Jobs \cup {NoJob},
             \A d \in Export!Checks : d # c => checks'[d] = checks[d],
             checks'[c].at # "off" => checks'[c].job = checks[c].job
      PROVE  ExportTypes'
  BY <1>1, <1>3 DEF ExportTypes, Upload, Places
<1>4. CASE Export!ShowsEnd(c) \/ Export!ShowsCollecting(c)
  <2>1. /\ checks' = [checks EXCEPT ![c] = Export!Off] /\ checks[c].job \in settled'
        /\ \/ UNCHANGED downloads
           \/ downloads' = checks[c].job /\ checks[c].at = "read" /\ checks[c].got = "completed"
    BY <1>4 DEF Export!ShowsEnd, Export!ShowsCollecting, Export!Answer, Export!Offers
  <2>2. /\ checks' \in [Export!Checks -> Check] /\ checks'[c].at = "off"
        /\ \A d \in Export!Checks : d # c => checks'[d] = checks[d]
    BY <1>2, <2>1 DEF Export!Off
  <2> QED
    BY <1>1, <1>2, <1>3, <2>1, <2>2
<1>5. CASE Export!Reads(c)
  <2>1. /\ checks' \in [Export!Checks -> Check]
        /\ checks'[c].at = "read" /\ checks'[c].job = checks[c].job
        /\ checks'[c].got = report[checks[c].job]
        /\ \A d \in Export!Checks : d # c => checks'[d] = checks[d]
    BY <1>2, <1>5 DEF Export!Reads
  <2>2. UNCHANGED downloads
    BY <1>5 DEF Export!Reads
  <2> QED
    BY <1>1, <1>2, <1>3, <2>1, <2>2
<1>6. CASE Export!ShowsProgress(c) \/ Export!CheckFails(c)
  <2>1. Export!Waits(c) /\ UNCHANGED downloads
    BY <1>6 DEF Export!ShowsProgress, Export!CheckFails
  <2> DEFINE waiting == [Export!Asking(checks[c].job) EXCEPT !.at = "waiting"]
  <2>2. waiting \in Check /\ waiting.at = "waiting" /\ waiting.job = checks[c].job
    BY <1>1, <1>2 DEF Export!Asking, Export!Off
  <2>3. checks' = [checks EXCEPT ![c] = waiting]
    BY <2>1 DEF Export!Waits
  <2> HIDE DEF waiting
  <2>4. /\ checks' \in [Export!Checks -> Check]
        /\ checks'[c].at = "waiting" /\ checks'[c].job = checks[c].job
        /\ \A d \in Export!Checks : d # c => checks'[d] = checks[d]
    BY <1>2, <2>2, <2>3
  <2> QED
    BY <1>1, <1>2, <1>3, <2>1, <2>4
<1>7. CASE Export!Fires(c)
  <2>1. /\ checks' \in [Export!Checks -> Check]
        /\ checks'[c].at = "asking" /\ checks'[c].job = checks[c].job
        /\ \A d \in Export!Checks : d # c => checks'[d] = checks[d]
    BY <1>2, <1>7 DEF Export!Fires
  <2>2. UNCHANGED downloads
    BY <1>7 DEF Export!Fires
  <2> QED
    BY <1>1, <1>2, <1>3, <2>1, <2>2
<1> QED
  BY <1>4, <1>5, <1>6, <1>7 DEF Export!CheckStep

\* An upload begins: the timer is cleared, and the files of an older job go.
LEMMA StartSteps ==
    ASSUME ExportTypes, NEW u \in Export!Starts, NEW kind \in {"zip", "parts"}, Export!Start(u, kind)
    PROVE  /\ ExportTypes' /\ UNCHANGED report /\ downloads' = NoJob
           /\ \A c \in Export!Checks :
                 checks'[c] = checks[c] \/ (checks'[c].at = "off" /\ checks[c].job \in settled')
           /\ ~ late' => /\ \A c \in Export!Checks : checks'[c].at = "off"
                         /\ \A v \in Export!Starts : Export!Active(v)' => v = u
<1>1. /\ UNCHANGED <<report, remembered>> /\ downloads' = NoJob
      /\ checks' = [c \in Export!Checks |-> IF Export!Keeps(c) THEN checks[c] ELSE Export!Off]
      /\ settled' = settled \cup {checks[c].job : c \in {d \in Export!Checks : ~ Export!Keeps(d)}}
      /\ late' = ((\E v \in Export!Starts : Export!Active(v))
                  \/ \E c \in Export!Checks :
                        Export!UnderWay(c) \/ (checks[c].at = "waiting" /\ timer # c))
  BY DEF Export!Start
<1>2. /\ uploads' \in [Export!Starts -> Upload]
      /\ uploads'[u].at = "sent"
      /\ \A v \in Export!Starts : v # u => uploads'[v] = uploads[v]
  BY DEF Export!Start, ExportTypes, Upload, Places
<1>3. \A c \in Export!Checks :
          \/ Export!Keeps(c) /\ checks'[c] = checks[c]
          \/ ~ Export!Keeps(c) /\ checks'[c] = Export!Off /\ checks[c].job \in settled'
  BY <1>1
<1>4. Export!Off \in Check /\ Export!Off.at = "off"
  BY DEF Export!Off, Check, Told
<1>5. checks' \in [Export!Checks -> Check]
  BY <1>1, <1>4 DEF ExportTypes, Upload, Places, Check
<1>6. ExportTypes'
  BY <1>1, <1>2, <1>3, <1>4, <1>5 DEF ExportTypes, Upload, Places, Check, Placed
<1>7. ASSUME ~ late', NEW c \in Export!Checks PROVE checks'[c].at = "off"
  <2>1. checks[c].at = "off" \/ ~ Export!Keeps(c)
    BY <1>1, <1>7 DEF ExportTypes, Upload, Places, Export!UnderWay, Export!Keeps
  <2> QED
    BY <1>3, <1>4, <2>1
<1>8. ASSUME ~ late', NEW v \in Export!Starts, Export!Active(v)' PROVE v = u
  BY <1>1, <1>2, <1>8 DEF Export!Active
<1> QED
  BY <1>1, <1>3, <1>4, <1>6, <1>7, <1>8

\* An upload is accepted, and its job is checked.
LEMMA AcceptSteps ==
    ASSUME ExportTypes, NEW u \in Export!Starts, Export!Accepted(u)
    PROVE  /\ ExportTypes' /\ UNCHANGED <<report, downloads, late>>
           /\ Export!Active(u) /\ ~ Export!Active(u)'
           /\ \A v \in Export!Starts : v # u => uploads'[v] = uploads[v]
           /\ \A c \in Export!Checks :
                 checks'[c] = checks[c] \/ (checks[c].at = "off" /\ checks'[c].at = "asking")
<1>1. /\ UNCHANGED <<report, downloads, late>> /\ uploads[u].at = "accepted"
      /\ Export!Goes(u, "done") /\ remembered' = uploads[u].job
  BY DEF Export!Accepted, Export!OfStarts
<1>2. PICK c \in Export!Checks :
          checks[c].at = "off" /\ checks' = [checks EXCEPT ![c] = Export!Asking(uploads[u].job)]
  BY DEF Export!Accepted
<1>3. uploads[u].job \in Jobs /\ uploads[u].job \in Jobs \cup {NoJob}
  BY <1>1 DEF ExportTypes, Upload, Places, Placed
<1>4. /\ Export!Asking(uploads[u].job) \in Check
      /\ Export!Asking(uploads[u].job).at = "asking"
      /\ Export!Asking(uploads[u].job).job = uploads[u].job
  BY <1>3 DEF Export!Asking, Export!Off, Check, Told
<1>5. /\ checks' \in [Export!Checks -> Check]
      /\ checks'[c].at = "asking" /\ checks'[c].job \in Jobs
      /\ \A d \in Export!Checks : d # c => checks'[d] = checks[d]
  <2> DEFINE asking == Export!Asking(uploads[u].job)
  <2>1. asking \in Check /\ asking.at = "asking" /\ asking.job \in Jobs
        /\ checks' = [checks EXCEPT ![c] = asking]
    BY <1>2, <1>3, <1>4
  <2> HIDE DEF asking
  <2> QED
    BY <2>1 DEF ExportTypes, Upload, Places, Check
<1>6. Export!Active(u)
  BY <1>1 DEF Export!Active
<1>7. /\ uploads' \in [Export!Starts -> Upload]
      /\ \A v \in Export!Starts : uploads'[v].at \in Placed => uploads'[v].job \in Jobs
      /\ uploads'[u].at = "done"
      /\ \A v \in Export!Starts : v # u => uploads'[v] = uploads[v]
  BY <1>1, <1>6, UploadGoes DEF ExportTypes, Upload, Places, Placed
<1>8. ~ Export!Active(u)'
  BY <1>7 DEF Export!Active
<1>9. ExportTypes'
  BY <1>1, <1>3, <1>5, <1>7 DEF ExportTypes, Upload, Places, Check
<1> QED
  BY <1>1, <1>2, <1>5, <1>6, <1>7, <1>8, <1>9

\* The page is loaded again: nothing is under way but the check of the job it remembers.
LEMMA LoadSteps ==
    ASSUME ExportTypes, Export!Load
    PROVE  /\ ExportTypes' /\ UNCHANGED <<report, late>> /\ downloads' = NoJob
           /\ \A u \in Export!Starts : ~ Export!Active(u)'
           /\ \A c \in Export!Checks : checks'[c].at \in {"off", "asking"}
           /\ \A c \in Export!Checks : checks[c].at # "off" => checks[c].job \in settled'
<1>1. /\ UNCHANGED <<report, late, remembered>> /\ downloads' = NoJob
      /\ settled' = settled \cup {checks[c].job : c \in {d \in Export!Checks : checks[d].at # "off"}}
      /\ checks' = [c \in Export!Checks |-> IF c = 1 /\ remembered # NoJob
                                              THEN Export!Asking(remembered) ELSE Export!Off]
      /\ uploads' = [u \in Export!Starts |-> IF Export!Active(u) THEN [uploads[u] EXCEPT !.at = "done"]
                                                                ELSE uploads[u]]
  BY DEF Export!Load
<1>2. remembered \in Jobs \cup {NoJob}
  BY DEF ExportTypes, Upload, Places
<1>3. /\ Export!Off \in Check /\ Export!Off.at = "off"
      /\ Export!Asking(remembered) \in Check /\ Export!Asking(remembered).at = "asking"
      /\ Export!Asking(remembered).job = remembered
  BY <1>2 DEF Export!Asking, Export!Off, Check, Told
<1>4. /\ checks' \in [Export!Checks -> Check]
      /\ \A c \in Export!Checks : checks'[c].at \in {"off", "asking"}
      /\ \A c \in Export!Checks : checks'[c].at # "off" => checks'[c].job \in Jobs
  <2> DEFINE asking == Export!Asking(remembered)
             off == Export!Off
  <2>1. /\ checks' = [c \in Export!Checks |-> IF c = 1 /\ remembered # NoJob THEN asking ELSE off]
        /\ off \in Check /\ off.at = "off" /\ asking \in Check /\ asking.at = "asking"
        /\ asking.job = remembered
    BY <1>1, <1>3
  <2> HIDE DEF asking, off
  <2> QED
    BY <1>2, <2>1
<1>5. /\ uploads' \in [Export!Starts -> Upload]
      /\ \A u \in Export!Starts :
            \/ uploads'[u].at = "done"
            \/ uploads'[u] = uploads[u] /\ ~ Export!Active(u)
  <2>1. \A u \in Export!Starts : [uploads[u] EXCEPT !.at = "done"] \in Upload
    BY DEF ExportTypes, Upload, Places
  <2>2. \A u \in Export!Starts :
            IF Export!Active(u) THEN uploads'[u] = [uploads[u] EXCEPT !.at = "done"]
                                ELSE uploads'[u] = uploads[u]
    BY <1>1
  <2>3. uploads' \in [Export!Starts -> Upload]
    <3> HIDE DEF Export!Active
    <3> QED
      BY <1>1, <2>1 DEF ExportTypes
  <2>4. \A u \in Export!Starts : [uploads[u] EXCEPT !.at = "done"].at = "done"
    BY DEF ExportTypes, Upload
  <2> QED
    BY <2>2, <2>3, <2>4
<1>6. ExportTypes'
  BY <1>1, <1>2, <1>4, <1>5 DEF ExportTypes, Check, Placed
<1>7. \A u \in Export!Starts : ~ Export!Active(u)'
  BY <1>5 DEF Export!Active
<1> QED
  BY <1>1, <1>4, <1>6, <1>7

\* A click is for the job that is remembered, and stays so.
LEMMA ClickKept == ASSUME ExportTypes, ClickTypes, Export!Next PROVE ClickTypes'
<1> USE DEF ClickTypes, Export!NoClick
<1>1. clicked' \in {clicked, Export!NoClick} \/ Export!AbortClicked \/ Export!AbortArrives
  BY DEF Export!Next, Export!ServiceStep, Export!page, Export!UploadStep, Export!Arrives,
         Export!Received, Export!StartArrives, Export!Opened, Export!PartsSent, Export!Accepted,
         Export!Refused, Export!Aborts, Export!AnswerLost, Export!Start, Export!CheckStep,
         Export!Reads, Export!ShowsEnd, Export!ShowsCollecting, Export!ShowsProgress, Export!Fires,
         Export!CheckFails, Export!Chooses, Export!AbortAnswered, Export!AbortLost, Export!Load,
         Export!OnlyUploads, Export!OfStarts
<1>2. CASE Export!AbortClicked
  BY <1>2 DEF Export!AbortClicked, ExportTypes
<1>3. CASE Export!AbortArrives
  BY <1>3 DEF Export!AbortArrives
<1> QED
  BY <1>1, <1>2, <1>3

\* A check that read the end of a completed job is right about it, and during an
\* upload that found nothing under way nothing but this upload is.
DownInv ==
    /\ downloads # NoJob => report[downloads] = "completed"
    /\ \A c \in Export!Checks :
          checks[c].at = "read" /\ checks[c].got = "completed" => report[checks[c].job] = "completed"
    /\ ~ late => \A u \in Export!Starts : Export!Active(u) =>
          /\ downloads = NoJob
          /\ \A c \in Export!Checks : checks[c].at = "off"
          /\ \A v \in Export!Starts : Export!Active(v) => v = u

ExportInv == ExportTypes /\ ClickTypes /\ DownInv

\* Every step of the page and of the service keeps ExportInv.
LEMMA ExportStepsKeep == ExportInv /\ Export!Next => ExportInv'
<1> SUFFICES ASSUME ExportInv, Export!Next PROVE ExportInv'
  OBVIOUS
<1> USE DEF ExportInv
<1>0. ClickTypes'
  BY ClickKept
<1>1. CASE \/ Export!ServiceStep \/ Export!Chooses \/ Export!AbortClicked
           \/ Export!AbortArrives \/ Export!AbortAnswered \/ Export!AbortLost
           \/ \E u \in Export!Starts :
                 \/ Export!Arrives(u) \/ Export!Received(u) \/ Export!StartArrives(u)
                 \/ Export!Opened(u) \/ Export!PartsSent(u) \/ Export!Refused(u)
                 \/ Export!Aborts(u) \/ Export!AnswerLost(u)
  <2>1. /\ ExportTypes' /\ Quietly
        /\ \A k \in Jobs : report[k] = "completed" => report'[k] = "completed"
    BY <1>1, QuietSteps
  <2> QED
    BY <1>0, <2>1 DEF DownInv, Quietly, ExportTypes, Upload, Places
<1>2. ASSUME NEW u \in Export!Starts, NEW kind \in {"zip", "parts"}, Export!Start(u, kind)
      PROVE  ExportInv'
  BY <1>0, <1>2, StartSteps DEF DownInv
<1>3. ASSUME NEW u \in Export!Starts, Export!Accepted(u) PROVE ExportInv'
  <2>1. ~ late => \A v \in Export!Starts : Export!Active(v) => v = u
    BY <1>3, AcceptSteps DEF DownInv
  <2>2. ~ late' => \A v \in Export!Starts : ~ Export!Active(v)'
    BY <1>3, <2>1, AcceptSteps DEF Export!Active
  <2> QED
    BY <1>0, <1>3, <2>2, AcceptSteps DEF DownInv
<1>4. ASSUME NEW c \in Export!Checks, Export!CheckStep(c) \/ Export!CheckFails(c) PROVE ExportInv'
  <2>1. ~ late => \A u \in Export!Starts : ~ Export!Active(u)
    BY <1>4, CheckSteps DEF DownInv
  <2>2. ~ late' => \A u \in Export!Starts : ~ Export!Active(u)'
    BY <1>4, <2>1, CheckSteps DEF Export!Active
  <2>3. downloads' # NoJob => report'[downloads'] = "completed"
    BY <1>4, CheckSteps DEF DownInv
  <2>4. \A d \in Export!Checks : checks'[d].at = "read" /\ checks'[d].got = "completed"
                                  => report'[checks'[d].job] = "completed"
    BY <1>4, CheckSteps DEF DownInv
  <2> QED
    BY <1>0, <1>4, <2>2, <2>3, <2>4, CheckSteps DEF DownInv
<1>5. CASE Export!Load
  BY <1>0, <1>5, LoadSteps DEF DownInv
<1> QED
  BY <1>1, <1>2, <1>3, <1>4, <1>5 DEF Export!Next, Export!UploadStep

\* The page begins with no upload, no check and nothing to offer.
LEMMA ExportBegins == Init => ExportInv
<1> SUFFICES ASSUME Init PROVE ExportInv
  OBVIOUS
<1>1. Export!Init
  BY DEF Init
<1>2. ExportTypes
  BY <1>1 DEF Export!Init, Export!Ledger!Init, Export!Off, ExportTypes, Upload, Places, Told, Placed
<1>3. \A u \in Export!Starts : ~ Export!Active(u)
  BY <1>1 DEF Export!Init, Export!Active
<1>4. \A c \in Export!Checks : checks[c].at = "off"
  BY <1>1 DEF Export!Init, Export!Off
<1> QED
  BY <1>1, <1>2, <1>3, <1>4 DEF Export!Init, ExportInv, DownInv, ClickTypes

\* Each step keeps ExportInv.
LEMMA ExportKept == ExportInv /\ [Next]_vars => ExportInv'
<1>1. ExportInv /\ UNCHANGED ofExport => ExportInv'
  BY DEF ofExport, ExportInv, ExportTypes, ClickTypes, DownInv, Export!Active
<1> QED
  BY <1>1, ExportStepsKeep DEF Next, vars

\* ExportInv holds in every state.
LEMMA ExportAlways == Spec => []ExportInv
  BY ExportBegins, ExportKept, PTL DEF Spec

\* The page offers the files of completed jobs only, and none of an older job
\* during an upload: for any clicks, jobs, lost answers and loads.
THEOREM DownloadsAreRight == Spec => []DownloadsRight
<1>1. ExportInv => DownloadsRight
  BY DEF ExportInv, DownInv, DownloadsRight, Export!DownloadsOfCompleted, Export!NoOldDownloads
<1> QED
  BY <1>1, ExportAlways, PTL

\* A job that is polled is polled on until its end was told, or an upload or a
\* load ended that: for any failures of the checks.
THEOREM PollsGoOn == Spec => PollsOn
<1>1. ASSUME ExportInv, Export!Next, NEW j \in Jobs, Export!Polled(j)
      PROVE  Export!Polled(j)' \/ j \in settled'
  <2>1. PICK c \in Export!Checks : checks[c].at # "off" /\ checks[c].job = j
    BY <1>1 DEF Export!Polled
  <2>2. checks'[c] = checks[c] => Export!Polled(j)'
    BY <2>1 DEF Export!Polled
  <2>3. ASSUME NEW d \in Export!Checks, Export!CheckStep(d) \/ Export!CheckFails(d)
        PROVE  Export!Polled(j)' \/ j \in settled'
    BY <1>1, <2>1, <2>2, <2>3, CheckSteps DEF ExportInv, Export!Polled
  <2>4. ASSUME NEW u \in Export!Starts, Export!Accepted(u) PROVE Export!Polled(j)'
    BY <1>1, <2>1, <2>2, <2>4, AcceptSteps DEF ExportInv
  <2>5. ASSUME NEW u \in Export!Starts, NEW kind \in {"zip", "parts"}, Export!Start(u, kind)
        PROVE  Export!Polled(j)' \/ j \in settled'
    BY <1>1, <2>1, <2>2, <2>5, StartSteps DEF ExportInv
  <2>6. CASE Export!Load
    BY <1>1, <2>1, <2>6, LoadSteps DEF ExportInv
  <2> QED
    BY <1>1, <2>2, <2>3, <2>4, <2>5, <2>6, QuietSteps
       DEF ExportInv, Quietly, Export!Next, Export!UploadStep
<1>2. UNCHANGED ofExport => UNCHANGED Export!vars
  BY DEF ofExport, Export!vars, Export!page
<1>3. ExportInv /\ [Next]_vars =>
          [\A j \in Jobs : Export!Polled(j) => Export!Polled(j)' \/ j \in settled']_(Export!vars)
  BY <1>1, <1>2 DEF Next, vars
<1> QED
  BY <1>3, ExportAlways, PTL DEF Spec, PollsOn, Export!PollsOn

------------------------------------------------------------------------------
(* The gallery page.                                                         *)

On(p) == polls[p].at # "off"
Answered(p) == polls[p].at = "answered"
WillAsk(p) == polls[p].at \in {"asking", "waiting"}
ClickAccepted == \E b \in Import!Buttons : click[b] = "accepted"

Poll == [at : {"off", "asking", "answered", "waiting"}, asks : {"poll", "again", "load"},
         by : Import!Buttons \cup {"page"}, got : Import!States \cup {"none"}, seen : Nat]

Screen == [word : {"none", "sending", "error"} \cup Import!States,
           details : Import!States \cup {"none"}, newest : Nat]

\* Types; an answer that is as new as the gallery tells its state.
PollTypes ==
    /\ polls \in [Import!Polls -> Poll]
    /\ activePoll \in Import!Polls \cup {0}
    /\ gallery.state \in Import!States /\ gallery.changes \in Nat
    /\ gallery = [state |-> gallery.state, changes |-> gallery.changes]
    /\ screen \in Screen /\ screen.newest <= gallery.changes
    /\ click \in [Import!Buttons -> {"idle", "sent", "accepted"}]
    /\ fails \in Nat
    /\ \A p \in Import!Polls :
          /\ polls[p].at = "waiting" => polls[p].asks = "poll"
          /\ Answered(p) => /\ polls[p].got \in Import!States
                            /\ polls[p].seen <= gallery.changes
                            /\ polls[p].seen = gallery.changes => polls[p].got = gallery.state

\* Polls that will say the state of a gallery that is indexing, correct the
\* word of the page, and correct its details.
Indexes(p) == polls[p].asks # "again" /\ (WillAsk(p) \/ (Answered(p) /\ polls[p].got = "building"))
Corrects(p) ==
    /\ polls[p].asks = "poll"
    /\ WillAsk(p) \/ (Answered(p) /\ (polls[p].got = "building" \/ polls[p].seen = gallery.changes))
Renews(p) ==
    \/ WillAsk(p)
    \/ Answered(p) /\ polls[p].seen = gallery.changes
    \/ Answered(p) /\ polls[p].got = "building" /\ polls[p].asks # "again"

Indexed == ClickAccepted \/ \E p \in Import!Polls : Indexes(p)
Corrected == ClickAccepted \/ \E p \in Import!Polls : Corrects(p)
Renewed == ClickAccepted \/ \E p \in Import!Polls : Renews(p)

\* A poll that will say an older state, and would not be noticed to be late.
Stale(p) ==
    /\ Answered(p) /\ polls[p].asks = "poll" /\ polls[p].got # "building"
    /\ polls[p].seen < gallery.changes /\ screen.newest <= polls[p].seen

\* What is not right on the page will be corrected.
TruthInv ==
    /\ gallery.state = "building" => Indexed
    /\ screen.word \in Import!States /\ (screen.word = "building" \/ screen.word # gallery.state)
          => Corrected
    /\ \A p \in Import!Polls : Stale(p) => Corrected
    /\ screen.details \in Import!States /\ screen.newest = gallery.changes
          => screen.details = gallery.state
    /\ screen.newest < gallery.changes => Renewed

\* One poll lives as long as none began beside another one, and the page holds
\* its timer.
TimerInv ==
    ~ together =>
        /\ \A p, q \in Import!Polls : On(p) /\ On(q) => p = q
        /\ \A p \in Import!Polls : polls[p].at = "waiting" => activePoll = p

PollInv ==
    /\ PollTypes /\ TimerInv /\ Import!BuildingFollowed
    /\ fails = 0 /\ ~ overtaken => TruthInv

\* A poll begins: at most the timer that the page holds is cleared.
LEMMA PollBegins ==
    ASSUME PollTypes, NEW p \in Import!Polls, NEW by \in Import!Buttons \cup {"page"},
           Import!Begins(p, by)
    PROVE  /\ polls' \in [Import!Polls -> Poll]
           /\ polls'[p].at = "asking" /\ polls'[p].asks = "poll"
           /\ \A q \in Import!Polls \ {p} :
                 \/ polls'[q] = polls[q] /\ (activePoll = q => polls[q].at # "waiting")
                 \/ polls'[q].at = "off" /\ polls[q].at = "waiting"
           /\ together' = (together \/ \E q \in Import!Polls \ {p} : Import!UnderWay(q))
<1> DEFINE off == Import!Off
           asking == Import!Asking("poll", by)
           without == [polls EXCEPT ![p] = off]
<1>1. off \in Poll /\ off.at = "off" /\ asking \in Poll /\ asking.at = "asking" /\ asking.asks = "poll"
  BY DEF Import!Off, Import!Asking, Poll, Import!Buttons
<1>2. polls' = [(IF activePoll # 0 /\ without[activePoll].at = "waiting"
                   THEN [without EXCEPT ![activePoll] = off] ELSE without) EXCEPT ![p] = asking]
  BY DEF Import!Begins, Import!Cleared
<1>3. together' = (together \/ \E q \in Import!Polls \ {p} : Import!UnderWay(q))
  BY DEF Import!Begins
<1>4. 0 \notin Import!Polls
  BY DEF Import!Polls
<1> HIDE DEF off, asking
<1>5. /\ polls' \in [Import!Polls -> Poll] /\ polls'[p] = asking
      /\ \A q \in Import!Polls \ {p} :
            \/ polls'[q] = polls[q] /\ (activePoll = q => polls[q].at # "waiting")
            \/ polls'[q] = off /\ polls[q].at = "waiting"
  BY <1>1, <1>2, <1>4 DEF PollTypes
<1> QED
  BY <1>1, <1>3, <1>5

\* The gallery is indexed, or its index ends.
LEMMA GallerySteps ==
    ASSUME PollInv, Import!BuildEnds \/ \E b \in Import!Buttons : Import!Accepts(b)
    PROVE  PollInv'
<1> USE DEF PollInv, Import!Told, Import!Counts
<1>1. /\ UNCHANGED <<polls, activePoll, screen, overtaken, together, fails>>
      /\ \E state \in Import!States : gallery' = [state |-> state, changes |-> gallery.changes + 1]
  BY DEF Import!BuildEnds, Import!Accepts, Import!Becomes, Import!States
<1>2. /\ gallery'.state \in Import!States /\ gallery'.changes = gallery.changes + 1
      /\ gallery' = [state |-> gallery'.state, changes |-> gallery'.changes]
      /\ gallery.changes \in Nat /\ screen.newest \in Nat /\ screen.newest <= gallery.changes
      /\ \A p \in Import!Polls : Answered(p) => polls[p].seen <= gallery.changes
      /\ \A p \in Import!Polls : polls[p].seen \in Nat
  BY <1>1 DEF PollTypes, Poll, Screen
<1>3. click' \in [Import!Buttons -> {"idle", "sent", "accepted"}]
  BY DEF Import!BuildEnds, Import!Accepts, PollTypes
<1>4. PollTypes'
  <2>1. /\ gallery'.changes \in Nat /\ screen.newest <= gallery'.changes
        /\ \A p \in Import!Polls : Answered(p) =>
              polls[p].seen <= gallery'.changes /\ polls[p].seen # gallery'.changes
    BY <1>2
  <2> QED
    BY <1>1, <1>2, <1>3, <2>1 DEF PollTypes, Answered
<1>5. TimerInv' /\ Import!BuildingFollowed'
  BY <1>1 DEF TimerInv, On, Import!BuildingFollowed
<1>6. ASSUME TruthInv, NEW b \in Import!Buttons, Import!Accepts(b) PROVE TruthInv'
  <2>1. ClickAccepted'
    BY <1>6 DEF Import!Accepts, ClickAccepted, PollTypes
  <2>2. screen'.newest # gallery'.changes
    BY <1>1, <1>2 DEF PollTypes
  <2> QED
    BY <2>1, <2>2 DEF TruthInv, Indexed, Corrected, Renewed
<1>7. ASSUME TruthInv, Import!BuildEnds PROVE TruthInv'
  <2>1. gallery.state = "building" /\ gallery'.state # "building" /\ UNCHANGED click
    BY <1>7 DEF Import!BuildEnds, Import!Becomes
  <2>2. \A p \in Import!Polls : Corrects(p) => Corrects(p)'
    BY <1>1, <2>1 DEF Corrects, WillAsk, Answered, PollTypes
  <2>3. Corrected => Corrected'
    BY <2>1, <2>2 DEF Corrected, ClickAccepted
  <2>4. \A p \in Import!Polls : Indexes(p) => Renews(p)'
    BY <1>1 DEF Indexes, Renews, WillAsk, Answered
  <2>5. Renewed'
    BY <1>7, <2>1, <2>4 DEF TruthInv, Indexed, Renewed, ClickAccepted
  <2>6. \A p \in Import!Polls : Stale(p)' => Stale(p)
    BY <1>1, <1>2, <2>1 DEF Stale, Answered, PollTypes
  <2>7. screen'.newest # gallery'.changes
    BY <1>1, <1>2 DEF PollTypes
  <2> QED
    BY <1>1, <1>7, <2>1, <2>3, <2>5, <2>6, <2>7 DEF TruthInv
<1> QED
  BY <1>1, <1>4, <1>5, <1>6, <1>7

\* A request reads the state.
LEMMA AnswerSteps ==
    ASSUME PollInv, NEW p \in Import!Polls, Import!Answers(p)
    PROVE  PollInv'
<1> USE DEF PollInv, Import!Told, Import!Counts
<1>1. /\ UNCHANGED <<gallery, activePoll, click, screen, overtaken, together, fails>>
      /\ polls[p].at = "asking"
      /\ polls' = [polls EXCEPT ![p].at = "answered", ![p].got = gallery.state,
                                ![p].seen = gallery.changes]
  BY DEF Import!Answers
<1>2. /\ polls' \in [Import!Polls -> Poll]
      /\ polls'[p].at = "answered" /\ polls'[p].got = gallery.state
      /\ polls'[p].seen = gallery.changes /\ polls'[p].asks = polls[p].asks
      /\ \A q \in Import!Polls : q # p => polls'[q] = polls[q]
  <2> DEFINE r == [polls[p] EXCEPT !.at = "answered", !.got = gallery.state, !.seen = gallery.changes]
  <2>1. polls[p] \in Poll
    BY DEF PollTypes
  <2>2. /\ r \in Poll /\ r.at = "answered" /\ r.got = gallery.state
        /\ r.seen = gallery.changes /\ r.asks = polls[p].asks
    BY <2>1 DEF PollTypes, Poll
  <2>3. polls' = [polls EXCEPT ![p] = r]
    BY <1>1
  <2> HIDE DEF r
  <2> QED
    BY <2>2, <2>3 DEF PollTypes
<1>3. PollTypes'
  BY <1>1, <1>2 DEF PollTypes, Answered
<1>4. TimerInv' /\ Import!BuildingFollowed'
  BY <1>1, <1>2 DEF TimerInv, On, Import!BuildingFollowed
<1>5. /\ \A q \in Import!Polls : Indexes(q) /\ gallery.state = "building" => Indexes(q)'
      /\ \A q \in Import!Polls : (Corrects(q) => Corrects(q)') /\ (Renews(q) => Renews(q)')
      /\ \A q \in Import!Polls : Stale(q)' => Stale(q)
  <2>1. ASSUME NEW q \in Import!Polls, q # p
        PROVE  /\ Indexes(q) => Indexes(q)'
               /\ (Corrects(q) => Corrects(q)') /\ (Renews(q) => Renews(q)')
               /\ Stale(q)' => Stale(q)
    BY <1>1, <1>2, <2>1 DEF Indexes, Corrects, Renews, Stale, WillAsk, Answered
  <2>2. gallery.state = "building" => (Indexes(p) => Indexes(p)')
    BY <1>1, <1>2 DEF Indexes, Answered
  <2>3. (Corrects(p) => Corrects(p)') /\ (Renews(p) => Renews(p)')
    BY <1>1, <1>2 DEF Corrects, Renews, Answered
  <2>4. ~ Stale(p)'
    BY <1>1, <1>2 DEF Stale, PollTypes
  <2> QED
    BY <2>1, <2>2, <2>3, <2>4
<1>6. ASSUME TruthInv PROVE TruthInv'
  <2>1. /\ gallery.state = "building" /\ Indexed => Indexed'
        /\ Corrected => Corrected'
        /\ Renewed => Renewed'
    BY <1>1, <1>5 DEF Indexed, Corrected, Renewed, ClickAccepted
  <2> QED
    BY <1>1, <1>5, <1>6, <2>1 DEF TruthInv
<1> QED
  BY <1>1, <1>3, <1>4, <1>6

\* A request fails, or a button is clicked or refused.
LEMMA OtherSteps ==
    ASSUME PollInv,
           \/ \E p \in Import!Polls : Import!AskFails(p)
           \/ \E b \in Import!Buttons : Import!Clicked(b) \/ Import!Refused(b) \/ Import!ClickFails(b)
    PROVE  PollInv'
<1> USE DEF PollInv, Import!Counts, Import!Told
<1>1. /\ UNCHANGED <<gallery, activePoll, overtaken, together>>
      /\ screen' \in Screen /\ screen'.newest = screen.newest /\ screen'.details = screen.details
      /\ screen'.word \in {"error", "sending"} \/ UNCHANGED screen
  <2>1. /\ [screen EXCEPT !.word = "error"] \in Screen
        /\ [screen EXCEPT !.word = "sending"] \in Screen
    BY DEF PollTypes, Screen
  <2>2. \/ UNCHANGED screen
        \/ screen' = [screen EXCEPT !.word = "error"]
        \/ screen' = [screen EXCEPT !.word = "sending"]
    BY DEF Import!AskFails, Import!Clicked, Import!Refused, Import!ClickFails, Import!SaysError
  <2>3. UNCHANGED <<gallery, activePoll, overtaken, together>>
    BY DEF Import!AskFails, Import!Clicked, Import!Refused, Import!ClickFails
  <2> QED
    BY <2>1, <2>2, <2>3 DEF PollTypes, Screen
<1>2. /\ click' \in [Import!Buttons -> {"idle", "sent", "accepted"}]
      /\ fails' \in Nat /\ (fails' # fails => fails' # 0)
      /\ UNCHANGED fails => /\ UNCHANGED polls
                            /\ ClickAccepted => ClickAccepted'
  BY DEF Import!AskFails, Import!Clicked, Import!Refused, Import!ClickFails, Import!Fails,
         PollTypes, ClickAccepted, Import!Enabled
<1>3. \/ UNCHANGED polls
      \/ \E p \in Import!Polls : polls' = [polls EXCEPT ![p] = Import!Off] /\ screen'.word = "error"
  BY DEF Import!AskFails, Import!Clicked, Import!Refused, Import!ClickFails, Import!Ends,
         Import!SaysError, PollTypes, Screen
<1>4. Import!Off \in Poll /\ Import!Off.at = "off"
  BY DEF Import!Off, Poll
<1>5. /\ polls' \in [Import!Polls -> Poll]
      /\ \A p \in Import!Polls : polls'[p] = polls[p] \/ polls'[p].at = "off"
      /\ UNCHANGED polls \/ screen'.word = "error"
  BY <1>3, <1>4 DEF PollTypes
<1>6. PollTypes'
  BY <1>1, <1>2, <1>5 DEF PollTypes, Answered
<1>7. TimerInv'
  BY <1>1, <1>5 DEF TimerInv, On
<1>8. Import!BuildingFollowed'
  BY <1>1, <1>5 DEF Import!BuildingFollowed
<1>9. ASSUME TruthInv, UNCHANGED fails PROVE TruthInv'
  <2>1. UNCHANGED polls
    BY <1>2, <1>9
  <2>2. (Indexed => Indexed') /\ (Corrected => Corrected') /\ (Renewed => Renewed')
    BY <1>1, <1>2, <1>9, <2>1 DEF Indexed, Corrected, Renewed, Indexes, Corrects, Renews, WillAsk, Answered
  <2>3. \A p \in Import!Polls : Stale(p)' => Stale(p)
    BY <1>1, <2>1 DEF Stale, Answered
  <2> QED
    BY <1>1, <1>9, <2>2, <2>3 DEF TruthInv, Import!States
<1>10. fails' = 0 /\ ~ overtaken' => UNCHANGED fails /\ TruthInv
  BY <1>1, <1>2
<1> QED
  BY <1>6, <1>7, <1>8, <1>9, <1>10

\* A poll begins after a timer or an accepted click.
LEMMA FreshSteps ==
    ASSUME PollInv, NEW p \in Import!Polls,
           \/ Import!Fires(p)
           \/ \E b \in Import!Buttons : /\ Import!Accepted(b) /\ polls[p].at = "off"
                                        /\ Import!Begins(p, b)
    PROVE  PollInv'
<1> USE DEF PollInv, Import!Told, Import!Counts
<1>1. /\ UNCHANGED <<gallery, activePoll, overtaken, fails>>
      /\ screen' \in Screen /\ screen'.newest = screen.newest /\ screen'.details = screen.details
      /\ screen'.word = "sending" \/ UNCHANGED screen
      /\ click' \in [Import!Buttons -> {"idle", "sent", "accepted"}]
      /\ polls[p].at \in {"off", "waiting"}
  <2>1. [screen EXCEPT !.word = "sending"] \in Screen
    BY DEF PollTypes, Screen
  <2> QED
    BY <2>1 DEF Import!Fires, Import!Accepted, PollTypes, Screen
<1>2. PICK by \in Import!Buttons \cup {"page"} : Import!Begins(p, by)
  BY DEF Import!Fires
<1>3. /\ polls' \in [Import!Polls -> Poll]
      /\ polls'[p].at = "asking" /\ polls'[p].asks = "poll"
      /\ \A q \in Import!Polls \ {p} :
            \/ polls'[q] = polls[q] /\ (activePoll = q => polls[q].at # "waiting")
            \/ polls'[q].at = "off" /\ polls[q].at = "waiting"
      /\ together' = (together \/ \E q \in Import!Polls \ {p} : Import!UnderWay(q))
  BY <1>2, PollBegins
<1>4. PollTypes'
  BY <1>1, <1>3 DEF PollTypes, Answered
<1>5. TimerInv'
  <2> SUFFICES ASSUME ~ together' PROVE /\ \A q \in Import!Polls \ {p} : polls'[q].at = "off"
    BY <1>1, <1>3 DEF TimerInv, On
  <2>1. ~ together /\ \A q \in Import!Polls \ {p} : ~ Import!UnderWay(q)
    BY <1>3
  <2>2. \A q \in Import!Polls \ {p} : polls[q].at \in {"off", "waiting"}
    BY <2>1 DEF Import!UnderWay, PollTypes, Poll
  <2>3. \A q \in Import!Polls \ {p} : polls[q].at = "waiting" => activePoll = q
    BY <2>1 DEF TimerInv
  <2> QED
    BY <1>3, <2>2, <2>3
<1>6. Import!BuildingFollowed'
  BY <1>3 DEF Import!BuildingFollowed
<1>7. ASSUME TruthInv PROVE TruthInv'
  <2>1. Indexes(p)' /\ Corrects(p)' /\ Renews(p)'
    BY <1>3 DEF Indexes, Corrects, Renews, WillAsk
  <2>2. Indexed' /\ Corrected' /\ Renewed'
    BY <2>1 DEF Indexed, Corrected, Renewed
  <2> QED
    BY <1>1, <1>7, <2>2 DEF TruthInv
<1> QED
  BY <1>1, <1>4, <1>5, <1>6, <1>7

\* What a poll shows.
LEMMA ShownFacts ==
    ASSUME PollTypes, NEW p \in Import!Polls, Answered(p),
           NEW word \in {"none", "sending", "error"} \cup Import!States, Import!Shows(p, word)
    PROVE  /\ screen' \in Screen
           /\ screen'.word = word /\ screen'.details = polls[p].got
           /\ screen'.newest <= gallery.changes
           /\ polls[p].seen <= screen'.newest /\ screen.newest <= screen'.newest
           /\ ~ overtaken' => ~ overtaken /\ screen'.newest = polls[p].seen
<1> DEFINE newer == IF polls[p].seen > screen.newest THEN polls[p].seen ELSE screen.newest
<1>1. /\ polls[p].seen \in Nat /\ screen.newest \in Nat /\ gallery.changes \in Nat
      /\ polls[p].got \in Import!States /\ polls[p].seen <= gallery.changes
      /\ screen.newest <= gallery.changes
  BY DEF PollTypes, Poll, Screen
<1>2. newer \in Nat /\ polls[p].seen <= newer /\ screen.newest <= newer /\ newer <= gallery.changes
      /\ (polls[p].seen >= screen.newest => newer = polls[p].seen)
  BY <1>1
<1>3. /\ screen' = [word |-> word, details |-> polls[p].got, newest |-> newer]
      /\ overtaken' = (overtaken \/ polls[p].seen < screen.newest)
  BY DEF Import!Shows
<1>4. ~ overtaken' => ~ overtaken /\ polls[p].seen >= screen.newest
  <2>1. ~ overtaken' => ~ overtaken /\ ~ (polls[p].seen < screen.newest)
    BY <1>3, Zenon
  <2>2. polls[p].seen < screen.newest \/ polls[p].seen >= screen.newest
    BY <1>1
  <2> QED
    BY <2>1, <2>2
<1> HIDE DEF newer
<1> QED
  BY <1>1, <1>2, <1>3, <1>4 DEF Screen

\* A poll finds that the gallery is being indexed: it goes on, or begins after a load.
LEMMA BuildingSteps ==
    ASSUME PollInv, NEW p \in Import!Polls,
           Import!PollBuilding(p) \/ (Import!LoadAnswered(p) /\ polls[p].got = "building")
    PROVE  PollInv'
<1> USE DEF PollInv, Import!Counts
<1>1. /\ UNCHANGED <<gallery, click, fails>> /\ Answered(p)
      /\ activePoll' \in Import!Polls \cup {0}
      /\ \E word \in {"none", "sending", "error"} \cup Import!States : Import!Shows(p, word)
  BY DEF Import!PollBuilding, Import!LoadAnswered, Import!Got, Answered, PollTypes, Screen,
         Import!States
<1>2. /\ screen' \in Screen /\ screen'.details = polls[p].got
      /\ screen'.newest <= gallery.changes
      /\ ~ overtaken' => ~ overtaken /\ screen'.newest = polls[p].seen
  BY <1>1, ShownFacts
<1>3. /\ polls' \in [Import!Polls -> Poll]
      /\ polls'[p].asks = "poll"
      /\ \A q \in Import!Polls \ {p} : polls'[q] = polls[q] \/ polls'[q].at = "off"
      /\ \/ polls'[p].at = "asking"
         \/ polls'[p].at = "waiting" /\ activePoll' = p
      /\ together => together'
  <2>1. CASE Import!PollBuilding(p)
    <3> DEFINE waiting == [Import!Off EXCEPT !.at = "waiting"]
    <3>1. waiting \in Poll /\ waiting.at = "waiting" /\ waiting.asks = "poll"
      BY DEF Import!Off, Poll
    <3>2. polls' = [polls EXCEPT ![p] = waiting] /\ activePoll' = p /\ together' = together
      BY <2>1 DEF Import!PollBuilding
    <3> HIDE DEF waiting
    <3> QED
      BY <3>1, <3>2 DEF PollTypes
  <2>2. CASE Import!LoadAnswered(p) /\ polls[p].got = "building"
    BY <2>2, PollBegins DEF Import!LoadAnswered
  <2> QED
    BY <2>1, <2>2
<1>4. PollTypes'
  BY <1>1, <1>2, <1>3 DEF PollTypes, Answered
<1>5. TimerInv'
  <2> SUFFICES ASSUME ~ together' PROVE \A q \in Import!Polls \ {p} : polls'[q].at = "off"
    BY <1>3 DEF TimerInv, On
  <2>1. \A q \in Import!Polls \ {p} : polls[q].at = "off"
    BY <1>1, <1>3 DEF TimerInv, On, Answered
  <2> QED
    BY <1>3, <2>1
<1>6. Import!BuildingFollowed'
  BY <1>3 DEF Import!BuildingFollowed
<1>7. ASSUME ~ overtaken' PROVE TruthInv'
  <2>1. Indexes(p)' /\ Corrects(p)' /\ Renews(p)'
    BY <1>3 DEF Indexes, Corrects, Renews, WillAsk
  <2>2. Indexed' /\ Corrected' /\ Renewed'
    BY <2>1 DEF Indexed, Corrected, Renewed
  <2>3. screen'.newest = gallery'.changes => screen'.details = gallery'.state
    BY <1>1, <1>2, <1>7 DEF PollTypes
  <2> QED
    BY <2>2, <2>3 DEF TruthInv
<1> QED
  BY <1>4, <1>5, <1>6, <1>7

\* A poll ends: what is not right any more is corrected by another one.
LEMMA LastSteps ==
    ASSUME PollInv, NEW p \in Import!Polls,
           \/ Import!PollEnds(p) \/ Import!Again(p)
           \/ Import!LoadAnswered(p) /\ polls[p].got # "building"
    PROVE  PollInv'
<1> USE DEF PollInv, Import!Counts
<1>1. /\ UNCHANGED <<gallery, activePoll, click, fails, together>> /\ Answered(p)
      /\ polls[p].asks = "again" \/ polls[p].got # "building"
  BY DEF Import!PollEnds, Import!LoadAnswered, Import!Again, Import!Got, Answered, PollTypes
<1>2. PICK word \in {"none", "sending", "error"} \cup Import!States :
          /\ Import!Shows(p, word)
          /\ \/ polls[p].asks = "poll" /\ word = polls[p].got /\ word # "building"
             \/ polls[p].asks # "poll" /\ word = screen.word
  BY DEF Import!PollEnds, Import!LoadAnswered, Import!Again, Import!Got, Answered, PollTypes, Screen
<1>3. /\ screen' \in Screen /\ screen'.word = word /\ screen'.details = polls[p].got
      /\ screen'.newest <= gallery.changes
      /\ polls[p].seen <= screen'.newest /\ screen.newest <= screen'.newest
      /\ ~ overtaken' => ~ overtaken /\ screen'.newest = polls[p].seen
  BY <1>1, <1>2, ShownFacts
<1>4. /\ polls' \in [Import!Polls -> Poll]
      /\ polls'[p].at \in {"off", "asking"}
      /\ \A q \in Import!Polls : q # p => polls'[q] = polls[q]
  <2>1. polls[p].by \in Import!Buttons \cup {"page"}
    BY DEF PollTypes, Poll
  <2> DEFINE off == Import!Off
             again == Import!Asking("again", polls[p].by)
  <2>2. off \in Poll /\ off.at = "off" /\ again \in Poll /\ again.at = "asking"
    BY <2>1 DEF Import!Off, Import!Asking, Poll
  <2>3. polls' = [polls EXCEPT ![p] = off] \/ polls' = [polls EXCEPT ![p] = again]
    BY DEF Import!PollEnds, Import!LoadAnswered, Import!Again, Import!Ends, PollTypes
  <2> HIDE DEF off, again
  <2> QED
    BY <2>2, <2>3 DEF PollTypes
<1>5. PollTypes'
  BY <1>1, <1>3, <1>4 DEF PollTypes, Answered
<1>6. TimerInv'
  BY <1>1, <1>4 DEF TimerInv, On, Answered
<1>7. Import!BuildingFollowed'
  BY <1>2, <1>3, <1>4 DEF Import!BuildingFollowed
<1>8. ASSUME TruthInv, ~ overtaken' PROVE TruthInv'
  <2>1. \A q \in Import!Polls \ {p} : /\ Indexes(q) => Indexes(q)'
                                      /\ Corrects(q) => Corrects(q)'
                                      /\ Renews(q) => Renews(q)'
    BY <1>1, <1>4 DEF Indexes, Corrects, Renews, WillAsk, Answered
  <2>2. /\ ~ Indexes(p)
        /\ Corrects(p) => polls[p].seen = gallery.changes
        /\ Renews(p) => polls[p].seen = gallery.changes
    BY <1>1, <1>2 DEF Indexes, Corrects, Renews, WillAsk, Answered
  <2>3. ClickAccepted => ClickAccepted'
    BY <1>1 DEF ClickAccepted
  <2>4. /\ Indexed => Indexed'
        /\ Corrected /\ ~ Corrects(p) => Corrected'
        /\ Renewed /\ polls[p].seen # gallery.changes => Renewed'
    BY <2>1, <2>2, <2>3 DEF Indexed, Corrected, Renewed
  <2>5. /\ screen'.newest = polls[p].seen /\ polls[p].seen \in Nat /\ screen.newest \in Nat
        /\ gallery.changes \in Nat /\ polls[p].seen <= gallery.changes
        /\ screen.newest <= polls[p].seen
        /\ polls[p].seen = gallery.changes => polls[p].got = gallery.state
    BY <1>1, <1>3, <1>8 DEF PollTypes, Poll, Screen
  <2>6. gallery'.state = "building" => Indexed'
    BY <1>1, <1>8, <2>4 DEF TruthInv
  <2>7. ASSUME screen'.word \in Import!States,
               screen'.word = "building" \/ screen'.word # gallery'.state
        PROVE  Corrected'
    <3>1. CASE polls[p].asks = "poll"
      <4>1. polls[p].seen < gallery.changes
        BY <1>1, <1>2, <1>3, <2>5, <2>7, <3>1
      <4>2. Stale(p) /\ ~ Corrects(p)
        BY <1>1, <2>2, <2>5, <3>1, <4>1 DEF Stale
      <4> QED
        BY <1>8, <2>4, <4>2 DEF TruthInv
    <3>2. CASE polls[p].asks # "poll"
      <4>1. ~ Corrects(p)
        BY <3>2 DEF Corrects
      <4>2. Corrected
        BY <1>1, <1>2, <1>3, <1>8, <2>7, <3>2 DEF TruthInv
      <4> QED
        BY <2>4, <4>1, <4>2
    <3> QED
      BY <3>1, <3>2
  <2>8. ASSUME NEW q \in Import!Polls, Stale(q)' PROVE Corrected'
    <3>1. q # p
      BY <1>4, <2>8 DEF Stale, Answered
    <3>2. polls[q].seen \in Nat
      BY DEF PollTypes, Poll
    <3>3. Stale(q) /\ polls[p].seen # gallery.changes
      BY <1>1, <1>4, <2>5, <2>8, <3>1, <3>2 DEF Stale, Answered
    <3>4. Corrected /\ ~ Corrects(p)
      BY <1>8, <2>2, <3>3 DEF TruthInv
    <3> QED
      BY <2>4, <3>4
  <2>9. screen'.newest = gallery'.changes => screen'.details = gallery'.state
    BY <1>1, <1>3, <2>5
  <2>10. ASSUME screen'.newest < gallery'.changes PROVE Renewed'
    <3>1. screen.newest < gallery.changes /\ polls[p].seen # gallery.changes
      BY <1>1, <2>5, <2>10
    <3> QED
      BY <1>8, <2>4, <3>1 DEF TruthInv
  <2> QED
    BY <2>6, <2>7, <2>8, <2>9, <2>10 DEF TruthInv
<1> QED
  BY <1>1, <1>3, <1>5, <1>6, <1>7, <1>8

\* The page begins by asking for the gallery.
LEMMA PollsBegin == Init => PollInv
<1> SUFFICES ASSUME Init PROVE PollInv
  OBVIOUS
<1>1. Import!Init
  BY DEF Init
<1> DEFINE off == Import!Off
           load == Import!Asking("load", "page")
<1>2. off \in Poll /\ off.at = "off" /\ load \in Poll /\ load.at = "asking" /\ load.asks = "load"
  BY DEF Import!Off, Import!Asking, Poll, Import!States
<1>3. polls = [p \in Import!Polls |-> IF p = 1 THEN load ELSE off]
  BY <1>1 DEF Import!Init
<1>4. 1 \in Import!Polls
  BY PagesAssumption DEF Import!Polls
<1> HIDE DEF off, load
<1>5. /\ polls \in [Import!Polls -> Poll]
      /\ polls[1].at = "asking" /\ polls[1].asks = "load"
      /\ \A p \in Import!Polls : p # 1 => polls[p].at = "off"
  BY <1>2, <1>3, <1>4
<1>6. /\ gallery.state \in Import!States /\ gallery.changes = 0
      /\ gallery = [state |-> gallery.state, changes |-> gallery.changes]
      /\ screen \in Screen /\ screen.newest = 0 /\ screen.word = "none" /\ screen.details = "none"
      /\ activePoll = 0 /\ fails = 0
      /\ click \in [Import!Buttons -> {"idle", "sent", "accepted"}]
  BY <1>1 DEF Import!Init, Screen
<1>7. PollTypes
  BY <1>5, <1>6 DEF PollTypes, Answered
<1>8. TimerInv /\ Import!BuildingFollowed
  BY <1>5, <1>6 DEF TimerInv, On, Import!BuildingFollowed
<1>9. TruthInv
  <2>1. Indexes(1)
    BY <1>5 DEF Indexes, WillAsk
  <2>2. Indexed
    BY <1>4, <2>1 DEF Indexed
  <2>3. \A p \in Import!Polls : ~ Answered(p)
    BY <1>5 DEF Answered
  <2> QED
    BY <1>6, <2>2, <2>3 DEF TruthInv, Stale, Import!States
<1> QED
  BY <1>7, <1>8, <1>9 DEF PollInv

\* Each step keeps PollInv.
LEMMA PollsKept == PollInv /\ [Next]_vars => PollInv'
<1>1. PollInv /\ Import!Next => PollInv'
  <2> SUFFICES ASSUME PollInv, Import!Next PROVE PollInv'
    OBVIOUS
  <2>1. ASSUME NEW p \in Import!Polls, Import!PollStep(p) PROVE PollInv'
    BY <2>1, AnswerSteps, FreshSteps, BuildingSteps, LastSteps DEF Import!PollStep
  <2>2. ASSUME NEW b \in Import!Buttons, Import!Accepted(b) PROVE PollInv'
    <3>1. PICK p \in Import!Polls : polls[p].at = "off" /\ Import!Begins(p, b)
      BY <2>2 DEF Import!Accepted
    <3> QED
      BY <2>2, <3>1, FreshSteps
  <2> QED
    BY <2>1, <2>2, GallerySteps, OtherSteps DEF Import!Next, Import!ClickStep
<1>2. PollInv /\ UNCHANGED ofImport => PollInv'
  BY DEF ofImport, PollInv, PollTypes, TimerInv, TruthInv, Import!BuildingFollowed, On, Answered,
         WillAsk, ClickAccepted, Indexes, Corrects, Renews, Indexed, Corrected, Renewed, Stale
<1> QED
  BY <1>1, <1>2 DEF Next, vars

\* While the page says that photos are being indexed it asks on, with one timer,
\* and when nothing is under way it is right about the gallery: for any clicks
\* and any order of the answers, with the exceptions of the three properties.
THEOREM PollsAreRight == Spec => []PollingRight
<1>1. PollInv => PollingRight
  <2> SUFFICES ASSUME PollInv PROVE PollingRight
    OBVIOUS
  <2>1. Import!BuildingFollowed /\ Import!OneTimer
    BY DEF PollInv, TimerInv, On, Import!OneTimer
  <2>2. Import!QuietTruth
    <3> SUFFICES ASSUME Import!Quiet, fails = 0, ~ overtaken
                 PROVE  {screen.word, screen.details} \cap Import!States \subseteq {gallery.state}
      BY DEF Import!QuietTruth
    <3>1. ~ Corrected /\ ~ Renewed
      BY DEF Import!Quiet, Corrected, Renewed, ClickAccepted, Corrects, Renews, WillAsk, Answered
    <3>2. screen.newest = gallery.changes
      BY <3>1 DEF PollInv, PollTypes, TruthInv, Screen
    <3> QED
      BY <3>1, <3>2 DEF PollInv, TruthInv
  <2> QED
    BY <2>1, <2>2 DEF PollingRight
<1> QED
  BY <1>1, PollsBegin, PollsKept, PTL DEF Spec

------------------------------------------------------------------------------
(* The export page does not lose a job.                                      *)

Unfinished == Export!Ledger!Unfinished
JobOf(u) == uploads[u].job

\* What the ledger says of the job of an upload, as long as no answer was missed.
Follows(u) ==
    /\ uploads[u].at = "receive" => report[JobOf(u)] \in {"uploading", "interrupted"}
    /\ uploads[u].at \in {"opened", "parts", "start"} => report[JobOf(u)] \in {"collecting", "interrupted"}
    /\ uploads[u].at = "abort" => report[JobOf(u)] \in {"collecting", "failed", "interrupted"}
    /\ uploads[u].at \in {"unstopped", "left"}
          => report[JobOf(u)] \in {"uploading", "collecting", "interrupted"}
    /\ uploads[u].at \in {"refused", "failed"} /\ JobOf(u) # NoJob
          => report[JobOf(u)] \in {"failed", "interrupted"}

\* Each upload opened its own job.
OwnJobs ==
    \A u \in Export!Starts :
        /\ JobOf(u) # NoJob => report[JobOf(u)] # "none"
        /\ uploads[u].at \in {"new", "sent"} => JobOf(u) = NoJob
        /\ \A v \in Export!Starts : JobOf(u) = JobOf(v) /\ JobOf(u) # NoJob => u = v

\* Uploads one after the other: an unfinished job is the job of the upload under
\* way, or the one the page remembers, or was left by an upload that ended.
OneAfterOther ==
    /\ \A u, v \in Export!Starts : Export!Active(u) /\ Export!Active(v) => u = v
    /\ \A j \in Jobs : report[j] \in Unfinished =>
          \/ \E u \in Export!Starts : Export!Active(u) /\ JobOf(u) = j
          \/ /\ \A u \in Export!Starts : ~ Export!Active(u)
             /\ remembered = j \/ \E u \in Export!Starts : uploads[u].at = "left" /\ JobOf(u) = j
    /\ \A u \in Export!Starts :
          uploads[u].at = "parts" /\ report[JobOf(u)] = "collecting" => remembered = JobOf(u)

HeldInv ==
    /\ ExportTypes /\ OwnJobs
    /\ ~ missed => \A u \in Export!Starts : Follows(u)
    /\ ~ missed /\ ~ crossing => OneAfterOther

\* A job moves on in the ledger: it stays unfinished or ends, and does not begin again.
LEMMA LedgerMoves ==
    ASSUME ExportTypes, NEW j \in Jobs,
           \/ Export!Ledger!Starts(j) \/ Export!Ledger!Runs(j)
           \/ Export!Ledger!Ends(j) \/ Export!Ledger!Stops(j)
    PROVE  /\ report[j] \in Unfinished /\ report'[j] # "none" /\ report'[j] \in Told
           /\ \A k \in Jobs : k # j => report'[k] = report[k]
           /\ Export!Ledger!Stops(j) => report'[j] = "interrupted"
           /\ Export!Ledger!Starts(j) => /\ report[j] \in {"uploading", "collecting"}
                                         /\ report'[j] \in {"queued", "failed"}
           /\ Export!Ledger!Runs(j) => report[j] = "queued"
           /\ Export!Ledger!Ends(j) => report[j] = "running"
  BY DEF ExportTypes, Upload, Places, Export!Ledger!Starts, Export!Ledger!Runs, Export!Ledger!Ends,
         Export!Ledger!Stops, Export!Ledger!Becomes, Unfinished, Export!Ledger!Unfinished,
         Told, Export!Ledger!Final

\* The service works on, or obeys the abort button.
LEMMA ServiceHolds ==
    ASSUME HeldInv, ClickTypes, Export!ServiceStep \/ (Export!AbortArrives /\ report' # report)
    PROVE  HeldInv'
<1> USE DEF HeldInv, Export!page, Export!OfStarts
<1>1. ExportTypes' /\ UNCHANGED <<uploads, remembered, missed, crossing>>
  BY QuietSteps DEF Export!ServiceStep, Export!AbortArrives
<1>2. PICK j \in Jobs :
          \/ Export!Ledger!Runs(j) \/ Export!Ledger!Ends(j) \/ Export!Ledger!Stops(j)
          \/ /\ Export!Ledger!Starts(j) /\ report[j] = "uploading"
             /\ \A u \in Export!Starts : JobOf(u) = j => uploads[u].at \in {"done", "failed"}
  <2>1. CASE Export!ServiceStep
    BY <2>1 DEF Export!ServiceStep, JobOf
  <2>2. CASE Export!AbortArrives /\ report' # report
    BY <2>2 DEF Export!AbortArrives, Export!AbortsAtService, ClickTypes, Export!NoClick
  <2> QED
    BY <2>1, <2>2
<1>3. /\ report[j] \in Unfinished /\ report'[j] # "none" /\ report'[j] \in Told
      /\ \A k \in Jobs : k # j => report'[k] = report[k]
      /\ Export!Ledger!Stops(j) => report'[j] = "interrupted"
      /\ Export!Ledger!Starts(j) => /\ report[j] \in {"uploading", "collecting"}
                                    /\ report'[j] \in {"queued", "failed"}
      /\ Export!Ledger!Runs(j) => report[j] = "queued"
      /\ Export!Ledger!Ends(j) => report[j] = "running"
  BY <1>2, LedgerMoves
<1>4. \A u \in Export!Starts : JobOf(u) \in Jobs \cup {NoJob}
  BY DEF ExportTypes, Upload, Places, JobOf
<1>5. OwnJobs'
  BY <1>1, <1>3, <1>4 DEF OwnJobs, JobOf
<1>6. ASSUME ~ missed, NEW u \in Export!Starts PROVE Follows(u)'
  <2>1. Follows(u)
    BY <1>6
  <2>2. CASE JobOf(u) # j \/ uploads[u].at \notin Placed \cup {"refused", "failed"}
    BY <1>1, <1>3, <1>4, <2>1, <2>2 DEF Follows, JobOf, ExportTypes, Upload, Places, Placed
  <2>3. CASE JobOf(u) = j /\ uploads[u].at \in Placed \cup {"refused", "failed"}
    <3>1. report'[j] = "interrupted" \/ uploads[u].at = "accepted"
      BY <1>2, <1>3, <2>1, <2>3, PagesAssumption
         DEF Follows, Export!Active, Placed, Unfinished, Export!Ledger!Unfinished
    <3> QED
      BY <1>1, <2>3, <3>1 DEF Follows, JobOf, Placed
  <2> QED
    BY <2>2, <2>3
<1>7. ASSUME OneAfterOther PROVE OneAfterOther'
  <2>1. \A k \in Jobs : report'[k] \in Unfinished => report[k] \in Unfinished
    BY <1>3
  <2>3. \A k \in Jobs : report'[k] = "collecting" => report[k] = "collecting"
    <3>1. report'[j] # "collecting"
      BY <1>2, <1>3 DEF Export!Ledger!Ends, Export!Ledger!Runs, Export!Ledger!Becomes, ExportTypes
    <3> QED
      BY <1>3, <3>1
  <2>4. \A u \in Export!Starts : uploads[u].at = "parts" => JobOf(u) \in Jobs
    BY DEF ExportTypes, Upload, Places, JobOf, Placed
  <2> QED
    BY <1>1, <1>7, <2>1, <2>3, <2>4 DEF OneAfterOther, JobOf, Export!Active
<1> QED
  BY <1>1, <1>5, <1>6, <1>7

\* Only an upload that begins makes another one active, or leads from a place to
\* another: what the upload under way does keeps the rest.
LEMMA UploadHolds ==
    ASSUME HeldInv, NEW u \in Export!Starts, Export!Active(u), ExportTypes',
           \A v \in Export!Starts : v # u => uploads'[v] = uploads[v],
           UNCHANGED crossing, missed => missed',
           \* its job
           uploads'[u].at # "sent", uploads'[u].at # "new",
           \/ JobOf(u)' = JobOf(u)
           \/ JobOf(u) = NoJob /\ JobOf(u)' \in Jobs /\ report[JobOf(u)'] = "none"
              /\ report'[JobOf(u)'] # "none",
           \A k \in Jobs : k # JobOf(u)' => report'[k] = report[k],
           JobOf(u)' \in Jobs /\ report[JobOf(u)'] # "none" => report'[JobOf(u)'] # "none",
           ~ missed' => Follows(u)',
           ~ missed' /\ ~ crossing' =>
              /\ JobOf(u)' \in Jobs /\ report'[JobOf(u)'] \in Unfinished =>
                    Export!Active(u)' \/ remembered' = JobOf(u)' \/ uploads'[u].at = "left"
              /\ uploads'[u].at = "parts" /\ report'[JobOf(u)'] = "collecting" => remembered' = JobOf(u)'
    PROVE  HeldInv'
<1> USE DEF HeldInv
<1>1. /\ \A v \in Export!Starts : JobOf(v) \in Jobs \cup {NoJob} /\ JobOf(v)' \in Jobs \cup {NoJob}
      /\ \A v \in Export!Starts : v # u => JobOf(v)' = JobOf(v)
  BY DEF ExportTypes, Upload, Places, JobOf
<1>2. \A v \in Export!Starts : v # u /\ JobOf(v) # NoJob => JobOf(u)' # JobOf(v)
  BY <1>1 DEF OwnJobs
<1>3. OwnJobs'
  <2>1. ASSUME NEW v \in Export!Starts PROVE JobOf(v)' # NoJob => report'[JobOf(v)'] # "none"
    BY <1>1, <1>2 DEF OwnJobs
  <2>2. ASSUME NEW v \in Export!Starts, uploads'[v].at \in {"new", "sent"} PROVE JobOf(v)' = NoJob
    BY <1>1, <2>2 DEF OwnJobs
  <2>3. ASSUME NEW v \in Export!Starts, NEW w \in Export!Starts,
               JobOf(v)' = JobOf(w)', JobOf(v)' # NoJob
        PROVE  v = w
    BY <1>1, <1>2, <2>3 DEF OwnJobs
  <2> QED
    BY <2>1, <2>2, <2>3 DEF OwnJobs
<1>4. ASSUME ~ missed', NEW v \in Export!Starts, v # u PROVE Follows(v)'
  <2>1. Follows(v) /\ uploads'[v] = uploads[v] /\ JobOf(v)' = JobOf(v)
    BY <1>1, <1>4
  <2>2. JobOf(v) # NoJob => report'[JobOf(v)] = report[JobOf(v)]
    BY <1>1, <1>2, <1>4
  <2>3. uploads[v].at \in Placed => JobOf(v) # NoJob
    BY PagesAssumption DEF ExportTypes, Upload, Places, JobOf
  <2> QED
    BY <2>1, <2>2, <2>3 DEF Follows, Placed
<1>5. ASSUME ~ missed', ~ crossing' PROVE OneAfterOther'
  <2>1. OneAfterOther
    BY <1>5
  <2>2. \A v \in Export!Starts : v # u => ~ Export!Active(v) /\ ~ Export!Active(v)'
    BY <2>1 DEF OneAfterOther, Export!Active
  <2>3. \A k \in Jobs : report[k] \in Unfinished => k = JobOf(u)
    BY <2>1, <2>2 DEF OneAfterOther
  <2>4. \A k \in Jobs : report'[k] \in Unfinished => k = JobOf(u)'
    <3> SUFFICES ASSUME NEW k \in Jobs, report'[k] \in Unfinished, k # JobOf(u)' PROVE FALSE
      OBVIOUS
    <3>1. k = JobOf(u)
      BY <2>3
    <3> QED
      BY <3>1, PagesAssumption
  <2>5. \A v \in Export!Starts : uploads'[v].at = "parts" => v = u
    BY <2>2 DEF Export!Active
  <2>6. \A v, w \in Export!Starts : Export!Active(v)' /\ Export!Active(w)' => v = w
    BY <2>2
  <2>7. ASSUME NEW k \in Jobs, report'[k] \in Unfinished
        PROVE  \/ \E v \in Export!Starts : Export!Active(v)' /\ JobOf(v)' = k
               \/ /\ \A v \in Export!Starts : ~ Export!Active(v)'
                  /\ \/ remembered' = k
                     \/ \E v \in Export!Starts : uploads'[v].at = "left" /\ JobOf(v)' = k
    BY <1>5, <2>2, <2>4, <2>7
  <2> QED
    BY <1>5, <2>5, <2>6, <2>7 DEF OneAfterOther
<1> QED
  BY <1>3, <1>4, <1>5

\* An upload is answered by the service.
LEMMA ArrivalHolds ==
    ASSUME HeldInv, ClickTypes, NEW u \in Export!Starts,
           Export!Arrives(u) \/ Export!Received(u) \/ Export!StartArrives(u) \/ Export!Aborts(u)
    PROVE  HeldInv'
<1> USE DEF HeldInv, Export!OnlyUploads, Export!OfStarts
<1>1. ExportTypes' /\ UNCHANGED <<remembered, missed, crossing>> /\ Export!Active(u)
  BY QuietSteps DEF Export!Arrives, Export!Received, Export!StartArrives, Export!Aborts, Export!Active
<1>2. /\ ~ missed => Follows(u)
      /\ JobOf(u) = uploads[u].job /\ JobOf(u)' = uploads'[u].job
  BY DEF JobOf
<1>3. CASE Export!Arrives(u)
  <2>1. JobOf(u) = NoJob /\ uploads[u].at = "sent"
    BY <1>3 DEF Export!Arrives, OwnJobs
  <2>2. CASE ~ Export!Ledger!Idle /\ Export!Goes(u, "refused") /\ UNCHANGED report
    <3>1. /\ uploads'[u].at = "refused" /\ JobOf(u)' = NoJob
          /\ \A v \in Export!Starts : v # u => uploads'[v] = uploads[v]
      BY <2>1, <2>2, <1>2 DEF Export!Goes, ExportTypes, Upload, Places
    <3> QED
      BY <1>1, <2>1, <2>2, <3>1, UploadHolds, PagesAssumption DEF Follows
  <2>3. ASSUME NEW j \in Jobs, Export!Ledger!Opens(j),
               \/ report'[j] = "failed" /\ Export!Replies(u, "refused", j)
               \/ report'[j] = "uploading" /\ Export!Replies(u, "receive", j)
               \/ report'[j] = "collecting" /\ Export!Replies(u, "opened", j)
        PROVE  HeldInv'
    <3>1. /\ JobOf(u)' = j /\ uploads'[u].at \in {"refused", "receive", "opened"}
          /\ \A v \in Export!Starts : v # u => uploads'[v] = uploads[v]
          /\ uploads'[u].at = "refused" => report'[j] = "failed"
          /\ uploads'[u].at = "receive" => report'[j] = "uploading"
          /\ uploads'[u].at = "opened" => report'[j] = "collecting"
      BY <1>2, <2>3 DEF Export!Replies, ExportTypes, Upload, Places
    <3>2. /\ report[j] = "none" /\ report'[j] # "none"
          /\ \A k \in Jobs : k # j => report'[k] = report[k]
      BY <2>3 DEF Export!Ledger!Opens, Export!Ledger!Becomes, ExportTypes, Upload, Places
    <3>3. Follows(u)'
      BY <3>1 DEF Follows
    <3>4. report'[j] \in Unfinished => Export!Active(u)'
      BY <3>1 DEF Export!Active, Unfinished, Export!Ledger!Unfinished
    <3> QED
      BY <1>1, <2>1, <3>1, <3>2, <3>3, <3>4, UploadHolds
  <2> QED
    BY <1>3, <2>2, <2>3 DEF Export!Arrives
<1>4. CASE Export!Received(u) \/ Export!StartArrives(u) \/ Export!Aborts(u)
  <2>1. JobOf(u) \in Jobs /\ JobOf(u) = uploads[u].job
    BY <1>4 DEF Export!Received, Export!StartArrives, Export!Aborts, ExportTypes, Upload, Places, Placed, JobOf
  <2>2. ASSUME NEW at \in {"accepted", "refused", "abort", "unstopped"}, Export!Goes(u, at)
        PROVE  /\ JobOf(u)' = JobOf(u) /\ uploads'[u].at = at /\ Export!Active(u)'
               /\ \A v \in Export!Starts : v # u => uploads'[v] = uploads[v]
    BY <1>2, <2>2 DEF Export!Goes, ExportTypes, Upload, Places, Export!Active
  <2>3. ASSUME NEW at \in {"accepted", "refused", "abort"}, Export!Goes(u, at),
               Export!Ledger!Starts(JobOf(u)), report'[JobOf(u)] = "queued" <=> at = "accepted"
        PROVE  HeldInv'
    <3>1. /\ report'[JobOf(u)] \in {"queued", "failed"}
          /\ \A k \in Jobs : k # JobOf(u) => report'[k] = report[k]
      BY <2>1, <2>3, LedgerMoves
    <3>2. Follows(u)'
      BY <2>2, <2>3, <3>1 DEF Follows
    <3> QED
      BY <1>1, <2>1, <2>2, <2>3, <3>1, <3>2, UploadHolds
  <2>4. ASSUME NEW at \in {"refused", "abort", "unstopped"}, Export!Goes(u, at), UNCHANGED report,
               ~ missed =>
                  /\ at = "abort" => report[JobOf(u)] \in {"collecting", "failed", "interrupted"}
                  /\ at = "refused" => report[JobOf(u)] \in {"failed", "interrupted"}
                  /\ at = "unstopped" => report[JobOf(u)] \in {"uploading", "collecting"}
        PROVE  HeldInv'
    <3>1. ~ missed => Follows(u)'
      BY <1>1, <2>2, <2>4 DEF Follows
    <3> QED
      BY <1>1, <2>1, <2>2, <2>4, <3>1, UploadHolds
  <2>5. CASE Export!Received(u)
    <3>1. CASE report[JobOf(u)] = "uploading"
      <4>1. \/ /\ Export!Ledger!Starts(JobOf(u))
               /\ Export!Goes(u, IF report'[JobOf(u)] = "queued" THEN "accepted" ELSE "refused")
            \/ Export!Goes(u, "unstopped") /\ UNCHANGED report
        BY <2>1, <2>5, <3>1 DEF Export!Received
      <4> QED
        BY <2>3, <2>4, <3>1, <4>1
    <3>2. CASE report[JobOf(u)] # "uploading"
      <4>1. Export!Goes(u, "refused") /\ UNCHANGED report /\ uploads[u].at = "receive"
        BY <2>1, <2>5, <3>2 DEF Export!Received
      <4> QED
        BY <1>2, <2>4, <3>2, <4>1 DEF Follows
    <3> QED
      BY <3>1, <3>2
  <2>6. CASE Export!StartArrives(u)
    <3>1. CASE /\ report[JobOf(u)] = "collecting" /\ Export!Ledger!Starts(JobOf(u))
               /\ Export!Goes(u, IF report'[JobOf(u)] = "queued" THEN "accepted" ELSE "abort")
      BY <2>3, <3>1
    <3>2. CASE Export!Goes(u, "abort") /\ UNCHANGED report
      <4>1. uploads[u].at = "start"
        BY <2>6 DEF Export!StartArrives
      <4> QED
        BY <1>2, <2>4, <3>2, <4>1 DEF Follows
    <3> QED
      BY <2>1, <2>6, <3>1, <3>2 DEF Export!StartArrives
  <2>7. CASE Export!Aborts(u)
    <3>1. uploads[u].at = "abort"
      BY <2>7 DEF Export!Aborts
    <3>2. CASE UNCHANGED report
      <4>1. Export!Goes(u, IF report[JobOf(u)] = "collecting" THEN "unstopped" ELSE "refused")
        BY <2>1, <2>7, <3>2 DEF Export!Aborts
      <4> QED
        BY <1>2, <2>4, <3>1, <3>2, <4>1 DEF Follows
    <3>3. CASE Export!Ledger!Stops(JobOf(u))
      <4>1. /\ report'[JobOf(u)] = "interrupted"
            /\ \A k \in Jobs : k # JobOf(u) => report'[k] = report[k]
        BY <2>1, <3>3, LedgerMoves
      <4>2. Export!Goes(u, "refused")
        BY <2>1, <2>7, <4>1 DEF Export!Aborts
      <4>3. Follows(u)'
        BY <2>2, <4>1, <4>2 DEF Follows
      <4> QED
        BY <1>1, <2>1, <2>2, <4>1, <4>2, <4>3, UploadHolds
    <3> QED
      BY <2>1, <2>7, <3>2, <3>3 DEF Export!Aborts, Export!AbortsAtService
  <2> QED
    BY <1>4, <2>5, <2>6, <2>7
<1> QED
  BY <1>3, <1>4

\* The page goes on with an upload, ends it, or misses an answer.
LEMMA PageHolds ==
    ASSUME HeldInv, ClickTypes, NEW u \in Export!Starts,
           \/ Export!Opened(u) \/ Export!PartsSent(u) \/ Export!Accepted(u)
           \/ Export!Refused(u) \/ Export!AnswerLost(u)
    PROVE  HeldInv'
<1> USE DEF HeldInv, Export!OnlyUploads, Export!OfStarts
<1>1. ExportTypes' /\ UNCHANGED crossing /\ (missed => missed') /\ Export!Active(u)
  <2>1. ExportTypes'
    BY QuietSteps, AcceptSteps
  <2>2. UNCHANGED crossing /\ (missed => missed')
    BY DEF Export!Opened, Export!PartsSent, Export!Accepted, Export!Refused, Export!AnswerLost
  <2>3. Export!Active(u)
    BY DEF Export!Opened, Export!PartsSent, Export!Accepted, Export!Refused, Export!AnswerLost, Export!Active
  <2> QED
    BY <2>1, <2>2, <2>3
<1>2. /\ ~ missed => Follows(u)
      /\ JobOf(u) = uploads[u].job /\ JobOf(u)' = uploads'[u].job /\ JobOf(u) \in Jobs \cup {NoJob}
      /\ JobOf(u) \in Jobs => report[JobOf(u)] # "none"
  BY PagesAssumption DEF JobOf, OwnJobs, ExportTypes, Upload, Places
<1>3. ASSUME NEW at \in {"parts", "start", "abort", "done", "failed", "left"}, Export!Goes(u, at)
      PROVE  /\ JobOf(u)' = JobOf(u) /\ uploads'[u].at = at
             /\ \A v \in Export!Starts : v # u => uploads'[v] = uploads[v]
             /\ at \notin {"done", "failed", "left"} => Export!Active(u)'
  BY <1>2, <1>3 DEF Export!Goes, ExportTypes, Upload, Places, Export!Active
<1>4. CASE Export!Opened(u) \/ Export!Accepted(u)
  <2>1. /\ UNCHANGED <<report, missed>> /\ remembered' = JobOf(u)
        /\ \/ uploads[u].at = "opened" /\ Export!Goes(u, "parts")
           \/ uploads[u].at = "accepted" /\ Export!Goes(u, "done")
    BY <1>2, <1>4 DEF Export!Opened, Export!Accepted
  <2>2. ~ missed' => Follows(u)'
    BY <1>2, <1>3, <2>1 DEF Follows
  <2>3. uploads'[u].at \in {"parts", "done"} /\ JobOf(u)' = JobOf(u)
        /\ \A v \in Export!Starts : v # u => uploads'[v] = uploads[v]
    BY <1>3, <2>1
  <2> QED
    BY <1>1, <2>1, <2>2, <2>3, UploadHolds
<1>5. CASE Export!PartsSent(u)
  <2>1. PICK at \in {"start", "abort"} :
            UNCHANGED <<report, missed, remembered>> /\ uploads[u].at = "parts" /\ Export!Goes(u, at)
    BY <1>5 DEF Export!PartsSent
  <2>2. /\ JobOf(u)' = JobOf(u) /\ uploads'[u].at = at /\ Export!Active(u)'
        /\ \A v \in Export!Starts : v # u => uploads'[v] = uploads[v]
    BY <1>3, <2>1
  <2>3. ~ missed' => Follows(u)'
    BY <1>2, <2>1, <2>2 DEF Follows
  <2> QED
    BY <1>1, <2>1, <2>2, <2>3, UploadHolds
<1>6. CASE Export!Refused(u)
  <2>1. PICK at \in {"failed", "left"} :
            /\ UNCHANGED <<report, missed>> /\ Export!Goes(u, at)
            /\ uploads[u].at = IF at = "failed" THEN "refused" ELSE "unstopped"
    BY <1>6 DEF Export!Refused
  <2>2. /\ JobOf(u)' = JobOf(u) /\ uploads'[u].at = at
        /\ \A v \in Export!Starts : v # u => uploads'[v] = uploads[v]
    BY <1>3, <2>1
  <2>3. ~ missed' => Follows(u)'
                     /\ (JobOf(u) \in Jobs /\ at = "failed" => report'[JobOf(u)] \notin Unfinished)
    BY <1>2, <2>1, <2>2, PagesAssumption DEF Follows, Unfinished, Export!Ledger!Unfinished
  <2> QED
    BY <1>1, <2>1, <2>2, <2>3, UploadHolds
<1>7. CASE Export!AnswerLost(u)
  <2>1. UNCHANGED report /\ missed' /\ (Export!Goes(u, "failed") \/ Export!Goes(u, "abort"))
    BY <1>7 DEF Export!AnswerLost
  <2>2. /\ JobOf(u)' = JobOf(u) /\ uploads'[u].at \in {"failed", "abort"}
        /\ \A v \in Export!Starts : v # u => uploads'[v] = uploads[v]
    BY <1>3, <2>1
  <2> QED
    BY <1>1, <2>1, <2>2, UploadHolds
<1> QED
  BY <1>4, <1>5, <1>6, <1>7

\* An upload begins: unless it crosses another one, no job is unfinished.
LEMMA StartHolds ==
    ASSUME HeldInv, NEW u \in Export!Starts, NEW kind \in {"zip", "parts"}, Export!Start(u, kind)
    PROVE  HeldInv'
<1> USE DEF HeldInv
<1>1. ExportTypes' /\ UNCHANGED <<report, remembered, missed>> /\ uploads[u].at = "new"
  BY StartSteps DEF Export!Start
<1>2. ~ crossing' => ~ crossing /\ Export!Ledger!Idle /\ \A v \in Export!Starts : ~ Export!Active(v)
  BY DEF Export!Start
<1>3. /\ \A v \in Export!Starts : v # u => uploads'[v] = uploads[v]
      /\ uploads'[u].at = "sent" /\ uploads'[u].job = uploads[u].job
  BY DEF Export!Start, ExportTypes, Upload, Places
<1>4. \A v \in Export!Starts : JobOf(v)' = JobOf(v)
  BY <1>3 DEF JobOf
<1>5. OwnJobs'
  BY <1>1, <1>3, <1>4 DEF OwnJobs
<1>6. ASSUME ~ missed', NEW v \in Export!Starts PROVE Follows(v)'
  <2>1. CASE v = u
    BY <1>3, <2>1 DEF Follows
  <2>2. CASE v # u
    BY <1>1, <1>3, <1>4, <1>6, <2>2 DEF Follows
  <2> QED
    BY <2>1, <2>2
<1>7. ASSUME ~ crossing' PROVE OneAfterOther'
  <2>1. \A v \in Export!Starts : Export!Active(v)' => v = u
    BY <1>2, <1>3, <1>7 DEF Export!Active
  <2>2. \A j \in Jobs : report'[j] \notin Unfinished
    BY <1>1, <1>2, <1>7 DEF Export!Ledger!Idle, Unfinished
  <2>3. \A v \in Export!Starts : uploads'[v].at # "parts"
    BY <1>3, <2>1 DEF Export!Active
  <2> QED
    BY <2>1, <2>2, <2>3 DEF OneAfterOther
<1> QED
  BY <1>1, <1>5, <1>6, <1>7

\* A check, a choice, or another page: uploads and jobs are left as they are.
LEMMA RestHolds ==
    ASSUME HeldInv, ExportTypes', UNCHANGED <<report, uploads, remembered, missed, crossing>>
    PROVE  HeldInv'
<1>1. OwnJobs' /\ (OneAfterOther => OneAfterOther')
  BY DEF HeldInv, OwnJobs, OneAfterOther, JobOf, Export!Active
<1>2. \A u \in Export!Starts : Follows(u) => Follows(u)'
  BY DEF Follows, JobOf
<1> QED
  BY <1>1, <1>2 DEF HeldInv

\* The page is loaded again: no upload is under way, and no answer is missed of
\* components that were being sent, whose job is remembered.
LEMMA LoadHolds == ASSUME HeldInv, Export!Load PROVE HeldInv'
<1> USE DEF HeldInv
<1>1. ExportTypes' /\ UNCHANGED <<report, remembered, crossing>>
  BY LoadSteps DEF Export!Load
<1>2. ~ missed' => ~ missed /\ \A u \in Export!Starts : Export!Active(u) => uploads[u].at = "parts"
  BY DEF Export!Load
<1>3. \A u \in Export!Starts :
          /\ JobOf(u)' = JobOf(u) /\ ~ Export!Active(u)'
          /\ uploads'[u].at = "done" \/ uploads'[u] = uploads[u]
          /\ ~ Export!Active(u) => uploads'[u] = uploads[u]
  <2>1. \A u \in Export!Starts :
            uploads'[u] = IF Export!Active(u) THEN [uploads[u] EXCEPT !.at = "done"] ELSE uploads[u]
    BY DEF Export!Load
  <2>2. \A u \in Export!Starts : /\ [uploads[u] EXCEPT !.at = "done"].job = uploads[u].job
                                 /\ [uploads[u] EXCEPT !.at = "done"].at = "done"
    BY DEF ExportTypes, Upload
  <2>3. \A u \in Export!Starts : ~ Export!Active(u)'
    BY LoadSteps
  <2> QED
    BY <2>1, <2>2, <2>3 DEF JobOf
<1>4. OwnJobs'
  BY <1>1, <1>3 DEF OwnJobs
<1>5. ASSUME ~ missed', NEW u \in Export!Starts PROVE Follows(u)'
  <2>1. Follows(u)
    BY <1>2, <1>5
  <2>2. CASE uploads'[u].at = "done"
    BY <2>2 DEF Follows
  <2>3. CASE uploads'[u] = uploads[u]
    BY <1>1, <1>3, <2>1, <2>3 DEF Follows
  <2> QED
    BY <1>3, <2>2, <2>3
<1>6. ASSUME ~ missed', ~ crossing' PROVE OneAfterOther'
  <2>1. OneAfterOther /\ \A u \in Export!Starts : Follows(u)
    BY <1>1, <1>2, <1>6
  <2>2. ASSUME NEW j \in Jobs, report'[j] \in Unfinished
        PROVE  remembered' = j \/ \E u \in Export!Starts : uploads'[u].at = "left" /\ JobOf(u)' = j
    <3>1. CASE \E u \in Export!Starts : Export!Active(u) /\ JobOf(u) = j
      <4>1. PICK u \in Export!Starts : uploads[u].at = "parts" /\ JobOf(u) = j
        BY <1>2, <1>6, <3>1
      <4>2. report[j] = "collecting"
        BY <1>1, <2>1, <2>2, <4>1 DEF Follows, Unfinished, Export!Ledger!Unfinished
      <4> QED
        BY <1>1, <2>1, <4>1, <4>2 DEF OneAfterOther
    <3>2. CASE remembered = j
      BY <1>1, <3>2
    <3>3. ASSUME NEW u \in Export!Starts, uploads[u].at = "left", JobOf(u) = j
          PROVE  uploads'[u].at = "left" /\ JobOf(u)' = j
      BY <1>3, <3>3 DEF Export!Active
    <3> QED
      BY <1>1, <2>1, <2>2, <3>1, <3>2, <3>3 DEF OneAfterOther
  <2>3. \A u \in Export!Starts : uploads'[u].at # "parts"
    BY <1>3 DEF Export!Active
  <2> QED
    BY <1>3, <2>2, <2>3 DEF OneAfterOther
<1> QED
  BY <1>1, <1>4, <1>5, <1>6

\* The page begins without uploads, and the service without jobs.
LEMMA HeldBegins == Init => HeldInv
<1> SUFFICES ASSUME Init PROVE HeldInv
  OBVIOUS
<1>1. ExportTypes
  BY ExportBegins DEF ExportInv
<1>2. /\ \A u \in Export!Starts : uploads[u].at = "new" /\ JobOf(u) = NoJob
      /\ \A j \in Jobs : report[j] \notin Unfinished
  BY DEF Init, Export!Init, Export!Ledger!Init, JobOf, Unfinished, Export!Ledger!Unfinished
<1>3. OwnJobs
  BY <1>2 DEF OwnJobs
<1>4. \A u \in Export!Starts : Follows(u)
  BY <1>2 DEF Follows
<1>5. OneAfterOther
  BY <1>2 DEF OneAfterOther, Export!Active
<1> QED
  BY <1>1, <1>3, <1>4, <1>5 DEF HeldInv

\* One job has the slot, and when a click on the abort button was obeyed none has
\* it, nor is one asked for.
OneInSlot ==
    \A j, k \in Jobs : report[j] \in Unfinished /\ report[k] \in Unfinished => j = k
ClickAlone ==
    clicked.at = "aborted" =>
        /\ \A j \in Jobs : report[j] \notin Unfinished
        /\ \A u \in Export!Starts : uploads[u].at # "sent"

JobsInv ==
    /\ HeldInv /\ ClickTypes /\ OneInSlot
    /\ ~ missed /\ ~ crossing => ClickAlone

\* A job begins only when an upload was sent and the slot is free.
LEMMA SlotMoves ==
    ASSUME ExportTypes, ClickTypes, Export!Next
    PROVE  \/ \A k \in Jobs : report'[k] \in Unfinished => report[k] \in Unfinished
           \/ /\ Export!Ledger!Idle
              /\ \E u \in Export!Starts : uploads[u].at = "sent"
              /\ \E j \in Jobs : \A k \in Jobs : k # j => report'[k] = report[k]
<1> DEFINE Result == \A k \in Jobs : report'[k] \in Unfinished => report[k] \in Unfinished
<1>1. UNCHANGED report => Result
  OBVIOUS
<1>2. ASSUME NEW j \in Jobs,
             \/ Export!Ledger!Starts(j) \/ Export!Ledger!Runs(j)
             \/ Export!Ledger!Ends(j) \/ Export!Ledger!Stops(j)
      PROVE  Result
  BY <1>2, LedgerMoves
<1>3. ASSUME NEW u \in Export!Starts, Export!Arrives(u), ~ UNCHANGED report
      PROVE  /\ Export!Ledger!Idle /\ uploads[u].at = "sent"
             /\ \E j \in Jobs : \A k \in Jobs : k # j => report'[k] = report[k]
  BY <1>3 DEF Export!Arrives, Export!Ledger!Opens, Export!Ledger!Becomes, ExportTypes
<1>4. ASSUME NEW u \in Export!Starts,
             Export!Received(u) \/ Export!StartArrives(u) \/ Export!Aborts(u)
      PROVE  Result
  <2>1. uploads[u].job \in Jobs
    BY <1>4 DEF Export!Received, Export!StartArrives, Export!Aborts, ExportTypes, Placed
  <2>2. \/ UNCHANGED report
        \/ Export!Ledger!Starts(uploads[u].job) \/ Export!Ledger!Stops(uploads[u].job)
    BY <1>4 DEF Export!Received, Export!StartArrives, Export!Aborts, Export!AbortsAtService
  <2> QED
    BY <1>1, <1>2, <2>1, <2>2
<1>5. CASE Export!ServiceStep
  BY <1>2, <1>5 DEF Export!ServiceStep
<1>6. CASE Export!AbortArrives
  BY <1>1, <1>2, <1>6 DEF Export!AbortArrives, Export!AbortsAtService, ClickTypes, Export!NoClick
<1>7. CASE \/ Export!Chooses \/ Export!AbortClicked \/ Export!AbortAnswered \/ Export!AbortLost
           \/ Export!Load
           \/ \E u \in Export!Starts :
                 \/ Export!Opened(u) \/ Export!PartsSent(u) \/ Export!Accepted(u)
                 \/ Export!Refused(u) \/ Export!AnswerLost(u)
                 \/ \E kind \in {"zip", "parts"} : Export!Start(u, kind)
           \/ \E c \in Export!Checks : Export!CheckStep(c) \/ Export!CheckFails(c)
  <2>1. UNCHANGED report
    BY <1>7 DEF Export!Chooses, Export!AbortClicked, Export!AbortAnswered, Export!AbortLost,
           Export!Load, Export!Opened, Export!PartsSent, Export!Accepted, Export!Refused,
           Export!AnswerLost, Export!Start, Export!CheckStep, Export!Reads, Export!ShowsEnd,
           Export!ShowsCollecting, Export!ShowsProgress, Export!Fires, Export!CheckFails
  <2> QED
    BY <1>1, <2>1
<1> QED
  BY <1>1, <1>3, <1>4, <1>5, <1>6, <1>7 DEF Export!Next, Export!UploadStep

\* The flags stay set; an upload is sent when it begins, which is crossing while a
\* click is on its way; and no click is obeyed but in one action.
LEMMA FlagsMove ==
    ASSUME ExportTypes, ClickTypes, Export!Next
    PROVE  /\ missed => missed'
           /\ crossing => crossing'
           /\ \A u \in Export!Starts :
                 uploads'[u].at = "sent" =>
                    \/ uploads[u].at = "sent"
                    \/ (clicked # Export!NoClick => crossing') /\ UNCHANGED clicked
           /\ clicked'.at = "aborted" => UNCHANGED clicked \/ Export!AbortArrives
<1> USE DEF Export!OnlyUploads, Export!OfStarts, Export!page
<1>1. CASE \/ Export!ServiceStep \/ Export!Chooses \/ Export!AbortClicked
           \/ Export!AbortArrives \/ Export!AbortAnswered \/ Export!AbortLost
           \/ \E c \in Export!Checks : Export!CheckStep(c) \/ Export!CheckFails(c)
  <2>1. /\ UNCHANGED <<uploads, missed, crossing>>
        /\ \/ UNCHANGED clicked \/ Export!AbortArrives \/ clicked' = Export!NoClick
           \/ clicked' = [at |-> "sent", job |-> remembered]
    BY <1>1 DEF Export!ServiceStep, Export!Chooses, Export!AbortClicked, Export!AbortArrives,
           Export!AbortAnswered, Export!AbortLost, Export!CheckStep, Export!Reads, Export!ShowsEnd,
           Export!ShowsCollecting, Export!ShowsProgress, Export!Fires, Export!CheckFails
  <2> QED
    BY <2>1 DEF Export!NoClick
<1>2. ASSUME NEW u \in Export!Starts, Export!UploadStep(u) \/ Export!AnswerLost(u)
      PROVE  /\ missed => missed'
             /\ UNCHANGED <<crossing, clicked>>
             /\ \A v \in Export!Starts : uploads'[v].at = "sent" => uploads[v].at = "sent"
  <2>1. (missed => missed') /\ UNCHANGED <<crossing, clicked>>
    BY <1>2 DEF Export!UploadStep, Export!Arrives, Export!Received, Export!StartArrives,
           Export!Opened, Export!PartsSent, Export!Accepted, Export!Refused, Export!Aborts,
           Export!AnswerLost
  <2>2. PICK at \in Places \ {"new", "sent"} :
            Export!Goes(u, at) \/ \E j \in Jobs : Export!Replies(u, at, j)
    BY <1>2 DEF Export!UploadStep, Export!Arrives, Export!Received, Export!StartArrives,
           Export!Opened, Export!PartsSent, Export!Accepted, Export!Refused, Export!Aborts,
           Export!AnswerLost, Places
  <2>3. \A v \in Export!Starts : uploads'[v].at = "sent" => uploads[v].at = "sent"
    BY <2>2 DEF Export!Goes, Export!Replies, ExportTypes, Upload
  <2> QED
    BY <2>1, <2>3
<1>3. ASSUME NEW u \in Export!Starts, NEW kind \in {"zip", "parts"}, Export!Start(u, kind)
      PROVE  /\ UNCHANGED <<missed, clicked>>
             /\ crossing => crossing'
             /\ clicked # Export!NoClick => crossing'
  BY <1>3 DEF Export!Start
<1>4. CASE Export!Load
  <2>1. /\ missed => missed'
        /\ UNCHANGED crossing /\ clicked' = Export!NoClick
        /\ \A u \in Export!Starts : uploads'[u].at = "sent" => uploads[u].at = "sent"
    BY <1>4 DEF Export!Load, ExportTypes, Upload, Places
  <2> QED
    BY <2>1 DEF Export!NoClick
<1> QED
  BY <1>1, <1>2, <1>3, <1>4 DEF Export!Next

\* An obeyed click is answered: no job is unfinished, so that none is forgotten.
LEMMA AnsweredHolds ==
    ASSUME JobsInv, Export!AbortAnswered
    PROVE  HeldInv'
<1>1. ExportTypes' /\ UNCHANGED <<report, uploads, missed, crossing>> /\ clicked.at = "aborted"
  BY QuietSteps DEF JobsInv, HeldInv, Export!AbortAnswered
<1>2. OwnJobs' /\ \A u \in Export!Starts : Follows(u) => Follows(u)'
  BY <1>1 DEF JobsInv, HeldInv, OwnJobs, Follows, JobOf
<1>3. ASSUME ~ missed, ~ crossing PROVE OneAfterOther'
  <2>1. OneAfterOther /\ \A j \in Jobs : report[j] \notin Unfinished
    BY <1>1, <1>3 DEF JobsInv, HeldInv, ClickAlone
  <2>2. \A u \in Export!Starts : uploads[u].at = "parts" => report[JobOf(u)] # "collecting"
    BY <2>1 DEF JobsInv, HeldInv, ExportTypes, Placed, JobOf, Unfinished, Export!Ledger!Unfinished
  <2> QED
    BY <1>1, <2>1, <2>2 DEF OneAfterOther, JobOf, Export!Active
<1> QED
  BY <1>1, <1>2, <1>3 DEF JobsInv, HeldInv

\* One job has the slot, and an obeyed click is alone: each step keeps it.
LEMMA SlotHolds ==
    ASSUME JobsInv, Export!Next
    PROVE  OneInSlot' /\ (~ missed' /\ ~ crossing' => ClickAlone')
<1> USE DEF JobsInv
<1>1. ExportTypes
  BY DEF HeldInv
<1>2. OneInSlot'
  BY <1>1, SlotMoves DEF OneInSlot, Export!Ledger!Idle, Unfinished
<1>3. ASSUME ~ missed', ~ crossing', clicked'.at = "aborted" PROVE ClickAlone'
  <2>0. ClickAlone /\ HeldInv /\ OneAfterOther
    BY <1>1, <1>3, FlagsMove DEF HeldInv
  <2>1. CASE UNCHANGED clicked
    <3>1. /\ \A j \in Jobs : report[j] \notin Unfinished
          /\ \A u \in Export!Starts : uploads[u].at # "sent"
          /\ clicked # Export!NoClick
      BY <1>3, <2>0, <2>1 DEF ClickAlone, Export!NoClick
    <3>2. \A j \in Jobs : report'[j] \notin Unfinished
      BY <1>1, <3>1, SlotMoves
    <3>3. \A u \in Export!Starts : uploads'[u].at # "sent"
      BY <1>1, <1>3, <3>1, FlagsMove
    <3> QED
      BY <3>2, <3>3 DEF ClickAlone
  <2>2. CASE Export!AbortArrives
    <3>1. /\ clicked.job \in Jobs /\ report[clicked.job] = "collecting"
          /\ Export!Ledger!Stops(clicked.job) /\ UNCHANGED uploads
      BY <1>3, <2>2 DEF Export!AbortArrives, Export!AbortsAtService, ClickTypes, Export!NoClick
    <3>2. /\ report'[clicked.job] = "interrupted"
          /\ \A k \in Jobs : k # clicked.job => report'[k] = report[k]
      BY <1>1, <3>1, LedgerMoves
    <3>3. \A k \in Jobs : k # clicked.job => report[k] \notin Unfinished
      BY <3>1 DEF OneInSlot, Unfinished, Export!Ledger!Unfinished
    <3>4. \A k \in Jobs : report'[k] \notin Unfinished
      BY <3>2, <3>3 DEF Unfinished, Export!Ledger!Unfinished
    <3>5. ASSUME NEW u \in Export!Starts, uploads[u].at = "sent" PROVE FALSE
      <4>1. Export!Active(u) /\ JobOf(u) = NoJob
        BY <2>0, <3>5 DEF Export!Active, HeldInv, OwnJobs
      <4>2. report[clicked.job] \in Unfinished
        BY <3>1 DEF Unfinished, Export!Ledger!Unfinished
      <4>3. PICK v \in Export!Starts : Export!Active(v) /\ JobOf(v) = clicked.job
        BY <2>0, <3>1, <4>1, <4>2 DEF OneAfterOther
      <4> QED
        BY <2>0, <3>1, <4>1, <4>3, PagesAssumption DEF OneAfterOther
    <3> QED
      BY <3>1, <3>4, <3>5 DEF ClickAlone
  <2> QED
    BY <1>1, <1>3, <2>1, <2>2, FlagsMove
<1> QED
  BY <1>2, <1>3 DEF ClickAlone

\* An unfinished job of the export is uploaded, polled or remembered, and an upload
\* that failed does not run, unless an answer was missed, uploads crossed each other,
\* a job or an abort on its way, or the service could not write the end of an
\* upload: for any jobs, clicks on start and on abort, orders in which requests
\* arrive and are answered, restarts of the service and loads of the page.
THEOREM JobsAreHeld == Spec => []JobsHeld
<1>1. JobsInv /\ Export!Next => HeldInv'
  <2> SUFFICES ASSUME JobsInv, Export!Next PROVE HeldInv'
    OBVIOUS
  <2>0. HeldInv /\ ClickTypes
    BY DEF JobsInv
  <2>1. ASSUME NEW c \in Export!Checks, Export!CheckStep(c) \/ Export!CheckFails(c) PROVE HeldInv'
    <3>1. ExportTypes' /\ UNCHANGED <<report, uploads>>
      BY <2>0, <2>1, CheckSteps DEF HeldInv
    <3>2. UNCHANGED <<remembered, missed, crossing>>
      BY <2>1 DEF Export!CheckStep, Export!Reads, Export!ShowsEnd, Export!ShowsCollecting,
             Export!ShowsProgress, Export!Fires, Export!CheckFails, Export!OfStarts
    <3> QED
      BY <2>0, <3>1, <3>2, RestHolds
  <2>2. CASE \/ Export!Chooses \/ Export!AbortClicked \/ Export!AbortLost
             \/ (Export!AbortArrives /\ UNCHANGED report)
    <3>1. ExportTypes' /\ UNCHANGED <<report, uploads, remembered, missed, crossing>>
      BY <2>0, <2>2, QuietSteps
         DEF HeldInv, Export!Chooses, Export!AbortClicked, Export!AbortLost, Export!AbortArrives,
             Export!OfStarts
    <3> QED
      BY <2>0, <3>1, RestHolds
  <2> QED
    BY <2>0, <2>1, <2>2, ServiceHolds, ArrivalHolds, PageHolds, StartHolds, LoadHolds, AnsweredHolds
       DEF Export!Next, Export!UploadStep
<1>2. HeldInv /\ UNCHANGED ofExport => HeldInv'
  <2> SUFFICES ASSUME HeldInv, UNCHANGED ofExport PROVE HeldInv'
    OBVIOUS
  <2>1. ExportTypes' /\ UNCHANGED <<report, uploads, remembered, missed, crossing>>
    BY DEF ofExport, HeldInv, ExportTypes, Upload, Places
  <2> QED
    BY <2>1, RestHolds
<1>3. JobsInv /\ [Next]_vars => JobsInv'
  <2>1. ASSUME JobsInv, UNCHANGED ofExport PROVE JobsInv'
    BY <1>2, <2>1 DEF JobsInv, ofExport, ClickTypes, OneInSlot, ClickAlone
  <2>2. ASSUME JobsInv, Export!Next PROVE JobsInv'
    <3>1. ClickTypes'
      BY <2>2, ClickKept DEF JobsInv, HeldInv
    <3> QED
      BY <1>1, <2>2, <3>1, SlotHolds DEF JobsInv
  <2> QED
    BY <2>1, <2>2 DEF Next, vars
<1>4. Init => JobsInv
  <2>1. ASSUME Init PROVE /\ clicked = Export!NoClick
                          /\ \A j \in Jobs : report[j] \notin Unfinished
    BY <2>1 DEF Init, Export!Init, Export!Ledger!Init, Unfinished, Export!Ledger!Unfinished
  <2> QED
    BY <2>1, HeldBegins DEF JobsInv, ClickTypes, OneInSlot, ClickAlone, Export!NoClick
<1>5. JobsInv => JobsHeld
  <2> SUFFICES ASSUME JobsInv PROVE JobsHeld
    OBVIOUS
  <2>0. HeldInv
    BY DEF JobsInv
  <2>1. Export!JobsHeld
    BY <2>0 DEF HeldInv, OneAfterOther, Export!JobsHeld, JobOf, Unfinished
  <2>2. Export!FailedNotRunning
    BY <2>0 DEF HeldInv, Follows, Export!FailedNotRunning, JobOf
  <2> QED
    BY <2>1, <2>2 DEF JobsHeld
<1> QED
  BY <1>3, <1>4, <1>5, PTL DEF Spec

------------------------------------------------------------------------------
(* The page of uploaded files.                                               *)

Apart(s) == \A i, j \in DOMAIN s : s[i] = s[j] => i = j

\* A finite set is listed with each of its members once.
LEMMA ListedOnce ==
    ASSUME NEW S, IsFiniteSet(S)
    PROVE  LET s == Files!SetToSeq(S)
           IN  /\ Files!Cardinality(S) = Cardinality(S)
               /\ Cardinality(S) \in Nat /\ s \in [1..Cardinality(S) -> S]
               /\ Apart(s) /\ \A x \in S : \E i \in 1..Cardinality(S) : s[i] = x
<1> DEFINE n == Cardinality(S)
           s == Files!SetToSeq(S)
<1>1. n \in Nat /\ ExistsBijection(1..n, S)
  BY FS_CardinalityType
<1>2. PICK b \in Bijection(1..n, S) : TRUE
  BY <1>1 DEF ExistsBijection
<1>3. b \in [1..n -> S] /\ Files!IsInjective(b)
  BY <1>2 DEF Bijection, Injection, IsInjective, Files!IsInjective
<1>4. s \in [1..n -> S] /\ Files!IsInjective(s)
  <2>1. \E f \in [1..n -> S] : Files!IsInjective(f)
    BY <1>3
  <2>2. s = CHOOSE f \in [1..n -> S] : Files!IsInjective(f)
    BY DEF Files!SetToSeq, Files!Cardinality, Cardinality
  <2> HIDE DEF n, s
  <2> QED
    BY <2>1, <2>2, Zenon
<1>5. s \in Injection(1..n, S)
  BY <1>4 DEF Injection, IsInjective, Files!IsInjective
<1>6. IsFiniteSet(1..n) /\ Cardinality(1..n) = n
  BY <1>1, FS_Interval
<1>7. s \in Surjection(1..n, S)
  BY <1>5, <1>6, FS_Injection
<1>8. Files!Cardinality(S) = n
  BY DEF Files!Cardinality, Cardinality
<1> QED
  BY <1>1, <1>4, <1>7, <1>8 DEF Surjection, Apart, Files!IsInjective

\* An item is put before the others.
LEMMA PutFirst ==
    ASSUME NEW S, NEW s \in Seq(S), NEW x \in S
    PROVE  LET t == <<x>> \o s
           IN  /\ t \in Seq(S) /\ Files!ToSet(t) = {x} \cup Files!ToSet(s)
               /\ Apart(s) /\ x \notin Files!ToSet(s) => Apart(t)
<1> DEFINE t == <<x>> \o s
<1>1. <<x>> \in Seq(S) /\ Len(<<x>>) = 1 /\ <<x>>[1] = x
  OBVIOUS
<1>2. /\ Len(s) \in Nat /\ DOMAIN s = 1..Len(s)
      /\ t \in Seq(S) /\ Len(t) = 1 + Len(s)
      /\ \A i \in 1..1 + Len(s) : t[i] = IF i <= 1 THEN <<x>>[i] ELSE s[i - 1]
  BY <1>1, ConcatProperties, LenProperties
<1>3. DOMAIN t = 1..Len(s) + 1
  BY <1>2, LenProperties
<1> HIDE DEF t
<1>4. t[1] = x /\ \A i \in 1..Len(s) : t[i + 1] = s[i]
  BY <1>1, <1>2
<1>5. \A i \in DOMAIN t : i = 1 \/ \E j \in 1..Len(s) : i = j + 1
  <2> SUFFICES ASSUME NEW i \in DOMAIN t, i # 1 PROVE \E j \in 1..Len(s) : i = j + 1
    OBVIOUS
  <2>1. i - 1 \in 1..Len(s) /\ i = (i - 1) + 1
    BY <1>2, <1>3
  <2> QED
    BY <2>1
<1>6. Files!ToSet(t) = {x} \cup Files!ToSet(s)
  <2>1. \A y \in Files!ToSet(t) : y \in {x} \cup Files!ToSet(s)
    <3> SUFFICES ASSUME NEW i \in DOMAIN t PROVE t[i] \in {x} \cup Files!ToSet(s)
      BY DEF Files!ToSet
    <3>1. \A j \in 1..Len(s) : s[j] \in Files!ToSet(s)
      BY <1>2 DEF Files!ToSet
    <3> QED
      BY <1>4, <1>5, <3>1
  <2>2. x \in Files!ToSet(t)
    BY <1>2, <1>3, <1>4 DEF Files!ToSet
  <2>3. \A j \in 1..Len(s) : j + 1 \in DOMAIN t
    BY <1>2, <1>3
  <2>4. \A y \in Files!ToSet(s) : y \in Files!ToSet(t)
    BY <1>2, <1>4, <2>3 DEF Files!ToSet
  <2> QED
    BY <2>1, <2>2, <2>4
<1>7. ASSUME Apart(s), x \notin Files!ToSet(s) PROVE Apart(t)
  <2>1. \A j \in 1..Len(s) : s[j] # x
    BY <1>2, <1>7 DEF Files!ToSet
  <2>2. \A i, j \in 1..Len(s) : s[i] = s[j] => i = j
    BY <1>2, <1>7 DEF Apart
  <2> SUFFICES ASSUME NEW i \in DOMAIN t, NEW j \in DOMAIN t, t[i] = t[j] PROVE i = j
    BY DEF Apart
  <2>3. CASE i = 1
    BY <1>4, <1>5, <2>1, <2>3
  <2>4. CASE i # 1
    <3>1. PICK k \in 1..Len(s) : i = k + 1
      BY <1>5, <2>4
    <3>2. j # 1
      BY <1>4, <2>1, <3>1
    <3>3. PICK m \in 1..Len(s) : j = m + 1
      BY <1>5, <3>2
    <3> QED
      BY <1>4, <2>2, <3>1, <3>3
  <2> QED
    BY <2>3, <2>4
<1> QED
  BY <1>2, <1>6, <1>7 DEF t

\* An item is taken out.
LEMMA TakenOut ==
    ASSUME NEW S, NEW s \in Seq(S), NEW k \in 1..Len(s)
    PROVE  LET t == Files!RemoveAt(s, k)
           IN  /\ t \in Seq(S) /\ Files!ToSet(t) \subseteq Files!ToSet(s)
               /\ Apart(s) => Apart(t) /\ Files!ToSet(t) = Files!ToSet(s) \ {s[k]}
<1> DEFINE a == SubSeq(s, 1, k - 1)
           b == SubSeq(s, k + 1, Len(s))
           t == Files!RemoveAt(s, k)
<1>1. Len(s) \in Nat /\ DOMAIN s = 1..Len(s) /\ \A i \in 1..Len(s) : s[i] \in S
  BY LenProperties, ElementOfSeq
<1>2. \A i \in 1 .. k - 1 : s[i] \in S
  BY <1>1
<1>3. \A i \in k + 1 .. Len(s) : s[i] \in S
  BY <1>1
<1> HIDE DEF t
<1>4. a \in Seq(S) /\ Len(a) = k - 1 /\ \A i \in 1 .. k - 1 : a[i] = s[i]
  <2>1. /\ a \in Seq(S) /\ Len(a) = (IF 1 <= k - 1 THEN (k - 1) - 1 + 1 ELSE 0)
        /\ \A i \in 1 .. (k - 1) - 1 + 1 : a[i] = s[1 + i - 1]
    BY <1>1, <1>2, SubSeqProperties
  <2> QED
    BY <1>1, <2>1
<1>5. b \in Seq(S) /\ Len(b) = Len(s) - k /\ \A i \in 1 .. Len(s) - k : b[i] = s[k + i]
  <2>1. /\ b \in Seq(S) /\ Len(b) = (IF k + 1 <= Len(s) THEN Len(s) - (k + 1) + 1 ELSE 0)
        /\ \A i \in 1 .. Len(s) - (k + 1) + 1 : b[i] = s[(k + 1) + i - 1]
    <3>1. k + 1 \in Int /\ Len(s) \in Int
      BY <1>1
    <3> QED
      BY <1>3, <3>1, SubSeqProperties
  <2> HIDE DEF b
  <2>2. Len(b) = Len(s) - k
    <3>1. Len(s) \in Nat /\ k \in Nat /\ k <= Len(s)
      BY <1>1
    <3>2. Len(b) = IF k + 1 <= Len(s) THEN Len(s) - (k + 1) + 1 ELSE 0
      BY <2>1
    <3> QED
      BY <3>1, <3>2
  <2>3. \A i \in 1 .. Len(s) - k : i \in 1 .. Len(s) - (k + 1) + 1 /\ (k + 1) + i - 1 = k + i
    BY <1>1
  <2> QED
    BY <2>1, <2>2, <2>3
<1>6. t = a \o b
  BY DEF Files!RemoveAt, t
<1> HIDE DEF a, b
<1>7. /\ t \in Seq(S) /\ Len(t) = Len(a) + Len(b)
      /\ \A i \in 1 .. Len(a) + Len(b) : t[i] = IF i <= Len(a) THEN a[i] ELSE b[i - Len(a)]
  BY <1>4, <1>5, <1>6, ConcatProperties
<1>8. DOMAIN t = 1 .. Len(s) - 1
  BY <1>1, <1>4, <1>5, <1>7, LenProperties
<1>81. /\ Len(a) = k - 1 /\ Len(a) + Len(b) = Len(s) - 1
       /\ \A i \in 1 .. Len(s) - 1 : t[i] = IF i <= k - 1 THEN a[i] ELSE b[i - (k - 1)]
  <2>1. Len(a) = k - 1 /\ Len(a) + Len(b) = Len(s) - 1
    BY <1>1, <1>4, <1>5
  <2> QED
    BY <1>7, <2>1
<1>9. \A i \in 1 .. Len(s) - 1 : t[i] = IF i < k THEN s[i] ELSE s[i + 1]
  <2> SUFFICES ASSUME NEW i \in 1 .. Len(s) - 1 PROVE t[i] = IF i < k THEN s[i] ELSE s[i + 1]
    OBVIOUS
  <2>1. CASE i < k
    <3>1. i <= k - 1 /\ i \in 1 .. k - 1
      BY <1>1, <2>1
    <3> QED
      BY <1>4, <1>81, <2>1, <3>1
  <2>2. CASE i >= k
    <3>1. i - (k - 1) \in 1 .. Len(s) - k /\ k + (i - (k - 1)) = i + 1
      BY <1>1, <2>2
    <3>2. ~ (i <= k - 1) /\ ~ (i < k)
      BY <1>1, <2>2
    <3> QED
      BY <1>5, <1>81, <3>1, <3>2
  <2> QED
    BY <1>1, <2>1, <2>2
<1>10. Files!ToSet(t) \subseteq Files!ToSet(s)
  BY <1>1, <1>8, <1>9 DEF Files!ToSet
<1>11. ASSUME Apart(s) PROVE Apart(t) /\ Files!ToSet(t) = Files!ToSet(s) \ {s[k]}
  <2>1. Apart(t)
    BY <1>1, <1>8, <1>9, <1>11 DEF Apart
  <2>2. ASSUME NEW j \in 1..Len(s), j # k PROVE \E i \in 1 .. Len(s) - 1 : t[i] = s[j]
    <3>1. CASE j < k
      BY <1>1, <1>9, <3>1
    <3>2. CASE j > k
      <4>1. j - 1 \in 1 .. Len(s) - 1 /\ ~ (j - 1 < k) /\ (j - 1) + 1 = j
        BY <1>1, <3>2
      <4> QED
        BY <1>9, <4>1
    <3> QED
      BY <1>1, <2>2, <3>1, <3>2
  <2>3. \A i \in 1 .. Len(s) - 1 : t[i] # s[k]
    BY <1>1, <1>9, <1>11 DEF Apart
  <2>4. \A x \in Files!ToSet(s) \ {s[k]} : x \in Files!ToSet(t)
    BY <1>1, <1>8, <2>2 DEF Files!ToSet
  <2>5. s[k] \notin Files!ToSet(t)
    BY <1>8, <2>3 DEF Files!ToSet
  <2> QED
    BY <1>10, <2>1, <2>4, <2>5
<1> QED
  BY <1>7, <1>10, <1>11 DEF t

\* The last item is taken out.
LEMMA LastOut ==
    ASSUME NEW S, NEW s \in Seq(S), s # <<>>
    PROVE  Files!Front(s) \in Seq(S) /\ Files!ToSet(Files!Front(s)) \subseteq Files!ToSet(s)
<1>1. Len(s) \in Nat /\ Len(s) > 0 /\ DOMAIN s = 1..Len(s) /\ \A i \in 1..Len(s) : s[i] \in S
  BY LenProperties, ElementOfSeq, EmptySeq
<1>2. \A i \in 1 .. Len(s) - 1 : s[i] \in S
  BY <1>1
<1>3. /\ SubSeq(s, 1, Len(s) - 1) \in Seq(S)
      /\ Len(SubSeq(s, 1, Len(s) - 1)) = (IF 1 <= Len(s) - 1 THEN (Len(s) - 1) - 1 + 1 ELSE 0)
      /\ \A i \in 1 .. (Len(s) - 1) - 1 + 1 : SubSeq(s, 1, Len(s) - 1)[i] = s[1 + i - 1]
  BY <1>1, <1>2, SubSeqProperties
<1> DEFINE t == SubSeq(s, 1, Len(s) - 1)
<1>4. DOMAIN t = 1 .. Len(s) - 1
  BY <1>1, <1>3, LenProperties
<1>5. \A i \in 1 .. Len(s) - 1 : t[i] = s[i]
  BY <1>1, <1>3
<1>6. Files!Front(s) = t
  BY DEF Files!Front
<1> HIDE DEF t
<1> QED
  BY <1>1, <1>3, <1>4, <1>5, <1>6 DEF Files!ToSet, t

Item == [from : {"upload", "listing"}, n : Nat, id : Nat]
Shown == Files!ToSet(items)

\* Types.  An upload has an id when its answer came, and puts its item once.
Pending == [at : {"new", "sent", "stored", "saved", "error"}, id : Nat, stored : Nat]
Listing == [at : {"new", "asking", "read", "done"}, ids : SUBSET Nat]
Deleting == [at : {"new", "sent", "deleted", "done"}, item : Item, id : Nat]

FileState ==
    /\ lastFile \in Nat /\ files \subseteq 1..lastFile
    /\ items \in Seq(Item)
    /\ pending \in [Files!Uploads -> Pending]
    /\ listings \in [Files!Listings -> Listing]
    /\ deletes \in [Files!Deletes -> Deleting]
    /\ crossed \in BOOLEAN /\ lost \in 0..MaxLosses

ItemTypes ==
    \A x \in Shown :
        /\ x.from = "upload" => /\ x.n \in Files!Uploads /\ x = Files!UploadItem(x.n)
                                /\ pending[x.n].at # "new"
        /\ x.id <= lastFile

IdTypes ==
    /\ \A u \in Files!Uploads :
          /\ pending[u].id <= lastFile /\ pending[u].stored <= lastFile
          /\ pending[u].at # "saved" => pending[u].id = 0
          /\ pending[u].at \in {"new", "sent"} => pending[u].stored = 0
          /\ pending[u].at = "stored" => pending[u].stored # 0
    /\ \A n \in Files!Listings : listings[n].ids \subseteq 1..lastFile

FileTypes == FileState /\ ItemTypes /\ IdTypes

\* A listing goes on alone, and no change of the files escapes it.
ListingAlone ==
    Files!ListingUnderWay =>
        /\ ~ Files!ChangeUnderWay
        /\ \A m, n \in Files!Listings :
              listings[m].at \in {"asking", "read"} /\ listings[n].at \in {"asking", "read"} => m = n
        /\ \A n \in Files!Listings : listings[n].at = "read" => listings[n].ids = files

\* Files whose upload was not answered yet, and deleted ones that are still shown
AwaitsAnswer(id) == \E u \in Files!Uploads : pending[u].at = "stored" /\ pending[u].stored = id
AwaitsRemoval(id) == \E d \in Files!Deletes : deletes[d].at = "deleted" /\ deletes[d].id = id

\* Every object and every id is in the list once.
EachOnce ==
    /\ Apart(items)
    /\ \A x, y \in Shown : Files!IdOf(x) = Files!IdOf(y) => x = y \/ Files!IdOf(x) = 0

\* The list shows the files but those that await their answer, and those that
\* await their removal.
ShowsFiles ==
    \A id \in 1..lastFile :
        (\E x \in Shown : Files!IdOf(x) = id)
            <=> (id \in files /\ ~ AwaitsAnswer(id)) \/ AwaitsRemoval(id)

\* Uploads under way have their item in the list, and each its own file.
UploadsShown ==
    /\ \A u \in Files!Uploads :
          /\ pending[u].at \in {"sent", "stored"} => Files!UploadItem(u) \in Shown
          /\ pending[u].at = "stored" => pending[u].stored \in files
    /\ \A u, v \in Files!Uploads :
          pending[u].at = "stored" /\ pending[v].at = "stored" /\ pending[u].stored = pending[v].stored
              => u = v

\* A delete has the item of its id, which stays in the list until it is answered.
DeletesShown ==
    /\ \A d \in Files!Deletes :
          /\ deletes[d].at = "deleted" =>
                /\ deletes[d].id \in 1..lastFile /\ deletes[d].id \notin files
                /\ deletes[d].item \in Shown /\ Files!IdOf(deletes[d].item) = deletes[d].id
          /\ deletes[d].at = "sent" /\ deletes[d].id \in files =>
                deletes[d].item \in Shown /\ Files!IdOf(deletes[d].item) = deletes[d].id
          /\ deletes[d].at = "sent" => deletes[d].id <= lastFile
    /\ \A d, e \in Files!Deletes :
          deletes[d].at = "deleted" /\ deletes[e].at = "deleted" /\ deletes[d].id = deletes[e].id
              => d = e

Accounted == EachOnce /\ ShowsFiles /\ UploadsShown /\ DeletesShown
Calm == ~ crossed /\ lost = 0

FilesInv ==
    /\ FileTypes
    /\ Calm => ListingAlone /\ (~ Files!ListingUnderWay => Accounted)

\* Ids of what is shown are ids of files, or none.
LEMMA ShownIds ==
    ASSUME FileTypes
    PROVE  \A x \in Shown : Files!IdOf(x) \in 0..lastFile /\ x \in Item
<1> SUFFICES ASSUME NEW x \in Shown PROVE Files!IdOf(x) \in 0..lastFile /\ x \in Item
  OBVIOUS
<1>1. x \in Item
  BY ElementOfSeq, LenProperties DEF FileTypes, FileState, Shown, Files!ToSet
<1>2. lastFile \in Nat /\ x.id \in 0..lastFile
  BY <1>1 DEF FileTypes, FileState, ItemTypes, Item
<1>3. CASE x.from = "upload"
  <2>1. x.n \in Files!Uploads
    BY <1>3 DEF FileTypes, ItemTypes
  <2>2. pending[x.n].id \in Nat /\ pending[x.n].id <= lastFile
    BY <2>1 DEF FileTypes, FileState, IdTypes, Pending
  <2> QED
    BY <1>1, <1>2, <1>3, <2>2 DEF Files!IdOf
<1> QED
  BY <1>1, <1>2, <1>3 DEF Files!IdOf

\* An item of an upload.
LEMMA UploadItems ==
    ASSUME NEW u \in Files!Uploads
    PROVE  /\ Files!UploadItem(u) \in Item
           /\ Files!UploadItem(u).from = "upload" /\ Files!UploadItem(u).n = u
           /\ Files!UploadItem(u).id = 0
           /\ Files!IdOf(Files!UploadItem(u)) = pending[u].id
           /\ Files!IdOf(Files!UploadItem(u))' = pending'[u].id
<1>1. u \in Nat
  BY PagesAssumption DEF Files!Uploads
<1> QED
  BY <1>1 DEF Files!UploadItem, Files!IdOf, Item

\* Items keep their ids with the uploads they come from.
LEMMA IdsKept ==
    ASSUME ItemTypes, \A u \in Files!Uploads : pending'[u].id = pending[u].id
    PROVE  \A x \in Shown : Files!IdOf(x)' = Files!IdOf(x)
<1> SUFFICES ASSUME NEW x \in Shown PROVE Files!IdOf(x)' = Files!IdOf(x)
  OBVIOUS
<1>1. CASE x.from = "upload"
  BY <1>1 DEF ItemTypes, Files!IdOf
<1>2. CASE x.from # "upload"
  BY <1>2 DEF Files!IdOf
<1> QED
  BY <1>1, <1>2

\* An upload begins.
LEMMA UploadKeeps == ASSUME FilesInv, NEW u \in Files!Uploads, Files!Upload(u) PROVE FilesInv'
<1> DEFINE item == Files!UploadItem(u)
<1>1. FileState /\ ItemTypes /\ IdTypes
  BY DEF FilesInv, FileTypes
<1>2. /\ pending' \in [Files!Uploads -> Pending]
      /\ pending'[u].at = "sent" /\ pending'[u].id = pending[u].id /\ pending'[u].stored = pending[u].stored
      /\ \A v \in Files!Uploads : v # u => pending'[v] = pending[v]
  BY <1>1 DEF Files!Upload, FileState, Pending
<1>3. pending[u].at = "new" /\ pending[u].id = 0 /\ pending[u].stored = 0
  BY <1>1 DEF Files!Upload, IdTypes
<1>4. \A x \in Shown : Files!IdOf(x)' = Files!IdOf(x)
  BY <1>1, <1>2, IdsKept
<1>5. /\ item \in Item /\ item.from = "upload" /\ item.n = u /\ item.id = 0
      /\ Files!IdOf(item)' = 0
  BY <1>2, <1>3, UploadItems
<1>6. item \notin Shown
  BY <1>1, <1>3, <1>5 DEF ItemTypes
<1>7. /\ items' \in Seq(Item) /\ Shown' = {item} \cup Shown
      /\ Apart(items) => Apart(items')
  BY <1>1, <1>5, <1>6, PutFirst DEF Files!Upload, FileState, Shown
<1>8. UNCHANGED <<files, lastFile, listings, deletes, lost>> /\ crossed' = (crossed \/ Files!ListingUnderWay)
  BY DEF Files!Upload, Files!Backend
<1> HIDE DEF item
<1>9. FileTypes'
  <2>1. ItemTypes'
    <3> SUFFICES ASSUME NEW x \in Shown'
                 PROVE  /\ x.from = "upload" => /\ x.n \in Files!Uploads /\ x = Files!UploadItem(x.n)
                                                /\ pending'[x.n].at # "new"
                        /\ x.id <= lastFile'
      BY DEF ItemTypes
    <3>1. CASE x = item
      <4>1. lastFile' \in Nat
        BY <1>1, <1>8 DEF FileState
      <4> QED
        BY <1>2, <1>5, <3>1, <4>1 DEF item
    <3>2. CASE x \in Shown
      BY <1>1, <1>2, <1>8, <3>2 DEF ItemTypes
    <3> QED
      BY <1>7, <3>1, <3>2
  <2>2. IdTypes'
    BY <1>1, <1>2, <1>3, <1>8 DEF IdTypes
  <2>3. crossed' \in BOOLEAN
    BY <1>1, <1>8 DEF FileState, Files!ListingUnderWay
  <2>4. FileState'
    BY <1>1, <1>2, <1>7, <1>8, <2>3 DEF FileState
  <2> QED
    BY <2>1, <2>2, <2>4 DEF FileTypes
<1>10. ASSUME Calm' PROVE ListingAlone' /\ Accounted'
  <2>1. Calm /\ ~ Files!ListingUnderWay /\ Accounted
    BY <1>8, <1>10 DEF Calm, FilesInv
  <2>2. ListingAlone'
    BY <1>8, <2>1 DEF ListingAlone, Files!ListingUnderWay
  <2>3. EachOnce'
    BY <1>4, <1>5, <1>7, <2>1 DEF Accounted, EachOnce
  <2>4. ShowsFiles'
    <3>1. \A id : AwaitsAnswer(id)' <=> AwaitsAnswer(id)
      BY <1>2, <1>3 DEF AwaitsAnswer
    <3>2. \A id : AwaitsRemoval(id)' <=> AwaitsRemoval(id)
      BY <1>8 DEF AwaitsRemoval
    <3>3. ASSUME NEW id \in 1..lastFile
          PROVE  (\E x \in Shown' : Files!IdOf(x)' = id) <=> (\E x \in Shown : Files!IdOf(x) = id)
      <4>1. id # 0
        BY <1>1 DEF FileState
      <4> QED
        BY <1>4, <1>5, <1>7, <4>1
    <3> QED
      BY <1>8, <2>1, <3>1, <3>2, <3>3 DEF Accounted, ShowsFiles
  <2>5. UploadsShown'
    BY <1>2, <1>7, <1>8, <2>1 DEF Accounted, UploadsShown, item
  <2>6. DeletesShown'
    BY <1>4, <1>7, <1>8, <2>1 DEF Accounted, DeletesShown
  <2> QED
    BY <2>2, <2>3, <2>4, <2>5, <2>6 DEF Accounted
<1> QED
  BY <1>9, <1>10 DEF FilesInv

\* An upload under way means that no listing is.
LEMMA NoListing ==
    ASSUME FilesInv, Calm, Files!ChangeUnderWay
    PROVE  ~ Files!ListingUnderWay /\ Accounted
  BY DEF FilesInv, ListingAlone

\* The backend stores a file.
LEMMA StoresKeeps == ASSUME FilesInv, NEW u \in Files!Uploads, Files!Stores(u) PROVE FilesInv'
<1>1. FileState /\ ItemTypes /\ IdTypes
  BY DEF FilesInv, FileTypes
<1>2. /\ lastFile \in Nat /\ files \subseteq 1..lastFile
      /\ lastFile' = lastFile + 1 /\ files' = files \cup {lastFile'}
      /\ UNCHANGED <<items, listings, deletes, crossed, lost>>
  BY <1>1 DEF Files!Stores, FileState
<1>3. lastFile' \in Nat /\ lastFile < lastFile' /\ lastFile' # 0 /\ files' \subseteq 1..lastFile'
      /\ lastFile' \notin files
  BY <1>2
<1>4. /\ pending' \in [Files!Uploads -> Pending]
      /\ pending'[u].at = "stored" /\ pending'[u].id = pending[u].id /\ pending'[u].stored = lastFile'
      /\ \A v \in Files!Uploads : v # u => pending'[v] = pending[v]
  BY <1>1, <1>3 DEF Files!Stores, FileState, Pending
<1>5. pending[u].at = "sent" /\ pending[u].id = 0
  BY <1>1 DEF Files!Stores, IdTypes
<1>6. UNCHANGED Shown /\ \A x \in Shown : Files!IdOf(x)' = Files!IdOf(x)
  BY <1>1, <1>2, <1>4, IdsKept DEF Shown
<1>7. FileTypes'
  <2>1. \A x \in Shown : x \in Item /\ x.id \in Nat
    BY <1>1, ShownIds DEF FileTypes, Item
  <2>2. ItemTypes'
    BY <1>1, <1>2, <1>3, <1>4, <1>6, <2>1 DEF ItemTypes
  <2>3. \A v \in Files!Uploads : pending[v].id \in Nat /\ pending[v].stored \in Nat
    BY <1>1 DEF FileState, Pending
  <2>4. IdTypes'
    <3>1. ASSUME NEW v \in Files!Uploads
          PROVE  /\ pending'[v].id <= lastFile' /\ pending'[v].stored <= lastFile'
                 /\ pending'[v].at # "saved" => pending'[v].id = 0
                 /\ pending'[v].at \in {"new", "sent"} => pending'[v].stored = 0
                 /\ pending'[v].at = "stored" => pending'[v].stored # 0
      <4>1. CASE v = u
        BY <1>3, <1>4, <1>5, <4>1
      <4>2. CASE v # u
        BY <1>1, <1>2, <1>3, <1>4, <2>3, <4>2 DEF IdTypes
      <4> QED
        BY <4>1, <4>2
    <3>2. 1..lastFile \subseteq 1..lastFile'
      BY <1>2
    <3> QED
      BY <1>1, <1>2, <3>1, <3>2 DEF IdTypes
  <2> QED
    BY <1>1, <1>2, <1>3, <1>4, <2>2, <2>4 DEF FileTypes, FileState
<1>8. ASSUME Calm' PROVE ListingAlone' /\ Accounted'
  <2>1. Calm /\ Files!ChangeUnderWay
    BY <1>2, <1>5, <1>8 DEF Calm, Files!ChangeUnderWay
  <2>2. ~ Files!ListingUnderWay /\ Accounted
    BY <2>1, NoListing
  <2>3. ListingAlone'
    BY <1>2, <2>2 DEF ListingAlone, Files!ListingUnderWay
  <2>4. EachOnce'
    BY <1>2, <1>6, <2>2 DEF Accounted, EachOnce
  <2>5. ShowsFiles'
    <3>1. \A id \in 1..lastFile' : AwaitsAnswer(id)' <=> AwaitsAnswer(id) \/ id = lastFile'
      BY <1>4, <1>5 DEF AwaitsAnswer
    <3>2. \A id : AwaitsRemoval(id)' <=> AwaitsRemoval(id)
      BY <1>2 DEF AwaitsRemoval
    <3>3. ~ AwaitsRemoval(lastFile') /\ \A x \in Shown : Files!IdOf(x) # lastFile'
      <4>1. ~ AwaitsRemoval(lastFile')
        BY <1>2, <2>2 DEF Accounted, DeletesShown, AwaitsRemoval
      <4>2. \A x \in Shown : Files!IdOf(x) \in 0..lastFile
        BY <1>1, ShownIds DEF FileTypes
      <4> QED
        BY <1>2, <4>1, <4>2
    <3>4. ASSUME NEW id \in 1..lastFile', id # lastFile'
          PROVE  id \in 1..lastFile /\ (id \in files' <=> id \in files)
      BY <1>2, <3>4
    <3> SUFFICES ASSUME NEW id \in 1..lastFile'
                 PROVE  (\E x \in Shown' : Files!IdOf(x)' = id)
                           <=> (id \in files' /\ ~ AwaitsAnswer(id)') \/ AwaitsRemoval(id)'
      BY DEF ShowsFiles
    <3>5. CASE id = lastFile'
      BY <1>6, <3>1, <3>2, <3>3, <3>5
    <3>6. CASE id # lastFile'
      BY <1>6, <2>2, <3>1, <3>2, <3>4, <3>6 DEF Accounted, ShowsFiles
    <3> QED
      BY <3>5, <3>6
  <2>6. UploadsShown'
    <3>1. \A v \in Files!Uploads : pending[v].at = "stored" =>
             pending[v].stored \in files /\ pending[v].stored # lastFile'
      BY <1>3, <2>2 DEF Accounted, UploadsShown
    <3>2. \A v \in Files!Uploads :
            /\ pending'[v].at \in {"sent", "stored"} => Files!UploadItem(v) \in Shown
            /\ pending'[v].at = "stored" => pending'[v].stored \in files'
      BY <1>2, <1>4, <1>5, <2>2 DEF Accounted, UploadsShown
    <3>3. \A v, w \in Files!Uploads :
            pending'[v].at = "stored" /\ pending'[w].at = "stored" /\ pending'[v].stored = pending'[w].stored
               => v = w
      BY <1>4, <2>2, <3>1 DEF Accounted, UploadsShown
    <3> QED
      BY <1>6, <3>2, <3>3 DEF UploadsShown
  <2>7. DeletesShown'
    <3>1. \A d \in Files!Deletes : deletes[d].at \in {"sent", "deleted"} =>
             /\ deletes[d].id <= lastFile /\ deletes[d].id \in Nat
             /\ deletes[d].id # lastFile' /\ deletes[d].id <= lastFile'
             /\ deletes[d].id \in 1..lastFile => deletes[d].id \in 1..lastFile'
             /\ deletes[d].id \in files' <=> deletes[d].id \in files
      <4> SUFFICES ASSUME NEW d \in Files!Deletes, deletes[d].at \in {"sent", "deleted"}
                   PROVE  /\ deletes[d].id <= lastFile /\ deletes[d].id \in Nat
                          /\ deletes[d].id # lastFile' /\ deletes[d].id <= lastFile'
                          /\ deletes[d].id \in 1..lastFile => deletes[d].id \in 1..lastFile'
                          /\ deletes[d].id \in files' <=> deletes[d].id \in files
        OBVIOUS
      <4>1. deletes[d].id \in Nat
        BY <1>1 DEF FileState, Deleting
      <4>2. deletes[d].id <= lastFile
        BY <1>2, <2>2 DEF Accounted, DeletesShown
      <4> QED
        BY <1>2, <4>1, <4>2
    <3> QED
      BY <1>2, <1>6, <2>2, <3>1 DEF Accounted, DeletesShown
  <2> QED
    BY <2>3, <2>4, <2>5, <2>6, <2>7 DEF Accounted
<1> QED
  BY <1>7, <1>8 DEF FilesInv

\* The item gets the id of its file.
LEMMA StoredKeeps == ASSUME FilesInv, NEW u \in Files!Uploads, Files!Stored(u) PROVE FilesInv'
<1> DEFINE item == Files!UploadItem(u)
<1>0. PICK st : st = pending[u].stored
  OBVIOUS
<1>1. FileState /\ ItemTypes /\ IdTypes
  BY DEF FilesInv, FileTypes
<1>2. UNCHANGED <<files, lastFile, items, listings, deletes, crossed, lost>> /\ UNCHANGED Shown
  BY DEF Files!Stored, Files!Backend, Shown
<1>3. pending[u].at = "stored" /\ pending[u].id = 0 /\ st \in Nat /\ st # 0 /\ st <= lastFile
  BY <1>0, <1>1 DEF Files!Stored, IdTypes, FileState, Pending
<1>4. /\ pending' \in [Files!Uploads -> Pending]
      /\ pending'[u].at = "saved" /\ pending'[u].id = st /\ pending'[u].stored = st
      /\ \A v \in Files!Uploads : v # u => pending'[v] = pending[v]
  BY <1>0, <1>1, <1>3 DEF Files!Stored, FileState, Pending
<1>5. /\ Files!IdOf(item)' = st /\ Files!IdOf(item) = 0
      /\ \A x \in Shown : x # item => Files!IdOf(x)' = Files!IdOf(x)
  <2>1. Files!IdOf(item)' = st /\ Files!IdOf(item) = 0
    BY <1>3, <1>4, UploadItems
  <2>2. ASSUME NEW x \in Shown, x # item PROVE Files!IdOf(x)' = Files!IdOf(x)
    <3>1. CASE x.from = "upload"
      BY <1>1, <1>4, <2>2, <3>1 DEF ItemTypes, Files!IdOf
    <3>2. CASE x.from # "upload"
      BY <3>2 DEF Files!IdOf
    <3> QED
      BY <3>1, <3>2
  <2> QED
    BY <2>1, <2>2
<1> HIDE DEF item
<1>6. FileTypes'
  <2>1. ItemTypes'
    BY <1>1, <1>2, <1>4 DEF ItemTypes
  <2>2. IdTypes'
    BY <1>1, <1>2, <1>3, <1>4 DEF IdTypes
  <2> QED
    BY <1>1, <1>2, <1>4, <2>1, <2>2 DEF FileTypes, FileState
<1>7. ASSUME Calm' PROVE ListingAlone' /\ Accounted'
  <2>1. Calm /\ Files!ChangeUnderWay
    BY <1>2, <1>3, <1>7 DEF Calm, Files!ChangeUnderWay
  <2>2. ~ Files!ListingUnderWay /\ Accounted
    BY <2>1, NoListing
  <2>3. ListingAlone'
    BY <1>2, <2>2 DEF ListingAlone, Files!ListingUnderWay
  <2>4. /\ item \in Shown /\ st \in files /\ st \in 1..lastFile
        /\ \A v \in Files!Uploads : pending[v].at = "stored" /\ pending[v].stored = st => v = u
    BY <1>0, <1>1, <1>3, <2>2 DEF Accounted, UploadsShown, item, FileState
  <2>5. ~ AwaitsRemoval(st) /\ AwaitsAnswer(st)
    BY <1>0, <1>3, <2>2, <2>4 DEF Accounted, DeletesShown, AwaitsRemoval, AwaitsAnswer
  <2>6. \A x \in Shown : Files!IdOf(x) # st
    BY <2>2, <2>4, <2>5 DEF Accounted, ShowsFiles
  <2>7. EachOnce'
    <3> SUFFICES ASSUME NEW x \in Shown, NEW y \in Shown, Files!IdOf(x)' = Files!IdOf(y)'
                 PROVE  x = y \/ Files!IdOf(x)' = 0
      BY <1>2, <2>2 DEF Accounted, EachOnce
    <3>1. CASE x = item
      BY <1>5, <2>6, <3>1
    <3>2. CASE y = item
      BY <1>5, <2>6, <3>2
    <3>3. CASE x # item /\ y # item
      BY <1>5, <2>2, <3>3 DEF Accounted, EachOnce
    <3> QED
      BY <3>1, <3>2, <3>3
  <2>8. ShowsFiles'
    <3>1. \A id : AwaitsRemoval(id)' <=> AwaitsRemoval(id)
      BY <1>2 DEF AwaitsRemoval
    <3> SUFFICES ASSUME NEW id \in 1..lastFile
                 PROVE  (\E x \in Shown : Files!IdOf(x)' = id)
                           <=> (id \in files /\ ~ AwaitsAnswer(id)') \/ AwaitsRemoval(id)
      BY <1>2, <3>1 DEF ShowsFiles
    <3>2. CASE id = st
      <4>1. ~ AwaitsAnswer(st)'
        BY <1>4, <2>4 DEF AwaitsAnswer
      <4> QED
        BY <1>5, <2>4, <3>2, <4>1
    <3>3. CASE id # st
      <4>1. AwaitsAnswer(id)' <=> AwaitsAnswer(id)
        BY <1>0, <1>3, <1>4, <3>3 DEF AwaitsAnswer
      <4>2. id # 0
        BY <1>1 DEF FileState
      <4>3. (\E x \in Shown : Files!IdOf(x)' = id) <=> (\E x \in Shown : Files!IdOf(x) = id)
        BY <1>5, <3>3, <4>2
      <4> QED
        BY <2>2, <4>1, <4>3 DEF Accounted, ShowsFiles
    <3> QED
      BY <3>2, <3>3
  <2>9. UploadsShown'
    BY <1>2, <1>4, <2>2 DEF Accounted, UploadsShown
  <2>10. DeletesShown'
    <3>1. 0 \notin files /\ 0 \notin 1..lastFile
      BY <1>1 DEF FileState
    <3>2. \A x \in Shown : Files!IdOf(x) # 0 => Files!IdOf(x)' = Files!IdOf(x)
      BY <1>5
    <3> QED
      BY <1>2, <2>2, <3>1, <3>2 DEF Accounted, DeletesShown
  <2> QED
    BY <2>3, <2>7, <2>8, <2>9, <2>10 DEF Accounted
<1> QED
  BY <1>6, <1>7 DEF FilesInv

\* An upload is refused, or its answer is lost.
LEMMA RefusedKeeps ==
    ASSUME FilesInv, NEW u \in Files!Uploads, Files!Refused(u) \/ Files!UploadLost(u)
    PROVE  FilesInv'
<1>1. FileState /\ ItemTypes /\ IdTypes
  BY DEF FilesInv, FileTypes
<1>2. /\ UNCHANGED <<files, lastFile, items, listings, deletes, crossed>> /\ UNCHANGED Shown
      /\ pending[u].at \in {"sent", "stored"}
      /\ \/ lost' = lost /\ pending[u].at = "sent"
         \/ lost' = lost + 1 /\ lost < MaxLosses
  BY DEF Files!Refused, Files!UploadLost, Files!Lost, Files!Backend, Shown
<1>3. lost' \in 0..MaxLosses /\ lost \in Nat
  BY <1>1, <1>2, PagesAssumption DEF FileState
<1>4. /\ pending' \in [Files!Uploads -> Pending]
      /\ pending'[u].at = "error" /\ pending'[u].id = pending[u].id /\ pending'[u].stored = pending[u].stored
      /\ \A v \in Files!Uploads : v # u => pending'[v] = pending[v]
  BY <1>1 DEF Files!Refused, Files!UploadLost, FileState, Pending
<1>5. \A x \in Shown : Files!IdOf(x)' = Files!IdOf(x)
  BY <1>1, <1>4, IdsKept
<1>6. FileTypes'
  <2>1. ItemTypes'
    BY <1>1, <1>2, <1>4 DEF ItemTypes
  <2>2. IdTypes'
    BY <1>1, <1>2, <1>4 DEF IdTypes
  <2> QED
    BY <1>1, <1>2, <1>3, <1>4, <2>1, <2>2 DEF FileTypes, FileState
<1>7. ASSUME Calm' PROVE ListingAlone' /\ Accounted'
  <2>1. Calm /\ Files!ChangeUnderWay /\ pending[u].at = "sent"
    BY <1>2, <1>3, <1>7 DEF Calm, Files!ChangeUnderWay
  <2>2. ~ Files!ListingUnderWay /\ Accounted
    BY <2>1, NoListing
  <2>3. ListingAlone'
    BY <1>2, <2>2 DEF ListingAlone, Files!ListingUnderWay
  <2>4. ShowsFiles'
    <3>1. \A id : (AwaitsAnswer(id)' <=> AwaitsAnswer(id)) /\ (AwaitsRemoval(id)' <=> AwaitsRemoval(id))
      BY <1>2, <1>4, <2>1 DEF AwaitsAnswer, AwaitsRemoval
    <3> QED
      BY <1>2, <1>5, <2>2, <3>1 DEF Accounted, ShowsFiles
  <2>5. EachOnce' /\ UploadsShown' /\ DeletesShown'
    BY <1>2, <1>4, <1>5, <2>2 DEF Accounted, EachOnce, UploadsShown, DeletesShown
  <2> QED
    BY <2>2, <2>3, <2>4, <2>5 DEF Accounted
<1> QED
  BY <1>6, <1>7 DEF FilesInv

\* An archive is stored, and its listing asked for.
LEMMA ArchiveKeeps == ASSUME FilesInv, NEW n \in Files!Listings, Files!Archive(n) PROVE FilesInv'
<1>1. FileState /\ ItemTypes /\ IdTypes
  BY DEF FilesInv, FileTypes
<1>2. /\ lastFile \in Nat /\ files \subseteq 1..lastFile
      /\ lastFile' = lastFile + 1 /\ files' = files \cup {lastFile'}
      /\ UNCHANGED <<items, pending, deletes, lost>> /\ UNCHANGED Shown
      /\ crossed' = (crossed \/ Files!ListingUnderWay \/ Files!ChangeUnderWay)
  BY <1>1 DEF Files!Archive, FileState, Shown
<1>3. lastFile' \in Nat /\ lastFile < lastFile' /\ files' \subseteq 1..lastFile'
  BY <1>2
<1>4. /\ listings' \in [Files!Listings -> Listing]
      /\ listings'[n].at = "asking" /\ listings'[n].ids = listings[n].ids
      /\ \A m \in Files!Listings : m # n => listings'[m] = listings[m]
  BY <1>1 DEF Files!Archive, FileState, Listing
<1>5. FileTypes'
  <2>1. \A x \in Shown : x.id \in Nat
    BY <1>1, ShownIds DEF FileTypes, Item
  <2>2. ItemTypes'
    BY <1>1, <1>2, <1>3, <2>1 DEF ItemTypes
  <2>3. \A v \in Files!Uploads : pending[v].id \in Nat /\ pending[v].stored \in Nat
    BY <1>1 DEF FileState, Pending
  <2>4. \A m \in Files!Listings : listings'[m].ids \subseteq 1..lastFile'
    <3>1. 1..lastFile \subseteq 1..lastFile'
      BY <1>2
    <3>2. \A m \in Files!Listings : listings'[m].ids \subseteq 1..lastFile
      BY <1>1, <1>4 DEF IdTypes
    <3> QED
      BY <3>1, <3>2
  <2>5. IdTypes'
    BY <1>1, <1>2, <1>3, <2>3, <2>4 DEF IdTypes
  <2>6. crossed' \in BOOLEAN
    BY <1>1, <1>2 DEF FileState, Files!ListingUnderWay, Files!ChangeUnderWay
  <2> QED
    BY <1>1, <1>2, <1>3, <1>4, <2>2, <2>5, <2>6 DEF FileTypes, FileState
<1>6. ASSUME Calm' PROVE ListingAlone' /\ Files!ListingUnderWay'
  <2>1. ~ Files!ListingUnderWay /\ ~ Files!ChangeUnderWay
    BY <1>2, <1>6 DEF Calm
  <2>2. ~ Files!ChangeUnderWay'
    BY <1>2, <2>1 DEF Files!ChangeUnderWay
  <2>3. \A m \in Files!Listings : m # n => listings'[m].at \notin {"asking", "read"}
    BY <1>4, <2>1 DEF Files!ListingUnderWay
  <2> QED
    BY <1>4, <2>2, <2>3 DEF ListingAlone, Files!ListingUnderWay
<1> QED
  BY <1>5, <1>6 DEF FilesInv

\* The backend lists the files.
LEMMA ListsKeeps == ASSUME FilesInv, NEW n \in Files!Listings, Files!Lists(n) PROVE FilesInv'
<1>1. FileState /\ ItemTypes /\ IdTypes
  BY DEF FilesInv, FileTypes
<1>2. /\ UNCHANGED <<files, lastFile, items, pending, deletes, crossed, lost>> /\ UNCHANGED Shown
      /\ listings[n].at = "asking" /\ files \subseteq 1..lastFile
  BY <1>1 DEF Files!Lists, Files!Backend, FileState, Shown
<1>3. [at |-> "read", ids |-> files] \in Listing
  BY <1>2 DEF Listing
<1>4. /\ listings' \in [Files!Listings -> Listing]
      /\ listings'[n].at = "read" /\ listings'[n].ids = files
      /\ \A m \in Files!Listings : m # n => listings'[m] = listings[m]
  BY <1>1, <1>3 DEF Files!Lists, FileState
<1>5. FileTypes'
  BY <1>1, <1>2, <1>4 DEF FileTypes, FileState, ItemTypes, IdTypes
<1>6. ASSUME Calm' PROVE ListingAlone' /\ Files!ListingUnderWay'
  <2>1. ListingAlone /\ Files!ListingUnderWay
    BY <1>2, <1>6 DEF Calm, FilesInv, Files!ListingUnderWay
  <2>2. ~ Files!ChangeUnderWay'
    BY <1>2, <2>1 DEF ListingAlone, Files!ChangeUnderWay
  <2>3. \A m \in Files!Listings : m # n => listings'[m].at \notin {"asking", "read"}
    BY <1>2, <1>4, <2>1 DEF ListingAlone
  <2> QED
    BY <1>2, <1>4, <2>2, <2>3 DEF ListingAlone, Files!ListingUnderWay
<1> QED
  BY <1>5, <1>6 DEF FilesInv

\* A list of what was listed has each file once.
LEMMA ListedItems ==
    ASSUME NEW n \in Files!Listings, NEW S \in SUBSET Nat, IsFiniteSet(S)
    PROVE  LET t == [i \in 1..Files!Cardinality(S) |-> Files!ListedItem(n, Files!SetToSeq(S)[i])]
           IN  /\ t \in Seq(Item) /\ Apart(t)
               /\ Files!ToSet(t) = {Files!ListedItem(n, id) : id \in S}
<1> DEFINE c == Cardinality(S)
           s == Files!SetToSeq(S)
           t == [i \in 1..c |-> Files!ListedItem(n, s[i])]
<1>1. /\ Files!Cardinality(S) = c /\ c \in Nat /\ s \in [1..c -> S] /\ Apart(s)
      /\ \A x \in S : \E i \in 1..c : s[i] = x
  BY ListedOnce
<1>2. n \in Nat
  BY PagesAssumption DEF Files!Listings
<1> HIDE DEF c, s
<1>3. /\ \A id \in S : Files!ListedItem(n, id) \in Item
      /\ \A a, b \in S : Files!ListedItem(n, a) = Files!ListedItem(n, b) => a = b
  BY <1>2 DEF Files!ListedItem, Item
<1>4. t \in [1..c -> Item] /\ DOMAIN t = 1..c /\ \A i \in 1..c : t[i] = Files!ListedItem(n, s[i])
  BY <1>1, <1>3
<1> HIDE DEF t
<1>5. t \in Seq(Item)
  BY <1>1, <1>4, SeqDef
<1>6. Apart(t)
  <2> SUFFICES ASSUME NEW i \in DOMAIN t, NEW j \in DOMAIN t, t[i] = t[j] PROVE i = j
    BY DEF Apart
  <2>1. i \in 1..c /\ j \in 1..c /\ s[i] \in S /\ s[j] \in S
    BY <1>1, <1>4
  <2>2. s[i] = s[j]
    BY <1>3, <1>4, <2>1
  <2>3. DOMAIN s = 1..c
    BY <1>1
  <2> QED
    BY <1>1, <2>1, <2>2, <2>3 DEF Apart
<1>7. Files!ToSet(t) = {Files!ListedItem(n, id) : id \in S}
  <2>1. ASSUME NEW i \in 1..c PROVE t[i] \in {Files!ListedItem(n, id) : id \in S}
    BY <1>1, <1>4
  <2>2. ASSUME NEW id \in S PROVE Files!ListedItem(n, id) \in Files!ToSet(t)
    <3>1. PICK i \in 1..c : s[i] = id
      BY <1>1
    <3>2. t[i] = Files!ListedItem(n, id)
      BY <1>4, <3>1
    <3> QED
      BY <1>4, <3>2 DEF Files!ToSet
  <2> QED
    BY <1>4, <2>1, <2>2 DEF Files!ToSet
<1>8. [i \in 1..Files!Cardinality(S) |-> Files!ListedItem(n, Files!SetToSeq(S)[i])] = t
  BY <1>1 DEF t, s
<1> QED
  BY <1>5, <1>6, <1>7, <1>8

\* The list is replaced.
LEMMA ListedKeeps == ASSUME FilesInv, NEW n \in Files!Listings, Files!Listed(n) PROVE FilesInv'
<1>0. PICK S : S = listings[n].ids
  OBVIOUS
<1>1. FileState /\ ItemTypes /\ IdTypes
  BY DEF FilesInv, FileTypes
<1>2. /\ UNCHANGED <<files, lastFile, pending, deletes, crossed, lost>>
      /\ listings[n].at = "read" /\ lastFile \in Nat /\ S \subseteq 1..lastFile
  BY <1>0, <1>1 DEF Files!Listed, Files!Backend, FileState, IdTypes
<1>3. IsFiniteSet(S) /\ S \in SUBSET Nat
  <2>1. IsFiniteSet(1..lastFile)
    BY <1>2, FS_Interval
  <2>2. S \in SUBSET (1..lastFile)
    BY <1>2
  <2>3. 1..lastFile \subseteq Nat
    BY <1>2
  <2> QED
    BY <2>1, <2>2, <2>3, FS_Subset
<1>4. /\ items' \in Seq(Item) /\ Apart(items')
      /\ Shown' = {Files!ListedItem(n, id) : id \in S}
  BY <1>0, <1>3, ListedItems DEF Files!Listed, Shown
<1>5. \A id \in S : /\ Files!ListedItem(n, id).from = "listing" /\ Files!ListedItem(n, id).id = id
                    /\ Files!IdOf(Files!ListedItem(n, id))' = id
  BY DEF Files!ListedItem, Files!IdOf
<1>6. /\ listings' \in [Files!Listings -> Listing]
      /\ listings'[n].at = "done" /\ listings'[n].ids = listings[n].ids
      /\ \A m \in Files!Listings : m # n => listings'[m] = listings[m]
  BY <1>1 DEF Files!Listed, FileState, Listing
<1>7. FileTypes'
  <2>1. ItemTypes'
    <3> SUFFICES ASSUME NEW id \in S
                 PROVE  Files!ListedItem(n, id).from # "upload" /\ Files!ListedItem(n, id).id <= lastFile'
      BY <1>4 DEF ItemTypes
    <3> QED
      BY <1>2, <1>5
  <2>2. IdTypes'
    BY <1>1, <1>2, <1>6 DEF IdTypes
  <2> QED
    BY <1>1, <1>2, <1>4, <1>6, <2>1, <2>2 DEF FileTypes, FileState
<1>8. ASSUME Calm' PROVE ListingAlone' /\ Accounted'
  <2>1. ListingAlone /\ Files!ListingUnderWay
    BY <1>2, <1>8 DEF Calm, FilesInv, Files!ListingUnderWay
  <2>2. S = files /\ ~ Files!ChangeUnderWay
    BY <1>0, <1>2, <2>1 DEF ListingAlone
  <2>3. ~ Files!ListingUnderWay'
    BY <1>2, <1>6, <2>1 DEF ListingAlone, Files!ListingUnderWay
  <2>4. \A id : ~ AwaitsAnswer(id)' /\ ~ AwaitsRemoval(id)'
    BY <1>2, <2>2 DEF AwaitsAnswer, AwaitsRemoval, Files!ChangeUnderWay
  <2>5. EachOnce'
    BY <1>4, <1>5 DEF EachOnce
  <2>6. ShowsFiles'
    <3>1. \A id : (\E x \in Shown' : Files!IdOf(x)' = id) <=> id \in files
      BY <1>4, <1>5, <2>2
    <3> QED
      BY <1>2, <2>4, <3>1 DEF ShowsFiles
  <2>7. UploadsShown' /\ DeletesShown'
    BY <1>2, <2>2 DEF UploadsShown, DeletesShown, Files!ChangeUnderWay
  <2> QED
    BY <2>3, <2>5, <2>6, <2>7 DEF Accounted, ListingAlone
<1> QED
  BY <1>7, <1>8 DEF FilesInv

\* An answer to a listing or to a delete is lost.
LEMMA LossKeeps ==
    ASSUME FilesInv,
           \/ \E n \in Files!Listings : Files!ListingLost(n)
           \/ \E d \in Files!Deletes : Files!DeleteLost(d)
    PROVE  FilesInv'
<1>1. FileState /\ ItemTypes /\ IdTypes
  BY DEF FilesInv, FileTypes
<1>2. /\ UNCHANGED <<files, lastFile, items, pending, crossed>> /\ UNCHANGED Shown
      /\ lost' = lost + 1 /\ lost < MaxLosses
  BY DEF Files!ListingLost, Files!DeleteLost, Files!Lost, Files!Backend, Shown
<1>3. lost' \in 0..MaxLosses /\ lost' # 0
  BY <1>1, <1>2, PagesAssumption DEF FileState
<1>4. /\ listings' \in [Files!Listings -> Listing] /\ deletes' \in [Files!Deletes -> Deleting]
      /\ \A n \in Files!Listings : listings'[n].ids = listings[n].ids
  <2>1. ASSUME NEW n \in Files!Listings, Files!ListingLost(n)
        PROVE  /\ listings' \in [Files!Listings -> Listing] /\ UNCHANGED deletes
               /\ \A m \in Files!Listings : listings'[m].ids = listings[m].ids
    BY <1>1, <2>1 DEF Files!ListingLost, FileState, Listing
  <2>2. ASSUME NEW d \in Files!Deletes, Files!DeleteLost(d)
        PROVE  deletes' \in [Files!Deletes -> Deleting] /\ UNCHANGED listings
    BY <1>1, <2>2 DEF Files!DeleteLost, FileState, Deleting
  <2> QED
    BY <1>1, <2>1, <2>2 DEF FileState
<1>5. FileTypes'
  BY <1>1, <1>2, <1>3, <1>4 DEF FileTypes, FileState, ItemTypes, IdTypes
<1> QED
  BY <1>3, <1>5 DEF FilesInv, Calm

\* A click on delete holds an item of the list.
LEMMA DeleteKeeps == ASSUME FilesInv, NEW d \in Files!Deletes, Files!Delete(d) PROVE FilesInv'
<1>1. FileState /\ ItemTypes /\ IdTypes
  BY DEF FilesInv, FileTypes
<1>2. /\ UNCHANGED <<files, lastFile, items, pending, listings, lost>> /\ UNCHANGED Shown
      /\ crossed' = (crossed \/ Files!ListingUnderWay) /\ deletes[d].at = "new"
  BY DEF Files!Delete, Files!Backend, Shown
<1>3. PICK x \in Shown :
        deletes' = [deletes EXCEPT ![d] = [at |-> "sent", item |-> x, id |-> Files!IdOf(x)]]
  BY DEF Files!Delete, Shown, Files!ToSet
<1>4. x \in Item /\ Files!IdOf(x) \in 0..lastFile /\ lastFile \in Nat
  BY <1>1, ShownIds DEF FileTypes, FileState
<1>5. [at |-> "sent", item |-> x, id |-> Files!IdOf(x)] \in Deleting
  BY <1>4 DEF Deleting
<1>6. /\ deletes' \in [Files!Deletes -> Deleting]
      /\ deletes'[d].at = "sent" /\ deletes'[d].item = x /\ deletes'[d].id = Files!IdOf(x)
      /\ \A e \in Files!Deletes : e # d => deletes'[e] = deletes[e]
  BY <1>1, <1>3, <1>5 DEF FileState
<1>7. \A y : Files!IdOf(y)' = Files!IdOf(y)
  BY <1>2 DEF Files!IdOf
<1>8. FileTypes'
  <2>1. crossed' \in BOOLEAN
    BY <1>1, <1>2 DEF FileState, Files!ListingUnderWay
  <2>2. FileState'
    BY <1>1, <1>2, <1>6, <2>1 DEF FileState
  <2>3. ItemTypes' /\ IdTypes'
    BY <1>1, <1>2 DEF ItemTypes, IdTypes
  <2> QED
    BY <2>2, <2>3 DEF FileTypes
<1>9. ASSUME Calm' PROVE ListingAlone' /\ Accounted'
  <2>1. Calm /\ ~ Files!ListingUnderWay /\ Accounted
    BY <1>2, <1>9 DEF Calm, FilesInv
  <2>2. ListingAlone'
    BY <1>2, <2>1 DEF ListingAlone, Files!ListingUnderWay
  <2>3. EachOnce'
    BY <1>2, <1>7, <2>1 DEF Accounted, EachOnce
  <2>4. ShowsFiles'
    <3>1. \A id : AwaitsAnswer(id)' <=> AwaitsAnswer(id)
      BY <1>2 DEF AwaitsAnswer
    <3>2. \A id : AwaitsRemoval(id)' <=> AwaitsRemoval(id)
      BY <1>2, <1>6 DEF AwaitsRemoval
    <3> QED
      BY <1>2, <1>7, <2>1, <3>1, <3>2 DEF Accounted, ShowsFiles
  <2>5. UploadsShown'
    BY <1>2, <2>1 DEF Accounted, UploadsShown
  <2>6. DeletesShown'
    <3>1. ASSUME NEW e \in Files!Deletes
          PROVE  /\ deletes'[e].at = "deleted" =>
                       /\ deletes'[e].id \in 1..lastFile /\ deletes'[e].id \notin files
                       /\ deletes'[e].item \in Shown /\ Files!IdOf(deletes'[e].item) = deletes'[e].id
                 /\ deletes'[e].at = "sent" /\ deletes'[e].id \in files =>
                       deletes'[e].item \in Shown /\ Files!IdOf(deletes'[e].item) = deletes'[e].id
                 /\ deletes'[e].at = "sent" => deletes'[e].id <= lastFile
      <4>1. CASE e = d
        BY <1>4, <1>6, <4>1
      <4>2. CASE e # d
        BY <1>6, <2>1, <4>2 DEF Accounted, DeletesShown
      <4> QED
        BY <4>1, <4>2
    <3>2. \A e, f \in Files!Deletes :
             deletes'[e].at = "deleted" /\ deletes'[f].at = "deleted" /\ deletes'[e].id = deletes'[f].id
                 => e = f
      BY <1>6, <2>1 DEF Accounted, DeletesShown
    <3>3. \A e \in Files!Deletes : Files!IdOf(deletes[e].item)' = Files!IdOf(deletes'[e].item)
      BY <1>2 DEF Files!IdOf
    <3> QED
      BY <1>2, <3>1, <3>2, <3>3 DEF DeletesShown
  <2> QED
    BY <2>2, <2>3, <2>4, <2>5, <2>6 DEF Accounted
<1> QED
  BY <1>8, <1>9 DEF FilesInv

\* The backend deletes a file, or refuses.
LEMMA ServesKeeps == ASSUME FilesInv, NEW d \in Files!Deletes, Files!Serves(d) PROVE FilesInv'
<1>0. PICK id : id = deletes[d].id
  OBVIOUS
<1>1. FileState /\ ItemTypes /\ IdTypes
  BY DEF FilesInv, FileTypes
<1>2. /\ UNCHANGED <<lastFile, items, pending, listings, crossed, lost>> /\ UNCHANGED Shown
      /\ deletes[d].at = "sent" /\ files' = files \ {id} /\ files' \subseteq files
  BY <1>0 DEF Files!Serves, Shown
<1>3. /\ deletes' \in [Files!Deletes -> Deleting]
      /\ deletes'[d].at = (IF id \in files THEN "deleted" ELSE "done")
      /\ deletes'[d].item = deletes[d].item /\ deletes'[d].id = id
      /\ \A e \in Files!Deletes : e # d => deletes'[e] = deletes[e]
  <2>1. (IF id \in files THEN "deleted" ELSE "done") \in {"new", "sent", "deleted", "done"}
    OBVIOUS
  <2> QED
    BY <1>0, <1>1, <2>1 DEF Files!Serves, FileState, Deleting
<1>4. \A y : Files!IdOf(y)' = Files!IdOf(y)
  BY <1>2 DEF Files!IdOf
<1>5. FileTypes'
  <2>1. ItemTypes' /\ IdTypes'
    BY <1>1, <1>2 DEF ItemTypes, IdTypes
  <2> QED
    BY <1>1, <1>2, <1>3, <2>1 DEF FileTypes, FileState
<1>6. ASSUME Calm' PROVE ListingAlone' /\ Accounted'
  <2>1. Calm /\ Files!ChangeUnderWay
    BY <1>2, <1>6 DEF Calm, Files!ChangeUnderWay
  <2>2. ~ Files!ListingUnderWay /\ Accounted
    BY <2>1, NoListing
  <2>3. ListingAlone'
    BY <1>2, <2>2 DEF ListingAlone, Files!ListingUnderWay
  <2>4. EachOnce'
    BY <1>2, <1>4, <2>2 DEF Accounted, EachOnce
  <2>5. ASSUME id \in files
        PROVE  id \in 1..lastFile /\ deletes[d].item \in Shown /\ Files!IdOf(deletes[d].item) = id
               /\ ~ AwaitsAnswer(id) /\ ~ AwaitsRemoval(id)
    <3>1. id \in 1..lastFile /\ deletes[d].item \in Shown /\ Files!IdOf(deletes[d].item) = id
      BY <1>0, <1>1, <1>2, <2>2, <2>5 DEF FileState, Accounted, DeletesShown
    <3>2. ~ AwaitsRemoval(id)
      BY <2>2, <2>5 DEF AwaitsRemoval, Accounted, DeletesShown
    <3> QED
      BY <2>2, <3>1, <3>2 DEF Accounted, ShowsFiles
  <2>6. \A i : AwaitsAnswer(i)' <=> AwaitsAnswer(i)
    BY <1>2 DEF AwaitsAnswer
  <2>7. \A i : AwaitsRemoval(i)' <=> AwaitsRemoval(i) \/ (i = id /\ id \in files)
    BY <1>2, <1>3 DEF AwaitsRemoval
  <2>8. ShowsFiles'
    BY <1>2, <1>4, <2>2, <2>5, <2>6, <2>7 DEF Accounted, ShowsFiles
  <2>9. UploadsShown'
    BY <1>2, <2>2, <2>5 DEF Accounted, UploadsShown, AwaitsAnswer
  <2>10. DeletesShown'
    <3>1. ASSUME NEW e \in Files!Deletes
          PROVE  /\ deletes'[e].at = "deleted" =>
                       /\ deletes'[e].id \in 1..lastFile /\ deletes'[e].id \notin files'
                       /\ deletes'[e].item \in Shown /\ Files!IdOf(deletes'[e].item) = deletes'[e].id
                 /\ deletes'[e].at = "sent" /\ deletes'[e].id \in files' =>
                       deletes'[e].item \in Shown /\ Files!IdOf(deletes'[e].item) = deletes'[e].id
                 /\ deletes'[e].at = "sent" => deletes'[e].id <= lastFile
      <4>1. CASE e = d
        BY <1>2, <1>3, <2>5, <4>1
      <4>2. CASE e # d
        BY <1>2, <1>3, <2>2, <4>2 DEF Accounted, DeletesShown
      <4> QED
        BY <4>1, <4>2
    <3>2. \A e, f \in Files!Deletes :
             deletes'[e].at = "deleted" /\ deletes'[f].at = "deleted" /\ deletes'[e].id = deletes'[f].id
                 => e = f
      BY <1>3, <2>2, <2>5 DEF Accounted, DeletesShown, AwaitsRemoval
    <3>3. \A e \in Files!Deletes : Files!IdOf(deletes[e].item)' = Files!IdOf(deletes'[e].item)
      BY <1>2 DEF Files!IdOf
    <3> QED
      BY <1>2, <3>1, <3>2, <3>3 DEF DeletesShown
  <2> QED
    BY <2>3, <2>4, <2>8, <2>9, <2>10 DEF Accounted
<1> QED
  BY <1>5, <1>6 DEF FilesInv

\* The list without an item, or without its last one.
LEMMA WithoutItem ==
    ASSUME items \in Seq(Item), NEW x
    PROVE  /\ Files!Without(x) \in Seq(Item) /\ Files!ToSet(Files!Without(x)) \subseteq Shown
           /\ x \in Shown /\ Apart(items) =>
                 Apart(Files!Without(x)) /\ Files!ToSet(Files!Without(x)) = Shown \ {x}
<1>1. CASE x \in Shown
  <2> DEFINE k == CHOOSE i \in DOMAIN items : items[i] = x
  <2>1. k \in DOMAIN items /\ items[k] = x
    BY <1>1 DEF Shown, Files!ToSet
  <2>2. DOMAIN items = 1..Len(items)
    BY LenProperties
  <2>3. Files!Without(x) = Files!RemoveAt(items, k)
    BY <1>1 DEF Files!Without, Shown
  <2> HIDE DEF k
  <2> QED
    BY <2>1, <2>2, <2>3, TakenOut DEF Shown
<1>2. CASE x \notin Shown
  <2>1. CASE items = <<>>
    BY <1>2, <2>1 DEF Files!Without, Shown
  <2>2. CASE items # <<>>
    <3>1. Files!Without(x) = Files!Front(items)
      BY <1>2, <2>2 DEF Files!Without, Shown
    <3> QED
      BY <1>2, <2>2, <3>1, LastOut DEF Shown
  <2> QED
    BY <2>1, <2>2
<1> QED
  BY <1>1, <1>2

\* A delete is answered.
LEMMA DeletedKeeps == ASSUME FilesInv, NEW d \in Files!Deletes, Files!Deleted(d) PROVE FilesInv'
<1>0. PICK x, id : x = deletes[d].item /\ id = deletes[d].id
  OBVIOUS
<1>1. FileState /\ ItemTypes /\ IdTypes
  BY DEF FilesInv, FileTypes
<1>2. /\ UNCHANGED <<files, lastFile, pending, listings, crossed, lost>>
      /\ deletes[d].at = "deleted" /\ items' = Files!Without(x)
  BY <1>0 DEF Files!Deleted, Files!Backend
<1>3. /\ deletes' \in [Files!Deletes -> Deleting]
      /\ deletes'[d].at = "done"
      /\ \A e \in Files!Deletes : e # d => deletes'[e] = deletes[e]
  BY <1>1 DEF Files!Deleted, FileState, Deleting
<1>4. /\ items' \in Seq(Item) /\ Shown' \subseteq Shown
      /\ x \in Shown /\ Apart(items) => Apart(items') /\ Shown' = Shown \ {x}
  BY <1>1, <1>2, WithoutItem DEF FileState, Shown
<1>5. \A y : Files!IdOf(y)' = Files!IdOf(y)
  BY <1>2 DEF Files!IdOf
<1>6. FileTypes'
  <2>1. ItemTypes' /\ IdTypes'
    BY <1>1, <1>2, <1>4 DEF ItemTypes, IdTypes
  <2> QED
    BY <1>1, <1>2, <1>3, <1>4, <2>1 DEF FileTypes, FileState
<1>7. ASSUME Calm' PROVE ListingAlone' /\ Accounted'
  <2>1. Calm /\ Files!ChangeUnderWay
    BY <1>2, <1>7 DEF Calm, Files!ChangeUnderWay
  <2>2. ~ Files!ListingUnderWay /\ Accounted
    BY <2>1, NoListing
  <2>3. ListingAlone'
    BY <1>2, <2>2 DEF ListingAlone, Files!ListingUnderWay
  <2>4. x \in Shown /\ Files!IdOf(x) = id /\ id \in 1..lastFile /\ id \notin files /\ id # 0
    <3>1. x \in Shown /\ Files!IdOf(x) = id /\ id \in 1..lastFile /\ id \notin files
      BY <1>0, <1>2, <2>2 DEF Accounted, DeletesShown
    <3> QED
      BY <1>1, <3>1 DEF FileState
  <2>5. Apart(items') /\ Shown' = Shown \ {x}
    BY <1>4, <2>2, <2>4 DEF Accounted, EachOnce
  <2>6. EachOnce'
    BY <1>5, <2>2, <2>5 DEF Accounted, EachOnce
  <2>7. \A y \in Shown : y # x => Files!IdOf(y) # id
    BY <2>2, <2>4 DEF Accounted, EachOnce
  <2>8. \A i : AwaitsAnswer(i)' <=> AwaitsAnswer(i)
    BY <1>2 DEF AwaitsAnswer
  <2>9. \A e \in Files!Deletes : e # d /\ deletes[e].at = "deleted" => deletes[e].id # id
    BY <1>0, <1>2, <2>2 DEF Accounted, DeletesShown
  <2>10. \A i : AwaitsRemoval(i)' <=> AwaitsRemoval(i) /\ i # id
    BY <1>0, <1>2, <1>3, <2>9 DEF AwaitsRemoval
  <2>11. ShowsFiles'
    <3>1. ASSUME NEW i \in 1..lastFile
          PROVE  (\E y \in Shown' : Files!IdOf(y)' = i) <=> (\E y \in Shown : Files!IdOf(y) = i) /\ i # id
      BY <1>5, <2>4, <2>5, <2>7
    <3> QED
      BY <1>2, <2>2, <2>4, <2>8, <2>10, <3>1 DEF Accounted, ShowsFiles
  <2>12. UploadsShown'
    <3>1. ASSUME NEW u \in Files!Uploads, pending[u].at \in {"sent", "stored"}
          PROVE  Files!UploadItem(u) # x
      BY <1>1, <2>4, <3>1, UploadItems DEF IdTypes
    <3> QED
      BY <1>2, <2>2, <2>5, <3>1 DEF Accounted, UploadsShown
  <2>13. DeletesShown'
    <3>1. ASSUME NEW e \in Files!Deletes
          PROVE  /\ deletes'[e].at = "deleted" =>
                       /\ deletes'[e].id \in 1..lastFile /\ deletes'[e].id \notin files
                       /\ deletes'[e].item \in Shown' /\ Files!IdOf(deletes'[e].item) = deletes'[e].id
                 /\ deletes'[e].at = "sent" /\ deletes'[e].id \in files =>
                       deletes'[e].item \in Shown' /\ Files!IdOf(deletes'[e].item) = deletes'[e].id
                 /\ deletes'[e].at = "sent" => deletes'[e].id <= lastFile
      <4>1. CASE e = d
        BY <1>3, <4>1
      <4>2. CASE e # d
        BY <1>3, <2>2, <2>4, <2>5, <2>9, <4>2 DEF Accounted, DeletesShown
      <4> QED
        BY <4>1, <4>2
    <3>2. \A e, f \in Files!Deletes :
             deletes'[e].at = "deleted" /\ deletes'[f].at = "deleted" /\ deletes'[e].id = deletes'[f].id
                 => e = f
      BY <1>3, <2>2 DEF Accounted, DeletesShown
    <3>3. \A e \in Files!Deletes : Files!IdOf(deletes[e].item)' = Files!IdOf(deletes'[e].item)
      BY <1>2 DEF Files!IdOf
    <3> QED
      BY <1>2, <3>1, <3>2, <3>3 DEF DeletesShown
  <2> QED
    BY <2>3, <2>6, <2>11, <2>12, <2>13 DEF Accounted
<1> QED
  BY <1>6, <1>7 DEF FilesInv

\* The page begins with the listing of its load.
LEMMA FilesBegins == ASSUME Files!Init PROVE FilesInv
<1>1. lastFile = 1 /\ lastFile \in Nat /\ files \subseteq 1..lastFile
  BY DEF Files!Init
<1>2. items = <<>> /\ items \in Seq(Item) /\ Shown = {}
  BY EmptySeq DEF Files!Init, Shown, Files!ToSet
<1>3. pending \in [Files!Uploads -> Pending]
      /\ \A u \in Files!Uploads : pending[u] = [at |-> "new", id |-> 0, stored |-> 0]
  BY DEF Files!Init, Pending
<1>4. listings \in [Files!Listings -> Listing]
      /\ \A n \in Files!Listings : listings[n].ids = {}
                                   /\ listings[n].at = IF n = 0 THEN "asking" ELSE "new"
  BY DEF Files!Init, Listing
<1>5. deletes \in [Files!Deletes -> Deleting] /\ \A d \in Files!Deletes : deletes[d].at = "new"
  <2>1. [at |-> "new", item |-> Files!UploadItem(0), id |-> 0] \in Deleting
    BY DEF Deleting, Item, Files!UploadItem
  <2> QED
    BY <2>1 DEF Files!Init
<1>6. crossed \in BOOLEAN /\ lost \in 0..MaxLosses
  <2>1. MaxLosses \in Nat
    BY PagesAssumption
  <2>2. crossed = FALSE /\ lost = 0
    BY DEF Files!Init
  <2>3. 0 \in 0..MaxLosses /\ FALSE \in BOOLEAN
    BY <2>1
  <2> QED
    BY <2>2, <2>3
<1>7. FileTypes
  BY <1>1, <1>2, <1>3, <1>4, <1>5, <1>6 DEF FileTypes, FileState, ItemTypes, IdTypes
<1>8. 0 \in Files!Listings
  BY PagesAssumption DEF Files!Listings
<1>9. ListingAlone /\ Files!ListingUnderWay
  BY <1>3, <1>4, <1>5, <1>8 DEF ListingAlone, Files!ListingUnderWay, Files!ChangeUnderWay
<1> QED
  BY <1>7, <1>9 DEF FilesInv

\* Each step of the page keeps the invariant.
LEMMA FilesStepsKeep == ASSUME FilesInv, Files!Next PROVE FilesInv'
<1>1. ASSUME NEW u \in Files!Uploads,
             \/ Files!Upload(u) \/ Files!Stores(u) \/ Files!Stored(u) \/ Files!Refused(u)
             \/ Files!UploadLost(u)
      PROVE  FilesInv'
  BY <1>1, UploadKeeps, StoresKeeps, StoredKeeps, RefusedKeeps
<1>2. ASSUME NEW n \in Files!Listings,
             Files!Archive(n) \/ Files!Lists(n) \/ Files!Listed(n) \/ Files!ListingLost(n)
      PROVE  FilesInv'
  BY <1>2, ArchiveKeeps, ListsKeeps, ListedKeeps, LossKeeps
<1>3. ASSUME NEW d \in Files!Deletes,
             Files!Delete(d) \/ Files!Serves(d) \/ Files!Deleted(d) \/ Files!DeleteLost(d)
      PROVE  FilesInv'
  BY <1>3, DeleteKeeps, ServesKeeps, DeletedKeeps, LossKeeps
<1> QED
  BY <1>1, <1>2, <1>3 DEF Files!Next

\* The other pages leave it alone.
LEMMA FilesLeft == ASSUME FilesInv, UNCHANGED ofFiles PROVE FilesInv'
<1>1. UNCHANGED <<files, lastFile, items, pending, listings, deletes, crossed, lost>>
  BY DEF ofFiles
<1>2. UNCHANGED Shown /\ \A x : Files!IdOf(x)' = Files!IdOf(x)
  BY <1>1 DEF Shown, Files!IdOf
<1>3. FileTypes'
  BY <1>1, <1>2 DEF FilesInv, FileTypes, FileState, ItemTypes, IdTypes
<1>4. /\ Calm' <=> Calm
      /\ Files!ListingUnderWay' <=> Files!ListingUnderWay
      /\ Files!ChangeUnderWay' <=> Files!ChangeUnderWay
      /\ \A i : (AwaitsAnswer(i)' <=> AwaitsAnswer(i)) /\ (AwaitsRemoval(i)' <=> AwaitsRemoval(i))
  BY <1>1 DEF Calm, Files!ListingUnderWay, Files!ChangeUnderWay, AwaitsAnswer, AwaitsRemoval
<1>5. ListingAlone => ListingAlone'
  BY <1>1, <1>4 DEF ListingAlone
<1>6. EachOnce => EachOnce'
  BY <1>1, <1>2 DEF EachOnce
<1>7. ShowsFiles => ShowsFiles'
  BY <1>1, <1>2, <1>4 DEF ShowsFiles
<1>8. UploadsShown => UploadsShown'
  BY <1>1, <1>2 DEF UploadsShown
<1>9. DeletesShown => DeletesShown'
  <2>1. \A e \in Files!Deletes : Files!IdOf(deletes[e].item)' = Files!IdOf(deletes[e].item)
    BY <1>1 DEF Files!IdOf
  <2> QED
    BY <1>1, <1>2, <2>1 DEF DeletesShown
<1> QED
  BY <1>3, <1>4, <1>5, <1>6, <1>7, <1>8, <1>9 DEF FilesInv, Accounted

\* A page that is at rest, and was not disturbed, shows the files.
LEMMA AtRestItShows == ASSUME FilesInv PROVE Files!ListTruth
<1> SUFFICES ASSUME ~ Files!ListingUnderWay, ~ Files!ChangeUnderWay, ~ crossed, lost = 0
             PROVE  /\ {Files!IdOf(item) : item \in Files!ToSet(items)} \ {0} = files
                    /\ \A i, j \in DOMAIN items :
                          Files!IdOf(items[i]) = Files!IdOf(items[j])
                              => i = j \/ Files!IdOf(items[i]) = 0
  BY DEF Files!ListTruth
<1>1. FileTypes /\ Accounted
  BY DEF FilesInv, Calm
<1>2. \A id : ~ AwaitsAnswer(id) /\ ~ AwaitsRemoval(id)
  BY DEF AwaitsAnswer, AwaitsRemoval, Files!ChangeUnderWay
<1>3. lastFile \in Nat /\ files \subseteq 1..lastFile
  BY <1>1 DEF FileTypes, FileState
<1>4. \A id \in 1..lastFile : (\E x \in Shown : Files!IdOf(x) = id) <=> id \in files
  BY <1>1, <1>2 DEF Accounted, ShowsFiles
<1>5. \A x \in Shown : Files!IdOf(x) # 0 => Files!IdOf(x) \in 1..lastFile
  BY <1>1, <1>3, ShownIds
<1>6. 0 \notin files
  BY <1>3
<1>7. {Files!IdOf(item) : item \in Shown} \ {0} = files
  <2>1. ASSUME NEW x \in Shown, Files!IdOf(x) # 0 PROVE Files!IdOf(x) \in files
    BY <1>4, <1>5, <2>1
  <2>2. ASSUME NEW id \in files PROVE \E x \in Shown : Files!IdOf(x) = id
    BY <1>3, <1>4
  <2> QED
    BY <1>6, <2>1, <2>2
<1>8. ASSUME NEW i \in DOMAIN items, NEW j \in DOMAIN items, Files!IdOf(items[i]) = Files!IdOf(items[j])
      PROVE  i = j \/ Files!IdOf(items[i]) = 0
  <2>1. items[i] \in Shown /\ items[j] \in Shown
    BY DEF Shown, Files!ToSet
  <2>2. items[i] = items[j] \/ Files!IdOf(items[i]) = 0
    BY <1>1, <1>8, <2>1 DEF Accounted, EachOnce
  <2> QED
    BY <1>1, <2>2 DEF Accounted, EachOnce, Apart
<1> QED
  BY <1>7, <1>8 DEF Shown

\* Each step keeps FilesInv.
LEMMA FilesKept == FilesInv /\ [Next]_vars => FilesInv'
  BY FilesStepsKeep, FilesLeft DEF Next, vars

\* The list of the page of uploaded files, when nothing is under way, shows the
\* files of the backend, each once, after uploads, archives and deletes in any
\* order, unless an answer was lost or a listing went on beside one of them.
THEOREM ListIsTrue == Spec => []ListTruth
<1>1. Init => FilesInv
  BY FilesBegins DEF Init
<1>2. FilesInv => ListTruth
  BY AtRestItShows DEF ListTruth
<1> QED
  BY <1>1, <1>2, FilesKept, PTL DEF Spec

------------------------------------------------------------------------------
(* The types of all pages, and what bounds their counters.                   *)

\* A counter below its bound may be raised.
LEMMA Counted == ASSUME NEW m \in Nat, NEW n \in 0..m, n < m PROVE n + 1 \in 0..m
  OBVIOUS

\* Each click may be accepted, and the build that it begins may end.
IsSent(b) == IF click[b] = "sent" THEN 1 ELSE 0
SentClicks == IsSent("upload") + IsSent("retry")
Builds == IF gallery.state = "building" THEN 1 ELSE 0

ImportRest ==
    /\ overtaken \in BOOLEAN /\ together \in BOOLEAN
    /\ clicks \in 0..MaxClicks /\ fails \in 0..MaxFails
    /\ gallery.changes + Builds + 2 * SentClicks <= 2 * clicks + 1
    /\ \A p \in Import!Polls : polls[p].seen <= gallery.changes

\* What a poll has seen is not newer than the gallery.
SeenKept == \A p \in Import!Polls : polls'[p].seen \in {0, polls[p].seen, gallery.changes}

\* A poll begins, goes on or ends.
LEMMA PollsSee ==
    ASSUME PollTypes,
           \E p \in Import!Polls :
              Import!PollStep(p) \/ Import!AskFails(p) \/ \E b \in Import!Buttons : Import!Begins(p, b)
    PROVE  SeenKept
<1> DEFINE off == Import!Off
<1>1. PICK p \in Import!Polls :
         Import!PollStep(p) \/ Import!AskFails(p) \/ \E b \in Import!Buttons : Import!Begins(p, b)
  OBVIOUS
<1>2. polls \in [Import!Polls -> Poll] /\ 0 \notin Import!Polls
  BY DEF PollTypes, Import!Polls
<1>3. /\ off.seen = 0
      /\ \A asks, by : Import!Asking(asks, by).seen = 0
      /\ \A at : [off EXCEPT !.at = at].seen = 0
  BY DEF Import!Off, Import!Asking
<1> HIDE DEF off
<1>4. ASSUME NEW by, Import!Begins(p, by) PROVE SeenKept
  <2> DEFINE without == [polls EXCEPT ![p] = off]
             asking == Import!Asking("poll", by)
  <2>1. polls' = [(IF activePoll # 0 /\ without[activePoll].at = "waiting"
                     THEN [without EXCEPT ![activePoll] = off] ELSE without) EXCEPT ![p] = asking]
    BY <1>4 DEF Import!Begins, Import!Cleared, off
  <2>2. asking.seen = 0
    BY <1>3
  <2> HIDE DEF asking
  <2>3. \A q \in Import!Polls : polls'[q] \in {asking, off, polls[q]}
    BY <1>2, <2>1
  <2> QED
    BY <1>3, <2>2, <2>3 DEF SeenKept
<1>5. ASSUME NEW new, polls' = [polls EXCEPT ![p] = new], new.seen = 0 PROVE SeenKept
  BY <1>2, <1>5 DEF SeenKept
<1>6. CASE Import!Answers(p)
  <2>1. polls' = [polls EXCEPT ![p].at = "answered", ![p].got = gallery.state, ![p].seen = gallery.changes]
    BY <1>6 DEF Import!Answers
  <2>2. polls[p] \in Poll
    BY <1>2
  <2>3. polls'[p].seen = gallery.changes /\ \A q \in Import!Polls : q # p => polls'[q] = polls[q]
    BY <1>2, <2>1, <2>2 DEF Poll
  <2> QED
    BY <2>3 DEF SeenKept
<1>7. CASE Import!Fires(p)
  BY <1>4, <1>7 DEF Import!Fires
<1>8. CASE Import!PollBuilding(p)
  BY <1>3, <1>5, <1>8 DEF Import!PollBuilding, off
<1>9. CASE Import!PollEnds(p)
  <2>1. polls' = [polls EXCEPT ![p] = Import!Asking("again", polls[p].by)] \/ Import!Ends(p)
    BY <1>9 DEF Import!PollEnds
  <2> QED
    BY <1>3, <1>5, <2>1 DEF Import!Ends, off
<1>10. CASE Import!Again(p) \/ Import!AskFails(p)
  BY <1>3, <1>5, <1>10 DEF Import!Again, Import!AskFails, Import!Ends, off
<1>11. CASE Import!LoadAnswered(p)
  BY <1>3, <1>4, <1>5, <1>11 DEF Import!LoadAnswered, Import!Ends, off
<1> QED
  BY <1>1, <1>4, <1>6, <1>7, <1>8, <1>9, <1>10, <1>11 DEF Import!PollStep

\* How far the gallery has changed when nothing accepted or ended.
LEMMA ChangesKept ==
    ASSUME PollTypes, ImportRest, UNCHANGED <<gallery, clicks>>, SeenKept,
           SentClicks' \in Nat /\ SentClicks' <= SentClicks
    PROVE  /\ (gallery.changes + Builds + 2 * SentClicks <= 2 * clicks + 1)'
           /\ \A p \in Import!Polls : polls'[p].seen <= gallery'.changes
<1>1. gallery.changes \in Nat /\ Builds \in {0, 1} /\ SentClicks \in Nat /\ clicks \in Nat
      /\ Builds' = Builds
  BY DEF PollTypes, ImportRest, Builds, SentClicks, IsSent
<1>2. gallery.changes + Builds + 2 * SentClicks <= 2 * clicks + 1
  BY DEF ImportRest
<1>3. gallery.changes + Builds + 2 * SentClicks' <= 2 * clicks + 1
  BY <1>1, <1>2
<1>4. \A p \in Import!Polls : polls[p].seen <= gallery.changes
  BY DEF ImportRest
<1>5. \A p \in Import!Polls : polls'[p].seen <= gallery.changes
  BY <1>1, <1>4 DEF SeenKept
<1> QED
  BY <1>1, <1>3, <1>5

\* What the state of one button says of the clicks that are sent.
LEMMA ButtonCounts ==
    ASSUME PollTypes, NEW b \in Import!Buttons,
           \A c \in Import!Buttons : c # b => click'[c] = click[c]
    PROVE  /\ SentClicks \in Nat /\ SentClicks' \in Nat
           /\ click[b] = "sent" /\ click'[b] # "sent" => SentClicks = SentClicks' + 1
           /\ click[b] # "sent" /\ click'[b] = "sent" => SentClicks' = SentClicks + 1
           /\ click'[b] # "sent" => SentClicks' <= SentClicks
<1>1. Import!Buttons = {"upload", "retry"}
  BY DEF Import!Buttons
<1>2. CASE b = "upload"
  BY <1>1, <1>2 DEF SentClicks, IsSent
<1>3. CASE b = "retry"
  BY <1>1, <1>3 DEF SentClicks, IsSent
<1> QED
  BY <1>1, <1>2, <1>3

\* A button that is clicked, or answered, changes alone.
LEMMA ButtonMoves ==
    ASSUME PollTypes, NEW b \in Import!Buttons, NEW at \in {"idle", "sent", "accepted"},
           click' = [click EXCEPT ![b] = at]
    PROVE  click'[b] = at /\ \A c \in Import!Buttons : c # b => click'[c] = click[c]
  BY DEF PollTypes

\* Each step keeps the bounds of the gallery page.
LEMMA ImportRestKeeps == ASSUME PollTypes, PollTypes', ImportRest, Import!Next PROVE ImportRest'
<1>0. /\ overtaken \in BOOLEAN /\ together \in BOOLEAN /\ clicks \in 0..MaxClicks /\ fails \in 0..MaxFails
      /\ MaxClicks \in Nat /\ MaxFails \in Nat
  <2>1. MaxClicks \in Nat /\ MaxFails \in Nat
    BY PagesAssumption
  <2> QED
    BY <2>1 DEF ImportRest
<1>1. /\ gallery.changes \in Nat /\ Builds \in {0, 1} /\ SentClicks \in Nat /\ clicks \in Nat
      /\ gallery.changes + Builds + 2 * SentClicks <= 2 * clicks + 1
      /\ \A p \in Import!Polls : polls[p].seen <= gallery.changes
      /\ \A p \in Import!Polls : polls[p].seen \in Nat
  BY DEF PollTypes, ImportRest, Builds, SentClicks, IsSent, Poll
<1>2. ASSUME NEW p \in Import!Polls, Import!PollStep(p) \/ Import!AskFails(p) PROVE ImportRest'
  <2>1. SeenKept
    BY <1>2, PollsSee
  <2>2. UNCHANGED <<gallery, click, clicks>> /\ SentClicks' = SentClicks
    BY <1>2 DEF Import!PollStep, Import!AskFails, Import!Answers, Import!Fires, Import!PollBuilding,
                Import!PollEnds, Import!Again, Import!LoadAnswered, Import!Counts, SentClicks, IsSent
  <2>3. fails' \in 0..MaxFails
    BY <1>0, <1>2, Counted
       DEF Import!PollStep, Import!AskFails, Import!Answers, Import!Fires, Import!PollBuilding,
           Import!PollEnds, Import!Again, Import!LoadAnswered, Import!Counts, Import!Fails
  <2>4. overtaken' \in BOOLEAN
    BY <1>0, <1>2
       DEF Import!PollStep, Import!AskFails, Import!Answers, Import!Fires, Import!PollBuilding,
           Import!PollEnds, Import!Again, Import!LoadAnswered, Import!Told, Import!Shows
  <2>5. together' \in BOOLEAN
    BY <1>0, <1>2
       DEF Import!PollStep, Import!AskFails, Import!Answers, Import!Fires, Import!PollBuilding,
           Import!PollEnds, Import!Again, Import!LoadAnswered, Import!Begins
  <2> QED
    BY <1>0, <1>1, <2>1, <2>2, <2>3, <2>4, <2>5, ChangesKept DEF ImportRest
<1>3. CASE Import!BuildEnds
  <2>1. /\ UNCHANGED <<polls, click, overtaken, together, clicks, fails>>
        /\ gallery.state = "building" /\ gallery'.state # "building"
        /\ gallery'.changes = gallery.changes + 1
    BY <1>3 DEF Import!BuildEnds, Import!Becomes, Import!Told, Import!Counts
  <2>2. Builds = 1 /\ Builds' = 0 /\ SentClicks' = SentClicks
    BY <2>1 DEF Builds, SentClicks, IsSent
  <2>3. gallery'.changes + Builds' + 2 * SentClicks' <= 2 * clicks + 1
    BY <1>1, <2>1, <2>2
  <2>4. \A p \in Import!Polls : polls[p].seen <= gallery'.changes
    BY <1>1, <2>1
  <2> QED
    BY <1>0, <2>1, <2>3, <2>4 DEF ImportRest
<1>4. ASSUME NEW b \in Import!Buttons, Import!Accepts(b) PROVE ImportRest'
  <2>1. /\ UNCHANGED <<polls, overtaken, together, clicks, fails>>
        /\ gallery.state # "building" /\ gallery'.state = "building"
        /\ gallery'.changes = gallery.changes + 1
        /\ click[b] = "sent" /\ click' = [click EXCEPT ![b] = "accepted"]
    BY <1>4 DEF Import!Accepts, Import!Acceptable, Import!Becomes, Import!Told, Import!Counts
  <2>0. click'[b] = "accepted" /\ \A c \in Import!Buttons : c # b => click'[c] = click[c]
    BY <2>1, ButtonMoves
  <2>2. Builds = 0 /\ Builds' = 1
    BY <2>1 DEF Builds
  <2>3. SentClicks = SentClicks' + 1 /\ SentClicks' \in Nat
    BY <2>1, <2>0, ButtonCounts
  <2>4. gallery'.changes + Builds' + 2 * SentClicks' <= 2 * clicks + 1
    <3>1. SentClicks = SentClicks' + 1
      BY <2>3
    <3>2. gallery.changes + 2 * SentClicks <= 2 * clicks + 1
      BY <1>1, <2>2
    <3>3. gallery'.changes = gallery.changes + 1 /\ gallery.changes \in Nat
      BY <1>1, <2>1
    <3> QED
      BY <1>1, <2>2, <2>3, <3>1, <3>2, <3>3
  <2>5. \A p \in Import!Polls : polls[p].seen <= gallery'.changes
    BY <1>1, <2>1
  <2> QED
    BY <1>0, <2>1, <2>4, <2>5 DEF ImportRest
<1>5. ASSUME NEW b \in Import!Buttons, Import!Clicked(b) PROVE ImportRest'
  <2>1. /\ UNCHANGED <<gallery, polls, overtaken, together, fails>>
        /\ click[b] = "idle" /\ click' = [click EXCEPT ![b] = "sent"]
        /\ clicks < MaxClicks /\ clicks' = clicks + 1
    BY <1>5 DEF Import!Clicked, Import!Enabled
  <2>0. click'[b] = "sent" /\ \A c \in Import!Buttons : c # b => click'[c] = click[c]
    BY <2>1, ButtonMoves
  <2>2. SentClicks' = SentClicks + 1 /\ SentClicks' \in Nat /\ Builds' = Builds
    BY <2>1, <2>0, ButtonCounts DEF Builds
  <2>3. gallery.changes + Builds' + 2 * SentClicks' <= 2 * clicks' + 1
    BY <1>1, <2>1, <2>2
  <2>4. clicks' \in 0..MaxClicks
    BY <1>0, <2>1, Counted
  <2> QED
    BY <1>0, <1>1, <2>1, <2>3, <2>4 DEF ImportRest
<1>6. ASSUME NEW b \in Import!Buttons, Import!Accepted(b) \/ Import!Refused(b) \/ Import!ClickFails(b)
      PROVE  ImportRest'
  <2>1. /\ UNCHANGED <<gallery, overtaken, clicks>> /\ click' = [click EXCEPT ![b] = "idle"]
        /\ polls' = polls \/ \E p \in Import!Polls : Import!Begins(p, b)
    BY <1>6 DEF Import!Accepted, Import!Refused, Import!ClickFails, Import!Counts
  <2>0. click'[b] = "idle" /\ \A c \in Import!Buttons : c # b => click'[c] = click[c]
    BY <2>1, ButtonMoves
  <2>2. SentClicks' \in Nat /\ SentClicks' <= SentClicks
    BY <2>1, <2>0, ButtonCounts
  <2>4. SeenKept
    BY <2>1, PollsSee DEF SeenKept
  <2>5. fails' \in 0..MaxFails
    BY <1>0, <1>6, Counted
       DEF Import!Accepted, Import!Refused, Import!ClickFails, Import!Counts, Import!Fails
  <2>6. together' \in BOOLEAN
    BY <1>0, <1>6 DEF Import!Accepted, Import!Refused, Import!ClickFails, Import!Begins
  <2> QED
    BY <1>0, <2>1, <2>2, <2>4, <2>5, <2>6, ChangesKept DEF ImportRest
<1> QED
  BY <1>2, <1>3, <1>4, <1>5, <1>6 DEF Import!Next, Import!ClickStep

\* Types of the gallery page.
LEMMA ImportTyped == ASSUME PollInv, ImportRest PROVE Import!TypeOK
<1>1. /\ gallery.changes \in Nat /\ Builds \in {0, 1} /\ SentClicks \in Nat
      /\ gallery.changes + Builds + 2 * SentClicks <= 2 * clicks + 1
      /\ clicks \in Nat /\ clicks <= MaxClicks /\ MaxClicks \in Nat
  BY PagesAssumption DEF PollInv, PollTypes, ImportRest, Builds, SentClicks, IsSent
<1>2. gallery.changes \in 0..(2 * MaxClicks + 1)
  BY <1>1
<1>3. gallery \in [state : Import!States, changes : 0..(2 * MaxClicks + 1)]
  BY <1>2 DEF PollInv, PollTypes
<1>4. polls \in [Import!Polls -> [at : {"off", "asking", "answered", "waiting"},
                                  asks : {"poll", "again", "load"},
                                  by : Import!Buttons \cup {"page"},
                                  got : Import!States \cup {"none"}, seen : 0..gallery.changes]]
  <2>1. \A p \in Import!Polls : polls[p].seen \in 0..gallery.changes
    BY <1>1 DEF PollInv, PollTypes, Poll, ImportRest
  <2> QED
    BY <2>1 DEF PollInv, PollTypes, Poll
<1>5. screen \in [word : {"none", "sending", "error"} \cup Import!States,
                  details : Import!States \cup {"none"}, newest : 0..gallery.changes]
  <2>1. screen.newest \in 0..gallery.changes
    BY <1>1 DEF PollInv, PollTypes, Screen
  <2> QED
    BY <2>1 DEF PollInv, PollTypes, Screen
<1>6. activePoll \in 0..MaxPolls
  BY PagesAssumption DEF PollInv, PollTypes, Import!Polls
<1> QED
  BY <1>3, <1>4, <1>5, <1>6 DEF Import!TypeOK, PollInv, PollTypes, ImportRest

\* The rest of what the export page keeps.
ExportFlags ==
    /\ canStart \in BOOLEAN /\ abortShown \in BOOLEAN
    /\ late \in BOOLEAN /\ crossing \in BOOLEAN /\ missed \in BOOLEAN
ExportRest ==
    /\ timer \in 0..MaxChecks /\ ExportFlags /\ settled \subseteq Jobs
    /\ failures \in 0..MaxMissed /\ loads \in 0..MaxLoads

\* Each step keeps it.
LEMMA ExportRestKeeps == ASSUME ExportTypes, ExportRest, Export!Next PROVE ExportRest'
<1> USE DEF ExportFlags
<1>0. /\ timer \in 0..MaxChecks /\ ExportFlags /\ settled \subseteq Jobs
      /\ failures \in 0..MaxMissed /\ loads \in 0..MaxLoads
      /\ MaxMissed \in Nat /\ MaxLoads \in Nat /\ MaxChecks \in Nat
  BY PagesAssumption DEF ExportRest
<1>1. Export!Misses => failures' \in 0..MaxMissed
  BY <1>0, Counted DEF Export!Misses
<1>2. \A c \in Export!Checks : c \in 0..MaxChecks
  BY <1>0 DEF Export!Checks
<1>3. \A c \in Export!Checks : checks[c].at # "off" => checks[c].job \in Jobs
  BY DEF ExportTypes, Upload, Places
<1>4. CASE /\ UNCHANGED <<timer, settled, missed, late, crossing, loads>>
           /\ failures' = failures \/ Export!Misses
           /\ canStart' \in BOOLEAN /\ abortShown' \in BOOLEAN
  BY <1>0, <1>1, <1>4 DEF ExportRest
<1>5. CASE \/ Export!ServiceStep \/ Export!Chooses \/ Export!AbortClicked
           \/ Export!AbortArrives \/ Export!AbortAnswered \/ Export!AbortLost
  BY <1>0, <1>4, <1>5
     DEF Export!ServiceStep, Export!page, Export!Chooses, Export!AbortClicked, Export!AbortArrives,
         Export!AbortAnswered, Export!AbortLost, Export!OfStarts
<1>6. ASSUME NEW u \in Export!Starts, Export!UploadStep(u) PROVE ExportRest'
  BY <1>0, <1>4, <1>6
     DEF Export!UploadStep, Export!Arrives, Export!Received, Export!StartArrives, Export!Opened,
         Export!PartsSent, Export!Accepted, Export!Refused, Export!Aborts, Export!OnlyUploads,
         Export!HidesAbort, Export!OfStarts
<1>7. ASSUME NEW u \in Export!Starts, Export!AnswerLost(u) PROVE ExportRest'
  <2>1. /\ UNCHANGED <<timer, settled, Export!OfStarts>> /\ missed' = TRUE
        /\ Export!Misses /\ canStart' \in {canStart, TRUE} /\ abortShown' \in {abortShown, FALSE}
    BY <1>0, <1>7 DEF Export!AnswerLost, Export!HidesAbort
  <2> QED
    BY <1>0, <1>1, <2>1 DEF ExportRest, Export!OfStarts
<1>8. ASSUME NEW u \in Export!Starts, NEW kind \in {"zip", "parts"}, Export!Start(u, kind)
      PROVE  ExportRest'
  <2>1. /\ UNCHANGED <<timer, abortShown, missed, failures, loads>> /\ canStart' = FALSE
        /\ settled' = settled \cup {checks[c].job : c \in {d \in Export!Checks : ~ Export!Keeps(d)}}
    BY <1>8 DEF Export!Start
  <2>2. late' \in BOOLEAN /\ crossing' \in BOOLEAN
    BY <1>0, <1>8 DEF Export!Start, Export!Ledger!Idle
  <2>3. settled' \subseteq Jobs
    BY <1>0, <1>3, <2>1 DEF Export!Keeps
  <2> QED
    BY <1>0, <2>1, <2>2, <2>3 DEF ExportRest
<1>9. ASSUME NEW c \in Export!Checks, Export!CheckStep(c) \/ Export!CheckFails(c) PROVE ExportRest'
  <2>1. CASE Export!Reads(c) \/ Export!Fires(c)
    BY <1>0, <1>4, <2>1 DEF Export!Reads, Export!Fires, Export!OfStarts
  <2>2. CASE Export!ShowsEnd(c) \/ Export!ShowsCollecting(c)
    <3>1. /\ UNCHANGED <<timer, missed, failures, Export!OfStarts>>
          /\ canStart' \in {canStart, TRUE} /\ abortShown' \in BOOLEAN
          /\ settled' = settled \cup {checks[c].job} /\ checks[c].at = "read"
      BY <2>2 DEF Export!ShowsEnd, Export!ShowsCollecting, Export!Answer
    <3> QED
      BY <1>0, <1>3, <3>1 DEF ExportRest, Export!OfStarts
  <2>3. CASE Export!ShowsProgress(c) \/ Export!CheckFails(c)
    <3>1. /\ UNCHANGED <<settled, missed, canStart, Export!OfStarts>> /\ timer' = c
          /\ failures' = failures \/ Export!Misses
          /\ abortShown' \in {abortShown, FALSE}
      BY <2>3 DEF Export!ShowsProgress, Export!CheckFails
    <3> QED
      BY <1>0, <1>1, <1>2, <3>1 DEF ExportRest, Export!OfStarts
  <2> QED
    BY <1>9, <2>1, <2>2, <2>3 DEF Export!CheckStep
<1>10. CASE Export!Load
  <2>1. /\ UNCHANGED <<late, crossing, failures>> /\ timer' = 0
        /\ canStart' = TRUE /\ abortShown' = FALSE
        /\ loads < MaxLoads /\ loads' = loads + 1
        /\ settled' = settled \cup {checks[c].job : c \in {d \in Export!Checks : checks[d].at # "off"}}
    BY <1>10 DEF Export!Load
  <2>2. missed' \in BOOLEAN
    BY <1>0, <1>10 DEF Export!Load
  <2>3. settled' \subseteq Jobs
    BY <1>0, <1>3, <2>1
  <2>4. loads' \in 0..MaxLoads
    BY <1>0, <2>1, Counted
  <2>5. timer' \in 0..MaxChecks
    BY <1>0, <2>1
  <2> QED
    BY <1>0, <2>1, <2>2, <2>3, <2>4, <2>5 DEF ExportRest
<1> QED
  BY <1>5, <1>6, <1>7, <1>8, <1>9, <1>10 DEF Export!Next

\* Types of the export page.
LEMMA ExportTyped == ASSUME ExportTypes, ClickTypes, ExportRest PROVE Export!TypeOK
<1>1. clicked \in [at : {"none", "sent", "aborted"}, job : Jobs \cup {NoJob}]
  BY DEF ClickTypes, Export!NoClick
<1> QED
  BY <1>1 DEF Export!TypeOK, ExportTypes, Upload, Places, ExportRest, ExportFlags, Told

\* The rest of what the page with one image keeps.
SoloRest ==
    /\ drawing \in BOOLEAN /\ focus \in BOOLEAN
    /\ commonGallery \in {"unknown", "ready", "small"}
    /\ modal \in [search : 0..MaxAnalyses, beside : Images \cup {NoImage}]
    /\ moves \in 0..MaxMoves

\* Each step keeps it.
LEMMA SoloRestKeeps == ASSUME SoloInv, SoloRest, Solo!Next PROVE SoloRest'
<1>0. /\ drawing \in BOOLEAN /\ focus \in BOOLEAN
      /\ commonGallery \in {"unknown", "ready", "small"}
      /\ modal \in [search : 0..MaxAnalyses, beside : Images \cup {NoImage}]
      /\ moves \in 0..MaxMoves /\ MaxMoves \in Nat /\ MaxAnalyses \in Nat
      /\ image \in Images \cup {NoImage}
  BY PagesAssumption DEF SoloRest, SoloInv
<1>1. Solo!Moves => moves' \in 0..MaxMoves
  BY <1>0, Counted DEF Solo!Moves
<1>2. CASE /\ UNCHANGED modal
           /\ moves' = moves \/ Solo!Moves
           /\ drawing' \in {TRUE, FALSE, drawing} /\ focus' \in {TRUE, FALSE, focus}
           /\ commonGallery' \in {"ready", "small", commonGallery}
  BY <1>0, <1>1, <1>2 DEF SoloRest
<1>3. ASSUME NEW i \in Images, Solo!Choose(i) \/ Solo!Opened(i) PROVE SoloRest'
  BY <1>2, <1>3 DEF Solo!Choose, Solo!Opened, Solo!OfSearches
<1>4. CASE \/ Solo!PointerDown \/ Solo!PointerMoves \/ Solo!PointerUp \/ Solo!Clear
           \/ Solo!Focus \/ Solo!FocusAnswered \/ Solo!FocusFails
  BY <1>2, <1>4 DEF Solo!PointerDown, Solo!PointerMoves, Solo!PointerUp, Solo!Clear,
                    Solo!Focus, Solo!FocusAnswered, Solo!FocusFails, Solo!OfSearches
<1>5. ASSUME NEW s \in Solo!Searches, Solo!Click(s) \/ Solo!Send(s) \/ Solo!NotSent(s) PROVE SoloRest'
  BY <1>2, <1>5 DEF Solo!Click, Solo!Send, Solo!NotSent
<1>6. ASSUME NEW s \in Solo!Searches, Solo!Show(s) PROVE SoloRest'
  <2>1. [search |-> s, beside |-> image] \in [search : 0..MaxAnalyses, beside : Images \cup {NoImage}]
    BY <1>0 DEF Solo!Searches
  <2>2. /\ modal' \in {[search |-> s, beside |-> image], modal}
        /\ UNCHANGED <<commonGallery, drawing, focus, moves>>
    BY <1>6 DEF Solo!Show
  <2>3. modal' \in [search : 0..MaxAnalyses, beside : Images \cup {NoImage}]
    BY <1>0, <2>1, <2>2
  <2> QED
    BY <1>0, <2>2, <2>3 DEF SoloRest
<1>7. CASE Solo!CloseModal
  <2>1. Solo!NoModal \in [search : 0..MaxAnalyses, beside : Images \cup {NoImage}]
    BY <1>0 DEF Solo!NoModal
  <2> QED
    BY <1>0, <1>7, <2>1 DEF Solo!CloseModal, SoloRest
<1> QED
  BY <1>3, <1>4, <1>5, <1>6, <1>7 DEF Solo!Next

\* Types of the page with one image.
LEMMA SoloTyped == ASSUME SoloInv, SoloRest PROVE Solo!TypeOK
<1>1. \A s \in Solo!Searches : analyses[s].at \in {"new", "loading", "sent", "done"}
  BY DEF SoloInv
<1> QED
  BY <1>1 DEF Solo!TypeOK, SoloInv, SoloRest

\* Types of the batch page.
LEMMA ManyTyped == ASSUME ManyInv PROVE Many!TypeOK
<1>1. ASSUME NEW s \in Many!Searches PROVE Len(searches[s].reply) \in {0, Len(searches[s].images)}
  <2>1. PICK names : names = searches[s].images
    OBVIOUS
  <2>2. names \in Choices /\ Answers(searches[s])
    BY <2>1 DEF ManyInv, SearchTypes, AnswersRight
  <2>3. names \in Seq({names[j] : j \in DOMAIN names})
    BY <2>2, NamesChosen DEF Choices
  <2>4. CASE searches[s].reply = <<>>
    BY <2>4
  <2>5. ASSUME NEW valid \in SUBSET DOMAIN names,
               searches[s].reply = Many!Reply(names, searches[s].manifest, valid)
        PROVE  Len(searches[s].reply) = Len(names)
    BY <2>3, <2>5, RepliesAreBeside
  <2> QED
    BY <2>1, <2>2, <2>4, <2>5 DEF Answers
<1>2. results.search \in 0..MaxSearches
  <2>1. MaxSearches \in Nat /\ \A s \in Many!Searches : s \in 0..MaxSearches
    BY PagesAssumption DEF Many!Searches
  <2> QED
    BY <2>1 DEF ManyInv, CardsOfSearch, Many!NoResults
<1>3. \A s \in Many!Searches :
         /\ searches[s].at \in {"new", "loading", "sent", "answered", "refused", "done"}
         /\ searches[s].images \in Selections \cup {<<>>}
         /\ {searches[s].checked, searches[s].manifest} \subseteq Csvs \cup {NoCsv}
  BY DEF ManyInv, SearchTypes, Choices, Tables
<1> QED
  BY <1>1, <1>2, <1>3 DEF Many!TypeOK, ManyInv, InputTypes, Choices, Tables

\* Each file of the backend came with an upload or an archive.
StoredUploads == {u \in Files!Uploads : pending[u].stored # 0}
StoredArchives == {n \in 1..MaxArchives : listings[n].at # "new"}
FilesCounted == lastFile = 1 + Cardinality(StoredUploads) + Cardinality(StoredArchives)

\* There are no more uploads and archives than their bounds.
LEMMA StoredBounds ==
    /\ IsFiniteSet(StoredUploads) /\ Cardinality(StoredUploads) \in 0..MaxPending
    /\ IsFiniteSet(StoredArchives) /\ Cardinality(StoredArchives) \in 0..MaxArchives
<1>1. ASSUME NEW m \in Nat, NEW S \in SUBSET (1..m) PROVE IsFiniteSet(S) /\ Cardinality(S) \in 0..m
  <2>1. IsFiniteSet(1..m) /\ Cardinality(1..m) = m
    BY <1>1, FS_Interval
  <2>2. IsFiniteSet(S) /\ Cardinality(S) <= m
    BY <2>1, FS_Subset
  <2>3. Cardinality(S) \in Nat
    BY <2>2, FS_CardinalityType
  <2> QED
    BY <2>2, <2>3
<1>2. MaxPending \in Nat /\ MaxArchives \in Nat
  BY PagesAssumption
<1>3. StoredUploads \in SUBSET (1..MaxPending) /\ StoredArchives \in SUBSET (1..MaxArchives)
  BY DEF StoredUploads, StoredArchives, Files!Uploads
<1> QED
  BY <1>1, <1>2, <1>3

\* What is not changed by a step.
LEMMA CountKept ==
    ASSUME FilesCounted, UNCHANGED lastFile,
           \A u \in Files!Uploads : pending'[u].stored = pending[u].stored,
           \A n \in Files!Listings : listings'[n].at = "new" <=> listings[n].at = "new"
    PROVE  FilesCounted'
<1>1. 1..MaxArchives \subseteq Files!Listings
  BY PagesAssumption DEF Files!Listings
<1>2. StoredUploads' = StoredUploads
  BY DEF StoredUploads
<1>3. StoredArchives' = StoredArchives
  BY <1>1 DEF StoredArchives
<1> QED
  BY <1>2, <1>3 DEF FilesCounted

\* Each step of the page keeps the count.
LEMMA CountKeeps == ASSUME FileTypes, FilesCounted, Files!Next PROVE FilesCounted'
<1>1. FileState /\ IdTypes /\ lastFile \in Nat
  BY DEF FileTypes, FileState
<1>2. ASSUME NEW u \in Files!Uploads, Files!Stores(u) PROVE FilesCounted'
  <2>1. /\ lastFile' = lastFile + 1 /\ UNCHANGED listings
        /\ pending' = [pending EXCEPT ![u].at = "stored", ![u].stored = lastFile']
        /\ pending[u].at = "sent" /\ pending[u].stored = 0
    BY <1>1, <1>2 DEF Files!Stores, IdTypes
  <2>2. /\ pending'[u].stored # 0
        /\ \A v \in Files!Uploads : v # u => pending'[v] = pending[v]
    <3>1. pending[u] \in Pending /\ lastFile' # 0
      BY <1>1, <2>1 DEF FileState
    <3>2. pending'[u].stored = lastFile' /\ \A v \in Files!Uploads : v # u => pending'[v] = pending[v]
      BY <1>1, <2>1, <3>1 DEF FileState, Pending
    <3> QED
      BY <3>1, <3>2
  <2>3. StoredUploads' = StoredUploads \cup {u} /\ u \notin StoredUploads
    BY <2>1, <2>2 DEF StoredUploads
  <2>4. StoredArchives' = StoredArchives
    BY <2>1 DEF StoredArchives
  <2>5. Cardinality(StoredUploads') = Cardinality(StoredUploads) + 1
    BY <2>3, StoredBounds, FS_AddElement
  <2>6. Cardinality(StoredUploads) \in Nat /\ Cardinality(StoredArchives) \in Nat
    BY StoredBounds, FS_CardinalityType
  <2> QED
    BY <1>1, <2>1, <2>4, <2>5, <2>6 DEF FilesCounted
<1>3. ASSUME NEW n \in Files!Listings, Files!Archive(n) PROVE FilesCounted'
  <2>1. /\ lastFile' = lastFile + 1 /\ UNCHANGED pending
        /\ listings' = [listings EXCEPT ![n].at = "asking"]
        /\ listings[n].at = "new" /\ n \in 1..MaxArchives
    BY <1>3, PagesAssumption DEF Files!Archive, Files!Listings
  <2>2. /\ listings'[n].at = "asking"
        /\ \A m \in Files!Listings : m # n => listings'[m] = listings[m]
    BY <1>1, <2>1 DEF FileState, Listing
  <2>3. StoredArchives' = StoredArchives \cup {n} /\ n \notin StoredArchives
    <3>1. 1..MaxArchives \subseteq Files!Listings
      BY PagesAssumption DEF Files!Listings
    <3> QED
      BY <2>1, <2>2, <3>1 DEF StoredArchives
  <2>4. StoredUploads' = StoredUploads
    BY <2>1 DEF StoredUploads
  <2>5. Cardinality(StoredArchives') = Cardinality(StoredArchives) + 1
    BY <2>3, StoredBounds, FS_AddElement
  <2>6. Cardinality(StoredUploads) \in Nat /\ Cardinality(StoredArchives) \in Nat
    BY StoredBounds, FS_CardinalityType
  <2> QED
    BY <1>1, <2>1, <2>4, <2>5, <2>6 DEF FilesCounted
<1>4. ASSUME NEW u \in Files!Uploads,
             Files!Upload(u) \/ Files!Stored(u) \/ Files!Refused(u) \/ Files!UploadLost(u)
      PROVE  FilesCounted'
  <2>1. UNCHANGED <<lastFile, listings>>
    BY <1>4 DEF Files!Upload, Files!Stored, Files!Refused, Files!UploadLost, Files!Backend
  <2>2. pending \in [Files!Uploads -> Pending] /\ pending[u] \in Pending
    BY <1>1 DEF FileState
  <2>3. \/ \E at \in {"sent", "error"} : pending' = [pending EXCEPT ![u].at = at]
        \/ pending' = [pending EXCEPT ![u].at = "saved", ![u].id = pending[u].stored]
    BY <1>4 DEF Files!Upload, Files!Stored, Files!Refused, Files!UploadLost
  <2>4. CASE \E at \in {"sent", "error"} : pending' = [pending EXCEPT ![u].at = at]
    <3>1. \A v \in Files!Uploads : pending'[v].stored = pending[v].stored
      BY <2>2, <2>4 DEF Pending
    <3> QED
      BY <2>1, <3>1, CountKept
  <2>5. CASE pending' = [pending EXCEPT ![u].at = "saved", ![u].id = pending[u].stored]
    <3>1. \A v \in Files!Uploads : pending'[v].stored = pending[v].stored
      BY <2>2, <2>5 DEF Pending
    <3> QED
      BY <2>1, <3>1, CountKept
  <2> QED
    BY <2>3, <2>4, <2>5
<1>5. ASSUME NEW n \in Files!Listings, Files!Lists(n) \/ Files!Listed(n) \/ Files!ListingLost(n)
      PROVE  FilesCounted'
  <2>1. UNCHANGED <<lastFile, pending>> /\ listings[n].at # "new"
    BY <1>5 DEF Files!Lists, Files!Listed, Files!ListingLost, Files!Backend
  <2>2. listings'[n].at # "new" /\ \A m \in Files!Listings : m # n => listings'[m] = listings[m]
    BY <1>1, <1>5 DEF Files!Lists, Files!Listed, Files!ListingLost, FileState, Listing
  <2> QED
    BY <2>1, <2>2, CountKept
<1>6. ASSUME NEW d \in Files!Deletes,
             Files!Delete(d) \/ Files!Serves(d) \/ Files!Deleted(d) \/ Files!DeleteLost(d)
      PROVE  FilesCounted'
  <2>1. UNCHANGED <<lastFile, pending, listings>>
    BY <1>6 DEF Files!Delete, Files!Serves, Files!Deleted, Files!DeleteLost, Files!Backend
  <2> QED
    BY <2>1, CountKept
<1> QED
  BY <1>2, <1>3, <1>4, <1>5, <1>6 DEF Files!Next

\* The page begins with one file given.
LEMMA CountBegins == ASSUME Files!Init PROVE FilesCounted
<1>1. lastFile = 1 /\ StoredUploads = {} /\ StoredArchives = {}
  BY PagesAssumption DEF Files!Init, StoredUploads, StoredArchives, Files!Listings
<1> QED
  BY <1>1, FS_EmptySet DEF FilesCounted

\* Types of the page of uploaded files.
LEMMA FilesTyped == ASSUME FileTypes, FilesCounted PROVE Files!TypeOK
<1>1. lastFile \in 1..(1 + MaxPending + MaxArchives)
  <2>1. /\ Cardinality(StoredUploads) \in 0..MaxPending /\ Cardinality(StoredArchives) \in 0..MaxArchives
        /\ MaxPending \in Nat /\ MaxArchives \in Nat
    BY StoredBounds, PagesAssumption
  <2> QED
    BY <2>1 DEF FilesCounted
<1>2. ASSUME NEW i \in DOMAIN items PROVE Files!IdOf(items[i]) \in 0..lastFile
  <2>1. items[i] \in Shown
    BY DEF Shown, Files!ToSet
  <2> QED
    BY <2>1, ShownIds
<1>3. /\ \A u \in Files!Uploads : pending[u].at \in {"new", "sent", "stored", "saved", "error"}
      /\ \A n \in Files!Listings : listings[n].at \in {"new", "asking", "read", "done"}
      /\ \A d \in Files!Deletes : deletes[d].at \in {"new", "sent", "deleted", "done"}
  BY DEF FileTypes, FileState, Pending, Listing, Deleting
<1> QED
  BY <1>1, <1>2, <1>3 DEF Files!TypeOK, FileTypes, FileState

\* All of it, of all pages.
PagesInv ==
    /\ open \in {"import", "export", "many", "solo", "files"}
    /\ PollInv /\ ImportRest
    /\ ExportInv /\ ExportRest
    /\ ManyInv
    /\ ShownInv /\ SoloRest
    /\ FilesInv /\ FilesCounted

\* The pages begin with it.
LEMMA PagesBegin == Init => PagesInv
<1> SUFFICES ASSUME Init PROVE PagesInv
  OBVIOUS
<1>1. /\ Import!Init /\ Export!Init /\ Many!Init /\ Solo!Init /\ Files!Init
      /\ open \in {"import", "export", "many", "solo", "files"}
  BY DEF Init
<1>2. \A m \in Nat : 0 \in 0..m
  OBVIOUS
<1>3. /\ MaxClicks \in Nat /\ MaxFails \in Nat /\ MaxChecks \in Nat /\ MaxMissed \in Nat
      /\ MaxLoads \in Nat /\ MaxAnalyses \in Nat /\ MaxMoves \in Nat
  BY PagesAssumption
<1>4. PollInv
  BY PollsBegin
<1>5. ImportRest
  <2>1. /\ overtaken = FALSE /\ together = FALSE /\ clicks = 0 /\ fails = 0
        /\ gallery.changes = 0 /\ SentClicks = 0 /\ Builds \in {0, 1}
    BY <1>1 DEF Import!Init, SentClicks, IsSent, Builds, Import!Buttons
  <2>2. \A p \in Import!Polls : polls[p].seen = 0 /\ polls[p].seen <= 0
    BY <1>1 DEF Import!Init, Import!Off, Import!Asking
  <2>3. clicks \in 0..MaxClicks /\ fails \in 0..MaxFails
    BY <1>2, <1>3, <2>1
  <2>4. gallery.changes + Builds + 2 * SentClicks <= 2 * clicks + 1
    BY <2>1
  <2> QED
    BY <2>1, <2>2, <2>3, <2>4 DEF ImportRest
<1>6. ExportInv
  BY ExportBegins
<1>7. ExportRest
  <2>1. /\ timer = 0 /\ canStart = TRUE /\ abortShown = FALSE
        /\ late = FALSE /\ crossing = FALSE /\ missed = FALSE
        /\ settled = {} /\ failures = 0 /\ loads = 0
    BY <1>1 DEF Export!Init
  <2> QED
    BY <1>2, <1>3, <2>1 DEF ExportRest, ExportFlags
<1>8. ShownInv
  BY SoloBegins
<1>9. SoloRest
  <2>1. /\ drawing = FALSE /\ focus = TRUE /\ commonGallery = "unknown" /\ moves = 0
        /\ modal = Solo!NoModal
    BY <1>1 DEF Solo!Init
  <2>2. Solo!NoModal \in [search : 0..MaxAnalyses, beside : Images \cup {NoImage}]
    BY <1>2, <1>3 DEF Solo!NoModal
  <2> QED
    BY <1>2, <1>3, <2>1, <2>2 DEF SoloRest
<1> QED
  BY <1>1, <1>4, <1>5, <1>6, <1>7, <1>8, <1>9, ManyBegins, FilesBegins, CountBegins
     DEF PagesInv

\* What a page keeps does not change while another page is open.
LEMMA PagesLeft ==
    ASSUME PagesInv
    PROVE  /\ UNCHANGED ofImport => ImportRest'
           /\ UNCHANGED ofExport => ExportRest'
           /\ UNCHANGED ofSolo => SoloRest'
           /\ UNCHANGED ofFiles => FilesCounted'
<1>1. ASSUME UNCHANGED ofImport PROVE ImportRest'
  BY <1>1 DEF PagesInv, ofImport, ImportRest, Builds, SentClicks, IsSent
<1>2. ASSUME UNCHANGED ofExport PROVE ExportRest'
  BY <1>2 DEF PagesInv, ofExport, ExportRest, ExportFlags
<1>3. ASSUME UNCHANGED ofSolo PROVE SoloRest'
  BY <1>3 DEF PagesInv, ofSolo, SoloRest
<1>4. ASSUME UNCHANGED ofFiles PROVE FilesCounted'
  <2>1. UNCHANGED <<lastFile, pending, listings>>
    BY <1>4 DEF ofFiles
  <2> QED
    BY <2>1, CountKept DEF PagesInv
<1> QED
  BY <1>1, <1>2, <1>3, <1>4

\* Each step of a page keeps it.
LEMMA PagesStep == PagesInv /\ [Next]_vars => PagesInv'
<1> SUFFICES ASSUME PagesInv, [Next]_vars PROVE PagesInv'
  OBVIOUS
<1>0. /\ PollInv /\ ImportRest /\ ExportInv /\ ExportRest /\ ManyInv /\ ShownInv /\ SoloRest
      /\ FilesInv /\ FilesCounted
  BY DEF PagesInv
<1>1. PollInv' /\ ExportInv' /\ ManyInv' /\ ShownInv' /\ FilesInv'
  BY <1>0, PollsKept, ExportKept, ManyStepsKeep, ShownKept, FilesKept
<1>2. open' \in {"import", "export", "many", "solo", "files"}
  BY DEF PagesInv, Next, vars
<1>3. ImportRest'
  <2>1. PollTypes /\ PollTypes'
    BY <1>0, <1>1 DEF PollInv
  <2> QED
    BY <1>0, <2>1, ImportRestKeeps, PagesLeft DEF Next, vars
<1>4. ExportRest'
  <2>1. ExportTypes
    BY <1>0 DEF ExportInv
  <2> QED
    BY <1>0, <2>1, ExportRestKeeps, PagesLeft DEF Next, vars
<1>5. SoloRest'
  <2>1. SoloInv
    BY <1>0 DEF ShownInv
  <2> QED
    BY <1>0, <2>1, SoloRestKeeps, PagesLeft DEF Next, vars
<1>6. FilesCounted'
  <2>1. FileTypes
    BY <1>0 DEF FilesInv
  <2> QED
    BY <1>0, <2>1, CountKeeps, PagesLeft DEF Next, vars
<1> QED
  BY <1>1, <1>2, <1>3, <1>4, <1>5, <1>6 DEF PagesInv

\* The open page keeps the types of its state, and its counters their bounds: the
\* gallery does not change more often than clicks account for, and no more files
\* are stored than were uploaded.
THEOREM PagesAreTyped == Spec => []TypeOK
<1>1. PagesInv => TypeOK
  <2> SUFFICES ASSUME PagesInv PROVE TypeOK
    OBVIOUS
  <2>1. Import!TypeOK
    BY ImportTyped DEF PagesInv
  <2>2. Export!TypeOK
    BY ExportTyped DEF PagesInv, ExportInv
  <2>3. Many!TypeOK
    BY ManyTyped DEF PagesInv
  <2>4. Solo!TypeOK
    BY SoloTyped DEF PagesInv, ShownInv
  <2>5. Files!TypeOK
    BY FilesTyped DEF PagesInv, FilesInv
  <2> QED
    BY <2>1, <2>2, <2>3, <2>4, <2>5 DEF PagesInv, TypeOK
<1> QED
  BY <1>1, PagesBegin, PagesStep, PTL DEF Spec

==============================================================================
