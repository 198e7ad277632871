------------------------------- MODULE SoloPage ------------------------------
(***************************************************************************)
(* The page that analyses one image: the image is opened in the            *)
(* background, a box is drawn on it, and a search is sent after the        *)
(* gallery was asked for.  Every change of the box or of the gallery       *)
(* renders the box, which also decides whether the button is enabled.      *)
(***************************************************************************)
EXTENDS Naturals

CONSTANTS
    Images, NoImage,
    MaxAnalyses,    \* bound: clicks on the search button
    MaxMoves        \* bound: what the user does beside them

VARIABLES
    image,          \* the image shown
    opening,        \* images being opened
    drawing,        \* the pointer is down
    box,            \* the box: the image it was drawn on, and whether it is large enough
    commonGallery,  \* "unknown", "ready", "small"
    focus,          \* a request for the gallery that the window's focus began
    enabled,        \* the button
    analyses,       \* the click handlers
    modal,          \* the result shown: its search and the image beside it
    replaced,       \* an image was opened while a search was under way
    moves

vars == <<image, opening, drawing, box, commonGallery, focus, enabled, analyses, modal, replaced, moves>>

Searches == 1..MaxAnalyses
NoBox == [on |-> NoImage, large |-> FALSE]
New == [at |-> "new", image |-> NoImage, box |-> NoBox]
NoModal == [search |-> 0, beside |-> NoImage]
UnderWay(s) == analyses[s].at = "sent"

Init ==
    /\ image = NoImage /\ opening = {} /\ drawing = FALSE /\ box = NoBox
    /\ commonGallery = "unknown" /\ focus = TRUE
    /\ enabled = FALSE
    /\ analyses = [s \in Searches |-> New]
    /\ modal = NoModal
    /\ replaced = FALSE
    /\ moves = 0

\* renderBox
Renders == enabled' = (commonGallery' = "ready" /\ box'.large)

Moves == moves < MaxMoves /\ moves' = moves + 1
OfSearches == <<analyses, modal>>

------------------------------------------------------------------------------
(* The image and the box *)

Choose(i) ==
    /\ Moves
    /\ opening' = opening \cup {i}
    /\ UNCHANGED <<image, drawing, box, commonGallery, focus, enabled, OfSearches, replaced>>

\* Mutant: the box stays where it was
OpenedKeeping(i) ==
    /\ i \in opening
    /\ opening' = opening \ {i}
    /\ image' = i
    /\ drawing' = FALSE
    /\ UNCHANGED <<box, commonGallery>>
    /\ Renders
    /\ replaced' = (replaced \/ \E s \in Searches : UnderWay(s))
    /\ UNCHANGED <<focus, OfSearches, moves>>

\* onload; two images that were chosen may be opened in any order
Opened(i) ==
    /\ i \in opening
    /\ opening' = opening \ {i}
    /\ image' = i
    /\ drawing' = FALSE /\ box' = NoBox
    /\ UNCHANGED commonGallery
    /\ Renders
    /\ replaced' = (replaced \/ \E s \in Searches : UnderWay(s))
    /\ UNCHANGED <<focus, OfSearches, moves>>

PointerDown ==
    /\ image # NoImage
    /\ Moves
    /\ drawing' = TRUE /\ box' = [on |-> image, large |-> FALSE]
    /\ UNCHANGED commonGallery
    /\ Renders
    /\ UNCHANGED <<image, opening, focus, OfSearches, replaced>>

PointerMoves ==
    /\ drawing
    /\ \E large \in BOOLEAN : box' = [on |-> image, large |-> large]
    /\ UNCHANGED commonGallery
    /\ Renders
    /\ UNCHANGED <<image, opening, drawing, focus, OfSearches, replaced, moves>>

\* A box that is too small is dropped
PointerUp ==
    /\ drawing
    /\ drawing' = FALSE
    /\ box' \in {[on |-> image, large |-> TRUE], NoBox}
    /\ UNCHANGED commonGallery
    /\ Renders
    /\ UNCHANGED <<image, opening, focus, OfSearches, replaced, moves>>

\* The clear button, or a pointer that is cancelled
Clear ==
    /\ Moves
    /\ drawing' \in {FALSE, drawing}
    /\ box' = NoBox
    /\ UNCHANGED commonGallery
    /\ Renders
    /\ UNCHANGED <<image, opening, focus, OfSearches, replaced>>

------------------------------------------------------------------------------
(* The gallery *)

Focus ==
    /\ Moves
    /\ focus' = TRUE
    /\ UNCHANGED <<image, opening, drawing, box, commonGallery, enabled, OfSearches, replaced>>

\* The answer renders the box, also while a search is under way
FocusAnswered ==
    /\ focus /\ focus' = FALSE
    /\ commonGallery' \in {"ready", "small"}
    /\ UNCHANGED box
    /\ Renders
    /\ UNCHANGED <<image, opening, drawing, OfSearches, replaced, moves>>

FocusFails ==
    /\ focus /\ focus' = FALSE
    /\ UNCHANGED <<image, opening, drawing, box, commonGallery, enabled, OfSearches, replaced, moves>>

------------------------------------------------------------------------------
(* The search *)

Goes(s, at) == analyses' = [analyses EXCEPT ![s].at = at]

Click(s) ==
    /\ enabled /\ image # NoImage /\ box.large
    /\ analyses[s].at = "new" /\ \A t \in 1..(s - 1) : analyses[t].at # "new"
    /\ Goes(s, "loading")
    /\ UNCHANGED <<image, opening, drawing, box, commonGallery, focus, enabled, modal, replaced, moves>>

\* The gallery is known again.  The image and the box are read now, not when the
\* button was clicked; a box that was dropped since ends the handler.
Send(s) ==
    /\ analyses[s].at = "loading"
    /\ commonGallery' \in {"ready", "small"}
    /\ UNCHANGED box
    /\ IF commonGallery' = "ready" /\ box # NoBox
         THEN /\ analyses' = [analyses EXCEPT ![s] = [at |-> "sent", image |-> image, box |-> box]]
              /\ enabled' = FALSE
              /\ replaced' = (replaced \/ \E t \in Searches : UnderWay(t))
         ELSE Goes(s, "done") /\ Renders /\ UNCHANGED replaced
    /\ UNCHANGED <<image, opening, drawing, focus, modal, moves>>

NotSent(s) ==
    /\ analyses[s].at = "loading"
    /\ Goes(s, "done")
    /\ UNCHANGED <<image, opening, drawing, box, commonGallery, focus, enabled, modal, replaced, moves>>

\* A result is shown beside the image of the page, or an error; the box is
\* rendered at last
Show(s) ==
    /\ analyses[s].at = "sent"
    /\ Goes(s, "done")
    /\ modal' \in {[search |-> s, beside |-> image], modal}
    /\ UNCHANGED <<box, commonGallery>>
    /\ Renders
    /\ UNCHANGED <<image, opening, drawing, focus, replaced, moves>>

CloseModal ==
    /\ modal # NoModal /\ modal' = NoModal
    /\ UNCHANGED <<image, opening, drawing, box, commonGallery, focus, enabled, analyses, replaced, moves>>

------------------------------------------------------------------------------
Next ==
    \/ \E i \in Images : Choose(i) \/ Opened(i)
    \/ PointerDown
    \/ PointerMoves
    \/ PointerUp
    \/ Clear
    \/ Focus
    \/ FocusAnswered
    \/ FocusFails
    \/ \E s \in Searches : Click(s) \/ Send(s) \/ NotSent(s) \/ Show(s)
    \/ CloseModal

Spec == Init /\ [][Next]_vars

------------------------------------------------------------------------------
(* Properties *)

TypeOK ==
    /\ image \in Images \cup {NoImage} /\ opening \subseteq Images
    /\ {drawing, focus, enabled, replaced} \subseteq BOOLEAN
    /\ box \in [on : Images \cup {NoImage}, large : BOOLEAN]
    /\ commonGallery \in {"unknown", "ready", "small"}
    /\ \A s \in Searches : analyses[s].at \in {"new", "loading", "sent", "done"}
    /\ modal \in [search : 0..MaxAnalyses, beside : Images \cup {NoImage}]
    /\ moves \in 0..MaxMoves

\* A search is sent with a box that was drawn on the image it is sent with,
\* although both are read after the page waited for the gallery.
BoxOnImage == \A s \in Searches : analyses[s].at = "sent" => analyses[s].box.on = analyses[s].image

\* The button is never left disabled: no search under way, a gallery to search
\* and a box mean that the user may search.
ButtonBack ==
    (\A s \in Searches : ~ UnderWay(s)) /\ commonGallery = "ready" /\ box.large => enabled

\* A result is shown beside the image that was searched, unless an image was
\* opened, or another search sent, while a search was under way.
ResultBesideImage ==
    modal # NoModal /\ ~ replaced => modal.beside = analyses[modal.search].image
==============================================================================
