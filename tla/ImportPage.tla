------------------------------ MODULE ImportPage -----------------------------
(***************************************************************************)
(* The gallery page while photos are indexed: an upload, a retry and the   *)
(* load of the page each start to poll the state of the gallery.  The page *)
(* holds one timer handle; a request under way has none, so that several   *)
(* polls may live at a time and their answers may come in any order.       *)
(*                                                                         *)
(* Of the backend there is what the answers tell: the state of the common  *)
(* gallery, changed by this page and by the end of a build only.           *)
(***************************************************************************)
EXTENDS Naturals

CONSTANTS
    MaxPolls,   \* bound: polls alive at a time
    MaxClicks,  \* bound: clicks on upload and retry
    MaxFails    \* bound: answers that do not arrive

VARIABLES
    gallery,        \* the common gallery: its state, and how often it changed
    polls,          \* requests and timers of the page
    activePoll,     \* the poll whose timer the page would clear, 0 for none
    click,          \* requests of the two buttons
    screen,         \* what the page says, and the newest state it was told
    overtaken,      \* an answer was shown after that of a later state
    together,       \* a poll began while another request was under way
    clicks, fails

vars == <<gallery, polls, activePoll, click, screen, overtaken, together, clicks, fails>>

Polls == 1..MaxPolls
Buttons == {"upload", "retry"}
States == {"ready", "building", "failed"}
Off == [at |-> "off", asks |-> "poll", by |-> "page", got |-> "none", seen |-> 0]
Asking(asks, by) == [Off EXCEPT !.at = "asking", !.asks = asks, !.by = by]
UnderWay(p) == polls[p].at \in {"asking", "answered"}

\* The page is loaded, in any state of the gallery, and asks for it
Init ==
    /\ gallery \in [state : States, changes : {0}]
    /\ polls = [p \in Polls |-> IF p = 1 THEN Asking("load", "page") ELSE Off]
    /\ activePoll = 0
    /\ click = [b \in Buttons |-> "idle"]
    /\ screen = [word |-> "none", details |-> "none", newest |-> 0]
    /\ overtaken = FALSE /\ together = FALSE
    /\ clicks = 0 /\ fails = 0

Told == <<screen, overtaken>>
Counts == <<clicks, fails>>
Becomes(state) == gallery' = [state |-> state, changes |-> gallery.changes + 1]

------------------------------------------------------------------------------
(* The backend *)

BuildEnds ==
    /\ gallery.state = "building"
    /\ \E state \in {"ready", "failed"} : Becomes(state)
    /\ UNCHANGED <<polls, activePoll, click, Told, together, Counts>>

\* A request reads the state; the answer is on its way
Answers(p) ==
    /\ polls[p].at = "asking"
    /\ polls' = [polls EXCEPT ![p].at = "answered",
                              ![p].got = gallery.state, ![p].seen = gallery.changes]
    /\ UNCHANGED <<gallery, activePoll, click, Told, together, Counts>>

\* Photos are not accepted while a build runs, a retry only after a failure
Acceptable(b) == IF b = "upload" THEN gallery.state # "building" ELSE gallery.state = "failed"

Accepts(b) ==
    /\ click[b] = "sent" /\ Acceptable(b)
    /\ click' = [click EXCEPT ![b] = "accepted"]
    /\ Becomes("building")
    /\ UNCHANGED <<polls, activePoll, Told, together, Counts>>

------------------------------------------------------------------------------
(* pollImport *)

\* clearTimeout(activePoll): no effect on a timer that fired
Cleared(ps) ==
    IF activePoll # 0 /\ ps[activePoll].at = "waiting"
        THEN [ps EXCEPT ![activePoll] = Off] ELSE ps

Begins(p, by) ==
    /\ polls' = [Cleared([polls EXCEPT ![p] = Off]) EXCEPT ![p] = Asking("poll", by)]
    /\ together' = (together \/ \E q \in Polls \ {p} : UnderWay(q))

Fires(p) ==
    /\ polls[p].at = "waiting"
    /\ Begins(p, "page")
    /\ UNCHANGED <<gallery, activePoll, click, Told, Counts>>

Ends(p) == polls' = [polls EXCEPT ![p] = Off]

\* renderGallery, and the word of the poll
Shows(p, word) ==
    /\ screen' = [word |-> word, details |-> polls[p].got,
                  newest |-> IF polls[p].seen > screen.newest THEN polls[p].seen ELSE screen.newest]
    /\ overtaken' = (overtaken \/ polls[p].seen < screen.newest)

Got(p, asks) == polls[p].at = "answered" /\ polls[p].asks = asks

\* Mutant: a poll that finds the gallery building says so once
BuildingSaidOnce(p) ==
    /\ Got(p, "poll") /\ polls[p].got = "building"
    /\ Shows(p, "building")
    /\ Ends(p)
    /\ UNCHANGED <<gallery, activePoll, click, together, Counts>>

PollBuilding(p) ==
    /\ Got(p, "poll") /\ polls[p].got = "building"
    /\ Shows(p, "building")
    /\ polls' = [polls EXCEPT ![p] = [Off EXCEPT !.at = "waiting"]]
    /\ activePoll' = p
    /\ UNCHANGED <<gallery, click, together, Counts>>

\* A gallery that is ready is read once more
PollEnds(p) ==
    /\ Got(p, "poll") /\ polls[p].got # "building"
    /\ Shows(p, polls[p].got)
    /\ IF polls[p].got = "ready" THEN polls' = [polls EXCEPT ![p] = Asking("again", @.by)]
                                 ELSE Ends(p)
    /\ UNCHANGED <<gallery, activePoll, click, together, Counts>>

Again(p) ==
    /\ Got(p, "again")
    /\ Shows(p, screen.word)
    /\ Ends(p)
    /\ UNCHANGED <<gallery, activePoll, click, together, Counts>>

\* A page that was loaded while a build runs polls
LoadAnswered(p) ==
    /\ Got(p, "load")
    /\ Shows(p, screen.word)
    /\ IF polls[p].got = "building" THEN Begins(p, "page") ELSE Ends(p) /\ UNCHANGED together
    /\ UNCHANGED <<gallery, activePoll, click, Counts>>

Fails == fails < MaxFails /\ fails' = fails + 1
SaysError == screen' = [screen EXCEPT !.word = "error"]

\* A request fails: the poll it belongs to is over
AskFails(p) ==
    /\ UnderWay(p)
    /\ Fails
    /\ SaysError
    /\ Ends(p)
    /\ UNCHANGED <<gallery, activePoll, click, overtaken, together, clicks>>

------------------------------------------------------------------------------
(* The buttons.  A button is disabled until the first answer of its poll, and *)
(* retry is offered with a failed gallery only.                               *)

Enabled(b) ==
    /\ click[b] = "idle"
    /\ \A p \in Polls : UnderWay(p) => polls[p].by # b
    /\ b = "retry" => screen.details = "failed"

Clicked(b) ==
    /\ Enabled(b)
    /\ clicks < MaxClicks /\ clicks' = clicks + 1
    /\ click' = [click EXCEPT ![b] = "sent"]
    /\ screen' = IF b = "upload" THEN [screen EXCEPT !.word = "sending"] ELSE screen
    /\ UNCHANGED <<gallery, polls, activePoll, overtaken, together, fails>>

Accepted(b) ==
    /\ click[b] = "accepted"
    /\ click' = [click EXCEPT ![b] = "idle"]
    /\ \E p \in Polls : polls[p].at = "off" /\ Begins(p, b)
    /\ screen' = IF b = "retry" THEN [screen EXCEPT !.word = "sending"] ELSE screen
    /\ UNCHANGED <<gallery, activePoll, overtaken, Counts>>

\* The photos are not valid, or the gallery is in another state
Refused(b) ==
    /\ click[b] = "sent" /\ (b = "upload" \/ ~ Acceptable(b))
    /\ click' = [click EXCEPT ![b] = "idle"]
    /\ SaysError
    /\ UNCHANGED <<gallery, polls, activePoll, overtaken, together, Counts>>

\* The answer to an accepted click is lost
ClickFails(b) ==
    /\ click[b] = "accepted"
    /\ Fails
    /\ click' = [click EXCEPT ![b] = "idle"]
    /\ SaysError
    /\ UNCHANGED <<gallery, polls, activePoll, overtaken, together, clicks>>

------------------------------------------------------------------------------
PollStep(p) ==
    \/ Answers(p)
    \/ Fires(p)
    \/ PollBuilding(p)
    \/ PollEnds(p)
    \/ Again(p)
    \/ LoadAnswered(p)

ClickStep(b) == Accepts(b) \/ Accepted(b) \/ Refused(b)

Next ==
    \/ BuildEnds
    \/ \E p \in Polls : PollStep(p) \/ AskFails(p)
    \/ \E b \in Buttons : ClickStep(b) \/ Clicked(b) \/ ClickFails(b)

Spec == Init /\ [][Next]_vars

------------------------------------------------------------------------------
(* Properties *)

TypeOK ==
    /\ gallery \in [state : States, changes : 0..(2 * MaxClicks + 1)]
    /\ polls \in [Polls -> [at : {"off", "asking", "answered", "waiting"},
                            asks : {"poll", "again", "load"},
                            by : Buttons \cup {"page"},
                            got : States \cup {"none"}, seen : 0..gallery.changes]]
    /\ activePoll \in 0..MaxPolls
    /\ click \in [Buttons -> {"idle", "sent", "accepted"}]
    /\ screen \in [word : {"none", "sending", "error"} \cup States,
                   details : States \cup {"none"}, newest : 0..gallery.changes]
    /\ {overtaken, together} \subseteq BOOLEAN
    /\ clicks \in 0..MaxClicks /\ fails \in 0..MaxFails

\* While the page says that photos are being indexed, it asks on: no poll is
\* cleared by another one that does not go on in its place.
BuildingFollowed ==
    screen.word = "building" =>
        \E p \in Polls : polls[p].at # "off" /\ polls[p].asks = "poll"

\* The page asks once per 2.5 seconds, however often polls are started: two
\* timers wait at a time only after two requests were under way at a time.
OneTimer ==
    ~ together => \A p, q \in Polls :
        polls[p].at = "waiting" /\ polls[q].at = "waiting" => p = q

Quiet ==
    /\ \A b \in Buttons : click[b] = "idle"
    /\ \A p \in Polls : polls[p].at = "off"

\* When nothing is under way, the page is right about the gallery, unless an
\* answer was overtaken by one that was read later, or got lost.
QuietTruth ==
    Quiet /\ fails = 0 /\ ~ overtaken =>
        {screen.word, screen.details} \cap States \subseteq {gallery.state}
==============================================================================
