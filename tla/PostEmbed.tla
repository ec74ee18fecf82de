------------------------------ MODULE PostEmbed ------------------------------
(***************************************************************************)
(* Posts embedded in foreign pages: embed.js runs in the page, the page of *)
(* one post (templates/embed/show.html.eex) in each iframe, and the two    *)
(* exchange setHeightPleromaEmbed messages so that the iframe, which does  *)
(* not scroll, becomes high enough for the post.  Every snippet brings its *)
(* own script tag, so the script may run several times, at any point of    *)
(* the page's life; iframes may be inserted later, before or behind the    *)
(* others.                                                                 *)
(*                                                                         *)
(* A page and a frame have an event loop each: one action is one task of   *)
(* one of them.  Positions count from 1 here, from 0 in the script.        *)
(***************************************************************************)
EXTENDS Naturals, Sequences, FiniteSets

CONSTANTS
    Frames,         \* iframes of class pleroma-embed
    Scripts,        \* executions of embed.js
    Heights,        \* heights a post can have
    DefaultHeight,  \* height an iframe is shown with before it is given one
    Undefined,      \* the JavaScript value
    MaxEvents       \* bound: clicks on the summaries and reloads of a frame

ASSUME ScriptsAssumption == IsFiniteSet(Scripts)
ASSUME UndefinedAssumption == Undefined \notin Nat
ASSUME HeightsAssumption == Heights \subseteq Nat /\ DefaultHeight \in Nat
ASSUME BoundsAssumption == MaxEvents \in Nat

VARIABLES
    readyState, \* of the foreign page
    document,   \* its iframes in document order
    script,     \* state of each execution
    iframes,    \* the array of each execution
    onload,     \* the id an iframe's load handler sends, if it has one
    toFrame,    \* messages on their way to a frame: ids
    toPage,     \* messages on their way to the page: ids and heights
    page,       \* how far the document in the frame has come
    parentId,   \* its window.parentId
    pending,    \* its animation frame callbacks
    content,    \* the height of the post in it
    silent,     \* history: has it changed, unannounced, since it was last read?
    height,     \* the height the iframe is shown with
    events

hostVars == <<readyState, document, script, iframes, onload, height>>
frameVars == <<page, parentId, pending, content, silent>>
vars == <<hostVars, toFrame, toPage, frameVars, events>>

TypeOK ==
    /\ readyState \in {"loading", "interactive"}
    /\ document \in Seq(Frames)
    /\ script \in [Scripts -> {"none", "waiting", "ready"}]
    /\ iframes \in [Scripts -> Seq(Frames)]
    /\ onload \in [Frames -> Nat \cup {Undefined}]
    /\ toFrame \in [Frames -> Seq(Nat)]
    /\ toPage \in [Frames -> Seq((Nat \cup {Undefined}) \X (Heights \cup {DefaultHeight}))]
    /\ page \in [Frames -> {"blank", "listening", "loaded"}]
    /\ parentId \in [Frames -> Nat \cup {Undefined}]
    /\ pending \in [Frames -> Nat]
    /\ content \in [Frames -> Heights]
    /\ silent \in [Frames -> BOOLEAN]
    /\ height \in [Frames -> Heights \cup {DefaultHeight}]
    /\ events \in 0..MaxEvents

Init ==
    /\ readyState = "loading" /\ document = <<>>
    /\ script = [s \in Scripts |-> "none"]
    /\ iframes = [s \in Scripts |-> <<>>]
    /\ onload = [f \in Frames |-> Undefined]
    /\ toFrame = [f \in Frames |-> <<>>]
    /\ toPage = [f \in Frames |-> <<>>]
    /\ page = [f \in Frames |-> "blank"]
    /\ parentId = [f \in Frames |-> Undefined]
    /\ pending = [f \in Frames |-> 0]
    /\ content \in [Frames -> Heights]
    /\ silent = [f \in Frames |-> FALSE]
    /\ height = [f \in Frames |-> DefaultHeight]
    /\ events = 0

InDocument(f) == \E i \in 1..Len(document) : document[i] = f
Position(f) == CHOOSE i \in 1..Len(document) : document[i] = f

(***************************************************************************)
(* The foreign page                                                        *)
(***************************************************************************)

\* The parser, or a script of the page, adds an iframe at some place.
AddFrame(f) ==
    /\ ~InDocument(f)
    /\ \E i \in 0..Len(document) :
        /\ readyState = "loading" => i = Len(document)
        /\ document' = SubSeq(document, 1, i) \o <<f>> \o SubSeq(document, i + 1, Len(document))
    /\ UNCHANGED <<readyState, script, iframes, onload, height, toFrame, toPage, frameVars, events>>

\* What the function given to ready does: number the iframes, set their
\* handlers, and call each handler at once.
MutLoaded(S) ==
    /\ script' = [s \in Scripts |-> IF s \in S THEN "ready" ELSE script[s]]
    /\ iframes' = [s \in Scripts |-> IF s \in S THEN document ELSE iframes[s]]
    /\ onload' = [f \in Frames |-> IF InDocument(f) /\ S # {} THEN Position(f) ELSE onload[f]]
    /\ toFrame' = toFrame
Loaded(S) ==
    /\ script' = [s \in Scripts |-> IF s \in S THEN "ready" ELSE script[s]]
    /\ iframes' = [s \in Scripts |-> IF s \in S THEN document ELSE iframes[s]]
    /\ onload' = [f \in Frames |-> IF InDocument(f) /\ S # {} THEN Position(f) ELSE onload[f]]
    /\ toFrame' = [f \in Frames |->
                    IF InDocument(f)
                    THEN toFrame[f] \o [i \in 1..Cardinality(S) |-> Position(f)]
                    ELSE toFrame[f]]

\* ready: at once if the document is parsed, else when it will be.
RunScript(s) ==
    /\ script[s] = "none"
    /\ \/ readyState = "interactive" /\ Loaded({s})
       \/ /\ readyState = "loading"
          /\ script' = [script EXCEPT ![s] = "waiting"]
          /\ UNCHANGED <<iframes, onload, toFrame>>
    /\ UNCHANGED <<readyState, document, height, toPage, frameVars, events>>

\* DOMContentLoaded: the listeners run one after the other.
DOMContentLoaded ==
    /\ readyState = "loading" /\ readyState' = "interactive"
    /\ Loaded({s \in Scripts : script[s] = "waiting"})
    /\ UNCHANGED <<document, height, toPage, frameVars, events>>

\* The message listeners: every execution has one, and each looks the id up
\* in its own array.
Knows(s, id) == id # Undefined /\ script[s] = "ready" /\ id \in 1..Len(iframes[s])

Receive(f) ==
    /\ toPage[f] # <<>>
    /\ LET id == Head(toPage[f])[1]
           h == Head(toPage[f])[2]
       IN height' = [g \in Frames |->
                      IF \E s \in Scripts : Knows(s, id) /\ iframes[s][id] = g
                      THEN h ELSE height[g]]
    /\ toPage' = [toPage EXCEPT ![f] = Tail(@)]
    /\ UNCHANGED <<readyState, document, script, iframes, onload, toFrame, frameVars, events>>

(***************************************************************************)
(* A frame                                                                 *)
(***************************************************************************)

\* The inline script at the end of the post's page has run.
Listen(f) ==
    /\ InDocument(f) /\ page[f] = "blank"
    /\ page' = [page EXCEPT ![f] = "listening"]
    /\ UNCHANGED <<hostVars, toFrame, toPage, parentId, pending, content, silent, events>>

\* The load event of the iframe, which the page's handler sees.
MutLoad(f) ==
    /\ page[f] = "listening"
    /\ page' = [page EXCEPT ![f] = "loaded"]
    /\ toFrame' = IF onload[f] = Undefined THEN toFrame
                  ELSE [toFrame EXCEPT ![f] = Append(@, Len(document))]
    /\ UNCHANGED <<hostVars, toPage, parentId, pending, content, silent, events>>
Load(f) ==
    /\ page[f] = "listening"
    /\ page' = [page EXCEPT ![f] = "loaded"]
    /\ toFrame' = IF onload[f] = Undefined THEN toFrame
                  ELSE [toFrame EXCEPT ![f] = Append(@, onload[f])]
    /\ UNCHANGED <<hostVars, toPage, parentId, pending, content, silent, events>>

\* A message that arrives before the listener exists is lost.
GetMessage(f) ==
    /\ toFrame[f] # <<>>
    /\ toFrame' = [toFrame EXCEPT ![f] = Tail(@)]
    /\ \/ page[f] = "blank" /\ UNCHANGED <<parentId, pending>>
       \/ /\ page[f] # "blank"
          /\ parentId' = [parentId EXCEPT ![f] = Head(toFrame[f])]
          /\ pending' = [pending EXCEPT ![f] = @ + 1]
    /\ UNCHANGED <<hostVars, toPage, page, content, silent, events>>

\* The scrollHeight of the root element: never less than its viewport, which
\* is the iframe.  So an iframe does not follow a post that gets smaller.
ScrollHeight(f) == IF height[f] > content[f] THEN height[f] ELSE content[f]

\* The callback of requestAnimationFrame: it reads the height and the id when
\* it runs, not when it was asked for.
UpdateHeight(f) ==
    /\ pending[f] > 0
    /\ pending' = [pending EXCEPT ![f] = @ - 1]
    /\ toPage' = [toPage EXCEPT ![f] = Append(@, <<parentId[f], ScrollHeight(f)>>)]
    /\ silent' = [silent EXCEPT ![f] = FALSE]
    /\ UNCHANGED <<hostVars, toFrame, page, parentId, content, events>>

\* The visitor opens or closes a part of the post.
Click(f) ==
    /\ page[f] # "blank" /\ events < MaxEvents /\ events' = events + 1
    /\ \E h \in Heights : content' = [content EXCEPT ![f] = h]
    /\ UNCHANGED <<hostVars, toFrame, toPage, page, parentId>>

MutToggleMedia(f) == Click(f) /\ UNCHANGED <<pending, silent>>
\* The summary of "sensitive media" calls updateHeight.
ToggleMedia(f) ==
    /\ Click(f)
    /\ pending' = [pending EXCEPT ![f] = @ + 1]
    /\ UNCHANGED silent

\* The summary of a post with a subject calls nothing.
ToggleSubject(f) ==
    /\ Click(f)
    /\ silent' = [silent EXCEPT ![f] = TRUE]
    /\ UNCHANGED pending

\* The frame is loaded again: its window, and what was sent to it, is gone.
Reload(f) ==
    /\ page[f] = "loaded" /\ events < MaxEvents /\ events' = events + 1
    /\ page' = [page EXCEPT ![f] = "blank"]
    /\ parentId' = [parentId EXCEPT ![f] = Undefined]
    /\ pending' = [pending EXCEPT ![f] = 0]
    /\ toFrame' = [toFrame EXCEPT ![f] = <<>>]
    /\ \E h \in Heights : content' = [content EXCEPT ![f] = h]
    /\ silent' = [silent EXCEPT ![f] = FALSE]
    /\ UNCHANGED <<hostVars, toPage>>

-----------------------------------------------------------------------------
Next ==
    \/ DOMContentLoaded
    \/ \E s \in Scripts : RunScript(s)
    \/ \E f \in Frames :
        AddFrame(f) \/ Receive(f) \/ Listen(f) \/ Load(f) \/ GetMessage(f)
        \/ UpdateHeight(f) \/ ToggleMedia(f) \/ ToggleSubject(f) \/ Reload(f)

Spec == Init /\ [][Next]_vars

\* Documents are parsed, frames load, and event loops run what is due.  No
\* script has to run, and nobody has to click or to reload.
FairSpec ==
    /\ Spec
    /\ WF_vars(DOMContentLoaded)
    /\ \A f \in Frames :
        /\ WF_vars(Receive(f))
        /\ WF_vars(Listen(f)) /\ WF_vars(Load(f))
        /\ WF_vars(GetMessage(f)) /\ WF_vars(UpdateHeight(f))

-----------------------------------------------------------------------------
\* The executions that know an id agree whose it is.  An iframe inserted
\* before others between two executions breaks this for good.
Agree ==
    \A s, t \in Scripts : \A i \in 1..Len(iframes[s]) :
        Knows(s, i) /\ Knows(t, i) => iframes[s][i] = iframes[t][i]

\* No cross-talk: as long as the executions number the iframes alike, an
\* iframe changes its height only on a message of the post it shows, however
\* many listeners there are and however old the message is.
OwnHeight == [][\A f, g \in Frames :
                  toPage'[f] # toPage[f] /\ height'[g] # height[g] /\ Agree => f = g]_vars

Covered(f) == \E s \in Scripts : \E i \in 1..Len(iframes[s]) : iframes[s][i] = f

\* An iframe of embed.js does not scroll (scrolling = 'no', overflow hidden):
\* one that is lower than its post cuts it off.
Fits(f) == height[f] >= content[f]

\* A post is cut off only while something is still to come for it: a loaded
\* post whose iframe an execution has numbered, and which has no message under
\* way and no callback due, is shown in full, unless its subject was clicked
\* since its height was last read.  A message lost to a frame that does not
\* listen yet, a click on media before the post knows its number and the
\* answers to older heights have all been made good by then.
Quiet(f) == toFrame[f] = <<>> /\ pending[f] = 0 /\ toPage[f] = <<>>
FitsWhenQuiet ==
    \A f \in Frames :
        Agree /\ Covered(f) /\ page[f] = "loaded" /\ Quiet(f) /\ ~silent[f] => Fits(f)

\* In the end every post whose iframe was there when a script ran is shown in
\* full, whichever of script, frame and clicks on media came first, although
\* messages to a frame that does not listen yet are lost.
EventuallyFits == \A f \in Frames : <>[](Covered(f) /\ Agree /\ ~silent[f] => Fits(f))
=============================================================================
