-------------------------- MODULE PostEmbedProofs --------------------------
(***************************************************************************)
(* Type correctness of PostEmbed, that no post sets the height of another  *)
(* one's iframe, and that no iframe cuts off its post when nothing is      *)
(* under way, for any number of iframes, executions of the script, clicks  *)
(* and reloads.                                                            *)
(***************************************************************************)
EXTENDS PostEmbed, TLAPS, SequenceTheorems, FiniteSetTheorems

Messages == (Nat \cup {Undefined}) \X (Heights \cup {DefaultHeight})

\* What a post announces is a height, and enough for it.
LEMMA ScrollHeightType ==
    ASSUME TypeOK, NEW f \in Frames
    PROVE  /\ ScrollHeight(f) \in Heights \cup {DefaultHeight}
           /\ ScrollHeight(f) >= content[f]
<1>1. height[f] \in Nat /\ content[f] \in Nat
  BY HeightsAssumption DEF TypeOK
<1>2. height[f] \in Heights \cup {DefaultHeight} /\ content[f] \in Heights
  BY DEF TypeOK
<1> QED BY <1>1, <1>2 DEF ScrollHeight

\* The number of an iframe in the document is a number.
LEMMA PositionType ==
    ASSUME NEW f \in Frames, TypeOK, InDocument(f)
    PROVE  /\ Position(f) \in Nat
           /\ Position(f) \in 1..Len(document)
           /\ document[Position(f)] = f
<1>1. \E i \in 1..Len(document) : document[i] = f
  BY DEF InDocument
<1>2. Position(f) \in 1..Len(document) /\ document[Position(f)] = f
  BY <1>1, Zenon DEF Position
<1> QED BY <1>2 DEF TypeOK

\* Numbering the iframes keeps the types.
LEMMA LoadedType ==
    ASSUME TypeOK, NEW S \in SUBSET Scripts, Loaded(S)
    PROVE  /\ script' \in [Scripts -> {"none", "waiting", "ready"}]
           /\ iframes' \in [Scripts -> Seq(Frames)]
           /\ onload' \in [Frames -> Nat \cup {Undefined}]
           /\ toFrame' \in [Frames -> Seq(Nat)]
<1>1. Cardinality(S) \in Nat
  BY ScriptsAssumption, FS_Subset, FS_CardinalityType
<1>2. toFrame' \in [Frames -> Seq(Nat)]
  <2> SUFFICES ASSUME NEW f \in Frames, InDocument(f)
               PROVE  toFrame[f] \o [i \in 1..Cardinality(S) |-> Position(f)] \in Seq(Nat)
    BY DEF Loaded, TypeOK
  <2>1. [i \in 1..Cardinality(S) |-> Position(f)] \in Seq(Nat)
    BY <1>1, PositionType
  <2> QED BY <2>1 DEF TypeOK
<1> QED BY <1>2, PositionType DEF Loaded, TypeOK

\* Inserting an iframe leaves a sequence of iframes.
LEMMA InsertType ==
    ASSUME NEW f \in Frames, NEW d \in Seq(Frames), NEW i \in 0..Len(d)
    PROVE  SubSeq(d, 1, i) \o <<f>> \o SubSeq(d, i + 1, Len(d)) \in Seq(Frames)
<1>1. SubSeq(d, 1, i) \in Seq(Frames) /\ SubSeq(d, i + 1, Len(d)) \in Seq(Frames)
  BY SubSeqProperties
<1>2. SubSeq(d, 1, i) \o <<f>> \in Seq(Frames)
  BY <1>1
<1> QED BY <1>1, <1>2

LEMMA TypeStep == TypeOK /\ [Next]_vars => TypeOK'
<1> SUFFICES ASSUME TypeOK, [Next]_vars PROVE TypeOK'
  OBVIOUS
<1> USE UndefinedAssumption, BoundsAssumption
<1>1. CASE DOMContentLoaded
  <2>1. {s \in Scripts : script[s] = "waiting"} \in SUBSET Scripts
    OBVIOUS
  <2> QED BY <1>1, <2>1, LoadedType DEF DOMContentLoaded, TypeOK, frameVars
<1>2. ASSUME NEW s \in Scripts, RunScript(s) PROVE TypeOK'
  <2>1. CASE Loaded({s})
    BY <1>2, <2>1, LoadedType DEF RunScript, TypeOK, frameVars
  <2>2. CASE ~Loaded({s})
    BY <1>2, <2>2 DEF RunScript, TypeOK, frameVars
  <2> QED BY <2>1, <2>2
<1>3. ASSUME NEW f \in Frames, AddFrame(f) PROVE TypeOK'
  <2>1. document' \in Seq(Frames)
    BY <1>3, InsertType DEF AddFrame, TypeOK
  <2> QED BY <1>3, <2>1 DEF AddFrame, TypeOK, frameVars
<1>4. ASSUME NEW f \in Frames, Receive(f) PROVE TypeOK'
  <2>1. Head(toPage[f]) \in Messages /\ Tail(toPage[f]) \in Seq(Messages)
    BY <1>4 DEF Receive, TypeOK, Messages
  <2>2. Head(toPage[f])[2] \in Heights \cup {DefaultHeight}
    BY <2>1 DEF Messages
  <2>3. height' \in [Frames -> Heights \cup {DefaultHeight}]
    BY <1>4, <2>2 DEF Receive, TypeOK
  <2>4. toPage' \in [Frames -> Seq(Messages)]
    BY <1>4, <2>1 DEF Receive, TypeOK, Messages
  <2> QED BY <1>4, <2>3, <2>4 DEF Receive, TypeOK, frameVars, Messages
<1>5. ASSUME NEW f \in Frames, Listen(f) PROVE TypeOK'
  BY <1>5 DEF Listen, TypeOK, hostVars
<1>6. ASSUME NEW f \in Frames, Load(f) PROVE TypeOK'
  <2>1. toFrame' \in [Frames -> Seq(Nat)]
    BY <1>6 DEF Load, TypeOK
  <2> QED BY <1>6, <2>1 DEF Load, TypeOK, hostVars
<1>7. ASSUME NEW f \in Frames, GetMessage(f) PROVE TypeOK'
  <2>1. Head(toFrame[f]) \in Nat /\ toFrame' \in [Frames -> Seq(Nat)]
    BY <1>7 DEF GetMessage, TypeOK
  <2>2. CASE page[f] = "blank"
    BY <1>7, <2>1, <2>2 DEF GetMessage, TypeOK, hostVars
  <2>3. CASE page[f] # "blank"
    <3>1. /\ parentId' = [parentId EXCEPT ![f] = Head(toFrame[f])]
          /\ pending' = [pending EXCEPT ![f] = @ + 1]
      BY <1>7, <2>3 DEF GetMessage
    <3>2. parentId' \in [Frames -> Nat \cup {Undefined}]
      BY <2>1, <3>1 DEF TypeOK
    <3>3. pending' \in [Frames -> Nat]
      BY <3>1 DEF TypeOK
    <3> QED BY <1>7, <2>1, <3>2, <3>3 DEF GetMessage, TypeOK, hostVars
  <2> QED BY <2>2, <2>3
<1>8. ASSUME NEW f \in Frames, UpdateHeight(f) PROVE TypeOK'
  <2>1. <<parentId[f], ScrollHeight(f)>> \in Messages
    BY ScrollHeightType DEF TypeOK, Messages
  <2>2. toPage' \in [Frames -> Seq(Messages)]
    BY <1>8, <2>1 DEF UpdateHeight, TypeOK, Messages
  <2> QED BY <1>8, <2>2 DEF UpdateHeight, TypeOK, hostVars, Messages
<1>9. ASSUME NEW f \in Frames, ToggleMedia(f) \/ ToggleSubject(f) PROVE TypeOK'
  <2>c. Click(f)
    BY <1>9 DEF ToggleMedia, ToggleSubject
  <2>1. content' \in [Frames -> Heights] /\ events' \in 0..MaxEvents
    BY <2>c DEF Click, TypeOK
  <2>2. pending' \in [Frames -> Nat] /\ silent' \in [Frames -> BOOLEAN]
    <3>1. CASE ToggleMedia(f)
      BY <3>1 DEF ToggleMedia, TypeOK
    <3>2. CASE ToggleSubject(f)
      BY <3>2 DEF ToggleSubject, TypeOK
    <3> QED BY <1>9, <3>1, <3>2
  <2> QED BY <2>c, <2>1, <2>2 DEF Click, TypeOK, hostVars
<1>10. ASSUME NEW f \in Frames, Reload(f) PROVE TypeOK'
  BY <1>10 DEF Reload, TypeOK, hostVars
<1>11. CASE UNCHANGED vars
  BY <1>11 DEF vars, hostVars, frameVars, TypeOK
<1> QED BY <1>1, <1>2, <1>3, <1>4, <1>5, <1>6, <1>7, <1>8, <1>9, <1>10, <1>11 DEF Next

\* The variables keep their types.
THEOREM TypeCorrect == Spec => []TypeOK
<1>1. Init => TypeOK
  BY BoundsAssumption DEF Init, TypeOK
<1> QED BY <1>1, TypeStep, PTL DEF Spec

-----------------------------------------------------------------------------
\* Some execution has given f the number i.
Numbered(f, i) == \E s \in Scripts : Knows(s, i) /\ iframes[s][i] = f

\* A number that a post knows, or that is on its way to or from it, is one
\* that some execution has given to its iframe.
IdInv ==
    \A f \in Frames :
        /\ onload[f] # Undefined => Numbered(f, onload[f])
        /\ \A k \in 1..Len(toFrame[f]) : Numbered(f, toFrame[f][k])
        /\ parentId[f] # Undefined => Numbered(f, parentId[f])
        /\ \A k \in 1..Len(toPage[f]) :
            toPage[f][k][1] # Undefined => Numbered(f, toPage[f][k][1])

\* Numbers stay given while no execution is added.
LEMMA NumberedKept ==
    ASSUME UNCHANGED <<script, iframes>>, NEW f, NEW i
    PROVE  Numbered(f, i) <=> Numbered(f, i)'
BY DEF Numbered, Knows

\* New executions keep the numbers given before and give one to each iframe.
LEMMA LoadedIds ==
    ASSUME TypeOK, TypeOK', IdInv, NEW S \in SUBSET Scripts, Loaded(S),
           \A s \in S : script[s] # "ready", UNCHANGED <<parentId, toPage>>
    PROVE  IdInv'
<1> USE UndefinedAssumption
<1>1. ASSUME NEW f \in Frames, NEW i, Numbered(f, i) PROVE Numbered(f, i)'
  BY <1>1 DEF Numbered, Knows, Loaded, TypeOK
<1>2. ASSUME NEW f \in Frames, InDocument(f), S # {}, NEW p, p = Position(f)
      PROVE  Numbered(f, p)'
  <2> PICK s \in S : TRUE
    BY <1>2
  <2>1. p \in 1..Len(document) /\ document[p] = f /\ p # Undefined
    BY <1>2, PositionType
  <2>2. script'[s] = "ready" /\ iframes'[s] = document
    BY DEF Loaded
  <2> QED BY <2>1, <2>2 DEF Numbered, Knows
<1>3. ASSUME NEW f \in Frames, NEW k \in 1..Len(toFrame'[f])
      PROVE  Numbered(f, toFrame[f][k])'
  <2>1. CASE ~InDocument(f)
    BY <1>1, <2>1 DEF Loaded, IdInv, TypeOK
  <2>2. CASE InDocument(f)
    <3> DEFINE new == [i \in 1..Cardinality(S) |-> Position(f)]
    <3>1. Cardinality(S) \in Nat /\ (S = {} => Cardinality(S) = 0)
      BY ScriptsAssumption, FS_Subset, FS_CardinalityType, FS_EmptySet
    <3>2. new \in Seq(Nat) /\ Len(new) = Cardinality(S)
      BY <2>2, <3>1, PositionType
    <3>3. toFrame[f] \in Seq(Nat) /\ toFrame'[f] = toFrame[f] \o new
      BY <2>2 DEF Loaded, TypeOK
    <3> HIDE DEF new
    <3>4. CASE k <= Len(toFrame[f])
      <4>1. toFrame'[f][k] = toFrame[f][k] /\ k \in 1..Len(toFrame[f])
        BY <3>2, <3>3, <3>4
      <4> QED BY <1>1, <4>1 DEF IdInv
    <3>5. CASE k > Len(toFrame[f])
      <4>1. /\ toFrame'[f][k] = new[k - Len(toFrame[f])]
            /\ k - Len(toFrame[f]) \in 1..Len(new)
        BY <3>2, <3>3, <3>5
      <4>2. toFrame'[f][k] = Position(f) /\ S # {}
        BY <3>1, <3>2, <4>1 DEF new
      <4> QED BY <1>2, <2>2, <4>2
    <3> QED BY <3>2, <3>3, <3>4, <3>5
  <2> QED BY <2>1, <2>2
<1>4. ASSUME NEW f \in Frames, onload'[f] # Undefined PROVE Numbered(f, onload[f])'
  <2>1. CASE InDocument(f) /\ S # {}
    BY <1>2, <2>1 DEF Loaded
  <2>2. CASE ~(InDocument(f) /\ S # {})
    BY <1>1, <1>4, <2>2 DEF Loaded, IdInv
  <2> QED BY <2>1, <2>2
<1>5. ASSUME NEW f \in Frames
      PROVE  /\ (parentId[f] # Undefined => Numbered(f, parentId[f]))'
             /\ \A k \in 1..Len(toPage'[f]) :
                    (toPage[f][k][1] # Undefined => Numbered(f, toPage[f][k][1]))'
  BY <1>1 DEF IdInv
<1> QED BY <1>3, <1>4, <1>5 DEF IdInv

\* Every step but an execution of the script leaves the numbers as they are
\* and passes on only numbers it was given.
LEMMA IdStep == TypeOK /\ IdInv /\ [Next]_vars => IdInv'
<1> SUFFICES ASSUME TypeOK, IdInv, [Next]_vars PROVE IdInv'
  OBVIOUS
<1> USE UndefinedAssumption
<1>t. TypeOK'
  BY TypeStep
<1>1. CASE DOMContentLoaded
  <2>1. /\ {s \in Scripts : script[s] = "waiting"} \in SUBSET Scripts
        /\ \A s \in {s \in Scripts : script[s] = "waiting"} : script[s] # "ready"
    OBVIOUS
  <2> QED BY <1>1, <1>t, <2>1, LoadedIds DEF DOMContentLoaded, frameVars
<1>2. ASSUME NEW s \in Scripts, RunScript(s) PROVE IdInv'
  <2>1. CASE Loaded({s})
    BY <1>2, <1>t, <2>1, LoadedIds DEF RunScript, frameVars
  <2>2. CASE ~Loaded({s})
    <3>1. /\ script[s] = "none" /\ script' = [script EXCEPT ![s] = "waiting"]
          /\ UNCHANGED <<iframes, onload, toFrame, toPage, parentId>>
      BY <1>2, <2>2 DEF RunScript, frameVars
    <3>2. ASSUME NEW f, NEW i PROVE Numbered(f, i) => Numbered(f, i)'
      BY <3>1 DEF Numbered, Knows, TypeOK
    <3> QED BY <3>1, <3>2 DEF IdInv
  <2> QED BY <2>1, <2>2
<1>3. ASSUME NEW g \in Frames, AddFrame(g) PROVE IdInv'
  <2>1. UNCHANGED <<script, iframes, onload, toFrame, toPage, parentId>>
    BY <1>3 DEF AddFrame, frameVars
  <2> QED BY <2>1, NumberedKept DEF IdInv
<1>4. ASSUME NEW g \in Frames, Receive(g) PROVE IdInv'
  <2>1. UNCHANGED <<script, iframes, onload, toFrame, parentId>>
    BY <1>4 DEF Receive, frameVars
  <2>2. ASSUME NEW f \in Frames, NEW k \in 1..Len(toPage'[f])
        PROVE  toPage'[f][k] = toPage[f][IF f = g THEN k + 1 ELSE k]
               /\ (IF f = g THEN k + 1 ELSE k) \in 1..Len(toPage[f])
    BY <1>4, <2>2 DEF Receive, TypeOK
  <2> QED BY <2>1, <2>2, NumberedKept DEF IdInv
<1>5. ASSUME NEW g \in Frames, Listen(g) PROVE IdInv'
  BY <1>5, NumberedKept DEF Listen, hostVars, IdInv
<1>6. ASSUME NEW g \in Frames, Load(g) PROVE IdInv'
  <2>1. UNCHANGED <<script, iframes, onload, toPage, parentId>>
    BY <1>6 DEF Load, hostVars
  <2>2. ASSUME NEW f \in Frames, NEW k \in 1..Len(toFrame'[f])
        PROVE  Numbered(f, toFrame'[f][k])
    <3>1. CASE toFrame'[f] = toFrame[f]
      BY <3>1 DEF IdInv
    <3>2. CASE toFrame'[f] # toFrame[f]
      <4>1. toFrame'[f] = Append(toFrame[f], onload[f]) /\ onload[f] # Undefined
        BY <1>6, <3>2 DEF Load, TypeOK
      <4>2. toFrame[f] \in Seq(Nat) /\ onload[f] \in Nat
        BY <4>1 DEF TypeOK
      <4>3. toFrame'[f][k] = IF k \in 1..Len(toFrame[f]) THEN toFrame[f][k] ELSE onload[f]
        BY <4>1, <4>2, <2>2
      <4> QED BY <4>1, <4>3 DEF IdInv
    <3> QED BY <3>1, <3>2
  <2> QED BY <2>1, <2>2, NumberedKept DEF IdInv
<1>7. ASSUME NEW g \in Frames, GetMessage(g) PROVE IdInv'
  <2>1. UNCHANGED <<script, iframes, onload, toPage>>
    BY <1>7 DEF GetMessage, hostVars
  <2>2. ASSUME NEW f \in Frames, NEW k \in 1..Len(toFrame'[f])
        PROVE  Numbered(f, toFrame'[f][k])
    <3>1. toFrame'[f][k] = toFrame[f][IF f = g THEN k + 1 ELSE k]
          /\ (IF f = g THEN k + 1 ELSE k) \in 1..Len(toFrame[f])
      BY <1>7, <2>2 DEF GetMessage, TypeOK
    <3> QED BY <3>1 DEF IdInv
  <2>3. ASSUME NEW f \in Frames, parentId'[f] # Undefined
        PROVE  Numbered(f, parentId'[f])
    <3>1. parentId'[f] = parentId[f] \/ (f = g /\ parentId'[f] = toFrame[f][1] /\ 1 \in 1..Len(toFrame[f]))
      BY <1>7 DEF GetMessage, TypeOK
    <3> QED BY <3>1, <2>3 DEF IdInv
  <2> QED BY <2>1, <2>2, <2>3, NumberedKept DEF IdInv
<1>8. ASSUME NEW g \in Frames, UpdateHeight(g) PROVE IdInv'
  <2>1. UNCHANGED <<script, iframes, onload, toFrame, parentId>>
    BY <1>8 DEF UpdateHeight, hostVars
  <2>2. ASSUME NEW f \in Frames, NEW k \in 1..Len(toPage'[f]), toPage'[f][k][1] # Undefined
        PROVE  Numbered(f, toPage'[f][k][1])
    <3>1. toPage[f] \in Seq(Messages) /\ <<parentId[f], ScrollHeight(f)>> \in Messages
      BY ScrollHeightType DEF TypeOK, Messages
    <3>2. CASE f # g
      BY <1>8, <2>2, <3>2 DEF UpdateHeight, TypeOK, IdInv
    <3>3. CASE f = g
      <4>1. toPage'[f] = Append(toPage[f], <<parentId[f], ScrollHeight(f)>>)
        BY <1>8, <3>3 DEF UpdateHeight, TypeOK
      <4>2. toPage'[f][k] = IF k \in 1..Len(toPage[f]) THEN toPage[f][k]
                            ELSE <<parentId[f], ScrollHeight(f)>>
        BY <2>2, <3>1, <4>1
      <4> QED BY <2>2, <4>2 DEF IdInv
    <3> QED BY <3>2, <3>3
  <2> QED BY <2>1, <2>2, NumberedKept DEF IdInv
<1>9. ASSUME NEW g \in Frames, ToggleMedia(g) \/ ToggleSubject(g) PROVE IdInv'
  BY <1>9, NumberedKept DEF ToggleMedia, ToggleSubject, Click, hostVars, IdInv
<1>10. ASSUME NEW g \in Frames, Reload(g) PROVE IdInv'
  <2>1. UNCHANGED <<script, iframes, onload, toPage>>
    BY <1>10 DEF Reload, hostVars
  <2>2. ASSUME NEW f \in Frames
        PROVE  /\ toFrame'[f] = toFrame[f] \/ Len(toFrame'[f]) = 0
               /\ parentId'[f] = parentId[f] \/ parentId'[f] = Undefined
    BY <1>10 DEF Reload, TypeOK
  <2> QED BY <2>1, <2>2, NumberedKept DEF IdInv
<1>11. CASE UNCHANGED vars
  BY <1>11, NumberedKept DEF vars, hostVars, frameVars, IdInv
<1> QED BY <1>1, <1>2, <1>3, <1>4, <1>5, <1>6, <1>7, <1>8, <1>9, <1>10, <1>11 DEF Next

\* A message changes the height of the iframe its number was given to, which
\* is the sender's if all executions give that number to one iframe.
LEMMA HeightStep ==
    ASSUME TypeOK, IdInv, [Next]_vars, Agree, NEW f \in Frames, NEW g \in Frames,
           toPage'[f] # toPage[f], height'[g] # height[g]
    PROVE  f = g
<1> USE UndefinedAssumption
<1>1. PICK h \in Frames : Receive(h)
  BY DEF Next, vars, hostVars, frameVars, DOMContentLoaded, RunScript, AddFrame, Listen, Load,
         GetMessage, UpdateHeight, ToggleMedia, ToggleSubject, Click, Reload
<1>2. f = h
  BY <1>1 DEF Receive, TypeOK
<1> DEFINE id == Head(toPage[f])[1]
<1>3. PICK s \in Scripts : Knows(s, id) /\ iframes[s][id] = g
  BY <1>1, <1>2 DEF Receive, TypeOK
<1>4. PICK t \in Scripts : Knows(t, id) /\ iframes[t][id] = f
  <2>1. 1 \in 1..Len(toPage[f]) /\ id = toPage[f][1][1] /\ id # Undefined
    BY <1>1, <1>2, <1>3 DEF Receive, TypeOK, Knows
  <2> QED BY <2>1 DEF IdInv, Numbered
<1> QED BY <1>3, <1>4 DEF Agree, Knows

\* No post changes the height of another one's iframe as long as the
\* executions of the script agree.
THEOREM OwnHeightCorrect == Spec => OwnHeight
<1>1. Init => TypeOK /\ IdInv
  BY BoundsAssumption DEF Init, TypeOK, IdInv
<1>2. TypeOK /\ IdInv /\ [Next]_vars
      => [\A f, g \in Frames :
            toPage'[f] # toPage[f] /\ height'[g] # height[g] /\ Agree => f = g]_vars
  BY HeightStep
<1> QED BY <1>1, <1>2, TypeStep, IdStep, PTL DEF Spec, OwnHeight

-----------------------------------------------------------------------------
\* A loaded post whose iframe is numbered will announce its height, has done
\* so in the last message under way, or fits, unless its subject was clicked.
LastHeight(f) == toPage[f][Len(toPage[f])]
Announced(f) == toPage[f] # <<>> /\ LastHeight(f)[1] # Undefined /\ LastHeight(f)[2] >= content[f]
Announces(f) ==
    \/ toFrame[f] # <<>>
    \/ /\ parentId[f] # Undefined
       /\ \/ pending[f] > 0 \/ silent[f]
          \/ Announced(f)
          \/ toPage[f] = <<>> /\ Fits(f)

FitInv ==
    \A f \in Frames :
        /\ Covered(f) => onload[f] # Undefined
        /\ Agree /\ Covered(f) /\ page[f] = "loaded" => Announces(f)

\* A step that numbers no iframe.
LEMMA FitFrame ==
    ASSUME TypeOK, FitInv, UNCHANGED <<script, iframes, onload>>,
           \A f \in Frames :
              Agree /\ Covered(f) /\ page'[f] = "loaded" => Announces(f)'
    PROVE  FitInv'
<1>1. (Agree' <=> Agree) /\ \A f : Covered(f)' <=> Covered(f)
  BY DEF Agree, Covered, Knows
<1> QED BY <1>1 DEF FitInv

\* The last of a queue stays the last until it is taken.
LEMMA QueueTail ==
    ASSUME NEW M, NEW q \in Seq(M), q # <<>>
    PROVE  /\ Head(q) = q[1] /\ 1 \in 1..Len(q)
           /\ Tail(q) \in Seq(M) /\ Tail(q) # q
           /\ \/ Len(q) = 1 /\ Tail(q) = <<>>
              \/ Tail(q) # <<>> /\ Tail(q)[Len(Tail(q))] = q[Len(q)]
<1>1. Len(q) \in Nat /\ Len(q) # 0
  OBVIOUS
<1>2. /\ Tail(q) \in Seq(M) /\ Len(Tail(q)) = Len(q) - 1
      /\ \A i \in 1..Len(Tail(q)) : Tail(q)[i] = q[i + 1]
  BY HeadTailProperties
<1>e. \A r \in Seq(M) : r = <<>> <=> Len(r) = 0
  <2> SUFFICES ASSUME NEW r \in Seq(M) PROVE r = <<>> <=> Len(r) = 0
    OBVIOUS
  <2>1. CASE r = <<>>
    BY <2>1
  <2>2. CASE r # <<>>
    <3>1. Len(r) \in Nat \ {0}
      BY <2>2, EmptySeq, Zenon
    <3>2. Len(r) # 0
      BY <3>1
    <3> QED BY <2>2, <3>2, Zenon
  <2> QED BY <2>1, <2>2
<1>n. Tail(q) # q
  <2>a. \A n \in Nat : n - 1 # n
    OBVIOUS
  <2>1. Len(Tail(q)) # Len(q)
    BY <2>a, <1>1, <1>2, Zenon
  <2> QED BY <2>1, Zenon
<1>3. CASE Len(q) = 1
  <2>1. Len(Tail(q)) = 0
    BY <1>2, <1>3
  <2>2. Tail(q) = <<>>
    BY <1>2, <1>e, <2>1, Zenon
  <2> QED BY <1>1, <1>2, <1>3, <1>n, <2>2
<1>4. CASE Len(q) # 1
  <2>1. Len(Tail(q)) \in 1..Len(Tail(q)) /\ Len(Tail(q)) + 1 = Len(q)
    BY <1>1, <1>2, <1>4
  <2>2. Tail(q)[Len(Tail(q))] = q[Len(q)]
    BY <1>2, <2>1
  <2>3. Len(Tail(q)) # 0
    BY <1>1, <1>2, <1>4
  <2>4. Tail(q) # <<>>
    BY <1>2, <1>e, <2>3, Zenon
  <2>5. Head(q) = q[1] /\ 1 \in 1..Len(q)
    BY <1>1
  <2> QED BY <1>2, <1>n, <2>2, <2>4, <2>5, Zenon
<1> QED BY <1>3, <1>4

LEMMA FitLoaded ==
    ASSUME TypeOK, FitInv, NEW S \in SUBSET Scripts, Loaded(S),
           \A s \in S : script[s] # "ready",
           UNCHANGED <<toPage, page, parentId, pending, content, silent, height>>
    PROVE  FitInv'
<1> USE UndefinedAssumption
<1>1. ASSUME NEW f \in Frames, Covered(f)', ~(InDocument(f) /\ S # {})
      PROVE  Covered(f) /\ onload'[f] = onload[f]
  <2>1. PICK s \in Scripts : \E i \in 1..Len(iframes'[s]) : iframes'[s][i] = f
    BY <1>1 DEF Covered
  <2>2. s \notin S
    BY <1>1, <2>1 DEF Loaded, InDocument
  <2> QED BY <1>1, <2>1, <2>2 DEF Covered, Loaded
<1>2. ASSUME NEW f \in Frames, InDocument(f), S # {}
      PROVE  onload'[f] # Undefined /\ toFrame'[f] # <<>>
  <2>1. onload'[f] = Position(f) /\ Position(f) \in Nat
    BY <1>2, PositionType DEF Loaded
  <2>2. Cardinality(S) \in Nat /\ Cardinality(S) # 0
    BY <1>2, ScriptsAssumption, FS_Subset, FS_CardinalityType, FS_EmptySet
  <2> DEFINE new == [i \in 1..Cardinality(S) |-> Position(f)]
  <2>3. new \in Seq(Nat) /\ Len(new) = Cardinality(S)
    BY <2>1, <2>2
  <2>4. toFrame[f] \in Seq(Nat) /\ toFrame'[f] = toFrame[f] \o new
    BY <1>2 DEF Loaded, TypeOK
  <2> HIDE DEF new
  <2>5. new # <<>>
    BY <2>2, <2>3
  <2>6. toFrame[f] \o new # <<>>
    BY <2>3, <2>4, <2>5, ConcatEqualIffEmpty
  <2>7. toFrame'[f] # <<>>
    BY <2>4, <2>6
  <2> QED BY <2>1, <2>7
<1>3. Agree' => Agree
  <2>1. \A s \in Scripts : \A i : Knows(s, i) => Knows(s, i)' /\ iframes'[s] = iframes[s]
    BY DEF Knows, Loaded
  <2> QED BY <2>1 DEF Agree, Knows
<1>4. ASSUME NEW f \in Frames, Announces(f), ~(InDocument(f) /\ S # {}) PROVE Announces(f)'
  <2>1. toFrame'[f] = toFrame[f] \/ InDocument(f)
    BY DEF Loaded
  <2>2. CASE toFrame[f] = <<>>
    BY <1>4, <2>2 DEF Announces, Announced, LastHeight, Fits
  <2>3. CASE toFrame[f] # <<>> /\ InDocument(f)
    <3>1. S = {} /\ Cardinality(S) = 0
      BY <1>4, <2>3, FS_EmptySet
    <3> DEFINE new == [i \in 1..Cardinality(S) |-> Position(f)]
    <3>2. new \in Seq(Nat) /\ Len(new) = 0
      BY <3>1
    <3>3. toFrame[f] \in Seq(Nat) /\ toFrame'[f] = toFrame[f] \o new
      BY <2>3 DEF Loaded, TypeOK
    <3> HIDE DEF new
    <3>4. Len(toFrame'[f]) = Len(toFrame[f]) /\ Len(toFrame[f]) # 0
      BY <2>3, <3>2, <3>3
    <3>5. toFrame'[f] # <<>>
      BY <3>4
    <3> QED BY <3>5 DEF Announces
  <2>4. CASE toFrame[f] # <<>> /\ ~InDocument(f)
    BY <2>1, <2>4 DEF Announces
  <2> QED BY <2>2, <2>3, <2>4
<1> SUFFICES ASSUME NEW f \in Frames
             PROVE  /\ Covered(f)' => onload'[f] # Undefined
                    /\ Agree' /\ Covered(f)' /\ page'[f] = "loaded" => Announces(f)'
  BY DEF FitInv
<1>5. CASE InDocument(f) /\ S # {}
  BY <1>2, <1>5 DEF Announces
<1>6. CASE ~(InDocument(f) /\ S # {})
  BY <1>1, <1>3, <1>4, <1>6 DEF FitInv
<1> QED BY <1>5, <1>6

LEMMA FitStep == TypeOK /\ IdInv /\ FitInv /\ [Next]_vars => FitInv'
<1> SUFFICES ASSUME TypeOK, IdInv, FitInv, [Next]_vars PROVE FitInv'
  OBVIOUS
<1> USE UndefinedAssumption
<1>f. \A f \in Frames : Agree /\ Covered(f) /\ page[f] = "loaded" => Announces(f)
  BY DEF FitInv
<1>s. ASSUME NEW f \in Frames, Announces(f), toFrame'[f] = toFrame[f], toPage'[f] = toPage[f],
             parentId'[f] = parentId[f], pending'[f] = pending[f], content'[f] = content[f],
             silent'[f] = silent[f], height'[f] = height[f]
      PROVE  Announces(f)'
  BY <1>s DEF Announces, Announced, LastHeight, Fits
<1>1. CASE DOMContentLoaded
  <2>1. /\ {s \in Scripts : script[s] = "waiting"} \in SUBSET Scripts
        /\ \A s \in {s \in Scripts : script[s] = "waiting"} : script[s] # "ready"
    OBVIOUS
  <2> QED BY <1>1, <2>1, FitLoaded DEF DOMContentLoaded, frameVars
<1>2. ASSUME NEW s \in Scripts, RunScript(s) PROVE FitInv'
  <2>1. CASE Loaded({s})
    BY <1>2, <2>1, FitLoaded DEF RunScript, frameVars
  <2>2. CASE ~Loaded({s})
    <3>1. /\ script[s] = "none" /\ script' = [script EXCEPT ![s] = "waiting"]
          /\ UNCHANGED <<iframes, onload, toFrame, toPage, frameVars, height>>
      BY <1>2, <2>2 DEF RunScript
    <3>2. \A t \in Scripts : \A i : Knows(t, i)' <=> Knows(t, i)
      BY <3>1 DEF Knows, TypeOK
    <3>3. (Agree' <=> Agree) /\ \A f : Covered(f)' <=> Covered(f)
      BY <3>1, <3>2 DEF Agree, Covered
    <3>4. \A f \in Frames : Announces(f)' <=> Announces(f)
      BY <3>1 DEF Announces, Announced, LastHeight, Fits, frameVars
    <3> QED BY <3>1, <3>3, <3>4 DEF FitInv, frameVars
  <2> QED BY <2>1, <2>2
<1>3. ASSUME NEW g \in Frames, AddFrame(g) PROVE FitInv'
  <2>1. UNCHANGED <<script, iframes, onload, height, toFrame, toPage, frameVars>>
    BY <1>3 DEF AddFrame
  <2> QED BY <1>f, <1>s, <2>1, FitFrame DEF frameVars
<1>4. ASSUME NEW g \in Frames, Receive(g) PROVE FitInv'
  <2>1. UNCHANGED <<script, iframes, onload, toFrame, frameVars>>
    BY <1>4 DEF Receive
  <2>2. ASSUME NEW f \in Frames, f # g, Agree PROVE height'[f] = height[f] /\ toPage'[f] = toPage[f]
    <3>1. toPage'[g] # toPage[g] /\ toPage'[f] = toPage[f]
      <4>1. toPage[g] \in Seq(Messages) /\ toPage[g] # <<>> /\ toPage'[g] = Tail(toPage[g])
        BY <1>4 DEF Receive, TypeOK, Messages
      <4>2. toPage'[g] # toPage[g]
        BY <4>1, QueueTail, Zenon
      <4> QED BY <1>4, <2>2, <4>2 DEF Receive, TypeOK
    <3> QED BY <2>2, <3>1, HeightStep
  <2>3. ASSUME Agree, Covered(g), page[g] = "loaded" PROVE Announces(g)'
    <3>1. /\ toPage[g] \in Seq(Messages) /\ toPage[g] # <<>> /\ toPage'[g] = Tail(toPage[g])
      BY <1>4 DEF Receive, TypeOK, Messages
    <3>2. CASE toFrame[g] # <<>> \/ (parentId[g] # Undefined /\ (pending[g] > 0 \/ silent[g]))
      BY <2>1, <3>2 DEF Announces, frameVars
    <3>3. CASE parentId[g] # Undefined /\ Announced(g)
      <4>1. /\ Head(toPage[g]) = toPage[g][1] /\ 1 \in 1..Len(toPage[g])
            /\ \/ Len(toPage[g]) = 1 /\ toPage'[g] = <<>>
               \/ toPage'[g] # <<>> /\ LastHeight(g)' = LastHeight(g)
        BY <3>1, QueueTail, Zenon DEF LastHeight
      <4>2. CASE toPage'[g] # <<>> /\ LastHeight(g)' = LastHeight(g)
        BY <2>1, <3>3, <4>2 DEF Announces, Announced, frameVars
      <4>3. CASE Len(toPage[g]) = 1 /\ toPage'[g] = <<>>
        <5> DEFINE id == Head(toPage[g])[1]
        <5>1. id # Undefined /\ Head(toPage[g])[2] >= content[g]
          BY <3>3, <4>1, <4>3 DEF Announced, LastHeight
        <5>2. PICK s \in Scripts : Knows(s, id) /\ iframes[s][id] = g
          BY <4>1, <5>1 DEF IdInv, Numbered
        <5>3. height'[g] = Head(toPage[g])[2]
          BY <1>4, <5>1, <5>2 DEF Receive, TypeOK
        <5> QED BY <2>1, <3>3, <4>3, <5>1, <5>3 DEF Announces, Fits, frameVars
      <4> QED BY <4>1, <4>2, <4>3
    <3> QED BY <1>f, <2>3, <3>1, <3>2, <3>3 DEF Announces
  <2>4. ASSUME NEW f \in Frames, Agree, Covered(f), page'[f] = "loaded" PROVE Announces(f)'
    <3>1. page[f] = "loaded"
      BY <2>1, <2>4 DEF frameVars
    <3>2. CASE f = g
      BY <2>3, <2>4, <3>1, <3>2
    <3>3. CASE f # g
      BY <1>f, <1>s, <2>1, <2>2, <2>4, <3>1, <3>3 DEF frameVars
    <3> QED BY <3>2, <3>3
  <2> QED BY <2>1, <2>4, FitFrame
<1>5. ASSUME NEW g \in Frames, Listen(g) PROVE FitInv'
  <2>1. UNCHANGED <<hostVars, toFrame, toPage, parentId, pending, content, silent>>
    BY <1>5 DEF Listen
  <2>2. \A f \in Frames : page'[f] = "loaded" => page[f] = "loaded"
    BY <1>5 DEF Listen, TypeOK
  <2> QED BY <1>f, <1>s, <2>1, <2>2, FitFrame DEF hostVars
<1>6. ASSUME NEW g \in Frames, Load(g) PROVE FitInv'
  <2>1. UNCHANGED <<hostVars, toPage, parentId, pending, content, silent>>
    BY <1>6 DEF Load
  <2>2. ASSUME NEW f \in Frames, f # g PROVE page'[f] = page[f] /\ toFrame'[f] = toFrame[f]
    BY <1>6, <2>2 DEF Load, TypeOK
  <2>3. Covered(g) => toFrame'[g] # <<>>
    <3> SUFFICES ASSUME Covered(g) PROVE toFrame'[g] # <<>>
      OBVIOUS
    <3>1. onload[g] # Undefined /\ onload[g] \in Nat /\ toFrame[g] \in Seq(Nat)
      BY DEF FitInv, TypeOK
    <3>2. toFrame'[g] = Append(toFrame[g], onload[g])
      BY <1>6, <3>1 DEF Load, TypeOK
    <3>3. Len(toFrame'[g]) = Len(toFrame[g]) + 1 /\ Len(toFrame[g]) \in Nat
      BY <3>1, <3>2
    <3> QED BY <3>3
  <2>4. ASSUME NEW f \in Frames, Agree, Covered(f), page'[f] = "loaded" PROVE Announces(f)'
    <3>1. CASE f = g
      BY <2>3, <2>4, <3>1 DEF Announces
    <3>2. CASE f # g
      BY <1>f, <1>s, <2>1, <2>2, <2>4, <3>2 DEF hostVars
    <3> QED BY <3>1, <3>2
  <2> QED BY <2>1, <2>4, FitFrame DEF hostVars
<1>7. ASSUME NEW g \in Frames, GetMessage(g) PROVE FitInv'
  <2>1. UNCHANGED <<hostVars, toPage, page, content, silent>>
    BY <1>7 DEF GetMessage
  <2>2. ASSUME NEW f \in Frames, f # g
        PROVE  toFrame'[f] = toFrame[f] /\ parentId'[f] = parentId[f] /\ pending'[f] = pending[f]
    BY <1>7, <2>2 DEF GetMessage, TypeOK
  <2>3. page[g] = "loaded" => parentId'[g] # Undefined /\ pending'[g] > 0
    <3> SUFFICES ASSUME page[g] = "loaded" PROVE parentId'[g] # Undefined /\ pending'[g] > 0
      OBVIOUS
    <3>1. Head(toFrame[g]) \in Nat
      BY <1>7 DEF GetMessage, TypeOK
    <3>2. /\ parentId' = [parentId EXCEPT ![g] = Head(toFrame[g])]
          /\ pending' = [pending EXCEPT ![g] = @ + 1]
      BY <1>7 DEF GetMessage
    <3> QED BY <3>1, <3>2 DEF TypeOK
  <2>4. ASSUME NEW f \in Frames, Agree, Covered(f), page'[f] = "loaded" PROVE Announces(f)'
    <3>1. CASE f = g
      BY <2>1, <2>3, <2>4, <3>1 DEF Announces
    <3>2. CASE f # g
      BY <1>f, <1>s, <2>1, <2>2, <2>4, <3>2 DEF hostVars
    <3> QED BY <3>1, <3>2
  <2> QED BY <2>1, <2>4, FitFrame DEF hostVars
<1>8. ASSUME NEW g \in Frames, UpdateHeight(g) PROVE FitInv'
  <2>1. UNCHANGED <<hostVars, toFrame, page, parentId, content>>
    BY <1>8 DEF UpdateHeight
  <2>2. ASSUME NEW f \in Frames, f # g PROVE toPage'[f] = toPage[f] /\ pending'[f] = pending[f] /\ silent'[f] = silent[f]
    BY <1>8, <2>2 DEF UpdateHeight, TypeOK
  <2>3. ASSUME parentId[g] # Undefined PROVE Announced(g)'
    <3>1. /\ toPage[g] \in Seq(Messages) /\ <<parentId[g], ScrollHeight(g)>> \in Messages
          /\ toPage'[g] = Append(toPage[g], <<parentId[g], ScrollHeight(g)>>)
      BY <1>8, ScrollHeightType DEF UpdateHeight, TypeOK, Messages
    <3>2. /\ Len(toPage'[g]) = Len(toPage[g]) + 1 /\ Len(toPage[g]) \in Nat
          /\ toPage'[g][Len(toPage'[g])] = <<parentId[g], ScrollHeight(g)>>
      BY <3>1
    <3>3. toPage'[g] # <<>>
      BY <3>2
    <3>4. LastHeight(g)'[1] = parentId'[g] /\ LastHeight(g)'[2] = ScrollHeight(g)
      BY <2>1, <3>2 DEF LastHeight
    <3> QED BY <2>1, <2>3, <3>3, <3>4, ScrollHeightType DEF Announced
  <2>4. ASSUME NEW f \in Frames, Agree, Covered(f), page'[f] = "loaded" PROVE Announces(f)'
    <3>1. CASE f = g
      BY <1>f, <2>1, <2>3, <2>4, <3>1 DEF Announces
    <3>2. CASE f # g
      BY <1>f, <1>s, <2>1, <2>2, <2>4, <3>2 DEF hostVars
    <3> QED BY <3>1, <3>2
  <2> QED BY <2>1, <2>4, FitFrame DEF hostVars
<1>9. ASSUME NEW g \in Frames, ToggleMedia(g) \/ ToggleSubject(g) PROVE FitInv'
  <2>1. UNCHANGED <<hostVars, toFrame, toPage, page, parentId>>
    BY <1>9 DEF ToggleMedia, ToggleSubject, Click
  <2>2. ASSUME NEW f \in Frames
        PROVE  IF f = g THEN pending'[f] > 0 \/ silent'[f]
               ELSE pending'[f] = pending[f] /\ content'[f] = content[f] /\ silent'[f] = silent[f]
    BY <1>9, <2>2 DEF ToggleMedia, ToggleSubject, Click, TypeOK
  <2>4. ASSUME NEW f \in Frames, Agree, Covered(f), page'[f] = "loaded" PROVE Announces(f)'
    <3>1. CASE f = g
      BY <1>f, <2>1, <2>2, <2>4, <3>1 DEF Announces
    <3>2. CASE f # g
      BY <1>f, <1>s, <2>1, <2>2, <2>4, <3>2 DEF hostVars
    <3> QED BY <3>1, <3>2
  <2> QED BY <2>1, <2>4, FitFrame DEF hostVars
<1>10. ASSUME NEW g \in Frames, Reload(g) PROVE FitInv'
  <2>1. UNCHANGED <<hostVars, toPage>>
    BY <1>10 DEF Reload
  <2>2. ASSUME NEW f \in Frames
        PROVE  IF f = g THEN page'[f] = "blank"
               ELSE /\ page'[f] = page[f] /\ parentId'[f] = parentId[f] /\ pending'[f] = pending[f]
                    /\ toFrame'[f] = toFrame[f] /\ content'[f] = content[f] /\ silent'[f] = silent[f]
    BY <1>10, <2>2 DEF Reload, TypeOK
  <2>4. ASSUME NEW f \in Frames, Agree, Covered(f), page'[f] = "loaded" PROVE Announces(f)'
    BY <1>f, <1>s, <2>1, <2>2, <2>4 DEF hostVars
  <2> QED BY <2>1, <2>4, FitFrame DEF hostVars
<1>11. CASE UNCHANGED vars
  BY <1>11, <1>f, <1>s, FitFrame DEF vars, hostVars, frameVars
<1> QED BY <1>1, <1>2, <1>3, <1>4, <1>5, <1>6, <1>7, <1>8, <1>9, <1>10, <1>11 DEF Next

\* Whenever nothing is under way or due for a loaded and numbered post, its
\* iframe shows it in full, unless its subject was clicked since its height was
\* last read: the safety half of EventuallyFits, for any number of iframes,
\* executions, clicks, reloads and messages.
THEOREM FitsWhenQuietCorrect == Spec => []FitsWhenQuiet
<1>1. Init => TypeOK /\ IdInv /\ FitInv
  <2>1. Init => TypeOK /\ IdInv
    BY BoundsAssumption DEF Init, TypeOK, IdInv
  <2>2. Init => FitInv
    BY DEF Init, FitInv, Covered
  <2> QED BY <2>1, <2>2
<1>2. FitInv => FitsWhenQuiet
  BY DEF FitInv, FitsWhenQuiet, Announces, Announced, Quiet
<1> QED BY <1>1, <1>2, TypeStep, IdStep, FitStep, PTL DEF Spec
=============================================================================
