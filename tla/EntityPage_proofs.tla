-------------------------- MODULE EntityPage_proofs --------------------------
(***************************************************************************)
(* The page of an entity, for any number of readings, values, corrections, *)
(* other users, and requests in flight.                                    *)
(***************************************************************************)
EXTENDS EntityPage, CorrectionLedger_proofs

\* No row is ever gone here: the page's world has no purge.
Kept == \A r \in Rows : states[r] \in Values

Typed == TypeOK /\ Kept /\ PageTypeOK

\* All the steps that reach the server, and what they have in common.
ServerStep ==
  \/ \E rows \in SUBSET Rows : \E new \in [rows -> Numeric] : Repair(rows, new)
  \/ \E i \in Ids : Restore(i)
  \/ UNCHANGED server

-----------------------------------------------------------------------------
(***************************************************************************)
(* A repair is a correction of the ledger.                                 *)
(***************************************************************************)
LEMMA RepairIsCorrection ==
  ASSUME Typed, NEW rows \in SUBSET Rows, NEW new \in [rows -> Numeric], Repair(rows, new)
  PROVE  Next /\ Kept'
<1>0. PICK D \in SUBSET Unused :
        D # {} /\ \E at \in Injections(D, rows) : Correct(D, at, [i \in D |-> new[at[i]]])
  BY DEF Repair
<1>1. PICK at \in Injections(D, rows) : Correct(D, at, [i \in D |-> new[at[i]]])
  BY <1>0
<1>2. rows \subseteq Present
  BY ValuesAssumption DEF Present, Typed, Kept
<1>3. at \in Injections(D, Present)
  BY <1>2 DEF Injections
<1>4. \A i \in D : at[i] \in rows
  BY DEF Injections
<1>5. [i \in D |-> new[at[i]]] \in [D -> Numeric]
  BY <1>4
<1>6. Next
  BY <1>0, <1>1, <1>3, <1>5 DEF Next
<1>7. Kept'
  <2> SUFFICES ASSUME NEW q \in Rows PROVE states'[q] \in Values
    BY DEF Kept
  <2> DEFINE i == CHOOSE i \in D : at[i] = q
  <2>1. states'[q] = IF \E k \in D : at[k] = q THEN [k \in D |-> new[at[k]]][i] ELSE states[q]
    BY <1>1 DEF Correct
  <2>2. (\E k \in D : at[k] = q) => i \in D
    OBVIOUS
  <2> HIDE DEF i
  <2> QED
    BY <2>1, <2>2, <1>5, ValuesAssumption DEF Typed, Kept
<1> QED
  BY <1>6, <1>7

LEMMA ServerStepTyped ==
  ASSUME Typed, ServerStep
  PROVE  [Next]_vars /\ TypeOK' /\ Kept'
<1>1. ASSUME NEW rows \in SUBSET Rows, NEW new \in [rows -> Numeric], Repair(rows, new)
      PROVE  [Next]_vars /\ Kept'
  BY <1>1, RepairIsCorrection
<1>2. ASSUME NEW i \in Ids, Restore(i)
      PROVE  [Next]_vars /\ Kept'
  <2>1. audit[i] \in AuditRow
    BY <1>2 DEF Restore, Active, Recorded, Typed, TypeOK
  <2>2. audit[i].orig \in Values
    BY <2>1 DEF AuditRow
  <2>3. Next
    BY <1>2 DEF Next
  <2>4. Kept'
    BY <1>2, <2>2 DEF Restore, Typed, TypeOK, Kept
  <2> QED
    BY <2>3, <2>4
<1>3. ASSUME UNCHANGED server PROVE [Next]_vars /\ Kept'
  <2>1. UNCHANGED vars
    BY <1>3 DEF server, vars
  <2>2. states' = states
    BY <1>3 DEF server
  <2> QED
    BY <2>1, <2>2 DEF Typed, Kept
<1>4. [Next]_vars /\ Kept'
  BY <1>1, <1>2, <1>3 DEF ServerStep
<1> QED
  BY <1>4, NextTypeOK DEF Typed

LEMMA OneRow ==
  ASSUME NEW r \in Rows, NEW v \in Numeric
  PROVE  {r} \in SUBSET Rows /\ [q \in {r} |-> v] \in [{r} -> Numeric]
  OBVIOUS

LEMMA PageServerStep == Typed /\ [PageNext]_pageVars => ServerStep
<1> SUFFICES ASSUME Typed, [PageNext]_pageVars PROVE ServerStep
  OBVIOUS
<1>1. ASSUME NEW s \in Saves, ServerSaves(s) PROVE ServerStep
  <2>1. saves[s] \in Save
    BY <1>1 DEF ServerSaves, Typed, PageTypeOK
  <2>2. saves[s].row \in Rows /\ saves[s].new \in Numeric
    BY <2>1 DEF Save
  <2>3. \/ Repair({saves[s].row}, [r \in {saves[s].row} |-> saves[s].new])
        \/ UNCHANGED server
    BY <1>1 DEF ServerSaves
  <2> QED
    BY <2>2, <2>3, OneRow DEF ServerStep
<1>2. CASE ServerRestores
  <2>1. undo \in Undo
    BY <1>2 DEF ServerRestores, Typed, PageTypeOK
  <2>2. undo.id \in Ids
    BY <2>1 DEF Undo
  <2> QED
    BY <1>2, <2>2 DEF ServerRestores, ServerStep
<1>3. ASSUME NEW o \in Others, BulkWrites(o) PROVE ServerStep
  <2>1. bulks[o] \in SUBSET Rows
    BY DEF Typed, PageTypeOK
  <2> QED
    BY <1>3, <2>1 DEF BulkWrites, ServerStep
<1>4. ASSUME NEW o \in Others, NEW v \in Numeric, OtherSaves(o, v) PROVE ServerStep
  <2>1. forms[o] \in Form
    BY <1>4 DEF OtherSaves, Typed, PageTypeOK
  <2>2. forms[o].row \in Rows
    BY <2>1 DEF Form
  <2>3. Repair({forms[o].row}, [r \in {forms[o].row} |-> v])
    BY <1>4 DEF OtherSaves
  <2> QED
    BY <2>2, <2>3, OneRow DEF ServerStep
<1>5. ASSUME NEW i \in Ids, OtherRestores(i) PROVE ServerStep
  BY <1>5 DEF OtherRestores, ServerStep
<1>6. ASSUME NEW o \in Others, NEW r \in Rows,
             OtherReads(o, r) \/ OtherShows(o) \/ OtherLeaves(o)
      PROVE  ServerStep
  BY <1>6 DEF OtherReads, OtherShows, OtherLeaves, ServerStep
<1>7. ASSUME NEW o \in Others, NEW range \in SUBSET Rows, BulkReads(o, range) PROVE ServerStep
  BY <1>7 DEF BulkReads, ServerStep
<1>8. ASSUME NEW l \in Loads, ReadStates(l) \/ ReadCorrections(l) PROVE ServerStep
  BY <1>8 DEF ReadStates, ReadCorrections, ServerStep
<1>9. CASE User \/ Answers
  BY <1>9 DEF User, Answers, Reload, Select, ToggleAck, ClosePanel, ClickRestore, Submit, Post,
              LoadEnds, SaveAnswered, RestoreAnswered, ServerStep
<1>10. CASE UNCHANGED pageVars
  BY <1>10 DEF pageVars, ServerStep
<1>11. CASE \E o \in Others : OtherShows(o) \/ OtherLeaves(o)
  BY <1>11 DEF OtherShows, OtherLeaves, ServerStep
<1> QED
  BY <1>1, <1>2, <1>3, <1>4, <1>5, <1>6, <1>7, <1>8, <1>9, <1>10, <1>11
     DEF PageNext, Server, OtherUsers

-----------------------------------------------------------------------------
(***************************************************************************)
(* The page's variables keep to their types.                               *)
(***************************************************************************)
GraphTypeOK ==
  /\ view \in Points
  /\ overlay \in BOOLEAN
  /\ loads \in [Loads -> Load \cup {Nobody}]

PanelTypeOK ==
  /\ selected \in Point \cup {Nobody}
  /\ ack \in BOOLEAN
  /\ saveEnabled \in BOOLEAN /\ undoEnabled \in BOOLEAN
  /\ ackFor \in Rows \cup {Nobody}

PostsTypeOK ==
  /\ saves \in [Saves -> Save \cup {Nobody}]
  /\ undo \in Undo \cup {Nobody}

OthersTypeOK ==
  /\ forms \in [Others -> Form \cup {Nobody}]
  /\ bulks \in [Others -> SUBSET Rows]
  /\ exposed \subseteq Rows

PartsTypeOK == GraphTypeOK /\ PanelTypeOK /\ PostsTypeOK /\ OthersTypeOK

LEMMA PageTypeParts == PageTypeOK <=> PartsTypeOK
  BY DEF PageTypeOK, PartsTypeOK, GraphTypeOK, PanelTypeOK, PostsTypeOK, OthersTypeOK

LEMMA MarkOfType == \A r \in Rows : MarkOf(r) \subseteq Mark
  BY DEF MarkOf, Marks, Mark

LEMMA StartLoadTyped ==
  ASSUME GraphTypeOK, NEW then \in {"nothing", "save", "undo"}, StartLoad(then)
  PROVE  GraphTypeOK'
<1>1. [then |-> then, read |-> Nobody, points |-> Nobody] \in Load
  BY DEF Load
<1> QED
  BY <1>1 DEF StartLoad, GraphTypeOK

LEMMA ReadStatesTyped ==
  ASSUME Kept, TypeOK, GraphTypeOK, NEW l \in Loads, ReadStates(l)
  PROVE  GraphTypeOK'
<1>1. loads[l] \in Load
  BY DEF ReadStates, GraphTypeOK
<1>2. states \in [Rows -> Values]
  BY DEF Kept, TypeOK
<1>3. [loads[l] EXCEPT !.read = states] \in Load
  BY <1>1, <1>2 DEF Load
<1> QED
  BY <1>3 DEF ReadStates, GraphTypeOK

LEMMA ReadCorrectionsTyped ==
  ASSUME GraphTypeOK, OthersTypeOK, NEW l \in Loads, ReadCorrections(l)
  PROVE  GraphTypeOK' /\ OthersTypeOK'
<1>1. loads[l] \in Load /\ loads[l].read # Nobody
  BY DEF ReadCorrections, GraphTypeOK
<1>2. loads[l].read \in [Rows -> Values]
  BY <1>1 DEF Load
<1>3. ASSUME NEW mark \in [Rows -> Mark]
      PROVE  [r \in Rows |-> [value |-> loads[l].read[r], correction |-> mark[r]]] \in Points
  BY <1>2 DEF Points
<1>4. ASSUME NEW p \in Points PROVE [loads[l] EXCEPT !.points = p] \in Load
  BY <1>1 DEF Load
<1>5. PICK p \in Points : loads' = [loads EXCEPT ![l].points = p]
  BY <1>3 DEF ReadCorrections
<1>6. GraphTypeOK'
  BY <1>4, <1>5 DEF ReadCorrections, GraphTypeOK
<1>7. OthersTypeOK'
  BY <1>2 DEF ReadCorrections, OthersTypeOK, others, Torn
<1> QED
  BY <1>6, <1>7

LEMMA LoadEndsTyped ==
  ASSUME GraphTypeOK, PanelTypeOK, NEW l \in Loads, NEW ok \in BOOLEAN, LoadEnds(l, ok)
  PROVE  GraphTypeOK' /\ PanelTypeOK'
<1>1. loads[l] \in Load
  BY DEF LoadEnds, GraphTypeOK
<1>2. view' \in Points
  BY <1>1 DEF LoadEnds, GraphTypeOK, Load
<1>3. GraphTypeOK'
  BY <1>2 DEF LoadEnds, GraphTypeOK
<1>4. PanelTypeOK'
  BY DEF LoadEnds, PanelTypeOK
<1> QED
  BY <1>3, <1>4

LEMMA SelectTyped ==
  ASSUME GraphTypeOK, PanelTypeOK, NEW r \in Rows, Select(r)
  PROVE  PanelTypeOK'
<1>1. [row |-> r, value |-> view[r].value, correction |-> view[r].correction] \in Point
  BY DEF GraphTypeOK, Points, Point
<1>2. selected' \in Point
  BY <1>1 DEF Select
<1>3. saveEnabled' \in BOOLEAN
  BY IsCounterAssumption DEF Select, FormShown
<1> QED
  BY <1>2, <1>3 DEF Select, PanelTypeOK

LEMMA HideTyped ==
  ASSUME PanelTypeOK, Hide, UNCHANGED <<undoEnabled, ackFor>>
  PROVE  PanelTypeOK'
  BY DEF Hide, PanelTypeOK

LEMMA PostTyped ==
  ASSUME PanelTypeOK, PostsTypeOK, selected # Nobody, NEW s \in Saves, NEW v \in Numeric,
         Post(s, v)
  PROVE  PanelTypeOK' /\ PostsTypeOK'
<1>1. selected \in Point
  BY DEF PanelTypeOK
<1>2. [row |-> selected.row, expected |-> selected.value, new |-> v, result |-> "sent"] \in Save
  BY <1>1 DEF Point, Save
<1>3. PostsTypeOK'
  BY <1>2 DEF Post, PostsTypeOK
<1>4. PanelTypeOK'
  BY DEF Post, PanelTypeOK
<1> QED
  BY <1>3, <1>4

LEMMA UserTyped ==
  ASSUME PartsTypeOK, User
  PROVE  PartsTypeOK'
<1> USE DEF PartsTypeOK
<1>a. UNCHANGED panelVars => PanelTypeOK'
  BY DEF panelVars, PanelTypeOK
<1>b. UNCHANGED posts => PostsTypeOK'
  BY DEF posts, PostsTypeOK
<1>c. UNCHANGED graphVars => GraphTypeOK'
  BY DEF graphVars, GraphTypeOK
<1>d. UNCHANGED <<others, exposed>> => OthersTypeOK'
  BY DEF others, OthersTypeOK
<1>1. CASE Reload
  <2>1. GraphTypeOK'
    BY <1>1, StartLoadTyped DEF Reload
  <2> QED
    BY <1>1, <1>a, <1>b, <1>d, <2>1 DEF Reload
<1>2. ASSUME NEW r \in Rows, Select(r) PROVE PartsTypeOK'
  BY <1>2, <1>b, <1>c, <1>d, SelectTyped DEF Select
<1>3. CASE ToggleAck
  <2>1. selected \in Point
    BY <1>3 DEF ToggleAck, PanelTypeOK
  <2>2. selected.row \in Rows
    BY <2>1 DEF Point
  <2>3. PanelTypeOK'
    BY <1>3, <2>2 DEF ToggleAck, PanelTypeOK
  <2> QED
    BY <1>3, <1>b, <1>c, <1>d, <2>3 DEF ToggleAck
<1>4. CASE ClosePanel
  BY <1>4, <1>b, <1>c, <1>d, HideTyped DEF ClosePanel
<1>5. CASE ClickRestore
  <2>1. selected \in Point
    BY <1>5 DEF ClickRestore, PanelTypeOK
  <2>2. [id |-> selected.correction, result |-> "sent"] \in Undo
    BY <1>5, <2>1 DEF ClickRestore, Point, Mark, Undo
  <2>3. PanelTypeOK' /\ PostsTypeOK'
    BY <1>5, <2>2 DEF ClickRestore, PanelTypeOK, PostsTypeOK
  <2> QED
    BY <1>5, <1>c, <1>d, <2>3 DEF ClickRestore
<1>6. ASSUME NEW s \in Saves, NEW v \in Numeric, Submit(s, v) PROVE PartsTypeOK'
  <2>1. selected # Nobody /\ Post(s, v)
    BY <1>6 DEF Submit
  <2>2. PanelTypeOK' /\ PostsTypeOK'
    BY <2>1, PostTyped
  <2> QED
    BY <1>c, <1>d, <2>1, <2>2 DEF Post
<1> QED
  BY <1>1, <1>2, <1>3, <1>4, <1>5, <1>6 DEF User

LEMMA AnswersTyped ==
  ASSUME PartsTypeOK, Answers
  PROVE  PartsTypeOK'
<1> USE DEF PartsTypeOK
<1>b. UNCHANGED posts => PostsTypeOK'
  BY DEF posts, PostsTypeOK
<1>c. UNCHANGED graphVars => GraphTypeOK'
  BY DEF graphVars, GraphTypeOK
<1>d. UNCHANGED <<others, exposed>> => OthersTypeOK'
  BY DEF others, OthersTypeOK
<1>1. ASSUME NEW l \in Loads, NEW ok \in BOOLEAN, LoadEnds(l, ok) PROVE PartsTypeOK'
  BY <1>1, <1>b, <1>d, LoadEndsTyped DEF LoadEnds
<1>2. ASSUME NEW s \in Saves, SaveAnswered(s) PROVE PartsTypeOK'
  <2>1. PostsTypeOK'
    BY <1>2 DEF SaveAnswered, PostsTypeOK
  <2>2. CASE Hide /\ StartLoad("save")
    BY <1>2, <1>d, <2>1, <2>2, HideTyped, StartLoadTyped DEF SaveAnswered
  <2>3. CASE saveEnabled' = (selected # Nobody) /\ UNCHANGED <<selected, ack, graphVars>>
    <3>1. PanelTypeOK'
      BY <1>2, <2>3 DEF SaveAnswered, PanelTypeOK
    <3> QED
      BY <1>2, <1>c, <1>d, <2>1, <2>3, <3>1 DEF SaveAnswered
  <2> QED
    BY <1>2, <2>2, <2>3 DEF SaveAnswered
<1>3. CASE RestoreAnswered
  <2>1. PostsTypeOK'
    BY <1>3 DEF RestoreAnswered, PostsTypeOK
  <2>2. CASE Hide /\ StartLoad("undo") /\ UNCHANGED undoEnabled
    BY <1>3, <1>d, <2>1, <2>2, HideTyped, StartLoadTyped DEF RestoreAnswered
  <2>3. CASE undoEnabled' = TRUE /\ UNCHANGED <<selected, ack, saveEnabled, graphVars>>
    <3>1. PanelTypeOK'
      BY <1>3, <2>3 DEF RestoreAnswered, PanelTypeOK
    <3> QED
      BY <1>3, <1>c, <1>d, <2>1, <2>3, <3>1 DEF RestoreAnswered
  <2> QED
    BY <1>3, <2>2, <2>3 DEF RestoreAnswered
<1> QED
  BY <1>1, <1>2, <1>3 DEF Answers

LEMMA ServerTyped ==
  ASSUME TypeOK, Kept, PartsTypeOK, Server
  PROVE  PartsTypeOK'
<1> USE DEF PartsTypeOK
<1>a. UNCHANGED panelVars => PanelTypeOK'
  BY DEF panelVars, PanelTypeOK
<1>b. UNCHANGED posts => PostsTypeOK'
  BY DEF posts, PostsTypeOK
<1>c. UNCHANGED graphVars => GraphTypeOK'
  BY DEF graphVars, GraphTypeOK
<1>d. UNCHANGED <<others, exposed>> => OthersTypeOK'
  BY DEF others, OthersTypeOK
<1>1. ASSUME NEW l \in Loads, ReadStates(l) PROVE PartsTypeOK'
  BY <1>1, <1>a, <1>b, <1>d, ReadStatesTyped DEF ReadStates
<1>2. ASSUME NEW l \in Loads, ReadCorrections(l) PROVE PartsTypeOK'
  BY <1>2, <1>a, <1>b, ReadCorrectionsTyped DEF ReadCorrections
<1>3. ASSUME NEW s \in Saves, ServerSaves(s) PROVE PartsTypeOK'
  <2>1. saves[s] \in Save
    BY <1>3 DEF ServerSaves, PostsTypeOK
  <2>2. \A result \in {"ok", "error"} : [saves[s] EXCEPT !.result = result] \in Save
    BY <2>1 DEF Save
  <2>3. PostsTypeOK'
    BY <1>3, <2>2 DEF ServerSaves, PostsTypeOK
  <2> QED
    BY <1>a, <1>c, <1>d, <1>3, <2>3 DEF ServerSaves
<1>4. CASE ServerRestores
  <2>1. undo \in Undo
    BY <1>4 DEF ServerRestores, PostsTypeOK
  <2>2. \A result \in {"ok", "error"} : [undo EXCEPT !.result = result] \in Undo
    BY <2>1 DEF Undo
  <2>3. PostsTypeOK'
    BY <1>4, <2>2 DEF ServerRestores, PostsTypeOK
  <2> QED
    BY <1>a, <1>c, <1>d, <1>4, <2>3 DEF ServerRestores
<1> QED
  BY <1>1, <1>2, <1>3, <1>4 DEF Server

LEMMA OthersTyped ==
  ASSUME Kept, PartsTypeOK, OtherUsers
  PROVE  PartsTypeOK'
<1> USE DEF PartsTypeOK
<1>a. UNCHANGED <<graphVars, panelVars, posts>> => GraphTypeOK' /\ PanelTypeOK' /\ PostsTypeOK'
  BY DEF graphVars, panelVars, posts, GraphTypeOK, PanelTypeOK, PostsTypeOK
<1>1. ASSUME NEW o \in Others, NEW range \in SUBSET Rows, BulkReads(o, range) PROVE PartsTypeOK'
  <2>1. OthersTypeOK'
    BY <1>1 DEF BulkReads, OthersTypeOK
  <2> QED
    BY <1>a, <1>1, <2>1 DEF BulkReads
<1>2. ASSUME NEW o \in Others, BulkWrites(o) PROVE PartsTypeOK'
  <2>1. OthersTypeOK'
    BY <1>2 DEF BulkWrites, OthersTypeOK
  <2> QED
    BY <1>a, <1>2, <2>1 DEF BulkWrites
<1>3. ASSUME NEW o \in Others, NEW r \in Rows, OtherReads(o, r) PROVE PartsTypeOK'
  <2>1. [row |-> r, value |-> states[r], shown |-> FALSE] \in Form
    BY DEF Form, Kept
  <2>2. OthersTypeOK'
    BY <1>3, <2>1 DEF OtherReads, OthersTypeOK
  <2> QED
    BY <1>a, <1>3, <2>2 DEF OtherReads
<1>4. ASSUME NEW o \in Others, OtherShows(o) PROVE PartsTypeOK'
  <2>1. forms[o] \in Form
    BY <1>4 DEF OtherShows, OthersTypeOK
  <2>2. [forms[o] EXCEPT !.shown = TRUE] \in Form /\ forms[o].row \in Rows
    BY <2>1 DEF Form
  <2>3. OthersTypeOK'
    BY <1>4, <2>2 DEF OtherShows, OthersTypeOK, Torn
  <2> QED
    BY <1>a, <1>4, <2>3 DEF OtherShows
<1>5. ASSUME NEW o \in Others, NEW v \in Numeric, OtherSaves(o, v) PROVE PartsTypeOK'
  <2>1. OthersTypeOK'
    BY <1>5 DEF OtherSaves, OthersTypeOK, others
  <2> QED
    BY <1>a, <1>5, <2>1 DEF OtherSaves
<1>6. ASSUME NEW o \in Others, OtherLeaves(o) PROVE PartsTypeOK'
  <2>1. OthersTypeOK'
    BY <1>6 DEF OtherLeaves, OthersTypeOK
  <2> QED
    BY <1>a, <1>6, <2>1 DEF OtherLeaves
<1>7. ASSUME NEW i \in Ids, OtherRestores(i) PROVE PartsTypeOK'
  <2>1. OthersTypeOK'
    BY <1>7 DEF OtherRestores, OthersTypeOK, others
  <2> QED
    BY <1>a, <1>7, <2>1 DEF OtherRestores
<1> QED
  BY <1>1, <1>2, <1>3, <1>4, <1>5, <1>6, <1>7 DEF OtherUsers

LEMMA NextTyped == Typed /\ [PageNext]_pageVars => Typed'
<1> SUFFICES ASSUME Typed, [PageNext]_pageVars PROVE PageTypeOK'
  BY PageServerStep, ServerStepTyped DEF Typed
<1>1. PartsTypeOK /\ TypeOK /\ Kept
  BY PageTypeParts DEF Typed
<1>2. CASE UNCHANGED pageVars
  BY <1>2 DEF Typed, PageTypeOK, pageVars, graphVars, panelVars, posts, others
<1>3. CASE PageNext
  <2>1. PartsTypeOK'
    BY <1>1, <1>3, UserTyped, AnswersTyped, ServerTyped, OthersTyped DEF PageNext
  <2> QED
    BY <2>1 DEF PageTypeOK, PartsTypeOK, GraphTypeOK, PanelTypeOK, PostsTypeOK, OthersTypeOK
<1> QED
  BY <1>2, <1>3

LEMMA PageInitTyped == PageInit => Typed
<1> SUFFICES ASSUME PageInit PROVE Typed
  OBVIOUS
<1>1. TypeOK /\ Kept
  BY InitTypeOK DEF PageInit, Init, Kept
<1>2. view \in Points
  BY <1>1 DEF PageInit, Points, Kept, Mark
<1>3. PageTypeOK
  BY <1>2 DEF PageInit, PageTypeOK
<1> QED
  BY <1>1, <1>3 DEF Typed

(***************************************************************************)
(* Type correctness of the page and of the server's tables.                *)
(***************************************************************************)
THEOREM PageTypeCorrect == PageSpec => []PageTypeOK
<1>1. PageSpec => []Typed
  BY PageInitTyped, NextTyped, PTL DEF PageSpec
<1>2. Typed => PageTypeOK
  BY DEF Typed
<1> QED
  BY <1>1, <1>2, PTL

(***************************************************************************)
(* With any number of stale panels and other users, all that reaches the   *)
(* server is a step of the ledger: what is proved of the ledger holds here.*)
(***************************************************************************)
THEOREM PageImplementsLedger == PageSpec => Spec
<1>1. PageInit => Init
  BY DEF PageInit
<1>2. Typed /\ [PageNext]_pageVars => [Next]_vars
  BY PageServerStep, ServerStepTyped
<1> QED
  BY <1>1, <1>2, PageInitTyped, NextTyped, PTL DEF PageSpec, Spec

-----------------------------------------------------------------------------
(***************************************************************************)
(* While the box is ticked, it was ticked for the reading in the panel:    *)
(* every selection clears it.                                              *)
(***************************************************************************)
AckIsCurrent == ack => ackFor = selected.row

LEMMA AckNext == AckIsCurrent /\ [PageNext]_pageVars => AckIsCurrent'
<1> SUFFICES ASSUME AckIsCurrent, [PageNext]_pageVars PROVE AckIsCurrent'
  OBVIOUS
<1>1. CASE UNCHANGED <<selected, ack, ackFor>>
  BY <1>1 DEF AckIsCurrent
<1>2. CASE ack' = FALSE
  BY <1>2 DEF AckIsCurrent
<1>3. CASE User
  BY <1>1, <1>2, <1>3
     DEF User, Reload, Select, ToggleAck, ClosePanel, Hide, ClickRestore, Submit, Post, panelVars,
         AckIsCurrent
<1>4. CASE Answers
  BY <1>1, <1>2, <1>4 DEF Answers, LoadEnds, SaveAnswered, RestoreAnswered, Hide
<1>5. CASE Server \/ OtherUsers \/ UNCHANGED pageVars
  <2>1. UNCHANGED panelVars
    BY <1>5 DEF Server, ReadStates, ReadCorrections, ServerSaves, ServerRestores, OtherUsers,
                BulkReads, BulkWrites, OtherReads, OtherShows, OtherSaves, OtherLeaves,
                OtherRestores, pageVars
  <2> QED
    BY <1>1, <2>1 DEF panelVars
<1> QED
  BY <1>3, <1>4, <1>5 DEF PageNext

LEMMA OnlySubmitSends ==
  ASSUME Typed, [PageNext]_pageVars, NEW s \in Saves, saves[s] = Nobody, saves'[s] # Nobody
  PROVE  \E v \in Numeric : Submit(s, v)
<1>0. DOMAIN saves = Saves
  BY DEF Typed, PageTypeOK
<1>1. saves' # saves
  OBVIOUS
<1>2. ASSUME NEW t \in Saves, SaveAnswered(t) \/ ServerSaves(t) PROVE FALSE
  <2>1. t # s /\ saves'[s] = saves[s]
    BY <1>0, <1>2 DEF SaveAnswered, ServerSaves, StartLoad
  <2> QED
    BY <2>1
<1>3. ASSUME NEW t \in Saves, NEW v \in Numeric, Submit(t, v) PROVE t = s
  BY <1>0, <1>3 DEF Submit, Post
<1>4. CASE User
  BY <1>1, <1>3, <1>4
     DEF User, Reload, Select, ToggleAck, ClosePanel, ClickRestore, posts
<1>5. CASE Answers
  BY <1>1, <1>2, <1>5 DEF Answers, LoadEnds, RestoreAnswered, posts
<1>6. CASE Server
  BY <1>1, <1>2, <1>6 DEF Server, ReadStates, ReadCorrections, ServerRestores, posts
<1>7. CASE OtherUsers \/ UNCHANGED pageVars
  <2>1. UNCHANGED posts
    BY <1>7 DEF OtherUsers, BulkReads, BulkWrites, OtherReads, OtherShows, OtherSaves,
                OtherLeaves, OtherRestores, pageVars
  <2> QED
    BY <1>1, <2>1 DEF posts
<1> QED
  BY <1>4, <1>5, <1>6, <1>7 DEF PageNext

(***************************************************************************)
(* Whatever order answers and clicks come in, a correction that is sent is *)
(* the one of the panel, acknowledged for a counter while it was shown.    *)
(***************************************************************************)
THEOREM SendsWhatWasAcknowledged == PageSpec => SentAsAcknowledged
<1>1. PageInit => Typed /\ AckIsCurrent
  BY PageInitTyped DEF PageInit, AckIsCurrent
<1>2. ASSUME Typed, AckIsCurrent, [PageNext]_pageVars, NEW s \in Saves,
             saves[s] = Nobody, saves'[s] # Nobody
      PROVE  /\ selected # Nobody /\ saves'[s].row = selected.row
             /\ IsCounter => ackFor = selected.row
  <2>1. PICK v \in Numeric : Submit(s, v)
    BY <1>2, OnlySubmitSends
  <2>2. saves' = [saves EXCEPT ![s] = [row |-> selected.row, expected |-> selected.value,
                                       new |-> v, result |-> "sent"]]
    BY <2>1 DEF Submit, Post
  <2>3. saves'[s].row = selected.row
    BY <1>2, <2>2 DEF Typed, PageTypeOK
  <2> QED
    BY <1>2, <2>1, <2>3 DEF Submit, AckIsCurrent
<1>3. Typed /\ AckIsCurrent /\ [PageNext]_pageVars
        => [\A s \in Saves : saves[s] = Nobody /\ saves'[s] # Nobody =>
              /\ selected # Nobody /\ saves'[s].row = selected.row
              /\ IsCounter => ackFor = selected.row]_pageVars
  BY <1>2
<1> QED
  BY <1>1, <1>3, NextTyped, AckNext, PTL DEF PageSpec, SentAsAcknowledged

-----------------------------------------------------------------------------
(***************************************************************************)
(* OriginalIsKept, strengthened.  Of the readings that are not exposed: one*)
(* that no active correction stands on holds what the recorder wrote, and  *)
(* every copy a page took of it as uncorrected, in an answer, in a graph,  *)
(* in a panel or in a request, says the same however old it is.  The       *)
(* server compares that copy before it corrects.                           *)
(***************************************************************************)
OriginalsHold ==
  \A r \in Rows : r \notin exposed /\ r \notin Corrected => states[r] = recorded[r]

\* v can be taken for what the recorder wrote.
IsOriginal(r, v) == r \notin exposed => v = recorded[r]

ShowsOriginals(points) ==
  \A r \in Rows : FormShown(points[r]) => IsOriginal(r, points[r].value)

AnswersAreOriginals ==
  \A l \in Loads : loads[l] # Nobody /\ loads[l].points # Nobody => ShowsOriginals(loads[l].points)

PanelIsOriginal ==
  selected # Nobody /\ FormShown(selected) => IsOriginal(selected.row, selected.value)

SavesExpectOriginals ==
  \A s \in Saves : saves[s] # Nobody => IsOriginal(saves[s].row, saves[s].expected)

FormsAreOriginals ==
  \A o \in Others : forms[o] # Nobody /\ forms[o].shown
                      => IsOriginal(forms[o].row, forms[o].value)

CopiesAreOriginals ==
  /\ ShowsOriginals(view)
  /\ AnswersAreOriginals
  /\ PanelIsOriginal
  /\ SavesExpectOriginals
  /\ FormsAreOriginals

OriginalInv == Typed /\ OriginalIsKept /\ OriginalsHold /\ CopiesAreOriginals

\* A repair of readings that hold the original records the original.
LEMMA RepairKeepsOriginals ==
  ASSUME Typed, OriginalIsKept, OriginalsHold,
         NEW rows \in SUBSET Rows, NEW new \in [rows -> Numeric], Repair(rows, new),
         exposed \subseteq exposed',
         \A r \in rows : r \notin exposed' => states[r] = recorded[r]
  PROVE  OriginalIsKept' /\ OriginalsHold' /\ recorded' = recorded
<1>1. PICK D \in SUBSET Unused :
        \E at \in Injections(D, rows) : Correct(D, at, [i \in D |-> new[at[i]]])
  BY DEF Repair
<1>2. PICK at \in Injections(D, rows) : Correct(D, at, [i \in D |-> new[at[i]]])
  BY <1>1
<1>3. recorded' = recorded
  BY <1>2 DEF Correct
<1>4. \A j \in Ids \ D : audit'[j] = audit[j]
  BY <1>2 DEF Correct
<1>5. ASSUME NEW i \in D
      PROVE  /\ at[i] \in rows
             /\ audit'[i].row = at[i] /\ audit'[i].orig = states[at[i]]
             /\ Active(i)'
  <2>1. at[i] \in rows /\ at[i] \in Rows /\ i \in Ids
    BY DEF Injections, Unused
  <2>2. new[at[i]] \in Numeric
    BY <2>1
  <2>3. audit'[i] = NewEntry(at[i], states[at[i]], new[at[i]])
    BY <1>2, <2>1 DEF Correct
  <2>4. NewEntry(at[i], states[at[i]], new[at[i]]) \in AuditRow
    BY <2>1, <2>2 DEF NewEntry, AuditRow, Typed, Kept
  <2>5. audit'[i] # NoAudit
    BY <2>3, <2>4, NoAuditAssumption
  <2> QED
    BY <2>1, <2>3, <2>5 DEF NewEntry, Active, Recorded
<1>6. \A j \in Ids \ D : Active(j)' <=> Active(j)
  BY <1>4 DEF Active, Recorded
<1>7. OriginalIsKept'
  <2> SUFFICES ASSUME NEW j \in Ids, Active(j)', audit'[j].row \notin exposed'
               PROVE  audit'[j].orig = recorded'[audit'[j].row]
    BY DEF OriginalIsKept
  <2>1. CASE j \in D
    BY <1>3, <1>5, <2>1
  <2>2. CASE j \notin D
    BY <1>3, <1>4, <1>6, <2>2 DEF OriginalIsKept
  <2> QED
    BY <2>1, <2>2
<1>8. OriginalsHold'
  <2> SUFFICES ASSUME NEW q \in Rows, q \notin exposed', q \notin Corrected'
               PROVE  states'[q] = recorded'[q]
    BY DEF OriginalsHold
  <2>0. \A j \in Ids : Active(j)' => audit'[j].row # q
    BY DEF Corrected, Marks
  <2>1. \A i \in D : at[i] # q
    <3> SUFFICES ASSUME NEW i \in D PROVE at[i] # q
      OBVIOUS
    <3>1. i \in Ids
      BY DEF Unused
    <3> QED
      BY <1>5, <2>0, <3>1
  <2>2. states'[q] = states[q]
    BY <1>2, <2>1 DEF Correct
  <2>3. q \notin Corrected
    <3> SUFFICES ASSUME NEW j \in Ids, Active(j), audit[j].row = q PROVE FALSE
      BY DEF Corrected, Marks
    <3>1. j \notin D
      BY DEF Unused, Active
    <3> QED
      BY <1>4, <1>6, <2>0, <3>1
  <2> QED
    BY <1>3, <2>2, <2>3 DEF OriginalsHold
<1> QED
  BY <1>3, <1>7, <1>8

LEMMA RestoreKeepsOriginals ==
  ASSUME Typed, OriginalIsKept, OriginalsHold, NEW i \in Ids, Restore(i), exposed' = exposed
  PROVE  OriginalIsKept' /\ OriginalsHold' /\ recorded' = recorded
<1>1. /\ audit[i] \in AuditRow /\ Active(i)
      /\ audit' = [audit EXCEPT ![i].restored = TRUE] /\ recorded' = recorded
      /\ states' = [states EXCEPT ![audit[i].row] = audit[i].orig]
      /\ DOMAIN audit = Ids /\ DOMAIN states = Rows
  BY DEF Restore, Active, Recorded, Typed, TypeOK
<1>2. /\ audit[i].row \in Rows
      /\ audit[i].row \notin exposed => audit[i].orig = recorded[audit[i].row]
  BY <1>1 DEF AuditRow, OriginalIsKept
<1>3. /\ \A j \in Ids \ {i} : audit'[j] = audit[j]
      /\ ~Active(i)'
  <2>1. audit'[i] = [audit[i] EXCEPT !.restored = TRUE] /\ \A j \in Ids \ {i} : audit'[j] = audit[j]
    BY <1>1
  <2>2. audit'[i].restored
    BY <1>1, <2>1 DEF AuditRow
  <2> QED
    BY <2>1, <2>2 DEF Active
<1>4. \A j \in Ids : Active(j)' => Active(j) /\ audit'[j] = audit[j]
  BY <1>3 DEF Active, Recorded
<1>5. OriginalIsKept'
  BY <1>1, <1>4 DEF OriginalIsKept
<1>6. OriginalsHold'
  <2> SUFFICES ASSUME NEW q \in Rows, q \notin exposed, q \notin Corrected'
               PROVE  states'[q] = recorded'[q]
    BY DEF OriginalsHold
  <2>1. CASE q = audit[i].row
    BY <1>1, <1>2, <2>1
  <2>2. CASE q # audit[i].row
    <3>1. q \notin Corrected
      BY <1>3, <2>2 DEF Corrected, Marks, Active, Recorded
    <3> QED
      BY <1>1, <2>2, <3>1 DEF OriginalsHold
  <2> QED
    BY <2>1, <2>2
<1> QED
  BY <1>1, <1>5, <1>6

\* What is marked as uncorrected has no active correction.
LEMMA UnmarkedIsUncorrected ==
  ASSUME NEW r \in Rows, NEW mark \in MarkOf(r), mark = None
  PROVE  r \notin Corrected
<1>1. None \notin Ids
  BY DEF None, Ids
<1> QED
  BY <1>1 DEF MarkOf, Marks

LEMMA InitOriginal == PageInit => OriginalInv
<1> SUFFICES ASSUME PageInit PROVE OriginalInv
  OBVIOUS
<1>1. Typed
  BY PageInitTyped
<1>2. OriginalIsKept /\ OriginalsHold
  BY DEF PageInit, Init, OriginalIsKept, OriginalsHold, Active, Recorded
<1>3. ShowsOriginals(view)
  BY DEF PageInit, Init, ShowsOriginals, IsOriginal
<1>4. CopiesAreOriginals
  BY <1>3 DEF PageInit, CopiesAreOriginals, AnswersAreOriginals, PanelIsOriginal,
              SavesExpectOriginals, FormsAreOriginals
<1> QED
  BY <1>1, <1>2, <1>4 DEF OriginalInv

LEMMA ExposedGrows ==
  ASSUME [PageNext]_pageVars
  PROVE  exposed \subseteq exposed'
<1>1. CASE User \/ Answers \/ UNCHANGED pageVars
  BY <1>1 DEF User, Answers, Reload, Select, ToggleAck, ClosePanel, ClickRestore, Submit, Post,
              LoadEnds, SaveAnswered, RestoreAnswered, pageVars
<1>2. CASE Server
  BY <1>2 DEF Server, ReadStates, ReadCorrections, ServerSaves, ServerRestores
<1>3. CASE OtherUsers
  BY <1>3 DEF OtherUsers, BulkReads, BulkWrites, OtherReads, OtherShows, OtherSaves, OtherLeaves,
              OtherRestores
<1> QED
  BY <1>1, <1>2, <1>3 DEF PageNext

LEMMA ServerOriginal ==
  ASSUME OriginalInv, [PageNext]_pageVars
  PROVE  OriginalIsKept' /\ OriginalsHold' /\ recorded' = recorded
<1> DEFINE Goal == OriginalIsKept' /\ OriginalsHold' /\ recorded' = recorded
<1> SUFFICES Goal
  OBVIOUS
<1> USE DEF OriginalInv
<1>0. exposed \subseteq exposed'
  BY ExposedGrows
<1>1. ASSUME UNCHANGED server PROVE Goal
  BY <1>0, <1>1
     DEF server, OriginalIsKept, OriginalsHold, Corrected, Marks, Active, Recorded
<1>2. ASSUME NEW i \in Ids, Restore(i), exposed' = exposed PROVE Goal
  BY <1>2, RestoreKeepsOriginals
<1>3. ASSUME NEW r \in Rows, NEW v \in Numeric, NEW e, IsOriginal(r, e), states[r] = e,
             Repair({r}, [q \in {r} |-> v])
      PROVE  Goal
  <2>1. \A q \in {r} : q \notin exposed' => states[q] = recorded[q]
    BY <1>0, <1>3 DEF IsOriginal
  <2> HIDE DEF OriginalInv
  <2>2. Typed /\ OriginalIsKept /\ OriginalsHold
    BY DEF OriginalInv
  <2> QED
    BY <1>0, <1>3, <2>1, <2>2, OneRow, RepairKeepsOriginals
<1> HIDE DEF Goal
<1>4. ASSUME NEW s \in Saves, ServerSaves(s) PROVE Goal
  <2>1. saves[s] \in Save /\ IsOriginal(saves[s].row, saves[s].expected)
    BY <1>4 DEF ServerSaves, Typed, PageTypeOK, CopiesAreOriginals, SavesExpectOriginals
  <2>2. saves[s].row \in Rows /\ saves[s].new \in Numeric
    BY <2>1 DEF Save
  <2>3. CASE UNCHANGED server
    BY <1>1, <2>3
  <2>4. CASE /\ states[saves[s].row] = saves[s].expected
             /\ Repair({saves[s].row}, [r \in {saves[s].row} |-> saves[s].new])
    BY <1>3, <2>1, <2>2, <2>4
  <2> QED
    BY <1>4, <2>3, <2>4 DEF ServerSaves
<1>5. CASE ServerRestores
  <2>1. undo \in Undo
    BY <1>5 DEF ServerRestores, Typed, PageTypeOK
  <2>2. undo.id \in Ids
    BY <2>1 DEF Undo
  <2> QED
    BY <1>1, <1>2, <1>5, <2>2 DEF ServerRestores
<1>6. ASSUME NEW o \in Others, BulkWrites(o) PROVE Goal
  <2>1. bulks[o] \in SUBSET Rows
    BY DEF Typed, PageTypeOK
  <2>2. ASSUME NEW new \in [bulks[o] -> Numeric], Repair(bulks[o], new),
               exposed' = exposed \cup (bulks[o] \cap Corrected)
        PROVE  Goal
    <3>1. \A r \in bulks[o] : r \notin exposed' => states[r] = recorded[r]
      BY <2>1, <2>2 DEF OriginalsHold
    <3>2. Typed /\ OriginalIsKept /\ OriginalsHold
      BY DEF OriginalInv
    <3> HIDE DEF OriginalInv
    <3> QED
      BY <1>0, <2>1, <2>2, <3>1, <3>2, RepairKeepsOriginals DEF Goal
  <2> QED
    BY <1>1, <1>6, <2>2 DEF BulkWrites
<1>7. ASSUME NEW o \in Others, NEW v \in Numeric, OtherSaves(o, v) PROVE Goal
  <2>1. forms[o] \in Form /\ IsOriginal(forms[o].row, forms[o].value)
    BY <1>7 DEF OtherSaves, Typed, PageTypeOK, CopiesAreOriginals, FormsAreOriginals
  <2>2. forms[o].row \in Rows
    BY <2>1 DEF Form
  <2> QED
    BY <1>3, <1>7, <2>1, <2>2 DEF OtherSaves
<1>8. ASSUME NEW i \in Ids, OtherRestores(i) PROVE Goal
  BY <1>2, <1>8 DEF OtherRestores
<1>9. CASE User \/ Answers
  BY <1>1, <1>9 DEF User, Answers, Reload, Select, ToggleAck, ClosePanel, ClickRestore, Submit,
                    Post, LoadEnds, SaveAnswered, RestoreAnswered
<1>10. CASE \E l \in Loads : ReadStates(l) \/ ReadCorrections(l)
  BY <1>1, <1>10 DEF ReadStates, ReadCorrections
<1>11. CASE \E o \in Others : \/ \E range \in SUBSET Rows : BulkReads(o, range)
                              \/ \E r \in Rows : OtherReads(o, r)
                              \/ OtherShows(o) \/ OtherLeaves(o)
  BY <1>1, <1>11 DEF BulkReads, OtherReads, OtherShows, OtherLeaves
<1>12. CASE UNCHANGED pageVars
  BY <1>1, <1>12 DEF pageVars
<1> QED
  BY <1>4, <1>5, <1>6, <1>7, <1>8, <1>9, <1>10, <1>11, <1>12 DEF PageNext, Server, OtherUsers

\* Old copies stay good: fewer readings have to hold what was recorded.
LEMMA StaysOriginal ==
  ASSUME recorded' = recorded, exposed \subseteq exposed',
         NEW r, NEW v, IsOriginal(r, v)
  PROVE  IsOriginal(r, v)'
  BY DEF IsOriginal

LEMMA CopiesStay ==
  ASSUME recorded' = recorded, exposed \subseteq exposed'
  PROVE  /\ ShowsOriginals(view) /\ view' = view => ShowsOriginals(view)'
         /\ AnswersAreOriginals /\ loads' = loads => AnswersAreOriginals'
         /\ PanelIsOriginal /\ selected' = selected => PanelIsOriginal'
         /\ SavesExpectOriginals /\ saves' = saves => SavesExpectOriginals'
         /\ FormsAreOriginals /\ forms' = forms => FormsAreOriginals'
  BY DEF ShowsOriginals, AnswersAreOriginals, PanelIsOriginal, SavesExpectOriginals,
         FormsAreOriginals, IsOriginal, FormShown

\* An answer that shows a reading as uncorrected shows what was recorded, or
\* exposes it.
LEMMA ReadCorrectionsOriginal ==
  ASSUME Typed, OriginalsHold, AnswersAreOriginals, recorded' = recorded,
         NEW l \in Loads, ReadCorrections(l)
  PROVE  AnswersAreOriginals'
<1>1. /\ DOMAIN loads = Loads /\ loads[l] \in Load /\ exposed \subseteq exposed'
      /\ loads[l].read \in [Rows -> Values]
  <2>1. loads[l] \in Load /\ loads[l].read # Nobody
    BY DEF ReadCorrections, Typed, PageTypeOK
  <2>2. loads[l].read \in [Rows -> Values]
    BY <2>1 DEF Load
  <2> QED
    BY <2>1, <2>2 DEF ReadCorrections, Typed, PageTypeOK
<1>2. PICK mark \in [Rows -> Mark] :
        /\ \A r \in Rows : mark[r] \in MarkOf(r)
        /\ loads' = [loads EXCEPT ![l].points =
                       [r \in Rows |-> [value |-> loads[l].read[r], correction |-> mark[r]]]]
  BY DEF ReadCorrections
<1> DEFINE points == [r \in Rows |-> [value |-> loads[l].read[r], correction |-> mark[r]]]
<1>3. loads'[l].points = points /\ \A k \in Loads \ {l} : loads'[k] = loads[k]
  BY <1>1, <1>2 DEF Load
<1>4. ASSUME NEW r \in Rows, FormShown(points[r]), r \notin exposed'
      PROVE  points[r].value = recorded[r]
  <2>1. mark[r] = None /\ points[r].value = loads[l].read[r]
    BY <1>4 DEF FormShown
  <2>2. r \notin Corrected
    BY <1>2, <2>1, UnmarkedIsUncorrected
  <2>3. loads[l].read[r] = states[r]
    BY <1>1, <1>4, <2>2 DEF ReadCorrections, Torn
  <2>4. r \notin exposed
    BY <1>1, <1>4
  <2> QED
    BY <2>1, <2>2, <2>3, <2>4 DEF OriginalsHold
<1> HIDE DEF points
<1> SUFFICES ASSUME NEW k \in Loads, loads'[k] # Nobody, loads'[k].points # Nobody,
                    NEW r \in Rows, FormShown(loads'[k].points[r]), r \notin exposed'
             PROVE  loads'[k].points[r].value = recorded'[r]
  BY DEF AnswersAreOriginals, ShowsOriginals, IsOriginal, FormShown
<1>5. CASE k = l
  BY <1>3, <1>4, <1>5
<1>6. CASE k # l
  BY <1>1, <1>3, <1>6 DEF AnswersAreOriginals, ShowsOriginals, IsOriginal
<1> QED
  BY <1>5, <1>6

LEMMA OtherShowsOriginal ==
  ASSUME Typed, OriginalsHold, FormsAreOriginals, recorded' = recorded,
         NEW o \in Others, OtherShows(o)
  PROVE  FormsAreOriginals'
<1>1. /\ DOMAIN forms = Others /\ forms[o] \in Form /\ exposed \subseteq exposed'
      /\ forms' = [forms EXCEPT ![o].shown = TRUE]
  BY DEF OtherShows, Typed, PageTypeOK
<1>2. forms[o].row \in Rows
  BY <1>1 DEF Form
<1>3. forms[o].row \notin Corrected
  <2>1. PICK mark \in MarkOf(forms[o].row) : FormShown([correction |-> mark])
    BY DEF OtherShows
  <2>2. mark = None
    BY <2>1 DEF FormShown
  <2> QED
    BY <1>2, <2>1, <2>2, UnmarkedIsUncorrected
<1>4. /\ forms'[o].row = forms[o].row /\ forms'[o].value = forms[o].value
      /\ \A p \in Others \ {o} : forms'[p] = forms[p]
  BY <1>1 DEF Form
<1>5. ASSUME forms[o].row \notin exposed' PROVE forms[o].value = recorded[forms[o].row]
  <2>1. forms[o].value = states[forms[o].row]
    BY <1>3, <1>5 DEF OtherShows, Torn
  <2> QED
    BY <1>1, <1>2, <1>3, <1>5, <2>1 DEF OriginalsHold
<1> SUFFICES ASSUME NEW p \in Others, forms'[p] # Nobody, forms'[p].shown,
                    forms'[p].row \notin exposed'
             PROVE  forms'[p].value = recorded'[forms'[p].row]
  BY DEF FormsAreOriginals, IsOriginal
<1>6. CASE p = o
  BY <1>4, <1>5, <1>6
<1>7. CASE p # o
  BY <1>1, <1>4, <1>7 DEF FormsAreOriginals, IsOriginal
<1> QED
  BY <1>6, <1>7

LEMMA GraphCopies ==
  ASSUME Typed, AnswersAreOriginals, ShowsOriginals(view), recorded' = recorded,
         exposed' = exposed, NEW l \in Loads,
         \/ \E ok \in BOOLEAN : LoadEnds(l, ok)
         \/ ReadStates(l)
         \/ \E then \in {"nothing", "save", "undo"} : StartLoad(then)
  PROVE  AnswersAreOriginals' /\ ShowsOriginals(view)'
<1>1. DOMAIN loads = Loads
  BY DEF Typed, PageTypeOK
<1>2. ASSUME NEW k \in Loads, NEW e, loads' = [loads EXCEPT ![k] = e],
             e # Nobody => e.points = Nobody
      PROVE  AnswersAreOriginals'
  BY <1>1, <1>2 DEF AnswersAreOriginals, ShowsOriginals, IsOriginal, FormShown
<1>3. CASE \E ok \in BOOLEAN : LoadEnds(l, ok)
  <2>1. AnswersAreOriginals'
    BY <1>2, <1>3 DEF LoadEnds
  <2>2. PICK ok \in BOOLEAN : LoadEnds(l, ok)
    BY <1>3
  <2>3. \/ view' = view
        \/ view' = loads[l].points /\ loads[l] # Nobody /\ loads[l].points # Nobody
    <3>1. CASE ok
      BY <2>2, <3>1 DEF LoadEnds
    <3>2. CASE ~ok
      BY <2>2, <3>2 DEF LoadEnds
    <3> QED
      BY <3>1, <3>2
  <2>4. ShowsOriginals(view')
    BY <2>3 DEF AnswersAreOriginals
  <2> QED
    BY <2>1, <2>4 DEF ShowsOriginals, IsOriginal, FormShown
<1>4. CASE ReadStates(l)
  <2>1. loads[l] \in Load /\ loads[l].read = Nobody
    BY <1>4 DEF ReadStates, Typed, PageTypeOK
  <2>2. /\ [loads[l] EXCEPT !.read = states].points = loads[l].points
        /\ loads' = [loads EXCEPT ![l] = [loads[l] EXCEPT !.read = states]]
    BY <1>4, <2>1 DEF ReadStates, Load
  <2>3. \A k \in Loads : loads'[k].points = loads[k].points /\ (loads[k] = Nobody => k # l)
    BY <1>1, <1>4, <2>2 DEF ReadStates
  <2>4. \A k \in Loads : loads'[k] # Nobody => loads[k] # Nobody
    BY <1>1, <1>4, <2>2 DEF ReadStates
  <2>5. AnswersAreOriginals'
    BY <2>3, <2>4 DEF AnswersAreOriginals, ShowsOriginals, IsOriginal, FormShown
  <2> QED
    BY <1>4, <2>5, CopiesStay DEF ReadStates
<1>5. CASE \E then \in {"nothing", "save", "undo"} : StartLoad(then)
  <2>1. AnswersAreOriginals'
    BY <1>2, <1>5 DEF StartLoad
  <2> QED
    BY <1>5, <2>1, CopiesStay DEF StartLoad
<1> QED
  BY <1>3, <1>4, <1>5

LEMMA UserCopies ==
  ASSUME OriginalInv, recorded' = recorded, User
  PROVE  CopiesAreOriginals'
<1> USE DEF OriginalInv, CopiesAreOriginals
<1>0. exposed' = exposed /\ forms' = forms
  BY DEF User, Reload, Select, ToggleAck, ClosePanel, ClickRestore, Submit, Post, others
<1>1. CASE Reload
  <2>1. UNCHANGED <<selected, saves, forms>> /\ StartLoad("nothing")
    BY <1>1 DEF Reload, panelVars, posts, others
  <2>2. PICK l \in Loads : TRUE
    BY <2>1 DEF StartLoad
  <2>3. AnswersAreOriginals' /\ ShowsOriginals(view)'
    BY <1>0, <2>1, <2>2, GraphCopies
  <2> QED
    BY <1>0, <2>1, <2>3, CopiesStay
<1>2. ASSUME NEW r \in Rows, Select(r) PROVE CopiesAreOriginals'
  <2>1. /\ UNCHANGED <<view, loads, saves, forms>>
        /\ selected' = [row |-> r, value |-> view[r].value, correction |-> view[r].correction]
    BY <1>2 DEF Select, graphVars, posts, others
  <2>2. PanelIsOriginal'
    BY <1>0, <2>1 DEF PanelIsOriginal, ShowsOriginals, IsOriginal, FormShown
  <2> QED
    BY <1>0, <2>1, <2>2, CopiesStay
<1>3. CASE ToggleAck \/ ClickRestore
  <2>1. UNCHANGED <<view, loads, selected, saves, forms>>
    BY <1>3 DEF ToggleAck, ClickRestore, graphVars, posts, others
  <2> QED
    BY <1>0, <2>1, CopiesStay
<1>4. CASE ClosePanel
  <2>1. UNCHANGED <<view, loads, saves, forms>> /\ selected' = Nobody
    BY <1>4 DEF ClosePanel, Hide, graphVars, posts, others
  <2> QED
    BY <1>0, <2>1, CopiesStay DEF PanelIsOriginal
<1>5. ASSUME NEW s \in Saves, NEW v \in Numeric, Submit(s, v) PROVE CopiesAreOriginals'
  <2>1. /\ UNCHANGED <<view, loads, selected, forms>>
        /\ selected # Nobody /\ FormShown(selected)
        /\ saves' = [saves EXCEPT ![s] = [row |-> selected.row, expected |-> selected.value,
                                          new |-> v, result |-> "sent"]]
    BY <1>5 DEF Submit, Post, graphVars, others
  <2>2. DOMAIN saves = Saves
    BY DEF Typed, PageTypeOK
  <2>3. SavesExpectOriginals'
    BY <1>0, <2>1, <2>2 DEF SavesExpectOriginals, PanelIsOriginal, IsOriginal
  <2> QED
    BY <1>0, <2>1, <2>3, CopiesStay
<1> QED
  BY <1>1, <1>2, <1>3, <1>4, <1>5 DEF User

LEMMA AnswersCopies ==
  ASSUME OriginalInv, recorded' = recorded, Answers
  PROVE  CopiesAreOriginals'
<1> USE DEF OriginalInv, CopiesAreOriginals
<1>0. exposed' = exposed /\ forms' = forms
  BY DEF Answers, LoadEnds, SaveAnswered, RestoreAnswered, others
<1>1. ASSUME NEW l \in Loads, NEW ok \in BOOLEAN, LoadEnds(l, ok) PROVE CopiesAreOriginals'
  <2>1. UNCHANGED <<selected, saves>>
    BY <1>1 DEF LoadEnds, posts
  <2>2. AnswersAreOriginals' /\ ShowsOriginals(view)'
    BY <1>0, <1>1, GraphCopies
  <2> QED
    BY <1>0, <2>1, <2>2, CopiesStay
<1>2. ASSUME NEW then \in {"nothing", "save", "undo"}, Hide, StartLoad(then)
      PROVE  AnswersAreOriginals' /\ ShowsOriginals(view)' /\ PanelIsOriginal'
  <2>1. PICK l \in Loads : TRUE
    BY <1>2 DEF StartLoad
  <2> QED
    BY <1>0, <1>2, <2>1, GraphCopies DEF Hide, PanelIsOriginal
<1>3. ASSUME UNCHANGED <<selected, graphVars>>
      PROVE  AnswersAreOriginals' /\ ShowsOriginals(view)' /\ PanelIsOriginal'
  BY <1>0, <1>3, CopiesStay DEF graphVars
<1>4. ASSUME NEW s \in Saves, SaveAnswered(s) PROVE CopiesAreOriginals'
  <2>1. saves' = [saves EXCEPT ![s] = Nobody] /\ DOMAIN saves = Saves
    BY <1>4 DEF SaveAnswered, Typed, PageTypeOK
  <2>2. SavesExpectOriginals'
    BY <1>0, <2>1 DEF SavesExpectOriginals, IsOriginal
  <2>3. AnswersAreOriginals' /\ ShowsOriginals(view)' /\ PanelIsOriginal'
    BY <1>2, <1>3, <1>4 DEF SaveAnswered
  <2> QED
    BY <1>0, <2>2, <2>3, CopiesStay
<1>5. CASE RestoreAnswered
  <2>1. AnswersAreOriginals' /\ ShowsOriginals(view)' /\ PanelIsOriginal'
    BY <1>2, <1>3, <1>5 DEF RestoreAnswered
  <2> QED
    BY <1>0, <1>5, <2>1, CopiesStay DEF RestoreAnswered
<1> QED
  BY <1>1, <1>4, <1>5 DEF Answers

LEMMA ServerCopies ==
  ASSUME OriginalInv, recorded' = recorded, exposed \subseteq exposed', Server
  PROVE  CopiesAreOriginals'
<1> USE DEF OriginalInv, CopiesAreOriginals
<1>1. ASSUME NEW l \in Loads, ReadStates(l) PROVE CopiesAreOriginals'
  <2>1. UNCHANGED <<selected, saves, forms, exposed>>
    BY <1>1 DEF ReadStates, panelVars, posts, others
  <2>2. AnswersAreOriginals' /\ ShowsOriginals(view)'
    BY <1>1, <2>1, GraphCopies
  <2> QED
    BY <2>1, <2>2, CopiesStay
<1>2. ASSUME NEW l \in Loads, ReadCorrections(l) PROVE CopiesAreOriginals'
  <2>1. UNCHANGED <<view, selected, saves, forms>>
    BY <1>2 DEF ReadCorrections, panelVars, posts, others
  <2> QED
    BY <1>2, <2>1, CopiesStay, ReadCorrectionsOriginal
<1>3. ASSUME NEW s \in Saves, ServerSaves(s) PROVE CopiesAreOriginals'
  <2>1. /\ UNCHANGED <<view, loads, selected, forms>> /\ saves[s] # Nobody
        /\ \E result \in {"ok", "error"} : saves' = [saves EXCEPT ![s].result = result]
    BY <1>3 DEF ServerSaves, graphVars, panelVars, others
  <2>2. saves[s] \in Save /\ DOMAIN saves = Saves
    BY <2>1 DEF Typed, PageTypeOK
  <2>3. saves'[s].row = saves[s].row /\ saves'[s].expected = saves[s].expected
    BY <2>1, <2>2 DEF Save
  <2>4. \A t \in Saves : saves'[t] # Nobody =>
          /\ saves[t] # Nobody
          /\ saves'[t].row = saves[t].row /\ saves'[t].expected = saves[t].expected
    BY <2>1, <2>2, <2>3
  <2>5. SavesExpectOriginals'
    BY <2>4 DEF SavesExpectOriginals, IsOriginal
  <2> QED
    BY <2>1, <2>5, CopiesStay
<1>4. CASE ServerRestores
  <2>1. UNCHANGED <<view, loads, selected, saves, forms>>
    BY <1>4 DEF ServerRestores, graphVars, panelVars, others
  <2> QED
    BY <2>1, CopiesStay
<1> QED
  BY <1>1, <1>2, <1>3, <1>4 DEF Server

LEMMA OthersCopies ==
  ASSUME OriginalInv, recorded' = recorded, exposed \subseteq exposed', OtherUsers
  PROVE  CopiesAreOriginals'
<1> USE DEF OriginalInv, CopiesAreOriginals
<1>1. UNCHANGED <<view, loads, selected, saves>>
  BY DEF OtherUsers, BulkReads, BulkWrites, OtherReads, OtherShows, OtherSaves, OtherLeaves,
         OtherRestores, graphVars, panelVars, posts
<1>2. DOMAIN forms = Others
  BY DEF Typed, PageTypeOK
<1>3. SUFFICES FormsAreOriginals'
  BY <1>1, CopiesStay
<1>4. CASE UNCHANGED forms
  BY <1>4, CopiesStay
<1>5. ASSUME NEW o \in Others, NEW r \in Rows, OtherReads(o, r) PROVE FormsAreOriginals'
  BY <1>2, <1>5 DEF OtherReads, FormsAreOriginals, IsOriginal
<1>6. ASSUME NEW o \in Others, OtherShows(o) PROVE FormsAreOriginals'
  BY <1>6, OtherShowsOriginal
<1>7. ASSUME NEW o \in Others, OtherLeaves(o) PROVE FormsAreOriginals'
  BY <1>2, <1>7 DEF OtherLeaves, FormsAreOriginals, IsOriginal
<1> QED
  BY <1>4, <1>5, <1>6, <1>7
     DEF OtherUsers, BulkReads, BulkWrites, OtherSaves, OtherRestores, others

LEMMA CopiesNext ==
  ASSUME OriginalInv, [PageNext]_pageVars
  PROVE  CopiesAreOriginals'
<1>1. recorded' = recorded /\ exposed \subseteq exposed'
  BY ServerOriginal, ExposedGrows
<1>2. CASE UNCHANGED pageVars
  BY <1>1, <1>2, CopiesStay
     DEF OriginalInv, CopiesAreOriginals, pageVars, graphVars, panelVars, posts, others
<1> QED
  BY <1>1, <1>2, UserCopies, AnswersCopies, ServerCopies, OthersCopies DEF PageNext

(***************************************************************************)
(* With any number of pages, bulk corrections, readings and requests in    *)
(* flight, an active correction has taken another correction's value for   *)
(* the original only of a reading that was exposed: shown on a torn read,  *)
(* or corrected while a bulk correction was about to.                      *)
(***************************************************************************)
THEOREM OriginalsAreKept == PageSpec => []OriginalIsKept
<1>1. OriginalInv /\ [PageNext]_pageVars => OriginalInv'
  BY NextTyped, ServerOriginal, CopiesNext DEF OriginalInv
<1>2. OriginalInv => OriginalIsKept
  BY DEF OriginalInv
<1> QED
  BY <1>1, <1>2, InitOriginal, PTL DEF PageSpec

=============================================================================
