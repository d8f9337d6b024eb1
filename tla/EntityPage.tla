---------------------------- MODULE EntityPage ----------------------------
(***************************************************************************)
(* The page of one entity: a graph, and a panel to correct or restore the  *)
(* reading selected on it.  Every handler runs to its first await without  *)
(* interruption; between a request and its answer the user goes on         *)
(* clicking, other requests are answered, and other pages of the add-on    *)
(* correct, restore and fill ranges.  The server is the ledger: each POST  *)
(* is one of its steps, or is refused.                                     *)
(*                                                                         *)
(* Rows are the readings of the entity; what a page knows of one is its    *)
(* value and the active correction it belongs to.  Which window of time    *)
(* the graph shows is left out: all its readings are in every window.      *)
(***************************************************************************)
EXTENDS CorrectionLedger

CONSTANTS IsCounter, \* HR_IS_COUNTER, which the page is rendered with
          Loads,     \* loads that may be in flight at once
          Saves,     \* saves that may be in flight at once
          Others,    \* what else the users do at once: a form on another
                     \* page, a bulk correction
          Nobody     \* no reading, no request

VARIABLES
  view,         \* points: the readings as the last answer had them
  overlay,      \* chartLoading is shown
  loads,        \* [Loads -> a load in flight or Nobody]
  selected,     \* the point in the panel; Nobody while the panel is hidden
  ack,          \* cascadeAck is ticked
  saveEnabled,  \* fields.save
  undoEnabled,  \* fields.restore
  saves,        \* [Saves -> a POST api/corrections in flight or Nobody]
  undo,         \* the POST .../restore in flight, if any
  forms,        \* [Others -> a reading as another page has read it]
  bulks,        \* [Others -> the readings a bulk correction is to change]
  ackFor,       \* history: the reading that was shown when the user ticked
  exposed       \* history: readings shown, or filled, on a torn read

server == <<states, audit, recorded, foreign>>
graphVars == <<view, overlay, loads>>
panelVars == <<selected, ack, saveEnabled, undoEnabled, ackFor>>
posts == <<saves, undo>>
others == <<forms, bulks>>
pageVars == <<server, graphVars, panelVars, posts, others, exposed>>

None == 0
Mark == Ids \cup {None}
Points == [Rows -> [value: Values, correction: Mark]]
Point == [row: Rows, value: Values, correction: Mark]
Load == [then: {"nothing", "save", "undo"},
         read: [Rows -> Values] \cup {Nobody}, points: Points \cup {Nobody}]
Save == [row: Rows, expected: Values, new: Numeric, result: {"sent", "ok", "error"}]
Undo == [id: Ids, result: {"sent", "ok", "error"}]
Form == [row: Rows, value: Values, shown: BOOLEAN]

ASSUME IsCounterAssumption == IsCounter \in BOOLEAN
ASSUME NobodyAssumption ==
  Nobody \notin Point \cup Load \cup [Rows -> Values] \cup Points \cup Save \cup Undo \cup Form

PageTypeOK ==
  /\ view \in Points
  /\ overlay \in BOOLEAN
  /\ loads \in [Loads -> Load \cup {Nobody}]
  /\ selected \in Point \cup {Nobody}
  /\ ack \in BOOLEAN
  /\ saveEnabled \in BOOLEAN /\ undoEnabled \in BOOLEAN
  /\ saves \in [Saves -> Save \cup {Nobody}]
  /\ undo \in Undo \cup {Nobody}
  /\ forms \in [Others -> Form \cup {Nobody}]
  /\ bulks \in [Others -> SUBSET Rows]
  /\ ackFor \in Rows \cup {Nobody}
  /\ exposed \subseteq Rows

\* The first load has been answered and nothing has been clicked.
PageInit ==
  /\ Init
  /\ view = [r \in Rows |-> [value |-> states[r], correction |-> None]]
  /\ overlay = FALSE
  /\ loads = [l \in Loads |-> Nobody]
  /\ selected = Nobody /\ ack = FALSE /\ saveEnabled = FALSE
  /\ undoEnabled = TRUE
  /\ saves = [s \in Saves |-> Nobody]
  /\ undo = Nobody
  /\ forms = [o \in Others |-> Nobody] /\ bulks = [o \in Others |-> {}]
  /\ ackFor = Nobody /\ exposed = {}

-----------------------------------------------------------------------------
(* What the server answers when asked for readings.                        *)

\* The active corrections of a reading; a row that has several is marked with
\* whichever is read last.
Marks(r) == {i \in Ids : Active(i) /\ audit[i].row = r}

Corrected == {r \in Rows : Marks(r) # {}}

MarkOf(r) == IF r \in Corrected THEN Marks(r) ELSE {None}

\* fetch_states reads the values in one statement and the corrections in a
\* second one, on PostgreSQL and SQLite of two moments (MariaDB's share a
\* snapshot).  A correction restored in between leaves its value without its
\* mark.
Torn(read) == {r \in DOMAIN read \ Corrected : read[r] # states[r]}

-----------------------------------------------------------------------------
(* The graph.                                                              *)

\* load() up to its await; what follows it is done at its end.
StartLoad(then) ==
  /\ \E l \in Loads :
       /\ loads[l] = Nobody
       /\ loads' = [loads EXCEPT ![l] = [then |-> then, read |-> Nobody, points |-> Nobody]]
  /\ overlay' = TRUE
  /\ UNCHANGED view

\* Another range, another window, or the slider 200 ms after its last input;
\* the slider does not look at the overlay.
Reload ==
  /\ StartLoad("nothing")
  /\ UNCHANGED <<server, panelVars, posts, others, exposed>>

ReadStates(l) ==
  /\ loads[l] # Nobody /\ loads[l].read = Nobody
  /\ loads' = [loads EXCEPT ![l].read = states]
  /\ UNCHANGED <<server, view, overlay, panelVars, posts, others, exposed>>

ReadCorrections(l) ==
  /\ loads[l] # Nobody /\ loads[l].read # Nobody /\ loads[l].points = Nobody
  /\ \E mark \in [Rows -> Mark] :
       /\ \A r \in Rows : mark[r] \in MarkOf(r)
       /\ loads' = [loads EXCEPT ![l].points =
                      [r \in Rows |-> [value |-> loads[l].read[r], correction |-> mark[r]]]]
  /\ exposed' = exposed \cup Torn(loads[l].read)
  /\ UNCHANGED <<server, view, overlay, panelVars, posts, others>>

\* The answer to load l arrives; its finally clause, and then that of the
\* handler that waited for it.
LoadEnds(l, ok) ==
  /\ loads[l] # Nobody
  /\ IF ok THEN loads[l].points # Nobody /\ view' = loads[l].points ELSE UNCHANGED view
  /\ loads' = [loads EXCEPT ![l] = Nobody]
  /\ overlay' = FALSE
  /\ saveEnabled' = (saveEnabled \/ (selected # Nobody /\ loads[l].then = "save"))
  /\ undoEnabled' = (undoEnabled \/ loads[l].then = "undo")
  /\ UNCHANGED <<server, selected, ack, ackFor, posts, others, exposed>>

-----------------------------------------------------------------------------
(* The panel.                                                              *)

\* Mutant: a corrected reading may be corrected again.
AnyPoint(p) == TRUE

\* !fields.form.hidden: a corrected reading has to be restored first.
FormShown(p) == p.correction = None

\* select: a click on a point, which the overlay keeps from the graph.  For a
\* counter it also asks for the scope of the cascade, which is only shown.
Select(r) ==
  LET p == [row |-> r, value |-> view[r].value, correction |-> view[r].correction]
  IN /\ ~overlay
     /\ selected' = p
     /\ ack' = FALSE
     /\ saveEnabled' = ~(IsCounter /\ FormShown(p))
     /\ UNCHANGED <<server, graphVars, undoEnabled, ackFor, posts, others, exposed>>

\* The checkbox: syncCascadeGate enables Save with it.
ToggleAck ==
  /\ selected # Nobody /\ IsCounter /\ FormShown(selected)
  /\ ack' = ~ack
  /\ saveEnabled' = ~ack
  /\ ackFor' = IF ack THEN Nobody ELSE selected.row
  /\ UNCHANGED <<server, graphVars, selected, undoEnabled, posts, others, exposed>>

\* panel.hidden = true.  What its fields still hold does not matter any more:
\* they cannot be used before select sets all of them.
Hide == selected' = Nobody /\ ack' = FALSE /\ saveEnabled' = FALSE

ClosePanel ==
  /\ selected # Nobody
  /\ Hide
  /\ UNCHANGED <<server, graphVars, undoEnabled, ackFor, posts, others, exposed>>

Post(s, v) ==
  /\ saves[s] = Nobody
  /\ saves' = [saves EXCEPT ![s] = [row |-> selected.row, expected |-> selected.value,
                                    new |-> v, result |-> "sent"]]
  /\ saveEnabled' = FALSE
  /\ UNCHANGED <<server, graphVars, selected, ack, undoEnabled, ackFor, undo, others, exposed>>

\* Mutant: the handler leaves the gate to the button.
SubmitByButton(s, v) ==
  /\ selected # Nobody /\ FormShown(selected)
  /\ saveEnabled
  /\ Post(s, v)

\* The form is submitted, by its button or by the Enter key, which a disabled
\* button need not block.
Submit(s, v) ==
  /\ selected # Nobody /\ FormShown(selected)
  /\ IsCounter => ack
  /\ Post(s, v)

\* The POST's answer: the panel is closed, whatever it now shows, and the graph
\* loaded again; after a failure the button is enabled at once.
SaveAnswered(s) ==
  /\ saves[s] # Nobody
  /\ saves' = [saves EXCEPT ![s] = Nobody]
  /\ \/ /\ saves[s].result = "ok"
        /\ Hide
        /\ StartLoad("save")
     \/ /\ saves[s].result = "error"
        /\ saveEnabled' = (selected # Nobody)
        /\ UNCHANGED <<selected, ack, graphVars>>
  /\ UNCHANGED <<server, undoEnabled, ackFor, undo, others, exposed>>

\* Mutant: it is not looked at whether the reading is corrected.
ClickRestoreAnyway ==
  /\ selected # Nobody /\ undoEnabled
  /\ undo = Nobody
  /\ undo' = [id |-> selected.correction, result |-> "sent"]
  /\ undoEnabled' = FALSE
  /\ UNCHANGED <<server, graphVars, selected, ack, saveEnabled, ackFor, saves, others, exposed>>

ClickRestore ==
  /\ selected # Nobody /\ undoEnabled
  /\ selected.correction # None
  /\ undo = Nobody
  /\ undo' = [id |-> selected.correction, result |-> "sent"]
  /\ undoEnabled' = FALSE
  /\ UNCHANGED <<server, graphVars, selected, ack, saveEnabled, ackFor, saves, others, exposed>>

RestoreAnswered ==
  /\ undo # Nobody
  /\ undo' = Nobody
  /\ \/ /\ undo.result = "ok"
        /\ Hide
        /\ StartLoad("undo")
        /\ UNCHANGED undoEnabled
     \/ /\ undo.result = "error"
        /\ undoEnabled' = TRUE
        /\ UNCHANGED <<selected, ack, saveEnabled, graphVars>>
  /\ UNCHANGED <<server, ackFor, saves, others, exposed>>

-----------------------------------------------------------------------------
(* The server's transactions.                                              *)

\* Some rows are corrected, under the next ids.
Repair(rows, new) ==
  \E D \in SUBSET Unused :
    /\ D # {} /\ Cardinality(D) = Cardinality(rows)
    /\ \A i \in D, j \in Unused \ D : i < j
    /\ \E at \in Injections(D, rows) : Correct(D, at, [i \in D |-> new[at[i]]])

\* The POST is refused, or committed; of a commit the page may still be told
\* that it failed (StatisticsCache).
ServerSaves(s) ==
  /\ saves[s] # Nobody /\ saves[s].result = "sent"
  /\ \E result \in {"ok", "error"} :
       /\ saves' = [saves EXCEPT ![s].result = result]
       /\ \/ /\ states[saves[s].row] = saves[s].expected
             /\ Repair({saves[s].row}, [r \in {saves[s].row} |-> saves[s].new])
          \/ result = "error" /\ UNCHANGED server
  /\ UNCHANGED <<graphVars, panelVars, undo, others, exposed>>

ServerRestores ==
  /\ undo # Nobody /\ undo.result = "sent"
  /\ \E result \in {"ok", "error"} :
       /\ undo' = [undo EXCEPT !.result = result]
       /\ \/ Restore(undo.id)
          \/ result = "error" /\ UNCHANGED server
  /\ UNCHANGED <<graphVars, panelVars, saves, others, exposed>>

-----------------------------------------------------------------------------
(* The other users, and this one's bulk corrections.                       *)

Idle(o) == forms[o] = Nobody /\ bulks[o] = {}

\* A bulk correction reads its range and leaves the corrected readings out
\* (SQLite holds its write lock from here on).
BulkReads(o, range) ==
  /\ Idle(o)
  /\ bulks' = [bulks EXCEPT ![o] = range \ Corrected]
  /\ UNCHANGED <<server, graphVars, panelVars, posts, forms, exposed>>

\* ... and writes them, as they are by then, or fails.  What was corrected in
\* between is corrected again.
BulkWrites(o) ==
  /\ bulks[o] # {}
  /\ bulks' = [bulks EXCEPT ![o] = {}]
  /\ \/ /\ \E new \in [bulks[o] -> Numeric] : Repair(bulks[o], new)
        /\ exposed' = exposed \cup (bulks[o] \cap Corrected)
     \/ UNCHANGED <<server, exposed>>
  /\ UNCHANGED <<graphVars, panelVars, posts, forms>>

\* Another page loads a reading as this page does ...
OtherReads(o, r) ==
  /\ Idle(o)
  /\ forms' = [forms EXCEPT ![o] = [row |-> r, value |-> states[r], shown |-> FALSE]]
  /\ UNCHANGED <<server, graphVars, panelVars, posts, bulks, exposed>>

\* ... and shows the form for it, unless it is marked as corrected.
OtherShows(o) ==
  /\ forms[o] # Nobody /\ ~forms[o].shown
  /\ \E mark \in MarkOf(forms[o].row) : FormShown([correction |-> mark])
  /\ forms' = [forms EXCEPT ![o].shown = TRUE]
  /\ exposed' = exposed \cup Torn([r \in {forms[o].row} |-> forms[o].value])
  /\ UNCHANGED <<server, graphVars, panelVars, posts, bulks>>

\* Its user saves it later, expecting what is shown; a page that was told of a
\* failure goes on showing it.
OtherSaves(o, v) ==
  /\ forms[o] # Nobody /\ forms[o].shown
  /\ states[forms[o].row] = forms[o].value
  /\ Repair({forms[o].row}, [r \in {forms[o].row} |-> v])
  /\ UNCHANGED <<graphVars, panelVars, posts, others, exposed>>

OtherLeaves(o) ==
  /\ forms[o] # Nobody
  /\ forms' = [forms EXCEPT ![o] = Nobody]
  /\ UNCHANGED <<server, graphVars, panelVars, posts, bulks, exposed>>

\* A restore from another page, of any correction it lists.
OtherRestores(i) ==
  /\ Restore(i)
  /\ UNCHANGED <<graphVars, panelVars, posts, others, exposed>>

-----------------------------------------------------------------------------
User ==
  \/ Reload
  \/ \E r \in Rows : Select(r)
  \/ ToggleAck \/ ClosePanel \/ ClickRestore
  \/ \E s \in Saves, v \in Numeric : Submit(s, v)

Answers ==
  \/ \E l \in Loads : LoadEnds(l, TRUE) \/ LoadEnds(l, FALSE)
  \/ \E s \in Saves : SaveAnswered(s)
  \/ RestoreAnswered

Server ==
  \/ \E l \in Loads : ReadStates(l) \/ ReadCorrections(l)
  \/ \E s \in Saves : ServerSaves(s)
  \/ ServerRestores

OtherUsers ==
  \/ \E o \in Others :
       \/ \E range \in SUBSET Rows : BulkReads(o, range)
       \/ BulkWrites(o)
       \/ \E r \in Rows : OtherReads(o, r)
       \/ OtherShows(o)
       \/ \E v \in Numeric : OtherSaves(o, v)
       \/ OtherLeaves(o)
  \/ \E i \in Ids : OtherRestores(i)

PageNext == User \/ Answers \/ Server \/ OtherUsers

PageSpec == PageInit /\ [][PageNext]_pageVars

-----------------------------------------------------------------------------
(***************************************************************************)
(* entity.js:430, "the cascade scope being seen and acknowledged before a  *)
(* counter correction proceeds is a hard requirement": although the end of *)
(* an earlier save enables the button for whatever reading is shown by     *)
(* then, a correction is only ever sent for the reading in the panel, and, *)
(* for a counter, one the user acknowledged while it was that very         *)
(* reading.  (That the scope was seen does not hold: README, section 4.)   *)
(***************************************************************************)
SentAsAcknowledged ==
  [][\A s \in Saves : saves[s] = Nobody /\ saves'[s] # Nobody =>
       /\ selected # Nobody /\ saves'[s].row = selected.row
       /\ IsCounter => ackFor = selected.row]_pageVars

(***************************************************************************)
(* entity.js:387, re-correcting "would otherwise record the previous       *)
(* correction as the original value and lose the real one": with stale     *)
(* panels, saves sent twice, answers that say a commit failed and other    *)
(* pages at work, every active correction still holds what the recorder    *)
(* wrote, except of a reading that a torn read showed, or that was         *)
(* corrected while a bulk correction was about to.                         *)
(***************************************************************************)
OriginalIsKept ==
  \A i \in Ids : Active(i) /\ audit[i].row \notin exposed
                   => audit[i].orig = recorded[audit[i].row]

(***************************************************************************)
(* The same without the exception, as entity.js:387 has it.  The code does *)
(* not keep it (README, section 4); added to page.cfg, it is violated.     *)
(***************************************************************************)
OriginalIsNeverLost ==
  \A i \in Ids : Active(i) => audit[i].orig = recorded[audit[i].row]

=============================================================================
