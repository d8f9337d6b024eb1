----------------------- MODULE StatisticsCache_proofs -----------------------
(***************************************************************************)
(* The statistics cache, for any number of threads, hours and requests.    *)
(***************************************************************************)
EXTENDS StatisticsCache, FiniteSetTheorems, TLAPS

(***************************************************************************)
(* The requests still to be decided fit under the bound on their number:   *)
(* what makes every commit number a member of Contents.                    *)
(***************************************************************************)
Bounded == commits + Cardinality(Committing) <= MaxRequests

PcSteps == {"idle", "commit", "collect", "fetch", "connect", "handshake", "send", "await"}

LEMMA PcType == TypeOK => pc \in [Threads -> PcSteps]
  BY DEF TypeOK, PcSteps

LEMMA CommittingFinite ==
  IsFiniteSet(Committing) /\ Cardinality(Committing) \in Nat
  BY ThreadsAssumption, FS_Subset, FS_CardinalityType DEF Committing

(***************************************************************************)
(* A thread that leaves "commit" makes room for one commit.                *)
(***************************************************************************)
LEMMA LeaveCommit ==
  ASSUME NEW t \in Threads, NEW l, l # "commit", pc \in [Threads -> PcSteps],
         pc[t] = "commit", Goto(t, l)
  PROVE  Cardinality(Committing') = Cardinality(Committing) - 1
                                    /\ Cardinality(Committing') \in Nat
<1>1. Committing' = Committing \ {t} /\ t \in Committing
  BY DEF Goto, Committing
<1> QED
  BY <1>1, CommittingFinite, FS_RemoveElement, FS_CardinalityType

LEMMA EnterCommit ==
  ASSUME NEW t \in Threads, pc \in [Threads -> PcSteps],
         pc[t] # "commit", Goto(t, "commit")
  PROVE  Cardinality(Committing') = Cardinality(Committing) + 1
<1>1. Committing' = Committing \cup {t} /\ t \notin Committing
  BY DEF Goto, Committing
<1> QED
  BY <1>1, CommittingFinite, FS_AddElement

LEMMA StayOutOfCommit ==
  ASSUME NEW t \in Threads, NEW l, l # "commit", pc \in [Threads -> PcSteps],
         pc[t] # "commit", Goto(t, l)
  PROVE  Committing' = Committing
  BY DEF Goto, Committing

-----------------------------------------------------------------------------
(***************************************************************************)
(* Every variable keeps to its type, and the requests to their bound.      *)
(***************************************************************************)
Typed == TypeOK /\ Bounded

LEMMA RewrittenType ==
  ASSUME NEW S, NEW table \in [Hours -> S], NEW q, NEW n \in S
  PROVE  Rewritten(table, q, n) \in [Hours -> S]
  BY DEF Rewritten

LEMMA InitTyped == Init => Typed
<1> SUFFICES ASSUME Init PROVE Typed
  OBVIOUS
<1>1. 0 \in Contents
  BY MaxRequestsAssumption DEF Contents
<1>2. <<>> \in Seq(Commands)
  OBVIOUS
<1>3. TypeOK
  BY <1>1, <1>2 DEF Init, TypeOK, Rows
<1>4. Committing = {}
  BY DEF Init, Committing
<1> QED
  BY <1>3, <1>4, FS_EmptySet, MaxRequestsAssumption DEF Typed, Bounded, Init

\* A thread that is free again, with nothing in its hands.
LEMMA RespondTyped ==
  ASSUME TypeOK, Bounded, NEW t \in Threads, NEW a \in {"done", "error"}, Respond(t, a),
         UNCHANGED <<client, hasSum, hourly, home, newest, commits, overtaken>>
  PROVE  Typed'
<1>1. TypeOK'
  BY DEF TypeOK, Respond, Goto, home
<1>2. CASE pc[t] = "commit"
  <2>1. Cardinality(Committing') = Cardinality(Committing) - 1
    BY <1>2, LeaveCommit, PcType DEF Respond
  <2> QED
    BY <1>1, <2>1, CommittingFinite, MaxRequestsAssumption DEF Typed, Bounded, TypeOK, Contents
<1>3. CASE pc[t] # "commit"
  <2>1. Committing' = Committing
    BY <1>3, StayOutOfCommit, PcType DEF Respond
  <2> QED
    BY <1>1, <2>1 DEF Typed, Bounded
<1> QED
  BY <1>2, <1>3

LEMMA SubmitTyped ==
  ASSUME TypeOK, Bounded, NEW t \in Threads, Submit(t)
  PROVE  Typed'
<1>1. TypeOK'
  BY MaxRequestsAssumption DEF TypeOK, Submit, Goto, home, Contents
<1>2. Cardinality(Committing') = Cardinality(Committing) + 1
  BY EnterCommit, PcType DEF Submit
<1>3. commits + Cardinality(Committing) < MaxRequests
  BY DEF Submit
<1> QED
  BY <1>1, <1>2, <1>3, CommittingFinite, MaxRequestsAssumption
     DEF Typed, Bounded, Submit, TypeOK, Contents

LEMMA CommitTyped ==
  ASSUME TypeOK, Bounded, NEW t \in Threads, Commit(t)
  PROVE  Typed'
<1>1. PICK l \in {"idle", "collect"} : Goto(t, l)
  BY DEF Commit
<1>2. Cardinality(Committing') = Cardinality(Committing) - 1 /\ Cardinality(Committing') \in Nat
  BY <1>1, LeaveCommit, PcType DEF Commit
<1>3. commits + 1 \in Contents /\ commits + 1 # 0
  BY <1>2, CommittingFinite, MaxRequestsAssumption DEF Bounded, TypeOK, Contents
<1>4. /\ hourly' \in [Hours -> Rows \cup {NoRow}]
      /\ newest' \in [Hours -> Contents \cup {NoRow}]
  <2>1. /\ commits + 1 \in Rows \cup {NoRow} /\ commits + 1 \in Contents \cup {NoRow}
        /\ hourly' = Rewritten(hourly, job[t], commits + 1)
        /\ newest' = Rewritten(newest, job[t], commits + 1)
        /\ hourly \in [Hours -> Rows \cup {NoRow}] /\ newest \in [Hours -> Contents \cup {NoRow}]
    BY <1>3 DEF Commit, TypeOK, Rows
  <2> QED
    BY <2>1, RewrittenType
<1>5. /\ pc' \in [Threads -> PcSteps] /\ pc'[t] = l
      /\ \A u \in Threads \ {t} : pc'[u] = pc[u]
  BY <1>1 DEF TypeOK, Goto, PcSteps
<1>6. /\ pc[t] = "commit" /\ job[t] \in Requests
      /\ job'[t] = IF l = "idle" THEN NoJob ELSE job[t]
      /\ job' \in [Threads -> Requests \cup {NoJob}]
      /\ \A u \in Threads \ {t} : job'[u] = job[u]
  BY <1>1, <1>5 DEF TypeOK, Commit, Goto
<1>7. /\ \A u \in Threads : pc'[u] \in {"commit", "collect"} => job'[u] \in Requests
      /\ \A u \in Threads : pc'[u] \in {"connect", "handshake", "send", "await"}
                               => copy'[u] \in Copies
      /\ \A u \in Threads : pc'[u] \notin {"idle", "commit"} => mark'[u] # 0
  BY <1>1, <1>3, <1>5, <1>6 DEF TypeOK, Commit
<1>8. /\ UNCHANGED <<client, hasSum, memory, commands, imports, todo, copy, inbox, late, accepted>>
      /\ mark' \in [Threads -> Contents] /\ commits' \in Contents
  BY <1>3 DEF TypeOK, Commit, home
<1>9. /\ overtaken' \subseteq Hours
       /\ answer' \in [Threads -> {"none", "done", "error"}]
  <2>1. job[t].touched \in SUBSET Hours
    BY <1>6 DEF Requests
  <2> QED
    BY <2>1 DEF TypeOK, Commit
<1>10. TypeOK'
  BY <1>4, <1>5, <1>6, <1>7, <1>8, <1>9 DEF TypeOK, PcSteps
<1> QED
  BY <1>2, <1>10, CommittingFinite, MaxRequestsAssumption
     DEF Typed, Bounded, Commit, TypeOK, Contents

LEMMA CollectTyped ==
  ASSUME TypeOK, Bounded, NEW t \in Threads, Collect(t)
  PROVE  Typed'
<1>1. HoursOf(job[t]) \in SUBSET Hours
  BY DEF HoursOf, Requests, TypeOK, Collect
<1>2. TypeOK'
  BY <1>1 DEF TypeOK, Collect, Goto, home
<1>3. Committing' = Committing
  BY StayOutOfCommit, PcType DEF Collect
<1> QED
  BY <1>2, <1>3 DEF Typed, Bounded, Collect

LEMMA FetchTyped ==
  ASSUME TypeOK, Bounded, NEW t \in Threads, Fetch(t)
  PROVE  Typed'
<1> USE DEF TypeOK
<1>1. PICK h \in todo[t] :
        \/ todo' = [todo EXCEPT ![t] = @ \ {h}] /\ UNCHANGED <<pc, copy>>
        \/ /\ hourly[h] # NoRow
           /\ copy' = [copy EXCEPT ![t] = [hour |-> h, row |-> HandedOver(hourly[h])]]
           /\ Goto(t, "connect") /\ UNCHANGED todo
  BY DEF Fetch
<1>2. h \in Hours /\ (hourly[h] # NoRow => [hour |-> h, row |-> HandedOver(hourly[h])] \in Copies)
  BY DEF Copies, HandedOver, Rows
<1>3. Committing' = Committing
  BY <1>1, StayOutOfCommit, PcType DEF Fetch, Committing
<1>4. CASE todo' = [todo EXCEPT ![t] = @ \ {h}] /\ UNCHANGED <<pc, copy>>
  BY <1>3, <1>4 DEF Fetch, home, Typed, Bounded
<1>5. CASE /\ hourly[h] # NoRow
           /\ copy' = [copy EXCEPT ![t] = [hour |-> h, row |-> HandedOver(hourly[h])]]
           /\ Goto(t, "connect") /\ UNCHANGED todo
  <2>1. /\ copy' \in [Threads -> Copies \cup {NoCopy}] /\ copy'[t] \in Copies
        /\ \A u \in Threads \ {t} : copy'[u] = copy[u]
    BY <1>2, <1>5
  <2>2. /\ pc' \in [Threads -> PcSteps] /\ pc[t] = "fetch" /\ pc'[t] = "connect"
        /\ \A u \in Threads \ {t} : pc'[u] = pc[u]
    BY <1>5 DEF Goto, Fetch, PcSteps
  <2> QED
    BY <1>3, <1>5, <2>1, <2>2 DEF Fetch, home, Typed, Bounded, PcSteps
<1> QED
  BY <1>1, <1>4, <1>5

LEMMA AdvanceTyped ==
  ASSUME TypeOK, Bounded, NEW t \in Threads, Connect(t) \/ Authenticate(t)
  PROVE  Typed'
<1>1. TypeOK'
  BY DEF TypeOK, Connect, Authenticate, Advance, Goto, home
<1>2. Committing' = Committing
  BY StayOutOfCommit, PcType DEF Connect, Authenticate, Advance
<1> QED
  BY <1>1, <1>2 DEF Typed, Bounded, Connect, Authenticate, Advance

LEMMA NextHourTyped ==
  ASSUME TypeOK, Bounded, NEW t \in Threads, NEW took \in BOOLEAN,
         pc[t] \in {"connect", "handshake", "send", "await"}, NextHour(t, took)
  PROVE  Typed'
<1>1. copy[t].hour \in Hours
  BY DEF TypeOK, Copies
<1>2. TypeOK'
  BY <1>1 DEF TypeOK, NextHour, Goto, home
<1>3. Committing' = Committing
  BY StayOutOfCommit, PcType DEF NextHour
<1> QED
  BY <1>2, <1>3 DEF Typed, Bounded, NextHour

LEMMA SendTyped ==
  ASSUME TypeOK, Bounded, NEW t \in Threads, Send(t)
  PROVE  Typed'
<1>0. /\ pc[t] = "send"
      /\ copy[t] \in Copies /\ mark[t] \in Contents /\ mark[t] # 0
  BY DEF TypeOK, Send
<1>1. [mark |-> mark[t], hour |-> copy[t].hour, row |-> copy[t].row] \in Commands
  BY <1>0, MaxRequestsAssumption DEF Copies, Commands, Contents
<1>2. commands' \subseteq Commands
  BY <1>1 DEF TypeOK, Send
<1>3. /\ pc' \in [Threads -> {"idle", "commit", "collect", "fetch", "connect",
                             "handshake", "send", "await"}]
      /\ \A u \in Threads \ {t} : pc'[u] = pc[u]
      /\ pc[t] = "send" /\ pc'[t] = "await"
  BY DEF TypeOK, Send, Goto
<1>4. TypeOK'
  BY <1>2, <1>3 DEF TypeOK, Send
<1>5. Committing' = Committing
  BY StayOutOfCommit, PcType DEF Send
<1> QED
  BY <1>4, <1>5 DEF Typed, Bounded, Send

LEMMA ReceiveTyped ==
  ASSUME TypeOK, Bounded, NEW t \in Threads, Receive(t)
  PROVE  Typed'
<1>1. ASSUME NEW took \in BOOLEAN, NextHour(t, took) PROVE Typed'
  BY <1>1, NextHourTyped DEF Receive
<1>2. ASSUME inbox' = [inbox EXCEPT ![t] = "nothing"],
             UNCHANGED <<client, hasSum, hourly, home, pc, job, todo, copy, late, accepted,
                         answer, mark, newest, commits, overtaken>>
      PROVE  Typed'
  BY <1>2 DEF Typed, TypeOK, Bounded, Committing, home
<1> QED
  BY <1>1, <1>2 DEF Receive

\* What happens in Home Assistant and on the wire leaves the threads where they are.
LEMMA HomeTyped ==
  ASSUME TypeOK, Bounded,
         HomeAssistant \/ \E t \in Threads : DeadlinePasses(t)
  PROVE  Typed'
<1> USE DEF TypeOK
<1>1. ASSUME NEW c \in commands, NEW m \in {"success", "error"}, Reply(c, m)
      PROVE  inbox' \in [Threads -> {"nothing", "event", "success", "error"}]
  BY <1>1 DEF Reply
<1>2. CASE \E c \in commands : Accept(c)
  <2> PICK c \in commands : Accept(c)
    BY <1>2
  <2>1. c \in Commands /\ Append(imports, c) \in Seq(Commands)
    OBVIOUS
  <2> QED
    BY <2>1, <1>1 DEF Accept, Typed, Bounded, Committing
<1>3. CASE \E c \in commands : Reject(c)
  BY <1>3, <1>1 DEF Reject, Typed, Bounded, Committing
<1>4. CASE \E t \in Threads : Event(t)
  BY <1>4 DEF Event, Typed, Bounded, Committing, home
<1>5. CASE \E t \in Threads : DeadlinePasses(t)
  BY <1>5 DEF DeadlinePasses, Typed, Bounded, Committing, home
<1>6. CASE Import
  <2>1. Head(imports) \in Commands /\ Tail(imports) \in Seq(Commands)
    BY <1>6 DEF Import
  <2>2. Head(imports).hour \in Hours /\ Head(imports).row \in Rows
    BY <2>1 DEF Commands
  <2> QED
    BY <1>6, <2>1, <2>2 DEF Import, Typed, Bounded, Committing, web
<1>7. CASE Restart
  BY <1>7 DEF Restart, Typed, Bounded, Committing, web
<1> QED
  BY <1>2, <1>3, <1>4, <1>5, <1>6, <1>7 DEF HomeAssistant

LEMMA NextTyped == Typed /\ [Next]_vars => Typed'
<1> SUFFICES ASSUME TypeOK, Bounded, [Next]_vars PROVE Typed'
  BY DEF Typed
<1>1. ASSUME NEW t \in Threads, Submit(t) PROVE Typed'
  BY <1>1, SubmitTyped
<1>2. ASSUME NEW t \in Threads, Refused(t) PROVE Typed'
  BY <1>2, RespondTyped DEF Refused
<1>3. ASSUME NEW t \in Threads, Commit(t) PROVE Typed'
  BY <1>3, CommitTyped
<1>4. ASSUME NEW t \in Threads, Collect(t) PROVE Typed'
  BY <1>4, CollectTyped
<1>5. ASSUME NEW t \in Threads, ReadFails(t) PROVE Typed'
  BY <1>5, RespondTyped DEF ReadFails
<1>6. ASSUME NEW t \in Threads, Fetch(t) PROVE Typed'
  BY <1>6, FetchTyped
<1>7. ASSUME NEW t \in Threads, Finish(t) PROVE Typed'
  BY <1>7, RespondTyped DEF Finish
<1>8. ASSUME NEW t \in Threads, Connect(t) \/ Authenticate(t) PROVE Typed'
  BY <1>8, AdvanceTyped
<1>9. ASSUME NEW t \in Threads, HandshakeRaises(t) PROVE Typed'
  BY <1>9, RespondTyped DEF HandshakeRaises
<1>10. ASSUME NEW t \in Threads, ApiError(t) PROVE Typed'
  BY <1>10, NextHourTyped DEF ApiError
<1>11. ASSUME NEW t \in Threads, Send(t) PROVE Typed'
  BY <1>11, SendTyped
<1>12. ASSUME NEW t \in Threads, Receive(t) PROVE Typed'
  BY <1>12, ReceiveTyped
<1>13. CASE HomeAssistant \/ \E t \in Threads : DeadlinePasses(t)
  BY <1>13, HomeTyped
<1>14. CASE UNCHANGED vars
  BY <1>14 DEF vars, web, home, Typed, TypeOK, Bounded, Committing
<1> QED
  BY <1>1, <1>2, <1>3, <1>4, <1>5, <1>6, <1>7, <1>8, <1>9, <1>10, <1>11, <1>12, <1>13, <1>14
     DEF Next, Serve

(***************************************************************************)
(* Type correctness, the commit numbers included.                          *)
(***************************************************************************)
THEOREM TypeCorrect == Spec => []TypeOK
<1>1. Spec => []Typed
  BY InitTyped, NextTyped, PTL DEF Spec
<1>2. Typed => TypeOK
  BY DEF Typed
<1> QED
  BY <1>1, <1>2, PTL

-----------------------------------------------------------------------------
(***************************************************************************)
(* DatabaseKeepsNewest is not inductive: an import writes whatever row was *)
(* handed over.  What is inductive is that every row on its way, in the    *)
(* hands of a thread, in a command, or in the queue of imports, is blank   *)
(* for a counter, and for a measurement the newest of an hour that was not *)
(* overtaken.                                                              *)
(***************************************************************************)
Holding == {"connect", "handshake", "send", "await"}

Newest(h, row) == IF hasSum THEN row = Blank ELSE h \notin overtaken => row = newest[h]

HeldOnlyWhileRefreshing ==
  \A t \in Threads : copy[t] # NoCopy => pc[t] \in Holding

RowsOnTheirWay ==
  /\ \A t \in Threads : copy[t] # NoCopy => Newest(copy[t].hour, copy[t].row)
  /\ \A c \in commands : Newest(c.hour, c.row)
  /\ \A i \in DOMAIN imports : Newest(imports[i].hour, imports[i].row)

FreshInv ==
  /\ Typed
  /\ HeldOnlyWhileRefreshing
  /\ RowsOnTheirWay
  /\ DatabaseKeepsNewest

LEMMA CopyHeld ==
  ASSUME Typed, NEW t \in Threads, pc[t] \in Holding
  PROVE  copy[t] # NoCopy /\ copy[t] \in Copies
  BY NoCopyAssumption DEF Typed, TypeOK, Holding

LEMMA InitFresh == Init => FreshInv
<1> SUFFICES ASSUME Init PROVE FreshInv
  OBVIOUS
<1>1. Typed
  BY InitTyped
<1> QED
  BY <1>1 DEF Init, FreshInv, HeldOnlyWhileRefreshing, RowsOnTheirWay, DatabaseKeepsNewest

\* The commit is where an older row can be overtaken: CopyOut finds every one.
LEMMA CommitFresh ==
  ASSUME FreshInv, Typed', NEW t \in Threads, Commit(t)
  PROVE  FreshInv'
<1> USE DEF FreshInv
<1>1. /\ pc[t] = "commit" /\ pc'[t] \notin Holding
      /\ \A u \in Threads \ {t} : pc'[u] = pc[u]
      /\ UNCHANGED <<hasSum, copy, commands, imports>>
  BY DEF Commit, Goto, Typed, TypeOK, Holding, home
<1>2. copy[t] = NoCopy
  BY <1>1 DEF HeldOnlyWhileRefreshing, Holding
<1>3. HeldOnlyWhileRefreshing'
  BY <1>1, <1>2 DEF HeldOnlyWhileRefreshing
<1>4. ASSUME NEW h \in Hours, h \notin overtaken', CopyOut(t, h)
      PROVE  newest'[h] = newest[h] /\ h \notin overtaken
  BY <1>4 DEF Commit, Rewritten
<1>5. RowsOnTheirWay'
  <2>1. ASSUME NEW u \in Threads, copy[u] # NoCopy
        PROVE  Newest(copy[u].hour, copy[u].row)'
    <3>1. copy[u].hour \in Hours
      BY <2>1 DEF HeldOnlyWhileRefreshing, Holding, Typed, TypeOK, Copies
    <3>2. CopyOut(t, copy[u].hour)
      BY <2>1, <1>2 DEF CopyOut
    <3> QED
      BY <2>1, <3>1, <3>2, <1>1, <1>4 DEF RowsOnTheirWay, Newest
  <2>2. ASSUME NEW c \in commands
        PROVE  Newest(c.hour, c.row)'
    <3>1. c.hour \in Hours
      BY DEF Typed, TypeOK, Commands
    <3>2. CopyOut(t, c.hour)
      BY DEF CopyOut
    <3> QED
      BY <3>1, <3>2, <1>1, <1>4 DEF RowsOnTheirWay, Newest
  <2>3. ASSUME NEW i \in DOMAIN imports
        PROVE  Newest(imports[i].hour, imports[i].row)'
    <3>0. imports[i] \in Commands
      BY DEF Typed, TypeOK
    <3>1. imports[i].hour \in Hours
      BY <3>0 DEF Commands
    <3>2. CopyOut(t, imports[i].hour)
      BY Zenon DEF CopyOut
    <3> QED
      BY <3>1, <3>2, <1>1, <1>4 DEF RowsOnTheirWay, Newest
  <2> QED
    BY <2>1, <2>2, <2>3, <1>1 DEF RowsOnTheirWay
<1>6. DatabaseKeepsNewest'
  BY DEF DatabaseKeepsNewest, Commit, Rewritten
<1> QED
  BY <1>3, <1>5, <1>6

LEMMA FetchFresh ==
  ASSUME FreshInv, Typed', NEW t \in Threads, Fetch(t)
  PROVE  FreshInv'
<1> USE DEF FreshInv
<1>0. UNCHANGED <<hasSum, commands, imports, hourly, newest, overtaken>> /\ pc[t] = "fetch"
  BY DEF Fetch, home
<1>1. CASE UNCHANGED <<pc, copy>>
  BY <1>0, <1>1 DEF HeldOnlyWhileRefreshing, RowsOnTheirWay, Newest, DatabaseKeepsNewest
<1>2. CASE /\ Goto(t, "connect")
           /\ \E h \in todo[t] :
                copy' = [copy EXCEPT ![t] = [hour |-> h, row |-> HandedOver(hourly[h])]]
  <2> PICK h \in todo[t] :
             copy' = [copy EXCEPT ![t] = [hour |-> h, row |-> HandedOver(hourly[h])]]
    BY <1>2
  <2>1. h \in Hours /\ copy'[t].hour = h /\ copy'[t].row = HandedOver(hourly[h])
    BY DEF Typed, TypeOK
  <2>2. \A u \in Threads \ {t} : copy'[u] = copy[u] /\ pc'[u] = pc[u]
    BY <1>2 DEF Goto, Typed, TypeOK
  <2>3. pc'[t] \in Holding
    BY <1>2 DEF Goto, Typed, TypeOK, Holding
  <2>4. Newest(h, copy[t].row)'
    BY <2>1, <1>0 DEF DatabaseKeepsNewest, Newest, HandedOver
  <2>5. HeldOnlyWhileRefreshing'
    BY <2>2, <2>3 DEF HeldOnlyWhileRefreshing
  <2>6. \A u \in Threads : copy'[u] # NoCopy => Newest(copy[u].hour, copy[u].row)'
    BY <1>0, <2>1, <2>2, <2>4 DEF RowsOnTheirWay, Newest
  <2> QED
    BY <1>0, <2>5, <2>6 DEF RowsOnTheirWay, Newest, DatabaseKeepsNewest
<1> QED
  BY <1>1, <1>2 DEF Fetch

LEMMA SendFresh ==
  ASSUME FreshInv, Typed', NEW t \in Threads, Send(t)
  PROVE  FreshInv'
<1> USE DEF FreshInv
<1>1. pc[t] \in Holding /\ pc'[t] \in Holding /\ \A u \in Threads \ {t} : pc'[u] = pc[u]
  BY DEF Send, Goto, Typed, TypeOK, Holding
<1>2. UNCHANGED <<hasSum, copy, imports, hourly, newest, overtaken>>
  BY DEF Send
<1>3. \A c \in commands' \ commands : c.hour = copy[t].hour /\ c.row = copy[t].row
  BY DEF Send
<1>4. Newest(copy[t].hour, copy[t].row)
  BY <1>1, CopyHeld DEF RowsOnTheirWay
<1>5. RowsOnTheirWay'
  BY <1>2, <1>3, <1>4 DEF RowsOnTheirWay, Newest
<1> QED
  BY <1>1, <1>2, <1>5 DEF HeldOnlyWhileRefreshing, DatabaseKeepsNewest

\* Steps of a thread that write no row, and at most drop the one in hand.
LEMMA ThreadFresh ==
  ASSUME FreshInv, Typed', NEW t \in Threads,
         UNCHANGED <<hasSum, hourly, commands, imports, newest, overtaken>>,
         \A u \in Threads \ {t} : pc'[u] = pc[u] /\ copy'[u] = copy[u],
         (copy'[t] # NoCopy => copy'[t] = copy[t] /\ (pc[t] \in Holding => pc'[t] \in Holding))
  PROVE  FreshInv'
<1> USE DEF FreshInv
<1>1. HeldOnlyWhileRefreshing'
  BY DEF HeldOnlyWhileRefreshing
<1>2. \A u \in Threads : copy'[u] # NoCopy => Newest(copy[u].hour, copy[u].row)'
  BY DEF RowsOnTheirWay, Newest
<1>3. RowsOnTheirWay'
  BY <1>2 DEF RowsOnTheirWay, Newest
<1> QED
  BY <1>1, <1>3 DEF DatabaseKeepsNewest

LEMMA HomeFresh ==
  ASSUME FreshInv, Typed', HomeAssistant
  PROVE  FreshInv'
<1> USE DEF FreshInv
<1>1. UNCHANGED <<hasSum, pc, copy, newest, overtaken>> /\ HeldOnlyWhileRefreshing'
  BY DEF HomeAssistant, Accept, Reject, Event, Import, Restart, web, HeldOnlyWhileRefreshing
<1>2. CASE \E c \in commands : Accept(c)
  <2> PICK c \in commands : Accept(c)
    BY <1>2
  <2>1. imports' = Append(imports, c) /\ commands' \subseteq commands /\ hourly' = hourly
    BY DEF Accept
  <2>2. c \in Commands /\ imports \in Seq(Commands)
    BY DEF Typed, TypeOK
  <2>3. ASSUME NEW i \in DOMAIN imports'
        PROVE  imports'[i] # c => i \in DOMAIN imports /\ imports'[i] = imports[i]
    <3>1. imports' \in Seq(Commands) /\ i \in 1..(Len(imports) + 1) /\ Len(imports) \in Nat
      BY <2>1, <2>2
    <3>2. CASE i = Len(imports) + 1
      BY <2>1, <2>2, <3>2
    <3>3. CASE i # Len(imports) + 1
      BY <2>1, <2>2, <3>1, <3>3
    <3> QED
      BY <3>2, <3>3
  <2> QED
    BY <1>1, <2>1, <2>3 DEF RowsOnTheirWay, Newest, DatabaseKeepsNewest
<1>3. CASE \E c \in commands : Reject(c)
  BY <1>1, <1>3 DEF Reject, RowsOnTheirWay, Newest, DatabaseKeepsNewest
<1>4. CASE \E t \in Threads : Event(t)
  BY <1>1, <1>4 DEF Event, home, RowsOnTheirWay, Newest, DatabaseKeepsNewest
<1>5. CASE Import
  <2>1. imports \in Seq(Commands) /\ imports # <<>>
    BY <1>5 DEF Import, Typed, TypeOK
  <2>2. \A i \in DOMAIN Tail(imports) : Tail(imports)[i] = imports[i + 1] /\ i + 1 \in DOMAIN imports
    BY <2>1
  <2>3. 1 \in DOMAIN imports /\ Head(imports) = imports[1]
    BY <2>1
  <2>4. RowsOnTheirWay'
    BY <1>1, <1>5, <2>2 DEF Import, RowsOnTheirWay, Newest
  <2>5. Newest(Head(imports).hour, Head(imports).row)
    BY <2>3 DEF RowsOnTheirWay
  <2>6. DatabaseKeepsNewest'
    BY <1>1, <1>5, <2>5 DEF Import, DatabaseKeepsNewest, Newest, Typed, TypeOK
  <2> QED
    BY <1>1, <2>4, <2>6
<1>6. CASE Restart
  BY <1>1, <1>6 DEF Restart, RowsOnTheirWay, Newest, DatabaseKeepsNewest
<1> QED
  BY <1>2, <1>3, <1>4, <1>5, <1>6 DEF HomeAssistant

LEMMA NextFresh == FreshInv /\ [Next]_vars => FreshInv'
<1> SUFFICES ASSUME FreshInv, [Next]_vars PROVE FreshInv'
  OBVIOUS
<1>0. Typed /\ Typed'
  BY NextTyped DEF FreshInv
<1>a. /\ pc \in [Threads -> PcSteps] /\ DOMAIN copy = Threads
  BY <1>0, PcType DEF Typed, TypeOK
<1>1. ASSUME NEW t \in Threads, Submit(t) PROVE FreshInv'
  BY <1>0, <1>a, <1>1, ThreadFresh DEF Submit, Goto, home, Holding
<1>2. ASSUME NEW t \in Threads, NEW a, Respond(t, a),
             UNCHANGED <<hasSum, hourly, home, newest, overtaken>>
      PROVE  FreshInv'
  <2>1. /\ \A u \in Threads \ {t} : pc'[u] = pc[u] /\ copy'[u] = copy[u]
        /\ copy'[t] = NoCopy
    BY <1>a, <1>2 DEF Respond, Goto
  <2>2. UNCHANGED <<hasSum, hourly, commands, imports, newest, overtaken>>
    BY <1>2 DEF home
  <2>3. /\ \A u \in Threads \ {t} : pc'[u] = pc[u] /\ copy'[u] = copy[u]
        /\ (copy'[t] # NoCopy => copy'[t] = copy[t] /\ (pc[t] \in Holding => pc'[t] \in Holding))
    BY <2>1, Zenon
  <2> QED
    BY <1>0, <2>2, <2>3, ThreadFresh, Zenon
<1>3. ASSUME NEW t \in Threads, Commit(t) PROVE FreshInv'
  BY <1>0, <1>3, CommitFresh
<1>4. ASSUME NEW t \in Threads, Collect(t) PROVE FreshInv'
  BY <1>0, <1>a, <1>4, ThreadFresh DEF Collect, Goto, home, Holding
<1>5. ASSUME NEW t \in Threads, Fetch(t) PROVE FreshInv'
  BY <1>0, <1>5, FetchFresh
<1>6. ASSUME NEW t \in Threads, Connect(t) \/ Authenticate(t) PROVE FreshInv'
  BY <1>0, <1>a, <1>6, ThreadFresh DEF Connect, Authenticate, Advance, Goto, home, Holding
<1>7. ASSUME NEW t \in Threads, NEW took, NextHour(t, took) PROVE FreshInv'
  <2>1. /\ \A u \in Threads \ {t} : pc'[u] = pc[u] /\ copy'[u] = copy[u]
        /\ copy'[t] = NoCopy
    BY <1>a, <1>7 DEF NextHour, Goto
  <2>2. UNCHANGED <<hasSum, hourly, commands, imports, newest, overtaken>>
    BY <1>7 DEF NextHour, home
  <2>3. /\ \A u \in Threads \ {t} : pc'[u] = pc[u] /\ copy'[u] = copy[u]
        /\ (copy'[t] # NoCopy => copy'[t] = copy[t] /\ (pc[t] \in Holding => pc'[t] \in Holding))
    BY <2>1, Zenon
  <2> QED
    BY <1>0, <2>2, <2>3, ThreadFresh, Zenon
<1>8. ASSUME NEW t \in Threads, Send(t) PROVE FreshInv'
  BY <1>0, <1>8, SendFresh
<1>9. ASSUME NEW t \in Threads,
             UNCHANGED <<hasSum, hourly, home, pc, copy, newest, overtaken>>
      PROVE  FreshInv'
  BY <1>0, <1>9, ThreadFresh DEF home
<1>10. ASSUME NEW t \in Threads, Receive(t) PROVE FreshInv'
  BY <1>7, <1>9, <1>10 DEF Receive
<1>11. ASSUME NEW t \in Threads, DeadlinePasses(t) PROVE FreshInv'
  BY <1>9, <1>11 DEF DeadlinePasses
<1>12. CASE HomeAssistant
  BY <1>0, <1>12, HomeFresh
<1>13. CASE UNCHANGED vars
  BY <1>0, <1>13 DEF vars, web, home, FreshInv, HeldOnlyWhileRefreshing, RowsOnTheirWay,
                     Newest, DatabaseKeepsNewest
<1> QED
  BY <1>1, <1>2, <1>3, <1>4, <1>5, <1>6, <1>7, <1>8, <1>10, <1>11, <1>12, <1>13
     DEF Next, Serve, Refused, ReadFails, Finish, HandshakeRaises, ApiError

(***************************************************************************)
(* However many threads hand rows over and however late Home Assistant     *)
(* performs its imports: an hour of a measurement keeps what its last      *)
(* commit wrote, if no older row was on its way to it then, and an hour of *)
(* a counter never goes back to an older total, though it may be emptied.  *)
(***************************************************************************)
THEOREM DatabaseIsKept == Spec => []DatabaseKeepsNewest
<1>1. Spec => []FreshInv
  BY InitFresh, NextFresh, PTL DEF Spec
<1>2. FreshInv => DatabaseKeepsNewest
  BY DEF FreshInv
<1> QED
  BY <1>1, <1>2, PTL

-----------------------------------------------------------------------------
(***************************************************************************)
(* RefreshedIsRendered speaks of the end; along the way an hour reported   *)
(* as refreshed is either rendered already or still queued in Home         *)
(* Assistant, and so is one whose success is waiting in a thread's socket. *)
(***************************************************************************)
Queued(h) == \E i \in DOMAIN imports : imports[i].hour = h

\* Home Assistant has taken, from thread t, the row that is the newest of h.
Taken(t, h) ==
  \/ h \in accepted[t] /\ mark[t] = newest[h]
  \/ pc[t] = "await" /\ inbox[t] = "success" /\ copy[t].hour = h

MarksArePast ==
  \A t \in Threads : mark[t] <= commits /\ (pc[t] = "commit" => accepted[t] = {})

InboxIsOfTheCommand ==
  \A t \in Threads : pc[t] # "await" => inbox[t] = "nothing"

TakenIsRendered ==
  ~hasSum =>
    \A h \in Hours \ overtaken, t \in Threads :
      Taken(t, h) => memory[h] = newest[h] \/ Queued(h)

RenderInv == FreshInv /\ MarksArePast /\ InboxIsOfTheCommand /\ TakenIsRendered

LEMMA InitRender == Init => RenderInv
<1> SUFFICES ASSUME Init PROVE RenderInv
  OBVIOUS
<1>1. FreshInv
  BY InitFresh
<1> QED
  BY <1>1 DEF Init, RenderInv, MarksArePast, InboxIsOfTheCommand, TakenIsRendered, Taken

\* Steps that leave the tables and Home Assistant alone, and make no thread
\* take an hour it had not taken.
LEMMA QuietRender ==
  ASSUME RenderInv, FreshInv', MarksArePast', InboxIsOfTheCommand',
         UNCHANGED <<hasSum, memory, imports, newest, overtaken>>,
         \A t \in Threads, h \in Hours : Taken(t, h)' => Taken(t, h)
  PROVE  RenderInv'
  BY DEF RenderInv, TakenIsRendered, Queued

LEMMA MarksNext == Typed /\ MarksArePast /\ [Next]_vars => MarksArePast'
<1> SUFFICES ASSUME TypeOK, MarksArePast, [Next]_vars PROVE MarksArePast'
  BY DEF Typed
<1>0. /\ commits \in Nat /\ \A t \in Threads : mark[t] \in Nat
      /\ DOMAIN mark = Threads /\ DOMAIN pc = Threads /\ DOMAIN accepted = Threads
      /\ pc \in [Threads -> PcSteps]
  BY MaxRequestsAssumption, PcType DEF TypeOK, Contents
<1>1. ASSUME NEW t \in Threads, Submit(t) PROVE MarksArePast'
  BY <1>0, <1>1 DEF Submit, Goto, MarksArePast
<1>2. ASSUME NEW t \in Threads, Commit(t) PROVE MarksArePast'
  BY <1>0, <1>2 DEF Commit, Goto, MarksArePast
<1>3. ASSUME NEW t \in Threads, NEW l \in PcSteps \ {"commit"}, Goto(t, l),
             UNCHANGED <<mark, commits>>,
             \A u \in Threads \ {t} : accepted'[u] = accepted[u]
      PROVE  MarksArePast'
  BY <1>0, <1>3 DEF Goto, MarksArePast
<1>4. ASSUME UNCHANGED <<pc, mark, commits, accepted>> PROVE MarksArePast'
  BY <1>4 DEF MarksArePast
<1>5. ASSUME NEW t \in Threads, NEW a, Respond(t, a), commits' = commits PROVE MarksArePast'
  BY <1>3, <1>5 DEF Respond, PcSteps
<1>6. ASSUME NEW t \in Threads, NEW took, NextHour(t, took) PROVE MarksArePast'
  BY <1>0, <1>3, <1>6 DEF NextHour, PcSteps
<1>7. ASSUME NEW t \in Threads,
             Refused(t) \/ ReadFails(t) \/ Finish(t) \/ HandshakeRaises(t)
      PROVE  MarksArePast'
  BY <1>5, <1>7 DEF Refused, ReadFails, Finish, HandshakeRaises
<1>8. ASSUME NEW t \in Threads, Collect(t) \/ Connect(t) \/ Authenticate(t) \/ Send(t)
      PROVE  MarksArePast'
  BY <1>3, <1>8 DEF Collect, Connect, Authenticate, Advance, Send, PcSteps
<1>9. ASSUME NEW t \in Threads, Fetch(t) PROVE MarksArePast'
  BY <1>3, <1>4, <1>9 DEF Fetch, PcSteps
<1>10. ASSUME NEW t \in Threads, ApiError(t) \/ Receive(t) \/ DeadlinePasses(t)
       PROVE  MarksArePast'
  BY <1>4, <1>6, <1>10 DEF ApiError, Receive, DeadlinePasses
<1>11. CASE HomeAssistant
  BY <1>4, <1>11 DEF HomeAssistant, Accept, Reject, Event, Import, Restart, web
<1>12. CASE UNCHANGED vars
  BY <1>4, <1>12 DEF vars, web
<1> QED
  BY <1>1, <1>2, <1>7, <1>8, <1>9, <1>10, <1>11, <1>12 DEF Next, Serve

LEMMA InboxNext == Typed /\ InboxIsOfTheCommand /\ [Next]_vars => InboxIsOfTheCommand'
<1> SUFFICES ASSUME TypeOK, InboxIsOfTheCommand, [Next]_vars PROVE InboxIsOfTheCommand'
  BY DEF Typed
<1>0. pc \in [Threads -> PcSteps] /\ DOMAIN inbox = Threads
  BY PcType DEF TypeOK
<1>1. ASSUME NEW t \in Threads, NEW l, Goto(t, l), pc[t] # "await",
             inbox' = inbox \/ inbox' = [inbox EXCEPT ![t] = "nothing"]
      PROVE  InboxIsOfTheCommand'
  BY <1>0, <1>1 DEF Goto, InboxIsOfTheCommand
<1>2. ASSUME NEW t \in Threads, NEW l, Goto(t, l), inbox' = [inbox EXCEPT ![t] = "nothing"]
      PROVE  InboxIsOfTheCommand'
  BY <1>0, <1>2 DEF Goto, InboxIsOfTheCommand
<1>3. ASSUME UNCHANGED pc,
             \A t \in Threads : pc[t] # "await" => inbox'[t] = inbox[t]
      PROVE  InboxIsOfTheCommand'
  BY <1>3 DEF InboxIsOfTheCommand
<1>4. ASSUME NEW t \in Threads, NEW a, Respond(t, a) PROVE InboxIsOfTheCommand'
  BY <1>2, <1>4 DEF Respond
<1>5. ASSUME NEW t \in Threads, NEW took, NextHour(t, took) PROVE InboxIsOfTheCommand'
  BY <1>2, <1>5 DEF NextHour
<1>6. ASSUME NEW t \in Threads,
             Refused(t) \/ ReadFails(t) \/ Finish(t) \/ HandshakeRaises(t)
      PROVE  InboxIsOfTheCommand'
  BY <1>4, <1>6 DEF Refused, ReadFails, Finish, HandshakeRaises
<1>7. ASSUME NEW t \in Threads,
             \/ Submit(t) \/ Commit(t) \/ Collect(t) \/ Connect(t) \/ Authenticate(t)
             \/ Send(t)
      PROVE  InboxIsOfTheCommand'
  BY <1>1, <1>7 DEF Submit, Commit, Collect, Connect, Authenticate, Advance, Send
<1>8. ASSUME NEW t \in Threads, Fetch(t) PROVE InboxIsOfTheCommand'
  BY <1>1, <1>3, <1>8 DEF Fetch
<1>9. ASSUME NEW t \in Threads, ApiError(t) PROVE InboxIsOfTheCommand'
  BY <1>5, <1>9 DEF ApiError
<1>10. ASSUME NEW t \in Threads, Receive(t) \/ DeadlinePasses(t) \/ Event(t)
       PROVE  InboxIsOfTheCommand'
  BY <1>0, <1>3, <1>5, <1>10 DEF Receive, DeadlinePasses, Event
<1>11. CASE HomeAssistant
  <2>1. ASSUME NEW c, NEW m, Reply(c, m), UNCHANGED pc PROVE InboxIsOfTheCommand'
    BY <1>3, <2>1 DEF Reply
  <2> QED
    BY <1>3, <1>10, <1>11, <2>1 DEF HomeAssistant, Accept, Reject, Import, Restart, web
<1>12. CASE UNCHANGED vars
  BY <1>3, <1>12 DEF vars, web
<1> QED
  BY <1>6, <1>7, <1>8, <1>9, <1>10, <1>11, <1>12 DEF Next, Serve

\* What the other threads have taken, they have taken from older commits.
LEMMA CommitRender ==
  ASSUME RenderInv, Typed, NEW t \in Threads, Commit(t)
  PROVE  TakenIsRendered'
<1> SUFFICES ASSUME ~hasSum', NEW h \in Hours, h \notin overtaken', NEW u \in Threads,
                    Taken(u, h)'
             PROVE  memory'[h] = newest'[h] \/ Queued(h)'
  BY DEF TakenIsRendered
<1>0. /\ UNCHANGED <<hasSum, memory, imports, copy, inbox, accepted>>
      /\ overtaken' = overtaken \cup {k \in job[t].touched : CopyOut(t, k)}
      /\ pc[t] = "commit" /\ pc'[t] # "await" /\ accepted[t] = {}
      /\ \A v \in Threads \ {t} : pc'[v] = pc[v] /\ mark'[v] = mark[v]
  BY DEF Commit, Goto, home, RenderInv, MarksArePast, Typed, TypeOK
<1>1. u # t
  BY <1>0 DEF Taken
<1>2. newest'[h] = newest[h] \/ (h \in job[t].touched /\ newest'[h] = commits + 1)
  BY DEF Commit, Rewritten
<1>3. CASE h \in accepted[u] /\ mark'[u] = newest'[h]
  <2>1. mark[u] \in Nat /\ commits \in Nat /\ mark[u] <= commits
    BY MaxRequestsAssumption DEF RenderInv, MarksArePast, Typed, TypeOK, Contents
  <2>2. newest'[h] = newest[h]
    BY <1>0, <1>1, <1>2, <1>3, <2>1
  <2> QED
    BY <1>0, <1>1, <1>3, <2>2 DEF RenderInv, TakenIsRendered, Taken, Queued
<1>4. CASE pc[u] = "await" /\ inbox[u] = "success" /\ copy[u].hour = h
  <2>1. copy[u] # NoCopy
    BY <1>4, CopyHeld DEF Holding
  <2>2. CopyOut(t, h)
    BY <1>1, <1>4, <2>1 DEF CopyOut
  <2>3. newest'[h] = newest[h]
    BY <1>0, <1>2, <2>2
  <2> QED
    BY <1>0, <1>4, <2>3 DEF RenderInv, TakenIsRendered, Taken, Queued
<1> QED
  BY <1>0, <1>1, <1>3, <1>4 DEF Taken

LEMMA HomeRender ==
  ASSUME RenderInv, FreshInv', HomeAssistant
  PROVE  TakenIsRendered'
<1> SUFFICES ASSUME ~hasSum', NEW h \in Hours, h \notin overtaken', NEW u \in Threads,
                    Taken(u, h)'
             PROVE  memory'[h] = newest'[h] \/ Queued(h)'
  BY DEF TakenIsRendered
<1>0. /\ UNCHANGED <<hasSum, pc, copy, accepted, mark, newest, overtaken>>
      /\ Typed /\ imports \in Seq(Commands)
  BY DEF HomeAssistant, Accept, Reject, Event, Import, Restart, web, RenderInv, FreshInv,
         Typed, TypeOK
<1>1. Taken(u, h) => memory[h] = newest[h] \/ Queued(h)
  BY <1>0 DEF RenderInv, TakenIsRendered
<1>2. CASE \E c \in commands : Accept(c)
  <2> PICK c \in commands : Accept(c)
    BY <1>2
  <2>1. /\ c \in Commands /\ imports' = Append(imports, c) /\ memory' = memory
        /\ Reply(c, "success")
    BY <1>0 DEF Accept, Typed, TypeOK
  <2>2. /\ \A i \in DOMAIN imports : i \in DOMAIN imports' /\ imports'[i] = imports[i]
        /\ Len(imports) + 1 \in DOMAIN imports' /\ imports'[Len(imports) + 1] = c
    BY <1>0, <2>1
  <2>3. Queued(h) => Queued(h)'
    BY <2>2 DEF Queued
  <2>4. CASE c.hour = h
    BY <2>2, <2>4 DEF Queued
  <2>5. CASE c.hour # h
    <3>1. Taken(u, h)
      BY <1>0, <2>1, <2>5 DEF Taken, Reply
    <3> QED
      BY <1>0, <1>1, <2>1, <2>3, <3>1
  <2> QED
    BY <2>4, <2>5
<1>3. CASE (\E c \in commands : Reject(c)) \/ (\E t \in Threads : Event(t))
  <2>1. UNCHANGED <<memory, imports>>
    BY <1>3 DEF Reject, Event, home
  <2>2. inbox'[u] = "success" => inbox[u] = "success"
    BY <1>0, <1>3 DEF Reject, Reply, Event, Typed, TypeOK
  <2> QED
    BY <1>0, <1>1, <2>1, <2>2 DEF Taken, Queued
<1>4. CASE Import
  <2>1. /\ imports # <<>> /\ imports' = Tail(imports) /\ inbox' = inbox
        /\ memory' = [memory EXCEPT ![Head(imports).hour] = Head(imports).row]
        /\ DOMAIN memory = Hours
    BY <1>0, <1>4 DEF Import, web, Typed, TypeOK
  <2>2. 1 \in DOMAIN imports /\ Head(imports) = imports[1]
    BY <1>0, <2>1
  <2>3. CASE Head(imports).hour = h
    BY <1>0, <2>1, <2>2, <2>3 DEF RenderInv, FreshInv, RowsOnTheirWay, Newest
  <2>4. CASE Head(imports).hour # h
    <3>1. memory'[h] = memory[h]
      BY <2>1, <2>4
    <3>2. ASSUME NEW i \in DOMAIN imports, imports[i].hour = h
          PROVE  i - 1 \in DOMAIN imports' /\ imports'[i - 1] = imports[i]
      BY <1>0, <2>1, <2>2, <2>4, <3>2
    <3>3. Queued(h) => Queued(h)'
      BY <3>2 DEF Queued
    <3> QED
      BY <1>0, <1>1, <2>1, <3>1, <3>3 DEF Taken
  <2> QED
    BY <2>3, <2>4
<1>5. CASE Restart
  BY <1>0, <1>5 DEF Restart, RenderInv, FreshInv, DatabaseKeepsNewest
<1> QED
  BY <1>2, <1>3, <1>4, <1>5 DEF HomeAssistant

LEMMA NextRender == RenderInv /\ [Next]_vars => RenderInv'
<1> SUFFICES ASSUME RenderInv, [Next]_vars PROVE RenderInv'
  OBVIOUS
<1>0. /\ Typed /\ TypeOK /\ FreshInv' /\ MarksArePast' /\ InboxIsOfTheCommand'
      /\ pc \in [Threads -> PcSteps]
  BY NextFresh, MarksNext, InboxNext, PcType DEF RenderInv, FreshInv, Typed
<1>a. /\ DOMAIN accepted = Threads /\ DOMAIN mark = Threads /\ DOMAIN inbox = Threads
      /\ DOMAIN copy = Threads
  BY <1>0 DEF TypeOK
<1>1. ASSUME NEW t \in Threads, NEW l, l # "await", Goto(t, l),
             UNCHANGED <<hasSum, memory, imports, newest, overtaken>>,
             \A u \in Threads \ {t} : /\ accepted'[u] = accepted[u] /\ mark'[u] = mark[u]
                                       /\ inbox'[u] = inbox[u] /\ copy'[u] = copy[u],
             \A h \in Hours : h \in accepted'[t] /\ mark'[t] = newest[h] => Taken(t, h)
      PROVE  RenderInv'
  <2>1. \A u \in Threads, h \in Hours : Taken(u, h)' => Taken(u, h)
    BY <1>0, <1>1 DEF Goto, Taken
  <2> QED
    BY <1>0, <1>1, <2>1, QuietRender
<1>2. ASSUME NEW t \in Threads, NEW a, Respond(t, a), UNCHANGED <<hasSum, home, newest, overtaken>>
      PROVE  RenderInv'
  BY <1>a, <1>1, <1>2 DEF Respond, home, Taken
<1>3. ASSUME NEW t \in Threads, NextHour(t, FALSE) PROVE RenderInv'
  BY <1>a, <1>1, <1>3 DEF NextHour, home, Taken
<1>4. ASSUME NEW t \in Threads, NextHour(t, TRUE), pc[t] = "await", inbox[t] = "success"
      PROVE RenderInv'
  BY <1>a, <1>1, <1>4 DEF NextHour, home, Taken
<1>5. ASSUME NEW t \in Threads, Submit(t) PROVE RenderInv'
  BY <1>a, <1>1, <1>5 DEF Submit, home, Taken
<1>6. ASSUME NEW t \in Threads, Commit(t) PROVE RenderInv'
  BY <1>0, <1>6, CommitRender DEF RenderInv
<1>7. ASSUME NEW t \in Threads, Collect(t) \/ Connect(t) \/ Authenticate(t) PROVE RenderInv'
  BY <1>a, <1>1, <1>7 DEF Collect, Connect, Authenticate, Advance, home, Taken
<1>8. ASSUME NEW t \in Threads, Fetch(t) PROVE RenderInv'
  <2>1. CASE Goto(t, "connect")
    <3>1. /\ UNCHANGED <<hasSum, memory, imports, newest, overtaken, accepted, mark, inbox>>
          /\ pc[t] = "fetch"
      BY <1>8 DEF Fetch, home
    <3>2. \A u \in Threads \ {t} : copy'[u] = copy[u]
      BY <1>a, <1>8 DEF Fetch
    <3> QED
      BY <1>1, <2>1, <3>1, <3>2 DEF Taken
  <2>2. CASE UNCHANGED <<pc, copy>>
    <3>1. UNCHANGED <<hasSum, memory, imports, newest, overtaken, accepted, mark, inbox>>
      BY <1>8 DEF Fetch, home
    <3> QED
      BY <1>0, <2>2, <3>1, QuietRender DEF Taken
  <2> QED
    BY <1>8, <2>1, <2>2 DEF Fetch
<1>9. ASSUME NEW t \in Threads, Send(t) PROVE RenderInv'
  <2>1. inbox[t] = "nothing"
    BY <1>9 DEF Send, RenderInv, InboxIsOfTheCommand
  <2>2. \A u \in Threads, h \in Hours : Taken(u, h)' => Taken(u, h)
    BY <1>0, <1>9, <2>1 DEF Send, Goto, Taken
  <2> QED
    BY <1>0, <1>9, <2>2, QuietRender DEF Send
<1>10. ASSUME NEW t \in Threads, ApiError(t) PROVE RenderInv'
  BY <1>3, <1>10 DEF ApiError
<1>11. ASSUME NEW t \in Threads, inbox' = [inbox EXCEPT ![t] = "nothing"],
              UNCHANGED <<hasSum, home, pc, copy, accepted, mark, newest, overtaken>>
       PROVE  RenderInv'
  <2>1. \A u \in Threads, h \in Hours : Taken(u, h)' => Taken(u, h)
    BY <1>a, <1>11 DEF Taken
  <2> QED
    BY <1>0, <1>11, <2>1, QuietRender DEF home
<1>12. ASSUME NEW t \in Threads, Receive(t) PROVE RenderInv'
  BY <1>3, <1>4, <1>11, <1>12 DEF Receive
<1>13. ASSUME NEW t \in Threads, DeadlinePasses(t) PROVE RenderInv'
  BY <1>0, <1>13, QuietRender DEF DeadlinePasses, home, Taken
<1>14. CASE HomeAssistant
  BY <1>0, <1>14, HomeRender DEF RenderInv
<1>15. CASE UNCHANGED vars
  BY <1>0, <1>15, QuietRender DEF vars, web, home, Taken
<1> QED
  BY <1>2, <1>5, <1>6, <1>7, <1>8, <1>9, <1>10, <1>12, <1>13, <1>14, <1>15
     DEF Next, Serve, Refused, ReadFails, Finish, HandshakeRaises

(***************************************************************************)
(* Whatever Home Assistant queues, loses in a restart or answers late, an  *)
(* hour of a measurement reported as refreshed ends up rendered as it was  *)
(* corrected.                                                              *)
(***************************************************************************)
THEOREM RefreshIsRendered == Spec => []RefreshedIsRendered
<1>1. Spec => []RenderInv
  BY InitRender, NextRender, PTL DEF Spec
<1>2. RenderInv => RefreshedIsRendered
  <2> SUFFICES ASSUME RenderInv, ~hasSum, Settled, NEW h \in Hours, h \notin overtaken,
                      NEW t \in Threads, h \in accepted[t], mark[t] = newest[h]
               PROVE  memory[h] = newest[h]
    BY DEF RefreshedIsRendered
  <2>1. ~Queued(h)
    BY DEF Settled, Queued
  <2> QED
    BY <2>1 DEF RenderInv, TakenIsRendered, Taken
<1> QED
  BY <1>1, <1>2, PTL

=============================================================================
