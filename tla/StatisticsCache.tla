-------------------------- MODULE StatisticsCache --------------------------
(***************************************************************************)
(* What happens around the write transaction of a request, and after it:   *)
(* the web thread commits (the adapter modules show how), reads the hourly *)
(* statistics row back, and hands it to Home Assistant over a short-lived  *)
(* WebSocket, so that Home Assistant writes it again and thereby refreshes *)
(* the copy it keeps in memory.  Home Assistant queues the import and      *)
(* performs it later; the hourly table is written by both.                 *)
(*                                                                         *)
(* The content of an hourly row is the number of the commit that wrote it: *)
(* the properties only ask which of two rows is the newer one, and whether *)
(* there is anything in it.  A measurement's row is mean, min and max, a   *)
(* counter's (has_sum) is state and sum.                                   *)
(***************************************************************************)
EXTENDS Naturals, Sequences, FiniteSets

CONSTANTS Threads,      \* web threads (gunicorn runs four)
          Hours,        \* hours whose readings get corrected
          HourCap,      \* MAX_BULK_CACHE_REFRESH_HOURS
          MaxRequests,  \* bound on the number of requests
          NoRow,        \* the hour has no row in statistics
          Blank,        \* a row with NULL in every column
          NoJob,        \* the thread has no request to look at
          NoCopy        \* the thread holds no row

ASSUME ThreadsAssumption == IsFiniteSet(Threads)
ASSUME HourCapAssumption == HourCap \in Nat
ASSUME MaxRequestsAssumption == MaxRequests \in Nat

VARIABLES
  client,     \* is there a HomeAssistantClient at all
  hasSum,     \* is the sensor a counter
  hourly,     \* [Hours -> content]: the statistics table
  memory,     \* [Hours -> content]: what Home Assistant renders
  commands,   \* import commands on their way to Home Assistant
  imports,    \* those it has accepted and not performed
  pc,         \* where each thread is
  job,        \* the request it serves
  todo,       \* hours it has still to hand over
  copy,       \* the row it has read back
  inbox,      \* what its socket holds
  late,       \* has COMMAND_TIMEOUT passed
  accepted,   \* hours Home Assistant took from this request
  answer,     \* what the browser was told
  mark,       \* history: the number of its commit, 0 before it
  newest,     \* history: the last commit that wrote each hour
  commits,    \* history: how many commits there were
  overtaken   \* history: hours committed while an older row was on its way

web == <<pc, job, todo, copy, inbox, late, accepted, answer, mark>>
home == <<memory, commands, imports>>
vars == <<client, hasSum, hourly, home, web, newest, commits, overtaken>>

Contents == 0..MaxRequests

Rows == Contents \cup {Blank}
ASSUME BlankAssumption == Blank \notin Contents \cup {NoRow}

\* A request: the hours its readings lie in, and the hours whose rows the
\* transaction rewrites (none for a sensor without statistics).
Requests ==
  {q \in [kind: {"correct", "restore", "bulk"}, at: SUBSET Hours, touched: SUBSET Hours] :
     /\ q.at \subseteq q.touched \/ q.touched = {}
     /\ q.kind = "correct" => Cardinality(q.at) = 1
     /\ q.kind = "restore" => q.at = {}}

Copies == [hour: Hours, row: Rows]
ASSUME NoCopyAssumption == NoCopy \notin Copies

Commands == [mark: 1..MaxRequests, hour: Hours, row: Rows]

TypeOK ==
  /\ client \in BOOLEAN
  /\ hasSum \in BOOLEAN
  /\ hourly \in [Hours -> Rows \cup {NoRow}]
  /\ memory \in [Hours -> Rows \cup {NoRow}]
  /\ commands \subseteq Commands
  /\ imports \in Seq(Commands)
  /\ pc \in [Threads -> {"idle", "commit", "collect", "fetch", "connect",
                         "handshake", "send", "await"}]
  /\ job \in [Threads -> Requests \cup {NoJob}]
  /\ \A t \in Threads : pc[t] \in {"commit", "collect"} => job[t] \in Requests
  /\ todo \in [Threads -> SUBSET Hours]
  /\ copy \in [Threads -> Copies \cup {NoCopy}]
  /\ \A t \in Threads : pc[t] \in {"connect", "handshake", "send", "await"} => copy[t] \in Copies
  /\ inbox \in [Threads -> {"nothing", "event", "success", "error"}]
  /\ late \in [Threads -> BOOLEAN]
  /\ accepted \in [Threads -> SUBSET Hours]
  /\ answer \in [Threads -> {"none", "done", "error"}]
  /\ mark \in [Threads -> Contents]
  /\ \A t \in Threads : pc[t] \notin {"idle", "commit"} => mark[t] # 0
  /\ newest \in [Hours -> Contents \cup {NoRow}]
  /\ commits \in Contents
  /\ overtaken \subseteq Hours

Init ==
  /\ client \in BOOLEAN
  /\ hasSum \in BOOLEAN
  /\ hourly \in [Hours -> {0, NoRow}]
  /\ memory = hourly
  /\ commands = {}
  /\ imports = <<>>
  /\ pc = [t \in Threads |-> "idle"]
  /\ job = [t \in Threads |-> NoJob]
  /\ todo = [t \in Threads |-> {}]
  /\ copy = [t \in Threads |-> NoCopy]
  /\ inbox = [t \in Threads |-> "nothing"]
  /\ late = [t \in Threads |-> FALSE]
  /\ accepted = [t \in Threads |-> {}]
  /\ answer = [t \in Threads |-> "none"]
  /\ mark = [t \in Threads |-> 0]
  /\ newest = hourly
  /\ commits = 0
  /\ overtaken = {}

-----------------------------------------------------------------------------
\* A row of hour h is out: in the hands of a thread other than t, or of Home
\* Assistant.
CopyOut(t, h) ==
  \/ \E u \in Threads \ {t} : copy[u] # NoCopy /\ copy[u].hour = h
  \/ \E c \in commands : c.hour = h
  \/ \E i \in DOMAIN imports : imports[i].hour = h

\* Requests whose transaction is still to be decided.
Committing == {u \in Threads : pc[u] = "commit"}

Goto(t, l) == pc' = [pc EXCEPT ![t] = l]

\* The request ends: the thread is free and the browser has its answer.
Respond(t, a) ==
  /\ Goto(t, "idle")
  /\ answer' = [answer EXCEPT ![t] = a]
  /\ todo' = [todo EXCEPT ![t] = {}]
  /\ copy' = [copy EXCEPT ![t] = NoCopy]
  /\ inbox' = [inbox EXCEPT ![t] = "nothing"]
  /\ late' = [late EXCEPT ![t] = FALSE]
  /\ job' = [job EXCEPT ![t] = NoJob]
  /\ UNCHANGED <<accepted, mark>>

Submit(t) ==
  /\ pc[t] = "idle"
  /\ commits + Cardinality(Committing) < MaxRequests
  /\ \E q \in Requests : job' = [job EXCEPT ![t] = q]
  /\ Goto(t, "commit")
  /\ accepted' = [accepted EXCEPT ![t] = {}]
  /\ answer' = [answer EXCEPT ![t] = "none"]
  /\ mark' = [mark EXCEPT ![t] = 0]
  /\ UNCHANGED <<client, hasSum, hourly, home, todo, copy, inbox, late, newest, commits, overtaken>>

\* Validation, a conflict, a lock timeout or a lost connection: nothing was
\* committed, and the error handlers say so.
Refused(t) ==
  /\ pc[t] = "commit"
  /\ Respond(t, "error")
  /\ UNCHANGED <<client, hasSum, hourly, home, newest, commits, overtaken>>

\* The rows of a table the transaction of request q rewrites, as commit n; it
\* sets every column of theirs, a blank row's too.
Rewritten(table, q, n) ==
  [h \in Hours |-> IF h \in q.touched /\ hourly[h] # NoRow THEN n ELSE table[h]]

\* The transaction commits.  A restore is answered at once, and refreshes
\* nothing; a correction goes on to refresh Home Assistant's copy.
Commit(t) ==
  /\ pc[t] = "commit"
  /\ commits' = commits + 1
  /\ hourly' = Rewritten(hourly, job[t], commits + 1)
  /\ newest' = Rewritten(newest, job[t], commits + 1)
  /\ mark' = [mark EXCEPT ![t] = commits + 1]
  /\ overtaken' = overtaken \cup {h \in job[t].touched : CopyOut(t, h)}
  /\ IF job[t].kind = "restore"
       THEN Goto(t, "idle") /\ answer' = [answer EXCEPT ![t] = "done"]
                            /\ job' = [job EXCEPT ![t] = NoJob]
       ELSE Goto(t, "collect") /\ UNCHANGED <<answer, job>>
  /\ UNCHANGED <<client, hasSum, home, todo, copy, inbox, late, accepted>>

\* The hours a request hands over: none without a client, without statistics,
\* or when a bulk correction reaches more hours than the cap.
HoursOf(q) ==
  IF \/ ~client
     \/ q.touched = {}
     \/ q.kind = "bulk" /\ Cardinality(q.at) > HourCap
    THEN {}
    ELSE q.at

Collect(t) ==
  /\ pc[t] = "collect"
  /\ Goto(t, "fetch")
  /\ todo' = [todo EXCEPT ![t] = HoursOf(job[t])]
  /\ job' = [job EXCEPT ![t] = NoJob]
  /\ UNCHANGED <<client, hasSum, hourly, home, copy, inbox, late, accepted, answer, mark,
                 newest, commits, overtaken>>

\* Reading the metadata, the corrections or the hourly row back fails: the
\* adapter's exception goes to the error handlers.
ReadFails(t) ==
  /\ client
  /\ pc[t] \in {"collect", "fetch"}
  /\ pc[t] = "fetch" => todo[t] # {}
  /\ Respond(t, "error")
  /\ UNCHANGED <<client, hasSum, hourly, home, newest, commits, overtaken>>

\* Of a row, _refresh_hour takes mean, min and max: all there is to a
\* measurement's, nothing of a counter's.
HandedOver(row) == IF hasSum THEN Blank ELSE row

\* Mutant: the absence of a row is not noticed.
FetchAnything(t) ==
  /\ pc[t] = "fetch"
  /\ \E h \in todo[t] : copy' = [copy EXCEPT ![t] = [hour |-> h, row |-> HandedOver(hourly[h])]]
  /\ Goto(t, "connect")
  /\ UNCHANGED <<client, hasSum, hourly, home, job, todo, inbox, late, accepted, answer, mark,
                 newest, commits, overtaken>>

\* Mutant: the row is the one the request found before it committed.
FetchOld(t) ==
  /\ pc[t] = "fetch"
  /\ \E h \in todo[t] :
       /\ hourly[h] # NoRow
       /\ copy' = [copy EXCEPT ![t] = [hour |-> h, row |-> HandedOver(mark[t] - 1)]]
  /\ Goto(t, "connect")
  /\ UNCHANGED <<client, hasSum, hourly, home, job, todo, inbox, late, accepted, answer, mark,
                 newest, commits, overtaken>>

\* The next hour's row, if there is one, is read as it stands now.
Fetch(t) ==
  /\ pc[t] = "fetch"
  /\ \E h \in todo[t] :
       IF hourly[h] = NoRow
         THEN /\ todo' = [todo EXCEPT ![t] = @ \ {h}]
              /\ UNCHANGED <<pc, copy>>
         ELSE /\ copy' = [copy EXCEPT ![t] = [hour |-> h, row |-> HandedOver(hourly[h])]]
              /\ Goto(t, "connect")
              /\ UNCHANGED todo
  /\ UNCHANGED <<client, hasSum, hourly, home, job, inbox, late, accepted, answer, mark,
                 newest, commits, overtaken>>

Finish(t) ==
  /\ pc[t] = "fetch"
  /\ todo[t] = {}
  /\ Respond(t, "done")
  /\ UNCHANGED <<client, hasSum, hourly, home, newest, commits, overtaken>>

Advance(t, from, to) ==
  /\ pc[t] = from
  /\ Goto(t, to)
  /\ UNCHANGED <<client, hasSum, hourly, home, job, todo, copy, inbox, late, accepted, answer, mark,
                 newest, commits, overtaken>>

Connect(t) == Advance(t, "connect", "handshake")

\* auth_required, auth, auth_ok.
Authenticate(t) == Advance(t, "handshake", "send")

\* _refresh_hour is done with the hour in hand; took: Home Assistant has it.
NextHour(t, took) ==
  /\ Goto(t, "fetch")
  /\ todo' = [todo EXCEPT ![t] = @ \ {copy[t].hour}]
  /\ copy' = [copy EXCEPT ![t] = NoCopy]
  /\ inbox' = [inbox EXCEPT ![t] = "nothing"]
  /\ accepted' = IF took THEN [accepted EXCEPT ![t] = @ \cup {copy[t].hour}] ELSE accepted
  /\ late' = [late EXCEPT ![t] = FALSE]
  /\ UNCHANGED <<client, hasSum, hourly, home, job, answer, mark, newest, commits, overtaken>>

\* HomeAssistantApiError: no connection, an unexpected greeting, a rejected
\* token, a socket that fails or stays silent for CONNECT_TIMEOUT during the
\* command.  It is logged, and the hour counts as not refreshed.
ApiError(t) ==
  /\ pc[t] \in {"connect", "handshake", "send", "await"}
  /\ pc[t] = "await" => inbox[t] = "nothing"
  /\ NextHour(t, FALSE)

\* _authenticate's recv() times out, or the peer closes or sends no JSON: what
\* it raises is no HomeAssistantApiError, and nothing up to the route catches it.
HandshakeRaises(t) ==
  /\ pc[t] = "handshake"
  /\ Respond(t, "error")
  /\ UNCHANGED <<client, hasSum, hourly, home, newest, commits, overtaken>>

\* What is None is not sent: of a counter's row the command carries the hour.
Send(t) ==
  /\ pc[t] = "send"
  /\ commands' = commands \cup
       {[mark |-> mark[t], hour |-> copy[t].hour, row |-> copy[t].row]}
  /\ Goto(t, "await")
  /\ UNCHANGED <<client, hasSum, hourly, memory, imports, job, todo, copy, inbox, late, accepted,
                 answer, mark, newest, commits, overtaken>>

\* Mutant: the deadline is renewed by every message.
ReceivePatiently(t) ==
  /\ pc[t] = "await"
  /\ \/ inbox[t] = "success" /\ NextHour(t, TRUE)
     \/ inbox[t] = "error" /\ NextHour(t, FALSE)
     \/ /\ inbox[t] = "event"
        /\ inbox' = [inbox EXCEPT ![t] = "nothing"]
        /\ UNCHANGED <<client, hasSum, hourly, home, pc, job, todo, copy, late, accepted, answer,
                       mark, newest, commits, overtaken>>

\* Mutant: any answer to the command counts as success.
ReceiveAnyAnswer(t) ==
  /\ pc[t] = "await"
  /\ inbox[t] \in {"success", "error"}
  /\ NextHour(t, TRUE)

\* One recv() of _send's loop: events are skipped until the deadline.
Receive(t) ==
  /\ pc[t] = "await"
  /\ \/ inbox[t] = "success" /\ NextHour(t, TRUE)
     \/ inbox[t] = "error" /\ NextHour(t, FALSE)
     \/ inbox[t] = "event" /\ late[t] /\ NextHour(t, FALSE)
     \/ /\ inbox[t] = "event" /\ ~late[t]
        /\ inbox' = [inbox EXCEPT ![t] = "nothing"]
        /\ UNCHANGED <<client, hasSum, hourly, home, pc, job, todo, copy, late, accepted, answer,
                       mark, newest, commits, overtaken>>

DeadlinePasses(t) ==
  /\ pc[t] = "await"
  /\ ~late[t]
  /\ late' = [late EXCEPT ![t] = TRUE]
  /\ UNCHANGED <<client, hasSum, hourly, home, pc, job, todo, copy, inbox, accepted, answer, mark,
                 newest, commits, overtaken>>

-----------------------------------------------------------------------------
(* Home Assistant.                                                         *)

\* The socket of command c, if its sender is still listening, receives m.
Reply(c, m) ==
  inbox' = [t \in Threads |->
              IF pc[t] = "await" /\ mark[t] = c.mark /\ copy[t].hour = c.hour
                THEN m ELSE inbox[t]]

Accept(c) ==
  /\ commands' = commands \ {c}
  /\ imports' = Append(imports, c)
  /\ Reply(c, "success")
  /\ UNCHANGED <<client, hasSum, hourly, memory, pc, job, todo, copy, late, accepted, answer, mark,
                 newest, commits, overtaken>>

Reject(c) ==
  /\ commands' = commands \ {c}
  /\ Reply(c, "error")
  /\ UNCHANGED <<client, hasSum, hourly, memory, imports, pc, job, todo, copy, late, accepted,
                 answer, mark, newest, commits, overtaken>>

\* It interleaves events with its replies.
Event(t) ==
  /\ pc[t] = "await"
  /\ inbox[t] = "nothing"
  /\ inbox' = [inbox EXCEPT ![t] = "event"]
  /\ UNCHANGED <<client, hasSum, hourly, home, pc, job, todo, copy, late, accepted, answer, mark,
                 newest, commits, overtaken>>

\* The recorder performs the oldest import, in the table and in its copy.  It
\* sets every column of the row, those it was not sent to NULL.
Import ==
  /\ imports # <<>>
  /\ hourly' = [hourly EXCEPT ![Head(imports).hour] = Head(imports).row]
  /\ memory' = [memory EXCEPT ![Head(imports).hour] = Head(imports).row]
  /\ imports' = Tail(imports)
  /\ UNCHANGED <<client, hasSum, commands, web, newest, commits, overtaken>>

\* What it had not performed is lost; its copy is read from the table again.
Restart ==
  /\ memory' = hourly
  /\ commands' = {}
  /\ imports' = <<>>
  /\ UNCHANGED <<client, hasSum, hourly, web, newest, commits, overtaken>>

-----------------------------------------------------------------------------
Serve(t) ==
  \/ Refused(t) \/ Commit(t) \/ Collect(t) \/ ReadFails(t) \/ Fetch(t) \/ Finish(t)
  \/ Connect(t) \/ Authenticate(t) \/ HandshakeRaises(t) \/ ApiError(t)
  \/ Send(t) \/ Receive(t)

HomeAssistant ==
  \/ \E c \in commands : Accept(c) \/ Reject(c)
  \/ \E t \in Threads : Event(t)
  \/ Import \/ Restart

Next == (\E t \in Threads : Submit(t) \/ Serve(t) \/ DeadlinePasses(t)) \/ HomeAssistant

\* A thread keeps running, and the clock advances.  Nothing is assumed of Home
\* Assistant, which may stay silent or send events for ever.
Fairness == \A t \in Threads : WF_vars(Serve(t)) /\ WF_vars(DeadlinePasses(t))

Spec == Init /\ [][Next]_vars /\ Fairness

-----------------------------------------------------------------------------
(***************************************************************************)
(* Whatever Home Assistant does with the rows it is handed, and however    *)
(* late, it never takes a corrected hour back: a measurement's holds what  *)
(* the last commit wrote, unless that commit happened while an older row   *)
(* of the hour was on its way, and a counter's holds that or nothing.      *)
(***************************************************************************)
DatabaseKeepsNewest ==
  \A h \in Hours :
    \/ hourly[h] = newest[h]
    \/ IF hasSum THEN hourly[h] = Blank ELSE h \in overtaken

(***************************************************************************)
(* The docstring of refresh_statistics_cache: "The database is already     *)
(* correct", and "feeding the corrected hourly row back through            *)
(* recorder/import_statistics makes Home Assistant rewrite it itself".     *)
(* Refreshing leaves an hour no older row was on its way to as the last    *)
(* commit wrote it.                                                        *)
(***************************************************************************)
RefreshLeavesDatabase ==
  \A h \in Hours \ overtaken : hourly[h] = newest[h]

Settled ==
  /\ \A t \in Threads : pc[t] = "idle"
  /\ commands = {}
  /\ imports = <<>>

(***************************************************************************)
(* refresh_statistics_cache "removes the need to restart": once everything *)
(* has come to rest, an hour of a measurement that the last request to     *)
(* write it reported as refreshed is rendered as that request left it.  A  *)
(* counter's hour is not (RefreshLeavesDatabase).                          *)
(***************************************************************************)
RefreshedIsRendered ==
  ~hasSum /\ Settled =>
    \A h \in Hours \ overtaken, t \in Threads :
      h \in accepted[t] /\ mark[t] = newest[h] => memory[h] = newest[h]

(***************************************************************************)
(* Home Assistant cannot hold a web thread: silent, refusing, chattering   *)
(* or restarting, every request is answered.                               *)
(***************************************************************************)
EveryRequestAnswered ==
  \A t \in Threads : pc[t] # "idle" ~> pc[t] = "idle"

(***************************************************************************)
(* hr_web.py:398, "The database is already correct. This only refreshes    *)
(* Home Assistant's in-memory statistics, and its failure is not the       *)
(* correction's failure": a request answered with an error changed         *)
(* nothing.                                                                *)
(***************************************************************************)
FailureIsOfTheCorrection ==
  \A t \in Threads : answer[t] = "error" => mark[t] = 0

=============================================================================
