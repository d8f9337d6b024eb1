---------------------------- MODULE NeedsReview ----------------------------
(***************************************************************************)
(* The ledger, with the thread that tells Home Assistant over MQTT whether *)
(* a correction needs review.  The thread polls: it asks the database      *)
(* which corrections are orphaned, publishes ON or OFF as a retained       *)
(* message, and sleeps.  A publish while the connection is down is lost    *)
(* without an error; the MQTT client's own thread reconnects.  The add-on  *)
(* may be stopped at any moment, and the thread dies with it.              *)
(***************************************************************************)
EXTENDS CorrectionLedger

VARIABLES pub,      \* where the publisher thread is; "off": no add-on runs
          read,     \* what its last query answered
          linked,   \* is its MQTT connection up
          shown,    \* the retained state message, "none" before the first
          available \* the retained availability message

publisher == <<pub, read, linked, shown, available>>
pubVars == <<vars, publisher>>

PubInit ==
  /\ Init
  /\ pub = "off"
  /\ read = FALSE
  /\ linked = FALSE
  /\ shown = "none"
  /\ available = "offline"

\* get_needs_review: the answer the query would give now.
SomeOrphan == \E i \in Ids : Orphaned(i)

\* main: a broker is discovered and the thread starts, or there is none.
StartAddon ==
  /\ pub = "off"
  /\ pub' \in {"connect", "gone"}
  /\ UNCHANGED <<vars, read, linked, shown, available>>

\* The process ends, without an orderly finish of a daemon thread; the broker
\* publishes the last will of a connection that was up.
StopAddon ==
  /\ pub # "off"
  /\ pub' = "off"
  /\ linked' = FALSE
  /\ available' = "offline"
  /\ UNCHANGED <<vars, read, shown>>

Connect ==
  /\ pub = "connect"
  /\ \/ /\ pub' = "query"
        /\ linked' = TRUE
        /\ available' = "online"
     \/ pub' = "gone" /\ UNCHANGED <<linked, available>>
  /\ UNCHANGED <<vars, read, shown>>

\* Mutant: what the last query answered is not published again.
QueryForNews ==
  /\ pub = "query"
  /\ pub' = IF SomeOrphan = read THEN "sleep" ELSE "publish"
  /\ read' = SomeOrphan
  /\ UNCHANGED <<vars, linked, shown, available>>

Query ==
  /\ pub = "query"
  /\ pub' = "publish"
  /\ read' = SomeOrphan
  /\ UNCHANGED <<vars, linked, shown, available>>

\* The database cannot be read: logged, and left to the next poll.
QueryFails ==
  /\ pub = "query"
  /\ pub' = "sleep"
  /\ UNCHANGED <<vars, read, linked, shown, available>>

Payload(b) == IF b THEN "ON" ELSE "OFF"

Publish ==
  /\ pub = "publish"
  /\ pub' = "sleep"
  /\ shown' = IF linked THEN Payload(read) ELSE shown
  /\ UNCHANGED <<vars, read, linked, available>>

\* stop_event is never set: the wait ends when poll_interval has passed.
Wake ==
  /\ pub = "sleep"
  /\ pub' = "query"
  /\ UNCHANGED <<vars, read, linked, shown, available>>

\* The broker misses the keepalive and publishes the last will.
LinkLost ==
  /\ linked
  /\ linked' = FALSE
  /\ available' = "offline"
  /\ UNCHANGED <<vars, pub, read, shown>>

\* The client's thread connects again; nothing is published on that occasion.
Reconnect ==
  /\ ~linked
  /\ pub \in {"query", "publish", "sleep"}
  /\ linked' = TRUE
  /\ UNCHANGED <<vars, pub, read, shown, available>>

\* A correction, a restore or a dismissal needs the add-on; the recorder and a
\* restored backup do not.
LedgerStep ==
  /\ Next
  /\ audit' # audit => pub # "off"
  /\ UNCHANGED publisher

PubNext ==
  \/ LedgerStep
  \/ StartAddon \/ StopAddon \/ Connect \/ Query \/ QueryFails \/ Publish \/ Wake
  \/ LinkLost \/ Reconnect

\* The thread runs and the interval passes; a database that is asked for ever
\* answers now and then.
PubFairness == WF_pubVars(Publish) /\ WF_pubVars(Wake) /\ SF_pubVars(Query)

PubSpec == PubInit /\ [][PubNext]_pubVars /\ PubFairness

-----------------------------------------------------------------------------
(***************************************************************************)
(* ARCHITECTURE.md: needs_review reflects "whether any correction no       *)
(* longer matches the database".  Stale between two polls, after a failed  *)
(* query and after a lost publish, it still comes to say what is true when *)
(* the add-on and its connection stay up and the truth stays what it is.   *)
(***************************************************************************)
ReviewIsAnnounced ==
  \A b \in BOOLEAN :
    <>[](SomeOrphan = b /\ linked) => <>[](shown = Payload(b))

(***************************************************************************)
(* hr_mqtt.py:38, republishing is "about keeping the entity fresh and      *)
(* available": a publisher whose connection stays up is shown available.   *)
(* Not so after a reconnection (README, section 4); added to review.cfg,   *)
(* this is violated.                                                       *)
(***************************************************************************)
PublisherIsAvailable ==
  <>[]linked => <>[](available = "online")

=============================================================================
