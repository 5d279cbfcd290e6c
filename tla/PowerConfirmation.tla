------------------------- MODULE PowerConfirmation -------------------------
(***************************************************************************)
(* "Are you sure you want to shut down your PC?": the desktop app's        *)
(* PowerConfirmationManager and tryResolvePowerConfirmation()              *)
(* (electron/power-confirmation.ts), as the turns of the voice pipeline    *)
(* and of the text chat use them.  Both surfaces share one record.         *)
(*                                                                         *)
(* A turn first gets what the person says -- by listening and recognising, *)
(* or as a message that is stored before the turn runs -- and only later   *)
(* looks at the record.  That look is one step: nothing is awaited between *)
(* it and the start of the confirmed action.                               *)
(***************************************************************************)
EXTENDS Naturals

CONSTANTS
  Turns,         (* the voice session and the conversations that have turns *)
  VoiceTurns,    (* the voice session                                       *)
  PowerActions,  (* "shutdown", "restart", "sleep"                          *)
  NoRecord,
  MaxRequests    (* bound on the requests for confirmation                  *)

Utterances == {"yes", "no", "cancel", "other"}    \* matchConfirmationResponse()
Records    == [id : Nat, action : PowerActions, expired : BOOLEAN]

VARIABLES
  turn,        (* where the turn of each is                                 *)
  says,        (* what has been said in it and not yet looked at            *)
  aborted,     (* the turns cancelled before that                           *)
  record,      (* PowerConfirmationManager.pending                          *)
  requests,    (* PowerConfirmationManager.counter                          *)
  confirmed,   (* the record each has confirmed                             *)
  answered,    (* history: ids of records that were answered or given up    *)
  early        (* history: turns whose utterance is older than the record   *)

powerVars == <<turn, says, aborted, record, requests, confirmed, answered, early>>

Init ==
  /\ turn = [t \in Turns |-> "idle"]
  /\ says = [t \in Turns |-> "nothing"]
  /\ aborted = {}
  /\ record = NoRecord
  /\ requests = 0
  /\ confirmed = [t \in Turns |-> NoRecord]
  /\ answered = {}
  /\ early = {}

\* hasPending()
Live == record # NoRecord /\ ~record.expired

\* The turn goes on; what was said in it has been looked at.
Goes(t, stage) ==
  /\ turn' = [turn EXCEPT ![t] = stage]
  /\ says' = [says EXCEPT ![t] = "nothing"]
  /\ aborted' = aborted \ {t}
  /\ early' = early \ {t}
  /\ UNCHANGED requests

\* The record goes, whatever it says.
Gone == record' = NoRecord /\ answered' = answered \cup {record.id}

\* The person speaks or sends a message: the first turn of t, or, while t has
\* confirmed nothing, its next one.
Says(t, utterance) ==
  /\ turn[t] \in {"idle", "over"}
  /\ confirmed[t] = NoRecord
  /\ turn' = [turn EXCEPT ![t] = "heard"]
  /\ says' = [says EXCEPT ![t] = utterance]
  /\ UNCHANGED <<aborted, record, requests, confirmed, answered, early>>

\* The person cancels the turn.  Once the record has been looked at, nothing
\* below asks whether the turn is cancelled.
Abort(t) ==
  /\ turn[t] = "heard"
  /\ aborted' = aborted \cup {t}
  /\ UNCHANGED <<turn, says, record, requests, confirmed, answered, early>>

\* The voice pipeline looks at the signal when it has the transcript.
GivesUp(t) ==
  /\ turn[t] = "heard" /\ t \in VoiceTurns \cap aborted
  /\ Goes(t, "over")
  /\ UNCHANGED <<record, confirmed, answered>>

\* Defect: an unrelated utterance leaves the question open.
LingeringUnrelated(t) ==
  /\ turn[t] = "heard" /\ Live
  /\ says[t] = "other"
  /\ answered' = answered \cup {record.id}
  /\ Goes(t, "working")
  /\ UNCHANGED <<record, confirmed>>

\* An utterance that is no answer clears the question and is handled as usual.
Unrelated(t) ==
  /\ turn[t] = "heard" /\ Live
  /\ says[t] = "other"
  /\ Gone
  /\ Goes(t, "working")
  /\ UNCHANGED confirmed

\* No question is open -- an expired one is dropped by hasPending().
NothingPending(t) ==
  /\ turn[t] = "heard" /\ ~Live
  /\ IF record = NoRecord THEN UNCHANGED <<record, answered>> ELSE Gone
  /\ Goes(t, "working")
  /\ UNCHANGED confirmed

\* "no", "cancel", or an answer that expires between the two looks at the clock.
Declines(t) ==
  /\ turn[t] = "heard" /\ Live
  /\ says[t] # "other"
  /\ Gone
  /\ Goes(t, "over")
  /\ UNCHANGED confirmed

\* "yes" in time: the action is carried out, unless the turn is cancelled.
Confirms(t) ==
  /\ turn[t] = "heard" /\ Live
  /\ says[t] = "yes"
  /\ Gone
  /\ IF t \in aborted
     THEN Goes(t, "over") /\ UNCHANGED confirmed
     ELSE Goes(t, "confirmed") /\ confirmed' = [confirmed EXCEPT ![t] = record]

\* A voice command, or a tool the model calls, asks for a power action: the new
\* question replaces the old one.
Request(t, action) ==
  /\ turn[t] = "working"
  /\ requests < MaxRequests
  /\ requests' = requests + 1
  /\ record' = [id |-> requests + 1, action |-> action, expired |-> FALSE]
  /\ answered' = IF record = NoRecord THEN answered ELSE answered \cup {record.id}
  /\ early' = {u \in Turns : turn[u] = "heard"}
  /\ UNCHANGED <<turn, says, aborted, confirmed>>

\* The turn's reply is complete.
Ends(t) ==
  /\ turn[t] \in {"working", "confirmed"}
  /\ Goes(t, "over")
  /\ UNCHANGED <<record, confirmed, answered>>

\* ttlMs have passed.
Expire ==
  /\ Live
  /\ record' = [record EXCEPT !.expired = TRUE]
  /\ UNCHANGED <<turn, says, aborted, requests, confirmed, answered, early>>

\* The process starts again: nothing of this is stored.
Restart ==
  /\ turn' = [t \in Turns |-> IF turn[t] = "idle" THEN "idle" ELSE "over"]
  /\ says' = [t \in Turns |-> "nothing"]
  /\ aborted' = {} /\ early' = {}
  /\ record' = NoRecord
  /\ confirmed' = [t \in Turns |-> NoRecord]
  /\ answered' = IF record = NoRecord THEN answered ELSE answered \cup {record.id}
  /\ UNCHANGED requests

\* What a turn does on its own: all but Confirms and the end of what it began.
Converse ==
  \/ \E t \in Turns, u \in Utterances : Says(t, u)
  \/ \E t \in Turns : \/ Abort(t) \/ GivesUp(t) \/ Unrelated(t)
                      \/ NothingPending(t) \/ Declines(t)
  \/ \E t \in Turns, a \in PowerActions : Request(t, a)
  \/ \E t \in Turns : turn[t] = "working" /\ Ends(t)
  \/ Expire

TypeOK ==
  /\ turn \in [Turns -> {"idle", "heard", "working", "confirmed", "over"}]
  /\ says \in [Turns -> Utterances \cup {"nothing"}]
  /\ aborted \subseteq Turns
  /\ record \in Records \cup {NoRecord}
  /\ requests \in Nat
  /\ confirmed \in [Turns -> Records \cup {NoRecord}]
  /\ answered \subseteq Nat
  /\ early \subseteq Turns
=============================================================================
