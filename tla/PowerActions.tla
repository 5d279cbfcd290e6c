---------------------------- MODULE PowerActions ----------------------------
(***************************************************************************)
(* Shutting down, restarting and putting to sleep: the spoken or typed     *)
(* confirmation (PowerConfirmation) and, behind it, the capability call it *)
(* leads to (CapabilityConsent).  executeConfirmedPowerAction(), in        *)
(* electron/desktop-actions.ts, is the only way to the capability.         *)
(***************************************************************************)
EXTENDS CapabilityConsent

CONSTANTS Turns, VoiceTurns, NamedActions, NoRecord, MaxRequests,
  CallOf    (* the capability call that each turn may make                  *)

VARIABLES turn, says, aborted, record, requests, confirmed, answered, early

Power == INSTANCE PowerConfirmation WITH PowerActions <- NamedActions

powerVars == <<turn, says, aborted, record, requests, confirmed, answered, early>>

vars == <<consentVars, powerVars>>

PowerCalls == {CallOf[t] : t \in Turns}

ASSUME PowerAssumption ==
  /\ VoiceTurns \subseteq Turns
  /\ MaxRequests \in Nat
  /\ NoRecord \notin Power!Records
  /\ CallOf \in [Turns -> Gated]
  /\ \A t, u \in Turns : CallOf[t] = CallOf[u] => t = u
  /\ \A t \in Turns : ActorOf[CallOf[t]] =
       IF t \in VoiceTurns THEN "voice-session" ELSE "ai-orchestrator"

-----------------------------------------------------------------------------
PowerInit == Init /\ Power!Init

\* The turn that has taken the "yes" calls the capability in the same step.
Confirm(t) ==
  /\ Power!Confirms(t)
  /\ IF turn'[t] = "confirmed" THEN Invoke(CallOf[t]) ELSE UNCHANGED consentVars

\* The call has settled and the turn says how.
Report(t) ==
  /\ turn[t] = "confirmed"
  /\ phase[CallOf[t]] \in {"done", "refused"}
  /\ Power!Ends(t)
  /\ UNCHANGED consentVars

PowerNext ==
  \/ \E i \in Calls \ PowerCalls : Invoke(i) /\ UNCHANGED powerVars
  \/ Proceed /\ UNCHANGED powerVars
  \/ \E t \in Turns : Confirm(t) \/ Report(t)
  \/ Power!Converse /\ UNCHANGED consentVars
  \/ Restart /\ Power!Restart

PowerSpec == PowerInit /\ [][PowerNext]_vars

\* The bridge's timer fires whatever else happens, and a settled promise is
\* reported by its turn.
PowerFairness ==
  /\ \A d \in Dialogs : WF_vars(TimesOut(d) /\ UNCHANGED powerVars)
  /\ \A t \in Turns : WF_vars(Report(t))

FairPowerSpec == PowerSpec /\ PowerFairness

-----------------------------------------------------------------------------
(* Properties *)

PowerTypeOK == TypeOK /\ Power!TypeOK

\* A power action takes effect only for a turn that has confirmed a question --
\* and if the person confirmed the dialog as well, whatever the policies.
PowerTakesTwoYeses ==
  \A t \in Turns : phase[CallOf[t]] = "done" =>
    confirmed[t] # NoRecord /\ <<CallOf[t], "gate">> \in approvals

\* The steps in which turn t confirms a question.
ConfirmsOne(t) == confirmed'[t] \notin {confirmed[t], NoRecord}

\* A question is good for one yes: one that was declined, ignored, replaced,
\* expired, cancelled or already confirmed is not confirmed by either surface.
AnsweredQuestionsAreClosed ==
  [][\A t \in Turns : ConfirmsOne(t) =>
       /\ confirmed'[t].id \notin answered
       /\ ~confirmed'[t].expired
       /\ says[t] = "yes" /\ t \notin aborted]_vars

\* "has the user ... actually said yes to this specific pending request"
\* (power-confirmation.ts:12-13): the words are not older than the request.
YesFollowsTheQuestion ==
  [][\A t \in Turns : ConfirmsOne(t) => t \notin early]_vars

\* A turn that has confirmed something comes to its end.
ConfirmedTurnsEnd == \A t \in Turns : turn[t] = "confirmed" ~> turn[t] = "over"
=============================================================================
