------------------------- MODULE CapabilityConsent -------------------------
(***************************************************************************)
(* From a capability call to its effect on the machine: CapabilityManager  *)
(* (core/platform-capability), CapabilityBroker (core/security), the       *)
(* DestructiveActionGate (core/windows-agent), and, in the desktop app,    *)
(* the bridge to the dialog that asks the person, the permission settings  *)
(* and the store that saves them.                                          *)
(*                                                                         *)
(* A call asks up to two questions, each a dialog of its own: consent to   *)
(* its capability, and confirmation if the operation is destructive.  The  *)
(* process that calls and the renderer that shows dialogs exchange         *)
(* messages; a message in transit commutes with everything the receiver    *)
(* does before it arrives, except that the receiver may have gone on -- a  *)
(* dialog stays on screen after main has given up on it, so a late answer  *)
(* is an answer to a dialog that is no longer pending.                     *)
(***************************************************************************)
EXTENDS Naturals, FiniteSets

CONSTANTS
  Calls,           (* the calls of CapabilityManager.invoke()               *)
  ActorOf,         (* the actor of each call                                *)
  Needs,           (* the capability its operation needs, or NoCapability   *)
  Gated,           (* the calls whose operation is destructive              *)
  Capabilities,    (* the capabilities that policies and grants are about   *)
  PreAuthorized,   (* granted by the bootstrap unless settings say more     *)
  KeptByReset,     (* left alone by resetPermissions ("notifications")      *)
  NoCapability,
  NoDialog,
  InitialSettings, (* what the settings file may say at the first start     *)
  DiskMayFail,     (* whether writing the settings file may fail            *)
  MaxSaves,        (* bound on the updates of the settings                  *)
  MaxRestarts      (* bound on the restarts of the application              *)

Actors   == {"ai-orchestrator", "voice-session"}
Everyone == "everyone"      \* the key of a policy that names no actor
Policies == {"always", "prompt", "denied"}
Settings == [Capabilities -> Policies \cup {"unset"}]
Dialogs  == Calls \X {"consent", "gate"}

ASSUME ConstantsAssumption ==
  /\ ActorOf \in [Calls -> Actors]
  /\ Needs \in [Calls -> Capabilities \cup {NoCapability}]
  /\ NoCapability \notin Capabilities
  /\ NoDialog \notin Dialogs
  /\ Gated \subseteq Calls
  /\ InitialSettings \subseteq Settings
  /\ DiskMayFail \in BOOLEAN
  /\ MaxSaves \in Nat
  /\ MaxRestarts \in Nat

VARIABLES
  broker,     (* CapabilityBroker: policies and grants                      *)
  phase,      (* where each call is                                         *)
  pending,    (* the bridge's dialogs that have no answer yet               *)
  renderer,   (* the main window: ready, loading or gone                    *)
  shown,      (* the dialog on screen                                       *)
  saved,      (* SettingsStore.cache, its persistentPermissions             *)
  disk,       (* the same in the settings file                              *)
  saves,      (* updates of the settings that have not ended                *)
  writes,     (* how many updates there have been                           *)
  restarts,   (* how many restarts there have been                          *)
  asked,      (* history: the dialogs this process has asked for            *)
  approvals   (* history: the dialogs in which the person said yes          *)

consentVars == <<broker, phase, pending, renderer, shown, saved, disk, saves,
                 writes, restarts, asked, approvals>>

-----------------------------------------------------------------------------
(* The broker *)

\* Defect: going back to "prompt" leaves the grants of the actor.
LastingGrants(b, cap, policy, who) ==
  [policies |-> [b.policies EXCEPT ![<<who, cap>>] = policy],
   grants   |-> IF policy = "prompt" \/ who = Everyone THEN b.grants
                ELSE [b.grants EXCEPT ![<<who, cap>>] =
                        IF policy = "always" THEN "granted" ELSE "denied"]]

\* An actor's policy settles its grant; a policy for everyone only touches
\* the grants on record, and "always" for everyone touches none.
setPolicy(b, cap, policy, who) ==
  LET Touched == IF who # Everyone THEN {<<who, cap>>}
                 ELSE IF policy = "always" THEN {}
                 ELSE {k \in Actors \X {cap} : b.grants[k] # "none"}
      Outcome == CASE policy = "always" -> "granted"
                   [] policy = "denied" -> "denied"
                   [] OTHER -> "none"
  IN  [policies |-> [b.policies EXCEPT ![<<who, cap>>] = policy],
       grants   |-> [k \in Actors \X Capabilities |->
                       IF k \in Touched THEN Outcome ELSE b.grants[k]]]

getPolicy(b, cap, actor) ==
  LET own     == b.policies[<<actor, cap>>]
      general == b.policies[<<Everyone, cap>>]
  IN  IF own # "unset" THEN own ELSE IF general # "unset" THEN general ELSE "prompt"

HasGrant(actor, cap) ==
  LET policy == getPolicy(broker, cap, actor)
  IN  policy = "always" \/ (policy = "prompt" /\ broker.grants[<<actor, cap>>] = "granted")

\* The broker at the end of the bootstrap: the policies of the settings, for
\* everyone, and the pre-authorised grants that no policy speaks about.
Booted(settings) ==
  [policies |-> [k \in (Actors \cup {Everyone}) \X Capabilities |->
                   IF k[1] = Everyone THEN settings[k[2]] ELSE "unset"],
   grants   |-> [k \in Actors \X Capabilities |->
                   IF k[2] \in PreAuthorized /\ settings[k[2]] = "unset"
                   THEN "granted" ELSE "none"]]

\* What requestCapability() records of its decision on call i.
Decided(i, ok) ==
  [broker EXCEPT !.grants[<<ActorOf[i], Needs[i]>>] = IF ok THEN "granted" ELSE "denied"]

-----------------------------------------------------------------------------
Init ==
  /\ disk \in InitialSettings
  /\ saved = disk
  /\ broker = Booted(disk)
  /\ phase = [i \in Calls |-> "idle"]
  /\ pending = {}
  /\ renderer = "loading"
  /\ shown = NoDialog
  /\ saves = {}
  /\ writes = 0
  /\ restarts = 0
  /\ asked = {}
  /\ approvals = {}

(* The steps of a call.  open is what stays pending in the bridge, and left *)
(* what stays on screen, when the step's own dialog has been answered.      *)

\* prompt(), with a window there: the dialog replaces the one on screen, and
\* a renderer that is still loading misses it.
Ask(i, kind, open, left) ==
  /\ phase' = [phase EXCEPT ![i] = kind]
  /\ pending' = open \cup {<<i, kind>>}
  /\ asked' = asked \cup {<<i, kind>>}
  /\ shown' = IF renderer = "ready" THEN <<i, kind>> ELSE left

Settle(i, outcome, open, left) ==
  /\ phase' = [phase EXCEPT ![i] = outcome]
  /\ pending' = open
  /\ shown' = left
  /\ UNCHANGED asked

\* Defect: consent to the capability is taken for the confirmation.
UngatedOperate(i, open, left) ==
  Settle(i, "done", open, left)

\* The adapter's handler: a destructive operation passes the gate first, and
\* without a window the bridge answers it with no.
Operate(i, open, left) ==
  \/ i \notin Gated /\ Settle(i, "done", open, left)
  \/ i \in Gated /\ renderer = "gone" /\ Settle(i, "refused", open, left)
  \/ i \in Gated /\ renderer # "gone" /\ Ask(i, "gate", open, left)

\* invoke() once the permission is decided.  The parameters may be invalid.
AfterPermission(i, granted, open, left) ==
  \/ Settle(i, "refused", open, left)
  \/ granted /\ Operate(i, open, left)

\* invoke() up to its first await that has to wait.
Invoke(i) ==
  /\ phase[i] = "idle"
  /\ \/ /\ Needs[i] = NoCapability
        /\ AfterPermission(i, TRUE, pending, shown)
        /\ UNCHANGED broker
     \/ /\ Needs[i] # NoCapability
        /\ LET policy == getPolicy(broker, Needs[i], ActorOf[i])
           IN  IF policy = "prompt" /\ renderer # "gone"
               THEN Ask(i, "consent", pending, shown) /\ UNCHANGED broker
               ELSE /\ broker' = Decided(i, policy = "always")
                    /\ AfterPermission(i, policy = "always", pending, shown)
  /\ UNCHANGED <<renderer, saved, disk, saves, writes, restarts, approvals>>

\* The dialog d is answered.  The bridge ignores the answer to a dialog it no
\* longer waits for.
Answer(d, yes, left) ==
  \/ /\ d \notin pending
     /\ shown' = left
     /\ UNCHANGED <<broker, phase, pending, asked>>
  \/ /\ d \in pending /\ d[2] = "consent"
     /\ broker' = Decided(d[1], yes)
     /\ AfterPermission(d[1], yes, pending \ {d}, left)
  \/ /\ d \in pending /\ d[2] = "gate"
     /\ Settle(d[1], IF yes THEN "done" ELSE "refused", pending \ {d}, left)
     /\ UNCHANGED broker

\* The person presses Approve or Deny in the dialog on screen.
Respond(yes) ==
  /\ shown # NoDialog
  /\ approvals' = IF yes THEN approvals \cup {shown} ELSE approvals
  /\ Answer(shown, yes, NoDialog)
  /\ UNCHANGED <<renderer, saved, disk, saves, writes, restarts>>

\* Defect: a dialog nobody has answered counts as a yes.
OptimisticTimesOut(d) ==
  /\ d \in pending
  /\ Answer(d, TRUE, shown)
  /\ UNCHANGED <<renderer, saved, disk, saves, writes, restarts, approvals>>

\* Defect: the timer belongs to the screen, not to the request.
VisibleTimesOut(d) ==
  /\ d \in pending /\ d = shown
  /\ Answer(d, FALSE, NoDialog)
  /\ UNCHANGED <<renderer, saved, disk, saves, writes, restarts, approvals>>

\* Nobody answers within DEFAULT_TIMEOUT_MS.  The screen is not told.
TimesOut(d) ==
  /\ d \in pending
  /\ Answer(d, FALSE, shown)
  /\ UNCHANGED <<renderer, saved, disk, saves, writes, restarts, approvals>>

-----------------------------------------------------------------------------
(* Policies and settings *)

\* SettingsStore.update(): the cache changes at once, the file later.  by is
\* the dialog that waits for the update.
Save(settings, by) ==
  /\ writes < MaxSaves
  /\ writes' = writes + 1
  /\ saved' = settings
  /\ saves' = saves \cup {[number |-> writes, settings |-> settings, by |-> by]}
  /\ UNCHANGED disk

\* setPermissionPolicy: for both actors and for everyone.
SetPolicy(cap, policy, by) ==
  /\ broker' = setPolicy(setPolicy(setPolicy(broker,
                 cap, policy, "ai-orchestrator"), cap, policy, "voice-session"),
                 cap, policy, Everyone)
  /\ Save([saved EXCEPT ![cap] = policy], by)
  /\ UNCHANGED <<phase, pending, renderer, shown, restarts, asked>>

ChoosePolicy(cap, policy) ==
  SetPolicy(cap, policy, NoDialog) /\ UNCHANGED approvals

\* The person presses "Always Allow", which a consent dialog offers.
AlwaysAllow ==
  /\ shown # NoDialog
  /\ shown[2] = "consent"
  /\ approvals' = approvals \cup {shown}
  /\ SetPolicy(Needs[shown[1]], "always", shown)

\* Defect: reset clears the settings and the grants, not the policies.
HalfReset ==
  /\ broker' = [broker EXCEPT !.grants =
                  [k \in Actors \X Capabilities |->
                     IF k[2] \in KeptByReset THEN broker.grants[k] ELSE "none"]]
  /\ Save([c \in Capabilities |-> "unset"], NoDialog)
  /\ UNCHANGED <<phase, pending, renderer, shown, restarts, asked, approvals>>

ResetPermissions ==
  /\ broker' =
       [policies |-> [k \in (Actors \cup {Everyone}) \X Capabilities |->
                        IF k[2] \in KeptByReset THEN broker.policies[k] ELSE "prompt"],
        grants   |-> [k \in Actors \X Capabilities |->
                        IF k[2] \in KeptByReset THEN broker.grants[k] ELSE "none"]]
  /\ Save([c \in Capabilities |-> "unset"], NoDialog)
  /\ UNCHANGED <<phase, pending, renderer, shown, restarts, asked, approvals>>

\* updateSettings for a theme, a language ...: the same permissions again.
UpdateSettings ==
  /\ Save(saved, NoDialog)
  /\ UNCHANGED <<broker, phase, pending, renderer, shown, restarts, asked, approvals>>

\* An update ends: its file replaces the settings file, or it has failed.  Two
\* updates may end in any order.  "Always Allow" then says yes in either case,
\* and takes away whichever dialog is on screen.
SaveEnds(s) ==
  /\ saves' = saves \ {s}
  /\ disk' \in {s.settings} \cup (IF DiskMayFail THEN {disk} ELSE {})
  /\ IF s.by = NoDialog THEN UNCHANGED <<broker, phase, pending, shown, asked>>
                        ELSE Answer(s.by, TRUE, NoDialog)
  /\ UNCHANGED <<renderer, saved, writes, restarts, approvals>>

-----------------------------------------------------------------------------
(* The window and the process *)

\* The window is closed, or its page loaded again: dialogs and the handlers
\* that wait for an update are gone.
Leaves(state) ==
  /\ renderer \notin {"gone", state}
  /\ renderer' = state
  /\ shown' = NoDialog
  /\ saves' = {[s EXCEPT !.by = NoDialog] : s \in saves}
  /\ UNCHANGED <<broker, phase, pending, saved, disk, writes, restarts, asked, approvals>>

Comes(from, to) ==
  /\ renderer = from
  /\ renderer' = to
  /\ UNCHANGED <<broker, phase, pending, shown, saved, disk, saves, writes,
                 restarts, asked, approvals>>

\* The ToolRegistry's assertGranted() turns a policy "always" into a grant.
AssertGranted(actor, cap) ==
  /\ getPolicy(broker, cap, actor) = "always"
  /\ broker' = [broker EXCEPT !.grants[<<actor, cap>>] = "granted"]
  /\ UNCHANGED <<phase, pending, renderer, shown, saved, disk, saves, writes,
                 restarts, asked, approvals>>

\* The process ends, at any moment, and starts again from the settings file.
Restart ==
  /\ restarts < MaxRestarts
  /\ restarts' = restarts + 1
  /\ saved' = disk
  /\ broker' = Booted(disk)
  /\ phase' = [i \in Calls |-> IF phase[i] = "idle" THEN "idle" ELSE "lost"]
  /\ renderer' = "loading"
  /\ shown' = NoDialog
  /\ pending' = {} /\ saves' = {} /\ asked' = {} /\ approvals' = {}
  /\ UNCHANGED <<disk, writes>>

\* Everything but the beginning of a call and the end of the process.
Proceed ==
  \/ \E yes \in BOOLEAN : Respond(yes)
  \/ \E d \in Dialogs : TimesOut(d)
  \/ \E cap \in Capabilities, policy \in Policies : ChoosePolicy(cap, policy)
  \/ AlwaysAllow
  \/ ResetPermissions
  \/ UpdateSettings
  \/ \E s \in saves : SaveEnds(s)
  \/ \E state \in {"loading", "gone"} : Leaves(state)
  \/ Comes("gone", "loading") \/ Comes("loading", "ready")
  \/ \E actor \in Actors, cap \in Capabilities : AssertGranted(actor, cap)

Next ==
  \/ \E i \in Calls : Invoke(i)
  \/ Proceed
  \/ Restart

Spec == Init /\ [][Next]_consentVars

-----------------------------------------------------------------------------
(* Properties *)

Brokers ==
  [policies : [(Actors \cup {Everyone}) \X Capabilities -> Policies \cup {"unset"}],
   grants   : [Actors \X Capabilities -> {"none", "granted", "denied"}]]

TypeOK ==
  /\ broker \in Brokers
  /\ phase \in [Calls -> {"idle", "consent", "gate", "done", "refused", "lost"}]
  /\ pending \subseteq Dialogs
  /\ renderer \in {"ready", "loading", "gone"}
  /\ shown \in Dialogs \cup {NoDialog}
  /\ saved \in Settings
  /\ disk \in Settings
  /\ saves \subseteq [number : Nat, settings : Settings, by : Dialogs \cup {NoDialog}]
  /\ writes \in Nat
  /\ restarts \in Nat
  /\ asked \subseteq Dialogs
  /\ approvals \subseteq Dialogs

\* Nothing happens to the machine behind the person's back: a destructive call
\* that has had its effect asked for confirmation, and every question a call
\* with an effect has asked -- consent to its capability, confirmation -- was
\* answered yes by the person, in its own dialog.
EffectsWereApproved ==
  \A i \in Calls : phase[i] = "done" =>
    /\ i \in Gated => <<i, "gate">> \in asked
    /\ \A d \in asked : d[1] = i => d \in approvals

\* Under "Ask each time" an actor holds a grant only if the person consented to
\* one of its calls, or the bootstrap gave it and the settings are silent:
\* policies that were changed, reset or reloaded leave no grant behind.
GrantsHaveAReason ==
  \A actor \in Actors, cap \in Capabilities :
    HasGrant(actor, cap) /\ getPolicy(broker, cap, actor) = "prompt" =>
      \/ cap \in PreAuthorized /\ saved[cap] = "unset"
      \/ \E i \in Calls : /\ ActorOf[i] = actor /\ Needs[i] = cap
                          /\ <<i, "consent">> \in approvals

\* The policy the broker applies is the one the settings hold, for every actor,
\* through changes, resets and restarts.
PolicyInForceIsTheSavedOne ==
  \A actor \in Actors, cap \in Capabilities \ KeptByReset :
    getPolicy(broker, cap, actor) =
      IF saved[cap] = "unset" THEN "prompt" ELSE saved[cap]

\* A dialog is pending exactly while its call waits for it, so no answer can
\* reach a call that is elsewhere.
PendingIsAwaited ==
  \A i \in Calls, kind \in {"consent", "gate"} :
    <<i, kind>> \in pending <=> phase[i] = kind

\* "Persisted user policies ... survive application restarts"
\* (v0.1.2-release-candidate-report.md:53): once every update has ended, the
\* file says what the person chose last.
LastChoiceIsOnDisk == saves = {} => disk = saved

\* A call that asks the person gets an answer or its dialog times out, whatever
\* becomes of the window and of the other dialogs.
CallsSettle ==
  \A i \in Calls :
    phase[i] \in {"consent", "gate"} ~> phase[i] \in {"done", "refused", "lost"}

Fairness == \A d \in Dialogs : WF_consentVars(TimesOut(d))

FairSpec == Spec /\ Fairness
=============================================================================
