----------------------- MODULE CapabilityConsentProofs -----------------------
(***************************************************************************)
(* Proofs about CapabilityConsent, for every set of calls and capabilities *)
(* and every bound: ConsentInv is inductive, and PolicyInv is inductive    *)
(* relative to it.  A step that answers a dialog, the only way for a call  *)
(* to go on, is shown once (AnswerShape, AnswerGrants) and used for the    *)
(* person, the timer and the end of an update alike.                       *)
(***************************************************************************)
EXTENDS PowerActions, TLAPS

Kinds == {"consent", "gate"}

(* Types *)

LEMMA DialogFacts ==
  /\ \A i \in Calls, k \in Kinds : <<i, k>> \in Dialogs
  /\ \A d \in Dialogs : d[1] \in Calls /\ d[2] \in Kinds /\ d = <<d[1], d[2]>>
BY DEF Dialogs, Kinds

\* What a policy set through the broker leaves is a broker.
LEMMA SetPolicyType ==
  ASSUME NEW b \in Brokers, NEW cap \in Capabilities, NEW policy \in Policies,
         NEW who \in Actors \cup {Everyone}
  PROVE  setPolicy(b, cap, policy, who) \in Brokers
BY DEF setPolicy, Brokers, Policies

LEMMA BootedType ==
  ASSUME NEW settings \in Settings
  PROVE  Booted(settings) \in Brokers
BY DEF Booted, Brokers, Settings, Policies

LEMMA DecidedType ==
  ASSUME TypeOK, NEW i \in Calls, Needs[i] \in Capabilities, NEW ok \in BOOLEAN
  PROVE  Decided(i, ok) \in Brokers
BY ConstantsAssumption DEF ConstantsAssumption, TypeOK, Decided, Brokers

\* The part of the state that the steps of a call change.
CallTypes ==
  /\ phase \in [Calls -> {"idle", "consent", "gate", "done", "refused", "lost"}]
  /\ pending \subseteq Dialogs
  /\ asked \subseteq Dialogs
  /\ shown \in Dialogs \cup {NoDialog}

LEMMA AskType ==
  ASSUME TypeOK, NEW i \in Calls, NEW kind \in Kinds, NEW open \in SUBSET Dialogs,
         NEW left \in Dialogs \cup {NoDialog}, Ask(i, kind, open, left)
  PROVE  CallTypes'
BY DialogFacts DEF TypeOK, CallTypes, Ask, Kinds

LEMMA SettleType ==
  ASSUME TypeOK, NEW i \in Calls, NEW outcome \in {"done", "refused"},
         NEW open \in SUBSET Dialogs, NEW left \in Dialogs \cup {NoDialog},
         Settle(i, outcome, open, left)
  PROVE  CallTypes'
BY DEF TypeOK, CallTypes, Settle

LEMMA AfterPermissionType ==
  ASSUME TypeOK, NEW i \in Calls, NEW granted, NEW open \in SUBSET Dialogs,
         NEW left \in Dialogs \cup {NoDialog}, AfterPermission(i, granted, open, left)
  PROVE  CallTypes'
BY AskType, SettleType DEF AfterPermission, Operate, Kinds

LEMMA AnswerType ==
  ASSUME TypeOK, NEW d \in Dialogs, NEW yes \in BOOLEAN,
         NEW left \in Dialogs \cup {NoDialog}, Answer(d, yes, left),
         \A i \in Calls : <<i, "consent">> \in pending => Needs[i] \in Capabilities
  PROVE  CallTypes' /\ broker' \in Brokers
<1>1. CASE d \notin pending
  BY <1>1 DEF Answer, TypeOK, CallTypes
<1>2. CASE d \in pending /\ d[2] = "consent"
  <2>1. Needs[d[1]] \in Capabilities
    BY <1>2, DialogFacts
  <2>2. broker' = Decided(d[1], yes) /\ AfterPermission(d[1], yes, pending \ {d}, left)
    BY <1>2 DEF Answer
  <2> QED
    BY <2>1, <2>2, AfterPermissionType, DecidedType, DialogFacts DEF TypeOK
<1>3. CASE d \in pending /\ d[2] = "gate"
  <2>1. Settle(d[1], IF yes THEN "done" ELSE "refused", pending \ {d}, left)
    BY <1>3 DEF Answer
  <2> QED
    BY <1>3, <2>1, SettleType, DialogFacts DEF TypeOK, Answer
<1> QED
  BY <1>1, <1>2, <1>3, DialogFacts DEF Kinds

-----------------------------------------------------------------------------
(* What the state of a call says of its dialogs *)

\* A call asks for consent first and for confirmation last, goes on to the
\* second only with a yes to the first, and takes effect only with a yes to all.
AskedInOrder ==
  \A i \in Calls :
    /\ phase[i] = "idle" => \A k \in Kinds : <<i, k>> \notin asked
    /\ phase[i] = "consent" => <<i, "gate">> \notin asked
    /\ phase[i] \in {"gate", "done"} /\ <<i, "consent">> \in asked =>
         <<i, "consent">> \in approvals
    /\ phase[i] = "done" => /\ i \in Gated => <<i, "gate">> \in asked
                            /\ <<i, "gate">> \in asked => <<i, "gate">> \in approvals

\* Consent is asked for capabilities only, and what is pending or on screen has
\* been asked.
AskedAndShown ==
  /\ pending \subseteq asked
  /\ shown \in asked \cup {NoDialog}
  /\ \A i \in Calls : <<i, "consent">> \in asked => Needs[i] \in Capabilities

Shape == PendingIsAwaited /\ AskedInOrder /\ AskedAndShown

\* A pending update waits for a dialog in which the person said yes.
WaitersApproved == \A s \in saves : s.by \in approvals \cup {NoDialog}

ConsentInv == TypeOK /\ Shape /\ WaitersApproved

\* The dialogs of i are answered, and the others are as they were.
OnlyAnswered(i, open, left) ==
  /\ open \subseteq pending
  /\ left \in {shown, NoDialog}
  /\ \A j \in Calls, k \in Kinds : <<j, k>> \in open <=> j # i /\ <<j, k>> \in pending

LEMMA PairFacts ==
  ASSUME NEW i, NEW j, NEW k, NEW l
  PROVE  <<i, k>> = <<j, l>> <=> i = j /\ k = l
OBVIOUS

LEMMA AskShape ==
  ASSUME TypeOK, Shape, NEW i \in Calls, NEW kind \in Kinds,
         NEW open \in SUBSET Dialogs, NEW left \in Dialogs \cup {NoDialog},
         Ask(i, kind, open, left), OnlyAnswered(i, open, left),
         approvals \subseteq approvals',
         kind = "consent" => phase[i] = "idle" /\ Needs[i] \in Capabilities,
         kind = "gate" /\ <<i, "consent">> \in asked => <<i, "consent">> \in approvals'
  PROVE  Shape'
<1> USE DEF Kinds
<1>a. /\ phase' = [phase EXCEPT ![i] = kind]
      /\ pending' = open \cup {<<i, kind>>}
      /\ asked' = asked \cup {<<i, kind>>}
      /\ shown' \in {<<i, kind>>, left}
  BY DEF Ask
<1>b. \A j \in Calls : phase'[j] = IF j = i THEN kind ELSE phase[j]
  BY <1>a DEF TypeOK
<1>c. \A j \in Calls, k \in Kinds : <<j, k>> \in asked' <=> <<j, k>> \in asked \/ (j = i /\ k = kind)
  <2> SUFFICES ASSUME NEW j \in Calls, NEW k \in Kinds
               PROVE  <<j, k>> \in asked' <=> <<j, k>> \in asked \/ (j = i /\ k = kind)
    OBVIOUS
  <2>1. <<j, k>> = <<i, kind>> <=> j = i /\ k = kind
    BY PairFacts
  <2> HIDE DEF Kinds
  <2> QED
    BY <1>a, <2>1
<1>d. \A j \in Calls, k \in Kinds : <<j, k>> \in pending' <=> <<j, k>> \in open \/ (j = i /\ k = kind)
  <2> SUFFICES ASSUME NEW j \in Calls, NEW k \in Kinds
               PROVE  <<j, k>> \in pending' <=> <<j, k>> \in open \/ (j = i /\ k = kind)
    OBVIOUS
  <2>1. <<j, k>> = <<i, kind>> <=> j = i /\ k = kind
    BY PairFacts
  <2> HIDE DEF Kinds
  <2> QED
    BY <1>a, <2>1
<1>1. PendingIsAwaited'
  <2> SUFFICES ASSUME NEW j \in Calls, NEW k \in Kinds
               PROVE  <<j, k>> \in pending' <=> phase'[j] = k
    BY DEF PendingIsAwaited
  <2>1. <<j, k>> \in pending <=> phase[j] = k
    BY DEF PendingIsAwaited, Shape
  <2>2. <<j, k>> \in open <=> j # i /\ <<j, k>> \in pending
    BY DEF OnlyAnswered
  <2> QED
    BY <1>b, <1>d, <2>1, <2>2
<1>2. AskedInOrder'
  BY <1>b, <1>c DEF AskedInOrder, Shape
<1>3. AskedAndShown'
  BY <1>a, <1>c DEF AskedAndShown, Shape, OnlyAnswered
<1> QED
  BY <1>1, <1>2, <1>3 DEF Shape

LEMMA SettleShape ==
  ASSUME TypeOK, Shape, NEW i \in Calls, NEW outcome \in {"done", "refused"},
         NEW open \in SUBSET Dialogs, NEW left \in Dialogs \cup {NoDialog},
         Settle(i, outcome, open, left), OnlyAnswered(i, open, left),
         approvals \subseteq approvals',
         outcome = "done" =>
           /\ \A k \in Kinds : <<i, k>> \in asked => <<i, k>> \in approvals'
           /\ i \in Gated => <<i, "gate">> \in asked
  PROVE  Shape'
<1> USE DEF Kinds
<1>a. /\ phase' = [phase EXCEPT ![i] = outcome]
      /\ pending' = open
      /\ asked' = asked
      /\ shown' = left
  BY DEF Settle
<1>b. \A j \in Calls : phase'[j] = IF j = i THEN outcome ELSE phase[j]
  BY <1>a DEF TypeOK
<1>1. PendingIsAwaited'
  BY <1>a, <1>b DEF PendingIsAwaited, Shape, OnlyAnswered
<1>2. AskedInOrder'
  BY <1>a, <1>b DEF AskedInOrder, Shape
<1>3. AskedAndShown'
  BY <1>a DEF AskedAndShown, Shape, OnlyAnswered
<1> QED
  BY <1>1, <1>2, <1>3 DEF Shape

LEMMA AfterPermissionShape ==
  ASSUME TypeOK, Shape, NEW i \in Calls, NEW granted \in BOOLEAN,
         NEW open \in SUBSET Dialogs, NEW left \in Dialogs \cup {NoDialog},
         AfterPermission(i, granted, open, left), OnlyAnswered(i, open, left),
         approvals \subseteq approvals',
         <<i, "gate">> \notin asked,
         granted /\ <<i, "consent">> \in asked => <<i, "consent">> \in approvals'
  PROVE  Shape'
<1>1. CASE Settle(i, "refused", open, left)
  BY <1>1, SettleShape
<1>2. CASE granted /\ i \notin Gated /\ Settle(i, "done", open, left)
  BY <1>2, SettleShape DEF Kinds
<1>3. CASE granted /\ Ask(i, "gate", open, left)
  BY <1>3, AskShape DEF Kinds
<1> QED
  BY <1>1, <1>2, <1>3 DEF AfterPermission, Operate

LEMMA AnswerShape ==
  ASSUME TypeOK, Shape, NEW d \in Dialogs, NEW yes \in BOOLEAN,
         NEW left \in {shown, NoDialog}, Answer(d, yes, left),
         approvals \subseteq approvals', yes => d \in approvals'
  PROVE  Shape' /\ CallTypes' /\ broker' \in Brokers
<1> USE DEF Kinds
<1>1. CallTypes' /\ broker' \in Brokers
  BY AnswerType DEF TypeOK, Shape, AskedAndShown
<1>2. CASE d \notin pending
  <2>1. UNCHANGED <<phase, pending, asked>> /\ shown' = left
    BY <1>2 DEF Answer
  <2> QED
    BY <1>1, <2>1 DEF Shape, PendingIsAwaited, AskedInOrder, AskedAndShown
<1>3. CASE d \in pending
  <2> DEFINE i == d[1]  open == pending \ {d}
  <2>1. i \in Calls /\ d[2] \in Kinds /\ d = <<i, d[2]>>
    BY DialogFacts
  <2>2. phase[i] = d[2]
    BY <1>3, <2>1 DEF Shape, PendingIsAwaited
  <2>3. \A j \in Calls, k \in Kinds : <<j, k>> \in open <=> j # i /\ <<j, k>> \in pending
    BY <2>1, <2>2, PairFacts DEF Shape, PendingIsAwaited
  <2>4. OnlyAnswered(i, open, left) /\ open \in SUBSET Dialogs /\ left \in Dialogs \cup {NoDialog}
    BY <2>3 DEF OnlyAnswered, TypeOK
  <2>5. CASE d[2] = "consent"
    <3>1. AfterPermission(i, yes, open, left)
      BY <1>3, <2>5 DEF Answer
    <3>2. <<i, "gate">> \notin asked
      BY <2>1, <2>2, <2>5 DEF Shape, AskedInOrder
    <3>3. yes => <<i, "consent">> \in approvals'
      BY <2>1, <2>5
    <3> HIDE DEF i, open
    <3> QED
      BY <1>1, <2>1, <2>4, <3>1, <3>2, <3>3, AfterPermissionShape
  <2>6. CASE d[2] = "gate"
    <3>1. Settle(i, IF yes THEN "done" ELSE "refused", open, left)
      BY <1>3, <2>6 DEF Answer
    <3>2. <<i, "gate">> \in asked
      BY <1>3, <2>1, <2>6 DEF Shape, AskedAndShown
    <3>3. yes => \A k \in Kinds : <<i, k>> \in asked => <<i, k>> \in approvals'
      BY <2>1, <2>2, <2>6 DEF Shape, AskedInOrder
    <3> HIDE DEF i, open
    <3> QED
      BY <1>1, <2>1, <2>4, <3>1, <3>2, <3>3, SettleShape
  <2> QED
    BY <2>1, <2>5, <2>6
<1> QED
  BY <1>1, <1>2, <1>3

-----------------------------------------------------------------------------
(* Every step keeps the invariant *)

LEMMA ConsentInit == Init => ConsentInv
<1> SUFFICES ASSUME Init PROVE ConsentInv
  OBVIOUS
<1>1. TypeOK
  BY BootedType, ConstantsAssumption DEF ConstantsAssumption, Init, TypeOK
<1>2. Shape
  BY DEF Init, Shape, PendingIsAwaited, AskedInOrder, AskedAndShown, Kinds
<1>3. WaitersApproved
  BY DEF Init, WaitersApproved
<1> QED
  BY <1>1, <1>2, <1>3 DEF ConsentInv

\* The parts of TypeOK that the steps of a call leave alone.
Elsewhere == <<renderer, saved, disk, saves, writes, restarts>>

LEMMA InvokeKeeps ==
  ASSUME ConsentInv, NEW i \in Calls, Invoke(i)
  PROVE  ConsentInv'
<1> USE DEF ConsentInv
<1>1. phase[i] = "idle" /\ UNCHANGED Elsewhere /\ UNCHANGED approvals
  BY DEF Invoke, Elsewhere
<1>2. OnlyAnswered(i, pending, shown)
  <2>1. \A k \in Kinds : <<i, k>> \notin pending
    BY <1>1 DEF Shape, PendingIsAwaited, Kinds
  <2> QED
    BY <2>1 DEF OnlyAnswered
<1>3. pending \in SUBSET Dialogs /\ shown \in Dialogs \cup {NoDialog}
  BY DEF TypeOK
<1>4. \A k \in Kinds : <<i, k>> \notin asked
  BY <1>1 DEF Shape, AskedInOrder
<1>5. CallTypes' /\ broker' \in Brokers /\ Shape'
  <2>1. CASE /\ Needs[i] = NoCapability
             /\ AfterPermission(i, TRUE, pending, shown)
             /\ UNCHANGED broker
    BY <2>1, <1>1, <1>2, <1>3, <1>4, AfterPermissionType, AfterPermissionShape DEF TypeOK, Kinds
  <2>2. CASE /\ Needs[i] # NoCapability
             /\ Ask(i, "consent", pending, shown) /\ UNCHANGED broker
    <3>1. Needs[i] \in Capabilities
      BY <2>2, ConstantsAssumption DEF ConstantsAssumption
    <3> QED
      BY <2>2, <3>1, <1>1, <1>2, <1>3, AskType, AskShape DEF TypeOK, Kinds
  <2>3. ASSUME NEW ok \in BOOLEAN, Needs[i] # NoCapability, broker' = Decided(i, ok),
               AfterPermission(i, ok, pending, shown)
        PROVE  CallTypes' /\ broker' \in Brokers /\ Shape'
    <3>1. Needs[i] \in Capabilities
      BY <2>3, ConstantsAssumption DEF ConstantsAssumption
    <3> QED
      BY <2>3, <3>1, <1>1, <1>2, <1>3, <1>4, DecidedType, AfterPermissionType,
         AfterPermissionShape DEF Kinds
  <2> QED
    BY <2>1, <2>2, <2>3 DEF Invoke
<1>6. TypeOK'
  BY <1>1, <1>5 DEF TypeOK, CallTypes, Elsewhere
<1>7. WaitersApproved'
  BY <1>1 DEF WaitersApproved, Elsewhere
<1> QED
  BY <1>5, <1>6, <1>7

LEMMA RespondKeeps ==
  ASSUME ConsentInv, NEW yes \in BOOLEAN, Respond(yes)
  PROVE  ConsentInv'
<1> USE DEF ConsentInv
<1>1. /\ shown # NoDialog /\ UNCHANGED Elsewhere /\ Answer(shown, yes, NoDialog)
      /\ approvals' = IF yes THEN approvals \cup {shown} ELSE approvals
  BY DEF Respond, Elsewhere
<1>2. shown \in Dialogs
  BY <1>1 DEF TypeOK
<1>3. Shape' /\ CallTypes' /\ broker' \in Brokers
  BY <1>1, <1>2, AnswerShape
<1>4. TypeOK'
  BY <1>1, <1>2, <1>3 DEF TypeOK, CallTypes, Elsewhere
<1>5. WaitersApproved'
  BY <1>1 DEF WaitersApproved, Elsewhere
<1> QED
  BY <1>3, <1>4, <1>5

LEMMA TimesOutKeeps ==
  ASSUME ConsentInv, NEW d \in Dialogs, TimesOut(d)
  PROVE  ConsentInv'
<1> USE DEF ConsentInv
<1>1. UNCHANGED Elsewhere /\ UNCHANGED approvals /\ Answer(d, FALSE, shown)
  BY DEF TimesOut, Elsewhere
<1>2. Shape' /\ CallTypes' /\ broker' \in Brokers
  BY <1>1, AnswerShape
<1>3. TypeOK'
  BY <1>1, <1>2 DEF TypeOK, CallTypes, Elsewhere
<1>4. WaitersApproved'
  BY <1>1 DEF WaitersApproved, Elsewhere
<1> QED
  BY <1>2, <1>3, <1>4

LEMMA SaveEndsKeeps ==
  ASSUME ConsentInv, NEW s \in saves, SaveEnds(s)
  PROVE  ConsentInv'
<1> USE DEF ConsentInv
<1>1. /\ saves' = saves \ {s} /\ disk' \in {s.settings, disk}
      /\ UNCHANGED <<renderer, saved, writes, restarts, approvals>>
  BY DEF SaveEnds
<1>2. s.settings \in Settings /\ s.by \in Dialogs \cup {NoDialog}
  BY DEF TypeOK
<1>3. Shape' /\ CallTypes' /\ broker' \in Brokers
  <2>1. CASE s.by = NoDialog
    <3>1. UNCHANGED <<broker, phase, pending, shown, asked>>
      BY <2>1 DEF SaveEnds
    <3> QED
      BY <1>1, <3>1 DEF Shape, PendingIsAwaited, AskedInOrder, AskedAndShown, CallTypes, TypeOK
  <2>2. CASE s.by # NoDialog
    <3>1. Answer(s.by, TRUE, NoDialog)
      BY <2>2 DEF SaveEnds
    <3>2. s.by \in Dialogs /\ s.by \in approvals'
      BY <1>1, <1>2, <2>2 DEF WaitersApproved
    <3> QED
      BY <1>1, <3>1, <3>2, AnswerShape
  <2> QED
    BY <2>1, <2>2
<1>4. TypeOK'
  BY <1>1, <1>2, <1>3 DEF TypeOK, CallTypes
<1>5. WaitersApproved'
  BY <1>1 DEF WaitersApproved
<1> QED
  BY <1>3, <1>4, <1>5

-----------------------------------------------------------------------------
(* The steps that leave the calls and their dialogs alone *)

\* What Shape speaks of, and approvals growing.
CallsKept ==
  /\ UNCHANGED <<phase, pending, asked>>
  /\ shown' \in {shown, NoDialog}
  /\ approvals \subseteq approvals'

LEMMA KeptShape ==
  ASSUME ConsentInv, CallsKept
  PROVE  Shape' /\ CallTypes'
<1>1. PendingIsAwaited' /\ AskedInOrder' /\ AskedAndShown'
  BY DEF ConsentInv, Shape, PendingIsAwaited, AskedInOrder, AskedAndShown, CallsKept
<1>2. CallTypes'
  BY DEF ConsentInv, TypeOK, CallsKept, CallTypes
<1> QED
  BY <1>1, <1>2 DEF Shape

LEMMA SaveFacts ==
  ASSUME ConsentInv, NEW settings \in Settings, NEW by \in Dialogs \cup {NoDialog},
         Save(settings, by), approvals \subseteq approvals',
         by \in approvals' \cup {NoDialog}
  PROVE  /\ WaitersApproved'
         /\ saves' \subseteq [number : Nat, settings : Settings, by : Dialogs \cup {NoDialog}]
         /\ saved' \in Settings /\ disk' \in Settings /\ writes' \in Nat
<1> DEFINE s == [number |-> writes, settings |-> settings, by |-> by]
<1>1. s \in [number : Nat, settings : Settings, by : Dialogs \cup {NoDialog}] /\ s.by = by
  BY DEF ConsentInv, TypeOK
<1>2. saves' = saves \cup {s} /\ saved' = settings /\ disk' = disk /\ writes' = writes + 1
  BY DEF Save
<1>3. WaitersApproved'
  BY <1>1, <1>2 DEF ConsentInv, WaitersApproved
<1> QED
  BY <1>1, <1>2, <1>3 DEF ConsentInv, TypeOK

LEMMA SetPolicyKeeps ==
  ASSUME ConsentInv, NEW cap \in Capabilities, NEW policy \in Policies,
         NEW by \in Dialogs \cup {NoDialog}, SetPolicy(cap, policy, by),
         approvals \subseteq approvals', approvals' \subseteq Dialogs,
         by \in approvals' \cup {NoDialog}
  PROVE  ConsentInv'
<1> DEFINE settings == [saved EXCEPT ![cap] = policy]
<1>1. /\ Save(settings, by)
      /\ UNCHANGED <<phase, pending, renderer, shown, restarts, asked>>
  BY DEF SetPolicy
<1>2. settings \in Settings
  BY DEF ConsentInv, TypeOK, Settings
<1>3. Shape' /\ CallTypes'
  BY <1>1, KeptShape DEF CallsKept
<1>4. broker' \in Brokers
  <2>1. broker \in Brokers /\ {"ai-orchestrator", "voice-session"} \subseteq Actors
    BY DEF ConsentInv, TypeOK, Actors
  <2>2. setPolicy(broker, cap, policy, "ai-orchestrator") \in Brokers
    BY <2>1, SetPolicyType
  <2>3. setPolicy(setPolicy(broker, cap, policy, "ai-orchestrator"),
                  cap, policy, "voice-session") \in Brokers
    BY <2>1, <2>2, SetPolicyType
  <2> QED
    BY <2>3, SetPolicyType DEF SetPolicy
<1> HIDE DEF settings
<1>5. /\ WaitersApproved'
      /\ saves' \subseteq [number : Nat, settings : Settings, by : Dialogs \cup {NoDialog}]
      /\ saved' \in Settings /\ disk' \in Settings /\ writes' \in Nat
  BY <1>1, <1>2, SaveFacts
<1>6. TypeOK'
  BY <1>1, <1>3, <1>4, <1>5 DEF ConsentInv, TypeOK, CallTypes
<1> QED
  BY <1>3, <1>5, <1>6 DEF ConsentInv

LEMMA AlwaysAllowKeeps ==
  ASSUME ConsentInv, AlwaysAllow
  PROVE  ConsentInv'
<1>1. /\ shown # NoDialog /\ shown[2] = "consent" /\ approvals' = approvals \cup {shown}
      /\ SetPolicy(Needs[shown[1]], "always", shown)
  BY DEF AlwaysAllow
<1>2. shown \in Dialogs
  BY <1>1 DEF ConsentInv, TypeOK
<1>3. Needs[shown[1]] \in Capabilities
  BY <1>1, <1>2, DialogFacts DEF ConsentInv, Shape, AskedAndShown
<1>4. approvals \subseteq approvals' /\ approvals' \subseteq Dialogs
  BY <1>1, <1>2 DEF ConsentInv, TypeOK
<1> QED
  BY <1>1, <1>2, <1>3, <1>4, SetPolicyKeeps DEF Policies

LEMMA ChoosePolicyKeeps ==
  ASSUME ConsentInv, NEW cap \in Capabilities, NEW policy \in Policies,
         ChoosePolicy(cap, policy)
  PROVE  ConsentInv'
<1>1. SetPolicy(cap, policy, NoDialog) /\ approvals' = approvals
  BY DEF ChoosePolicy
<1> QED
  BY <1>1, SetPolicyKeeps DEF ConsentInv, TypeOK

LEMMA ResetPermissionsKeeps ==
  ASSUME ConsentInv, ResetPermissions
  PROVE  ConsentInv'
<1> DEFINE settings == [c \in Capabilities |-> "unset"]
<1>1. /\ Save(settings, NoDialog)
      /\ UNCHANGED <<phase, pending, renderer, shown, restarts, asked, approvals>>
  BY DEF ResetPermissions
<1>2. settings \in Settings
  BY DEF Settings
<1>3. Shape' /\ CallTypes'
  BY <1>1, KeptShape DEF CallsKept
<1>4. broker' \in Brokers
  BY DEF ResetPermissions, ConsentInv, TypeOK, Brokers, Policies
<1> HIDE DEF settings
<1>5. /\ WaitersApproved'
      /\ saves' \subseteq [number : Nat, settings : Settings, by : Dialogs \cup {NoDialog}]
      /\ saved' \in Settings /\ disk' \in Settings /\ writes' \in Nat
  BY <1>1, <1>2, SaveFacts
<1>6. TypeOK'
  BY <1>1, <1>3, <1>4, <1>5 DEF ConsentInv, TypeOK, CallTypes
<1> QED
  BY <1>3, <1>5, <1>6 DEF ConsentInv

LEMMA UpdateSettingsKeeps ==
  ASSUME ConsentInv, UpdateSettings
  PROVE  ConsentInv'
<1>1. /\ Save(saved, NoDialog)
      /\ UNCHANGED <<broker, phase, pending, renderer, shown, restarts, asked, approvals>>
  BY DEF UpdateSettings
<1>2. saved \in Settings
  BY DEF ConsentInv, TypeOK
<1>3. Shape' /\ CallTypes'
  BY <1>1, KeptShape DEF CallsKept
<1>4. /\ WaitersApproved'
      /\ saves' \subseteq [number : Nat, settings : Settings, by : Dialogs \cup {NoDialog}]
      /\ saved' \in Settings /\ disk' \in Settings /\ writes' \in Nat
  BY <1>1, <1>2, SaveFacts
<1>5. TypeOK'
  BY <1>1, <1>3, <1>4 DEF ConsentInv, TypeOK, CallTypes
<1> QED
  BY <1>3, <1>4, <1>5 DEF ConsentInv

LEMMA LeavesKeeps ==
  ASSUME ConsentInv, NEW state \in {"loading", "gone"}, Leaves(state)
  PROVE  ConsentInv'
<1>1. /\ renderer' = state /\ shown' = NoDialog
      /\ saves' = {[s EXCEPT !.by = NoDialog] : s \in saves}
      /\ UNCHANGED <<broker, phase, pending, saved, disk, writes, restarts, asked, approvals>>
  BY DEF Leaves
<1>2. Shape' /\ CallTypes'
  BY <1>1, KeptShape DEF CallsKept
<1>3. \A s \in saves' :
        /\ s \in [number : Nat, settings : Settings, by : Dialogs \cup {NoDialog}]
        /\ s.by = NoDialog
  BY <1>1 DEF ConsentInv, TypeOK
<1>4. TypeOK'
  BY <1>1, <1>2, <1>3 DEF ConsentInv, TypeOK, CallTypes
<1>5. WaitersApproved'
  BY <1>3 DEF WaitersApproved
<1> QED
  BY <1>2, <1>4, <1>5 DEF ConsentInv

LEMMA ComesKeeps ==
  ASSUME ConsentInv, NEW from, NEW to \in {"loading", "ready"}, Comes(from, to)
  PROVE  ConsentInv'
<1>1. /\ renderer' = to
      /\ UNCHANGED <<broker, phase, pending, shown, saved, disk, saves, writes,
                     restarts, asked, approvals>>
  BY DEF Comes
<1>2. Shape' /\ CallTypes'
  BY <1>1, KeptShape DEF CallsKept
<1>3. TypeOK' /\ WaitersApproved'
  BY <1>1, <1>2 DEF ConsentInv, TypeOK, CallTypes, WaitersApproved
<1> QED
  BY <1>2, <1>3 DEF ConsentInv

LEMMA AssertGrantedKeeps ==
  ASSUME ConsentInv, NEW actor \in Actors, NEW cap \in Capabilities, AssertGranted(actor, cap)
  PROVE  ConsentInv'
<1>1. /\ broker' = [broker EXCEPT !.grants[<<actor, cap>>] = "granted"]
      /\ UNCHANGED <<phase, pending, renderer, shown, saved, disk, saves, writes,
                     restarts, asked, approvals>>
  BY DEF AssertGranted
<1>2. Shape' /\ CallTypes'
  BY <1>1, KeptShape DEF CallsKept
<1>3. broker' \in Brokers
  BY <1>1 DEF ConsentInv, TypeOK, Brokers
<1>4. TypeOK' /\ WaitersApproved'
  BY <1>1, <1>2, <1>3 DEF ConsentInv, TypeOK, CallTypes, WaitersApproved
<1> QED
  BY <1>2, <1>4 DEF ConsentInv

LEMMA RestartKeeps ==
  ASSUME ConsentInv, Restart
  PROVE  ConsentInv'
<1>1. /\ restarts' = restarts + 1 /\ saved' = disk /\ broker' = Booted(disk)
      /\ phase' = [i \in Calls |-> IF phase[i] = "idle" THEN "idle" ELSE "lost"]
      /\ renderer' = "loading" /\ shown' = NoDialog /\ pending' = {} /\ saves' = {}
      /\ asked' = {} /\ approvals' = {} /\ UNCHANGED <<disk, writes>>
  BY DEF Restart
<1>2. TypeOK'
  BY <1>1, BootedType DEF ConsentInv, TypeOK
<1>3. \A i \in Calls : phase'[i] \in {"idle", "lost"}
  BY <1>1
<1>4. Shape'
  BY <1>1, <1>3 DEF Shape, PendingIsAwaited, AskedInOrder, AskedAndShown, Kinds
<1>5. WaitersApproved'
  BY <1>1 DEF WaitersApproved
<1> QED
  BY <1>2, <1>4, <1>5 DEF ConsentInv

LEMMA ProceedKeeps ==
  ASSUME ConsentInv, Proceed
  PROVE  ConsentInv'
BY RespondKeeps, TimesOutKeeps, ChoosePolicyKeeps, AlwaysAllowKeeps, ResetPermissionsKeeps,
   UpdateSettingsKeeps, SaveEndsKeeps, LeavesKeeps, ComesKeeps, AssertGrantedKeeps DEF Proceed

LEMMA StutterKeeps ==
  ASSUME ConsentInv, UNCHANGED consentVars
  PROVE  ConsentInv'
BY DEF ConsentInv, consentVars, TypeOK, Shape, PendingIsAwaited, AskedInOrder,
       AskedAndShown, WaitersApproved

\* ConsentInv is inductive: the type invariant needs that consent is asked for
\* capabilities only, and that what is answered waits.
THEOREM ConsentInvariant == Spec => []ConsentInv
<1>1. ConsentInv /\ [Next]_consentVars => ConsentInv'
  <2> SUFFICES ASSUME ConsentInv, [Next]_consentVars PROVE ConsentInv'
    OBVIOUS
  <2> QED
    BY InvokeKeeps, ProceedKeeps, RestartKeeps, StutterKeeps DEF Next
<1> QED
  BY ConsentInit, <1>1, PTL DEF Spec

LEMMA InvariantsFollow ==
  ASSUME ConsentInv
  PROVE  TypeOK /\ PendingIsAwaited /\ EffectsWereApproved
<1>1. EffectsWereApproved
  <2> SUFFICES ASSUME NEW i \in Calls, phase[i] = "done"
               PROVE  /\ i \in Gated => <<i, "gate">> \in asked
                      /\ \A d \in asked : d[1] = i => d \in approvals
    BY DEF EffectsWereApproved
  <2>1. ASSUME NEW d \in asked, d[1] = i PROVE d \in approvals
    <3>1. d[2] \in Kinds /\ d = <<i, d[2]>>
      BY <2>1, DialogFacts DEF ConsentInv, TypeOK
    <3> QED
      BY <2>1, <3>1 DEF ConsentInv, Shape, AskedInOrder, Kinds
  <2> QED
    BY <2>1 DEF ConsentInv, Shape, AskedInOrder
<1> QED
  BY <1>1 DEF ConsentInv, Shape

\* The type invariant of the broker, the bridge and the settings.
THEOREM ConsentTypeCorrect == Spec => []TypeOK
BY ConsentInvariant, InvariantsFollow, PTL

\* A dialog is pending exactly while its call waits for it.
THEOREM DialogsAreAwaited == Spec => []PendingIsAwaited
BY ConsentInvariant, InvariantsFollow, PTL

\* No call has an effect without the person's yes to every question it asked,
\* for any calls, policies, timeouts, restarts and failing disks.
THEOREM EffectsAreApproved == Spec => []EffectsWereApproved
BY ConsentInvariant, InvariantsFollow, PTL

-----------------------------------------------------------------------------
(* Policies and grants *)

\* The person has consented to a call of the actor that needs the capability.
Consented(actor, cap) ==
  \E i \in Calls : /\ ActorOf[i] = actor /\ Needs[i] = cap
                   /\ <<i, "consent">> \in approvals

\* A grant on record, in force or not, has a reason: GrantsHaveAReason with
\* the grants that a policy hides.
Reasoned ==
  \A actor \in Actors, cap \in Capabilities :
    broker.grants[<<actor, cap>>] = "granted" =>
      \/ getPolicy(broker, cap, actor) = "always"
      \/ cap \in PreAuthorized /\ saved[cap] = "unset"
      \/ Consented(actor, cap)

PolicyInv == PolicyInForceIsTheSavedOne /\ Reasoned

LEMMA KeyFacts ==
  /\ \A actor \in Actors, cap \in Capabilities :
       /\ <<actor, cap>> \in Actors \X Capabilities
       /\ <<actor, cap>> \in (Actors \cup {Everyone}) \X Capabilities
       /\ <<Everyone, cap>> \in (Actors \cup {Everyone}) \X Capabilities
  /\ Everyone \notin Actors
  /\ Actors = {"ai-orchestrator", "voice-session"}
BY DEF Actors, Everyone

\* A step that leaves the policies alone and gives grants with a reason only.
GrantStep ==
  /\ broker'.policies = broker.policies
  /\ saved' = saved
  /\ approvals \subseteq approvals'
  /\ \A actor \in Actors, cap \in Capabilities :
       broker'.grants[<<actor, cap>>] = "granted" =>
         \/ broker.grants[<<actor, cap>>] = "granted"
         \/ getPolicy(broker, cap, actor) = "always"
         \/ Consented(actor, cap)'

LEMMA GrantStepKeeps ==
  ASSUME PolicyInv, GrantStep
  PROVE  PolicyInv'
<1>1. \A actor \in Actors, cap \in Capabilities :
        getPolicy(broker, cap, actor)' = getPolicy(broker, cap, actor)
  BY DEF GrantStep, getPolicy
<1>2. \A actor \in Actors, cap \in Capabilities :
        Consented(actor, cap) => Consented(actor, cap)'
  BY DEF GrantStep, Consented
<1>3. PolicyInForceIsTheSavedOne'
  BY <1>1 DEF PolicyInv, PolicyInForceIsTheSavedOne, GrantStep
<1>4. Reasoned'
  <2> SUFFICES ASSUME NEW actor \in Actors, NEW cap \in Capabilities,
                      broker'.grants[<<actor, cap>>] = "granted"
               PROVE  \/ getPolicy(broker, cap, actor)' = "always"
                      \/ cap \in PreAuthorized /\ saved'[cap] = "unset"
                      \/ Consented(actor, cap)'
    BY DEF Reasoned
  <2>1. \/ broker.grants[<<actor, cap>>] = "granted"
        \/ getPolicy(broker, cap, actor) = "always"
        \/ Consented(actor, cap)'
    BY DEF GrantStep
  <2>2. saved' = saved
    BY DEF GrantStep
  <2> QED
    BY <1>1, <1>2, <2>1, <2>2 DEF PolicyInv, Reasoned
<1> QED
  BY <1>3, <1>4 DEF PolicyInv

LEMMA DecidedFacts ==
  ASSUME TypeOK, NEW i \in Calls, Needs[i] \in Capabilities, NEW ok \in BOOLEAN
  PROVE  /\ Decided(i, ok).policies = broker.policies
         /\ \A k \in Actors \X Capabilities :
              Decided(i, ok).grants[k] =
                IF k = <<ActorOf[i], Needs[i]>>
                THEN IF ok THEN "granted" ELSE "denied" ELSE broker.grants[k]
BY ConstantsAssumption DEF ConstantsAssumption, TypeOK, Decided, Brokers

LEMMA DecidedStep ==
  ASSUME TypeOK, NEW i \in Calls, Needs[i] \in Capabilities, NEW ok \in BOOLEAN,
         broker' = Decided(i, ok), saved' = saved, approvals \subseteq approvals',
         ok => \/ getPolicy(broker, Needs[i], ActorOf[i]) = "always"
               \/ <<i, "consent">> \in approvals'
  PROVE  GrantStep
<1> SUFFICES ASSUME NEW actor \in Actors, NEW cap \in Capabilities,
                    broker'.grants[<<actor, cap>>] = "granted"
             PROVE  \/ broker.grants[<<actor, cap>>] = "granted"
                    \/ getPolicy(broker, cap, actor) = "always"
                    \/ Consented(actor, cap)'
  BY DecidedFacts DEF GrantStep
<1>1. CASE <<actor, cap>> = <<ActorOf[i], Needs[i]>>
  <2>1. ok /\ actor = ActorOf[i] /\ cap = Needs[i]
    BY <1>1, DecidedFacts, KeyFacts
  <2> QED
    BY <2>1 DEF Consented
<1>2. CASE <<actor, cap>> # <<ActorOf[i], Needs[i]>>
  BY <1>2, DecidedFacts, KeyFacts
<1> QED
  BY <1>1, <1>2

LEMMA SameGrants ==
  ASSUME UNCHANGED <<broker, saved>>, approvals \subseteq approvals'
  PROVE  GrantStep
BY DEF GrantStep

LEMMA InvokeGrants ==
  ASSUME ConsentInv, NEW i \in Calls, Invoke(i)
  PROVE  GrantStep
<1>1. UNCHANGED <<saved, approvals>>
  BY DEF Invoke
<1>2. \/ UNCHANGED broker
      \/ /\ Needs[i] # NoCapability
         /\ broker' = Decided(i, getPolicy(broker, Needs[i], ActorOf[i]) = "always")
  BY DEF Invoke
<1>3. CASE UNCHANGED broker
  BY <1>1, <1>3, SameGrants
<1>4. CASE /\ Needs[i] # NoCapability
           /\ broker' = Decided(i, getPolicy(broker, Needs[i], ActorOf[i]) = "always")
  <2>1. Needs[i] \in Capabilities
    BY <1>4, ConstantsAssumption DEF ConstantsAssumption
  <2> DEFINE ok == getPolicy(broker, Needs[i], ActorOf[i]) = "always"
  <2>2. ok \in BOOLEAN /\ broker' = Decided(i, ok)
    BY <1>4
  <2>3. ok => getPolicy(broker, Needs[i], ActorOf[i]) = "always"
    OBVIOUS
  <2> HIDE DEF ok
  <2> QED
    BY <1>1, <2>1, <2>2, <2>3, DecidedStep DEF ConsentInv
<1> QED
  BY <1>2, <1>3, <1>4

LEMMA AnswerGrants ==
  ASSUME ConsentInv, NEW d \in Dialogs, NEW yes \in BOOLEAN, NEW left, Answer(d, yes, left),
         saved' = saved, approvals \subseteq approvals', yes => d \in approvals'
  PROVE  GrantStep
<1>1. CASE d \in pending /\ d[2] = "consent"
  <2>1. d[1] \in Calls /\ d = <<d[1], "consent">>
    BY <1>1, DialogFacts
  <2>2. Needs[d[1]] \in Capabilities
    BY <1>1, <2>1 DEF ConsentInv, Shape, AskedAndShown
  <2>3. broker' = Decided(d[1], yes)
    BY <1>1 DEF Answer
  <2> QED
    BY <2>1, <2>2, <2>3, DecidedStep DEF ConsentInv
<1>2. CASE ~(d \in pending /\ d[2] = "consent")
  <2>1. UNCHANGED broker
    BY <1>2 DEF Answer
  <2> QED
    BY <2>1, SameGrants
<1> QED
  BY <1>1, <1>2

LEMMA AssertGrantedGrants ==
  ASSUME ConsentInv, NEW actor \in Actors, NEW cap \in Capabilities, AssertGranted(actor, cap)
  PROVE  GrantStep
<1>1. /\ broker' = [broker EXCEPT !.grants[<<actor, cap>>] = "granted"]
      /\ getPolicy(broker, cap, actor) = "always" /\ UNCHANGED <<saved, approvals>>
  BY DEF AssertGranted
<1>2. /\ broker'.policies = broker.policies
      /\ \A k \in Actors \X Capabilities :
           broker'.grants[k] = IF k = <<actor, cap>> THEN "granted" ELSE broker.grants[k]
  BY <1>1 DEF ConsentInv, TypeOK, Brokers
<1>3. \A a \in Actors, c \in Capabilities :
        <<a, c>> = <<actor, cap>> => a = actor /\ c = cap
  OBVIOUS
<1> QED
  BY <1>1, <1>2, <1>3, KeyFacts DEF GrantStep

\* What one call of setPolicy() leaves for each key.
LEMMA SetPolicyFacts ==
  ASSUME NEW b \in Brokers, NEW cap \in Capabilities, NEW policy \in Policies,
         NEW who \in Actors \cup {Everyone}
  PROVE  /\ \A k \in (Actors \cup {Everyone}) \X Capabilities :
              setPolicy(b, cap, policy, who).policies[k] =
                IF k = <<who, cap>> THEN policy ELSE b.policies[k]
         /\ \A k \in Actors \X Capabilities :
              /\ k[2] # cap => setPolicy(b, cap, policy, who).grants[k] = b.grants[k]
              /\ setPolicy(b, cap, policy, who).grants[k] = "granted" =>
                   \/ policy = "always"
                   \/ k # <<who, cap>> /\ b.grants[k] = "granted"
<1> DEFINE Touched == IF who # Everyone THEN {<<who, cap>>}
                      ELSE IF policy = "always" THEN {}
                      ELSE {k \in Actors \X {cap} : b.grants[k] # "none"}
           Outcome == CASE policy = "always" -> "granted"
                        [] policy = "denied" -> "denied"
                        [] OTHER -> "none"
<1>1. /\ setPolicy(b, cap, policy, who).policies = [b.policies EXCEPT ![<<who, cap>>] = policy]
      /\ setPolicy(b, cap, policy, who).grants =
           [k \in Actors \X Capabilities |-> IF k \in Touched THEN Outcome ELSE b.grants[k]]
  BY DEF setPolicy
<1>2. \A k \in Touched : k[2] = cap
  OBVIOUS
<1>3. Outcome = "granted" => policy = "always"
  BY DEF Policies
<1>4. \A k \in Actors \X Capabilities : k = <<who, cap>> => k \in Touched
  BY KeyFacts
<1> HIDE DEF Touched, Outcome
<1>5. \A k \in (Actors \cup {Everyone}) \X Capabilities :
        setPolicy(b, cap, policy, who).policies[k] =
          IF k = <<who, cap>> THEN policy ELSE b.policies[k]
  BY <1>1 DEF Brokers
<1> QED
  BY <1>1, <1>2, <1>3, <1>4, <1>5

\* The handler sets the policy under every key of the capability, and leaves
\* no grant but those of "always".
LEMMA SetPolicyAll ==
  ASSUME ConsentInv, NEW cap \in Capabilities, NEW policy \in Policies, NEW by,
         SetPolicy(cap, policy, by)
  PROVE  /\ \A k \in (Actors \cup {Everyone}) \X Capabilities :
              broker'.policies[k] = IF k[2] = cap THEN policy ELSE broker.policies[k]
         /\ \A k \in Actors \X Capabilities :
              /\ k[2] # cap => broker'.grants[k] = broker.grants[k]
              /\ k[2] = cap /\ broker'.grants[k] = "granted" => policy = "always"
         /\ saved' = [saved EXCEPT ![cap] = policy]
<1> DEFINE one == setPolicy(broker, cap, policy, "ai-orchestrator")
           two == setPolicy(one, cap, policy, "voice-session")
<1>1. broker' = setPolicy(two, cap, policy, Everyone) /\ saved' = [saved EXCEPT ![cap] = policy]
  BY DEF SetPolicy, Save
<1>2. broker \in Brokers /\ one \in Brokers /\ two \in Brokers
  BY SetPolicyType, KeyFacts DEF ConsentInv, TypeOK
<1>3. \A k \in (Actors \cup {Everyone}) \X Capabilities :
        one.policies[k] = IF k = <<"ai-orchestrator", cap>> THEN policy ELSE broker.policies[k]
  BY <1>2, SetPolicyFacts, KeyFacts
<1>4. \A k \in Actors \X Capabilities :
        /\ k[2] # cap => one.grants[k] = broker.grants[k]
        /\ one.grants[k] = "granted" => policy = "always" \/ k # <<"ai-orchestrator", cap>>
  BY <1>2, SetPolicyFacts, KeyFacts
<1> HIDE DEF one
<1>5. \A k \in (Actors \cup {Everyone}) \X Capabilities :
        two.policies[k] = IF k = <<"voice-session", cap>> THEN policy ELSE one.policies[k]
  BY <1>2, SetPolicyFacts, KeyFacts
<1>6. \A k \in Actors \X Capabilities :
        /\ k[2] # cap => two.grants[k] = one.grants[k]
        /\ two.grants[k] = "granted" =>
             \/ policy = "always"
             \/ k # <<"voice-session", cap>> /\ one.grants[k] = "granted"
  BY <1>2, SetPolicyFacts, KeyFacts
<1> HIDE DEF two
<1>7. \A k \in (Actors \cup {Everyone}) \X Capabilities :
        broker'.policies[k] = IF k = <<Everyone, cap>> THEN policy ELSE two.policies[k]
  BY <1>1, <1>2, SetPolicyFacts
<1>8. \A k \in Actors \X Capabilities :
        /\ k[2] # cap => broker'.grants[k] = two.grants[k]
        /\ broker'.grants[k] = "granted" => policy = "always" \/ two.grants[k] = "granted"
  BY <1>1, <1>2, SetPolicyFacts
<1>9. \A k \in Actors \X Capabilities :
        k[2] = cap => k \in {<<"ai-orchestrator", cap>>, <<"voice-session", cap>>}
  BY KeyFacts
<1>10. \A k \in (Actors \cup {Everyone}) \X Capabilities :
         k[2] = cap <=> k \in {<<"ai-orchestrator", cap>>, <<"voice-session", cap>>,
                               <<Everyone, cap>>}
  BY KeyFacts
<1>11. \A k \in (Actors \cup {Everyone}) \X Capabilities :
         broker'.policies[k] = IF k[2] = cap THEN policy ELSE broker.policies[k]
  BY <1>3, <1>5, <1>7, <1>10
<1>12. \A k \in Actors \X Capabilities :
         /\ k[2] # cap => broker'.grants[k] = broker.grants[k]
         /\ k[2] = cap /\ broker'.grants[k] = "granted" => policy = "always"
  BY <1>4, <1>6, <1>8, <1>9
<1> QED
  BY <1>1, <1>11, <1>12

LEMMA SetPolicyPolicies ==
  ASSUME ConsentInv, PolicyInv, NEW cap \in Capabilities, NEW policy \in Policies, NEW by,
         SetPolicy(cap, policy, by), approvals \subseteq approvals'
  PROVE  PolicyInv'
<1> SUFFICES ASSUME NEW actor \in Actors, NEW c \in Capabilities
             PROVE  /\ c \notin KeptByReset =>
                         getPolicy(broker, c, actor)' =
                           IF saved'[c] = "unset" THEN "prompt" ELSE saved'[c]
                    /\ broker'.grants[<<actor, c>>] = "granted" =>
                         \/ getPolicy(broker, c, actor)' = "always"
                         \/ c \in PreAuthorized /\ saved'[c] = "unset"
                         \/ Consented(actor, c)'
  BY DEF PolicyInv, PolicyInForceIsTheSavedOne, Reasoned
<1>1. /\ <<actor, c>> \in Actors \X Capabilities
      /\ <<actor, c>> \in (Actors \cup {Everyone}) \X Capabilities
      /\ <<Everyone, c>> \in (Actors \cup {Everyone}) \X Capabilities
  BY KeyFacts
<1>2. \A x \in Capabilities : saved'[x] = IF x = cap THEN policy ELSE saved[x]
  BY SetPolicyAll DEF ConsentInv, TypeOK, Settings
<1>3. CASE c = cap
  <2>1. getPolicy(broker, c, actor)' = policy
    BY <1>1, <1>3, SetPolicyAll DEF getPolicy, Policies
  <2>2. broker'.grants[<<actor, c>>] = "granted" => policy = "always"
    BY <1>1, <1>3, SetPolicyAll
  <2>3. saved'[c] = policy /\ policy # "unset"
    BY <1>2, <1>3 DEF Policies
  <2> QED
    BY <2>1, <2>2, <2>3
<1>4. CASE c # cap
  <2>1. getPolicy(broker, c, actor)' = getPolicy(broker, c, actor)
    BY <1>1, <1>4, SetPolicyAll DEF getPolicy
  <2>2. broker'.grants[<<actor, c>>] = broker.grants[<<actor, c>>] /\ saved'[c] = saved[c]
    BY <1>1, <1>2, <1>4, SetPolicyAll
  <2>3. Consented(actor, c) => Consented(actor, c)'
    BY DEF Consented
  <2> QED
    BY <2>1, <2>2, <2>3 DEF PolicyInv, PolicyInForceIsTheSavedOne, Reasoned
<1> QED
  BY <1>3, <1>4

LEMMA ResetPolicies ==
  ASSUME PolicyInv, ResetPermissions
  PROVE  PolicyInv'
<1>1. /\ broker' =
           [policies |-> [k \in (Actors \cup {Everyone}) \X Capabilities |->
                            IF k[2] \in KeptByReset THEN broker.policies[k] ELSE "prompt"],
            grants   |-> [k \in Actors \X Capabilities |->
                            IF k[2] \in KeptByReset THEN broker.grants[k] ELSE "none"]]
      /\ saved' = [c \in Capabilities |-> "unset"] /\ approvals' = approvals
  BY DEF ResetPermissions, Save
<1>2. ASSUME NEW actor \in Actors, NEW cap \in Capabilities
      PROVE  getPolicy(broker, cap, actor)' =
               IF cap \in KeptByReset THEN getPolicy(broker, cap, actor) ELSE "prompt"
  BY <1>1, KeyFacts DEF getPolicy
<1>3. PolicyInForceIsTheSavedOne'
  BY <1>1, <1>2 DEF PolicyInForceIsTheSavedOne
<1>4. Reasoned'
  <2> SUFFICES ASSUME NEW actor \in Actors, NEW cap \in Capabilities,
                      broker'.grants[<<actor, cap>>] = "granted"
               PROVE  \/ getPolicy(broker, cap, actor)' = "always"
                      \/ cap \in PreAuthorized /\ saved'[cap] = "unset"
                      \/ Consented(actor, cap)'
    BY DEF Reasoned
  <2>1. cap \in KeptByReset /\ broker.grants[<<actor, cap>>] = "granted"
    BY <1>1, KeyFacts
  <2>2. Consented(actor, cap) => Consented(actor, cap)'
    BY <1>1 DEF Consented
  <2>3. saved'[cap] = "unset"
    BY <1>1
  <2> QED
    BY <1>2, <2>1, <2>2, <2>3 DEF PolicyInv, Reasoned
<1> QED
  BY <1>3, <1>4 DEF PolicyInv

\* After a start the policies are those of the settings, and the grants the
\* pre-authorised ones that no policy speaks about.
LEMMA BootedPolicies ==
  ASSUME NEW settings \in Settings, NEW actor \in Actors, NEW cap \in Capabilities
  PROVE  /\ getPolicy(Booted(settings), cap, actor) =
              IF settings[cap] = "unset" THEN "prompt" ELSE settings[cap]
         /\ Booted(settings).grants[<<actor, cap>>] = "granted" =>
              cap \in PreAuthorized /\ settings[cap] = "unset"
<1>1. /\ Booted(settings).policies[<<actor, cap>>] = "unset"
      /\ Booted(settings).policies[<<Everyone, cap>>] = settings[cap]
  BY KeyFacts DEF Booted
<1>2. Booted(settings).grants[<<actor, cap>>] = "granted" =>
        cap \in PreAuthorized /\ settings[cap] = "unset"
  BY KeyFacts DEF Booted
<1> QED
  BY <1>1, <1>2 DEF getPolicy

LEMMA PolicyInit == Init => PolicyInv
<1> SUFFICES ASSUME Init PROVE PolicyInv
  OBVIOUS
<1>1. disk \in Settings /\ saved = disk /\ broker = Booted(disk)
  BY ConstantsAssumption DEF ConstantsAssumption, Init
<1> QED
  BY <1>1, BootedPolicies DEF PolicyInv, PolicyInForceIsTheSavedOne, Reasoned

LEMMA RestartPolicies ==
  ASSUME ConsentInv, Restart
  PROVE  PolicyInv'
<1>1. disk \in Settings /\ saved' = disk /\ broker' = Booted(disk)
  BY DEF ConsentInv, TypeOK, Restart
<1>2. \A actor \in Actors, cap \in Capabilities :
        getPolicy(broker, cap, actor)' = getPolicy(Booted(disk), cap, actor)
  BY <1>1 DEF getPolicy
<1> QED
  BY <1>1, <1>2, BootedPolicies DEF PolicyInv, PolicyInForceIsTheSavedOne, Reasoned

LEMMA ProceedPolicies ==
  ASSUME ConsentInv, PolicyInv, Proceed
  PROVE  PolicyInv'
<1>1. ASSUME NEW yes \in BOOLEAN, Respond(yes) PROVE GrantStep
  <2>1. shown \in Dialogs /\ saved' = saved /\ Answer(shown, yes, NoDialog)
        /\ approvals' = IF yes THEN approvals \cup {shown} ELSE approvals
    BY <1>1 DEF Respond, ConsentInv, TypeOK
  <2> QED
    BY <2>1, AnswerGrants
<1>2. ASSUME NEW d \in Dialogs, TimesOut(d) PROVE GrantStep
  BY <1>2, AnswerGrants DEF TimesOut
<1>3. ASSUME NEW s \in saves, SaveEnds(s) PROVE GrantStep
  <2>1. s.by \in approvals \cup {NoDialog} /\ saved' = saved /\ approvals' = approvals
    BY <1>3 DEF ConsentInv, WaitersApproved, SaveEnds
  <2>2. CASE s.by = NoDialog
    BY <1>3, <2>1, <2>2, SameGrants DEF SaveEnds
  <2>3. CASE s.by # NoDialog
    <3>1. s.by \in Dialogs /\ s.by \in approvals /\ Answer(s.by, TRUE, NoDialog)
      BY <1>3, <2>1, <2>3 DEF ConsentInv, TypeOK, SaveEnds
    <3> QED
      BY <2>1, <3>1, AnswerGrants
  <2> QED
    BY <2>2, <2>3
<1>4. ASSUME UpdateSettings \/ (\E state \in {"loading", "gone"} : Leaves(state))
             \/ Comes("gone", "loading") \/ Comes("loading", "ready")
      PROVE  GrantStep
  BY <1>4, SameGrants DEF UpdateSettings, Save, Leaves, Comes
<1>5. ASSUME NEW cap \in Capabilities, NEW policy \in Policies, ChoosePolicy(cap, policy)
      PROVE  PolicyInv'
  BY <1>5, SetPolicyPolicies DEF ChoosePolicy
<1>6. ASSUME AlwaysAllow PROVE PolicyInv'
  <2>1. Needs[shown[1]] \in Capabilities
    BY <1>6, DialogFacts DEF AlwaysAllow, ConsentInv, TypeOK, Shape, AskedAndShown
  <2>2. SetPolicy(Needs[shown[1]], "always", shown) /\ approvals \subseteq approvals'
    BY <1>6 DEF AlwaysAllow
  <2> QED
    BY <2>1, <2>2, SetPolicyPolicies DEF Policies
<1> QED
  BY <1>1, <1>2, <1>3, <1>4, <1>5, <1>6, AssertGrantedGrants, GrantStepKeeps, ResetPolicies
     DEF Proceed

\* Policies and grants stay as the settings and the person's answers have them.
THEOREM PolicyInvariant == Spec => []PolicyInv
<1>1. ConsentInv /\ PolicyInv /\ [Next]_consentVars => PolicyInv'
  <2> SUFFICES ASSUME ConsentInv, PolicyInv, [Next]_consentVars PROVE PolicyInv'
    OBVIOUS
  <2>1. UNCHANGED consentVars => GrantStep
    BY SameGrants DEF consentVars
  <2> QED
    BY <2>1, InvokeGrants, GrantStepKeeps, ProceedPolicies, RestartPolicies DEF Next
<1> QED
  BY PolicyInit, ConsentInvariant, <1>1, PTL DEF Spec

\* The policy in force is the saved one, through changes, resets and restarts.
THEOREM PolicyInForce == Spec => []PolicyInForceIsTheSavedOne
<1>1. PolicyInv => PolicyInForceIsTheSavedOne
  BY DEF PolicyInv
<1> QED
  BY PolicyInvariant, <1>1, PTL

\* No grant outlives its reason: what is granted under "Ask each time" was
\* pre-authorised, with settings that are silent, or consented to.
THEOREM GrantsAreReasoned == Spec => []GrantsHaveAReason
<1>1. PolicyInv => GrantsHaveAReason
  BY DEF PolicyInv, Reasoned, GrantsHaveAReason, HasGrant, Consented
<1> QED
  BY PolicyInvariant, <1>1, PTL

-----------------------------------------------------------------------------
(* The power actions over the calls, for every set of turns and calls: the *)
(* steps of PowerActions are steps of CapabilityConsent, whose invariant   *)
(* is used as it stands.                                                   *)

(* Power actions: the calls *)

LEMMA CallsOfTurns ==
  /\ \A t \in Turns : CallOf[t] \in Calls /\ CallOf[t] \in Gated
  /\ \A t, u \in Turns : CallOf[t] = CallOf[u] => t = u
BY PowerAssumption, ConstantsAssumption DEF PowerAssumption, ConstantsAssumption

\* A step of a call moves that call.
Moves(i) == \E outcome : phase' = [phase EXCEPT ![i] = outcome]

LEMMA AfterPermissionMoves ==
  ASSUME NEW i, NEW granted, NEW open, NEW left, AfterPermission(i, granted, open, left)
  PROVE  Moves(i)
<1>1. \A outcome : Settle(i, outcome, open, left) => Moves(i)
  BY DEF Settle, Moves
<1>2. Ask(i, "gate", open, left) => Moves(i)
  BY DEF Ask, Moves
<1> QED
  BY <1>1, <1>2 DEF AfterPermission, Operate

\* A call is begun by its own Invoke only.
LEMMA InvokeOnly ==
  ASSUME TypeOK, NEW i \in Calls, Invoke(i)
  PROVE  \A j \in Calls \ {i} : phase'[j] = phase[j]
<1>1. Ask(i, "consent", pending, shown) => Moves(i)
  BY DEF Ask, Moves
<1>2. Moves(i)
  BY <1>1, AfterPermissionMoves DEF Invoke
<1> QED
  BY <1>2 DEF Moves, TypeOK

LEMMA AnswerOnly ==
  ASSUME ConsentInv, NEW d \in Dialogs, NEW yes \in BOOLEAN, NEW left, Answer(d, yes, left)
  PROVE  \A j \in Calls : phase[j] \in {"idle", "lost"} => phase'[j] = phase[j]
<1>1. CASE d \notin pending
  BY <1>1 DEF Answer
<1>2. CASE d \in pending
  <2>1. Moves(d[1])
    <3>1. \A outcome, open : Settle(d[1], outcome, open, left) => Moves(d[1])
      BY DEF Settle, Moves
    <3> QED
      BY <1>2, <3>1, AfterPermissionMoves DEF Answer
  <2>2. phase[d[1]] \in Kinds
    <3>1. d[1] \in Calls /\ d[2] \in Kinds /\ d = <<d[1], d[2]>>
      BY DialogFacts
    <3>2. phase[d[1]] = d[2]
      BY <1>2, <3>1 DEF ConsentInv, Shape, PendingIsAwaited, Kinds
    <3> QED
      BY <3>1, <3>2
  <2> QED
    BY <2>1, <2>2 DEF Moves, ConsentInv, TypeOK, Kinds
<1> QED
  BY <1>1, <1>2

LEMMA ProceedOnly ==
  ASSUME ConsentInv, Proceed
  PROVE  \A j \in Calls : phase[j] \in {"idle", "lost"} => phase'[j] = phase[j]
<1>1. ASSUME NEW yes \in BOOLEAN, Respond(yes)
      PROVE  \A j \in Calls : phase[j] \in {"idle", "lost"} => phase'[j] = phase[j]
  BY <1>1, AnswerOnly DEF Respond, ConsentInv, TypeOK
<1>2. ASSUME NEW d \in Dialogs, TimesOut(d)
      PROVE  \A j \in Calls : phase[j] \in {"idle", "lost"} => phase'[j] = phase[j]
  BY <1>2, AnswerOnly DEF TimesOut
<1>3. ASSUME NEW s \in saves, SaveEnds(s)
      PROVE  \A j \in Calls : phase[j] \in {"idle", "lost"} => phase'[j] = phase[j]
  <2>1. s.by \in Dialogs \cup {NoDialog}
    BY DEF ConsentInv, TypeOK
  <2> QED
    BY <1>3, <2>1, AnswerOnly DEF SaveEnds
<1>4. \/ \E cap \in Capabilities, policy \in Policies : ChoosePolicy(cap, policy)
      \/ AlwaysAllow \/ ResetPermissions \/ UpdateSettings
      \/ \E state \in {"loading", "gone"} : Leaves(state)
      \/ Comes("gone", "loading") \/ Comes("loading", "ready")
      \/ \E actor \in Actors, cap \in Capabilities : AssertGranted(actor, cap)
      => phase' = phase
  BY DEF ChoosePolicy, AlwaysAllow, SetPolicy, ResetPermissions, UpdateSettings, Leaves,
         Comes, AssertGranted
<1> QED
  BY <1>1, <1>2, <1>3, <1>4 DEF Proceed

-----------------------------------------------------------------------------
(* Power actions: the question *)

\* The pending question has not been answered, and no id is used twice.
RecordIsOpen ==
  /\ \A n \in answered : n <= requests
  /\ record # NoRecord => record.id \notin answered /\ record.id <= requests

\* A call that has begun has the confirmation of its turn.
BegunIsConfirmed ==
  \A t \in Turns : phase[CallOf[t]] \notin {"idle", "lost"} => confirmed[t] # NoRecord

PowerInv == Power!TypeOK /\ RecordIsOpen

LEMMA PowerInitInv == Power!Init => PowerInv
BY DEF Power!Init, Power!TypeOK, PowerInv, RecordIsOpen

\* What goes with Goes(t, stage).
LEMMA GoesType ==
  ASSUME Power!TypeOK, NEW t \in Turns,
         NEW stage \in {"heard", "working", "confirmed", "over"}, Power!Goes(t, stage)
  PROVE  /\ turn' \in [Turns -> {"idle", "heard", "working", "confirmed", "over"}]
         /\ says' \in [Turns -> Power!Utterances \cup {"nothing"}]
         /\ aborted' \subseteq Turns /\ early' \subseteq Turns /\ requests' = requests
BY DEF Power!TypeOK, Power!Goes

\* The two fates of the record that a look at it has.
LEMMA RecordFate ==
  ASSUME PowerInv, requests' = requests,
         \/ UNCHANGED <<record, answered>>
         \/ record # NoRecord /\ Power!Gone
  PROVE  /\ record' \in Power!Records \cup {NoRecord} /\ answered' \subseteq Nat
         /\ RecordIsOpen'
<1>1. CASE UNCHANGED <<record, answered>>
  BY <1>1 DEF PowerInv, Power!TypeOK, RecordIsOpen
<1>2. CASE record # NoRecord /\ Power!Gone
  <2>1. record.id \in Nat /\ record.id <= requests
    BY <1>2 DEF PowerInv, Power!TypeOK, RecordIsOpen, Power!Records
  <2> QED
    BY <1>2, <2>1 DEF PowerInv, Power!TypeOK, RecordIsOpen, Power!Gone
<1> QED
  BY <1>1, <1>2

\* A step in which a turn looks at the record.
LEMMA LookKeeps ==
  ASSUME PowerInv, NEW t \in Turns,
         NEW stage \in {"heard", "working", "confirmed", "over"}, Power!Goes(t, stage),
         \/ UNCHANGED <<record, answered>>
         \/ record # NoRecord /\ Power!Gone,
         \/ confirmed' = confirmed
         \/ record # NoRecord /\ confirmed' = [confirmed EXCEPT ![t] = record]
  PROVE  PowerInv'
<1>1. requests' = requests
  BY DEF Power!Goes
<1>2. confirmed' \in [Turns -> Power!Records \cup {NoRecord}]
  BY DEF PowerInv, Power!TypeOK
<1> QED
  BY <1>1, <1>2, GoesType, RecordFate DEF PowerInv, Power!TypeOK

LEMMA RequestKeeps ==
  ASSUME PowerInv, NEW t \in Turns, NEW a \in NamedActions, Power!Request(t, a)
  PROVE  PowerInv'
<1>1. /\ requests' = requests + 1
      /\ record' = [id |-> requests + 1, action |-> a, expired |-> FALSE]
      /\ answered' = IF record = NoRecord THEN answered ELSE answered \cup {record.id}
      /\ early' = {u \in Turns : turn[u] = "heard"}
      /\ UNCHANGED <<turn, says, aborted, confirmed>>
  BY DEF Power!Request
<1>2. record' \in Power!Records /\ record'.id = requests + 1 /\ requests \in Nat
  BY <1>1 DEF PowerInv, Power!TypeOK, Power!Records
<1>3. record # NoRecord => record.id \in Nat /\ record.id <= requests
  BY DEF PowerInv, Power!TypeOK, Power!Records, RecordIsOpen
<1>4. answered' \subseteq Nat /\ \A n \in answered' : n <= requests
  BY <1>1, <1>3 DEF PowerInv, Power!TypeOK, RecordIsOpen
<1>5. RecordIsOpen'
  BY <1>1, <1>2, <1>4 DEF RecordIsOpen
<1>6. Power!TypeOK'
  BY <1>1, <1>2, <1>4 DEF PowerInv, Power!TypeOK
<1> QED
  BY <1>5, <1>6 DEF PowerInv

LEMMA ConverseKeeps ==
  ASSUME PowerInv, Power!Converse
  PROVE  PowerInv' /\ confirmed' = confirmed
<1>1. ASSUME NEW t \in Turns, NEW u \in Power!Utterances, Power!Says(t, u)
      PROVE  PowerInv' /\ confirmed' = confirmed
  BY <1>1 DEF Power!Says, PowerInv, Power!TypeOK, RecordIsOpen
<1>2. ASSUME NEW t \in Turns, Power!Abort(t)
      PROVE  PowerInv' /\ confirmed' = confirmed
  BY <1>2 DEF Power!Abort, PowerInv, Power!TypeOK, RecordIsOpen
<1>3. ASSUME NEW t \in Turns, Power!GivesUp(t)
      PROVE  PowerInv' /\ confirmed' = confirmed
  BY <1>3, LookKeeps DEF Power!GivesUp
<1>4. ASSUME NEW t \in Turns, Power!Unrelated(t)
      PROVE  PowerInv' /\ confirmed' = confirmed
  BY <1>4, LookKeeps DEF Power!Unrelated, Power!Live
<1>5. ASSUME NEW t \in Turns, Power!NothingPending(t)
      PROVE  PowerInv' /\ confirmed' = confirmed
  BY <1>5, LookKeeps DEF Power!NothingPending
<1>6. ASSUME NEW t \in Turns, Power!Declines(t)
      PROVE  PowerInv' /\ confirmed' = confirmed
  BY <1>6, LookKeeps DEF Power!Declines, Power!Live
<1>7. ASSUME NEW t \in Turns, NEW a \in NamedActions, Power!Request(t, a)
      PROVE  PowerInv' /\ confirmed' = confirmed
  BY <1>7, RequestKeeps DEF Power!Request
<1>8. ASSUME NEW t \in Turns, Power!Ends(t)
      PROVE  PowerInv' /\ confirmed' = confirmed
  BY <1>8, LookKeeps DEF Power!Ends
<1>9. ASSUME Power!Expire
      PROVE  PowerInv' /\ confirmed' = confirmed
  <2>1. record \in Power!Records /\ record' = [record EXCEPT !.expired = TRUE]
    BY <1>9 DEF Power!Expire, Power!Live, PowerInv, Power!TypeOK
  <2>2. record' \in Power!Records /\ record'.id = record.id
    BY <2>1 DEF Power!Records
  <2> QED
    BY <1>9, <2>1, <2>2 DEF Power!Expire, Power!Live, PowerInv, Power!TypeOK, RecordIsOpen
<1> QED
  BY <1>1, <1>2, <1>3, <1>4, <1>5, <1>6, <1>7, <1>8, <1>9 DEF Power!Converse

LEMMA PowerRestartKeeps ==
  ASSUME PowerInv, Power!Restart
  PROVE  PowerInv'
<1>1. record # NoRecord => record.id \in Nat /\ record.id <= requests
  BY DEF PowerInv, Power!TypeOK, Power!Records, RecordIsOpen
<1>2. /\ answered' = IF record = NoRecord THEN answered ELSE answered \cup {record.id}
      /\ record' = NoRecord /\ requests' = requests
  BY DEF Power!Restart
<1>3. RecordIsOpen' /\ answered' \subseteq Nat
  BY <1>1, <1>2 DEF PowerInv, Power!TypeOK, RecordIsOpen
<1>4. Power!TypeOK'
  BY <1>2, <1>3 DEF Power!Restart, PowerInv, Power!TypeOK
<1> QED
  BY <1>3, <1>4 DEF PowerInv

\* What the step of a turn that takes a "yes" finds and does.
LEMMA ConfirmFacts ==
  ASSUME PowerInv, NEW t \in Turns, Power!Confirms(t)
  PROVE  /\ PowerInv'
         /\ record # NoRecord /\ ~record.expired /\ says[t] = "yes"
         /\ IF t \in aborted THEN confirmed' = confirmed /\ turn'[t] = "over"
            ELSE confirmed' = [confirmed EXCEPT ![t] = record] /\ turn'[t] = "confirmed"
<1>1. PowerInv'
  <2>1. CASE t \in aborted
    BY <2>1, LookKeeps DEF Power!Confirms, Power!Live
  <2>2. CASE t \notin aborted
    BY <2>2, LookKeeps DEF Power!Confirms, Power!Live
  <2> QED
    BY <2>1, <2>2
<1>2. record # NoRecord /\ ~record.expired /\ says[t] = "yes"
  BY DEF Power!Confirms, Power!Live
<1>3. \A stage : Power!Goes(t, stage) => turn'[t] = stage
  BY DEF Power!Goes, PowerInv, Power!TypeOK
<1> QED
  BY <1>1, <1>2, <1>3 DEF Power!Confirms

-----------------------------------------------------------------------------
(* Power actions: the two together *)

PowerActionInv == ConsentInv /\ PowerInv /\ BegunIsConfirmed

\* The steps of the composition are steps of its parts.
LEMMA PartsStep ==
  ASSUME [PowerNext]_vars
  PROVE  [Next]_consentVars
<1>1. \A t \in Turns : Confirm(t) => \/ UNCHANGED consentVars
                                     \/ \E i \in Calls : Invoke(i)
  BY CallsOfTurns DEF Confirm
<1> QED
  BY <1>1 DEF PowerNext, Next, Report, vars

\* The composition adds the question and takes nothing away: what holds of
\* CapabilityConsent holds of it.
THEOREM PowerImplementsConsent == PowerSpec => Spec
<1>1. PowerInit => Init
  BY DEF PowerInit
<1> QED
  BY <1>1, PartsStep, PTL DEF PowerSpec, Spec

LEMMA PowerActionInit == PowerInit => PowerActionInv
<1> SUFFICES ASSUME PowerInit PROVE PowerActionInv
  OBVIOUS
<1>1. BegunIsConfirmed
  BY CallsOfTurns DEF PowerInit, Init, BegunIsConfirmed
<1> QED
  BY <1>1, ConsentInit, PowerInitInv DEF PowerInit, PowerActionInv

LEMMA PowerInvKept ==
  ASSUME PowerActionInv, [PowerNext]_vars
  PROVE  PowerInv'
<1>1. CASE UNCHANGED powerVars
  BY <1>1 DEF PowerActionInv, powerVars, PowerInv, Power!TypeOK, RecordIsOpen
<1>2. CASE \E t \in Turns : Confirm(t)
  BY <1>2, ConfirmFacts DEF PowerActionInv, Confirm
<1>3. CASE \E t \in Turns : Report(t)
  BY <1>3, LookKeeps DEF PowerActionInv, Report, Power!Ends
<1>4. CASE Power!Converse
  BY <1>4, ConverseKeeps DEF PowerActionInv
<1>5. CASE Power!Restart
  BY <1>5, PowerRestartKeeps DEF PowerActionInv
<1> QED
  BY <1>1, <1>2, <1>3, <1>4, <1>5 DEF PowerNext, vars

LEMMA BegunIsConfirmedKept ==
  ASSUME PowerActionInv, [PowerNext]_vars
  PROVE  BegunIsConfirmed'
<1> USE DEF PowerActionInv
<1>1. CASE UNCHANGED vars
  BY <1>1 DEF vars, consentVars, powerVars, BegunIsConfirmed
<1>2. ASSUME NEW i \in Calls \ PowerCalls, Invoke(i), UNCHANGED powerVars
      PROVE  BegunIsConfirmed'
  <2>1. \A t \in Turns : phase'[CallOf[t]] = phase[CallOf[t]]
    BY <1>2, InvokeOnly, CallsOfTurns DEF PowerCalls, ConsentInv
  <2> QED
    BY <1>2, <2>1 DEF powerVars, BegunIsConfirmed
<1>3. CASE Proceed /\ UNCHANGED powerVars
  BY <1>3, ProceedOnly, CallsOfTurns DEF powerVars, BegunIsConfirmed
<1>4. ASSUME NEW t \in Turns, Confirm(t)
      PROVE  BegunIsConfirmed'
  <2>1. CASE turn'[t] = "confirmed"
    <3>1. Invoke(CallOf[t]) /\ confirmed' = [confirmed EXCEPT ![t] = record] /\ record # NoRecord
      BY <1>4, <2>1, ConfirmFacts DEF Confirm
    <3>2. \A u \in Turns \ {t} : phase'[CallOf[u]] = phase[CallOf[u]]
      BY <3>1, InvokeOnly, CallsOfTurns DEF ConsentInv
    <3>3. \A u \in Turns : confirmed'[u] = IF u = t THEN record ELSE confirmed[u]
      BY <3>1 DEF PowerInv, Power!TypeOK
    <3> QED
      BY <3>1, <3>2, <3>3 DEF BegunIsConfirmed
  <2>2. CASE turn'[t] # "confirmed"
    <3>1. confirmed' = confirmed /\ phase' = phase
      BY <1>4, <2>2, ConfirmFacts DEF Confirm, consentVars
    <3> QED
      BY <3>1 DEF BegunIsConfirmed
  <2> QED
    BY <2>1, <2>2
<1>5. ASSUME NEW t \in Turns, Report(t)
      PROVE  BegunIsConfirmed'
  BY <1>5 DEF Report, Power!Ends, consentVars, BegunIsConfirmed
<1>6. CASE Power!Converse /\ UNCHANGED consentVars
  BY <1>6, ConverseKeeps DEF consentVars, BegunIsConfirmed
<1>7. CASE Restart /\ Power!Restart
  <2>1. \A i \in Calls : phase'[i] \in {"idle", "lost"}
    BY <1>7 DEF Restart
  <2> QED
    BY <2>1, CallsOfTurns DEF BegunIsConfirmed
<1> QED
  BY <1>1, <1>2, <1>3, <1>4, <1>5, <1>6, <1>7 DEF PowerNext

\* The inductive invariant of the composition.
THEOREM PowerInvariant == PowerSpec => []PowerActionInv
<1>1. PowerActionInv /\ [PowerNext]_vars => PowerActionInv'
  <2> SUFFICES ASSUME PowerActionInv, [PowerNext]_vars PROVE PowerActionInv'
    OBVIOUS
  <2>1. ConsentInv'
    BY PartsStep, InvokeKeeps, ProceedKeeps, RestartKeeps, StutterKeeps
       DEF PowerActionInv, Next
  <2> QED
    BY <2>1, PowerInvKept, BegunIsConfirmedKept DEF PowerActionInv
<1> QED
  BY PowerActionInit, <1>1, PTL DEF PowerSpec

\* The type invariant of the composition.
THEOREM PowerTypeCorrect == PowerSpec => []PowerTypeOK
<1>1. PowerActionInv => PowerTypeOK
  BY DEF PowerActionInv, ConsentInv, PowerInv, PowerTypeOK
<1> QED
  BY PowerInvariant, <1>1, PTL

\* No power action without a confirmed question and the dialog's yes, for any
\* turns, any other calls and any policies.
THEOREM TwoYeses == PowerSpec => []PowerTakesTwoYeses
<1>1. PowerActionInv => PowerTakesTwoYeses
  BY CallsOfTurns DEF PowerActionInv, BegunIsConfirmed, PowerTakesTwoYeses, ConsentInv,
     Shape, AskedInOrder
<1> QED
  BY PowerInvariant, <1>1, PTL

\* A question that was declined, ignored, replaced, given up or confirmed is
\* never confirmed again, by either surface.
THEOREM OneYesPerQuestion == PowerSpec => AnsweredQuestionsAreClosed
<1>1. PowerActionInv /\ [PowerNext]_vars =>
        [\A t \in Turns : ConfirmsOne(t) =>
           /\ confirmed'[t].id \notin answered
           /\ ~confirmed'[t].expired
           /\ says[t] = "yes" /\ t \notin aborted]_vars
  <2> SUFFICES ASSUME PowerActionInv, PowerNext, NEW t \in Turns, ConfirmsOne(t)
               PROVE  /\ confirmed'[t].id \notin answered
                      /\ ~confirmed'[t].expired
                      /\ says[t] = "yes" /\ t \notin aborted
    BY DEF vars
  <2>1. PICK u \in Turns : Power!Confirms(u) /\ confirmed' # confirmed
    <3>1. confirmed' # confirmed /\ confirmed'[t] # NoRecord
      BY DEF ConfirmsOne
    <3>2. ~Power!Converse
      BY <3>1, ConverseKeeps DEF PowerActionInv
    <3>3. ~Power!Restart
      BY <3>1 DEF Power!Restart
    <3> QED
      BY <3>1, <3>2, <3>3 DEF PowerNext, Confirm, Report, Power!Ends, powerVars
  <2>2. u \notin aborted /\ confirmed' = [confirmed EXCEPT ![u] = record]
    BY <2>1, ConfirmFacts DEF PowerActionInv
  <2>3. u = t /\ confirmed'[t] = record
    BY <2>2 DEF ConfirmsOne, PowerActionInv, PowerInv, Power!TypeOK
  <2> QED
    BY <2>1, <2>2, <2>3, ConfirmFacts DEF PowerActionInv, PowerInv, RecordIsOpen
<1> QED
  BY PowerInvariant, <1>1, PTL DEF PowerSpec, AnsweredQuestionsAreClosed
=============================================================================
