----------------------------- MODULE LocalSpeech -----------------------------
(***************************************************************************)
(* Speech with local models: the providers that run whisper.cpp and Piper, *)
(* one process per call                                                    *)
(* (core/local-runtime/src/runtime-providers/whisper-cpp.ts, piper.ts,     *)
(* process-runner.ts), for the models that the start of the app registered *)
(* (Startup).  The calls' timers and abort signals are the only things     *)
(* that stop a process which does not end.                                 *)
(***************************************************************************)
EXTENDS Startup

CONSTANTS
  Calls,      (* transcriptions and syntheses                               *)
  VoiceOf,    (* the model of each                                          *)
  Whispers    (* those that transcribe, with whisper.cpp                    *)

ASSUME SpeechAssumption == VoiceOf \in [Calls -> Voices] /\ Whispers \subseteq Calls

VARIABLE call

NoCall ==
  [at |-> "idle", again |-> FALSE, exit |-> "none", heard |-> FALSE,
   killed |-> FALSE, late |-> FALSE, aborted |-> "no", says |-> "nothing",
   files |-> {}]

localVars == <<startupVars, call>>

SpeechInit == StartupInit /\ call = [c \in Calls |-> NoCall]

\* Only call c changes.
Becomes(c, r) == call' = [call EXCEPT ![c] = r] /\ UNCHANGED startupVars

\* Call c is over: with an error, or a result.
Errs(c)   == Becomes(c, [call[c] EXCEPT !.at = "done", !.says = "error"])
Yields(c) == Becomes(c, [call[c] EXCEPT !.at = "done", !.says = "result", !.files = {}])

\* There is a provider for the model of call c.
Registered(c) == stage = "up" /\ VoiceOf[c] \in found

\* transcribe() or synthesizeSpeech() is called.
Asks(c) ==
  /\ Registered(c)
  /\ call[c].at = "idle"
  /\ Becomes(c, [call[c] EXCEPT !.at = "checks"])

\* The files are looked for again, and the temporary directory made: what was
\* there when the app started may be gone, and the disk full.
Missing(c) == call[c].at = "checks" /\ Errs(c)

\* whisper.cpp gets a .wav file, Piper its text on stdin.
Prepares(c) ==
  /\ call[c].at = "checks"
  /\ Exists(BinaryOf[VoiceOf[c]]) /\ Exists(ModelOf[VoiceOf[c]])
  /\ Becomes(c, [call[c] EXCEPT !.at = "prepared",
                   !.files = IF c \in Whispers THEN {"input"} ELSE {}])

\* The call with a new process: a signal that has already fired is not heard.
Running(r) ==
  [r EXCEPT !.at = "runs", !.exit = "none", !.killed = FALSE, !.late = FALSE,
            !.heard = r.aborted = "no"]

\* The process is spawned; a spawn that fails rejects the result.
Runs(c) == call[c].at = "prepared" /\ Becomes(c, Running(call[c]))

SpawnFails(c) == call[c].at = "runs" /\ ~call[c].killed /\ Errs(c)

\* The caller's signal fires: before the process has ended, or after.
Aborts(c) ==
  /\ call[c].at \notin {"idle", "done"} /\ call[c].aborted = "no"
  /\ Becomes(c, [call[c] EXCEPT
       !.aborted = IF call[c].at \in {"checks", "prepared", "runs"} THEN "before" ELSE "after",
       !.killed = @ \/ (call[c].at = "runs" /\ call[c].heard)])

\* Defect: nothing limits the run.
NeverTimesOut(c) == FALSE /\ UNCHANGED <<call, startupVars>>

\* The timer fires.
TimesOut(c) ==
  /\ call[c].at = "runs" /\ ~call[c].late
  /\ Becomes(c, [call[c] EXCEPT !.late = TRUE, !.killed = TRUE])

\* The process ends: of itself or, with no exit code, by the signal it was sent.
Ends(c, exit) ==
  /\ call[c].at = "runs"
  /\ call[c].killed <=> exit = "signal"
  /\ Becomes(c, [call[c] EXCEPT !.at = "ended", !.exit = exit,
                   !.files = IF exit = "ok" THEN @ \cup {"output"} ELSE @])

\* A whisper.cpp model that does not know the language it was given is asked
\* without one.
Unsuited(c) == c \in Whispers /\ call[c].exit = "language" /\ ~call[c].again

\* Defect: what the process has said is used whatever has become of the call.
UsesAnyResult(c) == call[c].again \/ call[c].exit = "ok"

\* After the first run the signal and the timer are asked about; after the
\* second the exit code alone.
Uses(c) == call[c].again \/ (call[c].aborted = "no" /\ ~call[c].late)

\* The handle's result arrives.
Returns(c) ==
  /\ call[c].at = "ended"
  /\ IF Uses(c) /\ Unsuited(c)
     THEN Becomes(c, Running([call[c] EXCEPT !.again = TRUE]))
     ELSE IF Uses(c) /\ call[c].exit = "ok"
     THEN Becomes(c, [call[c] EXCEPT !.at = "reads"])
     ELSE Errs(c)

\* The output file is read, and the temporary files removed -- or it cannot be.
Reads(c) == call[c].at = "reads" /\ Yields(c)

Unreadable(c) == call[c].at = "reads" /\ Errs(c)

\* What the app does for call c without being told anything.
Proceeds(c) ==
  Missing(c) \/ Prepares(c) \/ Runs(c) \/ Returns(c) \/ Reads(c) \/ Unreadable(c)

\* A process that has been sent SIGTERM ends.
Obeys(c) == Ends(c, "signal")

SpeechSteps ==
  \E c \in Calls :
    \/ Asks(c) \/ Aborts(c) \/ Proceeds(c) \/ SpawnFails(c) \/ TimesOut(c) \/ Obeys(c)
    \/ \E exit \in {"ok", "language", "error"} : Ends(c, exit)

\* The whole of it: the start, what happens beside it, and the calls.
LocalNext ==
  \/ (StartSteps \/ Beside \/ Deadline) /\ UNCHANGED call
  \/ RestartsApp /\ call' = [c \in Calls |-> NoCall]
  \/ SpeechSteps

\* Promises that are settled go on, requests to /health settle, timers fire, and
\* a process that has been sent SIGTERM ends.
LocalFairness ==
  /\ WF_localVars(StartSteps /\ UNCHANGED call)
  /\ WF_localVars(Deadline /\ UNCHANGED call)
  /\ \A c \in Calls : WF_localVars(Proceeds(c)) /\ WF_localVars(TimesOut(c)) /\ WF_localVars(Obeys(c))

LocalSpec == SpeechInit /\ [][LocalNext]_localVars /\ LocalFairness

-----------------------------------------------------------------------------
(* Properties *)

\* A call cancelled before its process has ended has no result, however often
\* the process was run and whether or not it was reached by the cancellation:
\* the words of a turn that is over are not recognised, nor spoken.
CancelledCallsSayNothing ==
  \A c \in Calls : call[c].says = "result" => call[c].aborted # "before"

\* Every call is answered, though its process may never end of itself.
SpeechCallsSettle ==
  \A c \in Calls : call[c].at # "idle" ~> call[c].at \in {"done", "idle"}
=============================================================================
