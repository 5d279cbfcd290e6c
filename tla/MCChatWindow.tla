---------------------------- MODULE MCChatWindow ----------------------------
(***************************************************************************)
(* The chat window and its store for TLC.                                  *)
(***************************************************************************)
EXTENDS ChatWindow

CONSTANTS c1, c2, c3, c4, c5, reply

MCConversations == {c1, c2, c3, c4, c5}
MCWords == MCConversations \cup {reply}
MCEarlier == {c1}
MCTasks == 1..3

VARIABLE scene

mcVars == <<chatVars, scene>>

MCInit == ChatInit /\ scene \in {"loading", "using"}

\* "using" leaves the file and the process alone; "loading" sends nothing.
Allowed ==
    /\ scene = "using" => /\ restarts' = restarts
                          /\ \A t \in Tasks : tasks'[t].todo # <<>> => Head(tasks'[t].todo) # "copies"
    /\ scene = "loading" => ~sending' /\ acts' <= 1

Can(A) == A /\ Allowed /\ UNCHANGED scene
MCNext == Can(Person) \/ Can(Answers) \/ Can(Restart) \/ Can(Rested)
MCSpec == MCInit /\ [][MCNext]_mcVars /\ WF_mcVars(Can(Answers))
=============================================================================
