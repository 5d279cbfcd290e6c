------------------------- MODULE MCInferenceRuntime -------------------------
(***************************************************************************)
(* InferenceRuntime for TLC: embed, ocr and urgent are single-shot         *)
(* requests, urgent of higher priority; chat streams.  Under MCRanked      *)
(* every request may fall back from llama to ollama; under MCQueueRanked   *)
(* only embed may, which keeps the queue's interleavings in reach.         *)
(***************************************************************************)
EXTENDS InferenceRuntime

CONSTANTS embed, ocr, urgent, chat, llama, ollama

MCRanked == [r \in Requests |-> <<llama, ollama>>]

MCQueueRanked == [r \in Requests |->
  CASE r = embed -> <<llama, ollama>>
    [] r = urgent -> <<llama>>
    [] OTHER -> <<ollama>>]

MCPriority == [r \in Requests |-> IF r = urgent THEN 1 ELSE 0]
=============================================================================
