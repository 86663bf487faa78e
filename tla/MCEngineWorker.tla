--------------------------- MODULE MCEngineWorker ---------------------------
(* Instances of EngineWorker for TLC: a channel of one or two commands, so
   that it is often full; the window's thread c1 controls the outputs, and a
   second thread c2 pushes frames. *)
EXTENDS EngineWorker, TLC

CONSTANTS c1, c2

OutputRequests ==
    c1 :> {"StartRecording", "FinishRecording", "AbortRecording",
           "StartStreaming", "FinishStreaming", "Shutdown"}
    @@ c2 :> {"PushFrame"}
=============================================================================
