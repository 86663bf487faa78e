-------------------------- MODULE StreamConnection --------------------------
(* What the engine reckons with when it flushes and reconnects a streaming
   session: the connection, a state and the reconnect attempts used so far, and
   what either call may do to it.  EngineOutputs is built from these operators;
   StreamSession, the session itself, keeps to them. *)
EXTENDS Naturals

CONSTANT MaxAttempts    \* EngineConfig::reconnect_attempts

ConnectionStates == {"Connected", "Disconnected", "Failed"}
Connection == [state : ConnectionStates, attempts : 0..MaxAttempts]

(* The connection after a batch that failed. *)
Lost(s) == [s EXCEPT !.state = "Disconnected"]

(* The outcomes of one reconnect: <<connection afterwards, outcome>>. *)
Reconnects(s) ==
    IF s.state = "Failed" THEN {<<s, "Error">>}
    ELSE IF s.attempts >= MaxAttempts
      THEN {<<[s EXCEPT !.state = "Failed"], "Error">>}
    ELSE LET n == s.attempts + 1
         IN  {<<s, "Deferred">>,
              <<[state |-> "Connected", attempts |-> n], "Reconnected">>,
              <<[state |-> IF n >= MaxAttempts THEN "Failed" ELSE s.state,
                 attempts |-> n], "Error">>}
=============================================================================
