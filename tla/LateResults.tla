---------------------------- MODULE LateResults ----------------------------
(* The two worker threads whose results may come late, side by side: the route
   worker of the engine (EngineAudio) and the stinger loader of the window
   (StingerLoader).  They share nothing, so that a behaviour is one of the one
   or of the other; the one that is left out stays in its simplest initial
   state. *)
EXTENDS EngineAudio

CONSTANTS Specs,            \* stinger resources: [path, preload]
          Canvases,         \* formats of the canvas
          MaxSelections     \* bound: what the user selects or changes

VARIABLES which,
          wanted, canvas, selections, session, take, channel, loading, latest, result

Stinger == INSTANCE StingerLoader WITH
    Formats <- Canvases, MaxChanges <- MaxSelections,
    changes <- selections, pending <- take

ASSUME NoLoadAssumption == Stinger!NullIsNoLoad

stingerVars == <<wanted, canvas, selections, session, take, channel, loading,
                 latest, result>>
allVars == <<which, vars, stingerVars>>

LateInit ==
    /\ which \in {"routes", "stingers"}
    /\ Init
    /\ Stinger!Init
    /\ which = "routes" => canvas = CHOOSE c \in Canvases : TRUE
    /\ which = "stingers" =>
          /\ \A c \in Channels : catalog[c].available = {}
          /\ format = CHOOSE f \in Formats : TRUE

Routes(A) == which = "routes" /\ A /\ UNCHANGED <<which, stingerVars>>

Stingers(A) == which = "stingers" /\ A /\ UNCHANGED <<which, vars>>

LateNext == Routes(Next) \/ Stingers(Stinger!Next)

(* The fairness of both specifications. *)
LateSpec ==
    /\ LateInit
    /\ [][LateNext]_allVars
    /\ WF_allVars(Routes(Engine))
    /\ WF_allVars(Routes(Worker))
    /\ WF_allVars(Stingers(Stinger!Tick))
    /\ WF_allVars(Stingers(Stinger!Loader))

(* The properties of the stinger loader, by their names there. *)
LoadsAreCurrent == Stinger!LoadsAreCurrent
StingerSettles == Stinger!StingerSettles
=============================================================================
