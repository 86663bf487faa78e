--------------------------- MODULE SessionOutputs ---------------------------
(* The outputs of a running session: OutputFanOut behind a name of its own, so
   that what is said of it can stand beside the stream it feeds, which has an
   Init, a Next and packets too. *)
CONSTANTS ReplayBytes, ReplayDuration, ReplayPackets, StreamCapacity, VideoSizes,
          MaxAudio, MaxTime, MaxPackets

VARIABLES outputs, now, encoded

FanOut == INSTANCE OutputFanOut

ASSUME LimitsAssumption == FanOut!LimitsAreValid

FanOutSpec == FanOut!Spec

(* The properties of the fan-out, by their names there. *)
RetainsLongestEnd == FanOut!RetainsLongestEnd
StreamedIsRecorded == FanOut!StreamedIsRecorded
FramesInOrderAndWhole == FanOut!FramesInOrderAndWhole
=============================================================================
