------------------------------ MODULE FrameWire ------------------------------
(***************************************************************************)
(* What the paced egress path of the daemon promises, free of threads,     *)
(* sockets and flags.  Application frames are accepted in order; the line  *)
(* carries one frame at a time, byte by byte from its first byte on; a     *)
(* cover frame starts only when no application frame is waiting; a frame   *)
(* is delivered at most once and in the order of acceptance; a frame is    *)
(* given up only with its whole remainder; a stopped line stays silent.    *)
(*                                                                         *)
(* BridgeMetronome is shown to implement this module.                      *)
(***************************************************************************)
EXTENDS Integers, Sequences

CONSTANTS
  FrameLen,   \* bytes of a frame (FRAME_LEN = 512)
  MaxFrames   \* bound on the application frames of a behaviour

Cover == 0                    \* a cover frame; application frames are 1, 2, ...
NoFrame == -1
Idle == [frame |-> NoFrame, sent |-> 0]

VARIABLES
  waiting,    \* accepted application frames that have not reached the line
  line,       \* the frame on the line and how many of its bytes are out
  delivered,  \* application frames wholly on the line, in order
  lost,       \* application frames given up
  stopped     \* the line is silent for good

wireVars == <<waiting, line, delivered, lost, stopped>>

Elements(s) == {s[i] : i \in DOMAIN s}
AppFrame(f) == IF f > Cover THEN {f} ELSE {}

Init ==
  /\ waiting = <<>>
  /\ line = Idle
  /\ delivered = <<>>
  /\ lost = {}
  /\ stopped = FALSE

Accept ==
  \E f \in 1..MaxFrames :
    /\ \A g \in Elements(waiting \o delivered) \cup lost \cup {line.frame} : g < f
    /\ IF stopped
         THEN lost' = lost \cup {f} /\ UNCHANGED waiting
         ELSE waiting' = Append(waiting, f) /\ UNCHANGED lost
    /\ UNCHANGED <<line, delivered, stopped>>

Begin ==
  /\ ~stopped
  /\ line = Idle
  /\ \/ /\ waiting # <<>>
        /\ line' = [frame |-> Head(waiting), sent |-> 0]
        /\ waiting' = Tail(waiting)
     \/ /\ waiting = <<>>
        /\ line' = [frame |-> Cover, sent |-> 0]
        /\ UNCHANGED waiting
  /\ UNCHANGED <<delivered, lost, stopped>>

Emit ==
  /\ ~stopped
  /\ line # Idle
  /\ \E n \in (line.sent + 1)..FrameLen :
       IF n < FrameLen
         THEN line' = [line EXCEPT !.sent = n] /\ UNCHANGED delivered
         ELSE /\ line' = Idle
              /\ delivered' = IF line.frame = Cover THEN delivered
                              ELSE Append(delivered, line.frame)
  /\ UNCHANGED <<waiting, lost, stopped>>

GiveUp ==
  /\ line # Idle
  /\ line' = Idle
  /\ lost' = lost \cup AppFrame(line.frame)
  /\ UNCHANGED <<waiting, delivered, stopped>>

Stop ==
  /\ ~stopped
  /\ stopped' = TRUE
  /\ line' = Idle
  /\ waiting' = <<>>
  /\ lost' = lost \cup AppFrame(line.frame) \cup Elements(waiting)
  /\ UNCHANGED delivered

Next == Accept \/ Begin \/ Emit \/ GiveUp \/ Stop

Spec == Init /\ [][Next]_wireVars
==============================================================================
