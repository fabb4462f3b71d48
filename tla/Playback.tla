------------------------------- MODULE Playback -------------------------------
(***************************************************************************)
(* Flights in the Mandelbrot explorer: motion by a chain of timeouts, the   *)
(* recording of frames by it, and their playback, burning and observing in  *)
(* callbacks of their own (FullImageMandelbrotViewer.js), with the buttons  *)
(* that control them (demo.js). A viewer that is destroyed keeps the        *)
(* callbacks it has. Images load or fail at any time; which position a      *)
(* frame holds does not matter here.                                        *)
(***************************************************************************)
EXTENDS Integers, Sequences, FiniteSets

CONSTANTS
  MaxFrames,          \* frames after which recording is ended (2000)
  TimeoutsPerFrame,   \* timeouts_per_frame (2)
  MaxChains,          \* bound on the motion timeouts of a viewer at a time
  MaxEvents,          \* bound on what the user does
  MaxViewers          \* bound on the viewers opened

ASSUME PlaybackAssumption ==
  {MaxFrames, TimeoutsPerFrame, MaxChains, MaxEvents, MaxViewers} \subseteq Nat \ {0}

VARIABLES
  viewers,   \* the viewers opened so far
  viewer,    \* the open one, or 0
  motion,    \* "position" or "velocity" (and acceleration): the motion input
  button,    \* the state attribute of each button
  visible,   \* the elements of class playback-only are displayed
  events     \* what the user has done so far

vars == <<viewers, viewer, motion, button, visible, events>>

Kinds == {"play", "burn", "observe"}
NoFrames == -1   \* frames is undefined before the first recording

NewViewer ==
  [dragging |-> FALSE, releasing |-> FALSE, chains |-> 0,
   recording |-> FALSE, frame_timeout_cnt |-> 0, frames |-> NoFrames,
   playback |-> "off", playback_id |-> 0, playback_frame |-> 0,
   crashed |-> FALSE, calls |-> {}]

Init ==
  /\ viewers = <<NewViewer>>
  /\ viewer = 1
  /\ motion \in {"position", "velocity"}
  /\ button = [record |-> "off", play |-> "off", burn |-> "none", observe |-> "none"]
  /\ visible = FALSE
  /\ events = 0

UserActs == events < MaxEvents /\ events' = events + 1

-----------------------------------------------------------------------------
(* Motion and recording.                                                   *)

\* Mouse down on the image: other than for position, a chain of timeouts
\* begins, whether or not the last one has seen the drag's end.
Down ==
  /\ UserActs
  /\ viewer # 0
  /\ motion # "position" => viewers[viewer].chains < MaxChains
  /\ viewers' = [viewers EXCEPT ![viewer].dragging = TRUE,
                                ![viewer].chains = IF motion = "position" THEN @ ELSE @ + 1]
  /\ UNCHANGED <<viewer, motion, button, visible>>

\* Up, or the drag's end: endDrag leaves a timeout that clears dragging.
Up ==
  /\ UserActs
  /\ viewer # 0 /\ viewers[viewer].dragging
  /\ viewers' = [viewers EXCEPT ![viewer].releasing = TRUE]
  /\ UNCHANGED <<viewer, motion, button, visible>>

EndDrag(v) ==
  /\ viewers[v].releasing
  /\ viewers' = [viewers EXCEPT ![v].releasing = FALSE, ![v].dragging = FALSE]
  /\ UNCHANGED <<viewer, motion, button, visible, events>>

SetRecording(r, val) ==
  [r EXCEPT !.recording = val, !.frame_timeout_cnt = 0,
            !.frames = IF val THEN 0 ELSE @]

\* Mutant of Captured: the limit is noted, and recording goes on.
CapturedOn(r) ==
  IF r.frame_timeout_cnt > 0 THEN [r EXCEPT !.frame_timeout_cnt = @ - 1]
  ELSE [r EXCEPT !.frames = @ + 1, !.frame_timeout_cnt = TimeoutsPerFrame]

\* Mutant of Captured: the count is let below zero.
CapturedLate(r) ==
  IF r.frame_timeout_cnt >= 0 THEN [r EXCEPT !.frame_timeout_cnt = @ - 1]
  ELSE [r EXCEPT !.frames = @ + 1, !.frame_timeout_cnt = TimeoutsPerFrame]

\* A frame is captured once the count is down; at the limit recording ends,
\* and the frame is still captured.
Captured(r) ==
  IF r.frame_timeout_cnt > 0 THEN [r EXCEPT !.frame_timeout_cnt = @ - 1]
  ELSE [(IF r.frames >= MaxFrames THEN SetRecording(r, FALSE) ELSE r)
          EXCEPT !.frames = @ + 1, !.frame_timeout_cnt = TimeoutsPerFrame]

\* Mutant of ApplyMotion: the chain is left to a drag that is over.
ApplyMotionOn(v) ==
  LET r == viewers[v] IN
  /\ r.chains > 0
  /\ viewers' = [viewers EXCEPT ![v] = IF r.recording THEN Captured(r) ELSE r]
  /\ UNCHANGED <<viewer, motion, button, visible, events>>

\* A motion timeout fires: move, and go on, while dragging.
ApplyMotion(v) ==
  LET r == viewers[v] IN
  /\ r.chains > 0
  /\ viewers' = [viewers EXCEPT ![v] =
       IF ~ r.dragging THEN [r EXCEPT !.chains = @ - 1]
       ELSE IF r.recording THEN Captured(r) ELSE r]
  /\ UNCHANGED <<viewer, motion, button, visible, events>>

ChangeMotion ==
  /\ UserActs
  /\ motion' \in {"position", "velocity"} \ {motion}
  /\ UNCHANGED <<viewers, viewer, button, visible>>

RecordButton ==
  /\ UserActs
  /\ viewer # 0
  /\ LET on == button.record = "off" IN
       /\ button' = [button EXCEPT !.record = IF on THEN "on" ELSE "off"]
       /\ viewers' = [viewers EXCEPT ![viewer] = SetRecording(@, on)]
  /\ UNCHANGED <<viewer, motion, visible>>

-----------------------------------------------------------------------------
(* Playback.                                                               *)

Playing(r) == r.playback # "off"
Disabled(r) == [r EXCEPT !.playback = "off"]
AllOff == [button EXCEPT !.play = "off", !.burn = "off", !.observe = "off"]

\* Viewer v's record becomes s. Where that ends its playback, disablePlayback
\* has also switched all buttons off and hidden the images.
Becomes(v, s) ==
  /\ viewers' = [viewers EXCEPT ![v] = s]
  /\ IF Playing(viewers[v]) /\ ~ Playing(s)
       THEN button' = AllOff /\ visible' = FALSE
       ELSE UNCHANGED <<button, visible>>

\* The frame that is due: the next one, or what the clock says (which a timeout
\* of 25 ms moves on by a frame at least). Each frame observed is a new one.
Due(r, timeout) ==
  CASE r.playback = "play" ->
         r.playback_frame + (IF timeout THEN 1 ELSE 0) .. MaxFrames + 2
    [] r.playback = "observe" -> {0}
    [] OTHER -> {r.playback_frame + 1}

\* A request or a timeout: its callback keeps the id of its playback.
Await(r, id, kind) ==
  [r EXCEPT !.calls = @ \cup {[id |-> id, kind |-> kind, frame |-> r.playback_frame]}]

\* Mutant of Updated: any callback drives the playback that there is.
UpdatedAnyId(r, id, f) ==
  LET s == [r EXCEPT !.playback_frame = f] IN
  IF ~ Playing(r) THEN r
  ELSE IF r.playback = "observe" THEN Await(s, id, "image")
  ELSE IF f = r.playback_frame THEN Await(r, id, "timeout")
  ELSE IF r.frames = NoFrames THEN [s EXCEPT !.crashed = TRUE]
  ELSE IF f < r.frames THEN Await(s, id, "image")
  ELSE Disabled(s)

\* Mutant of Updated: after the last frame the playback waits for more.
UpdatedWaits(r, id, f) ==
  LET s == [r EXCEPT !.playback_frame = f] IN
  IF ~ Playing(r) \/ id # r.playback_id THEN r
  ELSE IF r.playback = "observe" THEN Await(s, id, "image")
  ELSE IF f = r.playback_frame THEN Await(r, id, "timeout")
  ELSE IF r.frames = NoFrames THEN [s EXCEPT !.crashed = TRUE]
  ELSE IF f < r.frames THEN Await(s, id, "image")
  ELSE Await(r, id, "timeout")

\* updatePlaybackFrame(id) with frame f due. Only the playback of that id goes
\* on: with an image if the frame is new, with a timeout if it is not, and not
\* after the last frame. Without a recording there is an exception.
Updated(r, id, f) ==
  LET s == [r EXCEPT !.playback_frame = f] IN
  IF ~ Playing(r) \/ id # r.playback_id THEN r
  ELSE IF r.playback = "observe" THEN Await(s, id, "image")
  ELSE IF f = r.playback_frame THEN Await(r, id, "timeout")
  ELSE IF r.frames = NoFrames THEN [s EXCEPT !.crashed = TRUE]
  ELSE IF f < r.frames THEN Await(s, id, "image")
  ELSE Disabled(s)

\* Mutant of Started: the playback is given no id of its own.
StartedSameId(r, kind) ==
  Updated([r EXCEPT !.playback = kind, !.playback_frame = -1, !.crashed = FALSE],
          r.playback_id, 0)

\* startPlayback, which requests the first frame.
Started(r, kind) ==
  Updated([r EXCEPT !.playback = kind, !.playback_frame = -1, !.crashed = FALSE,
                    !.playback_id = @ + 1],
          r.playback_id + 1, 0)

\* Mutant of PlaybackButton: what plays is not disabled first.
PlaybackButtonOnly(kind) ==
  /\ UserActs
  /\ viewer # 0
  /\ LET r == viewers[viewer]
         s == IF button[kind] = "off" THEN Started(r, kind) ELSE Disabled(r)
     IN /\ viewers' = [viewers EXCEPT ![viewer] = s]
        /\ button' = [button EXCEPT ![kind] = IF Playing(s) THEN "on" ELSE "off"]
        /\ visible' = IF button[kind] = "off" THEN Playing(s)
                       ELSE visible /\ ~ Playing(r)
  /\ UNCHANGED <<viewer, motion>>

\* A button that plays, burns or observes: what plays is disabled, and if the
\* button was off (burn and observe have no state before that), it starts.
PlaybackButton(kind) ==
  /\ UserActs
  /\ viewer # 0
  /\ LET r == viewers[viewer]
         s == IF button[kind] = "off" THEN Started(Disabled(r), kind) ELSE Disabled(r)
     IN /\ viewers' = [viewers EXCEPT ![viewer] = s]
        /\ button' = IF Playing(s) THEN [AllOff EXCEPT ![kind] = "on"] ELSE AllOff
        /\ visible' = IF button[kind] = "off" THEN Playing(s)
                       ELSE visible /\ ~ Playing(r)
  /\ UNCHANGED <<viewer, motion>>

\* The image of a frame loads and is shown, or a timeout fires.
Call(v, c) ==
  LET r == [viewers[v] EXCEPT !.calls = @ \ {c}] IN
  /\ \E f \in Due(r, c.kind = "timeout") : Becomes(v, Updated(r, c.id, f))
  /\ UNCHANGED <<viewer, motion, events>>

\* The server has no new image: try again later.
ImageError(v, c) ==
  /\ c.kind = "image"
  /\ viewers' = [viewers EXCEPT ![v].calls =
                   (@ \ {c}) \cup {[c EXCEPT !.kind = "timeout"]}]
  /\ UNCHANGED <<viewer, motion, button, visible, events>>

-----------------------------------------------------------------------------
\* Tiled is selected: the viewer is destroyed, and plays on ...
DestroyViewer ==
  /\ UserActs
  /\ viewer # 0
  /\ viewer' = 0
  /\ UNCHANGED <<viewers, motion, button, visible>>

\* ... and deselected: a new viewer is opened.
OpenFullViewer ==
  /\ UserActs
  /\ viewer = 0 /\ Len(viewers) < MaxViewers
  /\ viewers' = Append(viewers, NewViewer)
  /\ viewer' = Len(viewers')
  /\ UNCHANGED <<motion, button, visible>>

-----------------------------------------------------------------------------
Browser(v) ==
  \/ EndDrag(v)
  \/ ApplyMotion(v)
  \/ \E c \in viewers[v].calls : Call(v, c) \/ ImageError(v, c)

Next ==
  \/ Down \/ Up \/ ChangeMotion \/ RecordButton
  \/ \E kind \in Kinds : PlaybackButton(kind)
  \/ DestroyViewer \/ OpenFullViewer
  \/ \E v \in 1 .. Len(viewers) : Browser(v)

Spec == Init /\ [][Next]_vars

\* Timeouts fire and every request is answered or fails.
FairSpec ==
  /\ Spec
  /\ \A v \in 1 .. MaxViewers :
       /\ WF_vars(v <= Len(viewers) /\ EndDrag(v))
       /\ WF_vars(v <= Len(viewers) /\ ApplyMotion(v))
       /\ WF_vars(v <= Len(viewers)
                    /\ \E c \in viewers[v].calls : Call(v, c) \/ ImageError(v, c))

-----------------------------------------------------------------------------
(* Properties.                                                             *)

Record ==
  [dragging : BOOLEAN, releasing : BOOLEAN, chains : 0 .. MaxChains,
   recording : BOOLEAN, frame_timeout_cnt : 0 .. TimeoutsPerFrame,
   frames : {NoFrames} \cup Nat, playback : Kinds \cup {"off"},
   playback_id : Nat, playback_frame : Int, crashed : BOOLEAN,
   calls : SUBSET [id : Nat, kind : {"image", "timeout"}, frame : Int]]

PlaybackTypeOK ==
  /\ viewers \in Seq(Record)
  /\ viewer \in 0 .. Len(viewers)
  /\ motion \in {"position", "velocity"}
  /\ DOMAIN button = Kinds \cup {"record"}
  /\ visible \in BOOLEAN

\* However often playing, burning and observing are stopped and started while
\* their images are on the way, the playback of a viewer is driven by exactly
\* one callback (none after an exception): those of earlier playbacks are left
\* to end, and never drive two frames of one playback at a time.
OneDriver ==
  \A v \in 1 .. Len(viewers) :
    LET r == viewers[v]
        own == {c \in r.calls : c.id = r.playback_id}
    IN IF Playing(r) /\ ~ r.crashed THEN Cardinality(own) = 1 ELSE Cardinality(own) <= 1

\* As long as there has been one viewer only, the buttons tell what it plays
\* and the playback's images are displayed while it plays, whichever of the
\* user and the last frame ends it. (A second viewer shares the buttons with
\* what a destroyed one goes on playing.)
ButtonsTell ==
  Len(viewers) = 1 =>
    /\ \A kind \in Kinds : button[kind] = "on" <=> viewers[1].playback = kind
    /\ visible <=> Playing(viewers[1])

\* A recording ends at the limit (one frame later), whatever drives the motion.
FramesBounded == \A v \in 1 .. Len(viewers) : viewers[v].frames <= MaxFrames + 1

\* The images that a viewer requests in the step from record r to record s.
Requested(r, s) == {c \in s.calls \ r.calls : c.kind = "image"}

\* They are for the playback that runs. For one that burns each is of the frame after
\* the last one of the same playback, whose image has arrived or failed, or of frame 0
\* of a new playback; and it is in the recording.
InOrder(r, s) ==
  \A c \in Requested(r, s) :
    /\ Playing(s) /\ c.id = s.playback_id
    /\ s.playback = "burn" =>
         /\ c.frame < s.frames
         /\ c.frame = IF s.playback_id = r.playback_id THEN r.playback_frame + 1 ELSE 0
         /\ \A d \in s.calls : d.id = c.id => d = c

\* Whatever images of stopped playbacks arrive while another one runs, they request
\* nothing, and a burn requests its frames from the first on, each once, one at a
\* time, none after the end (updatePlaybackFrame's check of the id).
BurnsInOrder ==
  [][\A v \in 1 .. Len(viewers) : InOrder(viewers[v], viewers'[v])]_vars

\* Playing and burning end, also while the recording they play goes on and
\* whatever images fail.
PlaybackEnds ==
  <>[](\A v \in 1 .. Len(viewers) :
         viewers[v].playback \in {"play", "burn"} => viewers[v].crashed)

\* Motion ends when the drag has.
MotionEnds ==
  <>[](\A v \in 1 .. Len(viewers) : viewers[v].dragging \/ viewers[v].chains = 0)

=============================================================================
