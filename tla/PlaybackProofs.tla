----------------------------- MODULE PlaybackProofs -----------------------------
(***************************************************************************)
(* Proofs about Playback, for any number of viewers, frames, events and     *)
(* chains of motion timeouts.                                              *)
(***************************************************************************)
EXTENDS Playback, FiniteSetTheorems, TLAPS

-----------------------------------------------------------------------------
(* The invariant of a viewer's record.                                     *)

\* Recording begins at no frames, and ends when it finds the limit reached.
FramesOK(r) ==
  /\ r.frames <= MaxFrames + 1
  /\ r.recording => r.frames \in 0 .. MaxFrames

Own(r) == {c \in r.calls : c.id = r.playback_id}

\* There is no call of a playback that is still to come ...
Known(r) == \A c \in r.calls : c.id <= r.playback_id

AtMostOne(S) == S = {} \/ \E c : S = {c}

\* ... and one of the present playback, if it goes on.
Driven(r) ==
  IF Playing(r) /\ ~ r.crashed THEN \E c : Own(r) = {c} ELSE AtMostOne(Own(r))

ViewerInv(r) == r \in Record /\ FramesOK(r) /\ Known(r) /\ Driven(r)

CallSet == SUBSET [id : Nat, kind : {"image", "timeout"}, frame : Int]

-----------------------------------------------------------------------------
(* The operators of a viewer.                                              *)

\* The types of the fields of a record.
LEMMA FieldTypes ==
  ASSUME NEW r \in Record
  PROVE  /\ r.calls \in CallSet /\ r.playback_id \in Nat /\ r.playback_frame \in Int
         /\ r.frames \in Int /\ r.crashed \in BOOLEAN /\ r.recording \in BOOLEAN
         /\ r.playback \in Kinds \cup {"off"}
BY DEF Record, CallSet, NoFrames

\* A record whose calls change.
LEMMA CallsUpdate ==
  ASSUME NEW r \in Record, NEW C \in CallSet
  PROVE  [r EXCEPT !.calls = C] \in Record
BY DEF Record, CallSet

\* A record whose playback changes.
LEMMA PlaybackUpdate ==
  ASSUME NEW r \in Record, NEW k \in Kinds \cup {"off"}
  PROVE  [r EXCEPT !.playback = k] \in Record
BY DEF Record

\* A record whose frame changes.
LEMMA FrameUpdate ==
  ASSUME NEW r \in Record, NEW f \in Int
  PROVE  [r EXCEPT !.playback_frame = f] \in Record
BY DEF Record

\* A record of a playback that has ended with an exception.
LEMMA CrashUpdate ==
  ASSUME NEW r \in Record
  PROVE  [r EXCEPT !.crashed = TRUE] \in Record
BY DEF Record

\* A record of a playback that starts.
LEMMA StartUpdate ==
  ASSUME NEW r \in Record, NEW n \in Nat, NEW f \in Int, NEW k \in Kinds
  PROVE  [r EXCEPT !.playback = k, !.playback_frame = f, !.crashed = FALSE,
                   !.playback_id = n] \in Record
BY DEF Record

\* A record whose recording begins or ends.
LEMMA RecordingUpdate ==
  ASSUME NEW r \in Record, NEW b \in BOOLEAN, NEW n \in {NoFrames} \cup Nat,
         NEW t \in 0 .. TimeoutsPerFrame
  PROVE  [r EXCEPT !.recording = b, !.frame_timeout_cnt = t, !.frames = n] \in Record
BY DEF Record

\* A record that has captured a frame.
LEMMA FramesUpdate ==
  ASSUME NEW r \in Record, NEW n \in {NoFrames} \cup Nat, NEW t \in 0 .. TimeoutsPerFrame
  PROVE  [r EXCEPT !.frames = n, !.frame_timeout_cnt = t] \in Record
BY DEF Record

\* A new viewer has no frames and no calls.
LEMMA NewViewerInv == ViewerInv(NewViewer)
<1>1. NewViewer \in Record
  BY PlaybackAssumption DEF NewViewer, Record, NoFrames
<1>2. FramesOK(NewViewer)
  BY PlaybackAssumption DEF NewViewer, FramesOK, NoFrames
<1>3. Known(NewViewer) /\ Driven(NewViewer)
  BY DEF NewViewer, Known, Driven, Own, AtMostOne, Playing
<1>. QED
  BY <1>1, <1>2, <1>3 DEF ViewerInv

\* A record with the same calls and the same state of playback is as driven.
LEMMA SamePlayback ==
  ASSUME NEW r, NEW s, Known(r), Driven(r), s.calls = r.calls,
         s.playback_id = r.playback_id, s.playback = r.playback, s.crashed = r.crashed
  PROVE  Known(s) /\ Driven(s)
BY DEF Known, Driven, Own, Playing, AtMostOne

\* Recording begins or ends.
LEMMA SetRecordingInv ==
  ASSUME NEW r, ViewerInv(r), NEW val \in BOOLEAN
  PROVE  ViewerInv(SetRecording(r, val))
<1>. DEFINE s == SetRecording(r, val)
            n == IF val THEN 0 ELSE r.frames
<1>1. r \in Record /\ r.frames \in {NoFrames} \cup Nat
  BY DEF ViewerInv, Record
<1>2. n \in {NoFrames} \cup Nat /\ n <= MaxFrames + 1
  BY <1>1, PlaybackAssumption DEF ViewerInv, FramesOK
<1>3. s = [r EXCEPT !.recording = val, !.frame_timeout_cnt = 0, !.frames = n]
  BY DEF SetRecording
<1>. HIDE DEF n
<1>4. s \in Record
  <2>1. 0 \in 0 .. TimeoutsPerFrame
    BY PlaybackAssumption
  <2>2. [r EXCEPT !.recording = val, !.frame_timeout_cnt = 0, !.frames = n] \in Record
    BY <1>1, <1>2, <2>1, RecordingUpdate
  <2>. QED
    BY <1>3, <2>2
<1>5. s.frames = n /\ s.recording = val
  BY <1>1, <1>3 DEF Record
<1>6. FramesOK(s)
  BY <1>2, <1>5, PlaybackAssumption DEF FramesOK, n
<1>7. Known(s) /\ Driven(s)
  <2>1. /\ s.calls = r.calls /\ s.playback_id = r.playback_id
        /\ s.playback = r.playback /\ s.crashed = r.crashed
    BY <1>1, <1>3 DEF Record
  <2>. QED
    BY <2>1, SamePlayback DEF ViewerInv
<1>. QED
  BY <1>4, <1>6, <1>7 DEF ViewerInv

\* A frame is captured, or waited for.
LEMMA CapturedInv ==
  ASSUME NEW r, ViewerInv(r), r.recording
  PROVE  ViewerInv(Captured(r))
<1>1. /\ r \in Record /\ r.frames \in 0 .. MaxFrames
      /\ r.frame_timeout_cnt \in 0 .. TimeoutsPerFrame
      /\ TimeoutsPerFrame \in Nat /\ MaxFrames \in Nat
  BY PlaybackAssumption DEF ViewerInv, FramesOK, Record
<1>2. CASE r.frame_timeout_cnt > 0
  <2>. DEFINE n == r.frame_timeout_cnt - 1
              s == [r EXCEPT !.frame_timeout_cnt = n]
  <2>1. n \in 0 .. TimeoutsPerFrame
    BY <1>1, <1>2
  <2>2. Captured(r) = s
    BY <1>2 DEF Captured
  <2>. HIDE DEF n
  <2>3. s \in Record
    BY <1>1, <2>1 DEF Record
  <2>4. /\ s.frames = r.frames /\ s.recording = r.recording
        /\ s.calls = r.calls /\ s.playback_id = r.playback_id
        /\ s.playback = r.playback /\ s.crashed = r.crashed
    BY <1>1 DEF Record
  <2>5. FramesOK(s)
    BY <1>1, <2>4 DEF FramesOK
  <2>6. Known(s) /\ Driven(s)
    BY <2>4, SamePlayback DEF ViewerInv
  <2>. QED
    BY <2>2, <2>3, <2>5, <2>6 DEF ViewerInv
<1>3. CASE ~ (r.frame_timeout_cnt > 0)
  <2>. DEFINE b == IF r.frames >= MaxFrames THEN FALSE ELSE TRUE
              n == r.frames + 1
              q == IF r.frames >= MaxFrames THEN SetRecording(r, FALSE) ELSE r
              s == [q EXCEPT !.frames = n, !.frame_timeout_cnt = TimeoutsPerFrame]
  <2>1. /\ ViewerInv(q) /\ q \in Record /\ q.frames = r.frames /\ q.recording = b
        /\ q.calls = r.calls /\ q.playback_id = r.playback_id
        /\ q.playback = r.playback /\ q.crashed = r.crashed
    BY <1>1, SetRecordingInv DEF SetRecording, Record, ViewerInv
  <2>2. Captured(r) = s
    BY <1>3, <2>1 DEF Captured
  <2>3. n \in Nat /\ n <= MaxFrames + 1 /\ (b => n <= MaxFrames) /\ b \in BOOLEAN
    BY <1>1
  <2>. HIDE DEF n, b, q
  <2>4. s \in Record
    <3>1. n \in {NoFrames} \cup Nat /\ TimeoutsPerFrame \in 0 .. TimeoutsPerFrame
      BY <1>1, <2>3, PlaybackAssumption
    <3>. QED
      BY <2>1, <3>1, FramesUpdate
  <2>5. /\ s.frames = n /\ s.recording = b
        /\ s.calls = r.calls /\ s.playback_id = r.playback_id
        /\ s.playback = r.playback /\ s.crashed = r.crashed
    BY <2>1 DEF Record
  <2>6. FramesOK(s)
    BY <1>1, <2>3, <2>5 DEF FramesOK
  <2>7. Known(s) /\ Driven(s)
    BY <2>5, SamePlayback DEF ViewerInv
  <2>. QED
    BY <2>2, <2>4, <2>6, <2>7 DEF ViewerInv
<1>. QED
  BY <1>2, <1>3

-----------------------------------------------------------------------------
(* Playback.                                                               *)

\* Playback stops: the call on its way is left.
LEMMA DisabledInv ==
  ASSUME NEW r, ViewerInv(r)
  PROVE  ViewerInv(Disabled(r)) /\ Disabled(r).playback = "off"
<1>. DEFINE s == Disabled(r)
<1>1. r \in Record
  BY DEF ViewerInv
<1>2. s \in Record
  BY <1>1, PlaybackUpdate DEF Disabled
<1>3. /\ s.frames = r.frames /\ s.recording = r.recording
      /\ s.calls = r.calls /\ s.playback_id = r.playback_id
      /\ s.playback = "off"
  BY <1>1 DEF Disabled, Record
<1>4. FramesOK(s) /\ Known(s)
  BY <1>3 DEF ViewerInv, FramesOK, Known
<1>5. AtMostOne(Own(r))
  BY DEF ViewerInv, Driven, AtMostOne
<1>6. Own(s) = Own(r)
  BY <1>3 DEF Own
<1>7. Driven(s)
  BY <1>3, <1>5, <1>6 DEF Driven, Playing
<1>. QED
  BY <1>2, <1>3, <1>4, <1>7 DEF ViewerInv

\* A playback that has no call makes one.
LEMMA AwaitInv ==
  ASSUME NEW r \in Record, FramesOK(r), Known(r), Own(r) = {},
         NEW id, id = r.playback_id, NEW kind \in {"image", "timeout"}
  PROVE  ViewerInv(Await(r, id, kind)) /\ Await(r, id, kind).playback = r.playback
<1>. DEFINE c == [id |-> r.playback_id, kind |-> kind, frame |-> r.playback_frame]
            C == r.calls \cup {c}
            s == Await(r, id, kind)
<1>1. r.calls \in CallSet /\ r.playback_id \in Nat /\ r.playback_frame \in Int
  BY FieldTypes
<1>2. C \in CallSet
  BY <1>1 DEF CallSet
<1>3. s = [r EXCEPT !.calls = C]
  BY DEF Await
<1>4. c.id = r.playback_id
  OBVIOUS
<1>. HIDE DEF c, s
<1>5. s \in Record
  BY <1>2, <1>3, CallsUpdate
<1>6. /\ s.calls = C /\ s.frames = r.frames /\ s.recording = r.recording
      /\ s.playback_id = r.playback_id /\ s.playback = r.playback
  BY <1>3 DEF Record
<1>7. FramesOK(s)
  BY <1>6 DEF FramesOK
<1>8. Known(s)
  BY <1>1, <1>4, <1>6 DEF Known
<1>9. Own(s) = {c}
  BY <1>4, <1>6 DEF Own
<1>10. Driven(s)
  BY <1>9 DEF Driven, AtMostOne
<1>. QED
  BY <1>5, <1>6, <1>7, <1>8, <1>10 DEF ViewerInv, s

\* updatePlaybackFrame: a call of the present playback, of which none is left,
\* makes one or ends it; any other does nothing.
LEMMA UpdatedInv ==
  ASSUME NEW r \in Record, FramesOK(r), Known(r), NEW id, NEW f \in Int,
         IF Playing(r) /\ id = r.playback_id THEN Own(r) = {} ELSE Driven(r)
  PROVE  /\ ViewerInv(Updated(r, id, f))
         /\ Updated(r, id, f).playback \in {r.playback, "off"}
<1>. DEFINE s == [r EXCEPT !.playback_frame = f]
<1>1. CASE ~ (Playing(r) /\ id = r.playback_id)
  <2>1. Updated(r, id, f) = r
    BY <1>1 DEF Updated
  <2>. QED
    BY <1>1, <2>1 DEF ViewerInv
<1>2. CASE Playing(r) /\ id = r.playback_id
  <2>1. Own(r) = {}
    BY <1>2
  <2>2. /\ s \in Record
        /\ s.frames = r.frames /\ s.recording = r.recording /\ s.calls = r.calls
        /\ s.playback_id = r.playback_id /\ s.playback = r.playback
        /\ s.crashed = r.crashed
    BY FrameUpdate DEF Record
  <2>3. FramesOK(s) /\ Known(s) /\ Own(s) = {}
    BY <2>1, <2>2 DEF FramesOK, Known, Own
  <2>4. ViewerInv(Await(s, id, "image")) /\ Await(s, id, "image").playback = r.playback
    BY <1>2, <2>2, <2>3, AwaitInv
  <2>5. ViewerInv(Await(r, id, "timeout")) /\ Await(r, id, "timeout").playback = r.playback
    BY <1>2, <2>1, AwaitInv
  <2>6. ViewerInv(Disabled(s)) /\ Disabled(s).playback = "off"
    <3>1. /\ Disabled(s) \in Record
          /\ Disabled(s).frames = s.frames /\ Disabled(s).recording = s.recording
          /\ Disabled(s).calls = s.calls /\ Disabled(s).playback_id = s.playback_id
          /\ Disabled(s).playback = "off"
      BY <2>2, PlaybackUpdate DEF Disabled, Record
    <3>2. FramesOK(Disabled(s)) /\ Known(Disabled(s)) /\ Own(Disabled(s)) = {}
      BY <2>3, <3>1 DEF FramesOK, Known, Own
    <3>. QED
      BY <3>1, <3>2 DEF ViewerInv, Driven, AtMostOne, Playing
  <2>7. /\ ViewerInv([s EXCEPT !.crashed = TRUE])
        /\ [s EXCEPT !.crashed = TRUE].playback = r.playback
    <3>. DEFINE q == [s EXCEPT !.crashed = TRUE]
    <3>2. q \in Record
      BY <2>2, CrashUpdate
    <3>3. /\ q.frames = r.frames /\ q.recording = r.recording /\ q.calls = r.calls
          /\ q.playback_id = r.playback_id /\ q.playback = r.playback
          /\ q.crashed = TRUE
      BY <2>2 DEF Record
    <3>4. FramesOK(q) /\ Known(q) /\ Own(q) = {}
      BY <2>1, <3>3 DEF FramesOK, Known, Own
    <3>. QED
      BY <3>2, <3>3, <3>4 DEF ViewerInv, Driven, AtMostOne
  <2>8. Updated(r, id, f) \in {Await(s, id, "image"), Await(r, id, "timeout"), Disabled(s),
                              [s EXCEPT !.crashed = TRUE]}
    BY <1>2 DEF Updated
  <2>. HIDE DEF s
  <2>. QED
    BY <2>4, <2>5, <2>6, <2>7, <2>8
<1>. QED
  BY <1>1, <1>2

\* A call that is made leaves its playback without one.
LEMMA CallInv ==
  ASSUME NEW r, ViewerInv(r), NEW c \in r.calls, NEW f \in Int
  PROVE  LET q == [r EXCEPT !.calls = r.calls \ {c}] IN
           /\ ViewerInv(Updated(q, c.id, f))
           /\ Updated(q, c.id, f).playback \in {r.playback, "off"}
<1>. DEFINE C == r.calls \ {c}
            q == [r EXCEPT !.calls = C]
<1>1. r \in Record /\ r.calls \in CallSet
  BY FieldTypes DEF ViewerInv
<1>2. C \in CallSet
  BY <1>1 DEF CallSet
<1>3. q \in Record
  BY <1>1, <1>2, CallsUpdate
<1>4. /\ q.calls = C /\ q.frames = r.frames /\ q.recording = r.recording
      /\ q.playback_id = r.playback_id /\ q.playback = r.playback
      /\ q.crashed = r.crashed
  BY <1>1 DEF Record
<1>5. FramesOK(q) /\ Known(q)
  BY <1>4 DEF ViewerInv, FramesOK, Known
<1>6. AtMostOne(Own(r))
  BY DEF ViewerInv, Driven, AtMostOne
<1>7. CASE c.id = r.playback_id
  <2>1. c \in Own(r)
    BY <1>7 DEF Own
  <2>2. Own(r) = {c}
    BY <1>6, <2>1 DEF AtMostOne
  <2>3. Own(q) = {}
    BY <1>4, <2>2 DEF Own
  <2>4. ~ Playing(q) => Driven(q)
    BY <2>3 DEF Driven, AtMostOne
  <2>. QED
    BY <1>3, <1>4, <1>5, <1>7, <2>3, <2>4, UpdatedInv
<1>8. CASE c.id # r.playback_id
  <2>1. Own(q) = Own(r)
    BY <1>4, <1>8 DEF Own
  <2>2. Driven(q)
    BY <1>4, <2>1 DEF ViewerInv, Driven, Playing
  <2>. QED
    BY <1>3, <1>4, <1>5, <1>8, <2>2, UpdatedInv
<1>. QED
  BY <1>7, <1>8

\* A playback that starts has an id of its own, of which there is no call.
LEMMA StartedInv ==
  ASSUME NEW r, ViewerInv(r), NEW kind \in Kinds
  PROVE  /\ ViewerInv(Started(r, kind))
         /\ Started(r, kind).playback \in {kind, "off"}
<1>. DEFINE n == r.playback_id + 1
            q == [r EXCEPT !.playback = kind, !.playback_frame = -1, !.crashed = FALSE,
                           !.playback_id = n]
<1>1. r \in Record /\ r.playback_id \in Nat
  BY FieldTypes DEF ViewerInv
<1>2. n \in Nat /\ -1 \in Int
  BY <1>1
<1>3. q \in Record
  BY <1>1, <1>2, StartUpdate
<1>4. /\ q.calls = r.calls /\ q.frames = r.frames /\ q.recording = r.recording
      /\ q.playback_id = n /\ q.playback = kind
  BY <1>1 DEF Record
<1>5. Started(r, kind) = Updated(q, n, 0)
  BY DEF Started
<1>. HIDE DEF q
<1>6. ASSUME NEW c \in r.calls PROVE c.id <= n /\ c.id # n
  <2>1. c.id \in Nat /\ c.id <= r.playback_id
    BY <1>1, FieldTypes DEF ViewerInv, Known, CallSet
  <2>. QED
    BY <1>1, <2>1
<1>7. FramesOK(q) /\ Known(q) /\ Own(q) = {}
  BY <1>4, <1>6 DEF ViewerInv, FramesOK, Known, Own
<1>8. Playing(q)
  BY <1>4 DEF Playing, Kinds
<1>. HIDE DEF n
<1>9. ViewerInv(Updated(q, n, 0)) /\ Updated(q, n, 0).playback \in {q.playback, "off"}
  BY <1>3, <1>4, <1>7, <1>8, UpdatedInv
<1>. QED
  BY <1>4, <1>5, <1>9

\* After an error the same call is made by a timeout.
LEMMA ErrorInv ==
  ASSUME NEW r, ViewerInv(r), NEW c \in r.calls
  PROVE  LET q == [r EXCEPT !.calls = (r.calls \ {c}) \cup {[c EXCEPT !.kind = "timeout"]}]
         IN ViewerInv(q) /\ q.playback = r.playback
<1>. DEFINE d == [c EXCEPT !.kind = "timeout"]
            C == (r.calls \ {c}) \cup {d}
            q == [r EXCEPT !.calls = C]
<1>1. r \in Record /\ r.calls \in CallSet
  BY FieldTypes DEF ViewerInv
<1>2. c \in [id : Nat, kind : {"image", "timeout"}, frame : Int]
  BY <1>1 DEF CallSet
<1>3. /\ d \in [id : Nat, kind : {"image", "timeout"}, frame : Int]
      /\ d.id = c.id
  BY <1>2
<1>. HIDE DEF d
<1>4. C \in CallSet
  BY <1>1, <1>3 DEF CallSet
<1>5. q \in Record
  BY <1>1, <1>4, CallsUpdate
<1>6. /\ q.calls = C /\ q.frames = r.frames /\ q.recording = r.recording
      /\ q.playback_id = r.playback_id /\ q.playback = r.playback
      /\ q.crashed = r.crashed
  BY <1>1 DEF Record
<1>7. FramesOK(q) /\ Known(q)
  BY <1>3, <1>6 DEF ViewerInv, FramesOK, Known
<1>8. AtMostOne(Own(r))
  BY DEF ViewerInv, Driven, AtMostOne
<1>9. CASE c.id = r.playback_id
  <2>1. c \in Own(r)
    BY <1>9 DEF Own
  <2>2. Own(r) = {c}
    BY <1>8, <2>1 DEF AtMostOne
  <2>3. Own(q) = {d}
    BY <1>3, <1>6, <1>9, <2>2 DEF Own
  <2>. QED
    BY <1>5, <1>6, <1>7, <2>3 DEF ViewerInv, Driven, AtMostOne, d
<1>10. CASE c.id # r.playback_id
  <2>1. Own(q) = Own(r)
    BY <1>3, <1>6, <1>10 DEF Own
  <2>2. Driven(q)
    BY <1>6, <2>1 DEF ViewerInv, Driven, Playing
  <2>. QED
    BY <1>5, <1>6, <1>7, <2>2 DEF ViewerInv, d
<1>. QED
  BY <1>9, <1>10

-----------------------------------------------------------------------------
(* The state.                                                              *)

Buttons == [Kinds \cup {"record"} -> {"on", "off", "none"}]

\* The inductive invariant.
ViewersInv ==
  /\ viewers \in Seq(Record)
  /\ \A v \in 1 .. Len(viewers) : ViewerInv(viewers[v])

PageInv ==
  /\ viewer \in 0 .. Len(viewers)
  /\ Len(viewers) > 0
  /\ motion \in {"position", "velocity"}
  /\ button \in Buttons
  /\ visible \in BOOLEAN

IInv == ViewersInv /\ PageInv /\ ButtonsTell

\* The playback of viewer v is as it was.
PlaysOn(v, s) == s.playback = viewers[v].playback

\* One record changes.
LEMMA OneViewerChanges ==
  ASSUME ViewersInv, NEW v \in 1 .. Len(viewers), NEW s, ViewerInv(s),
         viewers' = [viewers EXCEPT ![v] = s]
  PROVE  /\ ViewersInv'
         /\ Len(viewers') = Len(viewers) /\ viewers'[v] = s
<1>1. viewers \in Seq(Record) /\ s \in Record
  BY DEF ViewersInv, ViewerInv
<1>2. /\ viewers' \in Seq(Record) /\ Len(viewers') = Len(viewers) /\ viewers'[v] = s
      /\ \A w \in 1 .. Len(viewers) : w # v => viewers'[w] = viewers[w]
  BY <1>1
<1>3. ASSUME NEW w \in 1 .. Len(viewers')
      PROVE  ViewerInv(viewers'[w])
  <2>1. CASE w = v
    BY <1>2, <2>1
  <2>2. CASE w # v
    BY <1>2, <2>2 DEF ViewersInv
  <2>. QED
    BY <2>1, <2>2
<1>4. ViewersInv'
  BY <1>2, <1>3 DEF ViewersInv
<1>. QED
  BY <1>2, <1>4

\* A record changes, but not what it plays, nor the buttons that tell.
LEMMA PlainStep ==
  ASSUME IInv, NEW v \in 1 .. Len(viewers), NEW s, ViewerInv(s), PlaysOn(v, s),
         viewers' = [viewers EXCEPT ![v] = s],
         UNCHANGED <<viewer, visible>>, motion' \in {"position", "velocity"},
         button' \in Buttons, \A kind \in Kinds : button'[kind] = button[kind]
  PROVE  IInv'
<1>1. ViewersInv' /\ Len(viewers') = Len(viewers) /\ viewers'[v] = s
  BY OneViewerChanges DEF IInv
<1>2. PageInv'
  BY <1>1 DEF IInv, PageInv
<1>3. ButtonsTell'
  <2>1. SUFFICES ASSUME Len(viewers) = 1
                 PROVE  /\ \A kind \in Kinds : button'[kind] = "on"
                                                <=> viewers'[1].playback = kind
                        /\ visible' <=> Playing(viewers'[1])
    BY <1>1 DEF ButtonsTell
  <2>2. v = 1 /\ viewers'[1].playback = viewers[1].playback
    BY <1>1, <2>1 DEF PlaysOn
  <2>3. /\ \A kind \in Kinds : button[kind] = "on" <=> viewers[1].playback = kind
        /\ visible <=> Playing(viewers[1])
    BY <2>1 DEF IInv, ButtonsTell
  <2>. QED
    BY <2>2, <2>3 DEF Playing
<1>. QED
  BY <1>1, <1>2, <1>3 DEF IInv

\* What the buttons show after all are switched off, and one perhaps on.
LEMMA ButtonsAfter ==
  ASSUME button \in Buttons, NEW kind \in Kinds
  PROVE  /\ AllOff \in Buttons /\ [AllOff EXCEPT ![kind] = "on"] \in Buttons
         /\ \A k \in Kinds : AllOff[k] = "off"
         /\ \A k \in Kinds : [AllOff EXCEPT ![kind] = "on"][k] = "on" <=> k = kind
BY DEF Buttons, AllOff, Kinds

\* A playback button: what plays then is what the buttons show.
LEMMA ButtonStep == ASSUME IInv, NEW kind \in Kinds, PlaybackButton(kind) PROVE IInv'
<1>. DEFINE r == viewers[viewer]
            on == button[kind] = "off"
            s == IF on THEN Started(Disabled(r), kind) ELSE Disabled(r)
<1>1. /\ viewer # 0
      /\ viewers' = [viewers EXCEPT ![viewer] = s]
      /\ button' = IF Playing(s) THEN [AllOff EXCEPT ![kind] = "on"] ELSE AllOff
      /\ visible' = IF on THEN Playing(s) ELSE visible /\ ~ Playing(r)
      /\ UNCHANGED <<viewer, motion>>
  BY DEF PlaybackButton
<1>2. viewer \in 1 .. Len(viewers) /\ ViewerInv(r) /\ button \in Buttons /\ visible \in BOOLEAN
  BY <1>1 DEF IInv, PageInv, ViewersInv
<1>3. ViewerInv(Disabled(r)) /\ Disabled(r).playback = "off"
  BY <1>2, DisabledInv
<1>4. /\ ViewerInv(Started(Disabled(r), kind))
      /\ Started(Disabled(r), kind).playback \in {kind, "off"}
  BY <1>3, StartedInv
<1>5. ViewerInv(s) /\ s.playback \in {kind, "off"} /\ (~ on => s.playback = "off")
  BY <1>3, <1>4
<1>. HIDE DEF s
<1>6. ViewersInv' /\ Len(viewers') = Len(viewers) /\ viewers'[viewer] = s
  BY <1>1, <1>2, <1>5, OneViewerChanges DEF IInv
<1>7. button' \in Buttons /\ \A k \in Kinds : button'[k] = "on" <=> s.playback = k
  <2>1. CASE Playing(s)
    <3>1. s.playback = kind
      BY <1>5, <2>1 DEF Playing
    <3>. QED
      BY <1>1, <1>2, <2>1, <3>1, ButtonsAfter
  <2>2. CASE ~ Playing(s)
    <3>1. s.playback = "off"
      BY <2>2 DEF Playing
    <3>2. \A k \in Kinds : k # "off"
      BY DEF Kinds
    <3>. QED
      BY <1>1, <1>2, <2>2, <3>1, <3>2, ButtonsAfter
  <2>. QED
    BY <2>1, <2>2
<1>8. visible' \in BOOLEAN
  BY <1>1, <1>2 DEF Playing
<1>9. PageInv'
  BY <1>1, <1>6, <1>7, <1>8 DEF IInv, PageInv
<1>10. ASSUME Len(viewers) = 1
       PROVE  visible' <=> Playing(s)
  <2>1. viewer = 1
    BY <1>2, <1>10
  <2>2. visible <=> Playing(r)
    BY <1>10, <2>1 DEF IInv, ButtonsTell
  <2>3. ~ on => ~ Playing(s)
    BY <1>5 DEF Playing
  <2>. QED
    BY <1>1, <2>2, <2>3
<1>11. ButtonsTell'
  <2>1. Len(viewers) = 1 => viewers'[1] = s
    BY <1>2, <1>6
  <2>. QED
    BY <1>6, <1>7, <1>10, <2>1 DEF ButtonsTell
<1>. QED
  BY <1>6, <1>9, <1>11 DEF IInv

\* A call is made: where it ends the playback, the buttons go off with it.
LEMMA CallStep ==
  ASSUME IInv, NEW v \in 1 .. Len(viewers), NEW c \in viewers[v].calls, Call(v, c)
  PROVE  IInv'
<1>. DEFINE r == viewers[v]
            q == [r EXCEPT !.calls = r.calls \ {c}]
<1>1. ViewerInv(r) /\ button \in Buttons /\ visible \in BOOLEAN
  BY DEF IInv, ViewersInv, PageInv
<1>2. PICK f \in Due(q, c.kind = "timeout") : Becomes(v, Updated(q, c.id, f))
  BY DEF Call
<1>3. f \in Int
  <2>1. q.playback_frame \in Int /\ MaxFrames \in Nat
    BY <1>1, PlaybackAssumption DEF ViewerInv, Record
  <2>. QED
    BY <1>2, <2>1 DEF Due
<1>. DEFINE s == Updated(q, c.id, f)
<1>4. ViewerInv(s) /\ s.playback \in {r.playback, "off"}
  BY <1>1, <1>3, CallInv
<1>5. /\ viewers' = [viewers EXCEPT ![v] = s]
      /\ IF Playing(r) /\ ~ Playing(s) THEN button' = AllOff /\ visible' = FALSE
                                       ELSE UNCHANGED <<button, visible>>
      /\ UNCHANGED <<viewer, motion>>
  BY <1>2 DEF Becomes, Call
<1>. HIDE DEF s, q
<1>6. CASE s.playback = r.playback
  <2>1. UNCHANGED <<button, visible>>
    BY <1>5, <1>6 DEF Playing
  <2>2. motion' \in {"position", "velocity"}
    BY <1>5 DEF IInv, PageInv
  <2>. QED
    BY <1>1, <1>4, <1>5, <1>6, <2>1, <2>2, PlainStep DEF PlaysOn
<1>7. CASE s.playback # r.playback
  <2>1. s.playback = "off" /\ Playing(r) /\ ~ Playing(s)
    BY <1>4, <1>7 DEF Playing
  <2>2. button' = AllOff /\ visible' = FALSE
    BY <1>5, <2>1
  <2>3. ViewersInv' /\ Len(viewers') = Len(viewers) /\ viewers'[v] = s
    BY <1>4, <1>5, OneViewerChanges DEF IInv
  <2>4. button' \in Buttons /\ \A k \in Kinds : button'[k] = "off"
    <3>1. "play" \in Kinds
      BY DEF Kinds
    <3>. QED
      BY <1>1, <2>2, <3>1, ButtonsAfter
  <2>5. PageInv'
    BY <1>5, <2>2, <2>3, <2>4 DEF IInv, PageInv
  <2>6. ButtonsTell'
    <3>1. SUFFICES ASSUME Len(viewers) = 1
                   PROVE  /\ \A k \in Kinds : button'[k] = "on" <=> viewers'[1].playback = k
                          /\ visible' <=> Playing(viewers'[1])
      BY <2>3 DEF ButtonsTell
    <3>2. viewers'[1].playback = "off"
      BY <2>1, <2>3, <3>1
    <3>3. \A k \in Kinds : k # "off"
      BY DEF Kinds
    <3>. QED
      BY <2>2, <2>4, <3>2, <3>3 DEF Playing
  <2>. QED
    BY <2>3, <2>5, <2>6 DEF IInv
<1>. QED
  BY <1>6, <1>7

\* Changes of a record's motion.
LEMMA DragUpdates ==
  ASSUME NEW r, ViewerInv(r), NEW m \in 0 .. MaxChains
  PROVE  /\ ViewerInv([r EXCEPT !.dragging = TRUE, !.chains = m])
         /\ ViewerInv([r EXCEPT !.chains = m])
         /\ ViewerInv([r EXCEPT !.releasing = TRUE])
         /\ ViewerInv([r EXCEPT !.releasing = FALSE, !.dragging = FALSE])
<1>1. r \in Record /\ FramesOK(r) /\ Known(r) /\ Driven(r)
  BY DEF ViewerInv
<1>2. /\ [r EXCEPT !.dragging = TRUE, !.chains = m] \in Record
      /\ [r EXCEPT !.chains = m] \in Record
      /\ [r EXCEPT !.releasing = TRUE] \in Record
      /\ [r EXCEPT !.releasing = FALSE, !.dragging = FALSE] \in Record
  BY <1>1 DEF Record
<1>3. ASSUME NEW s \in Record, s.frames = r.frames, s.recording = r.recording,
             s.calls = r.calls, s.playback_id = r.playback_id,
             s.playback = r.playback, s.crashed = r.crashed
      PROVE  ViewerInv(s)
  <2>1. FramesOK(s)
    BY <1>1, <1>3 DEF FramesOK
  <2>2. Known(s) /\ Driven(s)
    BY <1>1, <1>3, SamePlayback
  <2>. QED
    BY <2>1, <2>2 DEF ViewerInv
<1>4. ViewerInv([r EXCEPT !.dragging = TRUE, !.chains = m])
  BY <1>1, <1>2, <1>3 DEF Record
<1>5. ViewerInv([r EXCEPT !.chains = m])
  BY <1>1, <1>2, <1>3 DEF Record
<1>6. ViewerInv([r EXCEPT !.releasing = TRUE])
  BY <1>1, <1>2, <1>3 DEF Record
<1>7. ViewerInv([r EXCEPT !.releasing = FALSE, !.dragging = FALSE])
  <2>. DEFINE s == [r EXCEPT !.releasing = FALSE, !.dragging = FALSE]
  <2>1. /\ s.frames = r.frames /\ s.recording = r.recording /\ s.calls = r.calls
        /\ s.playback_id = r.playback_id /\ s.playback = r.playback
        /\ s.crashed = r.crashed
    BY <1>1 DEF Record
  <2>2. s \in Record
    BY <1>2
  <2>. HIDE DEF s
  <2>3. ViewerInv(s)
    BY <1>3, <2>1, <2>2
  <2>. QED
    BY <2>3 DEF s
<1>. QED
  BY <1>4, <1>5, <1>6, <1>7

\* A drag begins and ends.
LEMMA DragStep ==
  ASSUME IInv, Down \/ Up \/ \E v \in 1 .. Len(viewers) : EndDrag(v)
  PROVE  IInv'
<1>0. /\ viewers \in Seq(Record) /\ viewer \in 0 .. Len(viewers)
      /\ motion \in {"position", "velocity"} /\ button \in Buttons
      /\ \A v \in 1 .. Len(viewers) : ViewerInv(viewers[v])
  BY DEF IInv, ViewersInv, PageInv
<1>1. CASE Down
  <2>. DEFINE r == viewers[viewer]
              m == IF motion = "position" THEN r.chains ELSE r.chains + 1
              s == [r EXCEPT !.dragging = TRUE, !.chains = m]
  <2>1. viewer \in 1 .. Len(viewers) /\ ViewerInv(r) /\ r \in Record
    BY <1>0, <1>1 DEF Down, ViewerInv
  <2>2. m \in 0 .. MaxChains
    <3>1. r.chains \in 0 .. MaxChains /\ MaxChains \in Nat
      BY <2>1, PlaybackAssumption DEF Record
    <3>2. motion # "position" => r.chains < MaxChains
      BY <1>1 DEF Down
    <3>. QED
      BY <3>1, <3>2
  <2>3. viewers' = [viewers EXCEPT ![viewer] = s] /\ UNCHANGED <<viewer, motion, button, visible>>
    BY <1>1 DEF Down
  <2>4. ViewerInv(s)
    BY <2>1, <2>2, DragUpdates
  <2>5. s.playback = r.playback
    BY <2>1 DEF Record
  <2>. HIDE DEF s
  <2>. QED
    BY <1>0, <2>1, <2>3, <2>4, <2>5, PlainStep DEF PlaysOn
<1>2. CASE Up
  <2>. DEFINE r == viewers[viewer]
              s == [r EXCEPT !.releasing = TRUE]
  <2>1. viewer \in 1 .. Len(viewers) /\ ViewerInv(r) /\ r \in Record
    BY <1>0, <1>2 DEF Up, ViewerInv
  <2>2. viewers' = [viewers EXCEPT ![viewer] = s] /\ UNCHANGED <<viewer, motion, button, visible>>
    BY <1>2 DEF Up
  <2>3. ViewerInv(s)
    <3>1. 0 \in 0 .. MaxChains
      BY PlaybackAssumption
    <3>. QED
      BY <2>1, <3>1, DragUpdates
  <2>4. s.playback = r.playback
    BY <2>1 DEF Record
  <2>. HIDE DEF s
  <2>. QED
    BY <1>0, <2>1, <2>2, <2>3, <2>4, PlainStep DEF PlaysOn
<1>3. CASE \E v \in 1 .. Len(viewers) : EndDrag(v)
  <2>1. PICK v \in 1 .. Len(viewers) : EndDrag(v)
    BY <1>3
  <2>. DEFINE r == viewers[v]
              s == [r EXCEPT !.releasing = FALSE, !.dragging = FALSE]
  <2>2. ViewerInv(r) /\ r \in Record
    BY <1>0 DEF ViewerInv
  <2>3. viewers' = [viewers EXCEPT ![v] = s] /\ UNCHANGED <<viewer, motion, button, visible>>
    BY <2>1 DEF EndDrag
  <2>4. ViewerInv(s)
    <3>1. 0 \in 0 .. MaxChains
      BY PlaybackAssumption
    <3>. QED
      BY <2>2, <3>1, DragUpdates
  <2>5. s.playback = r.playback
    BY <2>2 DEF Record
  <2>. HIDE DEF s
  <2>. QED
    BY <1>0, <2>3, <2>4, <2>5, PlainStep DEF PlaysOn
<1>. QED
  BY <1>1, <1>2, <1>3

\* A motion timeout, with or without a frame captured.
LEMMA MotionStep ==
  ASSUME IInv, NEW v \in 1 .. Len(viewers), ApplyMotion(v)
  PROVE  IInv'
<1>. DEFINE r == viewers[v]
            s == IF ~ r.dragging THEN [r EXCEPT !.chains = r.chains - 1]
                 ELSE IF r.recording THEN Captured(r) ELSE r
<1>1. /\ ViewerInv(r) /\ r \in Record /\ button \in Buttons
      /\ motion \in {"position", "velocity"}
  BY DEF IInv, ViewersInv, PageInv, ViewerInv
<1>2. /\ r.chains > 0 /\ viewers' = [viewers EXCEPT ![v] = s]
      /\ UNCHANGED <<viewer, motion, button, visible>>
  BY DEF ApplyMotion
<1>3. ViewerInv(s) /\ s.playback = r.playback
  <2>1. CASE ~ r.dragging
    <3>. DEFINE m == r.chains - 1
    <3>1. m \in 0 .. MaxChains
      <4>1. r.chains \in 0 .. MaxChains
        BY <1>1 DEF Record
      <4>. QED
        BY <1>2, <4>1, PlaybackAssumption
    <3>2. ViewerInv([r EXCEPT !.chains = m])
      BY <1>1, <3>1, DragUpdates
    <3>3. [r EXCEPT !.chains = m].playback = r.playback
      BY <1>1 DEF Record
    <3>4. s = [r EXCEPT !.chains = m]
      BY <2>1
    <3>. QED
      BY <3>2, <3>3, <3>4
  <2>2. CASE r.dragging /\ r.recording
    <3>1. ViewerInv(Captured(r))
      BY <1>1, <2>2, CapturedInv
    <3>2. Captured(r).playback = r.playback
      BY <1>1 DEF Captured, SetRecording, Record
    <3>. QED
      BY <2>2, <3>1, <3>2
  <2>3. CASE r.dragging /\ ~ r.recording
    BY <1>1, <2>3
  <2>. QED
    BY <2>1, <2>2, <2>3
<1>. HIDE DEF s
<1>. QED
  BY <1>1, <1>2, <1>3, PlainStep DEF PlaysOn

\* The record button.
LEMMA RecordStep == ASSUME IInv, RecordButton PROVE IInv'
<1>. DEFINE r == viewers[viewer]
            on == button.record = "off"
            s == SetRecording(r, on)
            b == [button EXCEPT !.record = IF on THEN "on" ELSE "off"]
<1>1. /\ viewer # 0 /\ viewers' = [viewers EXCEPT ![viewer] = s] /\ button' = b
      /\ UNCHANGED <<viewer, motion, visible>>
  BY DEF RecordButton
<1>2. /\ viewer \in 1 .. Len(viewers) /\ ViewerInv(r) /\ r \in Record
      /\ button \in Buttons /\ motion \in {"position", "velocity"}
  BY <1>1 DEF IInv, PageInv, ViewersInv, ViewerInv
<1>3. on \in BOOLEAN
  OBVIOUS
<1>. HIDE DEF on
<1>4. ViewerInv(s)
  BY <1>2, <1>3, SetRecordingInv
<1>5. s.playback = r.playback
  BY <1>2 DEF SetRecording, Record
<1>6. b \in Buttons /\ \A k \in Kinds : b[k] = button[k]
  BY <1>2 DEF Buttons, Kinds
<1>. HIDE DEF s, b
<1>. QED
  BY <1>1, <1>2, <1>4, <1>5, <1>6, PlainStep DEF PlaysOn

\* An image is not there yet.
LEMMA ErrorStep ==
  ASSUME IInv, NEW v \in 1 .. Len(viewers), NEW c \in viewers[v].calls, ImageError(v, c)
  PROVE  IInv'
<1>. DEFINE r == viewers[v]
            s == [r EXCEPT !.calls = (r.calls \ {c}) \cup {[c EXCEPT !.kind = "timeout"]}]
<1>1. /\ ViewerInv(r) /\ button \in Buttons /\ motion \in {"position", "velocity"}
  BY DEF IInv, ViewersInv, PageInv
<1>2. ViewerInv(s) /\ s.playback = r.playback
  BY <1>1, ErrorInv
<1>3. viewers' = [viewers EXCEPT ![v] = s] /\ UNCHANGED <<viewer, motion, button, visible>>
  BY DEF ImageError
<1>. HIDE DEF s
<1>. QED
  BY <1>1, <1>2, <1>3, PlainStep DEF PlaysOn

\* A viewer is destroyed, or the motion input changes: no record does.
LEMMA NoViewerStep ==
  ASSUME IInv, UNCHANGED <<viewers, button, visible>>,
         viewer' \in 0 .. Len(viewers), motion' \in {"position", "velocity"}
  PROVE  IInv'
<1>1. ViewersInv'
  BY DEF IInv, ViewersInv
<1>2. PageInv' /\ ButtonsTell'
  BY DEF IInv, PageInv, ButtonsTell
<1>. QED
  BY <1>1, <1>2 DEF IInv

\* Another viewer is opened.
LEMMA OpenStep == ASSUME IInv, OpenFullViewer PROVE IInv'
<1>1. viewers \in Seq(Record) /\ Len(viewers) \in Nat \ {0} /\ NewViewer \in Record
  BY NewViewerInv DEF IInv, ViewersInv, PageInv, ViewerInv
<1>2. /\ viewers' = Append(viewers, NewViewer) /\ viewer' = Len(viewers')
      /\ UNCHANGED <<motion, button, visible>>
  BY DEF OpenFullViewer
<1>3. /\ viewers' \in Seq(Record) /\ Len(viewers') = Len(viewers) + 1
      /\ \A v \in 1 .. Len(viewers) : viewers'[v] = viewers[v]
      /\ viewers'[Len(viewers) + 1] = NewViewer
  BY <1>1, <1>2
<1>4. ASSUME NEW v \in 1 .. Len(viewers')
      PROVE  ViewerInv(viewers'[v])
  <2>1. CASE v \in 1 .. Len(viewers)
    BY <1>3, <2>1 DEF IInv, ViewersInv
  <2>2. CASE v = Len(viewers) + 1
    BY <1>3, <2>2, NewViewerInv
  <2>. QED
    BY <1>1, <1>3, <2>1, <2>2
<1>5. ViewersInv'
  BY <1>3, <1>4 DEF ViewersInv
<1>6. PageInv'
  BY <1>1, <1>2, <1>3 DEF IInv, PageInv
<1>7. ButtonsTell'
  BY <1>1, <1>3 DEF ButtonsTell
<1>. QED
  BY <1>5, <1>6, <1>7 DEF IInv

-----------------------------------------------------------------------------
(* Images that are requested.                                              *)

\* A step that makes no calls but timeouts requests nothing.
LEMMA RequestsNothing ==
  ASSUME NEW r, NEW s, \A c \in s.calls \ r.calls : c.kind = "timeout"
  PROVE  InOrder(r, s)
BY DEF InOrder, Requested

\* What is requested when no call of the playback is left.
LEMMA AwaitInOrder ==
  ASSUME NEW r, NEW q \in Record, q.calls \subseteq r.calls, Own(q) = {}, Playing(q),
         q.playback = "burn" =>
           /\ q.playback_frame < q.frames
           /\ q.playback_frame = IF q.playback_id = r.playback_id THEN r.playback_frame + 1
                                 ELSE 0
  PROVE  InOrder(r, Await(q, q.playback_id, "image"))
<1>. DEFINE n == [id |-> q.playback_id, kind |-> "image", frame |-> q.playback_frame]
            s == Await(q, q.playback_id, "image")
<1>1. /\ s.calls = q.calls \cup {n} /\ s.playback = q.playback
      /\ s.playback_id = q.playback_id /\ s.frames = q.frames
  BY DEF Await, Record
<1>2. n.id = q.playback_id /\ n.frame = q.playback_frame
  OBVIOUS
<1>. HIDE DEF n, s
<1>3. Requested(r, s) \subseteq {n}
  BY <1>1 DEF Requested
<1>4. Playing(s)
  BY <1>1 DEF Playing
<1>5. ASSUME NEW d \in s.calls, d.id = n.id PROVE d = n
  BY <1>1, <1>2, <1>5 DEF Own
<1>. QED
  BY <1>1, <1>2, <1>3, <1>4, <1>5 DEF InOrder, s

\* What updatePlaybackFrame requests, when it is called for the playback of an id
\* that has no other call, or for one that is over.
LEMMA UpdatedInOrder ==
  ASSUME NEW r, NEW q \in Record, NEW id, NEW f \in Int, q.calls \subseteq r.calls,
         Playing(q) /\ id = q.playback_id => Own(q) = {},
         q.playback = "burn" =>
           f = IF q.playback_id = r.playback_id THEN r.playback_frame + 1 ELSE 0
  PROVE  InOrder(r, Updated(q, id, f))
<1>. DEFINE s == [q EXCEPT !.playback_frame = f]
            u == Updated(q, id, f)
<1>1. /\ s \in Record /\ s.playback = q.playback /\ s.playback_id = q.playback_id
      /\ s.playback_frame = f /\ s.frames = q.frames /\ s.calls = q.calls
  BY FrameUpdate DEF Record
<1>2. CASE ~ Playing(q) \/ id # q.playback_id
  <2>1. u = q
    BY <1>2 DEF Updated
  <2>. QED
    BY <2>1, RequestsNothing
<1>3. CASE Playing(q) /\ id = q.playback_id
  <2>1. Own(s) = {} /\ Playing(s)
    BY <1>1, <1>3 DEF Own, Playing
  <2>2. CASE q.playback = "observe" \/ f < q.frames
    <3>1. InOrder(r, Await(s, s.playback_id, "image"))
      BY <1>1, <2>1, <2>2, AwaitInOrder
    <3>2. InOrder(r, Await(s, id, "image"))
      BY <1>1, <1>3, <3>1
    <3>3. u \in {Await(s, id, "image"), Await(q, id, "timeout"), [s EXCEPT !.crashed = TRUE],
                 Disabled(s)}
      BY <1>3 DEF Updated, s
    <3>. DEFINE m == [id |-> id, kind |-> "timeout", frame |-> q.playback_frame]
    <3>4. Await(q, id, "timeout").calls = q.calls \cup {m} /\ m.kind = "timeout"
      BY DEF Await, Record
    <3>. HIDE DEF m
    <3>5. InOrder(r, Await(q, id, "timeout"))
      BY <3>4, RequestsNothing
    <3>6. [s EXCEPT !.crashed = TRUE].calls = q.calls /\ Disabled(s).calls = q.calls
      BY <1>1 DEF Record, Disabled
    <3>7. InOrder(r, [s EXCEPT !.crashed = TRUE]) /\ InOrder(r, Disabled(s))
      BY <3>6, RequestsNothing
    <3>. HIDE DEF u, s
    <3>. QED
      BY <3>2, <3>3, <3>5, <3>7 DEF u
  <2>3. CASE q.playback # "observe" /\ ~ (f < q.frames)
    <3>3. u \in {Await(q, id, "timeout"), [s EXCEPT !.crashed = TRUE], Disabled(s)}
      BY <1>3, <2>3 DEF Updated, s
    <3>. DEFINE m == [id |-> id, kind |-> "timeout", frame |-> q.playback_frame]
    <3>4. Await(q, id, "timeout").calls = q.calls \cup {m} /\ m.kind = "timeout"
      BY DEF Await, Record
    <3>. HIDE DEF m
    <3>5. InOrder(r, Await(q, id, "timeout"))
      BY <3>4, RequestsNothing
    <3>6. [s EXCEPT !.crashed = TRUE].calls = q.calls /\ Disabled(s).calls = q.calls
      BY <1>1 DEF Record, Disabled
    <3>7. InOrder(r, [s EXCEPT !.crashed = TRUE]) /\ InOrder(r, Disabled(s))
      BY <3>6, RequestsNothing
    <3>. HIDE DEF u, s
    <3>. QED
      BY <3>3, <3>5, <3>7 DEF u
  <2>. QED
    BY <2>2, <2>3
<1>. QED
  BY <1>2, <1>3

\* A callback, whether of the playback that runs or of one that is over.
LEMMA CallInOrder ==
  ASSUME NEW r, ViewerInv(r), NEW c \in r.calls,
         NEW f \in Due([r EXCEPT !.calls = r.calls \ {c}], c.kind = "timeout"), f \in Int
  PROVE  InOrder(r, Updated([r EXCEPT !.calls = r.calls \ {c}], c.id, f))
<1>. DEFINE q == [r EXCEPT !.calls = r.calls \ {c}]
<1>1. r \in Record
  BY DEF ViewerInv
<1>2. /\ q \in Record /\ q.calls = r.calls \ {c}
      /\ q.playback = r.playback /\ q.playback_id = r.playback_id
      /\ q.playback_frame = r.playback_frame
  BY <1>1 DEF Record
<1>3. q.playback = "burn" => f = r.playback_frame + 1
  BY <1>2 DEF Due
<1>. HIDE DEF q
<1>4. ASSUME c.id = q.playback_id PROVE Own(q) = {}
  <2>1. c \in Own(r)
    BY <1>2, <1>4 DEF Own
  <2>2. Own(r) = {c}
    BY <2>1 DEF ViewerInv, Driven, AtMostOne
  <2>. QED
    BY <1>2, <2>2 DEF Own
<1>5. q.calls \subseteq r.calls
  BY <1>2
<1>6. InOrder(r, Updated(q, c.id, f))
  BY <1>2, <1>3, <1>4, <1>5, UpdatedInOrder
<1>. QED
  BY <1>6 DEF q

\* A playback that starts has an id of its own, and requests frame 0 or ends.
LEMMA StartInOrder ==
  ASSUME NEW r, ViewerInv(r), NEW kind \in Kinds
  PROVE  InOrder(r, Started(Disabled(r), kind))
<1>. DEFINE n == r.playback_id + 1
            q == [r EXCEPT !.playback = kind, !.playback_frame = -1, !.crashed = FALSE,
                           !.playback_id = n]
<1>1. r \in Record /\ r.playback_id \in Nat /\ n \in Nat /\ n # r.playback_id
  BY FieldTypes DEF ViewerInv
<1>2. /\ Started(Disabled(r), kind) = Updated(q, n, 0)
      /\ q \in Record /\ q.calls = r.calls /\ q.playback_id = n
  <2>1. [r EXCEPT !.playback = "off"].playback_id = r.playback_id
    BY <1>1 DEF Record
  <2>2. [[r EXCEPT !.playback = "off"] EXCEPT !.playback = kind, !.playback_frame = -1,
           !.crashed = FALSE, !.playback_id = @ + 1] = q
    BY <1>1, <2>1 DEF Record
  <2>3. -1 \in Int
    OBVIOUS
  <2>4. q.calls = r.calls /\ q.playback_id = n
    BY <1>1 DEF Record
  <2>. QED
    BY <1>1, <2>1, <2>2, <2>3, <2>4, StartUpdate DEF Started, Disabled
<1>. HIDE DEF q
<1>3. ASSUME NEW c \in r.calls PROVE c.id # n
  <2>1. c.id \in Nat /\ c.id <= r.playback_id
    BY <1>1, FieldTypes DEF ViewerInv, Known, CallSet
  <2>. QED
    BY <1>1, <2>1
<1>. HIDE DEF n
<1>4. Own(q) = {}
  BY <1>2, <1>3 DEF Own
<1>5. InOrder(r, Updated(q, n, 0))
  BY <1>1, <1>2, <1>4, UpdatedInOrder
<1>. QED
  BY <1>2, <1>5

\* Nothing else requests an image.
LEMMA OthersRequestNothing ==
  ASSUME NEW r \in Record
  PROVE  /\ InOrder(r, r)
         /\ \A m : InOrder(r, [r EXCEPT !.dragging = TRUE, !.chains = m])
         /\ InOrder(r, [r EXCEPT !.releasing = TRUE])
         /\ InOrder(r, [r EXCEPT !.releasing = FALSE, !.dragging = FALSE])
         /\ \A m : InOrder(r, [r EXCEPT !.chains = m])
         /\ \A b : InOrder(r, SetRecording(r, b))
         /\ InOrder(r, Captured(r))
         /\ InOrder(r, Disabled(r))
<1>1. ASSUME NEW s, s.calls = r.calls
      PROVE  InOrder(r, s)
  BY <1>1, RequestsNothing
<1>2. /\ \A m : [r EXCEPT !.dragging = TRUE, !.chains = m].calls = r.calls
      /\ [r EXCEPT !.releasing = TRUE].calls = r.calls
      /\ [r EXCEPT !.releasing = FALSE, !.dragging = FALSE].calls = r.calls
      /\ \A m : [r EXCEPT !.chains = m].calls = r.calls
      /\ Disabled(r).calls = r.calls
  BY DEF Record, Disabled
<1>3. /\ \A b : SetRecording(r, b).calls = r.calls
      /\ Captured(r).calls = r.calls
  BY DEF Record, SetRecording, Captured
<1>. QED
  BY <1>1, <1>2, <1>3

-----------------------------------------------------------------------------
(* The theorems.                                                           *)

\* One viewer, which plays nothing.
LEMMA Initial == Init => IInv
<1>. SUFFICES ASSUME Init PROVE IInv
  OBVIOUS
<1>1. /\ viewers = <<NewViewer>> /\ viewer = 1 /\ visible = FALSE
      /\ motion \in {"position", "velocity"}
      /\ button = [record |-> "off", play |-> "off", burn |-> "none", observe |-> "none"]
  BY DEF Init
<1>2. NewViewer \in Record
  BY NewViewerInv DEF ViewerInv
<1>3. viewers \in Seq(Record) /\ Len(viewers) = 1 /\ viewers[1] = NewViewer
  BY <1>1, <1>2
<1>4. ViewersInv
  BY <1>3, NewViewerInv DEF ViewersInv
<1>5. button \in Buttons /\ \A kind \in Kinds : button[kind] # "on"
  BY <1>1 DEF Buttons, Kinds
<1>6. PageInv
  <2>1. viewer \in 0 .. Len(viewers) /\ Len(viewers) > 0
    <3>1. viewer = 1 /\ Len(viewers) = 1
      BY <1>1, <1>3
    <3>. QED
      BY <3>1
  <2>2. visible \in BOOLEAN /\ motion \in {"position", "velocity"}
    BY <1>1
  <2>. QED
    BY <1>5, <2>1, <2>2 DEF PageInv
<1>7. NewViewer.playback = "off"
  BY DEF NewViewer
<1>8. \A kind \in Kinds : kind # "off"
  BY DEF Kinds
<1>9. ButtonsTell
  BY <1>1, <1>3, <1>5, <1>7, <1>8 DEF ButtonsTell, Playing
<1>. QED
  BY <1>4, <1>6, <1>9 DEF IInv

\* Every step keeps the invariant.
LEMMA Inductive == IInv /\ [Next]_vars => IInv'
<1>. SUFFICES ASSUME IInv, [Next]_vars PROVE IInv'
  OBVIOUS
<1>0. /\ viewer \in 0 .. Len(viewers) /\ motion \in {"position", "velocity"}
      /\ viewers \in Seq(Record)
  BY DEF IInv, PageInv, ViewersInv
<1>1. CASE Down \/ Up
  BY <1>1, DragStep
<1>2. CASE ChangeMotion
  BY <1>0, <1>2, NoViewerStep DEF ChangeMotion
<1>3. CASE RecordButton
  BY <1>3, RecordStep
<1>4. CASE \E kind \in Kinds : PlaybackButton(kind)
  BY <1>4, ButtonStep
<1>5. CASE DestroyViewer
  BY <1>0, <1>5, NoViewerStep DEF DestroyViewer
<1>6. CASE OpenFullViewer
  BY <1>6, OpenStep
<1>7. CASE \E v \in 1 .. Len(viewers) : Browser(v)
  <2>1. PICK v \in 1 .. Len(viewers) : Browser(v)
    BY <1>7
  <2>2. CASE EndDrag(v)
    BY <2>2, DragStep
  <2>3. CASE ApplyMotion(v)
    BY <2>3, MotionStep
  <2>4. CASE \E c \in viewers[v].calls : Call(v, c) \/ ImageError(v, c)
    BY <2>4, CallStep, ErrorStep
  <2>. QED
    BY <2>1, <2>2, <2>3, <2>4 DEF Browser
<1>8. CASE UNCHANGED vars
  BY <1>0, <1>8, NoViewerStep DEF vars
<1>. QED
  BY <1>1, <1>2, <1>3, <1>4, <1>5, <1>6, <1>7, <1>8 DEF Next

\* The invariant holds in every reachable state.
LEMMA Invariant == Spec => []IInv
BY Initial, Inductive, PTL DEF Spec

\* The variables have their types: the count between frames stays within its
\* range, the chains within theirs (applyMotion, captureFrame).
THEOREM PlaybackTypes == Spec => []PlaybackTypeOK
<1>1. IInv => PlaybackTypeOK
  BY DEF IInv, ViewersInv, PageInv, Buttons, PlaybackTypeOK
<1>. QED
  BY <1>1, Invariant, PTL

\* A playback of a viewer is driven by one callback, those of earlier ones being
\* left to end (playback_id in startPlayback and updatePlaybackFrame).
THEOREM PlaybackHasOneDriver == Spec => []OneDriver
<1>1. ASSUME NEW S, AtMostOne(S) PROVE Cardinality(S) <= 1
  <2>1. CASE S = {}
    BY <2>1, FS_EmptySet
  <2>2. CASE \E c : S = {c}
    <3>1. PICK c : S = {c}
      BY <2>2
    <3>2. Cardinality({c}) = 1
      BY FS_Singleton
    <3>. QED
      BY <3>1, <3>2
  <2>. QED
    BY <1>1, <2>1, <2>2 DEF AtMostOne
<1>2. ASSUME NEW r, Driven(r)
      PROVE  IF Playing(r) /\ ~ r.crashed THEN Cardinality(Own(r)) = 1
                                           ELSE Cardinality(Own(r)) <= 1
  BY <1>1, <1>2, FS_Singleton DEF Driven
<1>3. IInv => OneDriver
  BY <1>2 DEF IInv, ViewersInv, ViewerInv, Own, OneDriver
<1>. QED
  BY <1>3, Invariant, PTL

\* A recording ends at the limit (captureFrame).
THEOREM RecordingEnds == Spec => []FramesBounded
<1>1. IInv => FramesBounded
  BY DEF IInv, ViewersInv, ViewerInv, FramesOK, FramesBounded
<1>. QED
  BY <1>1, Invariant, PTL

\* With one viewer, its buttons and the display of its images tell what it plays
\* (the playback buttons' handler and disablePlayback).
THEOREM ButtonsTellPlayback == Spec => []ButtonsTell
<1>1. IInv => ButtonsTell
  BY DEF IInv
<1>. QED
  BY <1>1, Invariant, PTL

\* A burn requests the frames of the recording from the first on, each once and one at
\* a time, and no playback requests an image once it is stopped or another one has
\* started, whatever arrives late (updatePlaybackFrame).
THEOREM BurnedInOrder == Spec => BurnsInOrder
<1>. DEFINE Orders == \A v \in 1 .. Len(viewers) : InOrder(viewers[v], viewers'[v])
<1>1. ASSUME IInv, Next PROVE Orders
  <2>0. /\ viewers \in Seq(Record) /\ viewer \in 0 .. Len(viewers)
        /\ \A v \in 1 .. Len(viewers) : ViewerInv(viewers[v])
    BY <1>1 DEF IInv, ViewersInv, PageInv
  <2>1. ASSUME viewers' = viewers PROVE Orders
    <3>1. ASSUME NEW v \in 1 .. Len(viewers) PROVE viewers[v] \in Record
      BY <2>0
    <3>. QED
      BY <2>1, <3>1, OthersRequestNothing
  <2>2. ASSUME NEW v \in 1 .. Len(viewers), NEW s, InOrder(viewers[v], s),
               viewers' = [viewers EXCEPT ![v] = s]
        PROVE  Orders
    <3>1. ASSUME NEW w \in 1 .. Len(viewers) PROVE InOrder(viewers[w], viewers'[w])
      <4>1. viewers[w] \in Record /\ viewers'[w] = IF w = v THEN s ELSE viewers[w]
        BY <2>0, <2>2
      <4>. QED
        BY <2>2, <4>1, OthersRequestNothing
    <3>. QED
      BY <3>1
  <2>3. ASSUME viewer # 0
        PROVE  /\ viewer \in 1 .. Len(viewers) /\ viewers[viewer] \in Record
               /\ ViewerInv(viewers[viewer])
    <3>1. viewer \in 1 .. Len(viewers)
      BY <2>0, <2>3
    <3>. QED
      BY <2>0, <3>1
  <2>. HIDE DEF Orders
  <2>4. CASE Down
    <3>1. viewer # 0 /\ \E m : viewers' = [viewers EXCEPT ![viewer] =
                                 [viewers[viewer] EXCEPT !.dragging = TRUE, !.chains = m]]
      <4>1. viewers' = [viewers EXCEPT ![viewer].dragging = TRUE,
                          ![viewer].chains = IF motion = "position" THEN @ ELSE @ + 1]
        BY <2>4 DEF Down
      <4>. DEFINE m == IF motion = "position" THEN viewers[viewer].chains
                       ELSE viewers[viewer].chains + 1
      <4>2. viewer # 0
        BY <2>4 DEF Down
      <4>3. viewers' = [viewers EXCEPT ![viewer] =
                          [viewers[viewer] EXCEPT !.dragging = TRUE, !.chains = m]]
        BY <2>0, <2>3, <4>1, <4>2 DEF Record
      <4>. QED
        BY <4>2, <4>3
    <3>2. PICK m : viewers' = [viewers EXCEPT ![viewer] =
                                 [viewers[viewer] EXCEPT !.dragging = TRUE, !.chains = m]]
      BY <3>1
    <3>3. InOrder(viewers[viewer], [viewers[viewer] EXCEPT !.dragging = TRUE, !.chains = m])
      BY <2>3, <3>1, OthersRequestNothing
    <3>. QED
      BY <2>2, <2>3, <3>1, <3>2, <3>3
  <2>5. CASE Up
    <3>1. viewer # 0 /\ viewers' = [viewers EXCEPT ![viewer] =
                                      [viewers[viewer] EXCEPT !.releasing = TRUE]]
      BY <2>5 DEF Up
    <3>. QED
      BY <2>2, <2>3, <3>1, OthersRequestNothing
  <2>6. CASE ChangeMotion \/ DestroyViewer
    BY <2>1, <2>6 DEF ChangeMotion, DestroyViewer
  <2>7. CASE RecordButton
    <3>1. viewer # 0 /\ \E b : viewers' = [viewers EXCEPT ![viewer] =
                                             SetRecording(viewers[viewer], b)]
      BY <2>7 DEF RecordButton
    <3>2. PICK b : viewers' = [viewers EXCEPT ![viewer] = SetRecording(viewers[viewer], b)]
      BY <3>1
    <3>3. InOrder(viewers[viewer], SetRecording(viewers[viewer], b))
      BY <2>3, <3>1, OthersRequestNothing
    <3>. QED
      BY <2>2, <2>3, <3>1, <3>2, <3>3
  <2>8. CASE \E kind \in Kinds : PlaybackButton(kind)
    <3>1. PICK kind \in Kinds : PlaybackButton(kind)
      BY <2>8
    <3>2. viewer # 0 /\ viewers' = [viewers EXCEPT ![viewer] =
            IF button[kind] = "off" THEN Started(Disabled(viewers[viewer]), kind)
            ELSE Disabled(viewers[viewer])]
      BY <3>1 DEF PlaybackButton
    <3>3. /\ InOrder(viewers[viewer], Started(Disabled(viewers[viewer]), kind))
          /\ InOrder(viewers[viewer], Disabled(viewers[viewer]))
      BY <2>3, <3>2, StartInOrder, OthersRequestNothing
    <3>. QED
      BY <2>2, <2>3, <3>2, <3>3
  <2>9. CASE OpenFullViewer
    <3>1. \A v \in 1 .. Len(viewers) : viewers'[v] = viewers[v] /\ viewers[v] \in Record
      BY <2>0, <2>9 DEF OpenFullViewer
    <3>. QED
      BY <3>1, OthersRequestNothing DEF Orders
  <2>10. ASSUME NEW v \in 1 .. Len(viewers), Browser(v) PROVE Orders
    <3>0. viewers[v] \in Record /\ ViewerInv(viewers[v])
      BY <2>0
    <3>1. CASE EndDrag(v)
      <4>1. viewers' = [viewers EXCEPT ![v] =
                          [viewers[v] EXCEPT !.releasing = FALSE, !.dragging = FALSE]]
        BY <2>0, <3>0, <3>1 DEF EndDrag, Record
      <4>. QED
        BY <2>2, <3>0, <4>1, OthersRequestNothing
    <3>2. CASE ApplyMotion(v)
      <4>1. \E s : /\ viewers' = [viewers EXCEPT ![v] = s]
                   /\ \/ \E m : s = [viewers[v] EXCEPT !.chains = m]
                      \/ s = Captured(viewers[v]) \/ s = viewers[v]
        BY <3>2 DEF ApplyMotion
      <4>. QED
        BY <2>2, <3>0, <4>1, OthersRequestNothing
    <3>3. ASSUME NEW c \in viewers[v].calls, Call(v, c) PROVE Orders
      <4>. DEFINE r == viewers[v]
                  q == [r EXCEPT !.calls = r.calls \ {c}]
      <4>1. PICK f \in Due(q, c.kind = "timeout") :
              viewers' = [viewers EXCEPT ![v] = Updated(q, c.id, f)]
        BY <3>3 DEF Call, Becomes
      <4>2. f \in Int
        <5>1. q.playback_frame \in Int /\ MaxFrames \in Nat
          BY <3>0, PlaybackAssumption DEF Record
        <5>. QED
          BY <4>1, <5>1 DEF Due
      <4>3. InOrder(r, Updated(q, c.id, f))
        BY <3>0, <4>1, <4>2, CallInOrder
      <4>. HIDE DEF q
      <4>. QED
        BY <2>2, <4>1, <4>3
    <3>4. ASSUME NEW c \in viewers[v].calls, ImageError(v, c) PROVE Orders
      <4>. DEFINE r == viewers[v]
                  d == [c EXCEPT !.kind = "timeout"]
                  s == [r EXCEPT !.calls = (@ \ {c}) \cup {d}]
      <4>1. viewers' = [viewers EXCEPT ![v] = s]
        BY <2>0, <3>4 DEF ImageError
      <4>2. s.calls \subseteq r.calls \cup {d}
        BY <3>0 DEF Record
      <4>3. d.kind = "timeout"
        <5>1. c \in [id : Nat, kind : {"image", "timeout"}, frame : Int]
          BY <3>0 DEF Record
        <5>. QED
          BY <5>1
      <4>. HIDE DEF d, s
      <4>4. InOrder(r, s)
        BY <4>2, <4>3, RequestsNothing
      <4>. QED
        BY <2>2, <4>1, <4>4
    <3>. QED
      BY <2>10, <3>1, <3>2, <3>3, <3>4 DEF Browser
  <2>. QED
    BY <1>1, <2>4, <2>5, <2>6, <2>7, <2>8, <2>9, <2>10 DEF Next
<1>. HIDE DEF Orders
<1>2. IInv /\ [Next]_vars => [Orders]_vars
  BY <1>1
<1>3. Spec => [][Orders]_vars
  BY <1>2, Invariant, PTL DEF Spec
<1>. QED
  BY <1>3 DEF BurnsInOrder, Orders

=============================================================================
